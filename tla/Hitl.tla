-------------------------------- MODULE Hitl --------------------------------
(***************************************************************************)
(* Questions to the user.  An asker, either the operator's ask_user tool   *)
(* or a node of a graph, registers a request with the broker               *)
(* (internal/hitl/broker.go) and waits; the service keeps the queue of     *)
(* open blockers, the outcome a response records before it is delivered    *)
(* and the history in the store (internal/service/local_blockers.go).      *)
(* Clients answer or dismiss; two of them may do so at once.  Each action  *)
(* below is one section under a lock, one statement of the store or one    *)
(* operation on a channel.                                                 *)
(***************************************************************************)
EXTENDS Naturals

CONSTANTS Asks,          \* request ids, each used by one ask (they are UUIDs)
          OperatorAsks,  \* those of promptUser, whose wait is bounded
          Calls,         \* the RespondToPrompt and DismissPrompt calls of clients;
                         \* a call stands for the text it carries
          NoCall,        \* no text: an empty channel, the record of a dismissal
          MaxRestarts    \* bound: deaths of the server

ASSUME AsksAssumption == OperatorAsks \subseteq Asks
ASSUME CallsAssumption == NoCall \notin Calls
ASSUME RestartsAssumption == MaxRestarts \in Nat

VARIABLES asker,     \* the goroutine in Ask, per request
          pending,   \* Broker.pending
          answers,   \* what the channel of a request holds
          blockers,  \* the queue of open blockers
          outcomes,  \* blockerOutcomes
          rows,      \* table blockers of the store
          call,      \* the handlers of the clients' calls
          restarts

vars == <<asker, pending, answers, blockers, outcomes, rows, call, restarts>>
serviceVars == <<blockers, outcomes, rows>>

AskerPC == {"idle", "adding", "persisting", "waiting", "quitting", "resolving",
            "recording", "done", "dead"}
Dispositions == {"answered", "dismissed", "cancelled"}
Outcome == [disposition : Dispositions, answer : Calls \cup {NoCall}]
Nothing == [disposition |-> "cancelled", answer |-> NoCall]
Kinds == {"answered", "dismissed"}

AskerState ==
  [pc : AskerPC,
   ctx : {"live", "timedout", "cancelled"},
   got : Calls \cup {NoCall},                              \* what Ask returned
   result : {"nothing", "answer", "no response", "error"}, \* what the asker makes of it
   outcome : Outcome]                                      \* ResolveBlocker's local

CallPC == {"idle", "responding", "sending", "refused", "ok", "error", "lost"}
CallState == [pc : CallPC,
              ask : Asks,
              kind : Kinds]

Rows == {"none", "open"} \cup Dispositions

TypeOK ==
  /\ asker \in [Asks -> AskerState]
  /\ pending \subseteq Asks /\ blockers \subseteq Asks
  /\ answers \in [Asks -> Calls \cup {NoCall}]
  /\ outcomes \in [Asks -> Outcome]
  /\ rows \in [Asks -> [status : Rows, answer : Calls \cup {NoCall}]]
  /\ call \in [Calls -> CallState]
  /\ restarts \in 0..MaxRestarts

Init ==
  /\ asker = [a \in Asks |-> [pc |-> "idle", ctx |-> "live", got |-> NoCall,
                              result |-> "nothing", outcome |-> Nothing]]
  /\ pending = {} /\ blockers = {}
  /\ answers = [a \in Asks |-> NoCall]
  /\ outcomes = [a \in Asks |-> Nothing]
  /\ rows = [a \in Asks |-> [status |-> "none", answer |-> NoCall]]
  /\ call \in [Calls -> [pc : {"idle"}, ask : Asks, kind : Kinds]]
  /\ restarts = 0

At(a, pc) == asker[a].pc = pc
Goto(a, pc) == asker' = [asker EXCEPT ![a].pc = pc]
Asking(a) == asker[a].pc \notin {"idle", "done", "dead"}

-----------------------------------------------------------------------------
(* The asker. *)

\* Ask, up to the unlock: the channel exists before anybody hears of the request.
Register(a) ==
  /\ At(a, "idle") /\ a \notin pending
  /\ pending' = pending \cup {a}
  /\ Goto(a, "adding")
  /\ UNCHANGED <<answers, serviceVars, call, restarts>>

\* addBlocker, called as Ask's broadcast: the queue under its lock, then the row.
AddBlocker(a) ==
  /\ At(a, "adding")
  /\ blockers' = blockers \cup {a}
  /\ Goto(a, "persisting")
  /\ UNCHANGED <<pending, answers, outcomes, rows, call, restarts>>

CreateBlocker(a) ==
  /\ At(a, "persisting")
  /\ rows' = [rows EXCEPT ![a].status = "open"]
  /\ Goto(a, "waiting")
  /\ UNCHANGED <<pending, answers, blockers, outcomes, call, restarts>>

\* The two cases of Ask's select; when both are ready Go takes either.
TakeAnswer(a) ==
  /\ At(a, "waiting") /\ answers[a] # NoCall
  /\ asker' = [asker EXCEPT ![a].pc = "resolving", ![a].got = answers[a],
                            ![a].result = "answer"]
  /\ answers' = [answers EXCEPT ![a] = NoCall]
  /\ UNCHANGED <<pending, serviceVars, call, restarts>>

\* Mutant: Ask is given the context of the turn instead of the bounded one.
SeeDone_OfTheTurn(a) ==
  /\ At(a, "waiting") /\ asker[a].ctx = "cancelled"
  /\ Goto(a, "quitting")
  /\ UNCHANGED <<pending, answers, serviceVars, call, restarts>>

SeeDone(a) ==
  /\ At(a, "waiting") /\ asker[a].ctx # "live"
  /\ Goto(a, "quitting")
  /\ UNCHANGED <<pending, answers, serviceVars, call, restarts>>

\* Mutant: a cancelled wait returns without the deferred ResolveBlocker.
Quit_NoResolve(a) ==
  /\ At(a, "quitting")
  /\ pending' = pending \ {a}
  /\ asker' = [asker EXCEPT ![a].pc = "done", ![a].result = "error"]
  /\ UNCHANGED <<answers, serviceVars, call, restarts>>

\* The cancelled branch of Ask, and promptUser's reading of the error: a timeout
\* alone is an answer of its own to the model, anything else is an error.
Quit(a) ==
  /\ At(a, "quitting")
  /\ pending' = pending \ {a}
  /\ asker' = [asker EXCEPT ![a].pc = "resolving",
                 ![a].result = IF asker[a].ctx = "timedout" THEN "no response" ELSE "error"]
  /\ UNCHANGED <<answers, serviceVars, call, restarts>>

\* Mutant: the outcome is read after it was deleted.
ResolveBlocker_ReadsLate(a) ==
  /\ At(a, "resolving")
  /\ blockers' = blockers \ {a}
  /\ outcomes' = [outcomes EXCEPT ![a] = Nothing]
  /\ asker' = [asker EXCEPT ![a].outcome = outcomes'[a],
                            ![a].pc = IF a \in blockers THEN "recording" ELSE "done"]
  /\ UNCHANGED <<pending, answers, rows, call, restarts>>

\* ResolveBlocker, deferred around Ask: the section under the lock, then the row.
ResolveBlocker(a) ==
  /\ At(a, "resolving")
  /\ blockers' = blockers \ {a}
  /\ outcomes' = [outcomes EXCEPT ![a] = Nothing]
  /\ asker' = [asker EXCEPT ![a].outcome = outcomes[a],
                            ![a].pc = IF a \in blockers THEN "recording" ELSE "done"]
  /\ UNCHANGED <<pending, answers, rows, call, restarts>>

ResolveBlockerRecord(a) ==
  /\ At(a, "recording")
  /\ rows' = IF rows[a].status = "open"
             THEN [rows EXCEPT ![a] = [status |-> asker[a].outcome.disposition,
                                       answer |-> asker[a].outcome.answer]]
             ELSE rows
  /\ Goto(a, "done")
  /\ UNCHANGED <<pending, answers, blockers, outcomes, call, restarts>>

AskerStep(a) ==
  \/ Register(a) \/ AddBlocker(a) \/ CreateBlocker(a)
  \/ TakeAnswer(a) \/ SeeDone(a) \/ Quit(a)
  \/ ResolveBlocker(a) \/ ResolveBlockerRecord(a)

\* askUserTimeout; a graph node waits without a limit.
Timeout(a) ==
  /\ a \in OperatorAsks /\ Asking(a) /\ asker[a].ctx = "live"
  /\ asker' = [asker EXCEPT ![a].ctx = "timedout"]
  /\ UNCHANGED <<pending, answers, serviceVars, call, restarts>>

\* The task is cancelled, the operator replaced, the server asked to stop.
CancelContext(a) ==
  /\ Asking(a) /\ asker[a].ctx # "cancelled"
  /\ asker' = [asker EXCEPT ![a].ctx = "cancelled"]
  /\ UNCHANGED <<pending, answers, serviceVars, call, restarts>>

-----------------------------------------------------------------------------
(* A client's call. *)

\* A client has a request id from the queue or from an event, possibly an old one.
Known(a) == asker[a].pc \notin {"idle", "adding"}

CallAt(c, pc) == call[c].pc = pc
CallGoto(c, pc) == call' = [call EXCEPT ![c].pc = pc]
OutcomeOf(c) == [disposition |-> call[c].kind,
                 answer |-> IF call[c].kind = "answered" THEN c ELSE NoCall]

RecordOutcome(c) ==
  /\ CallAt(c, "idle") /\ Known(call[c].ask)
  /\ outcomes' = [outcomes EXCEPT ![call[c].ask] = OutcomeOf(c)]
  /\ CallGoto(c, "responding")
  /\ UNCHANGED <<asker, pending, answers, blockers, rows, restarts>>

\* Mutant: the request stays pending after it was answered.
Respond_KeepsPending(c) ==
  /\ CallAt(c, "responding")
  /\ CallGoto(c, IF call[c].ask \in pending THEN "sending" ELSE "refused")
  /\ UNCHANGED <<asker, pending, answers, serviceVars, restarts>>

\* Respond: the lookup and the delete under one lock, the send after it.
Respond(c) ==
  /\ CallAt(c, "responding")
  /\ pending' = pending \ {call[c].ask}
  /\ CallGoto(c, IF call[c].ask \in pending THEN "sending" ELSE "refused")
  /\ UNCHANGED <<asker, answers, serviceVars, restarts>>

\* Mutant: the channel has no buffer.
Send_Unbuffered(c) ==
  /\ CallAt(c, "sending") /\ At(call[c].ask, "waiting") /\ answers[call[c].ask] = NoCall
  /\ answers' = [answers EXCEPT ![call[c].ask] = c]
  /\ CallGoto(c, "ok")
  /\ UNCHANGED <<asker, pending, serviceVars, restarts>>

\* The channel holds one text: a second send blocks.
Send(c) ==
  /\ CallAt(c, "sending") /\ answers[call[c].ask] = NoCall
  /\ answers' = [answers EXCEPT ![call[c].ask] = c]
  /\ CallGoto(c, "ok")
  /\ UNCHANGED <<asker, pending, serviceVars, restarts>>

\* Mutant: a refused call leaves its outcome behind.
ClearOutcome_Forgotten(c) ==
  /\ CallAt(c, "refused")
  /\ CallGoto(c, "error")
  /\ UNCHANGED <<asker, pending, answers, serviceVars, restarts>>

ClearOutcome(c) ==
  /\ CallAt(c, "refused")
  /\ outcomes' = [outcomes EXCEPT ![call[c].ask] = Nothing]
  /\ CallGoto(c, "error")
  /\ UNCHANGED <<asker, pending, answers, blockers, rows, restarts>>

Handler(c) == Respond(c) \/ Send(c) \/ ClearOutcome(c)

-----------------------------------------------------------------------------
\* The server dies; only the table survives, and SweepUnresolvedBlockers marks
\* what was open before anything else runs.
Restart ==
  /\ restarts < MaxRestarts
  /\ restarts' = restarts + 1
  /\ asker' = [a \in Asks |-> IF asker[a].pc \in {"idle", "done"} THEN asker[a]
                           ELSE [asker[a] EXCEPT !.pc = "dead"]]
  /\ pending' = {} /\ blockers' = {}
  /\ answers' = [a \in Asks |-> NoCall]
  /\ outcomes' = [a \in Asks |-> Nothing]
  /\ rows' = [a \in Asks |-> IF rows[a].status = "open"
                             THEN [rows[a] EXCEPT !.status = "cancelled"] ELSE rows[a]]
  /\ call' = [c \in Calls |-> IF call[c].pc \in {"responding", "sending", "refused"}
                              THEN [call[c] EXCEPT !.pc = "lost"] ELSE call[c]]

Next ==
  \/ \E a \in Asks : AskerStep(a) \/ Timeout(a) \/ CancelContext(a)
  \/ \E c \in Calls : RecordOutcome(c) \/ Handler(c)
  \/ Restart

Spec == Init /\ [][Next]_vars

\* Goroutines that can run do, and the timer of promptUser fires.  Whether a
\* question is asked, answered or cancelled is up to models and users.
Fairness ==
  /\ \A a \in Asks : WF_vars(AskerStep(a) /\ Asking(a)) /\ WF_vars(Timeout(a))
  /\ \A c \in Calls : WF_vars(Handler(c))

FairSpec == Spec /\ Fairness

-----------------------------------------------------------------------------
(* Safety *)

Accepted(c, a) == call[c].ask = a /\ call[c].pc \in {"sending", "ok"}
Handled(c, a) == call[c].ask = a /\ call[c].pc \in {"responding", "refused"}
Alone(c, a) == \A d \in Calls : call[d].ask = a /\ d # c => CallAt(d, "idle")

\* However many clients answer a question at once, one of them is told it
\* succeeded, and what the asker gets is that client's text (Respond looks up
\* and deletes under one lock, so the send to the channel never blocks).
OneAnswerIsAccepted ==
  \A a \in Asks :
    /\ \A c, d \in Calls : Accepted(c, a) /\ Accepted(d, a) => c = d
    /\ asker[a].got # NoCall => Accepted(asker[a].got, a)

\* A question in the queue, or open in the table, has an asker that will still
\* take it out: clients are not shown a question nobody waits for
\* (the deferred ResolveBlocker, SweepUnresolvedBlockers at boot).
QueueHasAskers ==
  \A a \in Asks :
    /\ a \in blockers => asker[a].pc \in {"persisting", "waiting", "quitting", "resolving"}
    /\ rows[a].status = "open" => asker[a].pc \in {"waiting", "quitting", "resolving", "recording"}

\* An outcome recorded before the delivery does not outlive the question unless
\* its call is still about to clear it (blockerOutcomes does not grow).
OutcomesAreTransient ==
  \A a \in Asks :
    outcomes[a] # Nothing /\ ~Asking(a) => \E c \in Calls : Handled(c, a)

\* With a single client the history tells how the question ended and what the
\* asker got: the outcome is recorded before the delivery because "the waiter may
\* resolve immediately on delivery".
UncontestedOutcomeIsRecorded ==
  \A a \in Asks :
    LET c == asker[a].got
    IN  At(a, "done") /\ c # NoCall /\ Alone(c, a) =>
          rows[a] = [status |-> OutcomeOf(c).disposition, answer |-> OutcomeOf(c).answer]

-----------------------------------------------------------------------------
(* Liveness *)

Ended(a) == asker[a].pc \in {"done", "dead"}

\* No client hangs in a call, however many answer the same question.
CallsReturn ==
  \A c \in Calls : CallAt(c, "responding") ~> call[c].pc \in {"ok", "error", "lost"}

\* A question of the operator "must resolve eventually or the whole operator
\* freezes", and an accepted answer releases any asker.
WaitsEnd ==
  /\ \A a \in OperatorAsks : At(a, "adding") ~> Ended(a)
  /\ \A c \in Calls : CallAt(c, "ok") ~> Ended(call[c].ask)
=============================================================================
