----------------------------- MODULE HitlProofs -----------------------------
(***************************************************************************)
(* The safety of Hitl for any number of questions, clients and restarts.   *)
(* The argument is about who still holds a request: while it is pending    *)
(* nobody has been accepted for it, and it is pending only between the     *)
(* registration and the return of Ask.  Hence one acceptance, hence a send *)
(* that finds the channel empty, hence an outcome that only the resolution *)
(* or a refused call takes away.                                           *)
(***************************************************************************)
EXTENDS Hitl, TLAPS

Waiting == {"adding", "persisting", "waiting", "quitting"}
Queued == {"persisting", "waiting", "quitting", "resolving"}

\* A pending request has its asker in Ask, an empty channel and no acceptance.
PendingInv ==
  \A a \in pending : /\ asker[a].pc \in Waiting
                     /\ answers[a] = NoCall
                     /\ \A c \in Calls : ~Accepted(c, a)

\* What is in the channel was accepted, and the asker has nothing yet.
ChannelInv ==
  \A a \in Asks : answers[a] # NoCall =>
    /\ answers[a] \in Calls
    /\ call[answers[a]].ask = a /\ CallAt(answers[a], "ok")
    /\ asker[a].got = NoCall

\* Only calls for a question that is known are under way, and an asker that has
\* an answer has left the select.
AskerInv ==
  \A a \in Asks :
    /\ \A c \in Calls : call[c].ask = a /\ ~CallAt(c, "idle") => Known(a)
    /\ asker[a].got # NoCall =>
         /\ asker[a].pc \in {"resolving", "recording", "done", "dead"}
         /\ asker[a].got \in Calls
         /\ CallAt(asker[a].got, "ok")

\* The row is written between the queue and the wait, and closed last.
RowInv ==
  \A a \in Asks :
    /\ asker[a].pc \in {"idle", "adding", "persisting"} => rows[a].status # "open"
    /\ asker[a].pc \in {"waiting", "quitting", "resolving", "recording"} => rows[a].status = "open"
    /\ asker[a].pc \in {"done", "dead"} => rows[a].status # "open"
    /\ a \in blockers <=> asker[a].pc \in Queued

\* An outcome whose question has been resolved belongs to a call under way.
OutcomeInv ==
  \A a \in Asks :
    outcomes[a] # Nothing /\ asker[a].pc \notin Queued => \E c \in Calls : Handled(c, a)

\* A call that no other contests keeps its outcome until the row has it.
ContestInv ==
  \A a \in Asks, c \in Calls :
    call[c].ask = a /\ Alone(c, a) =>
      /\ call[c].pc \in {"responding", "sending", "ok"} /\ asker[a].pc \in Queued =>
           outcomes[a] = OutcomeOf(c)
      /\ asker[a].got = c /\ At(a, "recording") => asker[a].outcome = OutcomeOf(c)
      /\ asker[a].got = c /\ At(a, "done") =>
           rows[a] = [status |-> OutcomeOf(c).disposition, answer |-> OutcomeOf(c).answer]

IInv == /\ TypeOK /\ PendingInv /\ ChannelInv /\ AskerInv /\ RowInv
        /\ OneAnswerIsAccepted /\ OutcomeInv /\ ContestInv

-----------------------------------------------------------------------------
(* What the moves of askers and calls change. *)

\* An asker goes to another step and nothing else about it changes.
Moves(a, pc) ==
  /\ asker' \in [Asks -> AskerState]
  /\ asker'[a].pc = pc /\ asker'[a].got = asker[a].got /\ asker'[a].outcome = asker[a].outcome
  /\ \A b \in Asks \ {a} : asker'[b] = asker[b]

\* A call goes to another step.
CallMoves(c, pc) ==
  /\ call' \in [Calls -> CallState]
  /\ \A d \in Calls : /\ call'[d].ask = call[d].ask /\ call'[d].kind = call[d].kind
                      /\ call'[d].pc = IF d = c THEN pc ELSE call[d].pc

\* An asker has its type.
LEMMA AskerLemma ==
  ASSUME TypeOK, NEW a \in Asks
  PROVE  asker[a] \in AskerState
BY DEF TypeOK

\* A record of an asker put in its place.
LEMMA PutLemma ==
  ASSUME TypeOK, NEW a \in Asks, NEW y \in AskerState, asker' = [asker EXCEPT ![a] = y]
  PROVE  /\ asker' \in [Asks -> AskerState] /\ asker'[a] = y
         /\ \A b \in Asks \ {a} : asker'[b] = asker[b]
BY DEF TypeOK

\* The updates of an asker's record that the code makes.
LEMMA GotoRecord ==
  ASSUME NEW x \in AskerState, NEW pc \in AskerPC
  PROVE  LET y == [x EXCEPT !.pc = pc]
         IN  y \in AskerState /\ y.pc = pc /\ y.got = x.got /\ y.outcome = x.outcome
BY DEF AskerState

LEMMA ContextRecord ==
  ASSUME NEW x \in AskerState, NEW c \in {"live", "timedout", "cancelled"}
  PROVE  LET y == [x EXCEPT !.ctx = c]
         IN  y \in AskerState /\ y.pc = x.pc /\ y.got = x.got /\ y.outcome = x.outcome
BY DEF AskerState

\* Goto changes the step of one asker.
LEMMA GotoLemma ==
  ASSUME TypeOK, NEW a \in Asks, NEW pc \in AskerPC, Goto(a, pc)
  PROVE  Moves(a, pc)
<1>. DEFINE y == [asker[a] EXCEPT !.pc = pc]
<1>1. y \in AskerState /\ y.pc = pc /\ y.got = asker[a].got /\ y.outcome = asker[a].outcome
  BY AskerLemma, GotoRecord
<1>2. asker' = [asker EXCEPT ![a] = y]
  BY DEF Goto
<1>. HIDE DEF y
<1>. QED BY <1>1, <1>2, PutLemma DEF Moves

\* The end of the context changes no other field of the asker.
LEMMA ContextLemma ==
  ASSUME TypeOK, NEW a \in Asks, NEW x \in {"live", "timedout", "cancelled"},
         asker' = [asker EXCEPT ![a].ctx = x]
  PROVE  Moves(a, asker[a].pc)
<1>. DEFINE y == [asker[a] EXCEPT !.ctx = x]
<1>1. y \in AskerState /\ y.pc = asker[a].pc /\ y.got = asker[a].got
      /\ y.outcome = asker[a].outcome
  BY AskerLemma, ContextRecord
<1>2. asker' = [asker EXCEPT ![a] = y]
  OBVIOUS
<1>. HIDE DEF y
<1>. QED BY <1>1, <1>2, PutLemma DEF Moves

\* Nor does what the asker makes of the error.
LEMMA QuitLemma ==
  ASSUME TypeOK, NEW a \in Asks, NEW x \in {"no response", "error"},
         asker' = [asker EXCEPT ![a].pc = "resolving", ![a].result = x]
  PROVE  Moves(a, "resolving")
<1>. DEFINE y == [asker[a] EXCEPT !.pc = "resolving", !.result = x]
<1>1. "resolving" \in AskerPC
  BY DEF AskerPC
<1>2. y \in AskerState /\ y.pc = "resolving" /\ y.got = asker[a].got
      /\ y.outcome = asker[a].outcome
  <2>1. asker[a] \in AskerState
    BY AskerLemma
  <2>. QED BY <1>1, <2>1 DEF AskerState
<1>3. asker' = [asker EXCEPT ![a] = y]
  BY DEF TypeOK
<1>. HIDE DEF y
<1>. QED BY <1>2, <1>3, PutLemma DEF Moves

\* CallGoto changes the step of one call.
LEMMA CallGotoLemma ==
  ASSUME TypeOK, NEW c \in Calls, NEW pc \in CallPC, CallGoto(c, pc)
  PROVE  CallMoves(c, pc)
BY DEF TypeOK, CallState, CallGoto, CallMoves

\* While no call moves, who is contested and what a call records stay.
LEMMA CallsFrame ==
  ASSUME UNCHANGED call, NEW a \in Asks, NEW c \in Calls
  PROVE  (Alone(c, a)' <=> Alone(c, a)) /\ OutcomeOf(c)' = OutcomeOf(c)
BY DEF Alone, CallAt, OutcomeOf

-----------------------------------------------------------------------------
(* The steps of an asker. *)

\* The request becomes pending before anybody knows of it.
LEMMA RegisterStep ==
  ASSUME IInv, NEW a \in Asks, Register(a)
  PROVE  IInv'
<1>1. /\ Moves(a, "adding")
      /\ asker[a].pc = "idle" /\ pending' = pending \cup {a}
      /\ UNCHANGED <<answers, blockers, outcomes, rows, call, restarts>>
  BY GotoLemma DEF IInv, Register, AskerPC, At, serviceVars
<1>2. TypeOK'
  BY <1>1 DEF IInv, TypeOK, Moves, CallMoves
<1>3. PendingInv'
  <2>1. \A c \in Calls : call[c].ask = a => CallAt(c, "idle")
    BY <1>1 DEF IInv, AskerInv, Known
  <2>2. answers[a] = NoCall
    BY <2>1 DEF IInv, ChannelInv, CallAt
  <2>. QED BY <1>1, <2>1, <2>2 DEF IInv, TypeOK, PendingInv, Waiting, Accepted, CallAt, Moves
<1>4. ChannelInv'
  BY <1>1 DEF IInv, TypeOK, ChannelInv, CallAt, Moves
<1>5. AskerInv'
  BY <1>1 DEF IInv, TypeOK, AskerInv, Known, CallAt, Moves
<1>6. RowInv'
  BY <1>1 DEF IInv, TypeOK, RowInv, Queued, Moves
<1>7. OneAnswerIsAccepted'
  BY <1>1 DEF IInv, TypeOK, OneAnswerIsAccepted, Accepted, Moves
<1>8. OutcomeInv'
  BY <1>1 DEF IInv, TypeOK, OutcomeInv, Queued, Handled, Moves
<1>9. ContestInv'
  BY <1>1, CallsFrame DEF IInv, ContestInv, Queued, At, Moves
<1>. QED BY <1>2, <1>3, <1>4, <1>5, <1>6, <1>7, <1>8, <1>9 DEF IInv

\* The question enters the queue.
LEMMA AddBlockerStep ==
  ASSUME IInv, NEW a \in Asks, AddBlocker(a)
  PROVE  IInv'
<1>1. Moves(a, "persisting")
  BY GotoLemma DEF IInv, AddBlocker, AskerPC
<1>2. TypeOK'
  BY <1>1 DEF IInv, TypeOK, serviceVars, At, Moves, AddBlocker
<1>3. PendingInv'
  BY <1>1 DEF IInv, TypeOK, PendingInv, Waiting, Accepted, serviceVars, At, Moves, AddBlocker
<1>4. ChannelInv'
  BY <1>1 DEF IInv, TypeOK, ChannelInv, CallAt, serviceVars, At, Moves, AddBlocker
<1>5. AskerInv'
  BY <1>1 DEF IInv, TypeOK, AskerInv, Known, CallAt, serviceVars, At, Moves, AddBlocker
<1>6. RowInv'
  BY <1>1 DEF IInv, TypeOK, RowInv, Queued, serviceVars, At, Moves, AddBlocker
<1>7. OneAnswerIsAccepted'
  BY <1>1 DEF IInv, TypeOK, OneAnswerIsAccepted, Accepted, serviceVars, At, Moves, AddBlocker
<1>8. OutcomeInv'
  BY <1>1 DEF IInv, TypeOK, OutcomeInv, Queued, Handled, serviceVars, At, Moves, AddBlocker
<1>9. ContestInv'
  BY <1>1, CallsFrame DEF IInv, ContestInv, Queued, CallAt, At, serviceVars, Moves, AddBlocker, AskerInv, Known
<1>. QED BY <1>2, <1>3, <1>4, <1>5, <1>6, <1>7, <1>8, <1>9 DEF IInv

\* The row is opened.
LEMMA CreateBlockerStep ==
  ASSUME IInv, NEW a \in Asks, CreateBlocker(a)
  PROVE  IInv'
<1>1. Moves(a, "waiting")
  BY GotoLemma DEF IInv, CreateBlocker, AskerPC
<1>2. TypeOK'
  BY <1>1 DEF IInv, TypeOK, serviceVars, At, Moves, CreateBlocker, Rows
<1>3. PendingInv'
  BY <1>1 DEF IInv, TypeOK, PendingInv, Waiting, Accepted, serviceVars, At, Moves, CreateBlocker
<1>4. ChannelInv'
  BY <1>1 DEF IInv, TypeOK, ChannelInv, CallAt, serviceVars, At, Moves, CreateBlocker
<1>5. AskerInv'
  BY <1>1 DEF IInv, TypeOK, AskerInv, Known, CallAt, serviceVars, At, Moves, CreateBlocker
<1>6. RowInv'
  BY <1>1 DEF IInv, TypeOK, RowInv, Queued, serviceVars, At, Moves, CreateBlocker
<1>7. OneAnswerIsAccepted'
  BY <1>1 DEF IInv, TypeOK, OneAnswerIsAccepted, Accepted, serviceVars, At, Moves, CreateBlocker
<1>8. OutcomeInv'
  BY <1>1 DEF IInv, TypeOK, OutcomeInv, Queued, Handled, serviceVars, At, Moves, CreateBlocker
<1>9. ContestInv'
  BY <1>1, CallsFrame DEF IInv, ContestInv, Queued, At, serviceVars, Moves, CreateBlocker
<1>. QED BY <1>2, <1>3, <1>4, <1>5, <1>6, <1>7, <1>8, <1>9 DEF IInv

\* The asker has seen the end of its context.
LEMMA SeeDoneStep ==
  ASSUME IInv, NEW a \in Asks, SeeDone(a)
  PROVE  IInv'
<1>1. Moves(a, "quitting")
  BY GotoLemma DEF IInv, SeeDone, AskerPC
<1>2. TypeOK'
  BY <1>1 DEF IInv, TypeOK, serviceVars, At, Moves, SeeDone
<1>3. PendingInv'
  BY <1>1 DEF IInv, TypeOK, PendingInv, Waiting, Accepted, serviceVars, At, Moves, SeeDone
<1>4. ChannelInv'
  BY <1>1 DEF IInv, TypeOK, ChannelInv, CallAt, serviceVars, At, Moves, SeeDone
<1>5. AskerInv'
  BY <1>1 DEF IInv, TypeOK, AskerInv, Known, CallAt, serviceVars, At, Moves, SeeDone
<1>6. RowInv'
  BY <1>1 DEF IInv, TypeOK, RowInv, Queued, serviceVars, At, Moves, SeeDone
<1>7. OneAnswerIsAccepted'
  BY <1>1 DEF IInv, TypeOK, OneAnswerIsAccepted, Accepted, serviceVars, At, Moves, SeeDone
<1>8. OutcomeInv'
  BY <1>1 DEF IInv, TypeOK, OutcomeInv, Queued, Handled, serviceVars, At, Moves, SeeDone
<1>9. ContestInv'
  BY <1>1, CallsFrame DEF IInv, ContestInv, Queued, At, serviceVars, Moves, SeeDone
<1>. QED BY <1>2, <1>3, <1>4, <1>5, <1>6, <1>7, <1>8, <1>9 DEF IInv

\* Ask returns without an answer.
LEMMA QuitStep ==
  ASSUME IInv, NEW a \in Asks, Quit(a)
  PROVE  IInv'
<1>1. /\ Moves(a, "resolving")
      /\ asker[a].pc = "quitting" /\ pending' = pending \ {a}
      /\ UNCHANGED <<answers, blockers, outcomes, rows, call, restarts>>
  BY QuitLemma DEF IInv, Quit, At, serviceVars
<1>2. TypeOK'
  BY <1>1 DEF IInv, TypeOK, Moves, CallMoves
<1>3. PendingInv'
  BY <1>1 DEF IInv, TypeOK, PendingInv, Waiting, Accepted, Moves
<1>4. ChannelInv'
  BY <1>1 DEF IInv, TypeOK, ChannelInv, CallAt, Moves
<1>5. AskerInv'
  BY <1>1 DEF IInv, TypeOK, AskerInv, Known, CallAt, Moves
<1>6. RowInv'
  BY <1>1 DEF IInv, TypeOK, RowInv, Queued, Moves
<1>7. OneAnswerIsAccepted'
  BY <1>1 DEF IInv, TypeOK, OneAnswerIsAccepted, Accepted, Moves
<1>8. OutcomeInv'
  BY <1>1 DEF IInv, TypeOK, OutcomeInv, Queued, Handled, Moves
<1>9. ContestInv'
  BY <1>1, CallsFrame DEF IInv, ContestInv, Queued, At, Moves
<1>. QED BY <1>2, <1>3, <1>4, <1>5, <1>6, <1>7, <1>8, <1>9 DEF IInv

\* The timer fires.
LEMMA TimeoutStep ==
  ASSUME IInv, NEW a \in Asks, Timeout(a)
  PROVE  IInv'
<1>1. /\ Moves(a, asker[a].pc)
      /\ UNCHANGED <<pending, answers, blockers, outcomes, rows, call, restarts>>
  BY ContextLemma DEF IInv, Timeout, serviceVars
<1>2. TypeOK'
  BY <1>1 DEF IInv, TypeOK, Moves, CallMoves
<1>3. PendingInv'
  BY <1>1 DEF IInv, TypeOK, PendingInv, Waiting, Accepted, Moves
<1>4. ChannelInv'
  BY <1>1 DEF IInv, TypeOK, ChannelInv, CallAt, Moves
<1>5. AskerInv'
  BY <1>1 DEF IInv, TypeOK, AskerInv, Known, CallAt, Moves
<1>6. RowInv'
  BY <1>1 DEF IInv, TypeOK, RowInv, Queued, Moves
<1>7. OneAnswerIsAccepted'
  BY <1>1 DEF IInv, TypeOK, OneAnswerIsAccepted, Accepted, Moves
<1>8. OutcomeInv'
  BY <1>1 DEF IInv, TypeOK, OutcomeInv, Queued, Handled, Moves
<1>9. ContestInv'
  BY <1>1, CallsFrame DEF IInv, ContestInv, Queued, At, Moves
<1>. QED BY <1>2, <1>3, <1>4, <1>5, <1>6, <1>7, <1>8, <1>9 DEF IInv

\* The context is cancelled.
LEMMA CancelContextStep ==
  ASSUME IInv, NEW a \in Asks, CancelContext(a)
  PROVE  IInv'
<1>1. /\ Moves(a, asker[a].pc)
      /\ UNCHANGED <<pending, answers, blockers, outcomes, rows, call, restarts>>
  BY ContextLemma DEF IInv, CancelContext, serviceVars
<1>2. TypeOK'
  BY <1>1 DEF IInv, TypeOK, Moves, CallMoves
<1>3. PendingInv'
  BY <1>1 DEF IInv, TypeOK, PendingInv, Waiting, Accepted, Moves
<1>4. ChannelInv'
  BY <1>1 DEF IInv, TypeOK, ChannelInv, CallAt, Moves
<1>5. AskerInv'
  BY <1>1 DEF IInv, TypeOK, AskerInv, Known, CallAt, Moves
<1>6. RowInv'
  BY <1>1 DEF IInv, TypeOK, RowInv, Queued, Moves
<1>7. OneAnswerIsAccepted'
  BY <1>1 DEF IInv, TypeOK, OneAnswerIsAccepted, Accepted, Moves
<1>8. OutcomeInv'
  BY <1>1 DEF IInv, TypeOK, OutcomeInv, Queued, Handled, Moves
<1>9. ContestInv'
  BY <1>1, CallsFrame DEF IInv, ContestInv, Queued, At, Moves
<1>. QED BY <1>2, <1>3, <1>4, <1>5, <1>6, <1>7, <1>8, <1>9 DEF IInv

\* Ask returns the text of the channel, whose call was accepted; nobody else was.
LEMMA TakeLemma ==
  ASSUME TypeOK, NEW a \in Asks, TakeAnswer(a)
  PROVE  /\ asker' \in [Asks -> AskerState]
         /\ asker'[a].pc = "resolving" /\ asker'[a].got = answers[a]
         /\ \A b \in Asks \ {a} : asker'[b] = asker[b]
<1>1. "resolving" \in AskerPC /\ answers[a] \in Calls \cup {NoCall} /\ asker[a] \in AskerState
  BY DEF AskerPC, TypeOK
<1>2. asker' = [asker EXCEPT ![a] = [asker[a] EXCEPT !.pc = "resolving", !.got = answers[a],
                                                      !.result = "answer"]]
  BY DEF TakeAnswer
<1>3. /\ [asker[a] EXCEPT !.pc = "resolving", !.got = answers[a], !.result = "answer"] \in AskerState
      /\ [asker[a] EXCEPT !.pc = "resolving", !.got = answers[a], !.result = "answer"].pc = "resolving"
      /\ [asker[a] EXCEPT !.pc = "resolving", !.got = answers[a], !.result = "answer"].got = answers[a]
  BY <1>1 DEF AskerState
<1>. QED BY <1>2, <1>3 DEF TypeOK

\* The accepted text reaches the asker.
LEMMA TakeAnswerStep ==
  ASSUME IInv, NEW a \in Asks, TakeAnswer(a)
  PROVE  IInv'
<1>1. /\ asker' \in [Asks -> AskerState]
      /\ asker[a].pc = "waiting" /\ asker'[a].pc = "resolving"
      /\ answers[a] # NoCall /\ asker'[a].got = answers[a]
      /\ \A b \in Asks \ {a} : asker'[b] = asker[b]
      /\ answers' = [answers EXCEPT ![a] = NoCall]
      /\ UNCHANGED <<pending, blockers, outcomes, rows, call, restarts>>
  BY TakeLemma DEF IInv, TakeAnswer, At, serviceVars
<1>2. TypeOK'
  BY <1>1 DEF IInv, TypeOK, Moves, CallMoves
<1>3. PendingInv'
  BY <1>1 DEF IInv, TypeOK, PendingInv, Waiting, Accepted, Moves
<1>4. ChannelInv'
  BY <1>1 DEF IInv, TypeOK, ChannelInv, CallAt, Moves
<1>5. AskerInv'
  BY <1>1 DEF IInv, TypeOK, AskerInv, Known, CallAt, Moves, ChannelInv
<1>6. RowInv'
  BY <1>1 DEF IInv, TypeOK, RowInv, Queued, Moves
<1>7. OneAnswerIsAccepted'
  BY <1>1 DEF IInv, TypeOK, OneAnswerIsAccepted, Accepted, Moves, ChannelInv, CallAt
<1>8. OutcomeInv'
  BY <1>1 DEF IInv, TypeOK, OutcomeInv, Queued, Handled, Moves
<1>9. ContestInv'
  BY <1>1, CallsFrame DEF IInv, ContestInv, Queued, At, Moves
<1>. QED BY <1>2, <1>3, <1>4, <1>5, <1>6, <1>7, <1>8, <1>9 DEF IInv

\* ResolveBlocker takes the outcome along.
LEMMA ResolveLemma ==
  ASSUME TypeOK, NEW a \in Asks, ResolveBlocker(a)
  PROVE  /\ asker' \in [Asks -> AskerState]
         /\ asker'[a].pc = IF a \in blockers THEN "recording" ELSE "done"
         /\ asker'[a].got = asker[a].got /\ asker'[a].outcome = outcomes[a]
         /\ \A b \in Asks \ {a} : asker'[b] = asker[b]
<1>. DEFINE pc == IF a \in blockers THEN "recording" ELSE "done"
            y == [asker[a] EXCEPT !.outcome = outcomes[a], !.pc = pc]
<1>1. pc \in AskerPC /\ outcomes[a] \in Outcome
  BY DEF AskerPC, TypeOK
<1>2. y \in AskerState /\ y.pc = pc /\ y.got = asker[a].got /\ y.outcome = outcomes[a]
  <2>1. asker[a] \in AskerState
    BY AskerLemma
  <2>. HIDE DEF pc
  <2>. QED BY <1>1, <2>1 DEF AskerState
<1>3. asker' = [asker EXCEPT ![a] = y]
  BY DEF TypeOK, ResolveBlocker
<1>. HIDE DEF y
<1>. QED BY <1>2, <1>3, PutLemma

\* The absence of an outcome reads as a cancellation.
LEMMA NothingLemma == Nothing \in Outcome
BY DEF Nothing, Outcome, Dispositions

\* The outcome leaves the queue with its question.
LEMMA ResolveBlockerStep ==
  ASSUME IInv, NEW a \in Asks, ResolveBlocker(a)
  PROVE  IInv'
<1>1. /\ asker' \in [Asks -> AskerState]
      /\ asker[a].pc = "resolving" /\ asker'[a].pc = "recording"
      /\ asker'[a].got = asker[a].got /\ asker'[a].outcome = outcomes[a]
      /\ \A b \in Asks \ {a} : asker'[b] = asker[b]
      /\ blockers' = blockers \ {a} /\ outcomes' = [outcomes EXCEPT ![a] = Nothing]
      /\ UNCHANGED <<pending, answers, rows, call, restarts>>
  BY ResolveLemma DEF IInv, RowInv, Queued, ResolveBlocker, At
<1>2. TypeOK'
  BY <1>1, NothingLemma DEF IInv, TypeOK
<1>3. PendingInv'
  BY <1>1 DEF IInv, TypeOK, PendingInv, Waiting, Accepted, Moves
<1>4. ChannelInv'
  BY <1>1 DEF IInv, TypeOK, ChannelInv, CallAt, Moves
<1>5. AskerInv'
  BY <1>1 DEF IInv, TypeOK, AskerInv, Known, CallAt, Moves
<1>6. RowInv'
  BY <1>1 DEF IInv, TypeOK, RowInv, Queued, Moves
<1>7. OneAnswerIsAccepted'
  BY <1>1 DEF IInv, TypeOK, OneAnswerIsAccepted, Accepted, Moves
<1>8. OutcomeInv'
  BY <1>1 DEF IInv, TypeOK, OutcomeInv, Queued, Handled, Moves
<1>9. ContestInv'
  BY <1>1, CallsAssumption DEF IInv, TypeOK, ContestInv, Queued, Alone, CallAt, At, OutcomeOf, Moves, AskerInv
<1>. QED BY <1>2, <1>3, <1>4, <1>5, <1>6, <1>7, <1>8, <1>9 DEF IInv

\* The row takes the outcome the asker carries.
LEMMA RecordLemma ==
  ASSUME TypeOK, NEW a \in Asks, ResolveBlockerRecord(a)
  PROVE  /\ rows' \in [Asks -> [status : Rows, answer : Calls \cup {NoCall}]]
         /\ rows[a].status = "open" =>
              rows'[a] = [status |-> asker[a].outcome.disposition,
                          answer |-> asker[a].outcome.answer]
         /\ \A b \in Asks \ {a} : rows'[b] = rows[b]
<1>1. asker[a].outcome \in Outcome
  BY DEF TypeOK, AskerState
<1>2. [status |-> asker[a].outcome.disposition, answer |-> asker[a].outcome.answer]
         \in [status : Rows, answer : Calls \cup {NoCall}]
  BY <1>1 DEF Outcome, Rows
<1>. QED BY <1>2 DEF TypeOK, ResolveBlockerRecord

\* No disposition is "open".
LEMMA DispositionLemma ==
  ASSUME TypeOK, NEW a \in Asks
  PROVE  asker[a].outcome.disposition # "open"
BY DEF TypeOK, AskerState, Outcome, Dispositions

\* The row is closed.
LEMMA ResolveBlockerRecordStep ==
  ASSUME IInv, NEW a \in Asks, ResolveBlockerRecord(a)
  PROVE  IInv'
<1>1. /\ Moves(a, "done") /\ asker[a].pc = "recording"
      /\ rows' \in [Asks -> [status : Rows, answer : Calls \cup {NoCall}]]
      /\ rows'[a] = [status |-> asker[a].outcome.disposition, answer |-> asker[a].outcome.answer]
      /\ rows'[a].status # "open"
      /\ \A b \in Asks \ {a} : rows'[b] = rows[b]
      /\ UNCHANGED <<pending, answers, blockers, outcomes, call, restarts>>
  <2>1. "done" \in AskerPC
    BY DEF AskerPC
  <2>2. Moves(a, "done") /\ asker[a].pc = "recording"
        /\ UNCHANGED <<pending, answers, blockers, outcomes, call, restarts>>
    BY <2>1, GotoLemma DEF IInv, ResolveBlockerRecord, At
  <2>3. rows[a].status = "open"
    BY <2>2 DEF IInv, RowInv
  <2>. QED BY <2>2, <2>3, RecordLemma, DispositionLemma DEF IInv
<1>2. TypeOK'
  BY <1>1 DEF IInv, TypeOK, Moves, CallMoves
<1>3. PendingInv'
  BY <1>1 DEF IInv, TypeOK, PendingInv, Waiting, Accepted, Moves
<1>4. ChannelInv'
  BY <1>1 DEF IInv, TypeOK, ChannelInv, CallAt, Moves
<1>5. AskerInv'
  BY <1>1 DEF IInv, TypeOK, AskerInv, Known, CallAt, Moves
<1>6. RowInv'
  BY <1>1 DEF IInv, TypeOK, RowInv, Queued, Moves
<1>7. OneAnswerIsAccepted'
  BY <1>1 DEF IInv, TypeOK, OneAnswerIsAccepted, Accepted, Moves
<1>8. OutcomeInv'
  BY <1>1 DEF IInv, TypeOK, OutcomeInv, Queued, Handled, Moves
<1>9. ContestInv'
  <2>1. ASSUME NEW c \in Calls, call[c].ask = a, Alone(c, a), asker[a].got = c
        PROVE  asker[a].outcome = OutcomeOf(c)
    BY <1>1, <2>1 DEF IInv, ContestInv, At
  <2>2. UNCHANGED call
    BY <1>1
  <2>3. ASSUME NEW b \in Asks, NEW c \in Calls, call[c].ask = b, Alone(c, b)
        PROVE  /\ asker'[b].pc \in Queued => asker[b] = asker'[b] /\ outcomes' = outcomes
               /\ asker'[b].got = c /\ asker'[b].pc = "recording" =>
                    asker[b] = asker'[b]
               /\ asker'[b].got = c /\ asker'[b].pc = "done" =>
                    rows'[b] = [status |-> OutcomeOf(c).disposition,
                                answer |-> OutcomeOf(c).answer]
    <3>1. CASE b = a
      BY <1>1, <2>1, <2>3, <3>1 DEF Moves, Queued
    <3>2. CASE b # a
      BY <1>1, <2>3, <3>2 DEF IInv, ContestInv, At, Moves
    <3>. QED BY <3>1, <3>2
  <2>. QED BY <2>2, <2>3, CallsFrame DEF IInv, ContestInv, At
<1>. QED BY <1>2, <1>3, <1>4, <1>5, <1>6, <1>7, <1>8, <1>9 DEF IInv

-----------------------------------------------------------------------------
(* The steps of a call. *)

\* What a call records is an outcome of a question.
LEMMA OutcomeOfLemma ==
  ASSUME TypeOK, NEW c \in Calls
  PROVE  call[c].ask \in Asks /\ OutcomeOf(c) \in Outcome
<1>1. call[c].ask \in Asks /\ call[c].kind \in Kinds
  BY DEF TypeOK, CallState
<1>. QED BY <1>1 DEF OutcomeOf, Outcome, Kinds, Dispositions

\* The steps a call goes to.
LEMMA CallPC0 == {"idle", "responding", "sending", "refused", "ok", "error"} \subseteq CallPC
BY DEF CallPC

\* A provisional outcome comes with a call under way.
LEMMA RecordOutcomeStep ==
  ASSUME IInv, NEW c \in Calls, RecordOutcome(c)
  PROVE  IInv'
<1>. PICK a \in Asks : call[c].ask = a
  BY OutcomeOfLemma DEF IInv
<1>0. OutcomeOf(c) \in Outcome /\ Nothing \in Outcome
  BY OutcomeOfLemma, NothingLemma DEF IInv
<1>1. /\ CallMoves(c, "responding")
      /\ call[c].ask = a /\ call'[c].ask = a
      /\ call[c].pc = "idle" /\ Known(a)
      /\ \A b \in Asks : outcomes'[b] = IF b = a THEN OutcomeOf(c) ELSE outcomes[b]
      /\ UNCHANGED <<asker, pending, answers, blockers, rows, restarts>>
  BY CallGotoLemma, CallPC0 DEF IInv, TypeOK, RecordOutcome, CallAt, CallMoves, serviceVars
<1>2. TypeOK'
  BY <1>0, <1>1 DEF IInv, TypeOK, CallMoves, RecordOutcome
<1>3. PendingInv'
  BY <1>1 DEF IInv, PendingInv, Waiting, Accepted, CallMoves
<1>4. ChannelInv'
  BY <1>1 DEF IInv, ChannelInv, CallAt, CallMoves
<1>5. AskerInv'
  BY <1>1 DEF IInv, AskerInv, Known, CallAt, CallMoves
<1>6. RowInv'
  BY <1>1 DEF IInv, RowInv, Queued, CallMoves
<1>7. OneAnswerIsAccepted'
  BY <1>1 DEF IInv, OneAnswerIsAccepted, Accepted, CallMoves, AskerInv, CallAt, PendingInv
<1>8. OutcomeInv'
  BY <1>1 DEF IInv, OutcomeInv, Queued, Handled, CallMoves
<1>9. ContestInv'
  <2>1. \A d \in Calls : OutcomeOf(d)' = OutcomeOf(d)
    BY <1>1 DEF OutcomeOf, CallMoves
  <2>. QED BY <1>1, <2>1 DEF IInv, ContestInv, Queued, Alone, CallAt, At, CallMoves, AskerInv
<1>. QED BY <1>2, <1>3, <1>4, <1>5, <1>6, <1>7, <1>8, <1>9 DEF IInv

\* Only the call that takes the request out of pending is accepted.
LEMMA RespondStep ==
  ASSUME IInv, NEW c \in Calls, Respond(c)
  PROVE  IInv'
<1>. PICK a \in Asks : call[c].ask = a
  BY OutcomeOfLemma DEF IInv
<1>0. OutcomeOf(c) \in Outcome /\ Nothing \in Outcome
  BY OutcomeOfLemma, NothingLemma DEF IInv
<1>1. /\ \/ CallMoves(c, "sending") /\ a \in pending
         \/ CallMoves(c, "refused") /\ a \notin pending
      /\ call[c].ask = a /\ call'[c].ask = a
      /\ call[c].pc = "responding"
      /\ pending \subseteq Asks /\ pending' = pending \ {a}
      /\ UNCHANGED <<asker, answers, blockers, outcomes, rows, restarts>>
  <2>1. /\ call[c].pc = "responding" /\ pending' = pending \ {a} /\ pending \subseteq Asks
        /\ UNCHANGED <<asker, answers, blockers, outcomes, rows, restarts>>
    BY DEF IInv, TypeOK, Respond, CallAt, serviceVars
  <2>2. CASE a \in pending
    <3>1. CallGoto(c, "sending")
      BY <2>2 DEF Respond
    <3>. QED BY <2>1, <2>2, <3>1, CallGotoLemma, CallPC0 DEF IInv, CallMoves
  <2>3. CASE a \notin pending
    <3>1. CallGoto(c, "refused")
      BY <2>3 DEF Respond
    <3>. QED BY <2>1, <2>3, <3>1, CallGotoLemma, CallPC0 DEF IInv, CallMoves
  <2>. QED BY <2>2, <2>3
<1>2. TypeOK'
  BY <1>0, <1>1 DEF IInv, TypeOK, CallMoves, Respond
<1>3. PendingInv'
  BY <1>1 DEF IInv, PendingInv, Waiting, Accepted, CallMoves
<1>4. ChannelInv'
  BY <1>1 DEF IInv, ChannelInv, CallAt, CallMoves
<1>5. AskerInv'
  BY <1>1 DEF IInv, AskerInv, Known, CallAt, CallMoves
<1>6. RowInv'
  BY <1>1 DEF IInv, RowInv, Queued, CallMoves
<1>7. OneAnswerIsAccepted'
  BY <1>1 DEF IInv, OneAnswerIsAccepted, Accepted, CallMoves, AskerInv, CallAt, PendingInv
<1>8. OutcomeInv'
  <2>1. a \in pending => asker[a].pc \in Queued
    BY <1>1 DEF IInv, PendingInv, AskerInv, Known, CallAt, Waiting, Queued
  <2>. QED BY <1>1, <2>1 DEF IInv, OutcomeInv, Queued, Handled, CallMoves
<1>9. ContestInv'
  <2>1. \A d \in Calls : OutcomeOf(d)' = OutcomeOf(d)
    BY <1>1 DEF OutcomeOf, CallMoves
  <2>. QED BY <1>1, <2>1 DEF IInv, ContestInv, Queued, Alone, CallAt, At, CallMoves, AskerInv
<1>. QED BY <1>2, <1>3, <1>4, <1>5, <1>6, <1>7, <1>8, <1>9 DEF IInv

\* The accepted text goes into an empty channel.
LEMMA SendStep ==
  ASSUME IInv, NEW c \in Calls, Send(c)
  PROVE  IInv'
<1>. PICK a \in Asks : call[c].ask = a
  BY OutcomeOfLemma DEF IInv
<1>0. OutcomeOf(c) \in Outcome /\ Nothing \in Outcome
  BY OutcomeOfLemma, NothingLemma DEF IInv
<1>1. /\ CallMoves(c, "ok")
      /\ call[c].ask = a /\ call'[c].ask = a
      /\ call[c].pc = "sending"
      /\ pending \subseteq Asks /\ answers[a] = NoCall
      /\ \A b \in Asks : answers'[b] = IF b = a THEN c ELSE answers[b]
      /\ UNCHANGED <<asker, pending, blockers, outcomes, rows, restarts>>
  BY CallGotoLemma, CallPC0 DEF IInv, TypeOK, Send, CallAt, CallMoves, serviceVars
<1>2. TypeOK'
  BY <1>0, <1>1 DEF IInv, TypeOK, CallMoves, Send
<1>3. PendingInv'
  BY <1>1 DEF IInv, PendingInv, Waiting, Accepted, CallMoves
<1>4. ChannelInv'
  BY <1>1 DEF IInv, ChannelInv, CallAt, CallMoves, OneAnswerIsAccepted, Accepted, AskerInv
<1>5. AskerInv'
  BY <1>1 DEF IInv, AskerInv, Known, CallAt, CallMoves
<1>6. RowInv'
  BY <1>1 DEF IInv, RowInv, Queued, CallMoves
<1>7. OneAnswerIsAccepted'
  BY <1>1 DEF IInv, OneAnswerIsAccepted, Accepted, CallMoves, AskerInv, CallAt, PendingInv
<1>8. OutcomeInv'
  BY <1>1 DEF IInv, OutcomeInv, Queued, Handled, CallMoves
<1>9. ContestInv'
  <2>1. \A d \in Calls : OutcomeOf(d)' = OutcomeOf(d)
    BY <1>1 DEF OutcomeOf, CallMoves
  <2>. QED BY <1>1, <2>1 DEF IInv, ContestInv, Queued, Alone, CallAt, At, CallMoves, AskerInv
<1>. QED BY <1>2, <1>3, <1>4, <1>5, <1>6, <1>7, <1>8, <1>9 DEF IInv

\* A refused call takes its outcome away.
LEMMA ClearOutcomeStep ==
  ASSUME IInv, NEW c \in Calls, ClearOutcome(c)
  PROVE  IInv'
<1>. PICK a \in Asks : call[c].ask = a
  BY OutcomeOfLemma DEF IInv
<1>0. OutcomeOf(c) \in Outcome /\ Nothing \in Outcome
  BY OutcomeOfLemma, NothingLemma DEF IInv
<1>1. /\ CallMoves(c, "error")
      /\ call[c].ask = a /\ call'[c].ask = a
      /\ call[c].pc = "refused"
      /\ \A b \in Asks : outcomes'[b] = IF b = a THEN Nothing ELSE outcomes[b]
      /\ UNCHANGED <<asker, pending, answers, blockers, rows, restarts>>
  BY CallGotoLemma, CallPC0 DEF IInv, TypeOK, ClearOutcome, CallAt, CallMoves, serviceVars
<1>2. TypeOK'
  BY <1>0, <1>1 DEF IInv, TypeOK, CallMoves, ClearOutcome
<1>3. PendingInv'
  BY <1>1 DEF IInv, PendingInv, Waiting, Accepted, CallMoves
<1>4. ChannelInv'
  BY <1>1 DEF IInv, ChannelInv, CallAt, CallMoves
<1>5. AskerInv'
  BY <1>1 DEF IInv, AskerInv, Known, CallAt, CallMoves
<1>6. RowInv'
  BY <1>1 DEF IInv, RowInv, Queued, CallMoves
<1>7. OneAnswerIsAccepted'
  BY <1>1 DEF IInv, OneAnswerIsAccepted, Accepted, CallMoves, AskerInv, CallAt, PendingInv
<1>8. OutcomeInv'
  BY <1>1 DEF IInv, OutcomeInv, Queued, Handled, CallMoves
<1>9. ContestInv'
  <2>1. \A d \in Calls : OutcomeOf(d)' = OutcomeOf(d)
    BY <1>1 DEF OutcomeOf, CallMoves
  <2>. QED BY <1>1, <2>1 DEF IInv, ContestInv, Queued, Alone, CallAt, At, CallMoves, AskerInv
<1>. QED BY <1>2, <1>3, <1>4, <1>5, <1>6, <1>7, <1>8, <1>9 DEF IInv

-----------------------------------------------------------------------------
(* A restart, and the theorems. *)

\* A restart ends the askers and loses the calls under way.
LEMMA RestartLemma ==
  ASSUME TypeOK, Restart
  PROVE  /\ asker' \in [Asks -> AskerState] /\ call' \in [Calls -> CallState]
         /\ \A b \in Asks :
              /\ asker'[b].pc = IF asker[b].pc \in {"idle", "done"} THEN asker[b].pc ELSE "dead"
              /\ asker'[b].got = asker[b].got
         /\ \A d \in Calls :
              /\ call'[d].ask = call[d].ask /\ call'[d].kind = call[d].kind
              /\ call'[d].pc = IF call[d].pc \in {"responding", "sending", "refused"}
                               THEN "lost" ELSE call[d].pc
<1>1. "dead" \in AskerPC /\ "lost" \in CallPC
  BY DEF AskerPC, CallPC
<1>2. ASSUME NEW b \in Asks
      PROVE  LET x == [asker[b] EXCEPT !.pc = "dead"]
             IN  x \in AskerState /\ x.pc = "dead" /\ x.got = asker[b].got
  BY <1>1 DEF TypeOK, AskerState
<1>3. ASSUME NEW d \in Calls
      PROVE  LET x == [call[d] EXCEPT !.pc = "lost"]
             IN  x \in CallState /\ x.pc = "lost" /\ x.ask = call[d].ask /\ x.kind = call[d].kind
  BY <1>1 DEF TypeOK, CallState
<1>4. asker' = [b \in Asks |-> IF asker[b].pc \in {"idle", "done"} THEN asker[b]
                               ELSE [asker[b] EXCEPT !.pc = "dead"]]
  BY DEF Restart
<1>5. call' = [d \in Calls |-> IF call[d].pc \in {"responding", "sending", "refused"}
                               THEN [call[d] EXCEPT !.pc = "lost"] ELSE call[d]]
  BY DEF Restart
<1>. QED BY <1>2, <1>3, <1>4, <1>5 DEF TypeOK

\* The sweep closes the open rows and no other.
LEMMA RestartRowsLemma ==
  ASSUME TypeOK, Restart
  PROVE  /\ rows' \in [Asks -> [status : Rows, answer : Calls \cup {NoCall}]]
         /\ \A b \in Asks :
              /\ rows'[b].status # "open"
              /\ rows[b].status # "open" => rows'[b] = rows[b]
<1>1. "cancelled" \in Rows
  BY DEF Rows, Dispositions
<1>2. ASSUME NEW b \in Asks
      PROVE  LET x == [rows[b] EXCEPT !.status = "cancelled"]
             IN  x \in [status : Rows, answer : Calls \cup {NoCall}] /\ x.status = "cancelled"
  BY <1>1 DEF TypeOK
<1>3. rows' = [b \in Asks |-> IF rows[b].status = "open"
                              THEN [rows[b] EXCEPT !.status = "cancelled"] ELSE rows[b]]
  BY DEF Restart
<1>. QED BY <1>2, <1>3 DEF TypeOK

\* After a restart no question is open, and those that had ended keep their rows.
LEMMA RestartStep ==
  ASSUME IInv, Restart
  PROVE  IInv'
<1>0. /\ pending' = {} /\ blockers' = {} /\ restarts' \in 0..MaxRestarts
      /\ answers' = [b \in Asks |-> NoCall] /\ outcomes' = [b \in Asks |-> Nothing]
  BY RestartsAssumption DEF IInv, TypeOK, Restart
<1>1. \A b \in Asks : answers'[b] = NoCall /\ outcomes'[b] = Nothing
  BY <1>0
<1>2. TypeOK'
  BY <1>0, RestartLemma, RestartRowsLemma, NothingLemma DEF IInv, TypeOK
<1>3. PendingInv'
  BY <1>0 DEF PendingInv
<1>4. ChannelInv'
  BY <1>1 DEF ChannelInv
<1>5. AskerInv'
  BY RestartLemma DEF IInv, AskerInv, Known, CallAt
<1>6. RowInv'
  BY <1>0, RestartLemma, RestartRowsLemma DEF IInv, RowInv, Queued
<1>7. OneAnswerIsAccepted'
  BY RestartLemma DEF IInv, OneAnswerIsAccepted, AskerInv, Accepted, CallAt
<1>8. OutcomeInv'
  BY <1>1 DEF OutcomeInv
<1>9. ContestInv'
  <2>1. \A d \in Calls : OutcomeOf(d)' = OutcomeOf(d)
    BY RestartLemma DEF IInv, OutcomeOf
  <2>2. \A d \in Calls : CallAt(d, "idle")' <=> CallAt(d, "idle")
    BY RestartLemma DEF IInv, CallAt
  <2>3. ASSUME NEW b \in Asks, NEW c \in Calls, (call[c].ask = b)', Alone(c, b)'
        PROVE  call[c].ask = b /\ Alone(c, b)
    BY <2>2, <2>3, RestartLemma DEF IInv, Alone
  <2>4. ASSUME NEW b \in Asks, At(b, "done")'
        PROVE  At(b, "done") /\ rows'[b] = rows[b]
    BY <2>4, RestartLemma, RestartRowsLemma DEF IInv, RowInv, At
  <2>5. ASSUME NEW b \in Asks
        PROVE  asker'[b].pc \notin Queued /\ ~At(b, "recording")' /\ asker'[b].got = asker[b].got
    BY RestartLemma DEF IInv, Queued, At
  <2>. QED BY <2>1, <2>3, <2>4, <2>5 DEF IInv, ContestInv
<1>. QED BY <1>2, <1>3, <1>4, <1>5, <1>6, <1>7, <1>8, <1>9 DEF IInv

\* Nothing has been asked.
LEMMA InitLemma == Init => IInv
<1> SUFFICES ASSUME Init PROVE IInv
  OBVIOUS
<1>1. /\ \A a \in Asks : /\ asker[a].pc = "idle" /\ asker[a].got = NoCall
                         /\ answers[a] = NoCall /\ outcomes[a] = Nothing
                         /\ rows[a].status = "none"
      /\ pending = {} /\ blockers = {}
  BY DEF Init
<1>2. \A c \in Calls : call[c].pc = "idle"
  BY DEF Init
<1>3. TypeOK
  <2>1. asker \in [Asks -> AskerState]
    BY NothingLemma DEF Init, AskerState, AskerPC
  <2>2. call \in [Calls -> CallState]
    BY DEF Init, CallState, CallPC
  <2>3. rows \in [Asks -> [status : Rows, answer : Calls \cup {NoCall}]]
    BY DEF Init, Rows
  <2>. QED BY <2>1, <2>2, <2>3, NothingLemma, RestartsAssumption DEF Init, TypeOK
<1>4. PendingInv /\ ChannelInv /\ AskerInv
  BY <1>1, <1>2 DEF PendingInv, ChannelInv, AskerInv, CallAt
<1>5. RowInv
  BY <1>1 DEF RowInv, Queued
<1>6. OneAnswerIsAccepted
  BY <1>1, <1>2 DEF OneAnswerIsAccepted, Accepted
<1>7. OutcomeInv
  BY <1>1 DEF OutcomeInv
<1>8. ContestInv
  BY <1>1, <1>2, CallsAssumption DEF ContestInv, At, Queued
<1>. QED BY <1>3, <1>4, <1>5, <1>6, <1>7, <1>8 DEF IInv

\* The invariant holds of every reachable state.
THEOREM Invariance == Spec => []IInv
<1>1. IInv /\ [Next]_vars => IInv'
  <2> SUFFICES ASSUME IInv, [Next]_vars PROVE IInv'
    OBVIOUS
  <2>1. ASSUME NEW a \in Asks, AskerStep(a) PROVE IInv'
    BY <2>1, RegisterStep, AddBlockerStep, CreateBlockerStep, TakeAnswerStep, SeeDoneStep,
       QuitStep, ResolveBlockerStep, ResolveBlockerRecordStep DEF AskerStep
  <2>2. ASSUME NEW c \in Calls, RecordOutcome(c) \/ Handler(c) PROVE IInv'
    BY <2>2, RecordOutcomeStep, RespondStep, SendStep, ClearOutcomeStep DEF Handler
  <2>3. CASE UNCHANGED vars
    BY <2>3 DEF vars, IInv, TypeOK, PendingInv, ChannelInv, AskerInv, RowInv, 
       OneAnswerIsAccepted, OutcomeInv, ContestInv, Accepted, Handled, Alone, CallAt, At,
       Known, OutcomeOf
  <2>. QED BY <2>1, <2>2, <2>3, TimeoutStep, CancelContextStep, RestartStep DEF Next
<1>. QED BY <1>1, InitLemma, PTL DEF Spec

\* Every variable keeps its type.
THEOREM TypeCorrect == Spec => []TypeOK
BY Invariance, PTL DEF IInv

\* Of all the clients that answer a question one is told it succeeded, and it is
\* that client's text the asker gets (hitl.Broker).
THEOREM AcceptedOnce == Spec => []OneAnswerIsAccepted
BY Invariance, PTL DEF IInv

\* A text is sent to an empty channel: Respond never blocks in its send.
THEOREM SendFindsRoom ==
  Spec => [](\A c \in Calls : CallAt(c, "sending") => answers[call[c].ask] = NoCall)
<1>1. IInv => \A c \in Calls : CallAt(c, "sending") => answers[call[c].ask] = NoCall
  <2> SUFFICES ASSUME IInv, NEW c \in Calls, CallAt(c, "sending"),
                      answers[call[c].ask] # NoCall
               PROVE  FALSE
    OBVIOUS
  <2>1. call[c].ask \in Asks
    BY OutcomeOfLemma DEF IInv
  <2>2. PICK d \in Calls : d = answers[call[c].ask] /\ call[d].ask = call[c].ask /\ CallAt(d, "ok")
    BY <2>1 DEF IInv, ChannelInv
  <2>. QED BY <2>1, <2>2 DEF IInv, OneAnswerIsAccepted, Accepted, CallAt
<1>. QED BY <1>1, Invariance, PTL

\* No question is shown that nobody waits for (ResolveBlocker, the sweep at boot).
THEOREM QueueIsLive == Spec => []QueueHasAskers
<1>1. IInv => QueueHasAskers
  <2> SUFFICES ASSUME IInv, NEW a \in Asks
               PROVE  /\ a \in blockers => asker[a].pc \in {"persisting", "waiting", "quitting", "resolving"}
                      /\ rows[a].status = "open" =>
                           asker[a].pc \in {"waiting", "quitting", "resolving", "recording"}
    BY DEF QueueHasAskers
  <2>1. asker[a].pc \in AskerPC
    BY DEF IInv, TypeOK, AskerState
  <2>. QED BY <2>1 DEF IInv, RowInv, Queued, AskerPC
<1>. QED BY <1>1, Invariance, PTL

\* blockerOutcomes does not keep outcomes of questions that have ended.
THEOREM OutcomesDoNotLeak == Spec => []OutcomesAreTransient
<1>1. IInv => OutcomesAreTransient
  BY DEF IInv, OutcomeInv, OutcomesAreTransient, Asking, Queued
<1>. QED BY <1>1, Invariance, PTL

\* With one client per question the history is right.
THEOREM HistoryIsRight == Spec => []UncontestedOutcomeIsRecorded
<1>1. IInv => UncontestedOutcomeIsRecorded
  <2> SUFFICES ASSUME IInv, NEW a \in Asks, At(a, "done"), asker[a].got # NoCall,
                      Alone(asker[a].got, a)
               PROVE  rows[a] = [status |-> OutcomeOf(asker[a].got).disposition,
                                 answer |-> OutcomeOf(asker[a].got).answer]
    BY DEF UncontestedOutcomeIsRecorded
  <2>1. asker[a].got \in Calls /\ call[asker[a].got].ask = a
    BY DEF IInv, AskerInv, OneAnswerIsAccepted, Accepted
  <2>. QED BY <2>1 DEF IInv, ContestInv
<1>. QED BY <1>1, Invariance, PTL
=============================================================================
