------------------------------ MODULE Workers ------------------------------
(***************************************************************************)
(* Worker sessions (internal/runtime/runtime.go, session.go) and the slots *)
(* of the provider they share (internal/provider/scheduler.go).  A session *)
(* alternates model calls and tools; the tool spawn_worker                 *)
(* (runtime/tools.go) runs another session and waits for it.  A model call *)
(* holds a slot from its acquisition until the goroutine that forwards the *)
(* stream sees the end of its source, which may be after the session has   *)
(* turned away from it.                                                    *)
(***************************************************************************)
EXTENDS Integers, FiniteSets

CONSTANTS Sessions,
          NoSession,
          Capacity,     \* slots of the scheduler
          MaxDepth,     \* of nested spawns
          MaxTurns,     \* model turns of a session
          Watched,      \* bound: sessions somebody subscribes to
          MaxLingering, \* bound: abandoned streams of one session at a time
          MaxCancels    \* bound: CancelSession and Cancel of a job, together

ASSUME SessionsAssumption == /\ NoSession \notin Sessions /\ IsFiniteSet(Sessions)
                             /\ Watched \subseteq Sessions
ASSUME CapacityAssumption == Capacity \in Nat \ {0}
ASSUME LimitsAssumption == /\ MaxDepth \in Nat /\ MaxTurns \in Nat \ {0}
                           /\ MaxLingering \in Nat /\ MaxCancels \in Nat

VARIABLES session,    \* the Session objects and their goroutines
          lingering,  \* streams a session has abandoned and that still hold a slot
          sem,        \* occupied slots
          closed,     \* Runtime.closed
          wg,         \* Runtime.wg
          shutdown,   \* the goroutine in Runtime.Shutdown
          sweep,      \* sessions a CancelJobSessions has listed, not cancelled yet
          cancels

vars == <<session, lingering, sem, closed, wg, shutdown, sweep, cancels>>
runtimeVars == <<closed, wg, shutdown, sweep, cancels>>

PC == {"none", "turn", "acquiring", "calling", "closing", "tools", "waiting",
       "returning", "finished", "unwatched", "gone"}
Statuses == {"active", "completed", "failed", "cancelled"}

SessionState ==
  [pc : PC,
   parent : Sessions \cup {NoSession},
   child : Sessions \cup {NoSession},   \* the session spawn_worker waits for
   depth : 0..MaxDepth,
   call : {"turn", "summary"},          \* what the model call is for
   turn : 0..MaxTurns,
   retried : BOOLEAN,                   \* retriedOverflow
   cancelled : BOOLEAN,                 \* its context is done
   status : Statuses,
   reported : {"no", "success", "error"}, \* history: what spawn_worker made of it
   watcher : {"none", "open", "closed"}]     \* a subscriber's channel

NewSession(p, d) ==
  [pc |-> "turn", parent |-> p, child |-> NoSession, depth |-> d, call |-> "turn",
   turn |-> 0, retried |-> FALSE, cancelled |-> FALSE, status |-> "active",
   reported |-> "no", watcher |-> "none"]

Unborn == [NewSession(NoSession, 0) EXCEPT !.pc = "none"]

TypeOK ==
  /\ session \in [Sessions -> SessionState]
  /\ lingering \subseteq Sessions \X (1..MaxLingering)
  /\ sem \in 0..Capacity
  /\ closed \in BOOLEAN
  /\ wg \in 0..Cardinality(Sessions)
  /\ shutdown \in {"no", "waiting", "complete", "timed out"}
  /\ sweep \subseteq Sessions
  /\ cancels \in 0..MaxCancels

Init ==
  /\ session = [s \in Sessions |-> Unborn]
  /\ lingering = {}
  /\ sem = 0
  /\ closed = FALSE /\ wg = 0 /\ shutdown = "no"
  /\ sweep = {} /\ cancels = 0

At(s, pc) == session[s].pc = pc
Goto(s, pc) == session' = [session EXCEPT ![s].pc = pc]
Cancelled(s) == session[s].cancelled
\* In Runtime.sessions: from the registration until the goroutine has ended.
Registered(s) == session[s].pc \notin {"none", "gone"}
Unused == {s \in Sessions : At(s, "none")}
NewId == CHOOSE s \in Unused : TRUE

----------------------------------------------------------------------------
(* SpawnWorker: the check of closed, the registration and the count are    *)
(* one section under the lock; the row, the observers and the goroutine     *)
(* follow.  The caller's context is not asked.                             *)

Spawn_IgnoresClosed(c, p, d, rest) ==
  /\ wg' = wg + 1
  /\ session' = [rest EXCEPT ![c] = NewSession(p, d)]
Spawn(c, p, d, rest) ==
  /\ ~closed
  /\ wg' = wg + 1
  /\ session' = [rest EXCEPT ![c] = NewSession(p, d)]

SpawnRoot ==
  /\ Unused /= {}
  /\ Spawn(NewId, NoSession, 0, session)
  /\ UNCHANGED <<lingering, sem, closed, shutdown, sweep, cancels>>

----------------------------------------------------------------------------
(* Session.Run.                                                            *)

\* The end of Run: the status and the error are set before done is closed.
Return(s, status) ==
  session' = [session EXCEPT ![s].pc = "returning", ![s].status = status]

\* A turn begins; the pre-flight check may ask for a summary first.
BeginTurn(s) ==
  /\ At(s, "turn")
  /\ IF session[s].turn = MaxTurns THEN Return(s, "failed")
     ELSE IF Cancelled(s) THEN Return(s, "cancelled")
     ELSE \E call \in {"turn", "summary"} :
            session' = [session EXCEPT ![s].pc = "acquiring", ![s].call = call]
  /\ UNCHANGED <<lingering, sem, runtimeVars>>

\* Scheduler.ChatStream waits for a slot or for the end of the context.
Acquire(s) ==
  /\ At(s, "acquiring") /\ sem < Capacity
  /\ sem' = sem + 1
  /\ Goto(s, "calling")
  /\ UNCHANGED <<lingering, runtimeVars>>

\* What a call that did not succeed leads to.  A summary that fails leaves the
\* turn without one; a context overflow is compacted and tried once more, in
\* the budget of the same turn; any other error ends the session.
AfterFailure(s, status, mayRetry) ==
  \/ /\ session[s].call = "summary"
     /\ session' = [session EXCEPT ![s].pc = "acquiring", ![s].call = "turn"]
  \/ /\ session[s].call = "turn"
     /\ Return(s, status)
  \/ /\ session[s].call = "turn" /\ ~session[s].retried /\ mayRetry
     /\ \E call \in {"turn", "summary"} :
          session' = [session EXCEPT ![s].pc = "acquiring", ![s].call = call, ![s].retried = TRUE]

\* A summary has a timeout of its own (summaryTimeout), wait included.
GiveUpWaiting(s) ==
  /\ At(s, "acquiring") /\ (Cancelled(s) \/ session[s].call = "summary")
  /\ AfterFailure(s, "failed", FALSE)
  /\ UNCHANGED <<lingering, sem, runtimeVars>>

\* inner.ChatStream fails: the slot is given back before the error is returned.
OpenFails_KeepsSlot(s) ==
  /\ At(s, "calling")
  /\ AfterFailure(s, "failed", TRUE)
  /\ UNCHANGED <<lingering, sem, runtimeVars>>
OpenFails(s) ==
  /\ At(s, "calling")
  /\ sem' = sem - 1
  /\ AfterFailure(s, "failed", TRUE)
  /\ UNCHANGED <<lingering, runtimeVars>>

\* The forwarding goroutine: the source ends, the slot is released, and only
\* then is the session's channel closed.
StreamEnds_KeepsSlot(s) ==
  /\ At(s, "calling")
  /\ Goto(s, "closing")
  /\ UNCHANGED <<lingering, sem, runtimeVars>>
StreamEnds(s) ==
  /\ At(s, "calling")
  /\ sem' = sem - 1
  /\ Goto(s, "closing")
  /\ UNCHANGED <<lingering, runtimeVars>>

LingeringEnds(s) ==
  /\ \E k \in 1..MaxLingering : /\ <<s, k>> \in lingering
                               /\ lingering' = lingering \ {<<s, k>>}
  /\ sem' = sem - 1
  /\ UNCHANGED <<session, runtimeVars>>

\* collectResponse saw the channel closed: the answer is complete.
Collect(s) ==
  /\ At(s, "closing")
  /\ \/ /\ session[s].call = "summary"
        /\ session' = [session EXCEPT ![s].pc = "acquiring", ![s].call = "turn"]
     \/ /\ session[s].call = "turn"
        /\ Return(s, "completed")
     \/ /\ session[s].call = "turn"
        /\ session' = [session EXCEPT ![s].pc = "tools", ![s].retried = FALSE]
  /\ UNCHANGED <<lingering, sem, runtimeVars>>

\* It saw an error event or the end of its context, and turns away from a
\* stream that still holds its slot.
Abandon(s) ==
  /\ At(s, "calling")
  /\ \E k \in 1..MaxLingering : /\ <<s, k>> \notin lingering
                               /\ lingering' = lingering \cup {<<s, k>>}
  /\ AfterFailure(s, IF Cancelled(s) THEN "cancelled" ELSE "failed", ~Cancelled(s))
  /\ UNCHANGED <<sem, runtimeVars>>

\* It reads an error that was buffered when the stream ended, or finds its
\* context done beside the closed channel and chooses it.
CollectFails(s) ==
  /\ At(s, "closing")
  /\ AfterFailure(s, IF Cancelled(s) THEN "cancelled" ELSE "failed", ~Cancelled(s))
  /\ UNCHANGED <<lingering, sem, runtimeVars>>

----------------------------------------------------------------------------
(* Tools.  Their results go into the history; the next turn follows.       *)

ToNextTurn(r) == [r EXCEPT !.pc = "turn", !.turn = @ + 1, !.child = NoSession]

\* Any other tool, or a spawn_worker that is refused: at its depth, or because
\* the runtime is closed.
ToolsReturn(s) ==
  /\ At(s, "tools")
  /\ session' = [session EXCEPT ![s] = ToNextTurn(@)]
  /\ UNCHANGED <<lingering, sem, runtimeVars>>

\* spawn_worker, within its depth.
SpawnChild(s) ==
  /\ At(s, "tools") /\ session[s].depth < MaxDepth /\ Unused /= {}
  /\ Spawn(NewId, s, session[s].depth + 1,
           [session EXCEPT ![s].pc = "waiting", ![s].child = NewId])
  /\ UNCHANGED <<lingering, sem, closed, shutdown, sweep, cancels>>

\* SpawnAndWait.  A child that failed or was cancelled is an error.
Done(s) == session[s].pc \in {"finished", "unwatched", "gone"}
Verdict_OnlyFailed(c) == IF session[c].status = "failed" THEN "error" ELSE "success"
Verdict(c) == IF session[c].status \in {"failed", "cancelled"} THEN "error" ELSE "success"

ChildDone(s) ==
  LET c == session[s].child IN
  /\ At(s, "waiting") /\ Done(c)
  /\ session' = [session EXCEPT ![s] = ToNextTurn(@), ![c].reported = Verdict(c)]
  /\ UNCHANGED <<lingering, sem, runtimeVars>>

StopWaiting_LeavesChild(s) ==
  /\ At(s, "waiting") /\ Cancelled(s)
  /\ session' = [session EXCEPT ![s] = ToNextTurn(@), ![session[s].child].reported = "error"]
  /\ UNCHANGED <<lingering, sem, runtimeVars>>
StopWaiting(s) ==
  LET c == session[s].child IN
  /\ At(s, "waiting") /\ Cancelled(s)
  /\ session' = [session EXCEPT ![s] = ToNextTurn(@), ![c].reported = "error",
                                ![c].cancelled = TRUE]
  /\ UNCHANGED <<lingering, sem, runtimeVars>>

----------------------------------------------------------------------------
(* The end of a session's goroutine.                                       *)

CloseDone(s) ==
  /\ At(s, "returning")
  /\ Goto(s, "finished")
  /\ UNCHANGED <<lingering, sem, runtimeVars>>

CloseSubscribers_Forgets(s) ==
  /\ At(s, "finished")
  /\ Goto(s, "unwatched")
  /\ UNCHANGED <<lingering, sem, runtimeVars>>
CloseSubscribers(s) ==
  /\ At(s, "finished")
  /\ session' = [session EXCEPT ![s].pc = "unwatched",
                  ![s].watcher = IF @ = "open" THEN "closed" ELSE @]
  /\ UNCHANGED <<lingering, sem, runtimeVars>>

\* The row is updated, the session leaves the map, the count goes down.
Remove(s) ==
  /\ At(s, "unwatched")
  /\ wg' = wg - 1
  /\ Goto(s, "gone")
  /\ UNCHANGED <<lingering, sem, closed, shutdown, sweep, cancels>>

\* Whoever has the session may subscribe at any time, also when it has ended.
Subscribe(s) ==
  /\ s \in Watched /\ session[s].pc /= "none" /\ session[s].watcher = "none"
  /\ session' = [session EXCEPT
                  ![s].watcher = IF session[s].pc \in {"unwatched", "gone"} THEN "closed" ELSE "open"]
  /\ UNCHANGED <<lingering, sem, runtimeVars>>

----------------------------------------------------------------------------
(* Cancels and the shutdown.                                               *)

\* CancelSession and CancelJobSessions look sessions up under the lock and
\* cancel them after it.
LookUp(found) ==
  /\ found /= {} /\ sweep = {} /\ cancels < MaxCancels
  /\ cancels' = cancels + 1
  /\ sweep' = found
  /\ UNCHANGED <<session, lingering, sem, closed, wg, shutdown>>
CancelSession(s) == Registered(s) /\ LookUp({s})
CancelJobSessions == LookUp({s \in Sessions : Registered(s)})

CancelListed(s) ==
  /\ s \in sweep
  /\ sweep' = sweep \ {s}
  /\ session' = [session EXCEPT ![s].cancelled = TRUE]
  /\ UNCHANGED <<lingering, sem, closed, wg, shutdown, cancels>>

BeginShutdown ==
  /\ shutdown = "no"
  /\ closed' = TRUE /\ shutdown' = "waiting"
  /\ session' = [s \in Sessions |-> IF Registered(s) THEN [session[s] EXCEPT !.cancelled = TRUE]
                                                     ELSE session[s]]
  /\ UNCHANGED <<lingering, sem, wg, sweep, cancels>>

ShutdownCompletes ==
  /\ shutdown = "waiting" /\ wg = 0
  /\ shutdown' = "complete"
  /\ UNCHANGED <<session, lingering, sem, closed, wg, sweep, cancels>>

ShutdownTimesOut ==
  /\ shutdown = "waiting"
  /\ shutdown' = "timed out"
  /\ UNCHANGED <<session, lingering, sem, closed, wg, sweep, cancels>>

----------------------------------------------------------------------------

\* What the goroutine of a session does by itself, and what ends its model call.
Proceeds(s) ==
  \/ BeginTurn(s) \/ Acquire(s) \/ GiveUpWaiting(s) \/ Collect(s) \/ CollectFails(s)
  \/ ChildDone(s) \/ StopWaiting(s)
  \/ CloseDone(s) \/ CloseSubscribers(s) \/ Remove(s)
CallEnds(s) == StreamEnds(s) \/ OpenFails(s) \/ Abandon(s)

Next ==
  \/ SpawnRoot \/ CancelJobSessions
  \/ BeginShutdown \/ ShutdownCompletes \/ ShutdownTimesOut
  \/ \E s \in Sessions : \/ Proceeds(s) \/ CallEnds(s) \/ LingeringEnds(s)
                         \/ ToolsReturn(s) \/ SpawnChild(s)
                         \/ Subscribe(s) \/ CancelSession(s) \/ CancelListed(s)

Spec == Init /\ [][Next]_vars

\* The goroutine of a session runs.  A model call need not end: the HTTP clients
\* bound the dial, the TLS handshake and the response header, neither the body
\* nor the session's context.  It ends when the session is cancelled, or with the
\* timeout of a summary; so do tools, which get the session's context.  An
\* abandoned stream ends with its context, which Run cancels when it returns.
Fairness ==
  \A s \in Sessions :
    /\ WF_vars(Proceeds(s)) /\ WF_vars(CancelListed(s))
    /\ WF_vars((Cancelled(s) \/ session[s].call = "summary") /\ CallEnds(s))
    /\ WF_vars(Cancelled(s) /\ (ToolsReturn(s) \/ SpawnChild(s)))
    /\ WF_vars((Cancelled(s) \/ Done(s)) /\ LingeringEnds(s))
FairSpec == Spec /\ Fairness

----------------------------------------------------------------------------
(* Properties.                                                             *)

\* The occupied slots are those of model calls under way and of streams that
\* were abandoned and have not ended: no error path of scheduler.go loses a slot
\* or gives one back twice.
Calls == {<<s, 0>> : s \in {x \in Sessions : At(x, "calling")}}
SlotsAreHeld == sem = Cardinality(Calls \cup lingering) /\ sem <= Capacity

\* A session somebody has spawned and does not wait for any more is cancelled
\* or has ended (SpawnAndWait, runtime.go:324): no worker goes on for a parent
\* that was cancelled.
OrphansAreCancelled ==
  \A c \in Sessions :
    Registered(c) /\ session[c].parent /= NoSession /\ ~Done(c)
      => \/ Cancelled(c)
         \/ At(session[c].parent, "waiting") /\ session[session[c].parent].child = c

\* "returning its partial FinalText with a nil error would let the parent
\* proceed as if the child finished its work" (runtime.go:333): a parent that
\* was told of a success had a child that completed.
SuccessIsCompletion ==
  \A c \in Sessions : session[c].reported = "success" => session[c].status = "completed"

\* Shutdown that did not time out leaves no session behind, and none begins
\* after it, although the spawns of tools race with it (runtime.go:218).
ShutdownLeavesNobody == shutdown = "complete" => \A s \in Sessions : ~Registered(s)

\* A session that is cancelled ends, whatever its model call, its tools and the
\* other sessions do: it gives its slots back, also those of streams it had turned
\* away from, and closes the channel of whoever watches it.
Abandoned(s) == \E k \in 1..MaxLingering : <<s, k>> \in lingering
CancelledSessionsEnd ==
  \A s \in Sessions :
    Cancelled(s) ~> /\ ~Registered(s) /\ ~Abandoned(s)
                    /\ session[s].watcher /= "open"

\* If every stream and every tool ends some time, so do all sessions, with one slot
\* and parents waiting for children included: nobody holds a slot while it waits
\* for another session, and no wait of the program's own goes on for ever.
Answers(s) == []<>(~At(s, "calling")) /\ []<>(~At(s, "tools")) /\ []<>(~Abandoned(s))
SessionsEnd ==
  (\A s \in Sessions : Answers(s)) => <>[](\A s \in Sessions : ~Registered(s))
=============================================================================
