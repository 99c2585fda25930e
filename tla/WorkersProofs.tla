--------------------------- MODULE WorkersProofs ---------------------------
(***************************************************************************)
(* Proofs about Workers, for any number of sessions, slots, turns and      *)
(* cancels.                                                                *)
(*                                                                         *)
(* Most steps change one session and leave its family alone: they are      *)
(* gathered in Local, with what the invariants need to know of them.  The  *)
(* others spawn a session, end a wait or cancel.  Slots and the count of   *)
(* the WaitGroup are cardinalities of finite sets.                         *)
(***************************************************************************)
EXTENDS Workers, FiniteSetTheorems, TLAPS

USE SessionsAssumption, CapacityAssumption, LimitsAssumption

----------------------------------------------------------------------------
(* The inductive invariant.                                                *)

\* The types, without the bounds of the counters, which follow from what they
\* count.
Types ==
  /\ session \in [Sessions -> SessionState]
  /\ lingering \subseteq Sessions \X (1..MaxLingering)
  /\ sem \in Nat /\ wg \in Nat
  /\ closed \in BOOLEAN
  /\ shutdown \in {"no", "waiting", "complete", "timed out"}
  /\ sweep \subseteq Sessions
  /\ cancels \in 0..MaxCancels

Busy == {"acquiring", "calling", "closing", "tools", "waiting"}
Ended == {"returning", "finished", "unwatched", "gone"}

\* What a session keeps to, whatever the others do: a turn in progress is within
\* the budget, an ended session has a status, and a child whose success was
\* reported is done for good.
Sound(r) ==
  /\ r.pc \in Busy => r.turn < MaxTurns
  /\ r.pc \in Ended => r.status /= "active"
  /\ r.reported = "success" => r.status = "completed"
                               /\ r.pc \in {"finished", "unwatched", "gone"}
AllSound == \A s \in Sessions : Sound(session[s])

\* A parent waits for another session, one that was spawned.
WaitsForChild ==
  \A s \in Sessions : At(s, "waiting") =>
    /\ session[s].child \in Sessions \ {s}
    /\ ~At(session[s].child, "none")

Members == {s \in Sessions : Registered(s)}
GroupCounts == wg = Cardinality(Members)
ShutdownCloses == shutdown /= "no" => closed

IInv ==
  /\ Types /\ AllSound /\ WaitsForChild /\ OrphansAreCancelled
  /\ GroupCounts /\ ShutdownCloses /\ ShutdownLeavesNobody /\ SlotsAreHeld

----------------------------------------------------------------------------
(* One session at a time.                                                  *)

\* No birth, no end of the goroutine undone, no wait begun or ended.
GoesOn(pc, next) ==
  /\ pc /= "none" /\ next /= "none"
  /\ pc = "waiting" <=> next = "waiting"
  /\ pc = "gone" => next = "gone"
  /\ pc \in {"finished", "unwatched", "gone"} => next \in {"finished", "unwatched", "gone"}

\* What a step of session s itself changes.
Local(s) ==
  /\ session' \in [Sessions -> SessionState]
  /\ \A x \in Sessions \ {s} : session'[x] = session[x]
  /\ Sound(session'[s])
  /\ session'[s].parent = session[s].parent
  /\ session'[s].cancelled = session[s].cancelled
  /\ session'[s].child = session[s].child \/ session'[s].pc /= "waiting"
  /\ GoesOn(session[s].pc, session'[s].pc)

\* A step that sets session s to r is local if r is a sound successor.
LEMMA LocalIntro ==
  ASSUME Types, NEW s \in Sessions, NEW r \in SessionState,
         session' = [session EXCEPT ![s] = r],
         Sound(r), r.parent = session[s].parent, r.cancelled = session[s].cancelled,
         r.child = session[s].child \/ r.pc /= "waiting", GoesOn(session[s].pc, r.pc)
  PROVE  Local(s) /\ session'[s] = r
<1>1. session \in [Sessions -> SessionState]
  BY DEF Types
<1>2. session'[s] = r /\ \A x \in Sessions \ {s} : session'[x] = session[x]
  BY <1>1
<1>3. session' \in [Sessions -> SessionState]
  BY <1>1
<1> QED
  BY <1>2, <1>3 DEF Local

\* A session that ends its Run.
LEMMA ReturnIsLocal ==
  ASSUME Types, AllSound, NEW s \in Sessions, NEW st \in Statuses \ {"active"},
         session[s].pc \in {"turn", "acquiring", "calling", "closing", "tools"},
         Return(s, st)
  PROVE  Local(s) /\ session'[s].pc = "returning"
<1> DEFINE r == [session[s] EXCEPT !.pc = "returning", !.status = st]
<1>1. session[s] \in SessionState /\ Sound(session[s])
  BY DEF Types, AllSound
<1>2. r \in SessionState
  BY <1>1 DEF SessionState, PC
<1>3. session' = [session EXCEPT ![s] = r]
  BY <1>1 DEF Return, Types
<1>4. /\ r.pc = "returning" /\ r.status = st /\ r.turn = session[s].turn
      /\ r.reported = session[s].reported /\ r.parent = session[s].parent
      /\ r.cancelled = session[s].cancelled /\ r.child = session[s].child
  BY <1>1 DEF SessionState
<1>5. Sound(r)
  BY <1>1, <1>4 DEF Sound, Busy, Ended
<1> HIDE DEF r
<1>6. GoesOn(session[s].pc, r.pc)
  BY <1>1, <1>4 DEF GoesOn
<1> QED
  BY <1>2, <1>3, <1>4, <1>5, <1>6, LocalIntro

\* A session that asks for a model call.
LEMMA AskIsLocal ==
  ASSUME Types, AllSound, NEW s \in Sessions, NEW call \in {"turn", "summary"},
         NEW retried \in BOOLEAN,
         session[s].pc \in {"turn", "acquiring", "calling", "closing"},
         session[s].turn < MaxTurns,
         session' = [session EXCEPT ![s].pc = "acquiring", ![s].call = call,
                                    ![s].retried = retried]
  PROVE  Local(s) /\ session'[s].pc = "acquiring"
<1> DEFINE r == [session[s] EXCEPT !.pc = "acquiring", !.call = call, !.retried = retried]
<1>1. session[s] \in SessionState /\ Sound(session[s])
  BY DEF Types, AllSound
<1>2. r \in SessionState
  BY <1>1 DEF SessionState, PC
<1>3. session' = [session EXCEPT ![s] = r]
  BY <1>1 DEF Types
<1>4. /\ r.pc = "acquiring" /\ r.status = session[s].status /\ r.turn = session[s].turn
      /\ r.reported = session[s].reported /\ r.parent = session[s].parent
      /\ r.cancelled = session[s].cancelled /\ r.child = session[s].child
  BY <1>1 DEF SessionState
<1>5. Sound(r)
  BY <1>1, <1>4 DEF Sound, Busy, Ended
<1> HIDE DEF r
<1>6. GoesOn(session[s].pc, r.pc)
  BY <1>1, <1>4 DEF GoesOn
<1> QED
  BY <1>2, <1>3, <1>4, <1>5, <1>6, LocalIntro

\* A session whose program counter moves on while nothing else changes.
LEMMA GotoIsLocal ==
  ASSUME Types, AllSound, NEW s \in Sessions, NEW pc \in PC,
         \/ session[s].pc = "acquiring" /\ pc = "calling"
         \/ session[s].pc = "calling" /\ pc = "closing"
         \/ session[s].pc = "returning" /\ pc = "finished"
         \/ session[s].pc = "unwatched" /\ pc = "gone",
         Goto(s, pc)
  PROVE  Local(s) /\ session'[s].pc = pc
<1> DEFINE r == [session[s] EXCEPT !.pc = pc]
<1>1. session[s] \in SessionState /\ Sound(session[s])
  BY DEF Types, AllSound
<1>2. r \in SessionState
  BY <1>1 DEF SessionState
<1>3. session' = [session EXCEPT ![s] = r]
  BY DEF Goto
<1>4. /\ r.pc = pc /\ r.status = session[s].status /\ r.turn = session[s].turn
      /\ r.reported = session[s].reported /\ r.parent = session[s].parent
      /\ r.cancelled = session[s].cancelled /\ r.child = session[s].child
  BY <1>1 DEF SessionState
<1>5. Sound(r)
  BY <1>1, <1>4 DEF Sound, Busy, Ended
<1> HIDE DEF r
<1>6. GoesOn(session[s].pc, r.pc)
  BY <1>1, <1>4 DEF GoesOn
<1> QED
  BY <1>2, <1>3, <1>4, <1>5, <1>6, LocalIntro

----------------------------------------------------------------------------
(* The steps of one session.                                               *)

\* After a call that failed the session asks again or is over.
LEMMA FailureIsLocal ==
  ASSUME Types, AllSound, NEW s \in Sessions, NEW st \in {"failed", "cancelled"},
         NEW mayRetry \in BOOLEAN,
         session[s].pc \in {"acquiring", "calling", "closing"},
         AfterFailure(s, st, mayRetry)
  PROVE  Local(s) /\ session'[s].pc \in {"acquiring", "returning"}
<1>1. session[s] \in SessionState /\ Sound(session[s])
  BY DEF Types, AllSound
<1>2. session[s].turn < MaxTurns /\ session[s].retried \in BOOLEAN
  BY <1>1 DEF Sound, Busy, SessionState
<1>3. CASE session' = [session EXCEPT ![s].pc = "acquiring", ![s].call = "turn"]
  <2>1. session' = [session EXCEPT ![s].pc = "acquiring", ![s].call = "turn",
                                   ![s].retried = session[s].retried]
    BY <1>1, <1>3 DEF Types, SessionState
  <2> QED
    BY <1>2, <2>1, AskIsLocal
<1>4. CASE Return(s, st)
  BY <1>4, ReturnIsLocal DEF Statuses
<1>5. ASSUME NEW call \in {"turn", "summary"},
             session' = [session EXCEPT ![s].pc = "acquiring", ![s].call = call,
                                        ![s].retried = TRUE]
      PROVE  Local(s) /\ session'[s].pc \in {"acquiring", "returning"}
  BY <1>2, <1>5, AskIsLocal
<1> QED
  BY <1>3, <1>4, <1>5 DEF AfterFailure

LEMMA BeginTurnIsLocal ==
  ASSUME Types, AllSound, NEW s \in Sessions, BeginTurn(s)
  PROVE  Local(s) /\ session'[s].pc \in {"acquiring", "returning"}
<1>1. session[s] \in SessionState /\ session[s].pc = "turn"
  BY DEF Types, BeginTurn, At
<1>2. CASE session[s].turn = MaxTurns \/ Cancelled(s)
  <2>1. PICK st \in {"failed", "cancelled"} : Return(s, st)
    BY <1>2 DEF BeginTurn
  <2> QED
    BY <1>1, <2>1, ReturnIsLocal DEF Statuses
<1>3. CASE ~(session[s].turn = MaxTurns \/ Cancelled(s))
  <2>1. PICK call \in {"turn", "summary"} :
          session' = [session EXCEPT ![s].pc = "acquiring", ![s].call = call]
    BY <1>3 DEF BeginTurn
  <2>2. session' = [session EXCEPT ![s].pc = "acquiring", ![s].call = call,
                                   ![s].retried = session[s].retried]
    BY <1>1, <2>1 DEF Types, SessionState
  <2>3. session[s].turn < MaxTurns /\ session[s].retried \in BOOLEAN
    BY <1>1, <1>3 DEF SessionState
  <2> QED
    BY <1>1, <2>2, <2>3, AskIsLocal
<1> QED
  BY <1>2, <1>3

\* The answer is complete: a summary, the end, or tools to run.
LEMMA CollectIsLocal ==
  ASSUME Types, AllSound, NEW s \in Sessions, Collect(s)
  PROVE  Local(s) /\ session'[s].pc \in {"acquiring", "returning", "tools"}
<1>1. /\ session[s] \in SessionState /\ Sound(session[s])
      /\ session[s].pc = "closing"
  BY DEF Types, AllSound, Collect, At
<1>2. session[s].turn < MaxTurns /\ session[s].retried \in BOOLEAN
  BY <1>1 DEF Sound, Busy, SessionState
<1>3. CASE session' = [session EXCEPT ![s].pc = "acquiring", ![s].call = "turn"]
  <2>1. session' = [session EXCEPT ![s].pc = "acquiring", ![s].call = "turn",
                                   ![s].retried = session[s].retried]
    BY <1>1, <1>3 DEF Types, SessionState
  <2> QED
    BY <1>1, <1>2, <2>1, AskIsLocal
<1>4. CASE Return(s, "completed")
  BY <1>1, <1>4, ReturnIsLocal DEF Statuses
<1>5. CASE session' = [session EXCEPT ![s].pc = "tools", ![s].retried = FALSE]
  <2> DEFINE r == [session[s] EXCEPT !.pc = "tools", !.retried = FALSE]
  <2>2. r \in SessionState
    BY <1>1 DEF SessionState, PC
  <2>3. session' = [session EXCEPT ![s] = r]
    BY <1>1, <1>5 DEF Types
  <2>4. /\ r.pc = "tools" /\ r.status = session[s].status /\ r.turn = session[s].turn
        /\ r.reported = session[s].reported /\ r.parent = session[s].parent
        /\ r.cancelled = session[s].cancelled /\ r.child = session[s].child
    BY <1>1 DEF SessionState
  <2>5. Sound(r)
    BY <1>1, <2>4 DEF Sound, Busy, Ended
  <2> HIDE DEF r
  <2>6. GoesOn(session[s].pc, r.pc)
    BY <1>1, <2>4 DEF GoesOn
  <2> QED
    BY <1>1, <2>2, <2>3, <2>4, <2>5, <2>6, LocalIntro
<1> QED
  BY <1>3, <1>4, <1>5 DEF Collect

LEMMA ToolsReturnIsLocal ==
  ASSUME Types, AllSound, NEW s \in Sessions, ToolsReturn(s)
  PROVE  Local(s) /\ session'[s].pc = "turn"
<1> DEFINE r == ToNextTurn(session[s])
<1>1. /\ session[s] \in SessionState /\ Sound(session[s])
      /\ session[s].pc = "tools" /\ session[s].turn < MaxTurns
  BY DEF Types, AllSound, ToolsReturn, At, Sound, Busy
<1>2. r \in SessionState
  <2>1. session[s].turn + 1 \in 0..MaxTurns /\ NoSession \in Sessions \cup {NoSession}
        /\ "turn" \in PC
    BY <1>1 DEF SessionState, PC
  <2>2. r = [session[s] EXCEPT !.pc = "turn", !.turn = session[s].turn + 1,
                              !.child = NoSession]
    BY <1>1 DEF ToNextTurn, SessionState
  <2> QED
    BY <1>1, <2>1, <2>2 DEF SessionState
<1>3. session' = [session EXCEPT ![s] = r]
  BY DEF ToolsReturn
<1>4. /\ r.pc = "turn" /\ r.status = session[s].status
      /\ r.reported = session[s].reported /\ r.parent = session[s].parent
      /\ r.cancelled = session[s].cancelled
  BY <1>1 DEF SessionState, ToNextTurn
<1>5. Sound(r)
  BY <1>1, <1>4 DEF Sound, Busy, Ended
<1> HIDE DEF r
<1>6. GoesOn(session[s].pc, r.pc)
  BY <1>1, <1>4 DEF GoesOn
<1> QED
  BY <1>1, <1>2, <1>3, <1>4, <1>5, <1>6, LocalIntro

\* Subscribers come and their channels are closed.
LEMMA WatcherIsLocal ==
  ASSUME Types, AllSound, NEW s \in Sessions, NEW w \in {"none", "open", "closed"},
         NEW pc \in PC,
         \/ session[s].pc /= "none" /\ pc = session[s].pc
         \/ session[s].pc = "finished" /\ pc = "unwatched",
         session' = [session EXCEPT ![s].pc = pc, ![s].watcher = w]
  PROVE  Local(s) /\ session'[s].pc = pc
<1> DEFINE r == [session[s] EXCEPT !.pc = pc, !.watcher = w]
<1>1. session[s] \in SessionState /\ Sound(session[s])
  BY DEF Types, AllSound
<1>2. r \in SessionState
  BY <1>1 DEF SessionState
<1>3. session' = [session EXCEPT ![s] = r]
  BY <1>1 DEF Types
<1>4. /\ r.pc = pc /\ r.status = session[s].status /\ r.turn = session[s].turn
      /\ r.reported = session[s].reported /\ r.parent = session[s].parent
      /\ r.cancelled = session[s].cancelled /\ r.child = session[s].child
  BY <1>1 DEF SessionState
<1>5. Sound(r)
  BY <1>1, <1>4 DEF Sound, Busy, Ended
<1> HIDE DEF r
<1>6. GoesOn(session[s].pc, r.pc)
  BY <1>1, <1>4 DEF GoesOn
<1> QED
  BY <1>2, <1>3, <1>4, <1>5, <1>6, LocalIntro

LEMMA CloseSubscribersIsLocal ==
  ASSUME Types, AllSound, NEW s \in Sessions, CloseSubscribers(s)
  PROVE  Local(s) /\ session'[s].pc = "unwatched"
<1>1. session[s] \in SessionState /\ session[s].pc = "finished"
  BY DEF Types, CloseSubscribers, At
<1>2. PICK w \in {"none", "open", "closed"} :
        session' = [session EXCEPT ![s].pc = "unwatched", ![s].watcher = w]
  BY <1>1 DEF CloseSubscribers, SessionState
<1> QED
  BY <1>1, <1>2, WatcherIsLocal DEF PC

LEMMA SubscribeIsLocal ==
  ASSUME Types, AllSound, NEW s \in Sessions, Subscribe(s)
  PROVE  Local(s) /\ session'[s].pc = session[s].pc
<1>1. session[s] \in SessionState /\ session[s].pc /= "none" /\ session[s].pc \in PC
  BY DEF Types, Subscribe, SessionState
<1>2. PICK w \in {"none", "open", "closed"} : session' = [session EXCEPT ![s].watcher = w]
  BY DEF Subscribe
<1>3. session' = [session EXCEPT ![s].pc = session[s].pc, ![s].watcher = w]
  BY <1>1, <1>2 DEF Types, SessionState
<1> QED
  BY <1>1, <1>3, WatcherIsLocal

----------------------------------------------------------------------------
(* Families: what holds of parents and children after each kind of step.   *)

Family == AllSound /\ WaitsForChild /\ OrphansAreCancelled

LEMMA LocalKeepsFamily ==
  ASSUME Types, Family, NEW s \in Sessions, Local(s)
  PROVE  Family'
<1>1. AllSound'
  BY DEF Family, AllSound, Local
<1>2. \A x \in Sessions : /\ At(x, "none") <=> At(x, "none")'
                          /\ At(x, "waiting") <=> At(x, "waiting")'
                          /\ At(x, "waiting") => session'[x].child = session[x].child
                          /\ session'[x].parent = session[x].parent
                          /\ Cancelled(x) = Cancelled(x)'
                          /\ Done(x) => Done(x)'
                          /\ Registered(x)' => Registered(x)
  BY DEF Local, GoesOn, At, Cancelled, Done, Registered
<1>3. WaitsForChild'
  <2> SUFFICES ASSUME NEW x \in Sessions, At(x, "waiting")'
               PROVE  /\ session'[x].child \in Sessions \ {x}
                      /\ ~At(session[x].child, "none")'
    BY DEF WaitsForChild
  <2> QED
    BY <1>2 DEF Family, WaitsForChild, At
<1>4. OrphansAreCancelled'
  <2> SUFFICES ASSUME NEW c \in Sessions,
                      Registered(c)', session'[c].parent /= NoSession, ~Done(c)'
               PROVE  \/ Cancelled(c)'
                      \/ /\ session'[session'[c].parent].pc = "waiting"
                         /\ session'[session'[c].parent].child = c
    BY DEF OrphansAreCancelled, At
  <2>1. session[c].parent \in Sessions
    BY <1>2 DEF Types, SessionState
  <2>2. \/ Cancelled(c)
        \/ At(session[c].parent, "waiting") /\ session[session[c].parent].child = c
    BY <1>2, <2>1 DEF Family, OrphansAreCancelled
  <2> QED
    BY <1>2, <2>1, <2>2 DEF At
<1> QED
  BY <1>1, <1>3, <1>4 DEF Family

\* A session that was spawned: its record, and whoever was not born before.
LEMMA Newborn ==
  ASSUME NEW p \in Sessions \cup {NoSession}, NEW d \in 0..MaxDepth
  PROVE  /\ NewSession(p, d) \in SessionState /\ Sound(NewSession(p, d))
         /\ NewSession(p, d).pc = "turn" /\ NewSession(p, d).parent = p
<1>1. NewSession(p, d) \in SessionState
  BY DEF NewSession, SessionState, PC, Statuses
<1> QED
  BY <1>1 DEF NewSession, Sound, Busy, Ended

LEMMA NewIdIsUnused == Unused /= {} => NewId \in Sessions /\ At(NewId, "none")
BY DEF NewId, Unused

LEMMA SpawnRootKeepsFamily ==
  ASSUME Types, Family, SpawnRoot
  PROVE  /\ session' \in [Sessions -> SessionState] /\ Family'
         /\ NewId \in Sessions /\ session[NewId].pc = "none" /\ session'[NewId].pc = "turn"
         /\ \A x \in Sessions \ {NewId} : session'[x].pc = session[x].pc
<1> DEFINE n == NewId
           r == NewSession(NoSession, 0)
<1>1. n \in Sessions /\ session[n].pc = "none"
  BY NewIdIsUnused DEF SpawnRoot, At
<1>2. /\ r \in SessionState /\ Sound(r) /\ r.pc = "turn" /\ r.parent = NoSession
  BY Newborn
<1>3. session' = [session EXCEPT ![n] = r]
  BY DEF SpawnRoot, Spawn
<1> HIDE DEF n, r
<1>4. /\ session' \in [Sessions -> SessionState] /\ session'[n] = r
      /\ \A x \in Sessions \ {n} : session'[x] = session[x]
  BY <1>1, <1>2, <1>3 DEF Types
<1>5. AllSound'
  BY <1>2, <1>4 DEF Family, AllSound
<1>6. WaitsForChild'
  <2> SUFFICES ASSUME NEW x \in Sessions, session'[x].pc = "waiting"
               PROVE  /\ session'[x].child \in Sessions \ {x}
                      /\ session'[session'[x].child].pc /= "none"
    BY DEF WaitsForChild, At
  <2> QED
    BY <1>1, <1>2, <1>4 DEF Family, WaitsForChild, At
<1>7. OrphansAreCancelled'
  <2> SUFFICES ASSUME NEW c \in Sessions,
                      session'[c].pc \notin {"none", "gone"},
                      session'[c].parent /= NoSession,
                      session'[c].pc \notin {"finished", "unwatched", "gone"}
               PROVE  \/ session'[c].cancelled
                      \/ /\ session'[session'[c].parent].pc = "waiting"
                         /\ session'[session'[c].parent].child = c
    BY DEF OrphansAreCancelled, At, Registered, Done, Cancelled
  <2>1. c /= n /\ session'[c] = session[c] /\ session[c].parent \in Sessions
    BY <1>2, <1>4 DEF SessionState
  <2>2. \/ session[c].cancelled
        \/ /\ session[session[c].parent].pc = "waiting"
           /\ session[session[c].parent].child = c
    BY <2>1 DEF Family, OrphansAreCancelled, At, Registered, Done, Cancelled
  <2> QED
    BY <1>1, <1>4, <2>1, <2>2
<1> QED
  BY <1>1, <1>2, <1>4, <1>5, <1>6, <1>7 DEF Family, n

LEMMA SpawnChildKeepsFamily ==
  ASSUME Types, Family, NEW s \in Sessions, SpawnChild(s)
  PROVE  /\ session' \in [Sessions -> SessionState] /\ Family'
         /\ NewId \in Sessions /\ session[NewId].pc = "none" /\ session'[NewId].pc = "turn"
         /\ s /= NewId /\ session[s].pc = "tools" /\ session'[s].pc = "waiting"
         /\ \A x \in Sessions \ {s, NewId} : session'[x].pc = session[x].pc
<1> DEFINE n == NewId
           r == NewSession(s, session[s].depth + 1)
           q == [session[s] EXCEPT !.pc = "waiting", !.child = n]
<1>1. n \in Sessions /\ session[n].pc = "none"
  BY NewIdIsUnused DEF SpawnChild, At
<1>2. /\ session[s] \in SessionState /\ Sound(session[s])
      /\ session[s].pc = "tools" /\ session[s].depth < MaxDepth
  BY DEF Types, SpawnChild, At, Family, AllSound
<1>3. session[s].depth + 1 \in 0..MaxDepth
  BY <1>2 DEF SessionState
<1>4. /\ r \in SessionState /\ Sound(r) /\ r.pc = "turn" /\ r.parent = s
  BY <1>3, Newborn
<1>5. /\ q \in SessionState
      /\ q.pc = "waiting" /\ q.child = n /\ q.parent = session[s].parent
      /\ q.turn = session[s].turn /\ q.status = session[s].status
      /\ q.reported = session[s].reported /\ q.cancelled = session[s].cancelled
  BY <1>1, <1>2 DEF SessionState, PC
<1>6. Sound(q)
  BY <1>2, <1>5 DEF Sound, Busy, Ended
<1>7. session' = [[session EXCEPT ![s] = q] EXCEPT ![n] = r]
  BY <1>2 DEF SpawnChild, Spawn, Types
<1> HIDE DEF n, r, q
<1>8. s /= n
  BY <1>1, <1>2
<1>9. /\ session' \in [Sessions -> SessionState] /\ session'[n] = r /\ session'[s] = q
      /\ \A x \in Sessions \ {s, n} : session'[x] = session[x]
  BY <1>1, <1>4, <1>5, <1>7, <1>8 DEF Types
<1>10. AllSound'
  BY <1>4, <1>6, <1>9 DEF Family, AllSound
<1>11. WaitsForChild'
  <2> SUFFICES ASSUME NEW x \in Sessions, session'[x].pc = "waiting"
               PROVE  /\ session'[x].child \in Sessions \ {x}
                      /\ session'[session'[x].child].pc /= "none"
    BY DEF WaitsForChild, At
  <2>1. CASE x = s
    BY <1>1, <1>4, <1>5, <1>8, <1>9, <2>1
  <2>2. CASE x /= s
    <3>1. x /= n /\ session'[x] = session[x]
      BY <1>4, <1>9, <2>2
    <3>2. session[x].child \in Sessions \ {x} /\ session[session[x].child].pc /= "none"
      BY <3>1 DEF Family, WaitsForChild, At
    <3> QED
      BY <1>1, <1>5, <1>9, <3>1, <3>2
  <2> QED
    BY <2>1, <2>2
<1>12. OrphansAreCancelled'
  <2> SUFFICES ASSUME NEW c \in Sessions,
                      session'[c].pc \notin {"none", "gone"},
                      session'[c].parent /= NoSession,
                      session'[c].pc \notin {"finished", "unwatched", "gone"}
               PROVE  \/ session'[c].cancelled
                      \/ /\ session'[session'[c].parent].pc = "waiting"
                         /\ session'[session'[c].parent].child = c
    BY DEF OrphansAreCancelled, At, Registered, Done, Cancelled
  <2>1. CASE c = n
    BY <1>4, <1>5, <1>9, <2>1
  <2>2. CASE c /= n
    <3>0. session[c] \in SessionState
      BY DEF Types
    <3>1. /\ session'[c].parent = session[c].parent /\ session'[c].cancelled = session[c].cancelled
          /\ session[c].pc \notin {"none", "gone", "finished", "unwatched"}
          /\ session[c].parent \in Sessions
      <4>1. CASE c = s
        BY <1>2, <1>5, <1>9, <3>0, <4>1 DEF SessionState
      <4>2. CASE c /= s
        BY <1>9, <2>2, <3>0, <4>2 DEF SessionState
      <4> QED
        BY <4>1, <4>2
    <3>2. \/ session[c].cancelled
          \/ /\ session[session[c].parent].pc = "waiting"
             /\ session[session[c].parent].child = c
      BY <3>1 DEF Family, OrphansAreCancelled, At, Registered, Done, Cancelled
    <3> QED
      BY <1>1, <1>2, <1>9, <3>1, <3>2
  <2> QED
    BY <2>1, <2>2
<1> QED
  BY <1>1, <1>2, <1>4, <1>5, <1>8, <1>9, <1>10, <1>11, <1>12 DEF Family, n

\* The parent goes on to its next turn; its child was done, or is cancelled now.
LEMMA WaitEndsKeepsFamily ==
  ASSUME Types, Family, NEW s \in Sessions, NEW c \in Sessions, s /= c,
         session[s].pc = "waiting", session[s].child = c,
         NEW q \in SessionState, Sound(q), q.pc = "turn",
         q.parent = session[s].parent, q.cancelled = session[s].cancelled,
         NEW u \in SessionState, Sound(u), u.pc = session[c].pc,
         u.parent = session[c].parent, u.child = session[c].child,
         u.cancelled \/ Done(c),
         session' = [[session EXCEPT ![s] = q] EXCEPT ![c] = u]
  PROVE  /\ session' \in [Sessions -> SessionState] /\ Family'
         /\ session'[s].pc = "turn"
         /\ \A x \in Sessions \ {s} : session'[x].pc = session[x].pc
<1>1. /\ session' \in [Sessions -> SessionState] /\ session'[s] = q /\ session'[c] = u
      /\ \A x \in Sessions \ {s, c} : session'[x] = session[x]
  BY DEF Types
<1>2. AllSound'
  BY <1>1 DEF Family, AllSound
<1>3. \A x \in Sessions \ {s} : /\ session'[x].pc = session[x].pc
                                /\ session'[x].child = session[x].child
                                /\ session'[x].parent = session[x].parent
  BY <1>1
<1>4. WaitsForChild'
  <2> SUFFICES ASSUME NEW x \in Sessions, session'[x].pc = "waiting"
               PROVE  /\ session'[x].child \in Sessions \ {x}
                      /\ session'[session'[x].child].pc /= "none"
    BY DEF WaitsForChild, At
  <2>1. x /= s
    BY <1>1
  <2>2. session[x].child \in Sessions \ {x} /\ session[session[x].child].pc /= "none"
    BY <1>3, <2>1 DEF Family, WaitsForChild, At
  <2> QED
    BY <1>1, <1>3, <2>1, <2>2
<1>5. OrphansAreCancelled'
  <2> SUFFICES ASSUME NEW x \in Sessions,
                      session'[x].pc \notin {"none", "gone"},
                      session'[x].parent /= NoSession,
                      session'[x].pc \notin {"finished", "unwatched", "gone"}
               PROVE  \/ session'[x].cancelled
                      \/ /\ session'[session'[x].parent].pc = "waiting"
                         /\ session'[session'[x].parent].child = x
    BY DEF OrphansAreCancelled, At, Registered, Done, Cancelled
  <2>1. CASE x = c
    BY <1>1, <2>1 DEF Done
  <2>2. CASE x /= c
    <3>1. session[x] \in SessionState
      BY DEF Types
    <3>2. /\ session'[x].parent = session[x].parent
          /\ session'[x].cancelled = session[x].cancelled
          /\ session[x].pc \notin {"none", "gone", "finished", "unwatched"}
      BY <1>1, <1>3, <2>2
    <3>3. session[x].parent \in Sessions
      BY <3>1, <3>2 DEF SessionState
    <3>4. \/ session[x].cancelled
          \/ /\ session[session[x].parent].pc = "waiting"
             /\ session[session[x].parent].child = x
      BY <3>2, <3>3 DEF Family, OrphansAreCancelled, At, Registered, Done, Cancelled
    <3>5. CASE session[x].cancelled
      BY <3>2, <3>5
    <3>6. CASE /\ session[session[x].parent].pc = "waiting"
               /\ session[session[x].parent].child = x
      <4> DEFINE p == session[x].parent
      <4>1. p \in Sessions \ {s}
        BY <2>2, <3>3, <3>6
      <4>2. session[p].pc = "waiting" /\ session[p].child = x
        BY <3>6
      <4>3. session'[x].parent = p
        BY <3>2
      <4> HIDE DEF p
      <4>4. session'[p].pc = "waiting" /\ session'[p].child = x
        BY <1>3, <4>1, <4>2
      <4> QED
        BY <4>3, <4>4
    <3> QED
      BY <3>4, <3>5, <3>6
  <2> QED
    BY <2>1, <2>2
<1> QED
  BY <1>1, <1>2, <1>3, <1>4, <1>5 DEF Family

\* What the two ends of a wait have in common.
LEMMA WaitingParent ==
  ASSUME Types, Family, NEW s \in Sessions, session[s].pc = "waiting"
  PROVE  /\ session[s].child \in Sessions \ {s}
         /\ ToNextTurn(session[s]) \in SessionState
         /\ Sound(ToNextTurn(session[s])) /\ ToNextTurn(session[s]).pc = "turn"
         /\ ToNextTurn(session[s]).parent = session[s].parent
         /\ ToNextTurn(session[s]).cancelled = session[s].cancelled
<1> DEFINE q == ToNextTurn(session[s])
<1>1. session[s] \in SessionState /\ Sound(session[s]) /\ session[s].turn < MaxTurns
  BY DEF Types, Family, AllSound, Sound, Busy
<1>2. session[s].child \in Sessions \ {s}
  BY DEF Family, WaitsForChild, At
<1>3. q \in SessionState
  <2>1. session[s].turn + 1 \in 0..MaxTurns /\ NoSession \in Sessions \cup {NoSession}
        /\ "turn" \in PC
    BY <1>1 DEF SessionState, PC
  <2>2. q = [session[s] EXCEPT !.pc = "turn", !.turn = session[s].turn + 1,
                              !.child = NoSession]
    BY <1>1 DEF ToNextTurn, SessionState
  <2> QED
    BY <1>1, <2>1, <2>2 DEF SessionState
<1>4. /\ q.pc = "turn" /\ q.status = session[s].status
      /\ q.reported = session[s].reported /\ q.parent = session[s].parent
      /\ q.cancelled = session[s].cancelled
  BY <1>1 DEF SessionState, ToNextTurn
<1>5. Sound(q)
  BY <1>1, <1>4 DEF Sound, Busy, Ended
<1> QED
  BY <1>2, <1>3, <1>4, <1>5

LEMMA ChildDoneKeepsFamily ==
  ASSUME Types, Family, NEW s \in Sessions, ChildDone(s)
  PROVE  /\ session' \in [Sessions -> SessionState] /\ Family'
         /\ session[s].pc = "waiting" /\ session'[s].pc = "turn"
         /\ \A x \in Sessions \ {s} : session'[x].pc = session[x].pc
<1> DEFINE c == session[s].child
           q == ToNextTurn(session[s])
           u == [session[c] EXCEPT !.reported = Verdict(c)]
<1>1. session[s].pc = "waiting" /\ Done(c)
  BY DEF ChildDone, At
<1>2. c \in Sessions \ {s}
  BY <1>1, WaitingParent
<1>3. session[c] \in SessionState /\ Sound(session[c])
  BY <1>2 DEF Types, Family, AllSound
<1>4. /\ Verdict(c) \in {"success", "error"}
      /\ Verdict(c) = "success" => session[c].status = "completed"
  BY <1>1, <1>3 DEF Verdict, Sound, Ended, Done, SessionState, Statuses
<1>5. u \in SessionState
  BY <1>3, <1>4 DEF SessionState
<1>6. /\ u.pc = session[c].pc /\ u.status = session[c].status /\ u.turn = session[c].turn
      /\ u.reported = Verdict(c) /\ u.parent = session[c].parent
      /\ u.child = session[c].child
  BY <1>3 DEF SessionState
<1>7. Sound(u)
  BY <1>1, <1>3, <1>4, <1>6 DEF Sound, Busy, Ended, Done
<1>8. session' = [[session EXCEPT ![s] = q] EXCEPT ![c] = u]
  BY <1>2 DEF ChildDone, Types
<1>9. /\ q \in SessionState /\ Sound(q) /\ q.pc = "turn"
      /\ q.parent = session[s].parent /\ q.cancelled = session[s].cancelled
  BY <1>1, WaitingParent
<1>10. session[s].child = c
  OBVIOUS
<1> HIDE DEF c, q, u
<1> QED
  BY <1>1, <1>2, <1>5, <1>6, <1>7, <1>8, <1>9, <1>10, WaitEndsKeepsFamily

LEMMA StopWaitingKeepsFamily ==
  ASSUME Types, Family, NEW s \in Sessions, StopWaiting(s)
  PROVE  /\ session' \in [Sessions -> SessionState] /\ Family'
         /\ session[s].pc = "waiting" /\ session'[s].pc = "turn"
         /\ \A x \in Sessions \ {s} : session'[x].pc = session[x].pc
<1> DEFINE c == session[s].child
           q == ToNextTurn(session[s])
           u == [session[c] EXCEPT !.reported = "error", !.cancelled = TRUE]
<1>1. session[s].pc = "waiting"
  BY DEF StopWaiting, At
<1>2. c \in Sessions \ {s}
  BY <1>1, WaitingParent
<1>3. session[c] \in SessionState /\ Sound(session[c])
  BY <1>2 DEF Types, Family, AllSound
<1>5. u \in SessionState
  BY <1>3 DEF SessionState
<1>6. /\ u.pc = session[c].pc /\ u.status = session[c].status /\ u.turn = session[c].turn
      /\ u.reported = "error" /\ u.parent = session[c].parent
      /\ u.child = session[c].child /\ u.cancelled
  BY <1>3 DEF SessionState
<1>7. Sound(u)
  BY <1>3, <1>6 DEF Sound, Busy, Ended
<1>8. session' = [[session EXCEPT ![s] = q] EXCEPT ![c] = u]
  BY <1>2 DEF StopWaiting, Types
<1>9. /\ q \in SessionState /\ Sound(q) /\ q.pc = "turn"
      /\ q.parent = session[s].parent /\ q.cancelled = session[s].cancelled
  BY <1>1, WaitingParent
<1>10. session[s].child = c
  OBVIOUS
<1> HIDE DEF c, q, u
<1> QED
  BY <1>1, <1>2, <1>5, <1>6, <1>7, <1>8, <1>9, <1>10, WaitEndsKeepsFamily

\* Cancels change nothing but the contexts.
LEMMA CancelsKeepFamily ==
  ASSUME Types, Family, session' \in [Sessions -> SessionState],
         \A x \in Sessions : \/ session'[x] = session[x]
                             \/ session'[x] = [session[x] EXCEPT !.cancelled = TRUE]
  PROVE  Family' /\ \A x \in Sessions : session'[x].pc = session[x].pc
<1>1. \A x \in Sessions : /\ session'[x].pc = session[x].pc
                          /\ session'[x].child = session[x].child
                          /\ session'[x].parent = session[x].parent
                          /\ session'[x].turn = session[x].turn
                          /\ session'[x].status = session[x].status
                          /\ session'[x].reported = session[x].reported
                          /\ session[x].cancelled => session'[x].cancelled
  <2> TAKE x \in Sessions
  <2>1. session[x] \in SessionState
    BY DEF Types
  <2> QED
    BY <2>1 DEF SessionState
<1>2. AllSound'
  BY <1>1 DEF Family, AllSound, Sound
<1>3. WaitsForChild'
  BY <1>1 DEF Family, WaitsForChild, At
<1>4. OrphansAreCancelled'
  <2> SUFFICES ASSUME NEW x \in Sessions,
                      session'[x].pc \notin {"none", "gone"},
                      session'[x].parent /= NoSession,
                      session'[x].pc \notin {"finished", "unwatched", "gone"}
               PROVE  \/ session'[x].cancelled
                      \/ /\ session'[session'[x].parent].pc = "waiting"
                         /\ session'[session'[x].parent].child = x
    BY DEF OrphansAreCancelled, At, Registered, Done, Cancelled
  <2>1. session[x].parent \in Sessions
    BY <1>1 DEF Types, SessionState
  <2> QED
    BY <1>1, <2>1 DEF Family, OrphansAreCancelled, At, Registered, Done, Cancelled
<1> QED
  BY <1>1, <1>2, <1>3, <1>4 DEF Family

----------------------------------------------------------------------------
(* Slots.                                                                  *)

Held == Calls \cup lingering

LEMMA HeldIsFinite == Types => IsFiniteSet(Held)
<1> SUFFICES ASSUME Types PROVE IsFiniteSet(Held)
  OBVIOUS
<1>1. IsFiniteSet(0..MaxLingering)
  BY FS_Interval
<1>2. IsFiniteSet(Sessions \X (0..MaxLingering))
  BY <1>1, FS_Product
<1>3. Held \subseteq Sessions \X (0..MaxLingering)
  <2>1. Calls \subseteq Sessions \X (0..MaxLingering)
    BY DEF Calls
  <2>2. Sessions \X (1..MaxLingering) \subseteq Sessions \X (0..MaxLingering)
    OBVIOUS
  <2>3. lingering \subseteq Sessions \X (1..MaxLingering)
    BY DEF Types
  <2> QED
    BY <2>1, <2>2, <2>3 DEF Held
<1> DEFINE D == Sessions \X (0..MaxLingering)
<1> HIDE DEF D
<1>4. IsFiniteSet(D) /\ Held \in SUBSET D
  BY <1>2, <1>3 DEF D
<1> QED
  BY <1>4, FS_Subset

LEMMA HeldCounts ==
  /\ SlotsAreHeld <=> sem = Cardinality(Held) /\ sem <= Capacity
  /\ SlotsAreHeld' <=> sem' = Cardinality(Held') /\ sem' <= Capacity
BY DEF SlotsAreHeld, Held

\* The call of a session is no abandoned stream.
LEMMA CallIsNotLingering ==
  ASSUME Types, NEW s \in Sessions
  PROVE  /\ <<s, 0>> \notin lingering
         /\ <<s, 0>> \in Calls <=> session[s].pc = "calling"
         /\ \A k \in 1..MaxLingering : <<s, k>> \notin Calls
<1>1. <<s, 0>> \notin Sessions \X (1..MaxLingering)
  OBVIOUS
<1>2. <<s, 0>> \notin lingering
  BY <1>1 DEF Types
<1>3. <<s, 0>> \in Calls <=> session[s].pc = "calling"
  BY DEF Calls, At
<1>4. \A k \in 1..MaxLingering : <<s, k>> \notin Calls
  BY DEF Calls
<1> QED
  BY <1>2, <1>3, <1>4

LEMMA SlotsUntouched ==
  ASSUME Types, SlotsAreHeld, UNCHANGED <<lingering, sem>>,
         \A x \in Sessions : session[x].pc = "calling" <=> session'[x].pc = "calling"
  PROVE  SlotsAreHeld'
<1>1. Calls' = Calls
  BY DEF Calls, At
<1> QED
  BY <1>1 DEF SlotsAreHeld

LEMMA SlotTaken ==
  ASSUME Types, SlotsAreHeld, NEW s \in Sessions,
         session[s].pc /= "calling", session'[s].pc = "calling",
         \A x \in Sessions \ {s} : session'[x].pc = session[x].pc,
         sem < Capacity, sem' = sem + 1, lingering' = lingering
  PROVE  SlotsAreHeld'
<1>1. Held' = Held \cup {<<s, 0>>}
  BY DEF Held, Calls, At
<1>2. <<s, 0>> \notin Held
  BY CallIsNotLingering DEF Held
<1>3. Cardinality(Held') = Cardinality(Held) + 1
  BY <1>1, <1>2, HeldIsFinite, FS_AddElement
<1>4. sem = Cardinality(Held) /\ sem \in Nat
  BY HeldCounts DEF Types
<1>5. sem' = Cardinality(Held') /\ sem' <= Capacity
  BY <1>3, <1>4
<1> QED
  BY <1>5, HeldCounts

LEMMA SlotGivenBack ==
  ASSUME Types, SlotsAreHeld, NEW s \in Sessions,
         session[s].pc = "calling", session'[s].pc /= "calling",
         \A x \in Sessions \ {s} : session'[x].pc = session[x].pc,
         sem' = sem - 1, lingering' = lingering
  PROVE  SlotsAreHeld' /\ sem' \in Nat
<1>1. Held' = Held \ {<<s, 0>>}
  BY CallIsNotLingering DEF Held, Calls, At
<1>2. <<s, 0>> \in Held
  BY CallIsNotLingering DEF Held
<1>3. Cardinality(Held') = Cardinality(Held) - 1
  BY <1>1, <1>2, HeldIsFinite, FS_RemoveElement
<1>4. IsFiniteSet(Held')
  BY <1>1, HeldIsFinite, FS_RemoveElement
<1>5. Cardinality(Held') \in Nat
  BY <1>4, FS_CardinalityType
<1>6. sem = Cardinality(Held) /\ sem <= Capacity /\ sem \in Nat
  BY HeldCounts DEF Types
<1>7. sem' = Cardinality(Held') /\ sem' <= Capacity
  BY <1>3, <1>6
<1> QED
  BY <1>5, <1>7, HeldCounts

LEMMA LingeringGivenBack ==
  ASSUME Types, SlotsAreHeld, NEW s \in Sessions, LingeringEnds(s)
  PROVE  SlotsAreHeld' /\ sem' \in Nat /\ lingering' \subseteq lingering
<1>1. PICK k \in 1..MaxLingering : /\ <<s, k>> \in lingering
                                  /\ lingering' = lingering \ {<<s, k>>}
  BY DEF LingeringEnds
<1>2. Held' = Held \ {<<s, k>>}
  BY <1>1, CallIsNotLingering DEF Held, Calls, At, LingeringEnds
<1>3. <<s, k>> \in Held
  BY <1>1 DEF Held
<1>4. Cardinality(Held') = Cardinality(Held) - 1
  BY <1>2, <1>3, HeldIsFinite, FS_RemoveElement
<1>5. IsFiniteSet(Held')
  BY <1>2, HeldIsFinite, FS_RemoveElement
<1>6. Cardinality(Held') \in Nat
  BY <1>5, FS_CardinalityType
<1>7. sem = Cardinality(Held) /\ sem <= Capacity /\ sem \in Nat
  BY HeldCounts DEF Types
<1>8. sem' = Cardinality(Held') /\ sem' <= Capacity
  BY <1>4, <1>7 DEF LingeringEnds
<1> QED
  BY <1>1, <1>6, <1>8, HeldCounts

\* An abandoned stream takes the slot of the call over.
LEMMA SlotPassedOn ==
  ASSUME Types, SlotsAreHeld, NEW s \in Sessions, NEW k \in 1..MaxLingering,
         session[s].pc = "calling", session'[s].pc /= "calling",
         \A x \in Sessions \ {s} : session'[x].pc = session[x].pc,
         <<s, k>> \notin lingering, lingering' = lingering \cup {<<s, k>>}, sem' = sem
  PROVE  SlotsAreHeld' /\ lingering' \subseteq Sessions \X (1..MaxLingering)
<1>1. Held' = (Held \ {<<s, 0>>}) \cup {<<s, k>>}
  BY CallIsNotLingering DEF Held, Calls, At
<1>2. <<s, 0>> \in Held /\ <<s, k>> \notin Held \ {<<s, 0>>}
  BY CallIsNotLingering DEF Held
<1>3. /\ IsFiniteSet(Held \ {<<s, 0>>})
      /\ Cardinality(Held \ {<<s, 0>>}) = Cardinality(Held) - 1
  BY <1>2, HeldIsFinite, FS_RemoveElement
<1>4. Cardinality(Held') = Cardinality(Held \ {<<s, 0>>}) + 1
  BY <1>1, <1>2, <1>3, FS_AddElement
<1>5. Cardinality(Held) \in Nat
  BY HeldIsFinite, FS_CardinalityType
<1>6. Cardinality(Held') = Cardinality(Held)
  BY <1>3, <1>4, <1>5
<1>7. SlotsAreHeld'
  BY <1>6, HeldCounts
<1>8. lingering' \subseteq Sessions \X (1..MaxLingering)
  <2>1. <<s, k>> \in Sessions \X (1..MaxLingering)
    OBVIOUS
  <2> QED
    BY <2>1 DEF Types
<1> QED
  BY <1>7, <1>8

----------------------------------------------------------------------------
(* The group Shutdown waits for.                                           *)

LEMMA MembersAreFinite == IsFiniteSet(Members) /\ Cardinality(Members) \in Nat
BY FS_Subset, FS_CardinalityType DEF Members

\* No session registers or leaves.
LEMMA GroupUntouched ==
  ASSUME GroupCounts, wg' = wg,
         \A x \in Sessions : session[x].pc \in {"none", "gone"}
                               <=> session'[x].pc \in {"none", "gone"}
  PROVE  GroupCounts' /\ Members' = Members
<1>1. Members' = Members
  BY DEF Members, Registered
<1> QED
  BY <1>1 DEF GroupCounts

LEMMA GroupGrows ==
  ASSUME GroupCounts, wg' = wg + 1, NEW n \in Sessions,
         session[n].pc = "none", session'[n].pc = "turn",
         \A x \in Sessions \ {n} : session[x].pc \in {"none", "gone"}
                                     <=> session'[x].pc \in {"none", "gone"}
  PROVE  GroupCounts'
<1>1. Members' = Members \cup {n} /\ n \notin Members
  BY DEF Members, Registered
<1>2. Cardinality(Members') = Cardinality(Members) + 1
  BY <1>1, MembersAreFinite, FS_AddElement
<1> QED
  BY <1>2 DEF GroupCounts

LEMMA GroupShrinks ==
  ASSUME GroupCounts, wg' = wg - 1, NEW s \in Sessions,
         session[s].pc = "unwatched", session'[s].pc = "gone",
         \A x \in Sessions \ {s} : session'[x].pc = session[x].pc
  PROVE  GroupCounts' /\ wg' \in Nat /\ s \in Members
<1>1. Members' = Members \ {s} /\ s \in Members
  BY DEF Members, Registered
<1>2. Cardinality(Members') = Cardinality(Members) - 1
  BY <1>1, MembersAreFinite, FS_RemoveElement
<1>3. IsFiniteSet(Members')
  BY <1>1, MembersAreFinite, FS_RemoveElement
<1>4. Cardinality(Members') \in Nat
  BY <1>3, FS_CardinalityType
<1> QED
  BY <1>1, <1>2, <1>4 DEF GroupCounts

\* A shutdown that sees the count at zero has nobody left to wait for.
LEMMA NobodyLeft ==
  ASSUME GroupCounts, wg = 0
  PROVE  \A s \in Sessions : ~Registered(s)
<1>1. Members = {}
  BY MembersAreFinite, FS_EmptySet DEF GroupCounts
<1> QED
  BY <1>1 DEF Members

----------------------------------------------------------------------------
(* The steps keep the invariant.                                           *)

\* A step that neither registers nor removes a session.
LEMMA SettledStep ==
  ASSUME IInv, session' \in [Sessions -> SessionState], Family',
         \A x \in Sessions : session[x].pc \in {"none", "gone"}
                               <=> session'[x].pc \in {"none", "gone"},
         SlotsAreHeld', lingering' \subseteq Sessions \X (1..MaxLingering), sem' \in Nat,
         wg' = wg, closed' = closed, shutdown' = shutdown,
         sweep' \subseteq Sessions, cancels' \in 0..MaxCancels
  PROVE  IInv'
<1>1. Types'
  BY DEF IInv, Types
<1>2. GroupCounts' /\ Members' = Members
  BY GroupUntouched DEF IInv
<1>3. ShutdownCloses'
  BY DEF IInv, ShutdownCloses
<1>4. ShutdownLeavesNobody'
  BY <1>2 DEF IInv, ShutdownLeavesNobody, Members
<1> QED
  BY <1>1, <1>2, <1>3, <1>4 DEF IInv, Family

LEMMA LocalStep ==
  ASSUME IInv, NEW s \in Sessions, Local(s),
         session[s].pc /= "gone", session'[s].pc /= "gone",
         SlotsAreHeld', lingering' \subseteq Sessions \X (1..MaxLingering), sem' \in Nat,
         UNCHANGED runtimeVars
  PROVE  IInv'
<1>1. session' \in [Sessions -> SessionState] /\ Family'
  BY LocalKeepsFamily DEF Local, IInv, Family
<1>2. \A x \in Sessions : session[x].pc \in {"none", "gone"}
                            <=> session'[x].pc \in {"none", "gone"}
  BY DEF Local, GoesOn
<1>3. /\ wg' = wg /\ closed' = closed /\ shutdown' = shutdown
      /\ sweep' \subseteq Sessions /\ cancels' \in 0..MaxCancels
  BY DEF IInv, Types, runtimeVars
<1> QED
  BY <1>1, <1>2, <1>3, SettledStep

\* A local step away from the slots.
LEMMA QuietStep ==
  ASSUME IInv, NEW s \in Sessions, Local(s),
         session[s].pc /= "gone", session'[s].pc /= "gone",
         session[s].pc = "calling" <=> session'[s].pc = "calling",
         UNCHANGED <<lingering, sem, runtimeVars>>
  PROVE  IInv'
<1>1. \A x \in Sessions : session[x].pc = "calling" <=> session'[x].pc = "calling"
  BY DEF Local
<1>2. SlotsAreHeld'
  BY <1>1, SlotsUntouched DEF IInv
<1>3. lingering' \subseteq Sessions \X (1..MaxLingering) /\ sem' \in Nat
  BY DEF IInv, Types
<1> QED
  BY <1>2, <1>3, LocalStep

LEMMA CallStep ==
  ASSUME IInv, NEW s \in Sessions, Acquire(s) \/ OpenFails(s) \/ StreamEnds(s) \/ Abandon(s)
  PROVE  IInv'
<1>0. Types /\ AllSound /\ SlotsAreHeld
  BY DEF IInv
<1>1. CASE Acquire(s)
  <2>1. /\ session[s].pc = "acquiring" /\ Goto(s, "calling") /\ sem < Capacity
        /\ sem' = sem + 1 /\ lingering' = lingering /\ UNCHANGED runtimeVars
    BY <1>1 DEF Acquire, At
  <2>2. Local(s) /\ session'[s].pc = "calling"
    BY <1>0, <2>1, GotoIsLocal DEF PC
  <2>3. \A x \in Sessions \ {s} : session'[x].pc = session[x].pc
    BY <2>2 DEF Local
  <2>4. SlotsAreHeld'
    BY <1>0, <2>1, <2>2, <2>3, SlotTaken
  <2>5. lingering' \subseteq Sessions \X (1..MaxLingering) /\ sem' \in Nat
    <3>1. lingering \subseteq Sessions \X (1..MaxLingering) /\ sem \in Nat
      BY <1>0 DEF Types
    <3>2. sem' \in Nat
      BY <2>1, <3>1
    <3> QED
      BY <2>1, <3>1, <3>2
  <2> QED
    BY <2>1, <2>2, <2>4, <2>5, LocalStep
<1>2. CASE OpenFails(s) \/ StreamEnds(s)
  <2>1. /\ session[s].pc = "calling" /\ sem' = sem - 1 /\ lingering' = lingering
        /\ UNCHANGED runtimeVars
    BY <1>2 DEF OpenFails, StreamEnds, At
  <2>2. Local(s) /\ session'[s].pc \in {"acquiring", "returning", "closing"}
    <3>1. CASE OpenFails(s)
      BY <1>0, <2>1, <3>1, FailureIsLocal DEF OpenFails
    <3>2. CASE StreamEnds(s)
      BY <1>0, <2>1, <3>2, GotoIsLocal DEF StreamEnds, PC
    <3> QED
      BY <1>2, <3>1, <3>2
  <2>3. \A x \in Sessions \ {s} : session'[x].pc = session[x].pc
    BY <2>2 DEF Local
  <2>4. SlotsAreHeld' /\ sem' \in Nat
    BY <1>0, <2>1, <2>2, <2>3, SlotGivenBack
  <2>5. lingering' \subseteq Sessions \X (1..MaxLingering)
    BY <1>0, <2>1 DEF Types
  <2> QED
    BY <2>1, <2>2, <2>4, <2>5, LocalStep
<1>3. CASE Abandon(s)
  <2>1. session[s].pc = "calling" /\ sem' = sem /\ UNCHANGED runtimeVars
    BY <1>3 DEF Abandon, At
  <2>2. PICK k \in 1..MaxLingering : /\ <<s, k>> \notin lingering
                                    /\ lingering' = lingering \cup {<<s, k>>}
    BY <1>3 DEF Abandon
  <2>3. PICK st \in {"failed", "cancelled"}, mayRetry \in BOOLEAN : AfterFailure(s, st, mayRetry)
    <3>1. CASE Cancelled(s)
      BY <1>3, <3>1 DEF Abandon
    <3>2. CASE ~Cancelled(s)
      BY <1>3, <3>2 DEF Abandon
    <3> QED
      BY <3>1, <3>2
  <2>4. Local(s) /\ session'[s].pc \in {"acquiring", "returning"}
    BY <1>0, <2>1, <2>3, FailureIsLocal
  <2>5. \A x \in Sessions \ {s} : session'[x].pc = session[x].pc
    BY <2>4 DEF Local
  <2>6. SlotsAreHeld' /\ lingering' \subseteq Sessions \X (1..MaxLingering)
    <3>1. session'[s].pc /= "calling"
      BY <2>4
    <3> QED
      BY <1>0, <2>1, <2>2, <2>5, <3>1, SlotPassedOn
  <2>7. sem' \in Nat
    BY <1>0, <2>1 DEF Types
  <2> QED
    BY <2>1, <2>4, <2>6, <2>7, LocalStep
<1> QED
  BY <1>1, <1>2, <1>3

\* A session is born while the runtime is open.
LEMMA SpawnStep ==
  ASSUME IInv, ~closed, wg' = wg + 1,
         session' \in [Sessions -> SessionState], Family', NEW n \in Sessions,
         session[n].pc = "none", session'[n].pc = "turn",
         \A x \in Sessions \ {n} : /\ session[x].pc \in {"none", "gone"}
                                        <=> session'[x].pc \in {"none", "gone"}
                                   /\ session[x].pc = "calling" <=> session'[x].pc = "calling",
         UNCHANGED <<lingering, sem, closed, shutdown, sweep, cancels>>
  PROVE  IInv'
<1>1. Types'
  <2>1. wg \in Nat
    BY DEF IInv, Types
  <2>2. wg' \in Nat
    BY <2>1
  <2> QED
    BY <2>2 DEF IInv, Types
<1>2. GroupCounts'
  BY GroupGrows DEF IInv
<1>3. ShutdownCloses' /\ ShutdownLeavesNobody'
  BY DEF IInv, ShutdownCloses, ShutdownLeavesNobody
<1>4. \A x \in Sessions : session[x].pc = "calling" <=> session'[x].pc = "calling"
  OBVIOUS
<1>5. SlotsAreHeld'
  BY <1>4, SlotsUntouched DEF IInv
<1> QED
  BY <1>1, <1>2, <1>3, <1>5 DEF IInv, Family

LEMMA RemoveStep ==
  ASSUME IInv, NEW s \in Sessions, Remove(s)
  PROVE  IInv'
<1>1. /\ session[s].pc = "unwatched" /\ Goto(s, "gone") /\ wg' = wg - 1
      /\ UNCHANGED <<lingering, sem, closed, shutdown, sweep, cancels>>
  BY DEF Remove, At
<1>2. Local(s) /\ session'[s].pc = "gone"
  BY <1>1, GotoIsLocal DEF IInv, PC
<1>3. session' \in [Sessions -> SessionState] /\ Family'
  BY <1>2, LocalKeepsFamily DEF Local, IInv, Family
<1>4. \A x \in Sessions \ {s} : session'[x].pc = session[x].pc
  BY <1>2 DEF Local
<1>5. GroupCounts' /\ wg' \in Nat /\ s \in Members
  BY <1>1, <1>2, <1>4, GroupShrinks DEF IInv
<1>6. Types'
  BY <1>1, <1>3, <1>5 DEF IInv, Types
<1>7. ShutdownCloses' /\ ShutdownLeavesNobody'
  BY <1>1, <1>5 DEF IInv, ShutdownCloses, ShutdownLeavesNobody, Members
<1>8. \A x \in Sessions : session[x].pc = "calling" <=> session'[x].pc = "calling"
  BY <1>1, <1>2, <1>4
<1>9. SlotsAreHeld'
  BY <1>1, <1>8, SlotsUntouched DEF IInv
<1> QED
  BY <1>3, <1>5, <1>6, <1>7, <1>9 DEF IInv, Family

\* The two ends of a wait.
LEMMA WaitStep ==
  ASSUME IInv, NEW s \in Sessions, ChildDone(s) \/ StopWaiting(s)
  PROVE  IInv'
<1>1. /\ session' \in [Sessions -> SessionState] /\ Family'
      /\ session[s].pc = "waiting" /\ session'[s].pc = "turn"
      /\ \A x \in Sessions \ {s} : session'[x].pc = session[x].pc
  BY ChildDoneKeepsFamily, StopWaitingKeepsFamily DEF IInv, Family
<1>2. UNCHANGED <<lingering, sem, runtimeVars>>
  BY DEF ChildDone, StopWaiting
<1>3. \A x \in Sessions : /\ session[x].pc \in {"none", "gone"}
                               <=> session'[x].pc \in {"none", "gone"}
                          /\ session[x].pc = "calling" <=> session'[x].pc = "calling"
  BY <1>1
<1>4. SlotsAreHeld'
  BY <1>2, <1>3, SlotsUntouched DEF IInv
<1>5. /\ lingering' \subseteq Sessions \X (1..MaxLingering) /\ sem' \in Nat
      /\ wg' = wg /\ closed' = closed /\ shutdown' = shutdown
      /\ sweep' \subseteq Sessions /\ cancels' \in 0..MaxCancels
  BY <1>2 DEF IInv, Types, runtimeVars
<1> QED
  BY <1>1, <1>3, <1>4, <1>5, SettledStep

LEMMA RunStep ==
  ASSUME IInv, NEW s \in Sessions,
         Proceeds(s) \/ CallEnds(s) \/ ToolsReturn(s) \/ SpawnChild(s)
  PROVE  IInv'
<1>0. Types /\ AllSound /\ Family
  BY DEF IInv, Family
<1>1. CASE BeginTurn(s)
  <2>1. Local(s) /\ session'[s].pc \in {"acquiring", "returning"}
    BY <1>0, <1>1, BeginTurnIsLocal
  <2>2. session[s].pc = "turn" /\ UNCHANGED <<lingering, sem, runtimeVars>>
    BY <1>1 DEF BeginTurn, At
  <2> QED
    BY <2>1, <2>2, QuietStep
<1>2. CASE Acquire(s) \/ CallEnds(s)
  BY <1>2, CallStep DEF CallEnds
<1>3. CASE GiveUpWaiting(s)
  <2>1. /\ session[s].pc = "acquiring" /\ AfterFailure(s, "failed", FALSE)
        /\ UNCHANGED <<lingering, sem, runtimeVars>>
    BY <1>3 DEF GiveUpWaiting, At
  <2>2. Local(s) /\ session'[s].pc \in {"acquiring", "returning"}
    BY <1>0, <2>1, FailureIsLocal
  <2> QED
    BY <2>1, <2>2, QuietStep
<1>4. CASE Collect(s)
  <2>1. Local(s) /\ session'[s].pc \in {"acquiring", "returning", "tools"}
    BY <1>0, <1>4, CollectIsLocal
  <2>2. session[s].pc = "closing" /\ UNCHANGED <<lingering, sem, runtimeVars>>
    BY <1>4 DEF Collect, At
  <2> QED
    BY <2>1, <2>2, QuietStep
<1>11. CASE CollectFails(s)
  <2>1. /\ session[s].pc = "closing" /\ UNCHANGED <<lingering, sem, runtimeVars>>
    BY <1>11 DEF CollectFails, At
  <2>2. PICK st \in {"failed", "cancelled"}, mayRetry \in BOOLEAN : AfterFailure(s, st, mayRetry)
    <3>1. CASE Cancelled(s)
      BY <1>11, <3>1 DEF CollectFails
    <3>2. CASE ~Cancelled(s)
      BY <1>11, <3>2 DEF CollectFails
    <3> QED
      BY <3>1, <3>2
  <2>3. Local(s) /\ session'[s].pc \in {"acquiring", "returning"}
    BY <1>0, <2>1, <2>2, FailureIsLocal
  <2> QED
    BY <2>1, <2>3, QuietStep
<1>5. CASE ToolsReturn(s)
  <2>1. Local(s) /\ session'[s].pc = "turn"
    BY <1>0, <1>5, ToolsReturnIsLocal
  <2>2. session[s].pc = "tools" /\ UNCHANGED <<lingering, sem, runtimeVars>>
    BY <1>5 DEF ToolsReturn, At
  <2> QED
    BY <2>1, <2>2, QuietStep
<1>6. CASE SpawnChild(s)
  <2>1. /\ ~closed /\ wg' = wg + 1
        /\ UNCHANGED <<lingering, sem, closed, shutdown, sweep, cancels>>
    BY <1>6 DEF SpawnChild, Spawn
  <2>2. /\ session' \in [Sessions -> SessionState] /\ Family'
        /\ NewId \in Sessions /\ session[NewId].pc = "none" /\ session'[NewId].pc = "turn"
        /\ s /= NewId /\ session[s].pc = "tools" /\ session'[s].pc = "waiting"
        /\ \A x \in Sessions \ {s, NewId} : session'[x].pc = session[x].pc
    BY <1>0, <1>6, SpawnChildKeepsFamily
  <2>3. \A x \in Sessions \ {NewId} :
          /\ session[x].pc \in {"none", "gone"} <=> session'[x].pc \in {"none", "gone"}
          /\ session[x].pc = "calling" <=> session'[x].pc = "calling"
    BY <2>2
  <2> QED
    BY <2>1, <2>2, <2>3, SpawnStep
<1>7. CASE ChildDone(s) \/ StopWaiting(s)
  BY <1>7, WaitStep
<1>8. CASE CloseDone(s)
  <2>1. /\ session[s].pc = "returning" /\ Goto(s, "finished")
        /\ UNCHANGED <<lingering, sem, runtimeVars>>
    BY <1>8 DEF CloseDone, At
  <2>2. Local(s) /\ session'[s].pc = "finished"
    BY <1>0, <2>1, GotoIsLocal DEF PC
  <2> QED
    BY <2>1, <2>2, QuietStep
<1>9. CASE CloseSubscribers(s)
  <2>1. session[s].pc = "finished" /\ UNCHANGED <<lingering, sem, runtimeVars>>
    BY <1>9 DEF CloseSubscribers, At
  <2>2. Local(s) /\ session'[s].pc = "unwatched"
    BY <1>0, <1>9, CloseSubscribersIsLocal
  <2> QED
    BY <2>1, <2>2, QuietStep
<1>10. CASE Remove(s)
  BY <1>10, RemoveStep
<1> QED
  BY <1>1, <1>2, <1>3, <1>4, <1>5, <1>6, <1>7, <1>8, <1>9, <1>10, <1>11 DEF Proceeds

LEMMA SpawnRootStep ==
  ASSUME IInv, SpawnRoot
  PROVE  IInv'
<1>1. /\ ~closed /\ wg' = wg + 1
      /\ UNCHANGED <<lingering, sem, closed, shutdown, sweep, cancels>>
  BY DEF SpawnRoot, Spawn
<1>2. /\ session' \in [Sessions -> SessionState] /\ Family'
      /\ NewId \in Sessions /\ session[NewId].pc = "none" /\ session'[NewId].pc = "turn"
      /\ \A x \in Sessions \ {NewId} : session'[x].pc = session[x].pc
  BY SpawnRootKeepsFamily DEF IInv, Family
<1>3. \A x \in Sessions \ {NewId} :
        /\ session[x].pc \in {"none", "gone"} <=> session'[x].pc \in {"none", "gone"}
        /\ session[x].pc = "calling" <=> session'[x].pc = "calling"
  BY <1>2
<1> QED
  BY <1>1, <1>2, <1>3, SpawnStep

LEMMA SubscribeStep ==
  ASSUME IInv, NEW s \in Sessions, Subscribe(s)
  PROVE  IInv'
<1>1. Local(s) /\ session'[s].pc = session[s].pc
  BY SubscribeIsLocal DEF IInv
<1>2. \A x \in Sessions : session'[x].pc = session[x].pc
  BY <1>1 DEF Local
<1>3. session' \in [Sessions -> SessionState] /\ Family'
  BY <1>1, LocalKeepsFamily DEF Local, IInv, Family
<1>4. UNCHANGED <<lingering, sem, runtimeVars>>
  BY DEF Subscribe
<1>5. SlotsAreHeld'
  BY <1>2, <1>4, SlotsUntouched DEF IInv
<1>6. /\ lingering' \subseteq Sessions \X (1..MaxLingering) /\ sem' \in Nat
      /\ wg' = wg /\ closed' = closed /\ shutdown' = shutdown
      /\ sweep' \subseteq Sessions /\ cancels' \in 0..MaxCancels
  BY <1>4 DEF IInv, Types, runtimeVars
<1> QED
  BY <1>2, <1>3, <1>5, <1>6, SettledStep

LEMMA LingeringStep ==
  ASSUME IInv, NEW s \in Sessions, LingeringEnds(s)
  PROVE  IInv'
<1>1. SlotsAreHeld' /\ sem' \in Nat /\ lingering' \subseteq lingering
  BY LingeringGivenBack DEF IInv
<1>2. session' = session /\ UNCHANGED runtimeVars
  BY DEF LingeringEnds
<1>3. Family'
  BY <1>2 DEF IInv, Family, AllSound, WaitsForChild, OrphansAreCancelled, At,
              Registered, Done, Cancelled
<1>4. /\ session' \in [Sessions -> SessionState]
      /\ lingering' \subseteq Sessions \X (1..MaxLingering)
      /\ wg' = wg /\ closed' = closed /\ shutdown' = shutdown
      /\ sweep' \subseteq Sessions /\ cancels' \in 0..MaxCancels
  BY <1>1, <1>2 DEF IInv, Types, runtimeVars
<1> QED
  BY <1>1, <1>2, <1>3, <1>4, SettledStep

\* A step that changes no more of the sessions than their contexts.
LEMMA CancelStep ==
  ASSUME IInv, session' \in [Sessions -> SessionState],
         \A x \in Sessions : \/ session'[x] = session[x]
                             \/ session'[x] = [session[x] EXCEPT !.cancelled = TRUE],
         UNCHANGED <<lingering, sem, wg>>
  PROVE  Family' /\ GroupCounts' /\ SlotsAreHeld' /\ Members' = Members
<1>1. Family' /\ \A x \in Sessions : session'[x].pc = session[x].pc
  BY CancelsKeepFamily DEF IInv, Family
<1>2. GroupCounts' /\ Members' = Members
  BY <1>1, GroupUntouched DEF IInv
<1>3. SlotsAreHeld'
  BY <1>1, SlotsUntouched DEF IInv
<1> QED
  BY <1>1, <1>2, <1>3

LEMMA CancelListedStep ==
  ASSUME IInv, NEW s \in Sessions, CancelListed(s)
  PROVE  IInv'
<1>0. session \in [Sessions -> SessionState] /\ session[s] \in SessionState
  BY DEF IInv, Types
<1> DEFINE u == [session[s] EXCEPT !.cancelled = TRUE]
<1>1. u \in SessionState
  BY <1>0 DEF SessionState
<1>2. session' = [session EXCEPT ![s] = u] /\ sweep' = sweep \ {s}
  BY <1>0 DEF CancelListed
<1>3. UNCHANGED <<lingering, sem, closed, wg, shutdown, cancels>>
  BY DEF CancelListed
<1>4. /\ session' \in [Sessions -> SessionState]
      /\ \A x \in Sessions : \/ session'[x] = session[x]
                             \/ session'[x] = [session[x] EXCEPT !.cancelled = TRUE]
  <2> HIDE DEF u
  <2>1. /\ session' \in [Sessions -> SessionState] /\ session'[s] = u
        /\ \A x \in Sessions \ {s} : session'[x] = session[x]
    BY <1>0, <1>1, <1>2
  <2> QED
    BY <2>1 DEF u
<1>5. Family' /\ GroupCounts' /\ SlotsAreHeld' /\ Members' = Members
  BY <1>3, <1>4, CancelStep
<1>6. Types'
  BY <1>2, <1>3, <1>4 DEF IInv, Types
<1>7. ShutdownCloses' /\ ShutdownLeavesNobody'
  BY <1>3, <1>5 DEF IInv, ShutdownCloses, ShutdownLeavesNobody, Members
<1> QED
  BY <1>5, <1>6, <1>7 DEF IInv, Family

LEMMA BeginShutdownStep ==
  ASSUME IInv, BeginShutdown
  PROVE  IInv'
<1>1. /\ closed' = TRUE /\ shutdown' = "waiting"
      /\ UNCHANGED <<lingering, sem, wg, sweep, cancels>>
  BY DEF BeginShutdown
<1>2. \A x \in Sessions : [session[x] EXCEPT !.cancelled = TRUE] \in SessionState
  <2> TAKE x \in Sessions
  <2>1. session[x] \in SessionState
    BY DEF IInv, Types
  <2> QED
    BY <2>1 DEF SessionState
<1>3. /\ session' \in [Sessions -> SessionState]
      /\ \A x \in Sessions : \/ session'[x] = session[x]
                             \/ session'[x] = [session[x] EXCEPT !.cancelled = TRUE]
  <2>1. \A x \in Sessions : session[x] \in SessionState
    BY DEF IInv, Types
  <2> QED
    BY <1>2, <2>1 DEF BeginShutdown
<1>4. Family' /\ GroupCounts' /\ SlotsAreHeld' /\ Members' = Members
  BY <1>1, <1>3, CancelStep
<1>5. Types'
  BY <1>1, <1>3 DEF IInv, Types
<1>6. ShutdownCloses' /\ ShutdownLeavesNobody'
  BY <1>1 DEF ShutdownCloses, ShutdownLeavesNobody
<1> QED
  BY <1>4, <1>5, <1>6 DEF IInv, Family

LEMMA OneMore == \A m \in Nat : \A n \in 0..m : n < m => n + 1 \in 0..m
OBVIOUS

\* The other steps of the callers of the runtime leave the sessions alone.
LEMMA CallerStep ==
  ASSUME IInv,
         \/ ShutdownCompletes \/ ShutdownTimesOut
         \/ \E found \in SUBSET Sessions : LookUp(found)
  PROVE  IInv'
<1>1. session' = session /\ UNCHANGED <<lingering, sem, wg, closed>>
  BY DEF ShutdownCompletes, ShutdownTimesOut, LookUp
<1>2. \A x \in Sessions : session'[x] = session[x]
  BY <1>1
<1>3. session' \in [Sessions -> SessionState]
  BY <1>1 DEF IInv, Types
<1>4. Family' /\ GroupCounts' /\ SlotsAreHeld' /\ Members' = Members
  BY <1>1, <1>2, <1>3, CancelStep
<1>5. /\ sweep' \subseteq Sessions /\ cancels' \in 0..MaxCancels
      /\ shutdown' \in {"no", "waiting", "complete", "timed out"}
  <2>1. sweep \subseteq Sessions /\ cancels \in 0..MaxCancels
        /\ shutdown \in {"no", "waiting", "complete", "timed out"}
    BY DEF IInv, Types
  <2>2. CASE ShutdownCompletes \/ ShutdownTimesOut
    BY <2>1, <2>2 DEF ShutdownCompletes, ShutdownTimesOut
  <2>3. ASSUME NEW found \in SUBSET Sessions, LookUp(found)
        PROVE  /\ sweep' \subseteq Sessions /\ cancels' \in 0..MaxCancels
               /\ shutdown' = shutdown
    <3>1. cancels' = cancels + 1 /\ cancels < MaxCancels
      BY <2>3 DEF LookUp
    <3>2. cancels' \in 0..MaxCancels
      BY <2>1, <3>1, OneMore
    <3>3. sweep' = found /\ shutdown' = shutdown
      BY <2>3 DEF LookUp
    <3> QED
      BY <3>2, <3>3
  <2> QED
    BY <2>1, <2>2, <2>3
<1>6. Types'
  BY <1>1, <1>3, <1>5 DEF IInv, Types
<1>7. ShutdownCloses'
  BY <1>1 DEF IInv, ShutdownCloses, ShutdownCompletes, ShutdownTimesOut, LookUp
<1>8. ShutdownLeavesNobody'
  <2>1. CASE ShutdownCompletes
    BY <1>4, <2>1, NobodyLeft DEF IInv, ShutdownCompletes, ShutdownLeavesNobody, Members
  <2>2. CASE ~ShutdownCompletes
    BY <1>4, <2>2 DEF IInv, ShutdownTimesOut, LookUp, ShutdownLeavesNobody, Members
  <2> QED
    BY <2>1, <2>2
<1> QED
  BY <1>4, <1>6, <1>7, <1>8 DEF IInv, Family

----------------------------------------------------------------------------
(* The theorems.                                                           *)

LEMMA InitIInv == Init => IInv
<1> SUFFICES ASSUME Init PROVE IInv
  OBVIOUS
<1>1. Unborn \in SessionState /\ Unborn.pc = "none" /\ Unborn.reported = "no"
  <2> DEFINE r == NewSession(NoSession, 0)
  <2>1. r \in SessionState /\ r.reported = "no"
    BY Newborn DEF NewSession
  <2>2. Unborn = [r EXCEPT !.pc = "none"]
    BY DEF Unborn
  <2> HIDE DEF r
  <2> QED
    BY <2>1, <2>2 DEF SessionState, PC
<1>2. /\ session \in [Sessions -> SessionState]
      /\ \A s \in Sessions : session[s].pc = "none" /\ session[s].reported = "no"
  BY <1>1 DEF Init
<1>3. Types
  <2>1. sem \in Nat /\ wg \in Nat /\ cancels \in 0..MaxCancels
    BY DEF Init
  <2> QED
    BY <1>2, <2>1 DEF Init, Types
<1>4. AllSound /\ WaitsForChild /\ OrphansAreCancelled
  BY <1>2 DEF AllSound, Sound, Busy, Ended, WaitsForChild, OrphansAreCancelled, At, Registered
<1>5. Members = {} /\ Calls = {}
  BY <1>2 DEF Members, Registered, Calls, At
<1>6. GroupCounts /\ SlotsAreHeld
  BY <1>5, FS_EmptySet DEF GroupCounts, SlotsAreHeld, Init
<1>7. ShutdownCloses /\ ShutdownLeavesNobody
  BY DEF Init, ShutdownCloses, ShutdownLeavesNobody
<1> QED
  BY <1>3, <1>4, <1>6, <1>7 DEF IInv

LEMMA NextIInv == IInv /\ [Next]_vars => IInv'
<1> SUFFICES ASSUME IInv, [Next]_vars PROVE IInv'
  OBVIOUS
<1>1. CASE SpawnRoot
  BY <1>1, SpawnRootStep
<1>2. CASE \E found \in SUBSET Sessions : LookUp(found)
  BY <1>2, CallerStep
<1>3. CASE BeginShutdown
  BY <1>3, BeginShutdownStep
<1>4. CASE ShutdownCompletes \/ ShutdownTimesOut
  BY <1>4, CallerStep
<1>5. ASSUME NEW s \in Sessions, Proceeds(s) \/ CallEnds(s) \/ ToolsReturn(s) \/ SpawnChild(s)
      PROVE  IInv'
  BY <1>5, RunStep
<1>7. ASSUME NEW s \in Sessions, LingeringEnds(s) PROVE IInv'
  BY <1>7, LingeringStep
<1>8. ASSUME NEW s \in Sessions, Subscribe(s) PROVE IInv'
  BY <1>8, SubscribeStep
<1>9. ASSUME NEW s \in Sessions, CancelListed(s) PROVE IInv'
  BY <1>9, CancelListedStep
<1>10. CASE UNCHANGED vars
  <2>1. UNCHANGED <<session, lingering, sem, wg, closed, shutdown, sweep, cancels>>
    BY <1>10 DEF vars
  <2>2. session' \in [Sessions -> SessionState] /\ \A x \in Sessions : session'[x] = session[x]
    BY <2>1 DEF IInv, Types
  <2>3. Family' /\ GroupCounts' /\ SlotsAreHeld' /\ Members' = Members
    BY <2>1, <2>2, CancelStep
  <2>4. Types'
    BY <2>1 DEF IInv, Types
  <2>5. ShutdownCloses' /\ ShutdownLeavesNobody'
    BY <2>1, <2>3 DEF IInv, ShutdownCloses, ShutdownLeavesNobody, Members
  <2> QED
    BY <2>3, <2>4, <2>5 DEF IInv, Family
<1>11. ASSUME NEW s \in Sessions, CancelSession(s) PROVE IInv'
  <2>1. {s} \in SUBSET Sessions /\ LookUp({s})
    BY <1>11 DEF CancelSession
  <2> QED
    BY <1>2, <2>1
<1>12. CASE CancelJobSessions
  <2>1. Members \in SUBSET Sessions /\ LookUp(Members)
    BY <1>12 DEF CancelJobSessions, Members
  <2> QED
    BY <1>2, <2>1
<1> QED
  BY <1>1, <1>3, <1>4, <1>5, <1>7, <1>8, <1>9, <1>10, <1>11, <1>12 DEF Next

LEMMA Invariance == Spec => []IInv
BY InitIInv, NextIInv, PTL DEF Spec

\* The counters of the runtime stay within their bounds: the slots within the
\* capacity of the scheduler, the WaitGroup within the number of sessions, and
\* every session is in a state its goroutine can be in.
THEOREM TypeCorrect == Spec => []TypeOK
<1>1. IInv => TypeOK
  <2> SUFFICES ASSUME IInv PROVE TypeOK
    OBVIOUS
  <2>1. Types /\ GroupCounts /\ sem <= Capacity
    BY DEF IInv, SlotsAreHeld
  <2>2. Cardinality(Members) <= Cardinality(Sessions) /\ Cardinality(Sessions) \in Nat
    BY FS_Subset, FS_CardinalityType DEF Members
  <2>3. sem \in Nat /\ wg \in Nat /\ Capacity \in Nat
    BY <2>1 DEF Types
  <2>4. sem \in 0..Capacity /\ wg \in 0..Cardinality(Sessions)
    BY <2>1, <2>2, <2>3 DEF GroupCounts
  <2> QED
    BY <2>1, <2>4 DEF Types, TypeOK
<1> QED
  BY <1>1, Invariance, PTL

\* However many sessions share the scheduler, an occupied slot belongs to a call
\* under way or to a stream that goes on after its session turned away from it:
\* scheduler.go neither loses a slot nor gives one back twice.
THEOREM SlotsHeld == Spec => []SlotsAreHeld
<1>1. IInv => SlotsAreHeld
  BY DEF IInv
<1> QED
  BY <1>1, Invariance, PTL

\* In every tree of workers, of any depth, a session whose parent does not wait
\* for it any more is cancelled or has ended (SpawnAndWait).
THEOREM NoRunawayWorker == Spec => []OrphansAreCancelled
<1>1. IInv => OrphansAreCancelled
  BY DEF IInv
<1> QED
  BY <1>1, Invariance, PTL

\* A parent is told of a success only if its child completed, whatever cancels
\* and failures came between (SpawnAndWait).
THEOREM ReportedSuccessIsReal == Spec => []SuccessIsCompletion
<1>1. IInv => SuccessIsCompletion
  BY DEF IInv, AllSound, Sound, SuccessIsCompletion
<1> QED
  BY <1>1, Invariance, PTL

\* A Shutdown whose wait returned has no session behind it, and none registers
\* later: the check of closed and the count are one section (SpawnWorker).
THEOREM ShutdownIsComplete == Spec => []ShutdownLeavesNobody
<1>1. IInv => ShutdownLeavesNobody
  BY DEF IInv
<1> QED
  BY <1>1, Invariance, PTL

=============================================================================
