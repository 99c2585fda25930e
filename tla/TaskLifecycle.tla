--------------------------- MODULE TaskLifecycle ---------------------------
(***************************************************************************)
(* What the store promises of each task, whoever writes to it: a task is   *)
(* created pending or already running, starts only from pending, is        *)
(* restarted only from failed, and otherwise only ends.  A restart of the  *)
(* server puts every running task back in the queue.  A terminal status    *)
(* may be overwritten by another, never taken back; and what runs ends.    *)
(***************************************************************************)
CONSTANT Task

VARIABLE state

Terminal == {"completed", "failed", "cancelled"}

Init == state = [t \in Task |-> "none"]

Move(t, from, to) == state[t] \in from /\ \E s \in to : state' = [state EXCEPT ![t] = s]

Create(t) == Move(t, {"none"}, {"pending", "in_progress"})
Start(t) == Move(t, {"pending"}, {"in_progress"})
Retry(t) == Move(t, {"failed"}, {"in_progress"})
Finish(t) == Move(t, {"in_progress"}, Terminal)

\* A pending task is cancelled or found to need no run, a terminal one is relabelled.
Settle(t) == Move(t, {"pending"} \cup Terminal, Terminal)

Restart ==
  state' = [t \in Task |-> IF state[t] = "in_progress" THEN "pending" ELSE state[t]]

Next == \/ \E t \in Task : Create(t) \/ Start(t) \/ Retry(t) \/ Finish(t) \/ Settle(t)
        \/ Restart

Spec == Init /\ [][Next]_state /\ \A t \in Task : WF_state(Finish(t))
=============================================================================
