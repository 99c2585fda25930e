--------------------------- MODULE ExecutorProofs ---------------------------
(***************************************************************************)
(* The safety of Executor for any number of tasks, goroutines, nodes and   *)
(* restarts.  The argument: a task with a goroutine that has not yet left  *)
(* it in peace is in progress, swept or split, so no statement starts it   *)
(* again; the goroutine is therefore alone with the task's checkpoint, and *)
(* what it finds there is what it has written.  Only a verdict that fails  *)
(* the row of such a task contests it; nothing is claimed of its runs.     *)
(***************************************************************************)
EXTENDS Executor, TLAPS

\* A busy run's task is not to be started.
StartedInv(r) ==
  Busy(r) /\ run[r].task \notin contested
    => status[run[r].task] \in {"in_progress", "cancelled", "completed"}

\* A registered run is counted.
CountedInv(r) == run[r].pc \in Registered => r \in inFlight

\* The state of a graph and its checkpoint.
GraphInv(r) ==
  LET n == run[r].node
      k == ckpt[run[r].task]
  IN  run[r].task \notin contested =>
      /\ At(r, "running") => n <= k /\ (Done(r) \/ n = k)
      /\ At(r, "saving") => n <= k + 1 /\ (Done(r) \/ n = k + 1)
      /\ At(r, "stopped") => n <= k + 1 /\ (Done(r) \/ k <= n)
      /\ run[r].pc \in {"running", "saving", "stopped"} => ~ended[run[r].task]
      /\ At(r, "persisting") => k = 0 \/ ~Open

RunInv(r) == StartedInv(r) /\ CountedInv(r) /\ GraphInv(r)

\* One goroutine per task.
UniqueInv ==
  \A r, s \in Runs :
    Busy(r) /\ Busy(s) /\ run[r].task = run[s].task /\ run[r].task \notin contested => r = s

DrainInv == drained => inFlight = {} /\ Draining

IInv == /\ TypeOK /\ UniqueInv /\ DrainInv /\ ObsoleteCheckpointIsGone
        /\ \A r \in Runs : RunInv(r)

-----------------------------------------------------------------------------
(* What a goroutine's step leaves alone. *)

\* The step of r: the other goroutines stay where they are, their contexts may end,
\* and only the task of r may change, if r is busy.
Acts(r) ==
  /\ run' \in [Runs -> RunState] /\ proc' = proc /\ contested' = contested
  /\ run'[r].task = run[r].task /\ (Busy(r)' => Busy(r))
  /\ \A s \in Runs \ {r} :
       /\ run'[s].pc = run[s].pc /\ run'[s].task = run[s].task /\ run'[s].node = run[s].node
       /\ run[s].cancelled => run'[s].cancelled
       /\ s \in inFlight => s \in inFlight'
  /\ \A t \in Tasks : t # run[r].task \/ ~Busy(r) =>
       status'[t] = status[t] /\ ckpt'[t] = ckpt[t] /\ ended'[t] = ended[t]

\* So the invariant of the others is kept.
LEMMA OthersLemma ==
  ASSUME IInv, NEW r \in Runs, Acts(r)
  PROVE  UniqueInv' /\ \A s \in Runs \ {r} : RunInv(s)'
<1>1. UniqueInv'
  BY DEF IInv, UniqueInv, Acts, Busy
<1>2. ASSUME NEW s \in Runs \ {r} PROVE RunInv(s)'
  <2>1. run[s].task \in Tasks /\ run'[s].task = run[s].task /\ contested' = contested
    BY DEF IInv, TypeOK, RunState, Acts
  <2>2. Busy(s)' <=> Busy(s)
    BY DEF Acts, Busy
  <2>3. Busy(s) /\ run[s].task \notin contested =>
                   LET t == run[s].task
                   IN  status'[t] = status[t] /\ ckpt'[t] = ckpt[t] /\ ended'[t] = ended[t]
    BY <2>1 DEF IInv, UniqueInv, Acts
  <2>4. StartedInv(s)'
    BY <2>1, <2>2, <2>3 DEF IInv, RunInv, StartedInv
  <2>5. CountedInv(s)'
    BY DEF IInv, RunInv, CountedInv, Acts
  <2>6. GraphInv(s)'
    BY <2>1, <2>3 DEF IInv, RunInv, GraphInv, Acts, Busy, At, Done, Open
  <2>. QED BY <2>4, <2>5, <2>6 DEF RunInv
<1>. QED BY <1>1, <1>2

\* Goto changes the step of one goroutine.
LEMMA GotoLemma ==
  ASSUME TypeOK, NEW r \in Runs, NEW pc \in Registered \cup {"idle", "begin", "failing"},
         Goto(r, pc)
  PROVE  /\ run' \in [Runs -> RunState]
         /\ run'[r].pc = pc /\ run'[r].task = run[r].task /\ run'[r].node = run[r].node
         /\ run'[r].ok = run[r].ok /\ run'[r].cancelled = run[r].cancelled
         /\ \A s \in Runs \ {r} : run'[s] = run[s]
BY DEF TypeOK, RunState, Goto

\* A goroutine that returns.
LEMMA ReturnedLemma ==
  ASSUME TypeOK, NEW r \in Runs
  PROVE  /\ Returned(r) \in RunState /\ Returned(r).pc = "idle"
         /\ Returned(r).task = run[r].task
<1>1. run[r] \in RunState
  BY DEF TypeOK
<1>2. 0 \in 0..Nodes /\ FALSE \in BOOLEAN
  BY NodesAssumption
<1>. QED BY <1>1, <1>2 DEF RunState, Returned

-----------------------------------------------------------------------------
(* Dispatch. *)

\* A task that is pending or failed has no busy run, so a new one is alone.
LEMMA SpawnStep ==
  ASSUME IInv, NEW t \in Tasks, NEW r \in Runs, Spawn(t, r),
         status[t] \in {"pending", "failed"}, retries' \in 0..MaxRetries
  PROVE  IInv'
<1>1. /\ run' \in [Runs -> RunState]
      /\ run'[r].pc = "begin" /\ run'[r].task = t
      /\ \A s \in Runs \ {r} : run'[s] = run[s]
  BY NodesAssumption DEF IInv, TypeOK, RunState, Spawn
<1>2. status' \in [Tasks -> Status] /\ status'[t] = "in_progress"
      /\ \A u \in Tasks \ {t} : status'[u] = status[u]
  BY DEF IInv, TypeOK, Status, Spawn
<1>3. /\ contested' = contested
      /\ \A s \in Runs : Busy(s) /\ run[s].task \notin contested => run[s].task # t
  BY DEF Spawn, IInv, RunInv, StartedInv
<1>4. TypeOK'
  BY <1>1, <1>2 DEF IInv, TypeOK, Spawn, processVars
<1>5. UniqueInv'
  BY <1>1, <1>3 DEF IInv, UniqueInv, Busy
<1>6. DrainInv' /\ ObsoleteCheckpointIsGone'
  BY DEF IInv, DrainInv, ObsoleteCheckpointIsGone, Spawn, processVars, Draining
<1>7. ASSUME NEW s \in Runs PROVE RunInv(s)'
  <2>1. CASE s = r
    BY <1>1, <1>2, <2>1 DEF RunInv, StartedInv, CountedInv, GraphInv, Registered, At
  <2>2. CASE s # r
    <3>1. run'[s] = run[s] /\ run[s].task \in Tasks
      BY <1>1, <2>2 DEF IInv, TypeOK, RunState
    <3>2. StartedInv(s)'
      BY <1>2, <1>3, <3>1 DEF IInv, RunInv, StartedInv, Busy
    <3>3. CountedInv(s)' /\ GraphInv(s)'
      BY <3>1 DEF IInv, RunInv, CountedInv, GraphInv, At, Done, Open, Spawn, processVars
    <3>. QED BY <3>2, <3>3 DEF RunInv
  <2>. QED BY <2>1, <2>2
<1>. QED BY <1>4, <1>5, <1>6, <1>7 DEF IInv

\* AssignTaskToGraph starts a pending task.
LEMMA DispatchStep ==
  ASSUME IInv, NEW t \in Tasks, NEW r \in Runs, Dispatch(t, r)
  PROVE  IInv'
BY SpawnStep DEF Dispatch, IInv, TypeOK

\* RetryTask starts a failed one.
LEMMA RetryTaskStep ==
  ASSUME IInv, NEW t \in Tasks, NEW r \in Runs, RetryTask(t, r)
  PROVE  IInv'
BY SpawnStep, BoundsAssumption DEF RetryTask, IInv, TypeOK

-----------------------------------------------------------------------------
(* ExecuteTask. *)

\* The flag and the count are one step, so nothing is counted after a drain.
LEMMA BeginTaskStep ==
  ASSUME IInv, NEW r \in Runs, BeginTask(r)
  PROVE  IInv'
<1>0. run[r].task \in Tasks /\ Busy(r)
  BY DEF IInv, TypeOK, RunState, BeginTask, At, Busy
<1>1. PICK pc \in {"failing", "preparing"} :
        /\ Goto(r, pc) /\ (pc = "preparing" => r \in inFlight')
        /\ inFlight \subseteq inFlight' /\ inFlight' \subseteq Runs
        /\ (Draining => inFlight' = inFlight)
        /\ handle' \in [Tasks -> Runs \cup {NoRun}]
  BY <1>0 DEF IInv, TypeOK, BeginTask
<1>2. /\ run' \in [Runs -> RunState] /\ run'[r].pc = pc /\ run'[r].task = run[r].task
      /\ \A s \in Runs \ {r} : run'[s] = run[s]
  BY <1>1, GotoLemma DEF IInv, Registered
<1>3. UNCHANGED <<status, ckpt, proc, drained, ended, contested, bounds>>
  BY DEF BeginTask, processVars
<1>4. Acts(r)
  BY <1>0, <1>1, <1>2, <1>3 DEF Acts, Busy
<1>5. TypeOK'
  BY <1>1, <1>2, <1>3 DEF IInv, TypeOK, bounds
<1>6. DrainInv' /\ ObsoleteCheckpointIsGone'
  BY <1>1, <1>3 DEF IInv, DrainInv, ObsoleteCheckpointIsGone, Draining
<1>7. RunInv(r)'
  BY <1>0, <1>1, <1>2, <1>3
     DEF IInv, RunInv, StartedInv, CountedInv, GraphInv, Registered, At
<1>. QED BY <1>4, <1>5, <1>6, <1>7, OthersLemma DEF IInv

\* A step of r that changes nothing but where r is, between busy places.
LEMMA MoveStep ==
  ASSUME IInv, NEW r \in Runs, NEW pc \in Registered \cup {"failing"}, Goto(r, pc),
         Busy(r), r \in inFlight,
         UNCHANGED <<status, ckpt, handle, inFlight, processVars, ended, contested, bounds>>,
         GraphInv(r)'
  PROVE  IInv'
<1>1. /\ run' \in [Runs -> RunState] /\ run'[r].pc = pc /\ run'[r].task = run[r].task
      /\ \A s \in Runs \ {r} : run'[s] = run[s]
  BY GotoLemma DEF IInv
<1>2. Acts(r)
  BY <1>1 DEF Acts, processVars
<1>3. TypeOK' /\ DrainInv' /\ ObsoleteCheckpointIsGone'
  BY <1>1 DEF IInv, TypeOK, DrainInv, ObsoleteCheckpointIsGone, Draining, processVars, bounds
<1>4. StartedInv(r)' /\ CountedInv(r)'
  BY <1>1 DEF IInv, RunInv, StartedInv, CountedInv
<1>. QED BY <1>2, <1>3, <1>4, OthersLemma DEF IInv, RunInv

\* The graph is ready to load, or the dispatch fails.
LEMMA PrepareTaskStep ==
  ASSUME IInv, NEW r \in Runs, PrepareTask(r)
  PROVE  IInv'
<1>1. PICK pc \in {"loading", "failing"} : Goto(r, pc)
  BY DEF PrepareTask
<1>2. Busy(r) /\ r \in inFlight /\ pc \in Registered \cup {"failing"}
  BY DEF PrepareTask, IInv, RunInv, CountedInv, Registered, Busy, At
<1>3. GraphInv(r)'
  BY <1>1, <1>2, GotoLemma DEF IInv, GraphInv, At
<1>. QED BY <1>1, <1>2, <1>3, MoveStep DEF PrepareTask

\* The status of one task is written, or not if the store is closed.
LEMMA WriteStatusLemma ==
  ASSUME TypeOK, NEW t \in Tasks, NEW s \in Status, WriteStatus(t, s)
  PROVE  /\ status' \in [Tasks -> Status]
         /\ \A u \in Tasks \ {t} : status'[u] = status[u]
BY DEF TypeOK, WriteStatus

\* A failed dispatch.
LEMMA FailDispatchStep ==
  ASSUME IInv, NEW r \in Runs, FailDispatch(r)
  PROVE  IInv'
<1>0. run[r].task \in Tasks /\ Busy(r) /\ run[r] \in RunState
  BY DEF IInv, TypeOK, RunState, FailDispatch, At, Busy
<1>1. /\ status' \in [Tasks -> Status]
      /\ \A u \in Tasks \ {run[r].task} : status'[u] = status[u]
  BY <1>0, WriteStatusLemma DEF FailDispatch, IInv, Status
<1>2. /\ run' \in [Runs -> RunState] /\ run'[r].task = run[r].task
      /\ run'[r].pc = IF r \in inFlight THEN "ending" ELSE "idle"
      /\ \A s \in Runs \ {r} : run'[s] = run[s]
  <2>1. run' = [run EXCEPT ![r] = IF r \in inFlight THEN [run[r] EXCEPT !.pc = "ending"]
                                  ELSE Returned(r)]
    BY DEF FailDispatch
  <2>2. CASE r \in inFlight
    <3>1. [run[r] EXCEPT !.pc = "ending"] \in RunState
      BY <1>0 DEF RunState, Registered
    <3>. QED BY <2>1, <2>2, <3>1, <1>0 DEF IInv, TypeOK, RunState
  <2>3. CASE r \notin inFlight
    BY <2>1, <2>3, ReturnedLemma DEF IInv, TypeOK
  <2>. QED BY <2>2, <2>3
<1>3. UNCHANGED <<ckpt, handle, inFlight, proc, drained, ended, contested, bounds>>
  BY DEF FailDispatch, processVars
<1>4. Acts(r)
  BY <1>0, <1>1, <1>2, <1>3 DEF Acts
<1>5. TypeOK'
  BY <1>1, <1>2, <1>3 DEF IInv, TypeOK, bounds
<1>6. DrainInv' /\ ObsoleteCheckpointIsGone'
  BY <1>3 DEF IInv, DrainInv, ObsoleteCheckpointIsGone, Draining
<1>7. RunInv(r)'
  BY <1>2, <1>3 DEF RunInv, StartedInv, CountedInv, GraphInv, Registered, At, Busy
<1>. QED BY <1>4, <1>5, <1>6, <1>7, OthersLemma DEF IInv

\* The goroutine returns; the context of whatever is registered in its place ends.
LEMMA EndTaskStep ==
  ASSUME IInv, NEW r \in Runs, EndTask(r)
  PROVE  IInv'
<1>0. run[r].task \in Tasks /\ ~Busy(r)
  BY DEF IInv, TypeOK, RunState, EndTask, At, Busy
<1>1. /\ run' \in [Runs -> RunState] /\ run'[r] = Returned(r)
      /\ \A s \in Runs \ {r} :
           /\ run'[s].pc = run[s].pc /\ run'[s].task = run[s].task
           /\ run'[s].node = run[s].node
           /\ run[s].cancelled => run'[s].cancelled
  <2>1. run' = [x \in Runs |->
                  IF x = r THEN Returned(r)
                  ELSE [run[x] EXCEPT !.cancelled = @ \/ x = handle[run[r].task]]]
    BY DEF EndTask
  <2>2. ASSUME NEW s \in Runs \ {r}
        PROVE  /\ run'[s] \in RunState
               /\ run'[s].pc = run[s].pc /\ run'[s].task = run[s].task
               /\ run'[s].node = run[s].node
               /\ run[s].cancelled => run'[s].cancelled
    <3>. DEFINE b == run[s].cancelled \/ s = handle[run[r].task]
    <3>1. run[s] \in RunState
      BY DEF IInv, TypeOK
    <3>2. run'[s] = [run[s] EXCEPT !.cancelled = b]
      BY <2>1
    <3>3. b \in BOOLEAN /\ (run[s].cancelled => b)
      OBVIOUS
    <3>. HIDE DEF b
    <3>4. /\ run'[s] \in RunState
          /\ run'[s].pc = run[s].pc /\ run'[s].task = run[s].task
          /\ run'[s].node = run[s].node
      BY <3>1, <3>2, <3>3 DEF RunState
    <3>5. b => run'[s].cancelled
      BY <3>1, <3>2, <3>3 DEF RunState
    <3>. QED BY <3>3, <3>4, <3>5
  <2>3. run'[r] = Returned(r) /\ Returned(r) \in RunState
    BY <2>1, ReturnedLemma DEF IInv
  <2>4. run' \in [Runs -> RunState]
    BY <2>1, <2>2, <2>3
  <2>. QED BY <2>2, <2>3, <2>4
<1>2. /\ inFlight' = inFlight \ {r} /\ handle' = [handle EXCEPT ![run[r].task] = NoRun]
      /\ UNCHANGED <<status, ckpt, proc, drained, ended, contested, bounds>>
  BY DEF EndTask, processVars
<1>3. run'[r].pc = "idle" /\ run'[r].task = run[r].task
  BY <1>1, ReturnedLemma DEF IInv
<1>4. Acts(r)
  BY <1>0, <1>1, <1>2, <1>3 DEF Acts, Busy
<1>5. TypeOK'
  BY <1>1, <1>2 DEF IInv, TypeOK, bounds
<1>6. DrainInv' /\ ObsoleteCheckpointIsGone'
  BY <1>2 DEF IInv, DrainInv, ObsoleteCheckpointIsGone, Draining
<1>7. RunInv(r)'
  BY <1>3 DEF RunInv, StartedInv, CountedInv, GraphInv, Registered, At, Busy
<1>. QED BY <1>4, <1>5, <1>6, <1>7, OthersLemma DEF IInv

-----------------------------------------------------------------------------
(* Execute. *)

\* Alone with the task, the run goes on from its checkpoint or, if its context has
\* ended, from nothing.
LEMMA StartStep ==
  ASSUME IInv, NEW r \in Runs, Start(r)
  PROVE  IInv'
<1>0. run[r].task \in Tasks /\ Busy(r) /\ r \in inFlight /\ At(r, "loading")
  BY DEF IInv, TypeOK, RunState, RunInv, CountedInv, Registered, Start, At, Busy
<1>1. PICK n \in 0..Nodes :
        /\ n = IF Done(r) THEN 0 ELSE ckpt[run[r].task]
        /\ run' = [run EXCEPT ![r].pc = "running", ![r].node = n]
  <2>1. ckpt[run[r].task] \in 0..Nodes /\ 0 \in 0..Nodes
    BY <1>0, NodesAssumption DEF IInv, TypeOK
  <2>. QED BY <2>1 DEF Start
<1>2. /\ run' \in [Runs -> RunState]
      /\ run'[r].pc = "running" /\ run'[r].task = run[r].task /\ run'[r].node = n
      /\ run'[r].cancelled = run[r].cancelled
      /\ \A s \in Runs \ {r} : run'[s] = run[s]
  <2>. DEFINE y == [run[r] EXCEPT !.pc = "running", !.node = n]
  <2>1. /\ y \in RunState /\ y.pc = "running" /\ y.task = run[r].task /\ y.node = n
        /\ y.cancelled = run[r].cancelled
    <3>1. run[r] \in RunState
      BY DEF IInv, TypeOK
    <3>. QED BY <3>1 DEF RunState, Registered
  <2>2. run' = [run EXCEPT ![r] = y]
    BY <1>1
  <2>. HIDE DEF y
  <2>. QED BY <2>1, <2>2 DEF IInv, TypeOK
<1>3. UNCHANGED <<status, ckpt, handle, inFlight, proc, drained, contested, bounds>>
  BY DEF Start, processVars
<1>4. ended' = [ended EXCEPT ![run[r].task] = FALSE]
  BY DEF Start
<1>5. Acts(r)
  BY <1>0, <1>2, <1>3, <1>4 DEF Acts, IInv, TypeOK
<1>6. TypeOK'
  BY <1>2, <1>3, <1>4 DEF IInv, TypeOK, bounds
<1>7. DrainInv' /\ ObsoleteCheckpointIsGone'
  BY <1>3, <1>4 DEF IInv, TypeOK, DrainInv, ObsoleteCheckpointIsGone, Draining
<1>8. RunInv(r)'
  <2>1. StartedInv(r)' /\ CountedInv(r)'
    BY <1>0, <1>2, <1>3 DEF IInv, RunInv, StartedInv, CountedInv
  <2>2. Done(r)' <=> Done(r)
    BY <1>2, <1>3 DEF Done
  <2>3. ckpt[run[r].task] \in Nat /\ n \in Nat
    BY <1>0, NodesAssumption DEF IInv, TypeOK
  <2>4. GraphInv(r)'
    BY <1>0, <1>1, <1>2, <1>3, <1>4, <2>2, <2>3 DEF GraphInv, At, IInv, TypeOK
  <2>. QED BY <2>1, <2>4 DEF RunInv
<1>. QED BY <1>5, <1>6, <1>7, <1>8, OthersLemma DEF IInv

\* A run that counts a node, or learns that its graph has succeeded.
LEMMA NodeStep ==
  ASSUME IInv, NEW r \in Runs, Busy(r), r \in inFlight,
         run' \in [Runs -> RunState],
         run'[r].pc \in {"saving", "deleting"}, run'[r].task = run[r].task,
         \A s \in Runs \ {r} : run'[s] = run[s],
         UNCHANGED <<status, ckpt, handle, inFlight, processVars, ended, contested, bounds>>,
         GraphInv(r)'
  PROVE  IInv'
<1>1. Acts(r)
  BY DEF Acts, processVars
<1>2. TypeOK' /\ DrainInv' /\ ObsoleteCheckpointIsGone'
  BY DEF IInv, TypeOK, DrainInv, ObsoleteCheckpointIsGone, Draining, processVars, bounds
<1>3. StartedInv(r)' /\ CountedInv(r)'
  BY DEF IInv, RunInv, StartedInv, CountedInv
<1>. QED BY <1>1, <1>2, <1>3, OthersLemma DEF IInv, RunInv

\* The node just completed is the first that is not saved.
LEMMA NodeCompletesStep ==
  ASSUME IInv, NEW r \in Runs, NodeCompletes(r)
  PROVE  IInv'
<1>0. /\ run[r].task \in Tasks /\ Busy(r) /\ r \in inFlight /\ At(r, "running")
      /\ run[r].node \in Nat /\ ckpt[run[r].task] \in Nat /\ run[r].node + 1 \in 0..Nodes
  BY NodesAssumption
     DEF IInv, TypeOK, RunState, RunInv, CountedInv, Registered, NodeCompletes, At, Busy
<1>1. /\ run' \in [Runs -> RunState]
      /\ run'[r].pc = "saving" /\ run'[r].task = run[r].task
      /\ run'[r].node = run[r].node + 1 /\ run'[r].cancelled = run[r].cancelled
      /\ \A s \in Runs \ {r} : run'[s] = run[s]
  BY <1>0 DEF IInv, TypeOK, RunState, Registered, NodeCompletes
<1>2. UNCHANGED <<status, ckpt, handle, inFlight, processVars, ended, contested, bounds>>
  BY DEF NodeCompletes
<1>3. Done(r)' <=> Done(r)
  BY <1>1, <1>2 DEF Done, processVars
<1>4. GraphInv(r)'
  BY <1>0, <1>1, <1>2, <1>3 DEF IInv, RunInv, GraphInv, At
<1>. QED BY <1>0, <1>1, <1>2, <1>4, NodeStep

\* The checkpoint catches up, or the run ends one node ahead of it.
LEMMA SaveCheckpointStep ==
  ASSUME IInv, NEW r \in Runs, SaveCheckpoint(r)
  PROVE  IInv'
<1>0. /\ run[r].task \in Tasks /\ Busy(r) /\ r \in inFlight /\ At(r, "saving")
      /\ run[r].node \in 0..Nodes /\ ckpt[run[r].task] \in 0..Nodes
  BY DEF IInv, TypeOK, RunState, RunInv, CountedInv, Registered, SaveCheckpoint, At, Busy
<1>1. UNCHANGED <<status, handle, inFlight, processVars, ended, contested, bounds>>
  BY DEF SaveCheckpoint
<1>2. CASE Done(r)
  <2>1. Goto(r, "stopped") /\ UNCHANGED ckpt
    BY <1>2 DEF SaveCheckpoint
  <2>2. run'[r].pc = "stopped" /\ run'[r].task = run[r].task /\ run'[r].node = run[r].node
        /\ run'[r].cancelled = run[r].cancelled
    BY <2>1, GotoLemma DEF IInv, Registered
  <2>3. GraphInv(r)'
    BY <1>0, <1>1, <1>2, <2>1, <2>2
       DEF IInv, RunInv, GraphInv, At, Done, processVars
  <2>. QED BY <1>0, <1>1, <2>1, <2>3, MoveStep DEF Registered
<1>3. CASE ~Done(r)
  <2>1. ckpt' = [ckpt EXCEPT ![run[r].task] = run[r].node] /\ Goto(r, "running")
    BY <1>3 DEF SaveCheckpoint
  <2>2. /\ run' \in [Runs -> RunState] /\ run'[r].pc = "running"
        /\ run'[r].task = run[r].task /\ run'[r].node = run[r].node
        /\ \A s \in Runs \ {r} : run'[s] = run[s]
    BY <2>1, GotoLemma DEF IInv, Registered
  <2>3. run[r].task \notin contested => ~ended[run[r].task]
    BY <1>0 DEF IInv, RunInv, GraphInv, At
  <2>4. Acts(r)
    BY <1>0, <1>1, <2>1, <2>2 DEF Acts, IInv, TypeOK, processVars
  <2>5. TypeOK' /\ DrainInv'
    BY <1>0, <1>1, <2>1, <2>2 DEF IInv, TypeOK, DrainInv, Draining, processVars, bounds
  <2>6. ObsoleteCheckpointIsGone'
    BY <1>1, <2>1, <2>3 DEF IInv, TypeOK, ObsoleteCheckpointIsGone
  <2>7. StartedInv(r)' /\ CountedInv(r)'
    BY <1>0, <1>1, <2>2 DEF IInv, RunInv, StartedInv, CountedInv
  <2>8. GraphInv(r)'
    BY <1>0, <1>1, <2>1, <2>2, <2>3 DEF GraphInv, At, IInv, TypeOK
  <2>. QED BY <2>4, <2>5, <2>6, <2>7, <2>8, OthersLemma DEF IInv, RunInv
<1>. QED BY <1>2, <1>3

\* The graph returns its result.
LEMMA GraphSucceedsStep ==
  ASSUME IInv, NEW r \in Runs, GraphSucceeds(r)
  PROVE  IInv'
<1>0. Busy(r) /\ r \in inFlight
  BY DEF IInv, RunInv, CountedInv, Registered, GraphSucceeds, At, Busy
<1>1. /\ run' \in [Runs -> RunState]
      /\ run'[r].pc = "deleting" /\ run'[r].task = run[r].task
      /\ \A s \in Runs \ {r} : run'[s] = run[s]
  <2>. DEFINE y == [run[r] EXCEPT !.pc = "deleting", !.ok = TRUE]
  <2>1. y \in RunState /\ y.pc = "deleting" /\ y.task = run[r].task
    <3>1. run[r] \in RunState
      BY DEF IInv, TypeOK
    <3>. QED BY <3>1 DEF RunState, Registered
  <2>2. run' = [run EXCEPT ![r] = y]
    BY DEF GraphSucceeds
  <2>. HIDE DEF y
  <2>. QED BY <2>1, <2>2 DEF IInv, TypeOK
<1>2. GraphInv(r)'
  BY <1>1 DEF GraphInv, At
<1>. QED BY <1>0, <1>1, <1>2, NodeStep DEF GraphSucceeds

\* The graph returns an error.
LEMMA GraphFailsStep ==
  ASSUME IInv, NEW r \in Runs, GraphFails(r)
  PROVE  IInv'
<1>0. /\ Busy(r) /\ r \in inFlight /\ At(r, "running") /\ Goto(r, "stopped")
      /\ run[r].node \in Nat /\ ckpt[run[r].task] \in Nat
  BY NodesAssumption
     DEF IInv, TypeOK, RunState, RunInv, CountedInv, Registered, GraphFails, At, Busy
<1>1. UNCHANGED <<status, ckpt, handle, inFlight, processVars, ended, contested, bounds>>
  BY DEF GraphFails
<1>2. run'[r].pc = "stopped" /\ run'[r].task = run[r].task /\ run'[r].node = run[r].node
      /\ run'[r].cancelled = run[r].cancelled
  BY <1>0, GotoLemma DEF IInv, Registered
<1>3. GraphInv(r)'
  BY <1>0, <1>1, <1>2 DEF IInv, RunInv, GraphInv, At, Done, processVars
<1>. QED BY <1>0, <1>1, <1>3, MoveStep DEF Registered

\* A drain leaves the task as it is; else the run has an outcome to write.
LEMMA LeaveResumableStep ==
  ASSUME IInv, NEW r \in Runs, LeaveResumable(r)
  PROVE  IInv'
<1>1. PICK pc \in {"ending", "deleting"} : Goto(r, pc)
  BY DEF LeaveResumable
<1>2. Busy(r) /\ r \in inFlight /\ pc \in Registered
  BY DEF LeaveResumable, IInv, RunInv, CountedInv, Registered, Busy, At
<1>3. GraphInv(r)'
  BY <1>1, <1>2, GotoLemma DEF IInv, GraphInv, At
<1>. QED BY <1>1, <1>2, <1>3, MoveStep DEF LeaveResumable

\* The checkpoint is gone before the outcome is written.
LEMMA DeleteCheckpointStep ==
  ASSUME IInv, NEW r \in Runs, DeleteCheckpoint(r)
  PROVE  IInv'
<1>0. run[r].task \in Tasks /\ Busy(r) /\ r \in inFlight /\ 0 \in 0..Nodes
  BY NodesAssumption
     DEF IInv, TypeOK, RunState, RunInv, CountedInv, Registered, DeleteCheckpoint, At, Busy
<1>1. /\ run' \in [Runs -> RunState] /\ run'[r].pc = "persisting"
      /\ run'[r].task = run[r].task
      /\ \A s \in Runs \ {r} : run'[s] = run[s]
  BY GotoLemma DEF IInv, Registered, DeleteCheckpoint
<1>2. /\ ckpt' = IF Open THEN [ckpt EXCEPT ![run[r].task] = 0] ELSE ckpt
      /\ UNCHANGED <<status, handle, inFlight, proc, drained, ended, contested, bounds>>
  BY DEF DeleteCheckpoint, processVars
<1>3. /\ ckpt' \in [Tasks -> 0..Nodes]
      /\ ckpt'[run[r].task] = 0 \/ ~Open'
      /\ \A t \in Tasks \ {run[r].task} : ckpt'[t] = ckpt[t]
      /\ \A t \in Tasks : ckpt[t] = 0 => ckpt'[t] = 0
  BY <1>0, <1>2 DEF IInv, TypeOK, Open
<1>4. Acts(r)
  BY <1>0, <1>1, <1>2, <1>3 DEF Acts
<1>5. TypeOK'
  BY <1>1, <1>2, <1>3 DEF IInv, TypeOK, bounds
<1>6. DrainInv' /\ ObsoleteCheckpointIsGone'
  BY <1>2, <1>3 DEF IInv, DrainInv, ObsoleteCheckpointIsGone, Draining
<1>7. RunInv(r)'
  BY <1>0, <1>1, <1>2, <1>3 DEF IInv, RunInv, StartedInv, CountedInv, GraphInv, At
<1>. QED BY <1>4, <1>5, <1>6, <1>7, OthersLemma DEF IInv

\* The outcome.
LEMMA PersistOutcomeStep ==
  ASSUME IInv, NEW r \in Runs, PersistOutcome(r)
  PROVE  IInv'
<1>0. /\ run[r].task \in Tasks /\ Busy(r) /\ r \in inFlight
      /\ run[r].task \notin contested => ckpt[run[r].task] = 0 \/ ~Open
  BY DEF IInv, TypeOK, RunState, RunInv, CountedInv, GraphInv, Registered, PersistOutcome,
         At, Busy
<1>1. /\ run' \in [Runs -> RunState] /\ run'[r].pc = "ending"
      /\ run'[r].task = run[r].task
      /\ \A s \in Runs \ {r} : run'[s] = run[s]
  BY GotoLemma DEF IInv, Registered, PersistOutcome
<1>2. /\ ended' = IF Open THEN [ended EXCEPT ![run[r].task] = TRUE] ELSE ended
      /\ UNCHANGED <<ckpt, handle, inFlight, proc, drained, contested, bounds>>
      /\ WriteStatus(run[r].task, OutcomeOf(r))
  BY DEF PersistOutcome, processVars
<1>3. OutcomeOf(r) \in Status
  BY DEF OutcomeOf, Status
<1>4. /\ status' \in [Tasks -> Status]
      /\ \A u \in Tasks \ {run[r].task} : status'[u] = status[u]
  BY <1>0, <1>2, <1>3, WriteStatusLemma DEF IInv
<1>5. Acts(r)
  BY <1>0, <1>1, <1>2, <1>4 DEF Acts, IInv, TypeOK
<1>6. TypeOK'
  BY <1>1, <1>2, <1>4 DEF IInv, TypeOK, bounds
<1>7. DrainInv' /\ ObsoleteCheckpointIsGone'
  BY <1>0, <1>2 DEF IInv, TypeOK, DrainInv, ObsoleteCheckpointIsGone, Draining
<1>8. RunInv(r)'
  BY <1>0, <1>1, <1>2 DEF RunInv, StartedInv, CountedInv, GraphInv, At, Busy
<1>. QED BY <1>5, <1>6, <1>7, <1>8, OthersLemma DEF IInv

-----------------------------------------------------------------------------
(* The clients and the process. *)

\* Contexts may end while nothing else happens; no run relies on a live one.
LEMMA ContextsEnd ==
  ASSUME IInv, run' \in [Runs -> RunState],
         \A r \in Runs :
           /\ run'[r].pc = run[r].pc /\ run'[r].task = run[r].task
           /\ run'[r].node = run[r].node
           /\ Done(r) => Done(r)',
         UNCHANGED <<status, ckpt, inFlight, ended, contested>>,
         Open <=> Open'
  PROVE  UniqueInv' /\ ObsoleteCheckpointIsGone' /\ \A r \in Runs : RunInv(r)'
<1>1. UniqueInv' /\ ObsoleteCheckpointIsGone'
  BY DEF IInv, UniqueInv, Busy, ObsoleteCheckpointIsGone
<1>2. ASSUME NEW r \in Runs PROVE RunInv(r)'
  BY DEF IInv, RunInv, StartedInv, CountedInv, GraphInv, Busy, At
<1>. QED BY <1>1, <1>2

\* CancelJob ends the contexts of the registered runs.
LEMMA CancelJobStep ==
  ASSUME IInv, CancelJob
  PROVE  IInv'
<1>1. /\ run' \in [Runs -> RunState]
      /\ \A r \in Runs :
           /\ run'[r].pc = run[r].pc /\ run'[r].task = run[r].task
           /\ run'[r].node = run[r].node
           /\ run[r].cancelled => run'[r].cancelled
  <2>1. run' = [r \in Runs |->
                  [run[r] EXCEPT !.cancelled = @ \/ \E t \in Tasks : handle[t] = r]]
    BY DEF CancelJob
  <2>2. ASSUME NEW r \in Runs, NEW b \in BOOLEAN,
               b = (run[r].cancelled \/ \E t \in Tasks : handle[t] = r)
        PROVE  LET x == [run[r] EXCEPT !.cancelled = b]
               IN  /\ x \in RunState /\ x.cancelled = b
                   /\ x.pc = run[r].pc /\ x.task = run[r].task /\ x.node = run[r].node
    BY DEF IInv, TypeOK, RunState
  <2>. QED BY <2>1, <2>2
<1>2. /\ UNCHANGED <<status, ckpt, handle, inFlight, proc, drained, ended, contested,
                     deaths, retries, verdicts>>
      /\ cancels' \in 0..MaxCancels
  BY BoundsAssumption DEF IInv, TypeOK, CancelJob, processVars
<1>3. TypeOK' /\ DrainInv'
  BY <1>1, <1>2 DEF IInv, TypeOK, DrainInv, Draining
<1>4. Open <=> Open'
  BY <1>2 DEF Open
<1>5. ASSUME NEW r \in Runs
      PROVE  /\ run'[r].pc = run[r].pc /\ run'[r].task = run[r].task
             /\ run'[r].node = run[r].node
             /\ Done(r) => Done(r)'
  BY <1>1, <1>2 DEF Done
<1>6. UNCHANGED <<status, ckpt, inFlight, ended, contested>> /\ run' \in [Runs -> RunState]
  BY <1>1, <1>2
<1>. QED BY <1>3, <1>4, <1>5, <1>6, ContextsEnd DEF IInv

\* A swept task is not started again.
LEMMA SweepStep ==
  ASSUME IInv, NEW t \in Tasks, Sweep(t)
  PROVE  IInv'
<1>1. /\ status' = [status EXCEPT ![t] = "cancelled"]
      /\ UNCHANGED <<ckpt, run, handle, inFlight, proc, drained, ended, contested, bounds>>
  BY DEF Sweep, processVars
<1>2. TypeOK' /\ UniqueInv' /\ DrainInv' /\ ObsoleteCheckpointIsGone'
  BY <1>1 DEF IInv, TypeOK, Status, bounds, UniqueInv, Busy, DrainInv, Draining,
              ObsoleteCheckpointIsGone
<1>3. ASSUME NEW r \in Runs PROVE RunInv(r)'
  <2>1. run[r].task \in Tasks
    BY DEF IInv, TypeOK, RunState
  <2>2. StartedInv(r)'
    BY <1>1, <2>1 DEF IInv, TypeOK, RunInv, StartedInv, Busy
  <2>3. CountedInv(r)' /\ GraphInv(r)'
    BY <1>1 DEF IInv, RunInv, CountedInv, GraphInv, At, Done, Open
  <2>. QED BY <2>2, <2>3 DEF RunInv
<1>. QED BY <1>2, <1>3 DEF IInv

\* A verdict contests the task it fails under a goroutine, and splits under it without
\* letting another start.
LEMMA VerdictStep ==
  ASSUME IInv, NEW t \in Tasks, NEW st \in {"failed", "completed"}, Verdict(t, st)
  PROVE  IInv'
<1>1. /\ status' = [status EXCEPT ![t] = st] /\ verdicts' = verdicts + 1
      /\ UNCHANGED <<ckpt, run, handle, inFlight, proc, drained, ended, deaths, retries, cancels>>
      /\ contested \subseteq contested' /\ contested' \subseteq contested \cup {t}
      /\ verdicts < MaxVerdicts
  BY DEF Verdict, processVars
<1>2. TypeOK'
  <2>1. status' \in [Tasks -> Status] /\ contested' \subseteq Tasks
    BY <1>1 DEF IInv, TypeOK, Status
  <2>2. verdicts' \in 0..MaxVerdicts
    BY <1>1, BoundsAssumption DEF IInv, TypeOK
  <2>. QED BY <1>1, <2>1, <2>2 DEF IInv, TypeOK
<1>3. UniqueInv' /\ DrainInv' /\ ObsoleteCheckpointIsGone'
  BY <1>1 DEF IInv, UniqueInv, Busy, DrainInv, Draining, ObsoleteCheckpointIsGone
<1>4. ASSUME NEW r \in Runs PROVE RunInv(r)'
  <2>1. run[r].task \in Tasks
    BY DEF IInv, TypeOK, RunState
  <2>2. StartedInv(r)'
    <3>1. CASE run[r].task # t
      BY <1>1, <2>1, <3>1 DEF IInv, TypeOK, RunInv, StartedInv, Busy
    <3>2. CASE run[r].task = t /\ st = "failed"
      BY <1>1, <3>2 DEF Verdict, StartedInv, Busy
    <3>3. CASE run[r].task = t /\ st = "completed"
      BY <1>1, <3>3 DEF IInv, TypeOK, StartedInv
    <3>. QED BY <3>1, <3>2, <3>3
  <2>3. CountedInv(r)' /\ GraphInv(r)'
    BY <1>1 DEF IInv, RunInv, CountedInv, GraphInv, At, Done, Open
  <2>. QED BY <2>2, <2>3 DEF RunInv
<1>. QED BY <1>2, <1>3, <1>4 DEF IInv

\* The shutdown goes on.
LEMMA ShutdownStep ==
  ASSUME IInv, Shutdown \/ Drain \/ DrainReturns \/ DrainTimesOut
  PROVE  IInv'
<1>1. /\ UNCHANGED <<status, ckpt, run, handle, inFlight, ended, contested, bounds>>
      /\ Open /\ Open' /\ proc' # "up"
      /\ proc' \in {"stopping", "draining", "leaving"}
      /\ drained' \in BOOLEAN
  BY DEF IInv, TypeOK, Shutdown, Drain, DrainReturns, DrainTimesOut, Open
<1>2. TypeOK'
  BY <1>1 DEF IInv, TypeOK, bounds
<1>3. DrainInv'
  BY <1>1 DEF IInv, DrainInv, Draining, Shutdown, Drain, DrainReturns, DrainTimesOut
<1>. QED BY <1>1, <1>2, <1>3, ContextsEnd DEF IInv, TypeOK, Done

\* The store closes; a run that has not written its outcome will not.
LEMMA CloseStoreStep ==
  ASSUME IInv, CloseStore
  PROVE  IInv'
<1>1. /\ UNCHANGED <<status, ckpt, run, handle, inFlight, drained, ended, contested, bounds>>
      /\ proc = "leaving" /\ proc' = "closed"
  BY DEF CloseStore
<1>2. TypeOK' /\ DrainInv' /\ UniqueInv' /\ ObsoleteCheckpointIsGone'
  BY <1>1 DEF IInv, TypeOK, bounds, DrainInv, Draining, UniqueInv, Busy,
              ObsoleteCheckpointIsGone
<1>3. ASSUME NEW r \in Runs PROVE RunInv(r)'
  BY <1>1 DEF IInv, RunInv, StartedInv, CountedInv, GraphInv, Busy, At, Done, Open
<1>. QED BY <1>2, <1>3 DEF IInv

\* After a restart no goroutine is left.
LEMMA RestartStep ==
  ASSUME IInv, Restart
  PROVE  IInv'
<1>1. run' \in [Runs -> RunState] /\ \A r \in Runs : run'[r].pc = "idle"
  BY ReturnedLemma DEF IInv, Restart
<1>2. /\ status' \in [Tasks -> Status] /\ handle' \in [Tasks -> Runs \cup {NoRun}]
      /\ inFlight' = {} /\ proc' = "up" /\ drained' = FALSE
      /\ deaths' \in 0..MaxDeaths
      /\ UNCHANGED <<ckpt, ended, contested, retries, cancels, verdicts>>
  BY BoundsAssumption DEF IInv, TypeOK, Status, Restart
<1>3. TypeOK' /\ DrainInv' /\ UniqueInv' /\ ObsoleteCheckpointIsGone'
  BY <1>1, <1>2 DEF IInv, TypeOK, DrainInv, UniqueInv, Busy, ObsoleteCheckpointIsGone
<1>4. ASSUME NEW r \in Runs PROVE RunInv(r)'
  BY <1>1 DEF RunInv, StartedInv, CountedInv, GraphInv, Busy, Registered, At
<1>. QED BY <1>3, <1>4 DEF IInv

-----------------------------------------------------------------------------
\* Nothing runs.
LEMMA InitLemma == Init => IInv
<1> SUFFICES ASSUME Init PROVE IInv
  OBVIOUS
<1>1. run \in [Runs -> RunState] /\ \A r \in Runs : run[r].pc = "idle"
  <2>1. PICK t \in Tasks :
          run = [r \in Runs |-> [pc |-> "idle", task |-> t, node |-> 0, ok |-> FALSE,
                                cancelled |-> FALSE]]
    BY DEF Init
  <2>2. 0 \in 0..Nodes
    BY NodesAssumption
  <2>. QED BY <2>1, <2>2 DEF RunState
<1>2. TypeOK
  <2>1. /\ 0 \in 0..Nodes /\ 0 \in 0..MaxDeaths /\ 0 \in 0..MaxRetries
        /\ 0 \in 0..MaxCancels /\ 0 \in 0..MaxVerdicts
    BY NodesAssumption, BoundsAssumption
  <2>. QED BY <1>1, <2>1 DEF Init, TypeOK, Status
<1>3. UniqueInv /\ DrainInv /\ ObsoleteCheckpointIsGone
  BY <1>1 DEF Init, UniqueInv, Busy, DrainInv, ObsoleteCheckpointIsGone
<1>4. ASSUME NEW r \in Runs PROVE RunInv(r)
  BY <1>1 DEF RunInv, StartedInv, CountedInv, GraphInv, Busy, Registered, At
<1>. QED BY <1>2, <1>3, <1>4 DEF IInv

\* The invariant holds of every reachable state.
THEOREM Invariance == Spec => []IInv
<1>1. IInv /\ [Next]_vars => IInv'
  <2> SUFFICES ASSUME IInv, [Next]_vars PROVE IInv'
    OBVIOUS
  <2>1. ASSUME NEW r \in Runs, Run(r) PROVE IInv'
    BY <2>1, BeginTaskStep, PrepareTaskStep, FailDispatchStep, EndTaskStep, StartStep,
       NodeCompletesStep, SaveCheckpointStep, GraphSucceedsStep, GraphFailsStep,
       LeaveResumableStep, DeleteCheckpointStep, PersistOutcomeStep DEF Run
  <2>2. ASSUME NEW t \in Tasks, NEW r \in Runs, Dispatch(t, r) \/ RetryTask(t, r) PROVE IInv'
    BY <2>2, DispatchStep, RetryTaskStep
  <2>3. ASSUME NEW t \in Tasks, Sweep(t) PROVE IInv'
    BY <2>3, SweepStep
  <2>4. ASSUME NEW t \in Tasks, NEW st \in {"failed", "completed"}, Verdict(t, st) PROVE IInv'
    BY <2>4, VerdictStep
  <2>5. CASE Shutdown \/ Process
    BY <2>5, ShutdownStep, CloseStoreStep DEF Process
  <2>6. CASE UNCHANGED vars
    <3>1. TypeOK' /\ UniqueInv' /\ DrainInv' /\ ObsoleteCheckpointIsGone'
      BY <2>6 DEF vars, processVars, bounds, IInv, TypeOK, UniqueInv, Busy, DrainInv, Draining,
                  ObsoleteCheckpointIsGone
    <3>2. ASSUME NEW r \in Runs PROVE RunInv(r)'
      BY <2>6 DEF vars, processVars, IInv, RunInv, StartedInv, CountedInv, GraphInv, Busy, At,
                  Done, Open
    <3>. QED BY <3>1, <3>2 DEF IInv
  <2>. QED BY <2>1, <2>2, <2>3, <2>4, <2>5, <2>6, CancelJobStep, RestartStep DEF Next
<1>. QED BY <1>1, InitLemma, PTL DEF Spec

\* Every variable keeps its type.
THEOREM TypeCorrect == Spec => []TypeOK
BY Invariance, PTL DEF IInv

\* No task's graph runs twice at once, unless a verdict failed its row under its run
\* (ExecuteTask and the conditional statements of the store).
THEOREM RunsAlone == Spec => []OneGraphPerTask
<1>1. IInv => OneGraphPerTask
  BY DEF IInv, UniqueInv, OneGraphPerTask, Busy, InGraph
<1>. QED BY <1>1, Invariance, PTL

\* A drain that returned true leaves no registered run (beginTask, Drain, endTask).
THEOREM DrainIsComplete == Spec => []DrainedRunsAreSettled
<1>1. IInv => DrainedRunsAreSettled
  BY DEF IInv, RunInv, CountedInv, DrainInv, DrainedRunsAreSettled
<1>. QED BY <1>1, Invariance, PTL

\* A run goes on from its own checkpoint and loses at most a node, unless its task
\* was contested (Execute).
THEOREM ResumesOwnWork == Spec => []RunMatchesCheckpoint
<1>1. IInv => RunMatchesCheckpoint
  <2> SUFFICES ASSUME IInv, NEW r \in Runs, run[r].pc \in {"running", "saving", "stopped"},
                      run[r].task \notin contested
               PROVE  /\ run[r].node <= ckpt[run[r].task] + 1
                      /\ Done(r) \/ ckpt[run[r].task] <= run[r].node
    BY DEF RunMatchesCheckpoint
  <2>1. run[r].node \in Nat /\ ckpt[run[r].task] \in Nat
    BY NodesAssumption DEF IInv, TypeOK, RunState
  <2>. QED BY <2>1 DEF IInv, RunInv, GraphInv, At
<1>. QED BY <1>1, Invariance, PTL

\* The checkpoint of an uncontested run that had an outcome is gone (Execute).
THEOREM NoStaleCheckpoint == Spec => []ObsoleteCheckpointIsGone
BY Invariance, PTL DEF IInv
=============================================================================
