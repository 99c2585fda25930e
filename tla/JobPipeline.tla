---------------------------- MODULE JobPipeline ----------------------------
(***************************************************************************)
(* One job from create_job to its end: the operator's loop, the runs it    *)
(* and the service start, the calls a user makes from a client             *)
(* (internal/service/local_jobs.go), and the death and restart of the      *)
(* server process (cmd/serve.go).                                          *)
(***************************************************************************)
EXTENDS OperatorLoop

VARIABLE cancel   \* the Cancel call in progress, if any

CancelPC == {"idle", "flip", "stop", "list", "sweep"}
CancelState == [pc : CancelPC,
                todo : SUBSET Tasks]   \* tasks of the list still to be swept
CancelIdle == [pc |-> "idle", todo |-> {}]

vars == <<storeVars, runs, registered, queue, starter, op, spent, cancel>>

TypeOK == StoreTypeOK /\ RunsTypeOK /\ OpTypeOK /\ cancel \in CancelState

Init == StoreInit /\ RunsInit /\ OpInit /\ cancel = CancelIdle

-----------------------------------------------------------------------------
(* The user. *)

\* SendMessage: refused while a message waits or its turn runs (currentTurnID).
UserMessage ==
  /\ Spend("message")
  /\ op.turn # "user" /\ \A i \in DOMAIN queue : queue[i].type # "user"
  /\ Len(queue) < EventChSize
  /\ queue' = Append(queue, [type |-> "user", next |-> FALSE])
  /\ UNCHANGED <<storeVars, runs, registered, starter, op, cancel>>

\* RetryTask of the service: no job check, and no gate.
UserRetry ==
  /\ Spend("userRetry")
  /\ \E t \in Tasks : /\ graph[t] # "none"
                      /\ RetryTask(t, graph[t])
                      /\ Spawn(t, graph[t], "service")
  /\ UNCHANGED <<queue, op, cancel>>

\* Cancel, statement by statement.
CancelCheck ==
  /\ cancel.pc = "idle" /\ job \in {"pending", "setting_up", "active"}
  /\ Spend("cancel")
  /\ cancel' = [cancel EXCEPT !.pc = "flip"]
  /\ UNCHANGED <<storeVars, runVars, op>>

CancelFlip ==
  /\ cancel.pc = "flip"
  /\ UpdateJobStatus("cancelled")
  /\ cancel' = [cancel EXCEPT !.pc = "stop"]
  /\ UNCHANGED <<runVars, op, spent>>

\* CancelJob of the executor: only runs that have begun are registered.
CancelRuns ==
  /\ cancel.pc = "stop"
  /\ runs' = [r \in Runs |-> IF \E t \in Tasks : registered[t] = r
                             THEN [runs[r] EXCEPT !.ctxDone = TRUE] ELSE runs[r]]
  /\ cancel' = [cancel EXCEPT !.pc = "list"]
  /\ UNCHANGED <<storeVars, registered, queue, starter, op, spent>>

CancelList ==
  /\ cancel.pc = "list"
  /\ cancel' = [cancel EXCEPT !.pc = "sweep",
                !.todo = {t \in Tasks : status[t] \in {"pending", "in_progress"}}]
  /\ UNCHANGED <<storeVars, runVars, op, spent>>

CancelSweep ==
  /\ cancel.pc = "sweep"
  /\ \/ \E t \in cancel.todo :
          /\ UpdateTaskStatus(t, "cancelled")
          /\ cancel' = [cancel EXCEPT !.todo = @ \ {t}]
     \/ cancel.todo = {} /\ cancel' = [cancel EXCEPT !.pc = "idle"] /\ UNCHANGED storeVars
  /\ UNCHANGED <<runVars, op, spent>>

CancelStep == CancelFlip \/ CancelRuns \/ CancelList \/ CancelSweep

-----------------------------------------------------------------------------
\* The process dies, and boots again: only the store survives, interrupted tasks
\* are reset before the operator starts.
CrashAndRestart ==
  /\ Spend("crash") /\ job # "none"
  /\ ReconcileInterrupted
  /\ runs' = [r \in Runs |-> Idle]
  /\ registered' = [t \in Tasks |-> NoRun]
  /\ queue' = <<>>
  /\ op' = [OpIdle EXCEPT !.pc = "recover"]
  /\ cancel' = CancelIdle
  /\ UNCHANGED starter

-----------------------------------------------------------------------------
Run(r) == RunStep(r) /\ UNCHANGED <<op, spent, cancel>>
Loop == LoopStep /\ UNCHANGED cancel
Model == ModelStep /\ UNCHANGED cancel

Next ==
  \/ \E r \in Runs : Run(r)
  \/ Loop \/ Model
  \/ UserMessage \/ UserRetry \/ CancelCheck \/ CancelStep
  \/ CrashAndRestart

Spec == Init /\ [][Next]_vars

\* Goroutines the Go scheduler keeps running, and a model call that returns.
\* Neither what the model chooses to do nor what the user does is fair.
Fairness == /\ \A r \in Runs : WF_vars(Run(r))
            /\ WF_vars(Loop)
            /\ WF_vars(CancelStep)

FairSpec == Spec /\ Fairness

-----------------------------------------------------------------------------
(* Safety *)

\* Every task in progress has a run that will still write its terminal status;
\* otherwise the task "strands there forever and wedges the job's serial gate"
\* (ExecuteTask, failDispatch, retry and recovery all have to keep this).
InProgressIsOwned ==
  \A t \in InProgress : \E r \in Runs : Live(r) /\ runs[r].task = t

\* A task is never deeper than maxDecomposeDepth, whatever the decomposer
\* answers: bootstraps carry their parent's depth through crashes and retries.
DepthIsCapped == \A t \in Tasks : depth[t] <= MaxDecomposeDepth

\* The operator's loop never has two tasks of its own in progress: its gate is
\* read and acted on in two steps, but no other dispatch of its own comes between.
OperatorRunsSerially ==
  \A t, u \in InProgress :
    starter[t] = "operator" /\ starter[u] = "operator" => t = u

\* Nothing starts a task that was completed or cancelled, and only an explicit
\* retry starts a failed one: dispatches decide on what they read earlier, and
\* the WHERE clauses of the store have to catch every change since.
NoRevival ==
  [][\A t \in Tasks :
       /\ status[t] \in {"completed", "cancelled"} => status'[t] \notin {"pending", "in_progress"}
       /\ status[t] = "failed" => status'[t] # "pending"]_status

\* A task in progress has all its dependencies completed (GetReadyTasks is read
\* when fine-decompose is dispatched, the task starts much later).
RunsAfterDependencies ==
  \A t \in InProgress : \A d \in deps[t] : status[d] = "completed"

\* A job is completed only when every task of it has ended, and none starts
\* afterwards (checkJobComplete reads the tasks first and writes the job later).
\* Fine-decompose bootstraps do not count: a callback that found a task ready may
\* insert one for it when the job is done.  It takes decompositions that find a
\* graph, and that nobody retries or adds a task.
CompletedJobHasNoWork ==
  job = "completed" => \A t \in Rows : status[t] \in TerminalTask \/ graph[t] = "fine"

\* A task has one run at a time, although it may be decomposed twice and two
\* decompositions and the loop offer it a graph (AssignTaskToGraph); unless one of
\* them finds no graph and fails the row of a running task, and a retry follows
\* (handleNoGraphFit).
OneRunPerTask ==
  \A q, r \in Runs : Live(q) /\ Live(r) /\ runs[q].task = runs[r].task => q = r

\* Fine-decompose is dispatched only for tasks without unmet predecessors: a
\* bootstrap in progress finds them completed (applyCoarseResult wires the
\* dependencies before it announces the tasks), however long ago the callback
\* that inserted it asked.
DecomposesAfterDependencies ==
  \A b \in InProgress : graph[b] = "fine" =>
    \A d \in deps[target[b]] : status[d] = "completed"

-----------------------------------------------------------------------------
(* Liveness *)

\* Once created, a job ends: no wake-up it waits for is lost between the runs
\* that complete, the decompositions they start and the operator's loop.
JobEnds == job = "pending" ~> job \in TerminalJob

\* What has been started finishes, through cancellations, retries and crashes.
StartedTasksFinish == \A t \in Tasks : status[t] = "in_progress" ~> status[t] # "in_progress"

\* After a restart, an active job with a ready task that has a graph is advanced.
Recoverable == \E t \in GetReadyTasks : graph[t] # "none"
RecoveryAdvances ==
  op.pc = "recover" /\ job = "active" /\ Recoverable
    ~> InProgress # {} \/ job # "active"

-----------------------------------------------------------------------------
(* Refinement *)

Lifecycle == INSTANCE TaskLifecycle WITH Task <- Tasks, state <- status

\* The whole pipeline, with its crashes, cancellations and retries, is an
\* implementation of the life of a task in TaskLifecycle.
LifecycleSpec == Lifecycle!Spec

\* Its safety part, without the promise that what runs ends.
LifecycleSafety == Lifecycle!Init /\ [][Lifecycle!Next]_status
=============================================================================
