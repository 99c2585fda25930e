---------------------------- MODULE OperatorLoop ----------------------------
(***************************************************************************)
(* The operator's event loop (internal/operator/operator.go) and the       *)
(* tools it runs (internal/operator/system_tools.go).  One goroutine       *)
(* handles one event at a time: a completion advances the job mechanically *)
(* or checks whether it is done, a failure or a user message starts a turn *)
(* of the model, which may call tools.  The model's choices are free; how  *)
(* many tool calls of each kind it makes is bounded by Budgets.            *)
(***************************************************************************)
EXTENDS GraphRuns

CONSTANT Budgets   \* bound: each says how often things outside the program may happen

Kinds == {"message", "create", "retry", "setup", "userRetry", "cancel", "crash"}
ASSUME BudgetsAssumption == Budgets \subseteq [Kinds -> Nat]

VARIABLES op,     \* the loop's position and locals
          spent   \* how often each has happened

OpPC == {"idle", "llm", "bootstrap", "advance", "dispatch", "promote",
         "check", "complete", "insert", "announce", "decompose", "gate", "retry",
         "recover"}
OpState ==
  [pc : OpPC,
   turn : {"none", "user", "event"},  \* the turn of the model under way, by what started it
   task : Tasks \cup {NoTask},  \* the task being dispatched
   g : Graphs,                  \* the graph it is dispatched on
   busy : BOOLEAN,              \* a sibling was in progress at the gate
   jobPending : BOOLEAN]        \* job.Status == pending when the job was read

OpIdle == [pc |-> "idle", turn |-> "none", task |-> NoTask, g |-> "none",
           busy |-> FALSE, jobPending |-> FALSE]
InTurn(by) == [OpIdle EXCEPT !.pc = "llm", !.turn = by]

OpTypeOK ==
  /\ op \in OpState
  /\ spent \in [Kinds -> Nat]

OpInit ==
  /\ op = OpIdle
  /\ spent = [k \in Kinds |-> 0]

-----------------------------------------------------------------------------
OpAt(pc) == op.pc = pc
OpGoto(pc) == op' = [op EXCEPT !.pc = pc]

\* A handler or a tool is done: back to the model if a turn is under way.
OpDone == op' = IF op.turn = "none" THEN OpIdle ELSE InTurn(op.turn)

\* reportAdvanceFailure, or a tool's error: the model gets to see it.
OpReport == op' = InTurn(IF op.turn = "none" THEN "event" ELSE op.turn)

Spend(k) ==
  /\ spent' = [spent EXCEPT ![k] = @ + 1]
  /\ \E B \in Budgets : \A j \in Kinds : spent'[j] <= B[j]

runVars == <<runs, registered, queue, starter>>

-----------------------------------------------------------------------------
(* handleEvent *)

TakeEvent ==
  /\ OpAt("idle") /\ queue # <<>>
  /\ queue' = Tail(queue)
  /\ LET ev == Head(queue) IN
       op' = CASE ev.type = "completed" /\ ev.next  -> [OpIdle EXCEPT !.pc = "advance"]
               [] ev.type = "completed" /\ ~ev.next -> [OpIdle EXCEPT !.pc = "check"]
               [] ev.type = "failed"                -> InTurn("event")
               [] ev.type = "user"                  -> InTurn("user")
  /\ UNCHANGED <<storeVars, runs, registered, starter, spent>>

\* handleUserMessage returns; maxTurnRounds bounds every turn.
EndTurn ==
  /\ OpAt("llm")
  /\ op' = OpIdle
  /\ UNCHANGED <<storeVars, runVars, spent>>

\* checkJobComplete: every row is terminal.
CheckJobComplete_IgnoresRunning ==
  /\ OpAt("check")
  /\ IF Rows # {} /\ \A t \in Rows : status[t] # "pending"
     THEN OpGoto("complete") ELSE op' = OpIdle
  /\ UNCHANGED <<storeVars, runVars, spent>>
CheckJobComplete ==
  /\ OpAt("check")
  /\ IF Rows # {} /\ \A t \in Rows : status[t] \in TerminalTask
     THEN OpGoto("complete") ELSE op' = OpIdle
  /\ UNCHANGED <<storeVars, runVars, spent>>

\* EventJobComplete, handled inline.
CompleteJob ==
  /\ OpAt("complete")
  /\ UpdateJobStatus("completed")
  /\ op' = OpIdle
  /\ UNCHANGED <<runVars, spent>>

-----------------------------------------------------------------------------
(* assignNextTask and assign_task *)

Siblings(t) == InProgress \ {t}

\* The reads of one dispatch.  GetReadyTasks, GetTask, GetJob and the sibling
\* list follow each other; what they saw is acted on later, so one snapshot
\* stands for them.  Bootstraps hold the gate here.  The row order decides which
\* graphed task comes first; any may.
AssignNextTask ==
  /\ OpAt("advance")
  /\ LET graphed == {t \in GetReadyTasks : graph[t] # "none"} IN
     \/ /\ graphed = {}
        /\ OpDone
     \/ /\ graphed # {} /\ job \in TerminalJob
        /\ OpReport
     \/ /\ job \notin TerminalJob
        /\ \E t \in graphed :
             op' = [op EXCEPT !.pc = "dispatch", !.task = t, !.g = graph[t],
                              !.busy = (Siblings(t) # {}), !.jobPending = (job = "pending")]
  /\ UNCHANGED <<storeVars, runVars, spent>>

\* dispatchGraphTask on a task create_task has just inserted: only the sibling
\* list is read here, the job was read before the insert.
ReadOperatorGate ==
  /\ OpAt("gate")
  /\ op' = [op EXCEPT !.pc = "dispatch", !.busy = (Siblings(op.task) # {})]
  /\ UNCHANGED <<storeVars, runVars, spent>>

\* dispatchGraphTask, the write the gate decided on.
DispatchGraphTask ==
  /\ OpAt("dispatch") /\ ~op.busy
  /\ \/ /\ AssignTaskToGraph(op.task, op.g)
        /\ Spawn(op.task, op.g, "operator")
        /\ IF op.jobPending THEN OpGoto("promote") ELSE OpDone
     \/ /\ status[op.task] # "pending"
        /\ OpReport
        /\ UNCHANGED <<storeVars, runs, registered, starter>>
  /\ UNCHANGED <<queue, spent>>

QueueGraphTask ==
  /\ OpAt("dispatch") /\ op.busy
  /\ \/ PreAssignTaskGraph(op.task, op.g) /\ OpDone
     \/ status[op.task] # "pending" /\ OpReport /\ UNCHANGED storeVars
  /\ UNCHANGED <<runVars, spent>>

\* The job was pending when it was read; its status now is not looked at.
PromoteJob ==
  /\ OpAt("promote")
  /\ UpdateJobStatus("active")
  /\ OpDone
  /\ UNCHANGED <<runVars, spent>>

-----------------------------------------------------------------------------
(* Tools of a model turn.  The job is the only one here, so create_job runs  *)
(* once.                                                                     *)

\* create_job, the insert; job.created triggers coarse-decompose.
CreateJob ==
  /\ OpAt("llm") /\ job = "none"
  /\ UpdateJobStatus("pending")
  /\ OpGoto("bootstrap")
  /\ UNCHANGED <<runVars, spent>>

\* dispatchCoarseDecompose
DispatchCoarseDecompose ==
  /\ OpAt("bootstrap")
  /\ \E b \in Tasks : /\ CreateTask(b, "in_progress", "coarse", NoTask, 0)
                      /\ Spawn(b, "coarse", "service")
  /\ OpDone
  /\ UNCHANGED <<queue, spent>>

\* create_task reads the job, with or without an explicit graph.
CreateTaskTool ==
  /\ OpAt("llm") /\ job \notin TerminalJob \cup {"none"}
  /\ Spend("create")
  /\ \E g \in {"none", "work"} :
       op' = [op EXCEPT !.pc = "insert", !.g = g, !.jobPending = (job = "pending")]
  /\ UNCHANGED <<storeVars, runVars>>

InsertTask ==
  /\ OpAt("insert")
  /\ \E t \in Tasks :
       /\ CreateTask(t, "pending", "none", NoTask, 0)
       /\ op' = [op EXCEPT !.task = t, !.pc = IF op.g = "none" THEN "announce" ELSE "gate"]
  /\ UNCHANGED <<runVars, spent>>

\* BroadcastTaskCreated with no graph: the new task has no dependency.
AnnounceTask ==
  /\ OpAt("announce")
  /\ \/ WantsFineDecompose(op.task) /\ OpGoto("decompose")
     \/ ~WantsFineDecompose(op.task) /\ OpDone
  /\ UNCHANGED <<storeVars, runVars, spent>>

\* Its bootstrap, as in a callback: the task is not read again.
DecomposeTask ==
  /\ OpAt("decompose")
  /\ \E b \in Tasks : CreateBootstrap(b, op.task) /\ Spawn(b, "fine", "service")
  /\ OpDone
  /\ UNCHANGED <<queue, spent>>

\* retry_task: the reads.  The graph is the old one unless the model names one.
\* The job's status is not looked at.
RetryTaskTool_NoGate ==
  /\ OpAt("llm")
  /\ Spend("retry")
  /\ \E t \in Tasks : \E g \in {graph[t], "work"} \ {"none"} :
       /\ status[t] = "failed"
       /\ op' = [op EXCEPT !.pc = "retry", !.task = t, !.g = g]
  /\ UNCHANGED <<storeVars, runVars>>
RetryTaskTool ==
  /\ OpAt("llm")
  /\ Spend("retry")
  /\ \E t \in Tasks : \E g \in {graph[t], "work"} \ {"none"} :
       /\ status[t] = "failed" /\ Siblings(t) = {}
       /\ op' = [op EXCEPT !.pc = "retry", !.task = t, !.g = g]
  /\ UNCHANGED <<storeVars, runVars>>

RetryDispatch ==
  /\ OpAt("retry")
  /\ \/ /\ RetryTask(op.task, op.g)
        /\ Spawn(op.task, op.g, "operator")
     \/ /\ status[op.task] # "failed"
        /\ UNCHANGED <<storeVars, runs, registered, starter>>
  /\ OpDone
  /\ UNCHANGED <<queue, spent>>

\* setup_workspace: any job status becomes setting_up, nothing sets it back.
SetupWorkspace ==
  /\ OpAt("llm") /\ job # "none"
  /\ Spend("setup")
  /\ UpdateJobStatus("setting_up")
  /\ UNCHANGED <<runVars, op>>

-----------------------------------------------------------------------------
\* recoverInterrupted, the first thing the loop does: an active job with a
\* graphed ready task is advanced.
RecoverInterrupted_OnlyPending ==
  /\ OpAt("recover")
  /\ op' = IF job = "pending" /\ \E t \in GetReadyTasks : graph[t] # "none"
           THEN [OpIdle EXCEPT !.pc = "advance"] ELSE OpIdle
  /\ UNCHANGED <<storeVars, runVars, spent>>
RecoverInterrupted ==
  /\ OpAt("recover")
  /\ op' = IF job = "active" /\ \E t \in GetReadyTasks : graph[t] # "none"
           THEN [OpIdle EXCEPT !.pc = "advance"] ELSE OpIdle
  /\ UNCHANGED <<storeVars, runVars, spent>>

\* What the loop does by itself once it has started.
LoopStep ==
  \/ TakeEvent \/ EndTurn \/ CheckJobComplete \/ CompleteJob
  \/ AssignNextTask \/ ReadOperatorGate \/ DispatchGraphTask \/ QueueGraphTask
  \/ PromoteJob \/ DispatchCoarseDecompose \/ InsertTask \/ AnnounceTask
  \/ DecomposeTask \/ RetryDispatch \/ RecoverInterrupted

\* What the model decides.
ModelStep == CreateJob \/ CreateTaskTool \/ RetryTaskTool \/ SetupWorkspace
=============================================================================
