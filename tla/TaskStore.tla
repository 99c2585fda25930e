------------------------------ MODULE TaskStore ------------------------------
(***************************************************************************)
(* The rows of the tasks, task_dependencies and jobs tables of one job,    *)
(* and the statements of internal/db/sqlite.go that change them.  The      *)
(* store has a single connection, so a statement is atomic; no handler     *)
(* groups two of them in a transaction, so every caller interleaves        *)
(* between its statements.  Task ids are numbers given out in creation     *)
(* order; a number whose status is "none" has no row yet.                  *)
(***************************************************************************)
EXTENDS Naturals, FiniteSets

CONSTANTS MaxTasks,           \* bound: rows the job may ever get
          MaxDecomposeDepth   \* maxDecomposeDepth of internal/service

ASSUME MaxTasksAssumption == MaxTasks \in Nat \ {0}
ASSUME DepthAssumption == MaxDecomposeDepth \in Nat

Tasks == 1..MaxTasks
NoTask == 0

VARIABLES job,      \* status of the job row, "none" before it is inserted
          status,   \* task status
          graph,    \* graph_id, "none" for the empty string
          target,   \* task a fine-decompose bootstrap decomposes (metadata)
          depth,    \* decompose_depth
          deps      \* task_dependencies: the tasks a task waits for

storeVars == <<job, status, graph, target, depth, deps>>
rowVars == <<graph, target, depth, deps>>

TaskStatus == {"none", "pending", "in_progress", "completed", "failed", "cancelled"}
TerminalTask == {"completed", "failed", "cancelled"}
JobStatus == {"none", "pending", "setting_up", "active",
              "completed", "failed", "cancelled"}
Graphs == {"none", "coarse", "fine", "work"}

\* isTerminalJobStatus
TerminalJob == {"completed", "failed", "cancelled"}

IsDecompositionGraph(g) == g \in {"coarse", "fine"}

StoreTypeOK ==
  /\ job \in JobStatus
  /\ status \in [Tasks -> TaskStatus]
  /\ graph \in [Tasks -> Graphs]
  /\ target \in [Tasks -> Tasks \cup {NoTask}]
  /\ depth \in [Tasks -> Nat]
  /\ deps \in [Tasks -> SUBSET Tasks]

StoreInit ==
  /\ job = "none"
  /\ status = [t \in Tasks |-> "none"]
  /\ graph = [t \in Tasks |-> "none"]
  /\ target = [t \in Tasks |-> NoTask]
  /\ depth = [t \in Tasks |-> 0]
  /\ deps = [t \in Tasks |-> {}]

-----------------------------------------------------------------------------
(* Queries. *)

Rows == {t \in Tasks : status[t] # "none"}

\* The id the next insert gets.
IsFresh(t) == /\ status[t] = "none"
              /\ \A u \in 1..(t - 1) : status[u] # "none"

\* Pending with every dependency completed.
GetReadyTasks_AnyDependency ==
  {t \in Tasks : status[t] = "pending" /\ \A d \in deps[t] :
                   \E e \in deps[t] : status[e] = "completed"}
GetReadyTasks ==
  {t \in Tasks : status[t] = "pending" /\ \A d \in deps[t] : status[d] = "completed"}

InProgress == {t \in Tasks : status[t] = "in_progress"}

-----------------------------------------------------------------------------
(* Statements.  Each one says what becomes of the task rows; the job row    *)
(* is the caller's, except in UpdateJobStatus.                              *)

CreateTask(t, st, g, parent, d) ==
  /\ IsFresh(t)
  /\ status' = [status EXCEPT ![t] = st]
  /\ graph' = [graph EXCEPT ![t] = g]
  /\ target' = [target EXCEPT ![t] = parent]
  /\ depth' = [depth EXCEPT ![t] = d]
  /\ UNCHANGED <<job, deps>>

\* WHERE id = ?: overwrites whatever status the row has.
UpdateTaskStatus(t, st) ==
  /\ status' = [status EXCEPT ![t] = st]
  /\ UNCHANGED <<job, rowVars>>

\* WHERE status = 'pending'; no row changes (and ErrNotFound) otherwise.
AssignTaskToGraph_Unguarded(t, g) ==
  /\ status' = [status EXCEPT ![t] = "in_progress"]
  /\ graph' = [graph EXCEPT ![t] = g]
  /\ UNCHANGED <<job, target, depth, deps>>
AssignTaskToGraph(t, g) ==
  /\ status[t] = "pending"
  /\ status' = [status EXCEPT ![t] = "in_progress"]
  /\ graph' = [graph EXCEPT ![t] = g]
  /\ UNCHANGED <<job, target, depth, deps>>

\* WHERE status = 'pending': the graph is set, the status stays.
PreAssignTaskGraph(t, g) ==
  /\ status[t] = "pending"
  /\ graph' = [graph EXCEPT ![t] = g]
  /\ UNCHANGED <<job, status, target, depth, deps>>

\* WHERE status = 'failed'.
RetryTask(t, g) ==
  /\ status[t] = "failed"
  /\ status' = [status EXCEPT ![t] = "in_progress"]
  /\ graph' = [graph EXCEPT ![t] = g]
  /\ UNCHANGED <<job, target, depth, deps>>

\* One AddTaskDependency per new edge.
AddTaskDependencies(edges) ==
  /\ deps' = [t \in Tasks |-> deps[t] \cup {e[2] : e \in {x \in edges : x[1] = t}}]
  /\ UNCHANGED <<job, status, graph, target, depth>>

\* WHERE id = ?: overwrites whatever status the job has.
UpdateJobStatus(st) ==
  /\ job' = st
  /\ UNCHANGED <<status, rowVars>>

\* Boot: what a dead process left in progress is pending again, graph kept.
ReconcileInterrupted_AlsoFailed ==
  /\ status' = [t \in Tasks |-> IF status[t] \in {"in_progress", "failed"} THEN "pending"
                                 ELSE status[t]]
  /\ UNCHANGED <<job, rowVars>>
ReconcileInterrupted ==
  /\ status' = [t \in Tasks |-> IF status[t] = "in_progress" THEN "pending"
                                                             ELSE status[t]]
  /\ UNCHANGED <<job, rowVars>>
=============================================================================
