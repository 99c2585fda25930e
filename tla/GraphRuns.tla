------------------------------ MODULE GraphRuns ------------------------------
(***************************************************************************)
(* The goroutines that execute graphs.  One is started per dispatch; it    *)
(* runs the task's graph (internal/graphexec/executor.go), writes the      *)
(* task's terminal status and then calls back into the service             *)
(* (internal/service): a decomposition bootstrap's output is turned into   *)
(* new tasks or a graph for its parent (decompose.go), any other outcome   *)
(* is sent to the operator's event channel (local_broadcast_jobs.go).      *)
(* Each step below holds one statement of the store, so the runs of a job  *)
(* interleave with each other, with the operator and with the user.        *)
(***************************************************************************)
EXTENDS TaskStore, Sequences

CONSTANTS MaxRuns,      \* bound: goroutines alive at once
          EventChSize,  \* capacity of the operator's event channel
          MaxKids,      \* bound: tasks in one decomposition result
          Links,        \* dependency shapes a decomposition may return
          Verdicts,     \* what a fine-decompose graph may answer
          RunsMayFail   \* whether graphs fail and dispatches are refused

ASSUME RunsAssumption == MaxRuns \in Nat \ {0} /\ EventChSize \in Nat /\ MaxKids \in Nat
ASSUME ChoicesAssumption ==
  /\ Links \subseteq {"none", "chain", "cycle"}
  /\ Verdicts \subseteq {"graph", "no_graph", "split", "nothing"}
  /\ RunsMayFail \in BOOLEAN

VARIABLES runs,        \* the goroutines, each with its request and its locals
          registered,  \* Executor.running: the run whose context CancelJob cancels
          queue,       \* eventCh
          starter      \* history: who last moved a task to in_progress

Runs == 1..MaxRuns
NoRun == 0

RunPC == {"idle", "spawned", "begun", "running", "failing", "completed", "failed",
          "report", "scan", "announce", "bootstrap", "gate", "assign",
          "create", "link", "ending"}
RunState ==
  [pc : RunPC,
   task : Tasks \cup {NoTask},  \* req.TaskID
   g : Graphs,                  \* req.GraphID
   ctxDone : BOOLEAN,           \* the run's context was cancelled
   next : BOOLEAN,              \* hasNextTask
   busy : BOOLEAN,              \* a sibling was in progress at the gate
   more : Nat,                  \* tasks of the result still to be created
   kids : SUBSET Tasks,         \* tasks created from the result
   todo : SUBSET Tasks,         \* tasks still to be offered to fine-decompose
   aim : Tasks \cup {NoTask}]   \* the one that was found ready, its bootstrap to be inserted

Idle == [pc |-> "idle", task |-> NoTask, g |-> "none", ctxDone |-> FALSE,
         next |-> FALSE, busy |-> FALSE, more |-> 0, kids |-> {}, todo |-> {},
         aim |-> NoTask]

Starters == {"nobody", "operator", "service"}

Event == [type : {"completed", "failed", "user"}, next : BOOLEAN]

RunsTypeOK ==
  /\ runs \in [Runs -> RunState]
  /\ registered \in [Tasks -> Runs \cup {NoRun}]
  /\ queue \in Seq(Event)
  /\ starter \in [Tasks -> Starters]

RunsInit ==
  /\ runs = [r \in Runs |-> Idle]
  /\ registered = [t \in Tasks |-> NoRun]
  /\ queue = <<>>
  /\ starter = [t \in Tasks |-> "nobody"]

-----------------------------------------------------------------------------
\* The goroutine the next go statement gets.
IsFreeRun(r) == runs[r].pc = "idle" /\ \A q \in 1..(r - 1) : runs[q].pc # "idle"

Request(t, g) == [Idle EXCEPT !.pc = "spawned", !.task = t, !.g = g]

\* go ExecuteTask(req): the statement before it made t in_progress.
Spawn(t, g, who) ==
  /\ \E r \in Runs : IsFreeRun(r) /\ runs' = [runs EXCEPT ![r] = Request(t, g)]
  /\ starter' = [starter EXCEPT ![t] = who]
  /\ UNCHANGED registered

At(r, pc) == runs[r].pc = pc
Goto(r, pc) == runs' = [runs EXCEPT ![r].pc = pc] /\ UNCHANGED registered
Parent(r) == target[runs[r].task]
Decomposes(r) == IsDecompositionGraph(runs[r].g)

\* ExecuteTask returns: endTask cancels whatever run is registered for the task.
Ended(r) ==
  [q \in Runs |-> IF q = r THEN Idle
                  ELSE IF q = registered[runs[r].task] THEN [runs[q] EXCEPT !.ctxDone = TRUE]
                  ELSE runs[q]]
EndTask(r) == registered' = [registered EXCEPT ![runs[r].task] = NoRun]
Return(r) == runs' = Ended(r) /\ EndTask(r)

\* A run that still has to write its task's terminal status.
Live(r) == runs[r].pc \in {"spawned", "begun", "running", "failing"}

-----------------------------------------------------------------------------
(* internal/graphexec/executor.go *)

BeginTask(r) ==
  /\ At(r, "spawned")
  /\ runs' = [runs EXCEPT ![r].pc = "begun"]
  /\ registered' = [registered EXCEPT ![runs[r].task] = r]
  /\ UNCHANGED <<storeVars, queue, starter>>

PrepareTask(r) ==
  /\ At(r, "begun")
  /\ Goto(r, "running")
  /\ UNCHANGED <<storeVars, queue, starter>>

\* A failed status is reported; a decomposition's failure fails the job first.
WriteFailed(r) ==
  /\ UpdateTaskStatus(runs[r].task, "failed")
  /\ Goto(r, IF Decomposes(r) THEN "failed" ELSE "report")
  /\ UNCHANGED <<queue, starter>>

\* failDispatch: no provider, no such graph, graph does not compile.
FailDispatch_Silent(r) ==
  RunsMayFail /\ At(r, "begun") /\ Return(r) /\ UNCHANGED <<storeVars, queue, starter>>
FailDispatch(r) == RunsMayFail /\ At(r, "begun") /\ WriteFailed(r)

\* Execute returns without an error, whether or not ctx was cancelled meanwhile.
ExecuteSucceeds(r) ==
  /\ At(r, "running")
  /\ UpdateTaskStatus(runs[r].task, "completed")
  /\ Goto(r, "completed")
  /\ UNCHANGED <<queue, starter>>

\* An error is a failure when ctx was not cancelled at that moment; the write follows.
ExecuteFails(r) ==
  /\ RunsMayFail /\ At(r, "running") /\ ~runs[r].ctxDone
  /\ Goto(r, "failing")
  /\ UNCHANGED <<storeVars, queue, starter>>

PersistFailure(r) == At(r, "failing") /\ WriteFailed(r)

\* The context was cancelled: the task is cancelled and nobody is told.
ExecuteCancelled_NotPersisted(r) ==
  /\ At(r, "running") /\ runs[r].ctxDone
  /\ Return(r)
  /\ UNCHANGED <<storeVars, queue, starter>>
ExecuteCancelled(r) ==
  /\ At(r, "running") /\ runs[r].ctxDone
  /\ UpdateTaskStatus(runs[r].task, "cancelled")
  /\ Return(r)
  /\ UNCHANGED <<queue, starter>>

\* hasNextTask, read after the status was written.
CheckHasNext(r) ==
  /\ At(r, "completed") /\ ~Decomposes(r)
  /\ runs' = [runs EXCEPT ![r].pc = "scan", ![r].next = (GetReadyTasks # {})]
  /\ UNCHANGED <<storeVars, registered, queue, starter>>

-----------------------------------------------------------------------------
(* internal/service/local_broadcast_jobs.go *)

\* dispatchFineDecomposeForReadyTasks: the list it then works through.
ScanReadyTasks(r) ==
  /\ At(r, "scan")
  /\ runs' = [runs EXCEPT ![r].pc = "announce",
                          ![r].todo = {t \in GetReadyTasks : graph[t] = "none"}]
  /\ UNCHANGED <<storeVars, registered, queue, starter>>

\* dispatchFineDecomposeForTask reads one task of the list, with what is ready at
\* that moment; below the cap it is to be decomposed.
WantsFineDecompose_Early(t) == depth[t] < MaxDecomposeDepth
WantsFineDecompose_PastCap(t) == t \in GetReadyTasks /\ depth[t] <= MaxDecomposeDepth
WantsFineDecompose(t) == t \in GetReadyTasks /\ depth[t] < MaxDecomposeDepth

CheckReadiness(r) ==
  /\ At(r, "announce")
  /\ \E t \in runs[r].todo :
       LET rest == [runs[r] EXCEPT !.todo = @ \ {t}] IN
       \/ /\ WantsFineDecompose(t)
          /\ runs' = [runs EXCEPT ![r] = [rest EXCEPT !.pc = "bootstrap", !.aim = t]]
       \/ /\ ~WantsFineDecompose(t)
          /\ runs' = [runs EXCEPT ![r] = rest]
  /\ UNCHANGED <<storeVars, registered, queue, starter>>

\* dispatchFineDecompose: the task gets a bootstrap b of its own, with its depth,
\* already in progress, whatever has become of the task since it was read.
CreateBootstrap(b, t) == CreateTask(b, "in_progress", "fine", t, depth[t])

DispatchFineDecompose(r) ==
  /\ At(r, "bootstrap")
  /\ \E b \in Tasks, q \in Runs :
       /\ IsFreeRun(q)
       /\ CreateBootstrap(b, runs[r].aim)
       /\ runs' = [runs EXCEPT ![r].pc = "announce", ![r].aim = NoTask,
                               ![q] = Request(b, "fine")]
       /\ starter' = [starter EXCEPT ![b] = "service"]
  /\ UNCHANGED <<registered, queue>>

\* op.Send gives up after five seconds when the channel stays full.
Send(ev) ==
  \/ Len(queue) < EventChSize /\ queue' = Append(queue, ev)
  \/ Len(queue) >= EventChSize /\ UNCHANGED queue

SendTaskCompleted(r) ==
  /\ At(r, "announce") /\ runs[r].todo = {} /\ ~Decomposes(r)
  /\ Send([type |-> "completed", next |-> runs[r].next])
  /\ Goto(r, "ending")
  /\ UNCHANGED <<storeVars, starter>>

\* A failed bootstrap leaves no tasks to run: the job is failed.
FailJob(r) ==
  /\ At(r, "failed")
  /\ UpdateJobStatus("failed")
  /\ Goto(r, "report")
  /\ UNCHANGED <<queue, starter>>

SendTaskFailed(r) ==
  /\ At(r, "report")
  /\ Send([type |-> "failed", next |-> FALSE])
  /\ Goto(r, "ending")
  /\ UNCHANGED <<storeVars, starter>>

\* The deferred endTask, after the event was sent.
ReturnAfterSend(r) ==
  /\ At(r, "ending")
  /\ Return(r)
  /\ UNCHANGED <<storeVars, queue, starter>>

-----------------------------------------------------------------------------
(* internal/service/decompose.go: consumeDecompositionOutput *)

CreateKids(r) ==
  /\ \E n \in 1..MaxKids : runs' = [runs EXCEPT ![r].pc = "create", ![r].more = n]
  /\ UNCHANGED registered

\* applyCoarseResult with no task, or a malformed result, does nothing.
ApplyCoarseResult(r) ==
  /\ At(r, "completed") /\ runs[r].g = "coarse"
  /\ CreateKids(r) \/ ("nothing" \in Verdicts /\ Return(r))
  /\ UNCHANGED <<storeVars, queue, starter>>

ApplyFineGraph(r) ==
  /\ At(r, "completed") /\ runs[r].g = "fine" /\ "graph" \in Verdicts
  /\ Goto(r, "gate")
  /\ UNCHANGED <<storeVars, queue, starter>>

\* handleNoGraphFit: the parent fails and the operator is not told.
HandleNoGraphFit(r) ==
  /\ At(r, "completed") /\ runs[r].g = "fine" /\ "no_graph" \in Verdicts
  /\ UpdateTaskStatus(Parent(r), "failed")
  /\ Return(r)
  /\ UNCHANGED <<queue, starter>>

\* replaceParentWithSubtasks: the parent is completed before a subtask exists.
SplitParent(r) ==
  /\ At(r, "completed") /\ runs[r].g = "fine" /\ "split" \in Verdicts
  /\ UpdateTaskStatus(Parent(r), "completed")
  /\ CreateKids(r)
  /\ UNCHANGED <<queue, starter>>

\* Neither a graph nor subtasks, or a malformed result: logged only.
IgnoreFineResult(r) ==
  /\ At(r, "completed") /\ runs[r].g = "fine" /\ "nothing" \in Verdicts
  /\ Return(r)
  /\ UNCHANGED <<storeVars, queue, starter>>

KidDepth(r) == IF runs[r].g = "fine" THEN depth[Parent(r)] + 1 ELSE 0

CreateKid(r) ==
  /\ At(r, "create")
  /\ \E t \in Tasks :
       /\ CreateTask(t, "pending", "none", NoTask, KidDepth(r))
       /\ runs' = [runs EXCEPT ![r].kids = @ \cup {t}, ![r].more = @ - 1,
                               ![r].pc = IF runs[r].more = 1 THEN "link" ELSE "create"]
  /\ UNCHANGED <<registered, queue, starter>>

\* depends_on indexes: only out-of-range ones are dropped, cycles are kept.
Edges(kids, shape) ==
  CASE shape = "none"  -> {}
    [] shape = "chain" -> {e \in kids \X kids : e[2] < e[1]}
    [] shape = "cycle" -> kids \X kids

LinkKids(r) ==
  /\ At(r, "link")
  /\ \E shape \in Links : AddTaskDependencies(Edges(runs[r].kids, shape))
  /\ runs' = [runs EXCEPT ![r].pc = "announce", ![r].todo = runs[r].kids]
  /\ UNCHANGED <<registered, queue, starter>>

\* After the last BroadcastTaskCreated.
FinishDecomposition(r) ==
  /\ At(r, "announce") /\ runs[r].todo = {} /\ Decomposes(r)
  /\ Return(r)
  /\ UNCHANGED <<storeVars, queue, starter>>

\* assignGraphToParent, the sibling list: bootstraps do not hold the gate here.
ReadServiceGate(r) ==
  /\ At(r, "gate")
  /\ runs' = [runs EXCEPT ![r].pc = "assign",
                ![r].busy = \E t \in InProgress \ {Parent(r)} :
                                ~IsDecompositionGraph(graph[t])]
  /\ UNCHANGED <<storeVars, registered, queue, starter>>

\* The write the gate decided on.  The callback ends here; its slot is the
\* goroutine that runs the parent.
AssignGraphToParent(r) ==
  /\ At(r, "assign") /\ ~runs[r].busy
  /\ \/ /\ AssignTaskToGraph(Parent(r), "work")
        /\ runs' = [Ended(r) EXCEPT ![r] = Request(Parent(r), "work")]
        /\ EndTask(r)
        /\ starter' = [starter EXCEPT ![Parent(r)] = "service"]
     \/ /\ status[Parent(r)] # "pending"
        /\ Return(r)
        /\ UNCHANGED <<storeVars, starter>>
  /\ UNCHANGED queue

PreAssignParent(r) ==
  /\ At(r, "assign") /\ runs[r].busy
  /\ \/ PreAssignTaskGraph(Parent(r), "work")
     \/ status[Parent(r)] # "pending" /\ UNCHANGED storeVars
  /\ Return(r)
  /\ UNCHANGED <<queue, starter>>

-----------------------------------------------------------------------------
RunStep(r) ==
  \/ BeginTask(r) \/ PrepareTask(r) \/ FailDispatch(r)
  \/ ExecuteSucceeds(r) \/ ExecuteFails(r) \/ PersistFailure(r) \/ ExecuteCancelled(r)
  \/ CheckHasNext(r) \/ ScanReadyTasks(r)
  \/ CheckReadiness(r) \/ DispatchFineDecompose(r)
  \/ SendTaskCompleted(r) \/ FailJob(r) \/ SendTaskFailed(r) \/ ReturnAfterSend(r)
  \/ ApplyCoarseResult(r) \/ ApplyFineGraph(r) \/ HandleNoGraphFit(r)
  \/ SplitParent(r) \/ IgnoreFineResult(r)
  \/ CreateKid(r) \/ LinkKids(r) \/ FinishDecomposition(r)
  \/ ReadServiceGate(r) \/ AssignGraphToParent(r) \/ PreAssignParent(r)
=============================================================================
