---------------------- MODULE JobPipelineSafetyProofs ----------------------
(***************************************************************************)
(* The safety of JobPipeline between runs, operator, user and crashes, from *)
(* the invariant of JobPipelineProofs: no task is stranded in progress, the *)
(* operator runs one task at a time, and every statement any handler makes  *)
(* is a step of one task's life in TaskLifecycle, or the restart.  Then     *)
(* what holds as long as nobody interferes with a job's plan: tasks start   *)
(* after their dependencies, each has one run, and no work of a job is left *)
(* or starts once the job is completed.                                     *)
(***************************************************************************)
EXTENDS JobPipelineProofs

-----------------------------------------------------------------------------
(* Statements, seen from the set of tasks in progress. *)

LEMMA UpdateTaskStatusProgress ==
  ASSUME StoreOK, NEW t \in Tasks, NEW st \in TerminalTask, UpdateTaskStatus(t, st)
  PROVE  InProgress' = InProgress \ {t}
BY DEF UpdateTaskStatus, InProgress, StoreOK, StoreTypeOK, TerminalTask

LEMMA CreateTaskProgress ==
  ASSUME StoreOK, NEW t \in Tasks, NEW st, NEW g, NEW p, NEW d, CreateTask(t, st, g, p, d)
  PROVE  InProgress' \subseteq InProgress \cup (IF st = "in_progress" THEN {t} ELSE {})
BY DEF CreateTask, InProgress, StoreOK, StoreTypeOK

LEMMA DispatchProgress ==
  ASSUME StoreOK, NEW t \in Tasks, NEW g, AssignTaskToGraph(t, g) \/ RetryTask(t, g)
  PROVE  InProgress' = InProgress \cup {t}
BY DEF AssignTaskToGraph, RetryTask, InProgress, StoreOK, StoreTypeOK

\* Every other statement starts nothing.
LEMMA OtherProgress ==
  ASSUME StoreOK,
         \/ UNCHANGED storeVars
         \/ \E st \in JobStatus : UpdateJobStatus(st)
         \/ \E t \in Tasks, g \in Graphs : PreAssignTaskGraph(t, g)
         \/ \E e \in SUBSET (Tasks \X Tasks) : AddTaskDependencies(e)
  PROVE  InProgress' = InProgress
BY DEF UpdateJobStatus, PreAssignTaskGraph, AddTaskDependencies, storeVars, InProgress

-----------------------------------------------------------------------------
(* InProgressIsOwned. *)

\* A run keeps its duty to write the status of its task.
StaysLive(q) == Live(q) => Live(q)' /\ runs'[q].task = runs[q].task

\* Nothing starts, and the run that moves gives up its task only as it ends it.
LEMMA OwnedQuietLemma ==
  ASSUME InProgressIsOwned, InProgress' \subseteq InProgress,
         \A q \in Runs : StaysLive(q) \/ runs[q].task \notin InProgress'
  PROVE  InProgressIsOwned'
BY DEF InProgressIsOwned, StaysLive, InProgress

\* One task starts, with a run of its own.
LEMMA OwnedStartLemma ==
  ASSUME InProgressIsOwned, NEW t \in Tasks, NEW r \in Runs,
         InProgress' \subseteq InProgress \cup {t},
         \A q \in Runs : StaysLive(q), Live(r)', runs'[r].task = t
  PROVE  InProgressIsOwned'
BY DEF InProgressIsOwned, StaysLive, InProgress

LEMMA SpawnLive ==
  ASSUME IInv, NEW t \in Tasks, NEW g \in Graphs, NEW who, Spawn(t, g, who)
  PROVE  /\ \A q \in Runs : StaysLive(q)
         /\ \E r \in Runs : Live(r)' /\ runs'[r].task = t
<1>1. PICK r \in Runs : runs[r].pc = "idle" /\ runs' = [runs EXCEPT ![r] = Request(t, g)]
  BY DEF Spawn, IsFreeRun
<1>2. Live(r)' /\ runs'[r].task = t
  BY <1>1, RequestLemma DEF IInv, RunsOK, Live
<1>3. ASSUME NEW q \in Runs PROVE StaysLive(q)
  BY <1>1 DEF StaysLive, Live, IInv, RunsOK
<1>. QED BY <1>2, <1>3

\* What a goroutine does to the others, at most: cancel a context.
LEMMA OthersStayLive ==
  ASSUME IInv, NEW r \in Runs, Return(r) \/ \E pc \in RunPC : Goto(r, pc), runs[r].pc # "idle"
  PROVE  \A q \in Runs \ {r} : StaysLive(q)
<1>1. CASE Return(r)
  BY <1>1, EndedLemma DEF StaysLive, Live, Return, IInv
<1>2. CASE \E pc \in RunPC : Goto(r, pc)
  BY <1>2 DEF Goto, StaysLive, Live, IInv, RunsOK
<1>. QED BY <1>1, <1>2

\* The executor ends the task before it lets go of it.
LEMMA OwnedExecutorLemma ==
  ASSUME IInv, InProgressIsOwned, NEW r \in Runs,
         \/ BeginTask(r) \/ PrepareTask(r) \/ FailDispatch(r) \/ ExecuteSucceeds(r)
         \/ ExecuteFails(r) \/ PersistFailure(r) \/ ExecuteCancelled(r)
  PROVE  InProgressIsOwned'
<1>. USE DEF IInv
<1>0. runs[r].pc # "idle" /\ runs[r].task \in Tasks
  BY RunTaskLemma DEF BeginTask, PrepareTask, FailDispatch, WriteFailed, ExecuteSucceeds,
                      ExecuteFails, PersistFailure, ExecuteCancelled, At
<1>1. CASE BeginTask(r) \/ PrepareTask(r) \/ ExecuteFails(r)
  <2>1. InProgress' = InProgress
    BY <1>1, OtherProgress DEF BeginTask, PrepareTask, ExecuteFails
  <2>2. \A q \in Runs : StaysLive(q)
    BY <1>1 DEF BeginTask, PrepareTask, ExecuteFails, Goto, StaysLive, Live, RunsOK, RunState
  <2>. QED BY <2>1, <2>2, OwnedQuietLemma
<1>2. CASE FailDispatch(r) \/ PersistFailure(r) \/ ExecuteSucceeds(r) \/ ExecuteCancelled(r)
  <2>1. \E st \in TerminalTask : UpdateTaskStatus(runs[r].task, st)
    BY <1>2 DEF FailDispatch, PersistFailure, WriteFailed, ExecuteSucceeds, ExecuteCancelled,
                TerminalTask
  <2>2. InProgress' = InProgress \ {runs[r].task}
    BY <1>0, <2>1, UpdateTaskStatusProgress
  <2>3. Return(r) \/ \E pc \in RunPC : Goto(r, pc)
    BY <1>2 DEF FailDispatch, PersistFailure, WriteFailed, ExecuteSucceeds, ExecuteCancelled,
                RunPC
  <2>. QED BY <1>0, <2>2, <2>3, OthersStayLive, OwnedQuietLemma
<1>. QED BY <1>1, <1>2

\* The callbacks start nothing but bootstraps and the parents they assign.
LEMMA OwnedCallbackLemma ==
  ASSUME IInv, InProgressIsOwned, NEW r \in Runs,
         \/ CheckHasNext(r) \/ ScanReadyTasks(r) \/ SendTaskCompleted(r) \/ FailJob(r)
         \/ SendTaskFailed(r) \/ ReturnAfterSend(r)
         \/ ApplyCoarseResult(r) \/ ApplyFineGraph(r) \/ HandleNoGraphFit(r)
         \/ SplitParent(r) \/ IgnoreFineResult(r) \/ CreateKid(r) \/ LinkKids(r)
         \/ FinishDecomposition(r) \/ ReadServiceGate(r) \/ PreAssignParent(r)
  PROVE  InProgressIsOwned'
<1>. USE DEF IInv
<1>0. runs[r].pc # "idle" /\ ~Live(r)
  BY DEF CheckHasNext, ScanReadyTasks, SendTaskCompleted, FailJob, SendTaskFailed,
         ReturnAfterSend, ApplyCoarseResult, ApplyFineGraph, HandleNoGraphFit, SplitParent,
         IgnoreFineResult, CreateKid, LinkKids, FinishDecomposition, ReadServiceGate,
         PreAssignParent, At, Live
<1>1. \A q \in Runs : StaysLive(q)
  <2>1. CASE \/ SendTaskCompleted(r) \/ FailJob(r) \/ SendTaskFailed(r) \/ ReturnAfterSend(r)
             \/ ApplyFineGraph(r) \/ HandleNoGraphFit(r) \/ IgnoreFineResult(r)
             \/ FinishDecomposition(r) \/ PreAssignParent(r)
    <3>1. Return(r) \/ \E pc \in RunPC : Goto(r, pc)
      BY <2>1 DEF SendTaskCompleted, FailJob, SendTaskFailed, ReturnAfterSend, ApplyFineGraph,
                  HandleNoGraphFit, IgnoreFineResult, FinishDecomposition, PreAssignParent, RunPC
    <3>2. \A q \in Runs \ {r} : StaysLive(q)
      BY <1>0, <3>1, OthersStayLive
    <3>. QED BY <1>0, <3>2 DEF StaysLive
  <2>2. CASE ApplyCoarseResult(r) \/ SplitParent(r)
    <3>1. CASE CreateKids(r)
      BY <1>0, <3>1 DEF CreateKids, StaysLive, Live, RunsOK
    <3>2. CASE Return(r)
      BY <1>0, <3>2, OthersStayLive DEF StaysLive
    <3>. QED BY <2>2, <3>1, <3>2 DEF ApplyCoarseResult, SplitParent
  <2>3. CASE CheckHasNext(r) \/ ScanReadyTasks(r) \/ LinkKids(r) \/ ReadServiceGate(r)
    BY <1>0, <2>3 DEF CheckHasNext, ScanReadyTasks, LinkKids, ReadServiceGate, StaysLive, Live,
                      RunsOK
  <2>4. CASE CreateKid(r)
    BY <1>0, <2>4 DEF CreateKid, StaysLive, Live, RunsOK
  <2>. QED BY <2>1, <2>2, <2>3, <2>4
<1>2. InProgress' \subseteq InProgress
  <2>1. CASE \/ CheckHasNext(r) \/ ScanReadyTasks(r) \/ SendTaskCompleted(r) \/ FailJob(r)
             \/ SendTaskFailed(r) \/ ReturnAfterSend(r) \/ ApplyCoarseResult(r)
             \/ ApplyFineGraph(r) \/ IgnoreFineResult(r) \/ FinishDecomposition(r)
             \/ ReadServiceGate(r)
    BY <2>1, OtherProgress DEF CheckHasNext, ScanReadyTasks, SendTaskCompleted, FailJob,
            SendTaskFailed, ReturnAfterSend, ApplyCoarseResult, ApplyFineGraph,
            IgnoreFineResult, FinishDecomposition, ReadServiceGate, JobStatus
  <2>2. CASE HandleNoGraphFit(r) \/ SplitParent(r)
    <3>1. Parent(r) \in Tasks
      BY <1>0, <2>2, RunTaskLemma DEF HandleNoGraphFit, SplitParent
    <3>2. \E st \in TerminalTask : UpdateTaskStatus(Parent(r), st)
      BY <2>2 DEF HandleNoGraphFit, SplitParent, TerminalTask
    <3>. QED BY <3>1, <3>2, UpdateTaskStatusProgress
  <2>3. CASE CreateKid(r)
    <3>1. PICK t \in Tasks : CreateTask(t, "pending", "none", NoTask, KidDepth(r))
      BY <2>3 DEF CreateKid
    <3>. QED BY <3>1 DEF CreateTask, InProgress, StoreOK, StoreTypeOK
  <2>4. CASE LinkKids(r)
    <3>1. PICK shape \in Links : AddTaskDependencies(Edges(runs[r].kids, shape))
      BY <2>4 DEF LinkKids
    <3>2. UNCHANGED status
      BY <3>1 DEF AddTaskDependencies
    <3>. QED BY <3>2 DEF InProgress
  <2>5. CASE PreAssignParent(r)
    BY <2>5 DEF PreAssignParent, PreAssignTaskGraph, storeVars, InProgress
  <2>. QED BY <2>1, <2>2, <2>3, <2>4, <2>5
<1>. QED BY <1>1, <1>2, OwnedQuietLemma

\* The two halves of a fine decomposition's dispatch, seen from the runs.
LEMMA CheckReadinessMoves ==
  ASSUME IInv, NEW r \in Runs, CheckReadiness(r)
  PROVE  /\ UNCHANGED <<storeVars, registered, queue, starter>>
         /\ runs[r].pc = "announce" /\ runs'[r].pc \in {"announce", "bootstrap"}
         /\ \A q \in Runs \ {r} : runs'[q] = runs[q]
         /\ \A q \in Runs : /\ runs'[q].task = runs[q].task /\ runs'[q].g = runs[q].g
                           /\ runs'[q].kids = runs[q].kids
         /\ runs'[r].pc = "bootstrap" => WantsFineDecompose(runs'[r].aim)
<1>. USE DEF IInv
<1>1. runs[r].pc = "announce" /\ UNCHANGED <<storeVars, registered, queue, starter>>
      /\ runs[r] \in RunState
  BY DEF CheckReadiness, At, RunsOK
<1>2. PICK t \in runs[r].todo :
        LET rest == [runs[r] EXCEPT !.todo = @ \ {t}] IN
        \/ /\ WantsFineDecompose(t)
           /\ runs' = [runs EXCEPT ![r] = [rest EXCEPT !.pc = "bootstrap", !.aim = t]]
        \/ /\ ~WantsFineDecompose(t)
           /\ runs' = [runs EXCEPT ![r] = rest]
  BY DEF CheckReadiness
<1>. DEFINE x == [runs[r] EXCEPT !.todo = @ \ {t}]
            y == [x EXCEPT !.pc = "bootstrap", !.aim = t]
<1>3. /\ x.pc = "announce" /\ x.task = runs[r].task /\ x.g = runs[r].g
      /\ x.kids = runs[r].kids
  BY <1>1 DEF RunState
<1>4. /\ y.pc = "bootstrap" /\ y.task = runs[r].task /\ y.g = runs[r].g
      /\ y.kids = runs[r].kids /\ y.aim = t
  BY <1>1 DEF RunState
<1>5. \/ WantsFineDecompose(t) /\ runs' = [runs EXCEPT ![r] = y]
      \/ runs' = [runs EXCEPT ![r] = x]
  BY <1>2
<1>. HIDE DEF x, y
<1>. QED BY <1>1, <1>3, <1>4, <1>5 DEF RunsOK

LEMMA BootstrapMoves ==
  ASSUME IInv, NEW r \in Runs, DispatchFineDecompose(r)
  PROVE  /\ runs[r].pc = "bootstrap" /\ runs[r].aim \in Tasks /\ UNCHANGED queue
         /\ \E b \in Tasks, q \in Runs :
              /\ CreateBootstrap(b, runs[r].aim) /\ starter' = [starter EXCEPT ![b] = "service"]
              /\ runs[q].pc = "idle" /\ runs'[q] = Request(b, "fine") /\ q # r
              /\ \A p \in Runs \ {q} :
                   /\ p # r => runs'[p] = runs[p]
                   /\ p = r => runs'[p].pc = "announce"
                   /\ runs'[p].task = runs[p].task /\ runs'[p].g = runs[p].g
                   /\ runs'[p].kids = runs[p].kids
<1>. USE DEF IInv
<1>1. runs[r].pc = "bootstrap" /\ runs[r].aim \in Tasks /\ UNCHANGED queue
  BY DEF DispatchFineDecompose, At, RunsOK, RunOK, MayDecompose, Rows
<1>2. PICK b \in Tasks, q \in Runs :
        /\ IsFreeRun(q)
        /\ CreateBootstrap(b, runs[r].aim)
        /\ runs' = [runs EXCEPT ![r].pc = "announce", ![r].aim = NoTask,
                                ![q] = Request(b, "fine")]
        /\ starter' = [starter EXCEPT ![b] = "service"]
  BY DEF DispatchFineDecompose
<1>3. runs[q].pc = "idle" /\ q # r
  BY <1>1, <1>2 DEF IsFreeRun
<1>4. /\ runs'[q] = Request(b, "fine")
      /\ \A p \in Runs \ {q} : /\ p # r => runs'[p] = runs[p]
                               /\ p = r => runs'[p].pc = "announce"
                               /\ runs'[p].task = runs[p].task /\ runs'[p].g = runs[p].g
                               /\ runs'[p].kids = runs[p].kids
  BY <1>2, <1>3 DEF RunsOK, RunState
<1>. QED BY <1>1, <1>2, <1>3, <1>4

LEMMA OwnedDispatchFineDecompose ==
  ASSUME IInv, InProgressIsOwned, NEW r \in Runs, CheckReadiness(r) \/ DispatchFineDecompose(r)
  PROVE  InProgressIsOwned'
<1>1. CASE CheckReadiness(r)
  <2>1. InProgress' = InProgress
    BY <1>1, CheckReadinessMoves DEF InProgress, storeVars
  <2>2. \A p \in Runs : StaysLive(p)
    BY <1>1, CheckReadinessMoves DEF StaysLive, Live
  <2>. QED BY <2>1, <2>2, OwnedQuietLemma
<1>2. CASE DispatchFineDecompose(r)
  <2>1. PICK b \in Tasks, q \in Runs :
          /\ CreateBootstrap(b, runs[r].aim)
          /\ runs[q].pc = "idle" /\ runs'[q] = Request(b, "fine")
          /\ \A p \in Runs \ {q} : /\ p # r => runs'[p] = runs[p]
                                   /\ runs'[p].task = runs[p].task
    BY <1>2, BootstrapMoves
  <2>2. Live(q)' /\ runs'[q].task = b
    BY <2>1, RequestLemma DEF Live, Graphs
  <2>3. runs[r].pc = "bootstrap"
    BY <1>2, BootstrapMoves
  <2>4. \A p \in Runs : StaysLive(p)
    BY <2>1, <2>3 DEF StaysLive, Live
  <2>5. InProgress' \subseteq InProgress \cup {b}
    BY <2>1, CreateTaskProgress DEF CreateBootstrap, IInv
  <2>. QED BY <2>2, <2>4, <2>5, OwnedStartLemma
<1>. QED BY <1>1, <1>2

LEMMA OwnedAssignGraphToParent ==
  ASSUME IInv, InProgressIsOwned, NEW r \in Runs, AssignGraphToParent(r)
  PROVE  InProgressIsOwned'
<1>. USE DEF IInv
<1>0. runs[r].pc # "idle" /\ ~Live(r) /\ Parent(r) \in Tasks
  <2>1. runs[r].pc = "assign" /\ runs[r].g = "fine"
    BY DEF AssignGraphToParent, At, RunsOK, RunOK
  <2>. QED BY <2>1, RunTaskLemma DEF Live
<1>1. CASE Return(r) /\ UNCHANGED storeVars
  BY <1>0, <1>1, OtherProgress, OthersStayLive, OwnedQuietLemma DEF StaysLive
<1>2. CASE /\ AssignTaskToGraph(Parent(r), "work")
           /\ runs' = [Ended(r) EXCEPT ![r] = Request(Parent(r), "work")]
  <2>. PICK t \in Tasks : t = Parent(r)
    BY <1>0
  <2>1. runs'[r] = Request(t, "work") /\ \A q \in Runs \ {r} : runs'[q] = Ended(r)[q]
    BY <1>0, <1>2, EndedLemma
  <2>2. Live(r)' /\ runs'[r].task = t
    BY <2>1, RequestLemma DEF Live, Graphs
  <2>3. \A q \in Runs : StaysLive(q)
    BY <1>0, <2>1, EndedLemma DEF StaysLive, Live
  <2>4. InProgress' \subseteq InProgress \cup {t}
    BY <1>2, DispatchProgress
  <2>. QED BY <2>2, <2>3, <2>4, OwnedStartLemma
<1>. QED BY <1>1, <1>2 DEF AssignGraphToParent

LEMMA OwnedRunLemma ==
  ASSUME IInv, InProgressIsOwned, NEW r \in Runs, Run(r)
  PROVE  InProgressIsOwned'
BY OwnedExecutorLemma, OwnedCallbackLemma, OwnedDispatchFineDecompose, OwnedAssignGraphToParent
   DEF Run, RunStep

\* The loop, the tools and a client's retry start a task together with its run.
LEMMA OwnedSpawnLemma ==
  ASSUME IInv, InProgressIsOwned, NEW t \in Tasks, NEW g \in Graphs, NEW who,
         Spawn(t, g, who), InProgress' \subseteq InProgress \cup {t}
  PROVE  InProgressIsOwned'
BY SpawnLive, OwnedStartLemma

\* No statement and no goroutine moves.
LEMMA OwnedStillLemma ==
  ASSUME InProgressIsOwned, UNCHANGED <<status, runs>>
  PROVE  InProgressIsOwned'
BY DEF InProgressIsOwned, InProgress, Live

LEMMA OwnedLoopLemma ==
  ASSUME IInv, InProgressIsOwned, Loop \/ Model
  PROVE  InProgressIsOwned'
<1>. USE DEF IInv
<1>1. CASE \/ TakeEvent \/ EndTurn \/ CheckJobComplete \/ CompleteJob \/ AssignNextTask
           \/ ReadOperatorGate \/ QueueGraphTask \/ PromoteJob \/ RecoverInterrupted
           \/ CreateJob \/ CreateTaskTool \/ RetryTaskTool \/ SetupWorkspace \/ AnnounceTask
  <2>1. UNCHANGED <<status, runs>>
    BY <1>1 DEF AnnounceTask, TakeEvent, EndTurn, CheckJobComplete, CompleteJob, AssignNextTask,
         ReadOperatorGate, QueueGraphTask, PromoteJob, RecoverInterrupted, CreateJob,
         CreateTaskTool, RetryTaskTool, SetupWorkspace, UpdateJobStatus, PreAssignTaskGraph,
         storeVars, runVars
  <2>. QED BY <2>1, OwnedStillLemma
<1>2. CASE DispatchGraphTask \/ RetryDispatch
  <2>1. op.task \in Tasks /\ op.g \in Graphs
    BY <1>2 DEF DispatchGraphTask, RetryDispatch, OpAt, OpOK, Rows, OpTypeOK, OpState
  <2>. PICK t \in Tasks, g \in Graphs : t = op.task /\ g = op.g
    BY <2>1
  <2>2. CASE Spawn(t, g, "operator") /\ (AssignTaskToGraph(t, g) \/ RetryTask(t, g))
    BY <2>2, DispatchProgress, OwnedSpawnLemma
  <2>3. CASE UNCHANGED <<storeVars, runs>>
    BY <2>3, OwnedStillLemma DEF storeVars
  <2>. QED BY <1>2, <2>2, <2>3 DEF DispatchGraphTask, RetryDispatch
<1>3. CASE InsertTask
  <2>1. PICK t \in Tasks : CreateTask(t, "pending", "none", NoTask, 0)
    BY <1>3 DEF InsertTask
  <2>2. InProgress' \subseteq InProgress
    BY <2>1 DEF CreateTask, InProgress, StoreOK, StoreTypeOK
  <2>. QED BY <1>3, <2>2, OwnedQuietLemma DEF InsertTask, runVars, StaysLive, Live
<1>4. CASE DispatchCoarseDecompose
  BY <1>4, CreateTaskProgress, OwnedSpawnLemma DEF DispatchCoarseDecompose, Graphs
<1>5. CASE DecomposeTask
  BY <1>5, CreateTaskProgress, OwnedSpawnLemma DEF DecomposeTask, CreateBootstrap, Graphs
<1>. QED BY <1>1, <1>2, <1>3, <1>4, <1>5 DEF Loop, LoopStep, Model, ModelStep

LEMMA OwnedOutsideLemma ==
  ASSUME IInv, InProgressIsOwned,
         UserMessage \/ UserRetry \/ CancelCheck \/ CancelStep \/ CrashAndRestart
  PROVE  InProgressIsOwned'
<1>. USE DEF IInv
<1>1. CASE UserMessage \/ CancelCheck \/ CancelFlip \/ CancelList
  BY <1>1, OwnedStillLemma DEF UserMessage, CancelCheck, CancelFlip, CancelList,
       UpdateJobStatus, storeVars, runVars
<1>2. CASE UserRetry
  <2>. PICK t \in Tasks : RetryTask(t, graph[t]) /\ Spawn(t, graph[t], "service")
    BY <1>2 DEF UserRetry
  <2>. PICK g \in Graphs : g = graph[t]
    BY DEF StoreOK, StoreTypeOK
  <2>1. RetryTask(t, g) /\ Spawn(t, g, "service")
    OBVIOUS
  <2>. QED BY <2>1, DispatchProgress, OwnedSpawnLemma
<1>3. CASE CancelRuns
  <2>1. \A q \in Runs : StaysLive(q)
    <3>. SUFFICES ASSUME NEW q \in Runs PROVE StaysLive(q)
      OBVIOUS
    <3>1. runs[q] \in RunState
      BY DEF RunsOK
    <3>2. runs'[q] = runs[q] \/ runs'[q] = [runs[q] EXCEPT !.ctxDone = TRUE]
      BY <1>3 DEF CancelRuns
    <3>. QED BY <3>1, <3>2 DEF StaysLive, Live, RunState
  <2>2. InProgress' = InProgress
    BY <1>3, OtherProgress DEF CancelRuns
  <2>. QED BY <2>1, <2>2, OwnedQuietLemma
<1>4. CASE CancelSweep
  <2>1. \A q \in Runs : StaysLive(q)
    BY <1>4 DEF CancelSweep, runVars, StaysLive, Live
  <2>2. cancel.todo \subseteq Tasks
    BY DEF CancelState
  <2>3. InProgress' \subseteq InProgress
    BY <1>4, <2>2, UpdateTaskStatusProgress, OtherProgress DEF CancelSweep, TerminalTask
  <2>. QED BY <2>1, <2>3, OwnedQuietLemma
<1>5. CASE CrashAndRestart
  <2>1. InProgress' = {}
    BY <1>5 DEF CrashAndRestart, ReconcileInterrupted, InProgress
  <2>. QED BY <2>1 DEF InProgressIsOwned
<1>. QED BY <1>1, <1>2, <1>3, <1>4, <1>5 DEF CancelStep

\* No task is stranded in progress: whatever sequence of dispatches, refusals,
\* failures, cancels, retries and restarts made it so, some goroutine still has to
\* write its terminal status (ExecuteTask, failDispatch, Cancel, ReconcileInterrupted).
THEOREM NothingStranded == Spec => []InProgressIsOwned
<1>1. Init => InProgressIsOwned
  BY DEF Init, StoreInit, InProgressIsOwned, InProgress
<1>2. IInv /\ InProgressIsOwned /\ [Next]_vars => InProgressIsOwned'
  <2>. SUFFICES ASSUME IInv, InProgressIsOwned, [Next]_vars PROVE InProgressIsOwned'
    OBVIOUS
  <2>1. CASE UNCHANGED vars
    BY <2>1, OwnedStillLemma DEF vars, storeVars
  <2>. QED BY <2>1, OwnedRunLemma, OwnedLoopLemma, OwnedOutsideLemma DEF Next
<1>. QED BY <1>1, <1>2, Invariance, PTL DEF Spec

-----------------------------------------------------------------------------
(* OperatorRunsSerially. *)

OpStarted == {t \in InProgress : starter[t] = "operator"}

\* Between the sibling list and the write, no task of the operator is in progress:
\* what the loop does next is that write, and nobody else starts in its name.
GateHolds ==
  (OpAt("dispatch") /\ ~op.busy) \/ OpAt("retry") => OpStarted \subseteq {op.task}

SerialInv == GateHolds /\ OperatorRunsSerially

\* A step in which nothing starts in the operator's name, and the loop stays or rests.
LEMMA SerialQuietLemma ==
  ASSUME SerialInv, OpStarted' \subseteq OpStarted,
         UNCHANGED op \/ ~(OpAt("dispatch") \/ OpAt("retry"))'
  PROVE  SerialInv'
BY DEF SerialInv, GateHolds, OperatorRunsSerially, OpStarted, OpAt, InProgress

\* Rows that are not started keep their starter; those the service starts get its name.
LEMMA ServiceStartLemma ==
  ASSUME IInv, NEW t \in Tasks, InProgress' \subseteq InProgress \cup {t},
         starter' = [starter EXCEPT ![t] = "service"]
  PROVE  OpStarted' \subseteq OpStarted
BY DEF IInv, RunsTypeOK, OpStarted, InProgress, Starters

LEMMA NoStartLemma ==
  ASSUME InProgress' \subseteq InProgress, UNCHANGED starter
  PROVE  OpStarted' \subseteq OpStarted
BY DEF OpStarted, InProgress

LEMMA SerialRunLemma ==
  ASSUME IInv, NEW r \in Runs, RunStep(r)
  PROVE  OpStarted' \subseteq OpStarted
<1>. USE DEF IInv
<1>1. CASE DispatchFineDecompose(r)
  <2>1. PICK b \in Tasks : /\ CreateBootstrap(b, runs[r].aim)
                           /\ starter' = [starter EXCEPT ![b] = "service"]
    BY <1>1 DEF DispatchFineDecompose
  <2>. QED BY <2>1, CreateTaskProgress, ServiceStartLemma DEF CreateBootstrap
<1>2. CASE AssignGraphToParent(r)
  <2>0. Parent(r) \in Tasks
    BY <1>2, RunTaskLemma DEF AssignGraphToParent, At, RunsOK, RunOK
  <2>. PICK t \in Tasks : t = Parent(r)
    BY <2>0
  <2>1. CASE AssignTaskToGraph(t, "work") /\ starter' = [starter EXCEPT ![t] = "service"]
    BY <2>1, DispatchProgress, ServiceStartLemma
  <2>2. CASE UNCHANGED <<storeVars, starter>>
    BY <2>2, NoStartLemma DEF storeVars, InProgress
  <2>. QED BY <1>2, <2>1, <2>2 DEF AssignGraphToParent
<1>3. CASE UNCHANGED <<status, starter>>
  BY <1>3, NoStartLemma DEF InProgress
<1>4. CASE UNCHANGED starter /\ \E t \in Tasks, st \in TerminalTask : UpdateTaskStatus(t, st)
  BY <1>4, UpdateTaskStatusProgress, NoStartLemma
<1>5. CASE CreateKid(r)
  <2>1. PICK t \in Tasks : CreateTask(t, "pending", "none", NoTask, KidDepth(r))
    BY <1>5 DEF CreateKid
  <2>2. InProgress' \subseteq InProgress
    BY <2>1 DEF CreateTask, InProgress, StoreOK, StoreTypeOK
  <2>. QED BY <1>5, <2>2, NoStartLemma DEF CreateKid
<1>6. CASE \/ FailDispatch(r) \/ PersistFailure(r) \/ ExecuteSucceeds(r) \/ ExecuteCancelled(r)
  <2>1. runs[r].task \in Tasks /\ UNCHANGED starter
        /\ \E st \in TerminalTask : UpdateTaskStatus(runs[r].task, st)
    BY <1>6, RunTaskLemma DEF FailDispatch, PersistFailure, WriteFailed, ExecuteSucceeds,
       ExecuteCancelled, TerminalTask, At
  <2>. QED BY <1>4, <2>1
<1>7. CASE HandleNoGraphFit(r) \/ SplitParent(r)
  <2>1. Parent(r) \in Tasks /\ UNCHANGED starter
        /\ \E st \in TerminalTask : UpdateTaskStatus(Parent(r), st)
    BY <1>7, RunTaskLemma DEF HandleNoGraphFit, SplitParent, TerminalTask, At
  <2>. QED BY <1>4, <2>1
<1>8. CASE \/ BeginTask(r) \/ PrepareTask(r) \/ ExecuteFails(r) \/ CheckHasNext(r)
           \/ ScanReadyTasks(r) \/ SendTaskCompleted(r) \/ FailJob(r) \/ SendTaskFailed(r)
           \/ ReturnAfterSend(r) \/ ApplyCoarseResult(r) \/ ApplyFineGraph(r)
           \/ IgnoreFineResult(r) \/ LinkKids(r) \/ FinishDecomposition(r)
           \/ ReadServiceGate(r) \/ PreAssignParent(r) \/ CheckReadiness(r)
  <2>1. UNCHANGED <<status, starter>>
    BY <1>8 DEF CheckReadiness, BeginTask, PrepareTask, ExecuteFails, CheckHasNext, ScanReadyTasks,
       SendTaskCompleted, FailJob, SendTaskFailed, ReturnAfterSend, ApplyCoarseResult,
       ApplyFineGraph, IgnoreFineResult, LinkKids, FinishDecomposition, ReadServiceGate,
       PreAssignParent, UpdateJobStatus, AddTaskDependencies, PreAssignTaskGraph, storeVars
  <2>. QED BY <1>3, <2>1
<1>. QED BY <1>1, <1>2, <1>5, <1>6, <1>7, <1>8 DEF RunStep

\* The loop reads its gate and then writes; every other handler leaves both.
LEMMA SerialLoopLemma ==
  ASSUME IInv, SerialInv, Loop \/ Model
  PROVE  SerialInv'
<1>. USE DEF IInv
<1>0. /\ OpDone \/ OpReport \/ op' = OpIdle => ~(OpAt("dispatch") \/ OpAt("retry"))'
      /\ \A pc \in OpPC \ {"dispatch", "retry"} :
           OpGoto(pc) \/ op' = [OpIdle EXCEPT !.pc = pc] => ~(OpAt("dispatch") \/ OpAt("retry"))'
  <2>1. OpIdle.pc = "idle"
    BY DEF OpIdle
  <2>2. OpDone \/ OpReport => op'.pc \in {"idle", "llm"}
    <3>1. \A by : InTurn(by).pc = "llm"
      BY DEF InTurn, OpIdle
    <3>. QED BY <2>1, <3>1 DEF OpDone, OpReport
  <2>3. \A pc \in OpPC : OpGoto(pc) \/ op' = [OpIdle EXCEPT !.pc = pc] => op'.pc = pc
    BY DEF OpGoto, OpIdle, OpTypeOK, OpState
  <2>. QED BY <2>1, <2>2, <2>3 DEF OpAt
<1>1. CASE TakeEvent \/ EndTurn \/ CheckJobComplete \/ CompleteJob \/ QueueGraphTask
           \/ PromoteJob \/ RecoverInterrupted \/ CreateJob \/ SetupWorkspace
  <2>1. UNCHANGED <<status, starter>>
    BY <1>1 DEF TakeEvent, EndTurn, CheckJobComplete, CompleteJob, QueueGraphTask, PromoteJob,
       RecoverInterrupted, CreateJob, SetupWorkspace, UpdateJobStatus, PreAssignTaskGraph,
       storeVars, runVars
  <2>2. UNCHANGED op \/ ~(OpAt("dispatch") \/ OpAt("retry"))'
    <3>1. CASE TakeEvent
      <4>1. Head(queue) \in Event
        BY <3>1 DEF TakeEvent, RunsTypeOK
      <4>2. op' = InTurn("event") \/ op' = InTurn("user")
            \/ \E pc \in {"advance", "check"} : op' = [OpIdle EXCEPT !.pc = pc]
        <5>. DEFINE ev == Head(queue)
        <5>1. op' = CASE ev.type = "completed" /\ ev.next  -> [OpIdle EXCEPT !.pc = "advance"]
                      [] ev.type = "completed" /\ ~ev.next -> [OpIdle EXCEPT !.pc = "check"]
                      [] ev.type = "failed"                -> InTurn("event")
                      [] ev.type = "user"                  -> InTurn("user")
          BY <3>1 DEF TakeEvent
        <5>2. ev.type \in {"completed", "failed", "user"} /\ ev.next \in BOOLEAN
          BY <4>1 DEF Event
        <5>. HIDE DEF ev
        <5>3. CASE ev.type = "completed" /\ ev.next
          BY <5>1, <5>3
        <5>4. CASE ev.type = "completed" /\ ~ev.next
          BY <5>1, <5>4
        <5>5. CASE ev.type = "failed"
          BY <5>1, <5>5
        <5>6. CASE ev.type = "user"
          BY <5>1, <5>6
        <5>. QED BY <5>2, <5>3, <5>4, <5>5, <5>6
      <4>. QED BY <4>2 DEF InTurn, OpIdle, OpAt
    <3>2. CASE ~TakeEvent
      BY <1>0, <1>1, <3>2 DEF EndTurn, CheckJobComplete, CompleteJob, QueueGraphTask,
         PromoteJob, RecoverInterrupted, CreateJob, SetupWorkspace, OpPC
    <3>. QED BY <3>1, <3>2
  <2>. QED BY <2>1, <2>2, NoStartLemma, SerialQuietLemma DEF InProgress
<1>2. CASE AssignNextTask \/ ReadOperatorGate \/ RetryTaskTool
  <2>1. UNCHANGED <<status, starter>>
    BY <1>2 DEF AssignNextTask, ReadOperatorGate, RetryTaskTool, storeVars, runVars
  <2>2. CASE OpDone \/ OpReport
    BY <1>0, <2>1, <2>2, NoStartLemma, SerialQuietLemma DEF InProgress
  <2>3. CASE \E t \in Tasks : /\ op'.task = t
                              /\ (~op'.busy \/ op'.pc = "retry") => Siblings(t) = {}
    <3>1. OperatorRunsSerially'
      BY <2>1 DEF SerialInv, OperatorRunsSerially, InProgress
    <3>2. OpStarted' = OpStarted
      BY <2>1 DEF OpStarted, InProgress
    <3>3. GateHolds'
      BY <2>3, <3>2 DEF GateHolds, OpStarted, Siblings, OpAt
    <3>. QED BY <3>1, <3>3 DEF SerialInv
  <2>4. CASE AssignNextTask
    <3>1. CASE OpDone \/ OpReport
      BY <2>2, <3>1
    <3>2. CASE \E t \in GetReadyTasks :
                 op' = [op EXCEPT !.pc = "dispatch", !.task = t, !.g = graph[t],
                                  !.busy = (Siblings(t) # {}), !.jobPending = (job = "pending")]
      <4>. PICK t \in GetReadyTasks :
              op' = [op EXCEPT !.pc = "dispatch", !.task = t, !.g = graph[t],
                               !.busy = (Siblings(t) # {}), !.jobPending = (job = "pending")]
        BY <3>2
      <4>1. t \in Tasks /\ op'.task = t /\ op'.busy = (Siblings(t) # {}) /\ op'.pc = "dispatch"
        BY ReadyLemma DEF OpTypeOK, OpState
      <4>. QED BY <2>3, <4>1
    <3>. QED BY <2>4, <3>1, <3>2 DEF AssignNextTask
  <2>5. CASE ReadOperatorGate
    <3>1. /\ op.task \in Tasks /\ op'.task = op.task /\ op'.pc = "dispatch"
          /\ op'.busy = (Siblings(op.task) # {})
      BY <2>5 DEF ReadOperatorGate, OpTypeOK, OpState, OpAt, OpOK, Rows
    <3>. QED BY <2>3, <3>1
  <2>6. CASE RetryTaskTool
    <3>1. PICK t \in Tasks : /\ Siblings(t) = {}
                             /\ \E g \in {graph[t], "work"} \ {"none"} :
                                   op' = [op EXCEPT !.pc = "retry", !.task = t, !.g = g]
      BY <2>6 DEF RetryTaskTool
    <3>2. op'.task = t
      BY <3>1 DEF OpTypeOK, OpState
    <3>. QED BY <2>3, <3>1, <3>2
  <2>. QED BY <1>2, <2>4, <2>5, <2>6
<1>3. CASE DispatchGraphTask \/ RetryDispatch
  <2>1. op.task \in Tasks /\ OpStarted \subseteq {op.task}
    BY <1>3 DEF DispatchGraphTask, RetryDispatch, OpAt, OpOK, Rows, SerialInv, GateHolds
  <2>2. ~(OpAt("dispatch") \/ OpAt("retry"))'
    BY <1>0, <1>3 DEF DispatchGraphTask, RetryDispatch, OpPC
  <2>3. CASE UNCHANGED <<storeVars, starter>>
    BY <2>2, <2>3, NoStartLemma, SerialQuietLemma DEF storeVars, InProgress
  <2>4. CASE /\ AssignTaskToGraph(op.task, op.g) \/ RetryTask(op.task, op.g)
             /\ Spawn(op.task, op.g, "operator")
    <3>1. InProgress' = InProgress \cup {op.task}
      BY <2>1, <2>4, DispatchProgress
    <3>2. starter' = [starter EXCEPT ![op.task] = "operator"]
      BY <2>4 DEF Spawn
    <3>3. \A u \in InProgress' : starter'[u] = "operator" => u = op.task
      BY <2>1, <3>1, <3>2 DEF OpStarted, RunsTypeOK, InProgress
    <3>. QED BY <2>2, <3>3 DEF SerialInv, GateHolds, OperatorRunsSerially
  <2>. QED BY <1>3, <2>3, <2>4 DEF DispatchGraphTask, RetryDispatch
<1>4. CASE CreateTaskTool
  <2>1. UNCHANGED <<status, starter>> /\ op'.pc = "insert"
    BY <1>4 DEF CreateTaskTool, storeVars, runVars, OpTypeOK, OpState
  <2>. QED BY <2>1, NoStartLemma, SerialQuietLemma DEF InProgress, OpAt
<1>5. CASE InsertTask
  <2>1. PICK t \in Tasks : CreateTask(t, "pending", "none", NoTask, 0)
    BY <1>5 DEF InsertTask
  <2>2. InProgress' \subseteq InProgress
    BY <2>1 DEF CreateTask, InProgress, StoreOK, StoreTypeOK
  <2>3. op'.pc \in {"announce", "gate"} /\ UNCHANGED starter
    BY <1>5 DEF InsertTask, OpTypeOK, OpState, runVars
  <2>. QED BY <2>2, <2>3, NoStartLemma, SerialQuietLemma DEF OpAt
<1>6. CASE DispatchCoarseDecompose \/ DecomposeTask
  <2>1. OpDone
    BY <1>6 DEF DispatchCoarseDecompose, DecomposeTask
  <2>2. OpStarted' \subseteq OpStarted
    <3>1. \E b \in Tasks : /\ starter' = [starter EXCEPT ![b] = "service"]
                          /\ \E g, p, d : CreateTask(b, "in_progress", g, p, d)
      BY <1>6 DEF DispatchCoarseDecompose, DecomposeTask, CreateBootstrap, Spawn
    <3>. QED BY <3>1, CreateTaskProgress, ServiceStartLemma
  <2>. QED BY <1>0, <2>1, <2>2, SerialQuietLemma
<1>7. CASE AnnounceTask
  <2>1. OpStarted' \subseteq OpStarted
    BY <1>7, NoStartLemma DEF AnnounceTask, storeVars, runVars, InProgress
  <2>2. OpDone \/ op'.pc = "decompose"
    BY <1>7 DEF AnnounceTask, OpGoto, OpTypeOK, OpState
  <2>. QED BY <1>0, <2>1, <2>2, SerialQuietLemma DEF OpAt
<1>. QED BY <1>1, <1>2, <1>3, <1>4, <1>5, <1>6, <1>7 DEF Loop, LoopStep, Model, ModelStep

\* Outside the loop nothing starts in the operator's name, and a restart
\* finds nothing in progress.
LEMMA SerialOutsideLemma ==
  ASSUME IInv, SerialInv,
         UserMessage \/ UserRetry \/ CancelCheck \/ CancelStep \/ CrashAndRestart
  PROVE  SerialInv'
<1>. USE DEF IInv
<1>1. CASE UserMessage \/ CancelCheck \/ CancelFlip \/ CancelList \/ CancelRuns
  <2>1. UNCHANGED <<status, starter, op>>
    BY <1>1 DEF UserMessage, CancelCheck, CancelFlip, CancelList, CancelRuns,
       UpdateJobStatus, storeVars, runVars
  <2>. QED BY <2>1, NoStartLemma, SerialQuietLemma DEF InProgress
<1>2. CASE UserRetry
  <2>. PICK t \in Tasks : RetryTask(t, graph[t]) /\ Spawn(t, graph[t], "service")
    BY <1>2 DEF UserRetry
  <2>1. InProgress' = InProgress \cup {t}
    BY DispatchProgress
  <2>. QED BY <1>2, <2>1, ServiceStartLemma, SerialQuietLemma DEF UserRetry, Spawn
<1>3. CASE CancelSweep
  <2>1. cancel.todo \subseteq Tasks
    BY DEF CancelState
  <2>2. InProgress' \subseteq InProgress
    BY <1>3, <2>1, UpdateTaskStatusProgress, OtherProgress DEF CancelSweep, TerminalTask
  <2>. QED BY <1>3, <2>2, NoStartLemma, SerialQuietLemma DEF CancelSweep, runVars
<1>4. CASE CrashAndRestart
  <2>1. InProgress' = {}
    BY <1>4 DEF CrashAndRestart, ReconcileInterrupted, InProgress
  <2>. QED BY <2>1 DEF SerialInv, GateHolds, OperatorRunsSerially, OpStarted
<1>. QED BY <1>1, <1>2, <1>3, <1>4 DEF CancelStep

\* The loop never has two tasks it started in progress, however the service's and
\* the clients' own dispatches fall between its reads and its writes
\* (dispatchGraphTask, retryTask).
THEOREM OperatorSerial == Spec => []OperatorRunsSerially
<1>1. Init => SerialInv
  BY DEF Init, StoreInit, SerialInv, GateHolds, OperatorRunsSerially, OpStarted, InProgress
<1>2. IInv /\ SerialInv /\ [Next]_vars => SerialInv'
  <2>. SUFFICES ASSUME IInv, SerialInv, [Next]_vars PROVE SerialInv'
    OBVIOUS
  <2>1. CASE UNCHANGED vars
    BY <2>1, NoStartLemma, SerialQuietLemma DEF vars, storeVars, InProgress
  <2>2. ASSUME NEW r \in Runs, Run(r) PROVE SerialInv'
    BY <2>2, SerialRunLemma, SerialQuietLemma DEF Run
  <2>. QED BY <2>1, <2>2, SerialLoopLemma, SerialOutsideLemma DEF Next
<1>3. SerialInv => OperatorRunsSerially
  BY DEF SerialInv
<1>. QED BY <1>1, <1>2, <1>3, Invariance, PTL DEF Spec

-----------------------------------------------------------------------------
(* JobPipeline implements the safety part of TaskLifecycle (that what runs  *)
(* also ends is left to model checking): statements, as steps of a life.   *)

LStep == Lifecycle!Next \/ UNCHANGED status

\* A terminal status is written over a row: it ends, is settled or relabelled.
LEMMA UpdateStep ==
  ASSUME StoreOK, NEW t \in Rows, NEW st \in TerminalTask, UpdateTaskStatus(t, st)
  PROVE  LStep
<1>1. t \in Tasks /\ status[t] \in {"in_progress", "pending"} \cup TerminalTask
  BY DEF Rows, StoreOK, StoreTypeOK, TaskStatus, TerminalTask
<1>2. CASE status[t] = "in_progress"
  <2>1. Lifecycle!Finish(t)
    BY <1>1, <1>2 DEF UpdateTaskStatus, TerminalTask, Lifecycle!Finish, Lifecycle!Move,
                      Lifecycle!Terminal
  <2>. QED BY <1>1, <2>1 DEF LStep, Lifecycle!Next
<1>3. CASE status[t] \in {"pending"} \cup TerminalTask
  <2>1. Lifecycle!Settle(t)
    BY <1>1, <1>3 DEF UpdateTaskStatus, TerminalTask, Lifecycle!Settle, Lifecycle!Move,
                      Lifecycle!Terminal
  <2>. QED BY <1>1, <2>1 DEF LStep, Lifecycle!Next
<1>. QED BY <1>1, <1>2, <1>3

LEMMA CreateStep ==
  ASSUME NEW t \in Tasks, NEW st \in {"pending", "in_progress"}, NEW g, NEW p, NEW d,
         CreateTask(t, st, g, p, d)
  PROVE  LStep
<1>1. Lifecycle!Create(t)
  BY DEF CreateTask, IsFresh, Lifecycle!Create, Lifecycle!Move
<1>. QED BY <1>1 DEF LStep, Lifecycle!Next

LEMMA DispatchStep ==
  ASSUME NEW t \in Tasks, NEW g,
         AssignTaskToGraph(t, g) \/ RetryTask(t, g) \/ PreAssignTaskGraph(t, g)
  PROVE  LStep
<1>1. CASE AssignTaskToGraph(t, g)
  <2>1. Lifecycle!Start(t)
    BY <1>1 DEF AssignTaskToGraph, Lifecycle!Start, Lifecycle!Move
  <2>. QED BY <2>1 DEF LStep, Lifecycle!Next
<1>2. CASE RetryTask(t, g)
  <2>1. Lifecycle!Retry(t)
    BY <1>2 DEF RetryTask, Lifecycle!Retry, Lifecycle!Move
  <2>. QED BY <2>1 DEF LStep, Lifecycle!Next
<1>3. CASE PreAssignTaskGraph(t, g)
  BY <1>3 DEF PreAssignTaskGraph, LStep
<1>. QED BY <1>1, <1>2, <1>3

-----------------------------------------------------------------------------
(* Handlers, by the statement they make. *)

LEMMA RunRefines ==
  ASSUME IInv, NEW r \in Runs, RunStep(r)
  PROVE  LStep
<1>. USE DEF IInv
<1>1. CASE FailDispatch(r) \/ PersistFailure(r) \/ ExecuteSucceeds(r) \/ ExecuteCancelled(r)
  <2>1. /\ runs[r].task \in Rows
        /\ \E st \in TerminalTask : UpdateTaskStatus(runs[r].task, st)
    BY <1>1, RunTaskLemma DEF FailDispatch, PersistFailure, WriteFailed, ExecuteSucceeds,
       ExecuteCancelled, TerminalTask, At
  <2>. QED BY <2>1, UpdateStep
<1>2. CASE HandleNoGraphFit(r) \/ SplitParent(r)
  <2>1. Parent(r) \in Rows /\ \E st \in TerminalTask : UpdateTaskStatus(Parent(r), st)
    BY <1>2, RunTaskLemma DEF HandleNoGraphFit, SplitParent, TerminalTask, At
  <2>. QED BY <2>1, UpdateStep
<1>3. CASE DispatchFineDecompose(r)
  <2>1. \E b \in Tasks : CreateBootstrap(b, runs[r].aim)
    BY <1>3 DEF DispatchFineDecompose
  <2>. QED BY <2>1, CreateStep DEF CreateBootstrap
<1>4. CASE CreateKid(r)
  BY <1>4, CreateStep DEF CreateKid
<1>5. CASE AssignGraphToParent(r) \/ PreAssignParent(r)
  <2>1. Parent(r) \in Tasks
    BY <1>5, RunTaskLemma DEF AssignGraphToParent, PreAssignParent, At, RunsOK, RunOK
  <2>. QED BY <1>5, <2>1, DispatchStep DEF AssignGraphToParent, PreAssignParent, LStep, storeVars
<1>6. CASE \/ BeginTask(r) \/ PrepareTask(r) \/ ExecuteFails(r) \/ CheckHasNext(r)
           \/ ScanReadyTasks(r) \/ SendTaskCompleted(r) \/ FailJob(r) \/ SendTaskFailed(r)
           \/ ReturnAfterSend(r) \/ ApplyCoarseResult(r) \/ ApplyFineGraph(r)
           \/ IgnoreFineResult(r) \/ LinkKids(r) \/ FinishDecomposition(r)
           \/ ReadServiceGate(r) \/ CheckReadiness(r)
  BY <1>6 DEF CheckReadiness, BeginTask, PrepareTask, ExecuteFails, CheckHasNext, ScanReadyTasks,
       SendTaskCompleted, FailJob, SendTaskFailed, ReturnAfterSend, ApplyCoarseResult,
       ApplyFineGraph, IgnoreFineResult, LinkKids, FinishDecomposition, ReadServiceGate,
       UpdateJobStatus, AddTaskDependencies, storeVars, LStep
<1>. QED BY <1>1, <1>2, <1>3, <1>4, <1>5, <1>6 DEF RunStep

LEMMA LoopRefines ==
  ASSUME IInv, Loop \/ Model
  PROVE  LStep
<1>. USE DEF IInv
<1>1. CASE \/ TakeEvent \/ EndTurn \/ CheckJobComplete \/ CompleteJob \/ AssignNextTask
           \/ ReadOperatorGate \/ PromoteJob \/ RecoverInterrupted \/ CreateJob
           \/ CreateTaskTool \/ RetryTaskTool \/ SetupWorkspace \/ AnnounceTask
  BY <1>1 DEF AnnounceTask, TakeEvent, EndTurn, CheckJobComplete, CompleteJob, AssignNextTask,
       ReadOperatorGate, runVars, PromoteJob, RecoverInterrupted, CreateJob, CreateTaskTool,
       RetryTaskTool, SetupWorkspace, UpdateJobStatus, storeVars, LStep
<1>2. CASE DispatchGraphTask \/ QueueGraphTask \/ RetryDispatch
  <2>1. op.task \in Tasks
    BY <1>2 DEF DispatchGraphTask, QueueGraphTask, RetryDispatch, OpAt, OpOK, Rows
  <2>. QED BY <1>2, <2>1, DispatchStep DEF DispatchGraphTask, QueueGraphTask, RetryDispatch,
                                            LStep, storeVars
<1>3. CASE InsertTask \/ DispatchCoarseDecompose \/ DecomposeTask
  BY <1>3, CreateStep DEF InsertTask, DispatchCoarseDecompose, DecomposeTask, CreateBootstrap,
                          LStep, storeVars
<1>. QED BY <1>1, <1>2, <1>3 DEF Loop, LoopStep, Model, ModelStep

LEMMA OutsideRefines ==
  ASSUME IInv, UserMessage \/ UserRetry \/ CancelCheck \/ CancelStep \/ CrashAndRestart
  PROVE  LStep
<1>. USE DEF IInv
<1>1. CASE UserMessage \/ CancelCheck \/ CancelFlip \/ CancelRuns \/ CancelList
  BY <1>1 DEF UserMessage, CancelCheck, CancelFlip, CancelRuns, CancelList, UpdateJobStatus,
              storeVars, LStep
<1>2. CASE UserRetry
  BY <1>2, DispatchStep DEF UserRetry
<1>3. CASE CancelSweep
  <2>1. cancel.todo \subseteq Rows
    BY DEF CancelOK
  <2>. QED BY <1>3, <2>1, UpdateStep DEF CancelSweep, TerminalTask, LStep, storeVars
<1>4. CASE CrashAndRestart
  BY <1>4 DEF CrashAndRestart, ReconcileInterrupted, LStep, Lifecycle!Next, Lifecycle!Restart
<1>. QED BY <1>1, <1>2, <1>3, <1>4 DEF CancelStep

LEMMA NextRefines == IInv /\ [Next]_vars => LStep
<1>. SUFFICES ASSUME IInv, [Next]_vars PROVE LStep
  OBVIOUS
<1>1. CASE UNCHANGED vars
  BY <1>1 DEF vars, storeVars, LStep
<1>. QED BY <1>1, RunRefines, LoopRefines, OutsideRefines DEF Next, Run

-----------------------------------------------------------------------------
\* Whoever writes to the tasks table - runs, callbacks, the operator's loop, a
\* client, a cancel, the reconciliation at boot - a task lives the life of
\* TaskLifecycle: unconditional statements never hit a row they would revive.
THEOREM Refinement == Spec => LifecycleSafety
<1>1. Init => Lifecycle!Init
  BY DEF Init, StoreInit, Lifecycle!Init
<1>2. IInv /\ [Next]_vars => [Lifecycle!Next]_status
  BY NextRefines DEF LStep
<1>. QED BY <1>1, <1>2, Invariance, PTL DEF Spec, LifecycleSafety

\* Nothing starts a task that was completed or cancelled, and nothing but a retry
\* starts a failed one, although dispatches act on what they read several
\* statements earlier (AssignTaskToGraph, RetryTask, ReconcileInterrupted).
THEOREM Unrevived == Spec => NoRevival
<1>. DEFINE Keep == \A t \in Tasks :
         /\ status[t] \in {"completed", "cancelled"} => status'[t] \notin {"pending", "in_progress"}
         /\ status[t] = "failed" => status'[t] # "pending"
<1>1. IInv /\ [Next]_vars => [Keep]_status
  <2>. SUFFICES ASSUME IInv, [Next]_vars, Lifecycle!Next PROVE Keep
    BY NextRefines DEF LStep
  <2>1. status \in [Tasks -> TaskStatus]
    BY DEF IInv, StoreOK, StoreTypeOK
  <2>2. CASE Lifecycle!Restart
    BY <2>1, <2>2 DEF Lifecycle!Restart
  <2>3. ASSUME NEW u \in Tasks,
               \/ Lifecycle!Create(u) \/ Lifecycle!Start(u) \/ Lifecycle!Retry(u)
               \/ Lifecycle!Finish(u) \/ Lifecycle!Settle(u)
        PROVE  Keep
    BY <2>1, <2>3 DEF Lifecycle!Create, Lifecycle!Start, Lifecycle!Retry, Lifecycle!Finish,
                      Lifecycle!Settle, Lifecycle!Move, Lifecycle!Terminal
  <2>. QED BY <2>2, <2>3 DEF Lifecycle!Next
<1>. QED BY <1>1, Invariance, PTL DEF Spec, NoRevival

-----------------------------------------------------------------------------
(* The order of the work.  What the code promises of dependencies is proved *)
(* for jobs to which nobody but the decomposition adds tasks, of which no   *)
(* task is taken back, and whose tasks all get a graph: tasks added by the  *)
(* model, cancellations and splits break one or the other of the            *)
(* properties; of crashes and rejected tasks the proof says nothing.        *)

Undisturbed == \A B \in Budgets : B["create"] = 0 /\ B["cancel"] = 0 /\ B["crash"] = 0
FindsGraphs == Verdicts \subseteq {"graph", "nothing"}

\* The dependencies of a task are completed.
Met(t) == \A d \in deps[t] : status[d] = "completed"

LivePC == {"spawned", "begun", "running", "failing"}

\* A run that neither touches a task any more nor reports its completion.
OverPC == {"idle", "failed", "report", "ending"}

\* A run with the result of the job's decomposition, until its tasks are linked.
Unlinked(r) == runs[r].g = "coarse" /\ runs[r].pc \in {"completed", "create", "link"}

\* A task has one run that will end it, on the graph of its row.
OneRunInv ==
  \A r \in Runs : Live(r) =>
    /\ status[runs[r].task] = "in_progress" /\ graph[runs[r].task] = runs[r].g
    /\ runs[r].kids = {}
    /\ \A q \in Runs : Live(q) /\ runs[q].task = runs[r].task => q = r

\* What has been started had its dependencies completed, and so has what is about
\* to be started: the task the loop dispatches, what a bootstrap decomposes, and
\* the task a callback is going to insert a bootstrap for.
MetInv ==
  /\ \A t \in Tasks : status[t] \notin {"none", "pending"} => Met(t)
  /\ \A t \in Tasks : target[t] # NoTask => Met(target[t])
  /\ op.pc = "dispatch" => Met(op.task)
  /\ \A r \in Runs : runs[r].pc = "bootstrap" => Met(runs[r].aim)

\* Tasks wait without a graph or with the one their work runs on; bootstraps never
\* wait.  The loop inserts no task of its own.
WaitInv ==
  /\ \A t \in Tasks : /\ status[t] = "none" => deps[t] = {} /\ target[t] = NoTask
                      /\ status[t] = "pending" => graph[t] \in {"none", "work"}
  /\ op.pc \notin {"insert", "announce", "decompose", "gate"} /\ cancel.pc = "idle"
  /\ op.pc = "dispatch" => op.g = "work"
  /\ op.pc = "retry" /\ op.g = "coarse" => graph[op.task] = "coarse"
  /\ \A r \in Runs : runs[r].pc \in {"create", "link"} => runs[r].g = "coarse"

-----------------------------------------------------------------------------
(* What a step of a run does to the rows and to the other runs. *)

\* A run stays where it is, except that one that inserts a bootstrap goes on
\* announcing.
Same(q) == /\ \/ runs'[q].pc = runs[q].pc
              \/ runs[q].pc = "bootstrap" /\ runs'[q].pc = "announce"
           /\ runs'[q].task = runs[q].task
           /\ runs'[q].g = runs[q].g /\ runs'[q].kids = runs[q].kids
           /\ runs'[q].pc = "bootstrap" => runs'[q].aim = runs[q].aim
OthersSame(r) == \A q \in Runs \ {r} : Same(q)
SameTask(r) == /\ runs'[r].task = runs[r].task /\ runs'[r].g = runs[r].g
               /\ runs'[r].kids = runs[r].kids

\* It goes on towards the end of its task.
Works(r) == /\ Live(r) /\ runs'[r].pc \in LivePC /\ SameTask(r) /\ OthersSame(r)
            /\ UNCHANGED <<storeVars, queue>>

\* It ends its task.
Ends(r, st) ==
  /\ Live(r) /\ UpdateTaskStatus(runs[r].task, st) /\ OthersSame(r) /\ UNCHANGED queue
  /\ \/ st = "completed" /\ runs'[r].pc = "completed" /\ SameTask(r)
     \/ st = "failed" /\ runs'[r].pc \in {"failed", "report"}
     \/ st = "cancelled" /\ runs'[r].pc = "idle"

\* It goes on after it: only an announced result is told as a completion, and
\* only a ready task is going to get a bootstrap.
Tells(r) ==
  /\ runs[r].pc \notin LivePC \cup {"idle"} /\ ~Unlinked(r) /\ OthersSame(r)
  /\ runs'[r].pc \notin LivePC \cup {"completed", "create", "link"}
  /\ runs[r].pc \in OverPC => runs'[r].pc \in OverPC
  /\ runs'[r].pc = "bootstrap" => WantsFineDecompose(runs'[r].aim)
  /\ \/ UNCHANGED queue
     \/ \E ev \in Event : /\ queue' = Append(queue, ev)
                          /\ ev.type = "completed" => runs[r].pc = "announce"
Talks(r) == /\ Tells(r) /\ UNCHANGED <<status, rowVars>> /\ job' \in {job, "failed"}
PreAssigns(r) == /\ Tells(r) /\ UNCHANGED queue /\ runs[r].pc = "assign"
                 /\ PreAssignTaskGraph(Parent(r), "work")

\* A goroutine gets a new request.
Begins(q, t, g) == /\ ~Live(q) /\ ~Unlinked(q)
                   /\ runs'[q] = Request(t, g) /\ OthersSame(q)
Assigns(r) == /\ runs[r].pc = "assign" /\ UNCHANGED queue
              /\ AssignTaskToGraph(Parent(r), "work") /\ Begins(r, Parent(r), "work")
Bootstraps(r) ==
  /\ runs[r].pc = "bootstrap" /\ UNCHANGED queue
  /\ \E t, b \in Tasks, q \in Runs : /\ t = runs[r].aim /\ CreateBootstrap(b, t)
                                     /\ Begins(q, b, "fine")

\* It stores the result of the job's decomposition.
Takes(r) == /\ runs[r].pc = "completed" /\ runs[r].g = "coarse" /\ OthersSame(r)
            /\ UNCHANGED <<storeVars, queue>>
            /\ runs'[r].pc = "idle" \/ (runs'[r].pc = "create" /\ SameTask(r))
Adds(r) ==
  /\ runs[r].pc = "create" /\ UNCHANGED queue /\ OthersSame(r)
  /\ \E t \in Tasks : /\ CreateTask(t, "pending", "none", NoTask, KidDepth(r))
                      /\ runs'[r].kids = runs[r].kids \cup {t}
  /\ runs'[r].pc \in {"create", "link"}
  /\ runs'[r].task = runs[r].task /\ runs'[r].g = runs[r].g
Joins(r) ==
  /\ runs[r].pc = "link" /\ UNCHANGED queue /\ OthersSame(r) /\ runs'[r].pc = "announce"
  /\ \E shape \in Links : AddTaskDependencies(Edges(runs[r].kids, shape))

LEMMA EndedSame ==
  ASSUME RunsOK, NEW r \in Runs, runs' = Ended(r)
  PROVE  runs'[r] = Idle /\ OthersSame(r)
<1>1. ASSUME NEW q \in Runs
      PROVE  LET x == [runs[q] EXCEPT !.ctxDone = TRUE] IN
             /\ x.pc = runs[q].pc /\ x.task = runs[q].task /\ x.aim = runs[q].aim
             /\ x.g = runs[q].g /\ x.kids = runs[q].kids
  BY DEF RunsOK, RunState
<1>. QED BY <1>1 DEF Ended, OthersSame, Same

LEMMA GotoSame ==
  ASSUME RunsOK, NEW r \in Runs, NEW pc, Goto(r, pc)
  PROVE  runs'[r].pc = pc /\ SameTask(r) /\ OthersSame(r)
BY DEF Goto, RunsOK, RunState, SameTask, OthersSame, Same

LEMMA ExecutorEffect ==
  ASSUME IInv, NEW r \in Runs,
         \/ BeginTask(r) \/ PrepareTask(r) \/ FailDispatch(r) \/ ExecuteSucceeds(r)
         \/ ExecuteFails(r) \/ PersistFailure(r) \/ ExecuteCancelled(r)
  PROVE  Works(r) \/ \E st \in TerminalTask : Ends(r, st)
<1>. USE DEF IInv
<1>1. CASE BeginTask(r)
  BY <1>1 DEF BeginTask, At, Live, Works, LivePC, SameTask, OthersSame, Same, RunsOK, RunState
<1>2. CASE PrepareTask(r) \/ ExecuteFails(r)
  BY <1>2, GotoSame DEF PrepareTask, ExecuteFails, At, Live, Works, LivePC
<1>3. CASE FailDispatch(r) \/ PersistFailure(r)
  <2>1. Live(r) /\ WriteFailed(r)
    BY <1>3 DEF FailDispatch, PersistFailure, At, Live
  <2>2. Goto(r, "failed") \/ Goto(r, "report")
    BY <2>1 DEF WriteFailed
  <2>3. runs'[r].pc \in {"failed", "report"} /\ OthersSame(r)
    BY <2>2, GotoSame
  <2>4. Ends(r, "failed")
    BY <2>1, <2>3 DEF WriteFailed, Ends
  <2>. QED BY <2>4 DEF TerminalTask
<1>4. CASE ExecuteSucceeds(r)
  <2>1. Ends(r, "completed")
    BY <1>4, GotoSame DEF ExecuteSucceeds, At, Live, Ends
  <2>. QED BY <2>1 DEF TerminalTask
<1>5. CASE ExecuteCancelled(r)
  <2>1. runs'[r] = Idle /\ OthersSame(r)
    BY <1>5, EndedSame DEF ExecuteCancelled, Return
  <2>2. Ends(r, "cancelled")
    BY <1>5, <2>1 DEF ExecuteCancelled, At, Live, Ends, Idle
  <2>. QED BY <2>2 DEF TerminalTask
<1>. QED BY <1>1, <1>2, <1>3, <1>4, <1>5

\* The moves that leave the rows alone.
LEMMA TalkEffect ==
  ASSUME IInv, NEW r \in Runs,
         \/ CheckHasNext(r) \/ ScanReadyTasks(r) \/ SendTaskCompleted(r) \/ FailJob(r)
         \/ SendTaskFailed(r) \/ ReturnAfterSend(r) \/ ApplyFineGraph(r) \/ IgnoreFineResult(r)
         \/ FinishDecomposition(r) \/ ReadServiceGate(r)
  PROVE  Talks(r)
<1>. USE DEF IInv, Talks, Tells, LivePC, OverPC, Unlinked, At
<1>1. CASE CheckHasNext(r)
  BY <1>1 DEF CheckHasNext, Decomposes, IsDecompositionGraph, storeVars, rowVars, OthersSame,
              Same, RunsOK, RunState
<1>2. CASE ScanReadyTasks(r)
  BY <1>2 DEF ScanReadyTasks, storeVars, rowVars, OthersSame, Same, RunsOK, RunState
<1>3. CASE ReadServiceGate(r)
  BY <1>3 DEF ReadServiceGate, storeVars, rowVars, OthersSame, Same, RunsOK, RunState
<1>4. CASE SendTaskCompleted(r) \/ SendTaskFailed(r)
  <2>1. \E ev \in Event : /\ queue' = queue \/ queue' = Append(queue, ev)
                          /\ ev.type = "completed" => runs[r].pc = "announce"
    <3>1. CASE SendTaskCompleted(r)
      <4>1. PICK ev : ev = [type |-> "completed", next |-> runs[r].next]
        OBVIOUS
      <4>2. ev \in Event
        BY <4>1 DEF Event, RunsOK, RunState
      <4>. QED BY <3>1, <4>1, <4>2 DEF SendTaskCompleted, Send
    <3>2. CASE SendTaskFailed(r)
      <4>1. PICK ev : ev = [type |-> "failed", next |-> FALSE]
        OBVIOUS
      <4>2. ev \in Event /\ ev.type # "completed"
        BY <4>1 DEF Event
      <4>. QED BY <3>2, <4>1, <4>2 DEF SendTaskFailed, Send
    <3>. QED BY <1>4, <3>1, <3>2
  <2>2. runs[r].pc \in {"announce", "report"} /\ Goto(r, "ending") /\ UNCHANGED storeVars
    BY <1>4 DEF SendTaskCompleted, SendTaskFailed
  <2>3. runs'[r].pc = "ending" /\ OthersSame(r)
    BY <2>2, GotoSame
  <2>. QED BY <2>1, <2>2, <2>3 DEF storeVars, rowVars
<1>5. CASE FailJob(r)
  BY <1>5, GotoSame DEF FailJob, UpdateJobStatus, rowVars
<1>6. CASE ApplyFineGraph(r)
  BY <1>6, GotoSame DEF ApplyFineGraph, storeVars, rowVars
<1>7. CASE ReturnAfterSend(r) \/ IgnoreFineResult(r) \/ FinishDecomposition(r)
  <2>1. runs'[r] = Idle /\ OthersSame(r)
    BY <1>7, EndedSame DEF ReturnAfterSend, IgnoreFineResult, FinishDecomposition, Return
  <2>. QED BY <1>7, <2>1 DEF ReturnAfterSend, IgnoreFineResult, FinishDecomposition, Idle,
                             storeVars, rowVars
<1>. QED BY <1>1, <1>2, <1>3, <1>4, <1>5, <1>6, <1>7

LEMMA BootstrapEffect ==
  ASSUME IInv, NEW r \in Runs, CheckReadiness(r) \/ DispatchFineDecompose(r)
  PROVE  Talks(r) \/ Bootstraps(r)
<1>1. CASE CheckReadiness(r)
  <2>1. /\ UNCHANGED <<storeVars, queue>> /\ OthersSame(r)
        /\ runs[r].pc = "announce" /\ runs'[r].pc \in {"announce", "bootstrap"}
        /\ runs'[r].pc = "bootstrap" => WantsFineDecompose(runs'[r].aim)
    BY <1>1, CheckReadinessMoves DEF OthersSame, Same
  <2>. QED BY <2>1 DEF Talks, Tells, LivePC, OverPC, Unlinked, storeVars, rowVars
<1>2. CASE DispatchFineDecompose(r)
  <2>1. runs[r].pc = "bootstrap" /\ runs[r].aim \in Tasks /\ UNCHANGED queue
    BY <1>2, BootstrapMoves
  <2>2. PICK b \in Tasks, q \in Runs :
          /\ CreateBootstrap(b, runs[r].aim)
          /\ runs[q].pc = "idle" /\ runs'[q] = Request(b, "fine") /\ q # r
          /\ \A p \in Runs \ {q} :
               /\ p # r => runs'[p] = runs[p]
               /\ p = r => runs'[p].pc = "announce"
               /\ runs'[p].task = runs[p].task /\ runs'[p].g = runs[p].g
               /\ runs'[p].kids = runs[p].kids
    BY <1>2, BootstrapMoves
  <2>3. Begins(q, b, "fine")
    BY <2>1, <2>2 DEF Begins, Live, Unlinked, OthersSame, Same
  <2>. QED BY <2>1, <2>2, <2>3 DEF Bootstraps
<1>. QED BY <1>1, <1>2

LEMMA AssignEffect ==
  ASSUME IInv, NEW r \in Runs, AssignGraphToParent(r) \/ PreAssignParent(r)
  PROVE  Talks(r) \/ Assigns(r) \/ PreAssigns(r)
<1>. USE DEF IInv
<1>1. runs[r].pc = "assign" /\ ~Live(r) /\ ~Unlinked(r) /\ UNCHANGED queue
  BY DEF AssignGraphToParent, PreAssignParent, At, Live, Unlinked
<1>2. CASE Return(r) /\ (UNCHANGED storeVars \/ PreAssignTaskGraph(Parent(r), "work"))
  <2>1. runs'[r].pc = "idle" /\ OthersSame(r)
    BY <1>2, EndedSame DEF Return, Idle
  <2>2. Tells(r)
    BY <1>1, <2>1 DEF Tells, LivePC, OverPC
  <2>. QED BY <1>1, <1>2, <2>2 DEF Talks, PreAssigns, storeVars, rowVars
<1>3. CASE /\ AssignTaskToGraph(Parent(r), "work")
           /\ runs' = [Ended(r) EXCEPT ![r] = Request(Parent(r), "work")]
  <2>0. runs[r].pc # "idle"
    BY <1>1
  <2>1. PICK e : e = Ended(r)
    OBVIOUS
  <2>2. e \in [Runs -> RunState]
    BY <2>0, <2>1, EndedLemma
  <2>3. \A q \in Runs \ {r} : /\ e[q].pc = runs[q].pc /\ e[q].task = runs[q].task
                              /\ e[q].g = runs[q].g /\ e[q].kids = runs[q].kids
                              /\ e[q].aim = runs[q].aim
    <3>1. ASSUME NEW q \in Runs
          PROVE  LET x == [runs[q] EXCEPT !.ctxDone = TRUE] IN
                 /\ x.pc = runs[q].pc /\ x.task = runs[q].task /\ x.aim = runs[q].aim
                 /\ x.g = runs[q].g /\ x.kids = runs[q].kids
      BY DEF RunsOK, RunState
    <3>. QED BY <2>1, <3>1 DEF Ended
  <2>4. runs'[r] = Request(Parent(r), "work") /\ OthersSame(r)
    BY <1>3, <2>1, <2>2, <2>3 DEF OthersSame, Same
  <2>. QED BY <1>1, <1>3, <2>4 DEF Assigns, Begins
<1>. QED BY <1>2, <1>3 DEF AssignGraphToParent, PreAssignParent

\* The result of the job's decomposition, step by step.
LEMMA ResultEffect ==
  ASSUME IInv, WaitInv, NEW r \in Runs, ApplyCoarseResult(r) \/ CreateKid(r) \/ LinkKids(r)
  PROVE  Takes(r) \/ Adds(r) \/ Joins(r)
<1>. USE DEF IInv
<1>1. CASE ApplyCoarseResult(r)
  <2>1. runs[r].pc = "completed" /\ runs[r].g = "coarse" /\ UNCHANGED <<storeVars, queue>>
    BY <1>1 DEF ApplyCoarseResult, At
  <2>2. CASE CreateKids(r)
    <3>1. runs'[r].pc = "create" /\ SameTask(r) /\ OthersSame(r)
      BY <2>2 DEF CreateKids, SameTask, OthersSame, Same, RunsOK, RunState
    <3>. QED BY <2>1, <3>1 DEF Takes
  <2>3. CASE Return(r)
    <3>1. runs'[r].pc = "idle" /\ OthersSame(r)
      BY <2>3, EndedSame DEF Return, Idle
    <3>. QED BY <2>1, <3>1 DEF Takes
  <2>. QED BY <1>1, <2>2, <2>3 DEF ApplyCoarseResult
<1>2. CASE CreateKid(r)
  <2>1. PICK t \in Tasks :
          /\ CreateTask(t, "pending", "none", NoTask, KidDepth(r))
          /\ runs' = [runs EXCEPT ![r].kids = @ \cup {t}, ![r].more = @ - 1,
                                  ![r].pc = IF runs[r].more = 1 THEN "link" ELSE "create"]
    BY <1>2 DEF CreateKid
  <2>2. /\ runs'[r].kids = runs[r].kids \cup {t} /\ runs'[r].pc \in {"create", "link"}
        /\ runs'[r].task = runs[r].task /\ runs'[r].g = runs[r].g
        /\ OthersSame(r)
    BY <2>1 DEF OthersSame, Same, RunsOK, RunState
  <2>3. runs[r].pc = "create" /\ UNCHANGED queue
    BY <1>2 DEF CreateKid, At
  <2>. QED BY <2>1, <2>2, <2>3 DEF Adds
<1>3. CASE LinkKids(r)
  <2>1. runs'[r].pc = "announce" /\ OthersSame(r)
    BY <1>3 DEF LinkKids, OthersSame, Same, RunsOK, RunState
  <2>. QED BY <1>3, <2>1 DEF LinkKids, At, Joins
<1>. QED BY <1>1, <1>2, <1>3

\* Every step of a run, while decompositions find a graph.
LEMMA RunEffect ==
  ASSUME IInv, WaitInv, FindsGraphs, NEW r \in Runs, RunStep(r)
  PROVE  \/ Works(r) \/ Talks(r) \/ PreAssigns(r) \/ Assigns(r) \/ Bootstraps(r)
         \/ Takes(r) \/ Adds(r) \/ Joins(r) \/ \E st \in TerminalTask : Ends(r, st)
<1>1. ~HandleNoGraphFit(r) /\ ~SplitParent(r)
  BY DEF FindsGraphs, HandleNoGraphFit, SplitParent
<1>. QED BY <1>1, ExecutorEffect, TalkEffect, BootstrapEffect, AssignEffect, ResultEffect DEF RunStep

-----------------------------------------------------------------------------
(* What the loop and the client do, while nobody disturbs. *)

\* The rows and the runs stay.
Rests == UNCHANGED <<status, rowVars, runs>>
Queues == /\ OpAt("dispatch") /\ PreAssignTaskGraph(op.task, op.g) /\ UNCHANGED <<runs, queue>>

\* A task is dispatched, or a failed one is started again.
Dispatches == /\ OpAt("dispatch") /\ AssignTaskToGraph(op.task, op.g) /\ UNCHANGED queue
              /\ \E q \in Runs : Begins(q, op.task, op.g)
Retries(t, g) == /\ RetryTask(t, g) /\ UNCHANGED queue /\ g \in Graphs
                 /\ \E q \in Runs : Begins(q, t, g)
                 /\ (OpAt("retry") /\ t = op.task /\ g = op.g) \/ g = graph[t]
StartsPlan == /\ OpAt("bootstrap") /\ UNCHANGED queue
              /\ \E b \in Tasks : /\ CreateTask(b, "in_progress", "coarse", NoTask, 0)
                                  /\ \E q \in Runs : Begins(q, b, "coarse")

\* What the budgets exclude does not happen.
LEMMA NeverSpent ==
  ASSUME IInv, NEW k \in Kinds, \A B \in Budgets : B[k] = 0
  PROVE  ~Spend(k)
<1>. SUFFICES ASSUME Spend(k) PROVE FALSE
  OBVIOUS
<1>1. spent[k] \in Nat /\ spent'[k] = spent[k] + 1
  BY DEF Spend, IInv, OpTypeOK
<1>2. PICK B \in Budgets : \A j \in Kinds : spent'[j] <= B[j]
  BY DEF Spend
<1>. QED BY <1>1, <1>2

LEMMA NothingDisturbs ==
  ASSUME IInv, WaitInv, Undisturbed
  PROVE  /\ ~CreateTaskTool /\ ~CancelCheck /\ ~CrashAndRestart
         /\ ~InsertTask /\ ~AnnounceTask /\ ~DecomposeTask /\ ~ReadOperatorGate /\ ~CancelStep
<1>1. ~Spend("create") /\ ~Spend("cancel") /\ ~Spend("crash")
  BY NeverSpent DEF Undisturbed, Kinds
<1>2. ~CreateTaskTool /\ ~CancelCheck /\ ~CrashAndRestart
  BY <1>1 DEF CreateTaskTool, CancelCheck, CrashAndRestart
<1>3. ~InsertTask /\ ~AnnounceTask /\ ~DecomposeTask /\ ~ReadOperatorGate /\ ~CancelStep
  BY DEF WaitInv, InsertTask, AnnounceTask, DecomposeTask, ReadOperatorGate, OpAt, CancelStep, CancelFlip,
         CancelRuns, CancelList, CancelSweep
<1>. QED BY <1>2, <1>3

LEMMA BegunRun ==
  ASSUME NEW q \in Runs, NEW t, NEW g, Begins(q, t, g)
  PROVE  runs'[q].pc = "spawned" /\ runs'[q].task = t /\ runs'[q].g = g /\ runs'[q].kids = {}
BY DEF Begins, Request, Idle

LEMMA SpawnBegins ==
  ASSUME IInv, NEW t \in Tasks, NEW g \in Graphs, NEW who, Spawn(t, g, who)
  PROVE  \E q \in Runs : Begins(q, t, g)
<1>1. PICK q \in Runs : IsFreeRun(q) /\ runs' = [runs EXCEPT ![q] = Request(t, g)]
  BY DEF Spawn
<1>2. Begins(q, t, g)
  BY <1>1 DEF Begins, IsFreeRun, Live, Unlinked, OthersSame, Same, IInv, RunsOK
<1>. QED BY <1>2

LEMMA OtherEffect ==
  ASSUME IInv, WaitInv, Undisturbed, Loop \/ Model \/ UserMessage \/ UserRetry
  PROVE  Rests \/ Queues \/ Dispatches \/ StartsPlan \/ \E t \in Tasks, g \in Graphs : Retries(t, g)
<1>. USE DEF IInv
<1>1. CASE \/ TakeEvent \/ EndTurn \/ CheckJobComplete \/ CompleteJob \/ AssignNextTask
           \/ PromoteJob \/ RecoverInterrupted \/ CreateJob \/ RetryTaskTool \/ SetupWorkspace
           \/ UserMessage
  BY <1>1 DEF TakeEvent, EndTurn, CheckJobComplete, CompleteJob, AssignNextTask, PromoteJob,
       RecoverInterrupted, CreateJob, RetryTaskTool, SetupWorkspace, UserMessage,
       UpdateJobStatus, storeVars, rowVars, runVars, Rests
<1>2. CASE QueueGraphTask
  BY <1>2 DEF QueueGraphTask, Queues, Rests, storeVars, rowVars, runVars
<1>3. CASE DispatchGraphTask
  <2>1. op.task \in Tasks /\ op.g \in Graphs
    BY <1>3 DEF DispatchGraphTask, OpAt, OpOK, Rows, OpTypeOK, OpState
  <2>2. CASE Spawn(op.task, op.g, "operator") /\ AssignTaskToGraph(op.task, op.g)
    BY <1>3, <2>1, <2>2, SpawnBegins DEF DispatchGraphTask, Dispatches
  <2>3. CASE UNCHANGED <<storeVars, runs>>
    BY <2>3 DEF Rests, storeVars, rowVars
  <2>. QED BY <1>3, <2>2, <2>3 DEF DispatchGraphTask
<1>4. CASE RetryDispatch
  <2>1. op.task \in Tasks /\ op.g \in Graphs
    BY <1>4 DEF RetryDispatch, OpAt, OpOK, Rows, OpTypeOK, OpState
  <2>2. CASE Spawn(op.task, op.g, "operator") /\ RetryTask(op.task, op.g)
    <3>1. Retries(op.task, op.g)
      BY <1>4, <2>1, <2>2, SpawnBegins DEF RetryDispatch, Retries
    <3>. QED BY <2>1, <3>1
  <2>3. CASE UNCHANGED <<storeVars, runs>>
    BY <2>3 DEF Rests, storeVars, rowVars
  <2>. QED BY <1>4, <2>2, <2>3 DEF RetryDispatch
<1>5. CASE DispatchCoarseDecompose
  <2>1. PICK b \in Tasks : /\ CreateTask(b, "in_progress", "coarse", NoTask, 0)
                           /\ Spawn(b, "coarse", "service")
    BY <1>5 DEF DispatchCoarseDecompose
  <2>2. \E q \in Runs : Begins(q, b, "coarse")
    BY <2>1, SpawnBegins DEF Graphs
  <2>. QED BY <1>5, <2>1, <2>2 DEF DispatchCoarseDecompose, StartsPlan
<1>6. CASE UserRetry
  <2>1. PICK t \in Tasks : RetryTask(t, graph[t]) /\ Spawn(t, graph[t], "service")
    BY <1>6 DEF UserRetry
  <2>2. graph[t] \in Graphs
    BY DEF StoreOK, StoreTypeOK
  <2>3. Retries(t, graph[t])
    BY <1>6, <2>1, <2>2, SpawnBegins DEF UserRetry, Retries
  <2>. QED BY <2>2, <2>3
<1>7. ~CreateTaskTool /\ ~InsertTask /\ ~AnnounceTask /\ ~DecomposeTask /\ ~ReadOperatorGate
  BY NothingDisturbs
<1>. QED BY <1>1, <1>2, <1>3, <1>4, <1>5, <1>6, <1>7 DEF Loop, LoopStep, Model, ModelStep

-----------------------------------------------------------------------------
(* One run ends a task. *)

LEMMA OneRunKept ==
  ASSUME OneRunInv,
         \A q \in Runs : Live(q)' => Live(q) /\ SameTask(q),
         \A q \in Runs : Live(q)' => /\ status'[runs[q].task] = status[runs[q].task]
                                     /\ graph'[runs[q].task] = graph[runs[q].task]
  PROVE  OneRunInv'
BY DEF OneRunInv, SameTask

LEMMA OneRunBegins ==
  ASSUME IInv, OneRunInv, NEW q \in Runs, NEW t \in Tasks, NEW g \in Graphs, Begins(q, t, g),
         status[t] # "in_progress", status' = [status EXCEPT ![t] = "in_progress"],
         graph' = [graph EXCEPT ![t] = g]
  PROVE  OneRunInv'
<1>1. /\ runs'[q].pc = "spawned" /\ runs'[q].task = t /\ runs'[q].g = g /\ runs'[q].kids = {}
  BY BegunRun
<1>2. \A p \in Runs \ {q} : Live(p)' => Live(p) /\ SameTask(p) /\ runs[p].task # t
  BY DEF Begins, OthersSame, Same, SameTask, Live, OneRunInv
<1>3. status'[t] = "in_progress" /\ graph'[t] = g
      /\ \A u \in Tasks \ {t} : status'[u] = status[u] /\ graph'[u] = graph[u]
  BY DEF IInv, StoreOK, StoreTypeOK
<1>4. \A p \in Runs : Live(p) => runs[p].task \in Tasks
  BY RunTaskLemma DEF Live
<1>. QED BY <1>1, <1>2, <1>3, <1>4 DEF OneRunInv, SameTask

LEMMA OneRunIsKept ==
  ASSUME IInv, OneRunInv, WaitInv, FindsGraphs, Undisturbed, [Next]_vars
  PROVE  OneRunInv'
<1>0. status \in [Tasks -> TaskStatus] /\ graph \in [Tasks -> Graphs]
  BY DEF IInv, StoreOK, StoreTypeOK
<1>1. \A q \in Runs : Live(q) => /\ runs[q].task \in Tasks
                                 /\ status[runs[q].task] = "in_progress"
  BY RunTaskLemma DEF Live, OneRunInv
<1>2. ASSUME NEW r \in Runs, Run(r)
      PROVE  OneRunInv'
  <2>1. CASE Works(r)
    BY <2>1, OneRunKept DEF Works, Live, LivePC, OthersSame, Same, SameTask, storeVars
  <2>2. CASE \E st \in TerminalTask : Ends(r, st)
    <3>1. PICK st : Ends(r, st)
      BY <2>2
    <3>2. \A q \in Runs : Live(q)' => Live(q) /\ SameTask(q) /\ q # r
      BY <3>1 DEF Ends, Live, OthersSame, Same, SameTask
    <3>3. \A q \in Runs : Live(q)' => runs[q].task # runs[r].task
      BY <3>1, <3>2 DEF Ends, OneRunInv
    <3>4. \A q \in Runs : Live(q)' => /\ status'[runs[q].task] = status[runs[q].task]
                                      /\ graph'[runs[q].task] = graph[runs[q].task]
      BY <1>0, <1>1, <3>1, <3>2, <3>3 DEF Ends, UpdateTaskStatus, rowVars
    <3>. QED BY <3>2, <3>4, OneRunKept
  <2>3. CASE Talks(r)
    <3>1. \A q \in Runs : Live(q)' => Live(q) /\ SameTask(q)
      BY <2>3 DEF Talks, Tells, Live, LivePC, OthersSame, Same, SameTask
    <3>. QED BY <2>3, <3>1, OneRunKept DEF Talks, rowVars
  <2>4. CASE PreAssigns(r)
    <3>1. \A q \in Runs : Live(q)' => Live(q) /\ SameTask(q)
      BY <2>4 DEF PreAssigns, Tells, Live, LivePC, OthersSame, Same, SameTask
    <3>2. \A q \in Runs : Live(q)' => graph'[runs[q].task] = graph[runs[q].task]
      BY <1>0, <1>1, <2>4, <3>1 DEF PreAssigns, PreAssignTaskGraph
    <3>. QED BY <2>4, <3>1, <3>2, OneRunKept DEF PreAssigns, PreAssignTaskGraph
  <2>5. CASE Assigns(r)
    <3>1. runs[r].g = "fine" /\ runs[r].pc # "idle"
      BY <2>5 DEF Assigns, IInv, RunsOK, RunOK
    <3>2. Parent(r) \in Tasks
      BY <3>1, RunTaskLemma
    <3>. QED BY <2>5, <3>2, OneRunBegins DEF Assigns, AssignTaskToGraph, Graphs
  <2>6. CASE Bootstraps(r)
    BY <2>6, OneRunBegins DEF Bootstraps, CreateBootstrap, CreateTask, IsFresh, Graphs
  <2>7. CASE Takes(r)
    <3>1. \A q \in Runs : Live(q)' => Live(q) /\ SameTask(q)
      BY <2>7 DEF Takes, Live, OthersSame, Same, SameTask
    <3>. QED BY <2>7, <3>1, OneRunKept DEF Takes, storeVars
  <2>8. CASE Adds(r)
    <3>1. \A q \in Runs : Live(q)' => Live(q) /\ SameTask(q)
      BY <2>8 DEF Adds, Live, OthersSame, Same, SameTask
    <3>2. PICK t \in Tasks : CreateTask(t, "pending", "none", NoTask, KidDepth(r))
      BY <2>8 DEF Adds
    <3>3. \A q \in Runs : Live(q)' => /\ status'[runs[q].task] = status[runs[q].task]
                                      /\ graph'[runs[q].task] = graph[runs[q].task]
      BY <1>0, <1>1, <3>1, <3>2 DEF CreateTask, IsFresh
    <3>. QED BY <3>1, <3>3, OneRunKept
  <2>9. CASE Joins(r)
    <3>1. \A q \in Runs : Live(q)' => Live(q) /\ SameTask(q)
      BY <2>9 DEF Joins, Live, OthersSame, Same, SameTask
    <3>. QED BY <2>9, <3>1, OneRunKept DEF Joins, AddTaskDependencies
  <2>. QED BY <1>2, <2>1, <2>2, <2>3, <2>4, <2>5, <2>6, <2>7, <2>8, <2>9, RunEffect DEF Run
<1>3. CASE Loop \/ Model \/ UserMessage \/ UserRetry
  <2>1. CASE Rests
    BY <2>1 DEF Rests, rowVars, OneRunInv, Live
  <2>2. CASE Queues
    <3>1. op.task \in Tasks
      BY <2>2 DEF Queues, OpAt, IInv, OpOK, Rows
    <3>2. \A q \in Runs : Live(q)' => Live(q) /\ SameTask(q)
      BY <2>2 DEF Queues, Live, SameTask
    <3>3. \A q \in Runs : Live(q)' => graph'[runs[q].task] = graph[runs[q].task]
      BY <1>0, <1>1, <2>2, <3>1, <3>2 DEF Queues, PreAssignTaskGraph
    <3>. QED BY <2>2, <3>2, <3>3, OneRunKept DEF Queues, PreAssignTaskGraph
  <2>3. CASE Dispatches
    <3>1. op.task \in Tasks /\ op.g \in Graphs
      BY <2>3 DEF Dispatches, OpAt, IInv, OpOK, Rows, OpTypeOK, OpState
    <3>. QED BY <2>3, <3>1, OneRunBegins DEF Dispatches, AssignTaskToGraph
  <2>4. CASE StartsPlan
    BY <2>4, OneRunBegins DEF StartsPlan, CreateTask, IsFresh, Graphs
  <2>5. CASE \E t \in Tasks, g \in Graphs : Retries(t, g)
    BY <2>5, OneRunBegins DEF Retries, RetryTask
  <2>. QED BY <1>3, <2>1, <2>2, <2>3, <2>4, <2>5, OtherEffect
<1>4. CASE UNCHANGED vars
  BY <1>4 DEF vars, storeVars, OneRunInv, Live
<1>. QED BY <1>2, <1>3, <1>4, NothingDisturbs DEF Next

-----------------------------------------------------------------------------
(* How the plan of the job comes about. *)

\* Nothing was completed, announced or dispatched yet.
Unfinished == \A i \in DOMAIN queue : queue[i].type # "completed"
Calm == /\ Unfinished /\ op.pc \in {"idle", "llm", "retry"} /\ job # "none"
        /\ \A t \in Tasks : target[t] = NoTask

Empty == /\ Rows = {} /\ Unfinished /\ \A r \in Runs : runs[r].pc = "idle"
         /\ op.pc \in {"idle", "llm", "bootstrap"}
         /\ job = "none" => op.pc # "bootstrap"
Planning == /\ Calm /\ \A r \in Runs : runs[r].pc \in LivePC \cup OverPC
            /\ \E c \in Tasks : /\ Rows = {c} /\ graph[c] = "coarse"
                                /\ status[c] \in {"in_progress", "failed"}
Creating(r) ==
  /\ Calm /\ Unlinked(r) /\ \A q \in Runs \ {r} : runs[q].pc \in OverPC
  /\ Rows = {runs[r].task} \cup runs[r].kids /\ runs[r].task \notin runs[r].kids
  /\ status[runs[r].task] = "completed" /\ graph[runs[r].task] = "coarse"
  /\ \A k \in runs[r].kids : status[k] = "pending" /\ graph[k] = "none"
  /\ runs[r].pc = "completed" => runs[r].kids = {}
Settled == /\ job # "none" /\ op.pc # "bootstrap" /\ Rows # {}
           /\ \A c \in Tasks : graph[c] = "coarse" => status[c] \notin {"in_progress", "failed"}
           /\ \A r \in Runs : ~Unlinked(r)

PhaseInv == Empty \/ Planning \/ Settled \/ \E r \in Runs : Creating(r)

OrderInv == OneRunInv /\ MetInv /\ WaitInv /\ PhaseInv

\* Only the run that creates the tasks links them.
LEMMA CreatorIs ==
  ASSUME PhaseInv, NEW r \in Runs, Unlinked(r)
  PROVE  Creating(r)
BY DEF PhaseInv, Empty, Planning, Settled, Creating, Unlinked, LivePC, OverPC

-----------------------------------------------------------------------------
(* Dependencies stay completed. *)

LEMMA MetKept ==
  ASSUME IInv, MetInv, UNCHANGED deps,
         \A t \in Tasks : status[t] = "completed" => status'[t] = "completed",
         \A t \in Tasks : /\ status[t] \in {"none", "pending"}
                          /\ status'[t] \notin {"none", "pending"}
                          => Met(t),
         target' \in [Tasks -> Tasks \cup {NoTask}],
         \A t \in Tasks : target'[t] # target[t] /\ target'[t] # NoTask => Met(target'[t]),
         op'.pc = "dispatch" => op'.task \in Tasks /\ Met(op'.task),
         \A q \in Runs : runs'[q].pc = "bootstrap" => runs'[q].aim \in Tasks /\ Met(runs'[q].aim)
  PROVE  MetInv'
<1>1. \A t \in Tasks : Met(t) => Met(t)'
  BY DEF Met, IInv, StoreOK, StoreTypeOK
<1>2. \A t \in Tasks : status'[t] \notin {"none", "pending"} => Met(t)
  BY DEF MetInv
<1>3. \A t \in Tasks : target'[t] # NoTask => target'[t] \in Tasks /\ Met(target'[t])
  BY DEF MetInv
<1>. QED BY <1>1, <1>2, <1>3 DEF MetInv

\* Whoever dispatches a task found it ready.
LEMMA DispatchedIsReady ==
  ASSUME IInv, MetInv, op' = op
  PROVE  op'.pc = "dispatch" => op'.task \in Tasks /\ Met(op'.task)
BY DEF MetInv, IInv, OpOK, Rows

\* And whoever inserts a bootstrap found the task ready.
LEMMA AimedIsReady ==
  ASSUME IInv, MetInv,
         \A q \in Runs : runs'[q].pc = "bootstrap" =>
           \/ runs[q].pc = "bootstrap" /\ runs'[q].aim = runs[q].aim
           \/ WantsFineDecompose(runs'[q].aim)
  PROVE  \A q \in Runs : runs'[q].pc = "bootstrap" => runs'[q].aim \in Tasks /\ Met(runs'[q].aim)
BY DEF MetInv, IInv, RunsOK, RunOK, MayDecompose, Rows, WantsFineDecompose, GetReadyTasks, Met

LEMMA AimByRun ==
  ASSUME IInv, MetInv, WaitInv, FindsGraphs, NEW r \in Runs, Run(r)
  PROVE  \A q \in Runs : runs'[q].pc = "bootstrap" => runs'[q].aim \in Tasks /\ Met(runs'[q].aim)
<1>1. ASSUME NEW q \in Runs, Same(q), runs'[q].pc = "bootstrap"
      PROVE  runs[q].pc = "bootstrap" /\ runs'[q].aim = runs[q].aim
  BY <1>1 DEF Same
<1>2. CASE OthersSame(r) /\ (runs'[r].pc = "bootstrap" => WantsFineDecompose(runs'[r].aim))
  BY <1>1, <1>2, AimedIsReady DEF OthersSame
<1>3. CASE \E q \in Runs : \E t, g : Begins(q, t, g)
  BY <1>1, <1>3, BegunRun, AimedIsReady DEF Begins, OthersSame
<1>4. CASE \/ Works(r) \/ Talks(r) \/ PreAssigns(r) \/ Takes(r) \/ Adds(r) \/ Joins(r)
           \/ \E st \in TerminalTask : Ends(r, st)
  BY <1>2, <1>4 DEF Works, Talks, PreAssigns, Tells, Takes, Adds, Joins, Ends, LivePC
<1>5. CASE Assigns(r) \/ Bootstraps(r)
  BY <1>3, <1>5 DEF Assigns, Bootstraps
<1>. QED BY <1>4, <1>5, RunEffect DEF Run

LEMMA AimByOthers ==
  ASSUME IInv, MetInv, WaitInv, Undisturbed, Loop \/ Model \/ UserMessage \/ UserRetry
  PROVE  \A q \in Runs : runs'[q].pc = "bootstrap" => runs'[q].aim \in Tasks /\ Met(runs'[q].aim)
<1>1. CASE UNCHANGED runs
  BY <1>1, AimedIsReady
<1>2. CASE \E q \in Runs : \E t, g : Begins(q, t, g)
  BY <1>2, BegunRun, AimedIsReady DEF Begins, OthersSame, Same
<1>. QED BY <1>1, <1>2, OtherEffect DEF Rests, Queues, Dispatches, StartsPlan, Retries

LEMMA MetByRun ==
  ASSUME IInv, OneRunInv, MetInv, WaitInv, PhaseInv, FindsGraphs, NEW r \in Runs, Run(r)
  PROVE  MetInv'
<1>. USE DEF IInv
<1>0. status \in [Tasks -> TaskStatus] /\ target \in [Tasks -> Tasks \cup {NoTask}]
      /\ deps \in [Tasks -> SUBSET Tasks]
  BY DEF StoreOK, StoreTypeOK
<1>1. /\ op' = op /\ (op'.pc = "dispatch" => op'.task \in Tasks /\ Met(op'.task))
      /\ \A q \in Runs : runs'[q].pc = "bootstrap" => runs'[q].aim \in Tasks /\ Met(runs'[q].aim)
  BY DispatchedIsReady, AimByRun DEF Run
<1>2. CASE Works(r) \/ Talks(r) \/ Takes(r)
  BY <1>0, <1>1, <1>2, MetKept DEF Works, Talks, Takes, storeVars, rowVars
<1>3. CASE PreAssigns(r)
  BY <1>0, <1>1, <1>3, MetKept DEF PreAssigns, PreAssignTaskGraph
<1>4. CASE \E st \in TerminalTask : Ends(r, st)
  <2>1. PICK st \in TerminalTask : Ends(r, st)
    BY <1>4
  <2>2. runs[r].task \in Tasks /\ status[runs[r].task] = "in_progress"
    BY <2>1, RunTaskLemma DEF Ends, Live, OneRunInv
  <2>3. /\ UNCHANGED <<deps, target>>
        /\ \A t \in Tasks : t # runs[r].task => status'[t] = status[t]
    BY <1>0, <2>1 DEF Ends, UpdateTaskStatus, rowVars
  <2>. QED BY <1>0, <1>1, <2>2, <2>3, MetKept
<1>5. CASE Assigns(r)
  <2>1. runs[r].g = "fine" /\ runs[r].pc # "idle"
    BY <1>5 DEF Assigns, RunsOK, RunOK
  <2>2. runs[r].task \in Tasks /\ Parent(r) \in Tasks
    BY <2>1, RunTaskLemma
  <2>3. Met(Parent(r))
    BY <2>2 DEF MetInv, Parent, NoTask, Tasks
  <2>4. /\ UNCHANGED <<deps, target>> /\ status[Parent(r)] = "pending"
        /\ \A t \in Tasks : t # Parent(r) => status'[t] = status[t]
    BY <1>0, <1>5 DEF Assigns, AssignTaskToGraph
  <2>. QED BY <1>0, <1>1, <2>2, <2>3, <2>4, MetKept
<1>6. CASE Bootstraps(r)
  <2>1. PICK t \in Tasks, b \in Tasks : t = runs[r].aim /\ CreateBootstrap(b, t)
    BY <1>6 DEF Bootstraps
  <2>2. Met(t)
    BY <1>6, <2>1 DEF Bootstraps, MetInv
  <2>3. status[b] = "none" /\ deps[b] = {}
    BY <2>1 DEF CreateBootstrap, CreateTask, IsFresh, WaitInv
  <2>4. Met(b)
    BY <2>3 DEF Met
  <2>5. /\ UNCHANGED deps /\ target' = [target EXCEPT ![b] = t]
        /\ \A u \in Tasks : u # b => status'[u] = status[u]
    BY <1>0, <2>1 DEF CreateBootstrap, CreateTask
  <2>. QED BY <1>0, <1>1, <2>2, <2>3, <2>4, <2>5, MetKept
<1>7. CASE Adds(r)
  <2>1. PICK t \in Tasks : CreateTask(t, "pending", "none", NoTask, KidDepth(r))
    BY <1>7 DEF Adds
  <2>2. /\ UNCHANGED deps /\ target' = [target EXCEPT ![t] = NoTask]
        /\ status[t] = "none" /\ status'[t] = "pending"
        /\ \A u \in Tasks : u # t => status'[u] = status[u]
    BY <1>0, <2>1 DEF CreateTask, IsFresh
  <2>. QED BY <1>0, <1>1, <2>2, MetKept DEF NoTask
<1>8. CASE Joins(r)
  <2>1. Creating(r)
    BY <1>8, CreatorIs DEF Joins, WaitInv, Unlinked
  <2>2. PICK shape \in Links : AddTaskDependencies(Edges(runs[r].kids, shape))
    BY <1>8 DEF Joins
  <2>3. runs[r].kids \subseteq Tasks
    BY DEF RunsOK, RunState
  <2>4. \A e \in Edges(runs[r].kids, shape) : e[1] \in runs[r].kids
    BY ChoicesAssumption DEF Edges
  <2>5. UNCHANGED <<status, target>> /\ \A t \in Tasks : t \notin runs[r].kids => deps'[t] = deps[t]
    BY <1>0, <2>2, <2>4 DEF AddTaskDependencies
  <2>6. \A t \in runs[r].kids : status[t] = "pending"
    BY <2>1 DEF Creating
  <2>7. op.pc # "dispatch" /\ \A t \in Tasks : target[t] = NoTask
    BY <2>1 DEF Creating, Calm
  <2>9. \A q \in Runs : runs'[q].pc # "bootstrap"
    BY <1>8, <2>1 DEF Creating, Joins, OthersSame, Same, OverPC
  <2>8. \A t \in Tasks : status'[t] \notin {"none", "pending"} => Met(t)'
    BY <2>5, <2>6 DEF MetInv, Met
  <2>. QED BY <1>1, <2>5, <2>7, <2>8, <2>9 DEF MetInv
<1>. QED BY <1>2, <1>3, <1>4, <1>5, <1>6, <1>7, <1>8, RunEffect DEF Run

\* Where the loop is after a handler.
LEMMA AfterHandler ==
  /\ OpIdle.pc = "idle" /\ \A by : InTurn(by).pc = "llm"
  /\ \A pc : [OpIdle EXCEPT !.pc = pc].pc = pc
  /\ OpDone => op'.pc \in {"idle", "llm"}
  /\ OpReport => op'.pc = "llm"
<1>1. /\ OpIdle.pc = "idle" /\ \A by : InTurn(by).pc = "llm"
      /\ \A pc : [OpIdle EXCEPT !.pc = pc].pc = pc
  BY DEF OpIdle, InTurn
<1>. QED BY ONLY <1>1 DEF OpDone, OpReport

\* Where a step of the loop, the model or the client may leave the loop.
LEMMA LoopMoves ==
  ASSUME IInv, WaitInv, Undisturbed, Loop \/ Model \/ UserMessage \/ UserRetry
  PROVE  /\ cancel' = cancel
         /\ \/ op' = op /\ graph' = graph
            \/ /\ op'.pc \in {"idle", "llm", "bootstrap", "advance", "promote", "check", "complete"}
               /\ op'.pc = "complete" => CheckJobComplete
            \/ /\ op'.pc = "dispatch" /\ UNCHANGED graph
               /\ op'.task \in GetReadyTasks /\ op'.g = graph[op'.task] /\ op'.g # "none"
            \/ /\ op'.pc = "retry" /\ UNCHANGED graph /\ RetryTaskTool
               /\ op'.task \in Tasks /\ op'.g \in {graph[op'.task], "work"}
<1>. USE DEF IInv
<1>1. op \in OpState /\ graph \in [Tasks -> Graphs]
  BY DEF OpTypeOK, StoreOK, StoreTypeOK
<1>2. OpDone \/ OpReport => op'.pc \in {"idle", "llm"}
  BY AfterHandler
<1>3. \A pc : OpGoto(pc) => op'.pc = pc
  BY <1>1 DEF OpGoto, OpState
<1>4. cancel' = cancel
  BY DEF Loop, Model, UserMessage, UserRetry
<1>5. CASE TakeEvent
  <2>1. PICK ev : ev = Head(queue)
    OBVIOUS
  <2>2. ev \in Event
    <3>1. queue \in Seq(Event) /\ queue # <<>>
      BY <1>5 DEF TakeEvent, RunsTypeOK
    <3>. QED BY ONLY <2>1, <3>1
  <2>3. \/ op' = [OpIdle EXCEPT !.pc = "advance"] \/ op' = [OpIdle EXCEPT !.pc = "check"]
        \/ op' = InTurn("event") \/ op' = InTurn("user")
    BY <1>5, <2>1, <2>2 DEF TakeEvent, Event
  <2>. QED BY <1>4, <2>3, AfterHandler
<1>6. CASE AssignNextTask
  <2>1. CASE \E t \in {t \in GetReadyTasks : graph[t] # "none"} :
               op' = [op EXCEPT !.pc = "dispatch", !.task = t, !.g = graph[t],
                                !.busy = (Siblings(t) # {}), !.jobPending = (job = "pending")]
    BY <1>1, <1>6, <1>4, <2>1 DEF OpState, AssignNextTask, storeVars, rowVars
  <2>. QED BY <1>2, <1>6, <1>4, <2>1 DEF AssignNextTask
<1>7. CASE EndTurn \/ CheckJobComplete \/ CompleteJob \/ RecoverInterrupted
  <2>1. \/ op' = OpIdle \/ op' = [OpIdle EXCEPT !.pc = "advance"]
        \/ OpGoto("complete") /\ CheckJobComplete
    BY <1>7 DEF EndTurn, CheckJobComplete, CompleteJob, RecoverInterrupted
  <2>. QED BY <1>3, <1>4, <2>1, AfterHandler
<1>8. CASE DispatchGraphTask \/ QueueGraphTask \/ PromoteJob \/ DispatchCoarseDecompose
           \/ RetryDispatch \/ CreateJob
  BY <1>2, <1>3, <1>8, <1>4 DEF DispatchGraphTask, QueueGraphTask, PromoteJob,
          DispatchCoarseDecompose, RetryDispatch, CreateJob
<1>9. CASE RetryTaskTool
  BY <1>1, <1>9, <1>4 DEF RetryTaskTool, OpState, storeVars, rowVars
<1>10. CASE SetupWorkspace \/ UserMessage
  BY <1>10, <1>4 DEF SetupWorkspace, UserMessage, UpdateJobStatus, storeVars, rowVars
<1>11. CASE UserRetry
  BY <1>1, <1>11, <1>4 DEF UserRetry, RetryTask
<1>12. \/ TakeEvent \/ AssignNextTask
       \/ EndTurn \/ CheckJobComplete \/ CompleteJob \/ RecoverInterrupted
       \/ DispatchGraphTask \/ QueueGraphTask \/ PromoteJob \/ DispatchCoarseDecompose
       \/ RetryDispatch \/ CreateJob \/ RetryTaskTool \/ SetupWorkspace \/ UserMessage \/ UserRetry
  BY NothingDisturbs DEF Loop, LoopStep, Model, ModelStep
<1>. QED BY <1>5, <1>6, <1>7, <1>8, <1>9, <1>10, <1>11, <1>4, <1>12

LEMMA MetByOthers ==
  ASSUME IInv, MetInv, WaitInv, Undisturbed, Loop \/ Model \/ UserMessage \/ UserRetry
  PROVE  MetInv'
<1>. USE DEF IInv
<1>0. status \in [Tasks -> TaskStatus] /\ target \in [Tasks -> Tasks \cup {NoTask}]
      /\ deps \in [Tasks -> SUBSET Tasks]
  BY DEF StoreOK, StoreTypeOK
<1>1. /\ op'.pc = "dispatch" => op'.task \in Tasks /\ Met(op'.task)
      /\ \A q \in Runs : runs'[q].pc = "bootstrap" => runs'[q].aim \in Tasks /\ Met(runs'[q].aim)
  <2>1. ASSUME NEW t \in GetReadyTasks
        PROVE  t \in Tasks /\ Met(t)
    BY DEF GetReadyTasks, Met
  <2>. QED BY <2>1, DispatchedIsReady, LoopMoves, AimByOthers
<1>2. CASE Rests
  BY <1>0, <1>1, <1>2, MetKept DEF Rests, rowVars
<1>3. CASE Queues
  BY <1>0, <1>1, <1>3, MetKept DEF Queues, PreAssignTaskGraph
<1>4. CASE Dispatches
  <2>1. op.task \in Tasks /\ Met(op.task)
    BY <1>4 DEF Dispatches, OpAt, OpOK, Rows, MetInv
  <2>2. /\ UNCHANGED <<deps, target>> /\ status[op.task] = "pending"
        /\ \A t \in Tasks : t # op.task => status'[t] = status[t]
    BY <1>0, <1>4 DEF Dispatches, AssignTaskToGraph
  <2>. QED BY <1>0, <1>1, <2>1, <2>2, MetKept
<1>5. CASE StartsPlan
  <2>1. PICK b \in Tasks : CreateTask(b, "in_progress", "coarse", NoTask, 0)
    BY <1>5 DEF StartsPlan
  <2>2. status[b] = "none" /\ deps[b] = {}
    BY <2>1 DEF CreateTask, IsFresh, WaitInv
  <2>3. Met(b)
    BY <2>2 DEF Met
  <2>4. /\ UNCHANGED deps /\ target' = [target EXCEPT ![b] = NoTask]
        /\ \A u \in Tasks : u # b => status'[u] = status[u]
    BY <1>0, <2>1 DEF CreateTask
  <2>. QED BY <1>0, <1>1, <2>2, <2>3, <2>4, MetKept DEF NoTask
<1>6. CASE \E t \in Tasks, g \in Graphs : Retries(t, g)
  <2>1. PICK t \in Tasks : /\ UNCHANGED <<deps, target>> /\ status[t] = "failed"
                           /\ status' = [status EXCEPT ![t] = "in_progress"]
    BY <1>6 DEF Retries, RetryTask
  <2>. QED BY <1>0, <1>1, <2>1, MetKept
<1>. QED BY <1>2, <1>3, <1>4, <1>5, <1>6, OtherEffect

-----------------------------------------------------------------------------
(* Who waits, and for what. *)

LEMMA WaitByRun ==
  ASSUME IInv, OneRunInv, WaitInv, PhaseInv, FindsGraphs, NEW r \in Runs, Run(r)
  PROVE  WaitInv'
<1>. USE DEF IInv
<1>0. status \in [Tasks -> TaskStatus] /\ target \in [Tasks -> Tasks \cup {NoTask}]
      /\ deps \in [Tasks -> SUBSET Tasks] /\ graph \in [Tasks -> Graphs]
  BY DEF StoreOK, StoreTypeOK
<1>1. UNCHANGED <<op, cancel>> /\ (op.pc = "retry" => op.task \in Tasks)
  BY DEF Run, OpOK, Rows
<1>2. ASSUME \A t \in Tasks :
               /\ status'[t] = "none" => deps'[t] = {} /\ target'[t] = NoTask
               /\ status'[t] = "pending" => graph'[t] \in {"none", "work"}
               /\ graph[t] = "coarse" => op.pc # "retry" \/ op.task # t \/ graph'[t] = "coarse",
             \A q \in Runs : runs'[q].pc \in {"create", "link"} => runs'[q].g = "coarse"
      PROVE  WaitInv'
  BY <1>1, <1>2 DEF WaitInv
<1>3. CASE Works(r) \/ Talks(r) \/ Takes(r)
  <2>1. \A q \in Runs : runs'[q].pc \in {"create", "link"} => runs'[q].g = "coarse"
    BY <1>3 DEF Works, Talks, Tells, Takes, OthersSame, Same, SameTask, LivePC, WaitInv
  <2>2. UNCHANGED <<status, graph, target, deps>>
    BY <1>3 DEF Works, Talks, Takes, storeVars, rowVars
  <2>. QED BY <1>2, <2>1, <2>2 DEF WaitInv
<1>4. CASE PreAssigns(r)
  <2>1. \A q \in Runs : runs'[q].pc \in {"create", "link"} => runs'[q].g = "coarse"
    BY <1>4 DEF PreAssigns, Tells, OthersSame, Same, WaitInv
  <2>2. /\ UNCHANGED <<status, target, deps>> /\ status[Parent(r)] = "pending"
        /\ \A t \in Tasks : IF t = Parent(r) THEN graph'[t] = "work" ELSE graph'[t] = graph[t]
    BY <1>0, <1>4 DEF PreAssigns, PreAssignTaskGraph
  <2>. QED BY <1>2, <2>1, <2>2 DEF WaitInv
<1>5. CASE \E st \in TerminalTask : Ends(r, st)
  <2>1. PICK st \in TerminalTask : Ends(r, st)
    BY <1>5
  <2>2. \A q \in Runs : runs'[q].pc \in {"create", "link"} => runs'[q].g = "coarse"
    BY <2>1 DEF Ends, OthersSame, Same, WaitInv
  <2>3. /\ UNCHANGED <<graph, target, deps>>
        /\ \A t \in Tasks : status'[t] = status[t] \/ status'[t] \in TerminalTask
    BY <1>0, <2>1 DEF Ends, UpdateTaskStatus, rowVars
  <2>. QED BY <1>2, <2>2, <2>3 DEF WaitInv, TerminalTask
<1>6. CASE Assigns(r)
  <2>1. \A q \in Runs : runs'[q].pc \in {"create", "link"} => runs'[q].g = "coarse"
    BY <1>6, BegunRun DEF Assigns, Begins, OthersSame, Same, WaitInv
  <2>2. /\ UNCHANGED <<target, deps>> /\ status[Parent(r)] = "pending"
        /\ \A t \in Tasks : IF t = Parent(r)
                            THEN graph'[t] = "work" /\ status'[t] = "in_progress"
                            ELSE graph'[t] = graph[t] /\ status'[t] = status[t]
    BY <1>0, <1>6 DEF Assigns, AssignTaskToGraph
  <2>. QED BY <1>2, <2>1, <2>2 DEF WaitInv
<1>7. CASE Bootstraps(r)
  <2>1. PICK t \in Tasks, b \in Tasks, q \in Runs : CreateBootstrap(b, t) /\ Begins(q, b, "fine")
    BY <1>7 DEF Bootstraps
  <2>2. \A p \in Runs : runs'[p].pc \in {"create", "link"} => runs'[p].g = "coarse"
    BY <2>1, BegunRun DEF Begins, OthersSame, Same, WaitInv
  <2>3. /\ UNCHANGED deps /\ status[b] = "none"
        /\ \A u \in Tasks : IF u = b
                            THEN status'[u] = "in_progress"
                            ELSE /\ graph'[u] = graph[u] /\ status'[u] = status[u]
                                 /\ target'[u] = target[u]
    BY <1>0, <2>1 DEF CreateBootstrap, CreateTask, IsFresh
  <2>4. op.pc = "retry" => op.task # b
    BY <2>3 DEF OpOK, Rows
  <2>. QED BY <1>2, <2>2, <2>3, <2>4 DEF WaitInv
<1>8. CASE Adds(r)
  <2>1. PICK t \in Tasks : CreateTask(t, "pending", "none", NoTask, KidDepth(r))
    BY <1>8 DEF Adds
  <2>2. \A p \in Runs : runs'[p].pc \in {"create", "link"} => runs'[p].g = "coarse"
    BY <1>8 DEF Adds, OthersSame, Same, WaitInv
  <2>3. /\ UNCHANGED deps /\ status[t] = "none"
        /\ \A u \in Tasks : IF u = t
                            THEN status'[u] = "pending" /\ graph'[u] = "none"
                            ELSE /\ graph'[u] = graph[u] /\ status'[u] = status[u]
                                 /\ target'[u] = target[u]
    BY <1>0, <2>1 DEF CreateTask, IsFresh
  <2>4. op.pc = "retry" => op.task # t
    BY <2>3 DEF OpOK, Rows
  <2>. QED BY <1>2, <2>2, <2>3, <2>4 DEF WaitInv
<1>9. CASE Joins(r)
  <2>1. Creating(r)
    BY <1>9, CreatorIs DEF Joins, WaitInv, Unlinked
  <2>2. PICK shape \in Links : AddTaskDependencies(Edges(runs[r].kids, shape))
    BY <1>9 DEF Joins
  <2>3. \A e \in Edges(runs[r].kids, shape) : e[1] \in runs[r].kids
    BY ChoicesAssumption DEF Edges
  <2>4. /\ UNCHANGED <<status, target, graph>>
        /\ \A t \in Tasks : t \notin runs[r].kids => deps'[t] = deps[t]
    BY <1>0, <2>2, <2>3 DEF AddTaskDependencies
  <2>5. \A t \in runs[r].kids : status[t] = "pending"
    BY <2>1 DEF Creating
  <2>6. \A p \in Runs : runs'[p].pc \in {"create", "link"} => runs'[p].g = "coarse"
    BY <1>9 DEF Joins, OthersSame, Same, WaitInv
  <2>. QED BY <1>2, <2>4, <2>5, <2>6 DEF WaitInv
<1>. QED BY <1>3, <1>4, <1>5, <1>6, <1>7, <1>8, <1>9, RunEffect DEF Run

LEMMA WaitByOthers ==
  ASSUME IInv, WaitInv, Undisturbed, Loop \/ Model \/ UserMessage \/ UserRetry
  PROVE  WaitInv'
<1>. USE DEF IInv
<1>0. status \in [Tasks -> TaskStatus] /\ target \in [Tasks -> Tasks \cup {NoTask}]
      /\ deps \in [Tasks -> SUBSET Tasks] /\ graph \in [Tasks -> Graphs]
  BY DEF StoreOK, StoreTypeOK
<1>1. /\ op'.pc \notin {"insert", "announce", "decompose", "gate"} /\ cancel'.pc = "idle"
      /\ op'.pc = "dispatch" => op'.g = "work"
      /\ op'.pc = "retry" /\ op'.g = "coarse" => graph'[op'.task] = "coarse"
  <2>1. \A t \in GetReadyTasks : graph[t] \in {"none", "work"}
    BY DEF GetReadyTasks, WaitInv
  <2>2. CASE op' = op /\ graph' = graph /\ cancel' = cancel
    BY <2>2 DEF WaitInv
  <2>3. CASE op'.pc # "dispatch" /\ op'.pc # "retry"
    BY <2>3, LoopMoves DEF WaitInv
  <2>. QED BY <2>1, <2>2, <2>3, LoopMoves DEF WaitInv
<1>2. ASSUME \A t \in Tasks :
               /\ status'[t] = "none" => deps'[t] = {} /\ target'[t] = NoTask
               /\ status'[t] = "pending" => graph'[t] \in {"none", "work"},
             \A q \in Runs : runs'[q].pc \in {"create", "link"} => runs'[q].g = "coarse"
      PROVE  WaitInv'
  BY <1>1, <1>2 DEF WaitInv
<1>3. ASSUME NEW q \in Runs, NEW t, NEW g, Begins(q, t, g)
      PROVE  \A p \in Runs : runs'[p].pc \in {"create", "link"} => runs'[p].g = "coarse"
  BY <1>3, BegunRun DEF Begins, OthersSame, Same, WaitInv
<1>4. CASE Rests
  BY <1>2, <1>4 DEF Rests, rowVars, WaitInv
<1>5. CASE Queues
  <2>1. /\ UNCHANGED <<status, target, deps, runs>> /\ op.g = "work"
        /\ \A t \in Tasks : graph'[t] \in {graph[t], "work"}
    BY <1>0, <1>5 DEF Queues, PreAssignTaskGraph, OpAt, WaitInv
  <2>. QED BY <1>2, <2>1 DEF WaitInv
<1>6. CASE Dispatches
  <2>1. /\ UNCHANGED <<target, deps>> /\ op.g = "work"
        /\ \A t \in Tasks : IF t = op.task
                            THEN status'[t] = "in_progress"
                            ELSE status'[t] = status[t] /\ graph'[t] = graph[t]
    BY <1>0, <1>6 DEF Dispatches, AssignTaskToGraph, OpAt, WaitInv
  <2>. QED BY <1>2, <1>3, <1>6, <2>1 DEF WaitInv, Dispatches
<1>7. CASE StartsPlan
  <2>1. PICK b \in Tasks : /\ CreateTask(b, "in_progress", "coarse", NoTask, 0)
                           /\ \E q \in Runs : Begins(q, b, "coarse")
    BY <1>7 DEF StartsPlan
  <2>2. /\ UNCHANGED deps
        /\ \A u \in Tasks : IF u = b
                            THEN status'[u] = "in_progress"
                            ELSE /\ graph'[u] = graph[u] /\ status'[u] = status[u]
                                 /\ target'[u] = target[u]
    BY <1>0, <2>1 DEF CreateTask
  <2>. QED BY <1>2, <1>3, <2>1, <2>2 DEF WaitInv
<1>8. CASE \E t \in Tasks, g \in Graphs : Retries(t, g)
  <2>1. PICK t \in Tasks, g \in Graphs : Retries(t, g)
    BY <1>8
  <2>2. /\ UNCHANGED <<target, deps>>
        /\ \A u \in Tasks : IF u = t
                            THEN status'[u] = "in_progress"
                            ELSE status'[u] = status[u] /\ graph'[u] = graph[u]
    BY <1>0, <2>1 DEF Retries, RetryTask
  <2>. QED BY <1>2, <1>3, <2>1, <2>2 DEF WaitInv, Retries
<1>. QED BY <1>4, <1>5, <1>6, <1>7, <1>8, OtherEffect

-----------------------------------------------------------------------------
(* From one phase of the plan to the next. *)

\* What the loop may do while nothing was completed or dispatched yet.
LEMMA CalmLoop ==
  ASSUME IInv, Unfinished, op.pc \in {"idle", "llm", "retry"}, job # "none",
         Loop \/ Model \/ UserMessage \/ UserRetry, WaitInv, Undisturbed
  PROVE  /\ Unfinished' /\ op'.pc \in {"idle", "llm", "retry"} /\ job' # "none"
         /\ Rests \/ \E t \in Tasks, g \in Graphs : Retries(t, g)
<1>. USE DEF IInv, OpAt
<1>1. op \in OpState /\ queue \in Seq(Event)
  BY DEF OpTypeOK, RunsTypeOK
<1>2. CASE TakeEvent
  <2>1. PICK ev : ev = Head(queue)
    OBVIOUS
  <2>2. queue # <<>> /\ queue' = Tail(queue)
    BY <1>2 DEF TakeEvent
  <2>3. Unfinished'
    BY <1>1, <2>2 DEF Unfinished
  <2>4. ev \in Event /\ ev.type # "completed"
    BY <1>1, <2>1, <2>2 DEF Unfinished
  <2>5. op' = InTurn("event") \/ op' = InTurn("user")
    BY <1>2, <2>1, <2>4 DEF TakeEvent, Event
  <2>6. job' = job /\ Rests
    BY <1>2 DEF TakeEvent, Rests, storeVars, rowVars
  <2>. QED BY <2>3, <2>5, <2>6, AfterHandler
<1>3. CASE UserMessage
  <2>1. PICK ev : ev = [type |-> "user", next |-> FALSE]
    OBVIOUS
  <2>2. queue' = Append(queue, ev) /\ ev.type = "user"
    BY <1>3, <2>1 DEF UserMessage
  <2>3. Unfinished'
    BY <1>1, <2>2 DEF Unfinished
  <2>. QED BY <1>3, <2>3 DEF UserMessage, Rests, storeVars, rowVars
<1>4. queue' = queue => Unfinished'
  BY DEF Unfinished
<1>5. CASE EndTurn
  BY <1>4, <1>5, AfterHandler DEF EndTurn, Rests, runVars, storeVars, rowVars
<1>6. CASE RetryTaskTool
  BY <1>1, <1>4, <1>6 DEF RetryTaskTool, OpState, Rests, runVars, storeVars, rowVars
<1>7. CASE SetupWorkspace
  BY <1>4, <1>7 DEF SetupWorkspace, UpdateJobStatus, Rests, runVars, rowVars
<1>8. CASE RetryDispatch
  <2>1. queue' = queue /\ OpDone /\ job' = job
    BY <1>8 DEF RetryDispatch, RetryTask, storeVars
  <2>2. Rests \/ \E t \in Tasks, g \in Graphs : Retries(t, g)
    BY <1>8, OtherEffect DEF RetryDispatch, Queues, Dispatches, StartsPlan
  <2>. QED BY <1>4, <2>1, <2>2, AfterHandler
<1>9. CASE UserRetry
  <2>1. queue' = queue /\ op' = op /\ job' = job
    BY <1>9 DEF UserRetry, RetryTask
  <2>2. Rests \/ \E t \in Tasks, g \in Graphs : Retries(t, g)
    BY OtherEffect DEF Queues, Dispatches, StartsPlan
  <2>. QED BY <1>4, <2>1, <2>2
<1>10. /\ ~CheckJobComplete /\ ~CompleteJob /\ ~AssignNextTask /\ ~DispatchGraphTask
       /\ ~QueueGraphTask /\ ~PromoteJob /\ ~DispatchCoarseDecompose /\ ~RecoverInterrupted
       /\ ~CreateJob
  BY DEF CheckJobComplete, CompleteJob, AssignNextTask, DispatchGraphTask, QueueGraphTask,
         PromoteJob, DispatchCoarseDecompose, RecoverInterrupted, CreateJob
<1>. QED BY <1>2, <1>3, <1>5, <1>6, <1>7, <1>8, <1>9, <1>10, NothingDisturbs
         DEF Loop, LoopStep, Model, ModelStep

LEMMA EmptyByOthers ==
  ASSUME IInv, WaitInv, Empty, Undisturbed, Loop \/ Model \/ UserMessage \/ UserRetry
  PROVE  Empty' \/ Planning'
<1>. USE DEF IInv, OpAt
<1>0. op \in OpState /\ queue \in Seq(Event) /\ status \in [Tasks -> TaskStatus]
      /\ graph \in [Tasks -> Graphs] /\ target \in [Tasks -> Tasks \cup {NoTask}]
  BY DEF OpTypeOK, RunsTypeOK, StoreOK, StoreTypeOK
<1>1. \A t \in Tasks : status[t] = "none" /\ target[t] = NoTask
  BY DEF Empty, Rows, WaitInv
<1>2. ~RetryTaskTool /\ ~UserRetry
  BY <1>1 DEF RetryTaskTool, UserRetry, RetryTask
<1>3. CASE DispatchCoarseDecompose
  <2>1. PICK b \in Tasks : /\ CreateTask(b, "in_progress", "coarse", NoTask, 0)
                           /\ Spawn(b, "coarse", "service")
    BY <1>3 DEF DispatchCoarseDecompose
  <2>2. PICK q \in Runs : Begins(q, b, "coarse")
    BY <2>1, SpawnBegins DEF Graphs
  <2>3. \A p \in Runs : runs'[p].pc \in LivePC \cup OverPC
    BY <2>2, BegunRun DEF Begins, OthersSame, Same, Empty, LivePC, OverPC
  <2>4. /\ status'[b] = "in_progress" /\ graph'[b] = "coarse"
        /\ \A t \in Tasks : target'[t] = NoTask /\ (t # b => status'[t] = "none")
    BY <1>0, <1>1, <2>1 DEF CreateTask
  <2>5. Rows' = {b}
    BY <2>4 DEF Rows
  <2>6. op'.pc \in {"idle", "llm"} /\ queue' = queue /\ job' = job /\ job # "none"
    BY <1>3, <2>1, AfterHandler DEF DispatchCoarseDecompose, CreateTask, Empty
  <2>7. Calm'
    BY <2>4, <2>6 DEF Calm, Unfinished, Empty
  <2>. QED BY <2>3, <2>4, <2>5, <2>7 DEF Planning
<1>4. CASE CreateJob
  <2>1. op'.pc = "bootstrap" /\ job' # "none" /\ UNCHANGED <<status, runs, queue>>
    BY <1>0, <1>4 DEF CreateJob, OpGoto, OpState, UpdateJobStatus, runVars
  <2>. QED BY <2>1 DEF Empty, Rows, Unfinished
<1>5. CASE TakeEvent \/ EndTurn \/ SetupWorkspace \/ UserMessage
  <2>1. UNCHANGED <<status, runs>> /\ (job = "none" => job' = job) /\ (job # "none" => job' # "none")
    BY <1>5 DEF TakeEvent, EndTurn, SetupWorkspace, UserMessage, storeVars, runVars, UpdateJobStatus
  <2>2. CASE TakeEvent
    <3>1. PICK ev : ev = Head(queue)
      OBVIOUS
    <3>2. queue # <<>> /\ queue' = Tail(queue)
      BY <2>2 DEF TakeEvent
    <3>3. Unfinished'
      BY <1>0, <3>2 DEF Unfinished, Empty
    <3>4. ev \in Event /\ ev.type # "completed"
      BY <1>0, <3>1, <3>2 DEF Unfinished, Empty
    <3>5. op' = InTurn("event") \/ op' = InTurn("user")
      BY <2>2, <3>1, <3>4 DEF TakeEvent, Event
    <3>6. op'.pc = "llm"
      BY <3>5, AfterHandler
    <3>. QED BY <2>1, <3>3, <3>6 DEF Empty, Rows
  <2>3. CASE UserMessage
    <3>1. PICK ev : ev = [type |-> "user", next |-> FALSE]
      OBVIOUS
    <3>2. queue' = Append(queue, ev) /\ ev.type = "user"
      BY <2>3, <3>1 DEF UserMessage
    <3>3. Unfinished'
      BY <1>0, <3>2 DEF Unfinished, Empty
    <3>4. op' = op /\ job' = job
      BY <2>3 DEF UserMessage, storeVars
    <3>. QED BY <2>1, <3>3, <3>4 DEF Empty, Rows
  <2>4. CASE EndTurn
    <3>1. op'.pc = "idle" /\ queue' = queue
      BY <2>4, AfterHandler DEF EndTurn, runVars
    <3>. QED BY <2>1, <3>1 DEF Empty, Rows, Unfinished
  <2>5. CASE SetupWorkspace
    <3>1. op' = op /\ queue' = queue /\ job # "none"
      BY <2>5 DEF SetupWorkspace, runVars
    <3>. QED BY <2>1, <3>1 DEF Empty, Rows, Unfinished
  <2>. QED BY <1>5, <2>2, <2>3, <2>4, <2>5
<1>6. /\ ~CheckJobComplete /\ ~CompleteJob /\ ~AssignNextTask /\ ~DispatchGraphTask
      /\ ~QueueGraphTask /\ ~PromoteJob /\ ~RecoverInterrupted /\ ~RetryDispatch
  BY DEF CheckJobComplete, CompleteJob, AssignNextTask, DispatchGraphTask, QueueGraphTask,
         PromoteJob, RecoverInterrupted, RetryDispatch, Empty
<1>. QED BY <1>2, <1>3, <1>4, <1>5, <1>6, NothingDisturbs DEF Loop, LoopStep, Model, ModelStep

LEMMA PlanningByOthers ==
  ASSUME IInv, WaitInv, Planning, Undisturbed, Loop \/ Model \/ UserMessage \/ UserRetry
  PROVE  Planning' \/ Settled'
<1>. USE DEF IInv
<1>0. status \in [Tasks -> TaskStatus] /\ graph \in [Tasks -> Graphs]
  BY DEF StoreOK, StoreTypeOK
<1>1. /\ Unfinished' /\ op'.pc \in {"idle", "llm", "retry"} /\ job' # "none"
      /\ Rests \/ \E t \in Tasks, g \in Graphs : Retries(t, g)
  BY CalmLoop DEF Planning, Calm
<1>2. PICK c \in Tasks : /\ Rows = {c} /\ graph[c] = "coarse"
                         /\ status[c] \in {"in_progress", "failed"}
  BY DEF Planning
<1>3. CASE Rests
  BY <1>1, <1>3 DEF Planning, Calm, Rests, rowVars, Rows
<1>4. CASE \E t \in Tasks, g \in Graphs : Retries(t, g)
  <2>1. PICK t \in Tasks, g \in Graphs : Retries(t, g)
    BY <1>4
  <2>2. PICK q \in Runs : Begins(q, t, g)
    BY <2>1 DEF Retries
  <2>3. \A p \in Runs : runs'[p].pc \in LivePC \cup OverPC
    BY <2>2, BegunRun DEF Begins, OthersSame, Same, Planning, LivePC, OverPC
  <2>4. t = c
    BY <1>2, <2>1 DEF Retries, RetryTask, Rows
  <2>5. /\ status'[c] = "in_progress" /\ graph'[c] = g /\ target' = target
        /\ \A u \in Tasks : u # c => status'[u] = status[u] /\ graph'[u] = graph[u]
    BY <1>0, <2>1, <2>4 DEF Retries, RetryTask
  <2>6. Rows' = {c}
    BY <1>2, <2>5 DEF Rows
  <2>7. Calm'
    BY <1>1, <2>5 DEF Calm, Planning
  <2>8. CASE g = "coarse"
    BY <2>3, <2>5, <2>6, <2>7, <2>8 DEF Planning
  <2>9. CASE g # "coarse"
    <3>1. \A u \in Tasks : graph'[u] = "coarse" => status'[u] = "none"
      BY <1>2, <2>5, <2>6, <2>9 DEF Rows
    <3>2. \A p \in Runs : ~Unlinked(p)'
      BY <2>3 DEF Unlinked, LivePC, OverPC
    <3>. QED BY <1>1, <2>6, <3>1, <3>2 DEF Settled
  <2>. QED BY <2>8, <2>9
<1>. QED BY <1>1, <1>3, <1>4

LEMMA CreatingByOthers ==
  ASSUME IInv, WaitInv, NEW s \in Runs, Creating(s), Undisturbed,
         Loop \/ Model \/ UserMessage \/ UserRetry
  PROVE  Creating(s)'
<1>1. /\ Unfinished' /\ op'.pc \in {"idle", "llm", "retry"} /\ job' # "none"
      /\ Rests \/ \E t \in Tasks, g \in Graphs : Retries(t, g)
  BY CalmLoop DEF Creating, Calm
<1>2. \A t \in Tasks : status[t] # "failed"
  BY DEF Creating, Rows
<1>3. \A t \in Tasks, g \in Graphs : ~Retries(t, g)
  BY <1>2 DEF Retries, RetryTask
<1>4. Rests
  BY <1>1, <1>3
<1>5. Calm'
  BY <1>1, <1>4 DEF Calm, Creating, Rests, rowVars
<1>. QED BY <1>4, <1>5 DEF Creating, Rests, rowVars, Rows, Unlinked

\* A job once created stays, and its plan is started once.
LEMMA JobStays ==
  ASSUME IInv, job # "none", op.pc # "bootstrap", WaitInv, Undisturbed,
         Loop \/ Model \/ UserMessage \/ UserRetry
  PROVE  job' # "none" /\ op'.pc # "bootstrap"
<1>. USE DEF IInv, OpAt
<1>1. op \in OpState
  BY DEF OpTypeOK
<1>2. OpDone \/ OpReport => op'.pc \in {"idle", "llm"}
  BY AfterHandler
<1>3. \A pc : OpGoto(pc) => op'.pc = pc
  BY <1>1 DEF OpGoto, OpState
<1>4. op'.pc # "bootstrap"
  <2>1. CASE op' = op
    BY <2>1
  <2>2. ~CreateJob /\ ~DispatchCoarseDecompose
    BY DEF CreateJob, DispatchCoarseDecompose
  <2>3. CASE TakeEvent
    <3>1. PICK ev : ev = Head(queue)
      OBVIOUS
    <3>2. ev \in Event
      <4>1. queue \in Seq(Event) /\ queue # <<>>
        BY <2>3 DEF TakeEvent, RunsTypeOK
      <4>. QED BY ONLY <3>1, <4>1
    <3>3. \/ op' = [OpIdle EXCEPT !.pc = "advance"] \/ op' = [OpIdle EXCEPT !.pc = "check"]
          \/ op' = InTurn("event") \/ op' = InTurn("user")
      BY <2>3, <3>1, <3>2 DEF TakeEvent, Event
    <3>. QED BY <3>3, AfterHandler
  <2>4. CASE EndTurn \/ CheckJobComplete \/ CompleteJob \/ RecoverInterrupted
    <3>1. \/ op' = OpIdle \/ op' = [OpIdle EXCEPT !.pc = "advance"] \/ OpGoto("complete")
      BY <2>4 DEF EndTurn, CheckJobComplete, CompleteJob, RecoverInterrupted
    <3>. QED BY <1>3, <3>1, AfterHandler
  <2>5. CASE AssignNextTask \/ RetryTaskTool
    BY <1>1, <1>2, <2>5 DEF AssignNextTask, RetryTaskTool, OpState
  <2>6. CASE DispatchGraphTask \/ QueueGraphTask \/ PromoteJob \/ RetryDispatch
    BY <1>2, <1>3, <2>6 DEF DispatchGraphTask, QueueGraphTask, PromoteJob, RetryDispatch
  <2>7. CASE SetupWorkspace \/ UserMessage \/ UserRetry
    BY <2>7 DEF SetupWorkspace, UserMessage, UserRetry
  <2>. QED BY <2>2, <2>3, <2>4, <2>5, <2>6, <2>7, NothingDisturbs
           DEF Loop, LoopStep, Model, ModelStep
<1>5. job' # "none"
  <2>1. CASE \/ TakeEvent \/ EndTurn \/ CheckJobComplete \/ AssignNextTask \/ RecoverInterrupted
             \/ RetryTaskTool \/ UserMessage
    BY <2>1 DEF TakeEvent, EndTurn, CheckJobComplete, AssignNextTask, RecoverInterrupted,
                RetryTaskTool, UserMessage, storeVars
  <2>2. CASE CompleteJob \/ PromoteJob \/ CreateJob \/ SetupWorkspace
    BY <2>2 DEF CompleteJob, PromoteJob, CreateJob, SetupWorkspace, UpdateJobStatus
  <2>3. CASE DispatchGraphTask \/ QueueGraphTask \/ DispatchCoarseDecompose \/ RetryDispatch
             \/ UserRetry
    BY <2>3 DEF DispatchGraphTask, QueueGraphTask, DispatchCoarseDecompose, RetryDispatch, UserRetry,
                AssignTaskToGraph, PreAssignTaskGraph, CreateTask, RetryTask, storeVars
  <2>. QED BY <2>1, <2>2, <2>3, NothingDisturbs DEF Loop, LoopStep, Model, ModelStep
<1>. QED BY <1>4, <1>5

LEMMA SettledByOthers ==
  ASSUME IInv, WaitInv, Settled, Undisturbed, Loop \/ Model \/ UserMessage \/ UserRetry
  PROVE  Settled'
<1>. USE DEF IInv
<1>0. status \in [Tasks -> TaskStatus] /\ graph \in [Tasks -> Graphs]
  BY DEF StoreOK, StoreTypeOK
<1>1. job' # "none" /\ op'.pc # "bootstrap"
  BY JobStays DEF Settled
<1>2. ASSUME \A t \in Tasks : status'[t] = "none" => status[t] = "none",
             \A c \in Tasks : graph'[c] = "coarse" => status'[c] \notin {"in_progress", "failed"},
             \A p \in Runs : ~Unlinked(p)'
      PROVE  Settled'
  BY <1>1, <1>2 DEF Settled, Rows
<1>3. ASSUME NEW q \in Runs, NEW t, NEW g, Begins(q, t, g)
      PROVE  \A p \in Runs : ~Unlinked(p)'
  BY <1>3, BegunRun DEF Begins, OthersSame, Same, Settled, Unlinked
<1>4. CASE Rests
  BY <1>2, <1>4 DEF Rests, rowVars, Settled, Unlinked
<1>5. CASE Queues
  <2>1. op.g = "work" /\ UNCHANGED <<status, runs>> /\ graph' = [graph EXCEPT ![op.task] = op.g]
    BY <1>5 DEF Queues, PreAssignTaskGraph, OpAt, WaitInv
  <2>2. \A c \in Tasks : graph'[c] = "coarse" => graph[c] = "coarse"
    BY <1>0, <2>1
  <2>. QED BY <1>2, <2>1, <2>2 DEF Settled, Unlinked
<1>6. CASE Dispatches
  <2>1. /\ op.g = "work" /\ status' = [status EXCEPT ![op.task] = "in_progress"]
        /\ graph' = [graph EXCEPT ![op.task] = op.g]
    BY <1>6 DEF Dispatches, AssignTaskToGraph, OpAt, WaitInv
  <2>2. \A c \in Tasks : graph'[c] = "coarse" => graph[c] = "coarse" /\ status'[c] = status[c]
    BY <1>0, <2>1
  <2>3. \A t \in Tasks : status'[t] = "none" => status[t] = "none"
    BY <1>0, <2>1
  <2>. QED BY <1>2, <1>3, <1>6, <2>2, <2>3 DEF Settled, Dispatches
<1>7. ~StartsPlan
  BY DEF StartsPlan, OpAt, Settled
<1>8. CASE \E t \in Tasks, g \in Graphs : Retries(t, g)
  <2>1. PICK t \in Tasks, g \in Graphs : Retries(t, g)
    BY <1>8
  <2>2. g # "coarse"
    BY <2>1 DEF Retries, RetryTask, OpAt, WaitInv, Settled
  <2>3. /\ status' = [status EXCEPT ![t] = "in_progress"] /\ graph' = [graph EXCEPT ![t] = g]
    BY <2>1 DEF Retries, RetryTask
  <2>4. \A c \in Tasks : graph'[c] = "coarse" => graph[c] = "coarse" /\ status'[c] = status[c]
    BY <1>0, <2>2, <2>3
  <2>5. \A u \in Tasks : status'[u] = "none" => status[u] = "none"
    BY <1>0, <2>3
  <2>. QED BY <1>2, <1>3, <2>1, <2>4, <2>5 DEF Settled, Retries
<1>. QED BY <1>4, <1>5, <1>6, <1>7, <1>8, OtherEffect

\* What a run leaves to the loop and the client.
LEMMA QuietRun ==
  ASSUME IInv, NEW r \in Runs, Run(r), Calm, UNCHANGED <<queue, target, job>>
  PROVE  Calm'
BY DEF Run, Calm, Unfinished

LEMMA TalkKeepsCalm ==
  ASSUME IInv, NEW r \in Runs, Run(r), Calm, Talks(r), runs[r].pc # "announce"
  PROVE  Calm'
<1>1. queue \in Seq(Event)
  BY DEF IInv, RunsTypeOK
<1>2. CASE UNCHANGED queue
  BY <1>2 DEF Talks, Run, Calm, Unfinished, rowVars
<1>3. CASE \E ev \in Event : queue' = Append(queue, ev) /\ ev.type # "completed"
  <2>1. Unfinished'
    BY <1>1, <1>3 DEF Calm, Unfinished
  <2>. QED BY <2>1 DEF Talks, Run, Calm, rowVars
<1>. QED BY <1>2, <1>3 DEF Talks, Tells

LEMMA EmptyByRun ==
  ASSUME IInv, WaitInv, Empty, FindsGraphs, NEW r \in Runs, Run(r)
  PROVE  FALSE
<1>1. runs[r].pc = "idle"
  BY DEF Empty
<1>. QED BY <1>1, RunEffect DEF Run, Works, Ends, Talks, PreAssigns, Tells, Assigns, Bootstraps,
                                Takes, Adds, Joins, Live

LEMMA PlanningByRun ==
  ASSUME IInv, OneRunInv, WaitInv, Planning, FindsGraphs, NEW r \in Runs, Run(r)
  PROVE  Planning' \/ Settled' \/ Creating(r)'
<1>. USE DEF IInv
<1>0. status \in [Tasks -> TaskStatus] /\ op' = op
  BY DEF StoreOK, StoreTypeOK, Run
<1>1. Calm /\ \A q \in Runs : runs[q].pc \in LivePC \cup OverPC
  BY DEF Planning
<1>2. PICK c \in Tasks : /\ Rows = {c} /\ graph[c] = "coarse"
                         /\ status[c] \in {"in_progress", "failed"}
  BY DEF Planning
<1>3. CASE Works(r)
  <2>1. UNCHANGED <<status, graph, target, job, queue>>
    BY <1>3 DEF Works, storeVars
  <2>2. \A q \in Runs : runs'[q].pc \in LivePC \cup OverPC
    BY <1>1, <1>3 DEF Works, OthersSame, Same, LivePC, OverPC
  <2>. QED BY <1>1, <1>2, <2>1, <2>2, QuietRun DEF Planning, Rows
<1>4. CASE Talks(r)
  <2>1. runs[r].pc \in OverPC
    BY <1>1, <1>4 DEF Talks, Tells
  <2>2. runs[r].pc # "announce"
    BY <2>1 DEF OverPC
  <2>3. \A q \in Runs : runs'[q].pc \in LivePC \cup OverPC
    BY <1>1, <1>4, <2>1 DEF Talks, Tells, OthersSame, Same, LivePC, OverPC
  <2>. QED BY <1>1, <1>2, <1>4, <2>2, <2>3, TalkKeepsCalm DEF Planning, Rows, Talks, rowVars
<1>5. CASE \E st \in TerminalTask : Ends(r, st)
  <2>1. PICK st \in TerminalTask : Ends(r, st)
    BY <1>5
  <2>2. /\ runs[r].task = c /\ runs[r].g = "coarse" /\ runs[r].kids = {}
        /\ \A q \in Runs \ {r} : ~Live(q)
    <3>1. \A q \in Runs : Live(q) => runs[q].task = c
      BY <1>2, RunTaskLemma DEF OneRunInv, Live, Rows
    <3>. QED BY <1>2, <2>1, <3>1 DEF OneRunInv, Ends
  <2>3. \A q \in Runs \ {r} : runs'[q].pc \in OverPC
    BY <1>1, <2>1, <2>2 DEF Ends, OthersSame, Same, Live, LivePC, OverPC
  <2>4. /\ UNCHANGED <<graph, target, job, queue>> /\ status'[c] = st
        /\ \A t \in Tasks : t # c => status'[t] = status[t]
    BY <1>0, <2>1, <2>2 DEF Ends, UpdateTaskStatus, rowVars
  <2>5. Calm' /\ Rows' = {c}
    BY <1>1, <1>2, <2>4, QuietRun DEF Rows, TerminalTask
  <2>6. CASE st = "completed"
    <3>1. /\ runs'[r].pc = "completed" /\ runs'[r].task = c /\ runs'[r].g = "coarse"
          /\ runs'[r].kids = {}
      BY <2>1, <2>2, <2>6 DEF Ends, SameTask
    <3>. QED BY <1>2, <2>3, <2>4, <2>5, <2>6, <3>1 DEF Creating, Unlinked
  <2>7. CASE st = "failed"
    <3>1. runs'[r].pc \in OverPC
      BY <2>1, <2>7 DEF Ends, OverPC
    <3>. QED BY <1>2, <2>3, <2>4, <2>5, <2>7, <3>1 DEF Planning
  <2>8. CASE st = "cancelled"
    <3>1. runs'[r].pc \in OverPC
      BY <2>1, <2>8 DEF Ends, OverPC
    <3>2. \A q \in Runs : ~Unlinked(q)'
      BY <2>3, <3>1 DEF Unlinked, OverPC
    <3>3. \A t \in Tasks : status'[t] \in {"none", "cancelled"}
      BY <1>2, <2>4, <2>8 DEF Rows
    <3>4. op'.pc # "bootstrap" /\ job' # "none"
      BY <2>5 DEF Calm
    <3>. QED BY <2>5, <3>2, <3>3, <3>4 DEF Settled
  <2>. QED BY <2>6, <2>7, <2>8 DEF TerminalTask
<1>6. /\ ~PreAssigns(r) /\ ~Assigns(r) /\ ~Bootstraps(r)
      /\ ~Takes(r) /\ ~Adds(r) /\ ~Joins(r)
  BY <1>1 DEF PreAssigns, Assigns, Bootstraps, Takes, Adds, Joins, LivePC, OverPC
<1>. QED BY <1>3, <1>4, <1>5, <1>6, RunEffect DEF Run

LEMMA CreatingByRun ==
  ASSUME IInv, WaitInv, NEW s \in Runs, Creating(s), FindsGraphs, NEW r \in Runs, Run(r)
  PROVE  Creating(s)' \/ Settled'
<1>. USE DEF IInv
<1>0. status \in [Tasks -> TaskStatus] /\ graph \in [Tasks -> Graphs]
      /\ target \in [Tasks -> Tasks \cup {NoTask}] /\ op' = op
  BY DEF StoreOK, StoreTypeOK, Run
<1>1. Calm /\ Unlinked(s) /\ \A q \in Runs \ {s} : runs[q].pc \in OverPC
  BY DEF Creating
<1>2. ~Live(r)
  BY <1>1 DEF Live, Unlinked, OverPC
<1>3. ~Works(r) /\ (\A st : ~Ends(r, st)) /\ ~PreAssigns(r) /\ ~Assigns(r) /\ ~Bootstraps(r)
  BY <1>1, <1>2 DEF Works, Ends, PreAssigns, Assigns, Bootstraps, Unlinked, OverPC
<1>4. CASE Talks(r)
  <2>1. r # s /\ runs[r].pc \in OverPC
    BY <1>1, <1>4 DEF Talks, Tells
  <2>2. runs[r].pc # "announce" /\ runs'[r].pc \in OverPC
    BY <1>4, <2>1 DEF OverPC, Talks, Tells
  <2>3. /\ \A q \in Runs \ {s} : runs'[q].pc \in OverPC
        /\ Same(s)
    BY <1>1, <1>4, <2>1, <2>2 DEF Talks, Tells, OthersSame, Same, OverPC, Unlinked
  <2>. QED BY <1>1, <1>4, <2>2, <2>3, TalkKeepsCalm
           DEF Creating, Rows, Talks, rowVars, Same, Unlinked
<1>5. Takes(r) \/ Adds(r) \/ Joins(r) => r = s
  BY <1>1 DEF Takes, Adds, Joins, OverPC
<1>6. ASSUME OthersSame(s)
      PROVE  \A q \in Runs \ {s} : runs'[q].pc \in OverPC
  BY <1>1, <1>6 DEF OthersSame, Same, OverPC
<1>7. ASSUME OthersSame(s), runs'[s].pc \notin {"completed", "create", "link"}
      PROVE  \A q \in Runs : ~Unlinked(q)'
  BY <1>6, <1>7 DEF Unlinked, OverPC
<1>8. \A t \in Tasks : graph[t] = "coarse" => status[t] \in {"none", "completed"}
  BY DEF Creating, Rows
<1>9. CASE Takes(r)
  <2>1. UNCHANGED <<status, graph, target, job, queue>> /\ OthersSame(s)
    BY <1>5, <1>9 DEF Takes, storeVars
  <2>2. Calm'
    BY <1>1, <2>1, QuietRun
  <2>3. CASE runs'[s].pc = "idle"
    <3>1. \A q \in Runs : ~Unlinked(q)'
      BY <1>7, <2>1, <2>3
    <3>2. \A t \in Tasks : graph'[t] = "coarse" => status'[t] \in {"none", "completed"}
      BY <1>8, <2>1
    <3>3. Rows' # {}
      BY <2>1 DEF Rows, Creating
    <3>. QED BY <2>2, <3>1, <3>2, <3>3 DEF Settled, Calm
  <2>4. CASE runs'[s].pc = "create" /\ SameTask(s)
    <3>1. Unlinked(s)' /\ \A q \in Runs \ {s} : runs'[q].pc \in OverPC
      BY <1>1, <1>6, <2>1, <2>4 DEF Unlinked, SameTask
    <3>. QED BY <2>1, <2>2, <2>4, <3>1 DEF Creating, Rows, SameTask
  <2>. QED BY <1>5, <1>9, <2>3, <2>4 DEF Takes
<1>10. CASE Adds(r)
  <2>1. PICK t \in Tasks : /\ CreateTask(t, "pending", "none", NoTask, KidDepth(r))
                           /\ runs'[r].kids = runs[r].kids \cup {t}
    BY <1>10 DEF Adds
  <2>2. /\ runs'[s].kids = runs[s].kids \cup {t} /\ runs'[s].pc \in {"create", "link"}
        /\ runs'[s].task = runs[s].task /\ runs'[s].g = runs[s].g
        /\ OthersSame(s) /\ queue' = queue
    BY <1>5, <1>10, <2>1 DEF Adds
  <2>3. /\ status[t] = "none" /\ status'[t] = "pending" /\ graph'[t] = "none"
        /\ target'[t] = NoTask /\ job' = job
        /\ \A u \in Tasks : u # t => /\ status'[u] = status[u] /\ graph'[u] = graph[u]
                                     /\ target'[u] = target[u]
    BY <1>0, <2>1 DEF CreateTask, IsFresh
  <2>4. Calm'
    BY <1>0, <1>1, <2>2, <2>3 DEF Calm, Unfinished
  <2>5. Unlinked(s)' /\ \A q \in Runs \ {s} : runs'[q].pc \in OverPC
    BY <1>1, <1>6, <2>2 DEF Unlinked
  <2>6. /\ Rows = {runs[s].task} \cup runs[s].kids /\ runs[s].task \notin runs[s].kids
        /\ status[runs[s].task] = "completed" /\ graph[runs[s].task] = "coarse"
        /\ \A k \in runs[s].kids : status[k] = "pending" /\ graph[k] = "none"
    BY DEF Creating
  <2>7. Rows' = Rows \cup {t} /\ t \notin Rows /\ Rows \subseteq Tasks
    BY <2>3 DEF Rows
  <2>8. /\ Rows' = {runs'[s].task} \cup runs'[s].kids /\ runs'[s].task \notin runs'[s].kids
        /\ status'[runs'[s].task] = "completed" /\ graph'[runs'[s].task] = "coarse"
        /\ \A k \in runs'[s].kids : status'[k] = "pending" /\ graph'[k] = "none"
    BY <2>2, <2>3, <2>6, <2>7
  <2>. QED BY <2>2, <2>4, <2>5, <2>8 DEF Creating
<1>11. CASE Joins(r)
  <2>1. /\ UNCHANGED <<status, graph, target, job, queue>> /\ OthersSame(s)
        /\ runs'[s].pc = "announce"
    BY <1>5, <1>11 DEF Joins, AddTaskDependencies
  <2>2. Calm'
    BY <1>1, <2>1, QuietRun
  <2>3. \A q \in Runs : ~Unlinked(q)'
    BY <1>7, <2>1
  <2>4. \A t \in Tasks : graph'[t] = "coarse" => status'[t] \in {"none", "completed"}
    BY <1>8, <2>1
  <2>5. Rows' # {}
    BY <2>1 DEF Rows, Creating
  <2>. QED BY <2>2, <2>3, <2>4, <2>5 DEF Settled, Calm
<1>. QED BY <1>3, <1>4, <1>9, <1>10, <1>11, RunEffect DEF Run

LEMMA SettledByRun ==
  ASSUME IInv, OneRunInv, WaitInv, Settled, FindsGraphs, NEW r \in Runs, Run(r)
  PROVE  Settled'
<1>. USE DEF IInv
<1>0. status \in [Tasks -> TaskStatus] /\ graph \in [Tasks -> Graphs] /\ op' = op
  BY DEF StoreOK, StoreTypeOK, Run
<1>1. \A q \in Runs : ~Unlinked(q)
  BY DEF Settled
<1>2. ASSUME job' # "none",
             \A t \in Tasks : status'[t] = "none" => status[t] = "none",
             \A c \in Tasks : graph'[c] = "coarse" => status'[c] \notin {"in_progress", "failed"},
             \A p \in Runs : ~Unlinked(p)'
      PROVE  Settled'
  BY <1>0, <1>2 DEF Settled, Rows
<1>3. ASSUME NEW q \in Runs, NEW t, NEW g, Begins(q, t, g)
      PROVE  \A p \in Runs : ~Unlinked(p)'
  BY <1>1, <1>3, BegunRun DEF Begins, OthersSame, Same, Unlinked
<1>4. CASE Works(r)
  <2>1. \A p \in Runs : ~Unlinked(p)'
    BY <1>1, <1>4 DEF Works, OthersSame, Same, Unlinked, LivePC
  <2>. QED BY <1>2, <1>4, <2>1 DEF Works, storeVars, Settled
<1>5. CASE Talks(r) \/ PreAssigns(r)
  <2>1. \A p \in Runs : ~Unlinked(p)'
    BY <1>1, <1>5 DEF Talks, PreAssigns, Tells, OthersSame, Same, Unlinked
  <2>2. job' # "none" /\ status' = status
    BY <1>5 DEF Talks, PreAssigns, PreAssignTaskGraph, Settled
  <2>3. \A c \in Tasks : graph'[c] = "coarse" => graph[c] = "coarse"
    BY <1>0, <1>5 DEF Talks, PreAssigns, PreAssignTaskGraph, rowVars
  <2>. QED BY <1>2, <2>1, <2>2, <2>3 DEF Settled
<1>6. CASE \E st \in TerminalTask : Ends(r, st)
  <2>1. PICK st \in TerminalTask : Ends(r, st)
    BY <1>6
  <2>2. /\ runs[r].task \in Tasks /\ status[runs[r].task] = "in_progress"
        /\ graph[runs[r].task] = runs[r].g
    BY <2>1, RunTaskLemma DEF Ends, Live, OneRunInv
  <2>3. runs[r].g # "coarse"
    BY <2>2 DEF Settled
  <2>4. \A p \in Runs : ~Unlinked(p)'
    BY <1>1, <2>1, <2>3 DEF Ends, OthersSame, Same, SameTask, Unlinked
  <2>5. /\ status'[runs[r].task] \in TerminalTask /\ UNCHANGED <<graph, job>>
        /\ \A t \in Tasks : t # runs[r].task => status'[t] = status[t]
    BY <1>0, <2>1, <2>2 DEF Ends, UpdateTaskStatus, rowVars
  <2>. QED BY <1>2, <2>2, <2>3, <2>4, <2>5 DEF Settled, TerminalTask
<1>7. CASE Assigns(r)
  <2>1. /\ status' = [status EXCEPT ![Parent(r)] = "in_progress"]
        /\ graph' = [graph EXCEPT ![Parent(r)] = "work"] /\ job' = job
    BY <1>7 DEF Assigns, AssignTaskToGraph
  <2>2. /\ \A t \in Tasks : status'[t] = "none" => status[t] = "none"
        /\ \A c \in Tasks : graph'[c] = "coarse" => graph[c] = "coarse" /\ status'[c] = status[c]
    BY <1>0, <2>1
  <2>. QED BY <1>2, <1>3, <1>7, <2>1, <2>2 DEF Assigns, Settled
<1>8. CASE Bootstraps(r)
  <2>1. PICK t \in Tasks, b \in Tasks, q \in Runs : CreateBootstrap(b, t) /\ Begins(q, b, "fine")
    BY <1>8 DEF Bootstraps
  <2>2. /\ status' = [status EXCEPT ![b] = "in_progress"]
        /\ graph' = [graph EXCEPT ![b] = "fine"] /\ job' = job
    BY <2>1 DEF CreateBootstrap, CreateTask
  <2>3. /\ \A u \in Tasks : status'[u] = "none" => status[u] = "none"
        /\ \A c \in Tasks : graph'[c] = "coarse" => graph[c] = "coarse" /\ status'[c] = status[c]
    BY <1>0, <2>2
  <2>. QED BY <1>2, <1>3, <2>1, <2>2, <2>3 DEF Settled
<1>9. ~Takes(r) /\ ~Adds(r) /\ ~Joins(r)
  BY <1>1 DEF Takes, Adds, Joins, Unlinked, WaitInv
<1>. QED BY <1>4, <1>5, <1>6, <1>7, <1>8, <1>9, RunEffect DEF Run

LEMMA PhaseIsKept ==
  ASSUME IInv, OneRunInv, WaitInv, PhaseInv, FindsGraphs, Undisturbed, Next
  PROVE  PhaseInv'
<1>1. ASSUME NEW r \in Runs, Run(r)
      PROVE  PhaseInv'
  BY <1>1, EmptyByRun, PlanningByRun, CreatingByRun, SettledByRun DEF PhaseInv
<1>2. CASE Loop \/ Model \/ UserMessage \/ UserRetry
  BY <1>2, EmptyByOthers, PlanningByOthers, CreatingByOthers, SettledByOthers DEF PhaseInv
<1>. QED BY <1>1, <1>2, NothingDisturbs DEF Next

LEMMA OrderStarts == Init => OrderInv
<1>. SUFFICES ASSUME Init PROVE OrderInv
  OBVIOUS
<1>. USE DEF Init, StoreInit, RunsInit, OpInit, OpIdle, CancelIdle, Idle
<1>1. OneRunInv
  BY DEF OneRunInv, Live
<1>2. MetInv
  BY DEF MetInv
<1>3. WaitInv
  BY DEF WaitInv
<1>4. Empty
  BY DEF Empty, Rows, Unfinished
<1>. QED BY <1>1, <1>2, <1>3, <1>4 DEF OrderInv, PhaseInv

LEMMA OrderIsKept ==
  ASSUME IInv, OrderInv, FindsGraphs, Undisturbed, [Next]_vars
  PROVE  OrderInv'
<1>1. CASE Next
  <2>1. OneRunInv'
    BY OneRunIsKept DEF OrderInv
  <2>2. MetInv' /\ WaitInv'
    BY <1>1, MetByRun, MetByOthers, WaitByRun, WaitByOthers, NothingDisturbs DEF OrderInv, Next
  <2>3. PhaseInv'
    BY <1>1, PhaseIsKept DEF OrderInv
  <2>. QED BY <2>1, <2>2, <2>3 DEF OrderInv
<1>2. CASE UNCHANGED vars
  BY <1>2 DEF vars, storeVars, OrderInv, OneRunInv, Live, MetInv, Met, WaitInv, PhaseInv, Empty,
              Rows, Unfinished, Planning, Calm, Settled, Unlinked, Creating
<1>. QED BY <1>1, <1>2

LEMMA Ordered == ASSUME Undisturbed, FindsGraphs PROVE Spec => []OrderInv
<1>1. IInv /\ OrderInv /\ [Next]_vars => OrderInv'
  BY OrderIsKept
<1>. QED BY <1>1, OrderStarts, Invariance, PTL DEF Spec

\* A task in progress has all its dependencies completed.  GetReadyTasks is read
\* when fine-decompose is dispatched for a task, and the task itself is started
\* much later, from what its decomposition found (assignGraphToParent) or from the
\* loop's gate: completed dependencies have to stay completed meanwhile, and the
\* dependencies of a started task must not grow.  The sweep of a cancel breaks it
\* where it overwrites a completed dependency.
THEOREM DependenciesFirst ==
  ASSUME Undisturbed, FindsGraphs PROVE Spec => []RunsAfterDependencies
<1>1. OrderInv => RunsAfterDependencies
  BY DEF OrderInv, MetInv, Met, RunsAfterDependencies, InProgress
<1>. QED BY <1>1, Ordered, PTL

\* So does the task that a bootstrap in progress decomposes, although it is inserted
\* by a callback that asked some time ago: applyCoarseResult wires all dependencies of
\* the tasks it creates before it announces the first of them, and none is added later.
THEOREM DecompositionInOrder ==
  ASSUME Undisturbed, FindsGraphs PROVE Spec => []DecomposesAfterDependencies
<1>1. IInv /\ OrderInv => DecomposesAfterDependencies
  <2>. SUFFICES ASSUME IInv, OrderInv, NEW b \in InProgress, graph[b] = "fine"
                PROVE  Met(target[b])
    BY DEF DecomposesAfterDependencies, Met
  <2>1. b \in Tasks /\ HasParent(b)
    BY DEF InProgress, IInv, StoreOK
  <2>. QED BY <2>1 DEF HasParent, OrderInv, MetInv, Rows, Tasks, NoTask
<1>. QED BY <1>1, Ordered, Invariance, PTL

\* A task has one run at a time: decompositions of one task overlap, a callback may
\* insert one for a task that has run already, and the loop dispatches what a
\* decomposition has queued; AssignTaskToGraph lets the first of them through.
THEOREM RunsOnce ==
  ASSUME Undisturbed, FindsGraphs PROVE Spec => []OneRunPerTask
<1>1. OrderInv => OneRunPerTask
  BY DEF OrderInv, OneRunInv, OneRunPerTask
<1>. QED BY <1>1, Ordered, PTL

-----------------------------------------------------------------------------
(* The end of the job.  checkJobComplete reads the tasks, the job is written *)
(* later, and nothing stops a retry in between or afterwards.                *)

NoRetryTool == \A B \in Budgets : B["retry"] = 0
NoUserRetry == \A B \in Budgets : B["userRetry"] = 0

LEMMA NoRetryStarts ==
  ASSUME IInv, WaitInv, Undisturbed, NoRetryTool, op.pc # "retry",
         Loop \/ Model \/ UserMessage \/ UserRetry
  PROVE  op'.pc # "retry"
<1>1. ~RetryTaskTool
  BY NeverSpent DEF NoRetryTool, Kinds, RetryTaskTool
<1>. QED BY <1>1, LoopMoves

\* Every row but late bootstraps has ended, and no run will add work.
Done == /\ Rows # {} /\ \A t \in Rows : status[t] \in TerminalTask \/ graph[t] = "fine"
        /\ \A r \in Runs : ~Unlinked(r)

\* What is pending is no bootstrap, so nothing is.
LEMMA NonePending ==
  ASSUME WaitInv, Done
  PROVE  \A t \in Tasks : status[t] # "pending"
BY DEF WaitInv, Done, Rows, TerminalTask

DoneInv == /\ op.pc # "retry"
           /\ op.pc = "complete" \/ job = "completed" => Done

LEMMA DoneStaysByRun ==
  ASSUME IInv, OneRunInv, WaitInv, Done, FindsGraphs, NEW r \in Runs, Run(r)
  PROVE  Done'
<1>0. status \in [Tasks -> TaskStatus] /\ graph \in [Tasks -> Graphs]
  BY DEF IInv, StoreOK, StoreTypeOK
<1>. DEFINE Harmless(t) == \/ status'[t] = status[t] /\ graph'[t] = graph[t]
                           \/ status'[t] \in TerminalTask
                           \/ status'[t] # "none" /\ graph'[t] = "fine"
<1>1. ASSUME \A t \in Tasks : Harmless(t), \A p \in Runs : ~Unlinked(p)',
             \A t \in Rows : status'[t] # "none"
      PROVE  Done'
  BY <1>1 DEF Done, Rows, TerminalTask
<1>2. CASE Works(r) \/ Talks(r)
  <2>1. \A p \in Runs : ~Unlinked(p)'
    BY <1>2 DEF Works, Talks, Tells, Done, Unlinked, OthersSame, Same, LivePC
  <2>2. UNCHANGED <<status, graph>>
    BY <1>2 DEF Works, Talks, storeVars, rowVars
  <2>. QED BY <1>1, <2>1, <2>2 DEF Rows
<1>3. CASE \E st \in TerminalTask : Ends(r, st)
  <2>1. PICK st \in TerminalTask : Ends(r, st)
    BY <1>3
  <2>2. /\ runs[r].task \in Rows /\ status[runs[r].task] = "in_progress"
        /\ graph[runs[r].task] = runs[r].g
    BY <2>1, RunTaskLemma DEF Ends, Live, OneRunInv
  <2>3. runs[r].g = "fine"
    BY <2>2 DEF Done, TerminalTask
  <2>4. \A p \in Runs : ~Unlinked(p)'
    BY <2>1, <2>3 DEF Ends, OthersSame, Same, SameTask, Unlinked, Done
  <2>5. \A t \in Tasks : Harmless(t)
    BY <1>0, <2>1 DEF Ends, UpdateTaskStatus, rowVars
  <2>6. \A t \in Rows : status'[t] # "none"
    BY <1>0, <2>1 DEF Ends, UpdateTaskStatus, rowVars, Rows, TerminalTask
  <2>. QED BY <1>1, <2>4, <2>5, <2>6
<1>4. ~PreAssigns(r) /\ ~Assigns(r)
  <2>1. SUFFICES ASSUME runs[r].pc = "assign" PROVE status[Parent(r)] # "pending"
    BY DEF PreAssigns, Assigns, PreAssignTaskGraph, AssignTaskToGraph
  <2>2. runs[r].g = "fine" /\ runs[r].pc # "idle"
    BY <2>1 DEF IInv, RunsOK, RunOK
  <2>. QED BY <2>2, RunTaskLemma, NonePending
<1>5. CASE Bootstraps(r)
  <2>1. PICK aim \in Tasks, b \in Tasks, q \in Runs : CreateBootstrap(b, aim) /\ Begins(q, b, "fine")
    BY <1>5 DEF Bootstraps
  <2>2. \A p \in Runs : ~Unlinked(p)'
    BY <2>1, BegunRun DEF Begins, OthersSame, Same, Unlinked, Done
  <2>3. /\ status'[b] = "in_progress" /\ graph'[b] = "fine"
        /\ \A u \in Tasks \ {b} : status'[u] = status[u] /\ graph'[u] = graph[u]
    BY <1>0, <2>1 DEF CreateBootstrap, CreateTask
  <2>4. \A t \in Tasks : Harmless(t)
    BY <2>3
  <2>5. \A t \in Rows : status'[t] # "none"
    BY <2>3 DEF Rows
  <2>. QED BY <1>1, <2>2, <2>4, <2>5
<1>6. ~Takes(r) /\ ~Adds(r) /\ ~Joins(r)
  BY DEF Takes, Adds, Joins, Done, Unlinked, WaitInv
<1>. QED BY <1>2, <1>3, <1>4, <1>5, <1>6, RunEffect DEF Run

LEMMA DoneStaysByOthers ==
  ASSUME IInv, WaitInv, PhaseInv, DoneInv, Done, Undisturbed, NoUserRetry,
         Loop \/ Model \/ UserMessage \/ UserRetry
  PROVE  Done'
<1>1. \A t \in Tasks : status[t] # "pending"
  BY NonePending
<1>2. ~Queues /\ ~Dispatches
  <2>1. op.pc = "dispatch" => op.task \in Tasks
    BY DEF IInv, OpOK, Rows
  <2>. QED BY <1>1, <2>1 DEF Queues, Dispatches, PreAssignTaskGraph, AssignTaskToGraph, OpAt
<1>3. ~StartsPlan
  <2>1. op.pc = "bootstrap" => Rows = {}
    BY DEF PhaseInv, Empty, Planning, Calm, Creating, Settled
  <2>. QED BY <2>1 DEF StartsPlan, OpAt, Done
<1>4. ~UserRetry
  BY NeverSpent DEF NoUserRetry, Kinds, UserRetry
<1>5. Rests
  <2>1. CASE RetryDispatch
    BY <2>1 DEF RetryDispatch, OpAt, DoneInv
  <2>2. CASE \/ TakeEvent \/ EndTurn \/ CheckJobComplete \/ CompleteJob \/ AssignNextTask
             \/ PromoteJob \/ RecoverInterrupted \/ CreateJob \/ RetryTaskTool \/ SetupWorkspace
             \/ UserMessage
    BY <2>2 DEF TakeEvent, EndTurn, CheckJobComplete, CompleteJob, AssignNextTask, PromoteJob,
         RecoverInterrupted, CreateJob, RetryTaskTool, SetupWorkspace, UserMessage,
         UpdateJobStatus, storeVars, rowVars, runVars, Rests
  <2>3. CASE QueueGraphTask \/ DispatchGraphTask \/ DispatchCoarseDecompose
    <3>1. \A t \in Tasks, g \in Graphs : ~(OpAt("retry") /\ t = op.task /\ g = op.g)
      BY DEF OpAt, DoneInv
    <3>2. op.task \in Tasks \/ OpAt("bootstrap")
      BY <2>3 DEF QueueGraphTask, DispatchGraphTask, DispatchCoarseDecompose, OpAt, IInv, OpOK, Rows
    <3>3. CASE OpAt("bootstrap")
      BY <3>3, <2>3, <1>3 DEF QueueGraphTask, DispatchGraphTask, DispatchCoarseDecompose, OpAt,
           PhaseInv, Empty, Planning, Calm, Creating, Settled, Done
    <3>4. CASE op.task \in Tasks /\ ~OpAt("bootstrap")
      BY <1>1, <2>3, <3>4 DEF QueueGraphTask, DispatchGraphTask, DispatchCoarseDecompose, OpAt,
           PreAssignTaskGraph, AssignTaskToGraph, Rests, storeVars, rowVars, runVars
    <3>. QED BY <3>2, <3>3, <3>4
  <2>. QED BY <1>4, <2>1, <2>2, <2>3, NothingDisturbs DEF Loop, LoopStep, Model, ModelStep
<1>. QED BY <1>5 DEF Rests, rowVars, Done, Rows, Unlinked

\* The loop is about to complete the job only after it found everything done.
LEMMA DoneIsChecked ==
  ASSUME IInv, PhaseInv, CheckJobComplete, op'.pc = "complete"
  PROVE  Done'
<1>1. ~(op' = OpIdle)
  BY AfterHandler
<1>2. Rows # {} /\ \A t \in Rows : status[t] \in TerminalTask
  BY <1>1 DEF CheckJobComplete
<1>3. op.pc = "check" /\ UNCHANGED <<status, runs>>
  BY DEF CheckJobComplete, OpAt, storeVars, runVars
<1>4. \A r \in Runs : ~Unlinked(r)
  BY <1>3, CreatorIs DEF Creating, Calm
<1>. QED BY <1>2, <1>3, <1>4 DEF Done, Rows, Unlinked

LEMMA CompletedByLoop ==
  ASSUME Loop \/ Model \/ UserMessage \/ UserRetry, job' = "completed"
  PROVE  job = "completed" \/ op.pc = "complete"
<1>1. CASE CompleteJob
  BY <1>1 DEF CompleteJob, OpAt
<1>2. CASE PromoteJob \/ CreateJob \/ SetupWorkspace
  BY <1>2 DEF PromoteJob, CreateJob, SetupWorkspace, UpdateJobStatus
<1>3. CASE \/ TakeEvent \/ EndTurn \/ CheckJobComplete \/ AssignNextTask \/ ReadOperatorGate
           \/ RecoverInterrupted \/ RetryTaskTool \/ CreateTaskTool \/ UserMessage
  BY <1>3 DEF TakeEvent, EndTurn, CheckJobComplete, AssignNextTask, ReadOperatorGate,
              RecoverInterrupted, RetryTaskTool, CreateTaskTool, UserMessage, storeVars
<1>4. CASE DispatchGraphTask \/ QueueGraphTask \/ DispatchCoarseDecompose \/ RetryDispatch
           \/ InsertTask \/ AnnounceTask \/ DecomposeTask \/ UserRetry
  BY <1>4 DEF DispatchGraphTask, QueueGraphTask, DispatchCoarseDecompose, RetryDispatch, InsertTask,
              AnnounceTask, DecomposeTask, UserRetry, AssignTaskToGraph, PreAssignTaskGraph, CreateTask,
              CreateBootstrap, RetryTask, storeVars
<1>. QED BY <1>1, <1>2, <1>3, <1>4 DEF Loop, LoopStep, Model, ModelStep

\* A job is completed only when every task of it has ended, and no task of it starts
\* afterwards.  checkJobComplete reads the tasks and the job is written later, while
\* runs go on reporting, scanning, storing results and inserting bootstraps for tasks
\* they found ready before: such a bootstrap may run in a completed job, and what it
\* answers may start or revive nothing.  Neither retry asks for the job's status, so a
\* retry breaks it; and a split completes a task whose subtasks are still to be inserted.
THEOREM CompletedHasNoWork ==
  ASSUME Undisturbed, FindsGraphs, NoRetryTool, NoUserRetry
  PROVE  Spec => []CompletedJobHasNoWork
<1>1. Init => DoneInv
  BY DEF Init, StoreInit, OpInit, OpIdle, DoneInv
<1>2. IInv /\ OrderInv /\ DoneInv /\ [Next]_vars => DoneInv'
  <2>. SUFFICES ASSUME IInv, OrderInv, DoneInv, [Next]_vars PROVE DoneInv'
    OBVIOUS
  <2>1. ASSUME NEW r \in Runs, Run(r)
        PROVE  DoneInv'
    <3>1. op' = op /\ job' \in {job, "failed"}
      BY <2>1, RunEffect DEF OrderInv, Run, Works, Talks, PreAssigns, Assigns, Bootstraps, Takes, Adds,
           Joins, Ends, storeVars, UpdateTaskStatus, PreAssignTaskGraph, AssignTaskToGraph,
           CreateBootstrap, CreateTask, AddTaskDependencies
    <3>. QED BY <2>1, <3>1, DoneStaysByRun DEF DoneInv, OrderInv
  <2>2. CASE Loop \/ Model \/ UserMessage \/ UserRetry
    <3>1. op'.pc # "retry"
      BY <2>2, NoRetryStarts DEF OrderInv, DoneInv
    <3>2. CASE CheckJobComplete /\ op'.pc = "complete"
      BY <3>1, <3>2, DoneIsChecked DEF OrderInv, DoneInv
    <3>3. CASE op.pc = "complete" \/ job = "completed"
      BY <2>2, <3>1, <3>3, DoneStaysByOthers DEF OrderInv, DoneInv
    <3>4. (op'.pc = "complete" \/ job' = "completed")
             => \/ CheckJobComplete /\ op'.pc = "complete"
                \/ op.pc = "complete" \/ job = "completed"
      BY <2>2, LoopMoves, CompletedByLoop DEF OrderInv
    <3>. QED BY <3>1, <3>2, <3>3, <3>4 DEF DoneInv
  <2>3. CASE UNCHANGED vars
    BY <2>3 DEF vars, storeVars, DoneInv, Done, Rows, Unlinked
  <2>. QED BY <2>1, <2>2, <2>3, NothingDisturbs DEF OrderInv, Next
<1>3. DoneInv => CompletedJobHasNoWork
  BY DEF DoneInv, Done, CompletedJobHasNoWork
<1>. QED BY <1>1, <1>2, <1>3, Ordered, Invariance, PTL DEF Spec
=============================================================================
