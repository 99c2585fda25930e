------------------------- MODULE JobPipelineProofs -------------------------
(***************************************************************************)
(* Proofs of the safety properties of JobPipeline, for every number of     *)
(* tasks and goroutines, every depth cap, channel size, decomposition and  *)
(* budget.  The inductive invariant is IInv: what every handler relies on  *)
(* about the ids it holds while other handlers change the rows.            *)
(***************************************************************************)
EXTENDS JobPipeline, TLAPS

-----------------------------------------------------------------------------
(* The inductive invariant. *)

\* The row of t names a task to decompose, and that task is above the cap.
HasParent(t) == /\ target[t] \in Rows
                /\ depth[target[t]] < MaxDecomposeDepth

\* What a callback or the loop found out before it inserts a bootstrap for t.
MayDecompose(t) == t \in Rows /\ depth[t] < MaxDecomposeDepth

\* Whatever is stored as a fine-decompose bootstrap has such a parent, and no
\* row is below the cap.
StoreOK ==
  /\ StoreTypeOK
  /\ \A t \in Tasks : graph[t] = "fine" => HasParent(t)
  /\ \A t \in Tasks : depth[t] <= MaxDecomposeDepth

\* A goroutine's request is a row; if it decomposes a task, that task is there.
\* While tasks of a result are created, one at least is left, only the
\* decomposition of a task assigns a graph to it, and a task that is to get a
\* bootstrap is above the cap.
RunOK(r) ==
  /\ runs[r].pc # "idle" => /\ runs[r].task \in Rows
                            /\ runs[r].g = "fine" => HasParent(runs[r].task)
  /\ runs[r].pc = "create" => runs[r].more # 0
  /\ runs[r].pc \in {"gate", "assign"} => runs[r].g = "fine"
  /\ runs[r].pc = "bootstrap" => MayDecompose(runs[r].aim)

\* So is the task the loop is about to announce or dispatch.
OpOK ==
  /\ op.pc \in {"announce", "gate", "dispatch", "retry"} => op.task \in Rows
  /\ op.pc = "decompose" => MayDecompose(op.task)
  /\ op.pc \in {"insert", "gate"} => op.g \in {"none", "work"}
  /\ op.pc \in {"dispatch", "retry"} /\ op.g = "fine" => HasParent(op.task)

\* And every task a cancel is going to sweep.
CancelOK == cancel.todo \subseteq Rows

RunsOK == /\ runs \in [Runs -> RunState]
          /\ registered \in [Tasks -> Runs \cup {NoRun}]
          /\ \A r \in Runs : RunOK(r)

IInv == /\ StoreOK
        /\ RunsTypeOK /\ OpTypeOK /\ cancel \in CancelState
        /\ RunsOK /\ OpOK /\ CancelOK

\* What all handlers hold across the steps of the others: rows are never
\* deleted, and a bootstrap never loses its parent.
Keeps == /\ Rows \subseteq Rows'
         /\ \A t \in Rows : HasParent(t) => HasParent(t)'
         /\ \A t \in Rows : MayDecompose(t) => MayDecompose(t)'

-----------------------------------------------------------------------------
(* Statements of the store. *)

\* An insert: a bootstrap needs a parent above the cap.
LEMMA CreateTaskLemma ==
  ASSUME StoreOK, NEW t \in Tasks, NEW st \in TaskStatus \ {"none"}, NEW g \in Graphs,
         NEW p \in Tasks \cup {NoTask}, NEW d \in 0..MaxDecomposeDepth,
         g = "fine" => p \in Rows /\ depth[p] < MaxDecomposeDepth,
         CreateTask(t, st, g, p, d)
  PROVE  StoreOK' /\ Keeps /\ t \in Rows' /\ (g = "fine" => HasParent(t)')
BY DepthAssumption DEF StoreOK, StoreTypeOK, CreateTask, IsFresh, Keeps, HasParent, MayDecompose, Rows

\* A change of one status leaves everything the invariant says of the rows.
LEMMA UpdateTaskStatusLemma ==
  ASSUME StoreOK, NEW t \in Tasks, NEW st \in TaskStatus \ {"none"},
         UpdateTaskStatus(t, st)
  PROVE  StoreOK' /\ Keeps
BY DEF StoreOK, StoreTypeOK, UpdateTaskStatus, rowVars, Keeps, HasParent, MayDecompose, Rows

\* Assignment, pre-assignment and retry store a graph the caller vouches for.
LEMMA DispatchLemma ==
  ASSUME StoreOK, NEW t \in Tasks, NEW g \in Graphs, g = "fine" => HasParent(t),
         AssignTaskToGraph(t, g) \/ PreAssignTaskGraph(t, g) \/ RetryTask(t, g)
  PROVE  StoreOK' /\ Keeps /\ t \in Rows /\ (g = "fine" => HasParent(t)')
BY DEF StoreOK, StoreTypeOK, AssignTaskToGraph, PreAssignTaskGraph, RetryTask,
       Keeps, HasParent, MayDecompose, Rows, TaskStatus

\* Statements on the job row, and handlers that write nothing.
LEMMA JobLemma ==
  ASSUME StoreOK, (\E st \in JobStatus : UpdateJobStatus(st)) \/ UNCHANGED storeVars
  PROVE  StoreOK' /\ Keeps
BY DEF StoreOK, StoreTypeOK, UpdateJobStatus, storeVars, rowVars, Keeps, HasParent, MayDecompose, Rows

\* Dependencies are between rows of the job.
LEMMA AddTaskDependenciesLemma ==
  ASSUME StoreOK, NEW kids \in SUBSET Tasks, NEW shape \in Links,
         AddTaskDependencies(Edges(kids, shape))
  PROVE  StoreOK' /\ Keeps
<1>1. Edges(kids, shape) \subseteq Tasks \X Tasks
  BY ChoicesAssumption DEF Edges
<1>2. deps' \in [Tasks -> SUBSET Tasks]
  BY <1>1 DEF AddTaskDependencies, StoreOK, StoreTypeOK
<1>. QED
  BY <1>2 DEF StoreOK, StoreTypeOK, AddTaskDependencies, Keeps, HasParent, MayDecompose, Rows

\* Reconciliation moves rows between two statuses.
LEMMA ReconcileLemma ==
  ASSUME StoreOK, ReconcileInterrupted
  PROVE  StoreOK' /\ Keeps
BY DEF StoreOK, StoreTypeOK, ReconcileInterrupted, rowVars, Keeps, HasParent, MayDecompose, Rows, TaskStatus

-----------------------------------------------------------------------------
(* Moves of the goroutines. *)

\* A goroutine that is not touched keeps its request.
LEMMA RunKeptLemma ==
  ASSUME Keeps, NEW r \in Runs, RunOK(r),
         runs'[r].pc = runs[r].pc, runs'[r].task = runs[r].task,
         runs'[r].g = runs[r].g, runs'[r].more = runs[r].more,
         runs'[r].aim = runs[r].aim
  PROVE  RunOK(r)'
BY DEF Keeps, RunOK, MayDecompose

\* A goroutine goes on to another step.
LEMMA GotoLemma ==
  ASSUME RunsOK, Keeps, NEW r \in Runs, runs[r].pc # "idle",
         NEW pc \in RunPC \ {"create", "bootstrap"}, pc \in {"gate", "assign"} => runs[r].g = "fine",
         Goto(r, pc)
  PROVE  RunsOK'
BY DEF RunsOK, Goto, RunState, Keeps, RunOK, MayDecompose

\* A goroutine returns, and may cancel another one's context.
LEMMA EndedLemma ==
  ASSUME RunsOK, NEW r \in Runs, runs[r].pc # "idle"
  PROVE  /\ Ended(r) \in [Runs -> RunState]
         /\ Ended(r)[r] = Idle
         /\ \A q \in Runs \ {r} : /\ Ended(r)[q].pc = runs[q].pc
                                  /\ Ended(r)[q].task = runs[q].task
                                  /\ Ended(r)[q].g = runs[q].g
                                  /\ Ended(r)[q].more = runs[q].more
                                  /\ Ended(r)[q].aim = runs[q].aim
<1>1. Idle \in RunState
  BY DEF Idle, RunState, RunPC, Graphs
<1>2. ASSUME NEW q \in Runs
      PROVE  LET x == [runs[q] EXCEPT !.ctxDone = TRUE] IN
             /\ x \in RunState
             /\ x.pc = runs[q].pc /\ x.task = runs[q].task
             /\ x.g = runs[q].g /\ x.more = runs[q].more /\ x.aim = runs[q].aim
  BY DEF RunsOK, RunState
<1>. QED BY <1>1, <1>2 DEF RunsOK, Ended

LEMMA ReturnLemma ==
  ASSUME RunsOK, Keeps, NEW r \in Runs, runs[r].pc # "idle", Return(r)
  PROVE  RunsOK'
<1>1. runs' \in [Runs -> RunState] /\ registered' \in [Tasks -> Runs \cup {NoRun}]
  BY EndedLemma DEF Return, EndTask, RunsOK
<1>2. ASSUME NEW q \in Runs PROVE RunOK(q)'
  <2>1. CASE q = r
    BY <2>1, EndedLemma DEF Return, RunOK, Idle
  <2>2. CASE q # r
    BY <2>2, EndedLemma, RunKeptLemma DEF Return, RunsOK
  <2>. QED BY <2>1, <2>2
<1>. QED BY <1>1, <1>2 DEF RunsOK

\* A request for a row is a run the invariant accepts.
LEMMA RequestLemma ==
  ASSUME NEW t \in Tasks, NEW g \in Graphs
  PROVE  /\ Request(t, g) \in RunState
         /\ Request(t, g).pc = "spawned" /\ Request(t, g).task = t /\ Request(t, g).g = g
BY DEF Request, Idle, RunState, RunPC, NoTask, Graphs

LEMMA SpawnLemma ==
  ASSUME RunsOK, Keeps, NEW t \in Tasks, NEW g \in Graphs, NEW who \in Starters,
         t \in Rows', g = "fine" => HasParent(t)', starter \in [Tasks -> Starters],
         Spawn(t, g, who)
  PROVE  RunsOK' /\ starter' \in [Tasks -> Starters]
<1>. PICK r \in Runs : IsFreeRun(r) /\ runs' = [runs EXCEPT ![r] = Request(t, g)]
  BY DEF Spawn
<1>1. runs' \in [Runs -> RunState] /\ registered' \in [Tasks -> Runs \cup {NoRun}]
  BY RequestLemma DEF RunsOK, Spawn
<1>2. ASSUME NEW q \in Runs PROVE RunOK(q)'
  <2>1. CASE q = r
    BY <2>1, RequestLemma DEF RunOK, RunsOK
  <2>2. CASE q # r
    BY <2>2, RunKeptLemma DEF RunsOK
  <2>. QED BY <2>1, <2>2
<1>. QED BY <1>1, <1>2 DEF RunsOK, Spawn

\* Parts the handlers of others do not touch.
LEMMA UntouchedLemma ==
  ASSUME IInv, Keeps
  PROVE  /\ UNCHANGED <<runs, registered>> => RunsOK'
         /\ UNCHANGED op => OpOK'
         /\ UNCHANGED cancel => CancelOK'
BY DEF IInv, Keeps, RunsOK, RunOK, OpOK, CancelOK, MayDecompose

\* What is left to show of a goroutine's step.
LEMMA RunFrameLemma ==
  ASSUME IInv, StoreOK', Keeps, RunsOK', queue' \in Seq(Event),
         starter' \in [Tasks -> Starters], UNCHANGED <<op, spent, cancel>>
  PROVE  IInv'
BY UntouchedLemma DEF IInv, RunsOK, RunsTypeOK, OpTypeOK

\* And if it only moves to its next step after at most a statement on the job.
LEMMA MoveFrameLemma ==
  ASSUME IInv, NEW r \in Runs, runs[r].pc # "idle", NEW pc \in RunPC \ {"create", "bootstrap"},
         pc \in {"gate", "assign"} => runs[r].g = "fine",
         Goto(r, pc), StoreOK', Keeps, UNCHANGED <<queue, starter, op, spent, cancel>>
  PROVE  IInv'
BY GotoLemma, RunFrameLemma DEF IInv, RunsTypeOK

LEMMA ReturnFrameLemma ==
  ASSUME IInv, NEW r \in Runs, runs[r].pc # "idle", Return(r), StoreOK', Keeps,
         UNCHANGED <<queue, starter, op, spent, cancel>>
  PROVE  IInv'
BY ReturnLemma, RunFrameLemma DEF IInv, RunsTypeOK

\* A change of a run's locals that keeps its request.
LEMMA LocalsFrameLemma ==
  ASSUME IInv, NEW r \in Runs, runs[r].pc # "idle", NEW x \in RunState,
         runs' = [runs EXCEPT ![r] = x], x.task = runs[r].task, x.g = runs[r].g,
         x.pc = "create" => x.more # 0, x.pc \in {"gate", "assign"} => x.g = "fine",
         x.pc = "bootstrap" => MayDecompose(x.aim),
         UNCHANGED <<registered, queue, starter, op, spent, cancel>>, StoreOK', Keeps
  PROVE  IInv'
<1>1. runs' \in [Runs -> RunState] /\ registered' \in [Tasks -> Runs \cup {NoRun}]
  BY DEF IInv, RunsOK
<1>2. ASSUME NEW q \in Runs PROVE RunOK(q)'
  <2>1. CASE q = r
    BY <2>1 DEF IInv, RunsOK, RunOK, Keeps, MayDecompose
  <2>2. CASE q # r
    BY <2>2, RunKeptLemma DEF IInv, RunsOK
  <2>. QED BY <2>1, <2>2
<1>. QED BY <1>1, <1>2, RunFrameLemma DEF IInv, RunsOK, RunsTypeOK

\* The task of a run that is under way.
LEMMA RunTaskLemma ==
  ASSUME IInv, NEW r \in Runs, runs[r].pc # "idle"
  PROVE  /\ runs[r].task \in Tasks /\ runs[r].task \in Rows
         /\ runs[r].g = "fine" => /\ HasParent(runs[r].task)
                                  /\ Parent(r) \in Tasks /\ Parent(r) \in Rows
                                  /\ depth[Parent(r)] \in Nat
                                  /\ depth[Parent(r)] < MaxDecomposeDepth
BY DEF IInv, RunsOK, RunOK, Rows, HasParent, Parent, StoreOK, StoreTypeOK

-----------------------------------------------------------------------------
(* One lemma per group of handlers: executor.go. *)

LEMMA ExecutorLemma ==
  ASSUME IInv, NEW r \in Runs, UNCHANGED <<op, spent, cancel>>,
         \/ BeginTask(r) \/ PrepareTask(r) \/ FailDispatch(r) \/ ExecuteSucceeds(r)
         \/ ExecuteFails(r) \/ PersistFailure(r) \/ ExecuteCancelled(r) \/ CheckHasNext(r)
  PROVE  IInv'
<1>. USE DEF IInv
<1>0. runs[r].pc # "idle"
  BY DEF BeginTask, PrepareTask, FailDispatch, WriteFailed, ExecuteSucceeds, ExecuteFails,
         PersistFailure, ExecuteCancelled, CheckHasNext, At
<1>1. CASE BeginTask(r)
  <2>1. StoreOK' /\ Keeps
    BY <1>1, JobLemma DEF BeginTask
  <2>2. RunsOK'
    BY <1>0, <1>1, <2>1, RunTaskLemma DEF BeginTask, RunsOK, RunState, RunOK, Keeps, MayDecompose, RunPC
  <2>. QED BY <1>1, <2>1, <2>2, RunFrameLemma DEF BeginTask, RunsTypeOK
<1>2. CASE PrepareTask(r)
  BY <1>0, <1>2, JobLemma, MoveFrameLemma DEF PrepareTask, RunPC
<1>3. ASSUME WriteFailed(r) PROVE IInv'
  <2>1. StoreOK' /\ Keeps
    BY <1>0, <1>3, RunTaskLemma, UpdateTaskStatusLemma DEF WriteFailed, TaskStatus
  <2>. QED BY <1>0, <1>3, <2>1, MoveFrameLemma DEF WriteFailed, RunPC
<1>4. CASE ExecuteSucceeds(r)
  <2>1. StoreOK' /\ Keeps
    BY <1>0, <1>4, RunTaskLemma, UpdateTaskStatusLemma DEF ExecuteSucceeds, TaskStatus
  <2>. QED BY <1>0, <1>4, <2>1, MoveFrameLemma DEF ExecuteSucceeds, RunPC
<1>5. CASE ExecuteFails(r)
  BY <1>0, <1>5, JobLemma, MoveFrameLemma DEF ExecuteFails, RunPC
<1>6. CASE ExecuteCancelled(r)
  <2>1. StoreOK' /\ Keeps
    BY <1>0, <1>6, RunTaskLemma, UpdateTaskStatusLemma DEF ExecuteCancelled, TaskStatus
  <2>. QED BY <1>0, <1>6, <2>1, ReturnFrameLemma DEF ExecuteCancelled
<1>7. CASE CheckHasNext(r)
  <2>. DEFINE x == [runs[r] EXCEPT !.pc = "scan", !.next = (GetReadyTasks # {})]
  <2>1. x \in RunState /\ x.pc = "scan" /\ x.task = runs[r].task /\ x.g = runs[r].g
    <3>1. runs[r] \in RunState
      BY DEF IInv, RunsOK
    <3>. QED BY <3>1 DEF RunState, RunPC
  <2>2. runs' = [runs EXCEPT ![r] = x]
    BY <1>7 DEF CheckHasNext
  <2>3. StoreOK' /\ Keeps
    BY <1>7, JobLemma DEF CheckHasNext
  <2>. QED BY <1>0, <1>7, <2>1, <2>2, <2>3, LocalsFrameLemma DEF CheckHasNext
<1>. QED BY <1>1, <1>2, <1>3, <1>4, <1>5, <1>6, <1>7 DEF FailDispatch, PersistFailure

-----------------------------------------------------------------------------
(* local_broadcast_jobs.go *)

LEMMA ReadyLemma ==
  ASSUME StoreOK, NEW t \in GetReadyTasks
  PROVE  t \in Tasks /\ t \in Rows
BY DEF GetReadyTasks, Rows

\* A bootstrap gets its parent's depth, which is above the cap.
LEMMA CreateBootstrapLemma ==
  ASSUME StoreOK, NEW b \in Tasks, NEW t \in Tasks, MayDecompose(t),
         CreateBootstrap(b, t)
  PROVE  StoreOK' /\ Keeps /\ b \in Rows' /\ HasParent(b)'
<1>1. t \in Rows /\ depth[t] < MaxDecomposeDepth /\ depth[t] \in 0..MaxDecomposeDepth
  BY DepthAssumption DEF MayDecompose, StoreOK, StoreTypeOK
<1>2. "in_progress" \in TaskStatus \ {"none"} /\ "fine" \in Graphs
  BY DEF TaskStatus, Graphs
<1>. QED BY <1>1, <1>2, CreateTaskLemma DEF CreateBootstrap

LEMMA CheckReadinessLemma ==
  ASSUME IInv, NEW r \in Runs, UNCHANGED <<op, spent, cancel>>, CheckReadiness(r)
  PROVE  IInv'
<1>. USE DEF IInv
<1>. PICK t \in runs[r].todo :
       LET rest == [runs[r] EXCEPT !.todo = @ \ {t}] IN
       \/ /\ WantsFineDecompose(t)
          /\ runs' = [runs EXCEPT ![r] = [rest EXCEPT !.pc = "bootstrap", !.aim = t]]
       \/ /\ ~WantsFineDecompose(t)
          /\ runs' = [runs EXCEPT ![r] = rest]
  BY DEF CheckReadiness
<1>. DEFINE x == [runs[r] EXCEPT !.todo = @ \ {t}]
            y == [x EXCEPT !.pc = "bootstrap", !.aim = t]
<1>1. runs[r].pc = "announce" /\ t \in Tasks /\ runs[r] \in RunState
  BY DEF CheckReadiness, At, RunsOK, RunState
<1>2. x \in RunState /\ x.pc = "announce" /\ x.task = runs[r].task /\ x.g = runs[r].g
  BY <1>1 DEF RunState
<1>3. /\ y \in RunState /\ y.pc = "bootstrap" /\ y.aim = t
      /\ y.task = runs[r].task /\ y.g = runs[r].g
  <2>. HIDE DEF x
  <2>. QED BY <1>1, <1>2 DEF RunState, RunPC
<1>4. UNCHANGED <<storeVars, registered, queue, starter>>
  BY DEF CheckReadiness
<1>5. StoreOK' /\ Keeps
  BY <1>4, JobLemma
<1>6. CASE WantsFineDecompose(t)
  <2>1. MayDecompose(t)
    BY <1>6, ReadyLemma DEF WantsFineDecompose, MayDecompose
  <2>2. runs' = [runs EXCEPT ![r] = y]
    BY <1>6
  <2>. HIDE DEF y
  <2>. QED BY <1>1, <1>3, <1>4, <1>5, <2>1, <2>2, LocalsFrameLemma
<1>7. CASE ~WantsFineDecompose(t)
  <2>2. runs' = [runs EXCEPT ![r] = x]
    BY <1>7
  <2>. HIDE DEF x
  <2>. QED BY <1>1, <1>2, <1>4, <1>5, <2>2, LocalsFrameLemma
<1>. QED BY <1>6, <1>7

LEMMA DispatchFineDecomposeLemma ==
  ASSUME IInv, NEW r \in Runs, UNCHANGED <<op, spent, cancel>>, DispatchFineDecompose(r)
  PROVE  IInv'
<1>. USE DEF IInv
<1>. PICK b \in Tasks, q \in Runs :
       /\ IsFreeRun(q)
       /\ CreateBootstrap(b, runs[r].aim)
       /\ runs' = [runs EXCEPT ![r].pc = "announce", ![r].aim = NoTask,
                               ![q] = Request(b, "fine")]
       /\ starter' = [starter EXCEPT ![b] = "service"]
  BY DEF DispatchFineDecompose
<1>. DEFINE x == [runs[r] EXCEPT !.pc = "announce", !.aim = NoTask]
<1>1. runs[r].pc = "bootstrap" /\ MayDecompose(runs[r].aim) /\ runs[r].aim \in Tasks
  BY DEF DispatchFineDecompose, At, RunsOK, RunOK, MayDecompose, Rows
<1>2. x \in RunState /\ x.pc = "announce" /\ x.task = runs[r].task /\ x.g = runs[r].g
  <2>1. runs[r] \in RunState
    BY DEF IInv, RunsOK
  <2>. QED BY <2>1 DEF RunState, RunPC, NoTask
<1>3. q # r
  BY <1>1 DEF IsFreeRun
<1>4. runs' = [[runs EXCEPT ![r] = x] EXCEPT ![q] = Request(b, "fine")]
  BY <1>3 DEF RunsOK, RunState
<1>5. StoreOK' /\ Keeps /\ b \in Rows' /\ HasParent(b)'
  BY <1>1, CreateBootstrapLemma
<1>6. /\ Request(b, "fine") \in RunState /\ Request(b, "fine").pc = "spawned"
      /\ Request(b, "fine").task = b /\ Request(b, "fine").g = "fine"
  BY RequestLemma DEF Graphs
<1>7. runs' \in [Runs -> RunState] /\ registered' \in [Tasks -> Runs \cup {NoRun}]
  BY <1>2, <1>4, <1>6 DEF RunsOK, DispatchFineDecompose
<1>8. ASSUME NEW p \in Runs PROVE RunOK(p)'
  <2>1. CASE p = q
    BY <1>4, <1>5, <1>6, <2>1 DEF RunOK, RunsOK
  <2>2. CASE p = r
    BY <1>1, <1>2, <1>3, <1>4, <1>5, <2>2 DEF RunOK, RunsOK, Keeps
  <2>3. CASE p # q /\ p # r
    BY <1>4, <1>5, <2>3, RunKeptLemma DEF RunsOK
  <2>. QED BY <2>1, <2>2, <2>3
<1>9. starter' \in [Tasks -> Starters]
  BY DEF RunsTypeOK, Starters
<1>. QED BY <1>5, <1>7, <1>8, <1>9, RunFrameLemma DEF RunsOK, RunsTypeOK, DispatchFineDecompose

LEMMA SendLemma ==
  ASSUME queue \in Seq(Event), NEW ev \in Event, Send(ev)
  PROVE  queue' \in Seq(Event)
BY DEF Send

LEMMA BroadcastLemma ==
  ASSUME IInv, NEW r \in Runs, UNCHANGED <<op, spent, cancel>>,
         \/ ScanReadyTasks(r) \/ SendTaskCompleted(r) \/ FailJob(r)
         \/ SendTaskFailed(r) \/ ReturnAfterSend(r)
  PROVE  IInv'
<1>. USE DEF IInv
<1>0. runs[r].pc # "idle"
  BY DEF ScanReadyTasks, SendTaskCompleted, FailJob, SendTaskFailed, ReturnAfterSend, At
<1>1. CASE ScanReadyTasks(r)
  <2>. DEFINE x == [runs[r] EXCEPT !.pc = "announce",
                                   !.todo = {t \in GetReadyTasks : graph[t] = "none"}]
  <2>1. x \in RunState /\ x.pc = "announce" /\ x.task = runs[r].task /\ x.g = runs[r].g
    <3>1. runs[r] \in RunState
      BY DEF IInv, RunsOK
    <3>. QED BY <3>1 DEF RunState, RunPC, GetReadyTasks
  <2>2. runs' = [runs EXCEPT ![r] = x]
    BY <1>1 DEF ScanReadyTasks
  <2>3. StoreOK' /\ Keeps
    BY <1>1, JobLemma DEF ScanReadyTasks
  <2>. QED BY <1>0, <1>1, <2>1, <2>2, <2>3, LocalsFrameLemma DEF ScanReadyTasks
<1>2. CASE SendTaskCompleted(r)
  <2>1. StoreOK' /\ Keeps
    BY <1>2, JobLemma DEF SendTaskCompleted
  <2>2. RunsOK'
    BY <1>0, <1>2, <2>1, GotoLemma DEF SendTaskCompleted, RunPC
  <2>3. [type |-> "completed", next |-> runs[r].next] \in Event
    BY DEF RunsOK, RunState, Event
  <2>4. queue' \in Seq(Event)
    BY <1>2, <2>3, SendLemma DEF SendTaskCompleted, RunsTypeOK
  <2>. QED BY <1>2, <2>1, <2>2, <2>4, RunFrameLemma DEF SendTaskCompleted, RunsTypeOK
<1>3. CASE FailJob(r)
  <2>1. StoreOK' /\ Keeps
    BY <1>3, JobLemma DEF FailJob, JobStatus
  <2>. QED BY <1>0, <1>3, <2>1, MoveFrameLemma DEF FailJob, RunPC
<1>4. CASE SendTaskFailed(r)
  <2>1. StoreOK' /\ Keeps
    BY <1>4, JobLemma DEF SendTaskFailed
  <2>2. RunsOK'
    BY <1>0, <1>4, <2>1, GotoLemma DEF SendTaskFailed, RunPC
  <2>3. [type |-> "failed", next |-> FALSE] \in Event
    BY DEF Event
  <2>4. queue' \in Seq(Event)
    BY <1>4, <2>3, SendLemma DEF SendTaskFailed, RunsTypeOK
  <2>. QED BY <1>4, <2>1, <2>2, <2>4, RunFrameLemma DEF SendTaskFailed, RunsTypeOK
<1>5. CASE ReturnAfterSend(r)
  <2>1. StoreOK' /\ Keeps
    BY <1>5, JobLemma DEF ReturnAfterSend
  <2>. QED BY <1>0, <1>5, <2>1, ReturnFrameLemma DEF ReturnAfterSend
<1>. QED BY <1>1, <1>2, <1>3, <1>4, <1>5

-----------------------------------------------------------------------------
(* decompose.go *)

LEMMA CreateKidsLemma ==
  ASSUME IInv, NEW r \in Runs, runs[r].pc # "idle", CreateKids(r), StoreOK', Keeps,
         UNCHANGED <<queue, starter, op, spent, cancel>>
  PROVE  IInv'
<1>. PICK n \in 1..MaxKids : runs' = [runs EXCEPT ![r].pc = "create", ![r].more = n]
  BY DEF CreateKids
<1>. DEFINE x == [runs[r] EXCEPT !.pc = "create", !.more = n]
<1>0. n \in Nat /\ n # 0
  BY RunsAssumption
<1>1. /\ x \in RunState /\ x.pc = "create" /\ x.more # 0
      /\ x.task = runs[r].task /\ x.g = runs[r].g
  <2>1. runs[r] \in RunState
    BY DEF IInv, RunsOK
  <2>. QED BY <1>0, <2>1 DEF RunState, RunPC
<1>2. runs' = [runs EXCEPT ![r] = x]
  OBVIOUS
<1>. QED BY <1>1, <1>2, LocalsFrameLemma DEF CreateKids

\* A task of the result is inserted: one level below the task it came from.
LEMMA CreateKidLemma ==
  ASSUME IInv, NEW r \in Runs, UNCHANGED <<op, spent, cancel>>, CreateKid(r)
  PROVE  IInv'
<1>. PICK t \in Tasks :
       /\ CreateTask(t, "pending", "none", NoTask, KidDepth(r))
       /\ runs' = [runs EXCEPT ![r].kids = @ \cup {t}, ![r].more = @ - 1,
                               ![r].pc = IF runs[r].more = 1 THEN "link" ELSE "create"]
  BY DEF CreateKid
<1>. DEFINE x == [runs[r] EXCEPT !.kids = @ \cup {t}, !.more = @ - 1,
                                 !.pc = IF runs[r].more = 1 THEN "link" ELSE "create"]
<1>1. runs[r].pc = "create" /\ runs[r].more \in Nat \ {0}
  BY DEF CreateKid, At, IInv, RunsOK, RunOK, RunState
<1>2. /\ x \in RunState /\ x.task = runs[r].task /\ x.g = runs[r].g
      /\ x.pc \in {"create", "link"} /\ (x.pc = "create" => x.more # 0)
  <2>. DEFINE k == runs[r].kids \cup {t}
              m == runs[r].more - 1
              c == IF runs[r].more = 1 THEN "link" ELSE "create"
              y == [runs[r] EXCEPT !.kids = k, !.more = m, !.pc = c]
  <2>1. runs[r] \in RunState
    BY DEF IInv, RunsOK
  <2>2. k \in SUBSET Tasks /\ c \in RunPC
    BY <2>1 DEF RunState, RunPC
  <2>3. m \in Nat /\ c \in {"create", "link"} /\ (c = "create" => m # 0)
    BY <1>1
  <2>4. x = y
    OBVIOUS
  <2>5. y \in RunState /\ y.task = runs[r].task /\ y.g = runs[r].g /\ y.pc = c /\ y.more = m
    <3>. HIDE DEF k, m, c
    <3>. QED BY <2>1, <2>2, <2>3 DEF RunState
  <2>. HIDE DEF k, m, c, x, y
  <2>. QED BY <2>3, <2>4, <2>5
<1>3. runs' = [runs EXCEPT ![r] = x]
  OBVIOUS
<1>4. KidDepth(r) \in 0..MaxDecomposeDepth
  BY <1>1, RunTaskLemma, DepthAssumption DEF KidDepth
<1>5. StoreOK' /\ Keeps
  <2>1. "pending" \in TaskStatus \ {"none"} /\ "none" \in Graphs
    BY DEF TaskStatus, Graphs
  <2>. QED BY <1>4, <2>1, CreateTaskLemma DEF IInv
<1>6. runs[r].pc # "idle" /\ UNCHANGED <<registered, queue, starter, op, spent, cancel>>
  BY <1>1 DEF CreateKid
<1>. HIDE DEF x
<1>. QED BY <1>2, <1>3, <1>5, <1>6, LocalsFrameLemma

LEMMA LinkKidsLemma ==
  ASSUME IInv, NEW r \in Runs, UNCHANGED <<op, spent, cancel>>, LinkKids(r)
  PROVE  IInv'
<1>. DEFINE x == [runs[r] EXCEPT !.pc = "announce", !.todo = runs[r].kids]
<1>1. runs[r].pc = "link" /\ runs[r].kids \in SUBSET Tasks
  BY DEF LinkKids, At, IInv, RunsOK, RunState
<1>2. x \in RunState /\ x.pc = "announce" /\ x.task = runs[r].task /\ x.g = runs[r].g
  <2>1. runs[r] \in RunState
    BY DEF IInv, RunsOK
  <2>. QED BY <2>1 DEF RunState, RunPC
<1>3. StoreOK' /\ Keeps
  BY <1>1, AddTaskDependenciesLemma DEF LinkKids, IInv
<1>4. runs' = [runs EXCEPT ![r] = x]
  BY DEF LinkKids
<1>. QED BY <1>1, <1>2, <1>3, <1>4, LocalsFrameLemma DEF LinkKids

LEMMA ConsumeLemma ==
  ASSUME IInv, NEW r \in Runs, UNCHANGED <<op, spent, cancel>>,
         \/ ApplyCoarseResult(r) \/ ApplyFineGraph(r) \/ HandleNoGraphFit(r)
         \/ SplitParent(r) \/ IgnoreFineResult(r) \/ FinishDecomposition(r)
         \/ ReadServiceGate(r)
  PROVE  IInv'
<1>. USE DEF IInv
<1>0. runs[r].pc # "idle"
  BY DEF ApplyCoarseResult, ApplyFineGraph, HandleNoGraphFit, SplitParent, IgnoreFineResult,
         FinishDecomposition, ReadServiceGate, At
<1>1. CASE ApplyCoarseResult(r)
  <2>1. StoreOK' /\ Keeps
    BY <1>1, JobLemma DEF ApplyCoarseResult
  <2>. QED BY <1>0, <1>1, <2>1, CreateKidsLemma, ReturnFrameLemma DEF ApplyCoarseResult
<1>2. CASE ApplyFineGraph(r)
  BY <1>0, <1>2, JobLemma, MoveFrameLemma DEF ApplyFineGraph, RunPC
<1>3. CASE HandleNoGraphFit(r)
  <2>1. StoreOK' /\ Keeps
    BY <1>0, <1>3, RunTaskLemma, UpdateTaskStatusLemma DEF HandleNoGraphFit, TaskStatus
  <2>. QED BY <1>0, <1>3, <2>1, ReturnFrameLemma DEF HandleNoGraphFit
<1>4. CASE SplitParent(r)
  <2>1. StoreOK' /\ Keeps
    BY <1>0, <1>4, RunTaskLemma, UpdateTaskStatusLemma DEF SplitParent, TaskStatus
  <2>. QED BY <1>0, <1>4, <2>1, CreateKidsLemma DEF SplitParent
<1>5. CASE IgnoreFineResult(r)
  BY <1>0, <1>5, JobLemma, ReturnFrameLemma DEF IgnoreFineResult
<1>6. CASE FinishDecomposition(r)
  BY <1>0, <1>6, JobLemma, ReturnFrameLemma DEF FinishDecomposition
<1>7. CASE ReadServiceGate(r)
  <2>. DEFINE b == \E t \in InProgress \ {Parent(r)} : ~IsDecompositionGraph(graph[t])
              x == [runs[r] EXCEPT !.pc = "assign", !.busy = b]
  <2>1. b \in BOOLEAN
    OBVIOUS
  <2>2. x \in RunState /\ x.pc = "assign" /\ x.task = runs[r].task /\ x.g = runs[r].g
    <3>1. runs[r] \in RunState
      BY DEF IInv, RunsOK
    <3>. QED BY <2>1, <3>1 DEF RunState, RunPC
  <2>3. runs' = [runs EXCEPT ![r] = x]
    BY <1>7 DEF ReadServiceGate
  <2>4. StoreOK' /\ Keeps
    BY <1>7, JobLemma DEF ReadServiceGate
  <2>5. runs[r].g = "fine"
    BY <1>7 DEF ReadServiceGate, At, RunsOK, RunOK
  <2>6. UNCHANGED <<registered, queue, starter, op, spent, cancel>>
    BY <1>7 DEF ReadServiceGate
  <2>. HIDE DEF x
  <2>. QED BY <1>0, <2>2, <2>3, <2>4, <2>5, <2>6, LocalsFrameLemma
<1>. QED BY <1>1, <1>2, <1>3, <1>4, <1>5, <1>6, <1>7

\* A goroutine at the gate is a fine-decompose bootstrap.
LEMMA AssignLemma ==
  ASSUME IInv, NEW r \in Runs, UNCHANGED <<op, spent, cancel>>,
         AssignGraphToParent(r) \/ PreAssignParent(r)
  PROVE  IInv'
<1>. USE DEF IInv
<1>0. runs[r].pc # "idle" /\ Parent(r) \in Tasks /\ "work" \in Graphs
  <2>1. runs[r].pc # "idle" /\ runs[r].g = "fine"
    BY DEF AssignGraphToParent, PreAssignParent, At, RunsOK, RunOK
  <2>. QED BY <2>1, RunTaskLemma DEF Graphs
<1>1. CASE PreAssignParent(r)
  <2>1. StoreOK' /\ Keeps
    BY <1>0, <1>1, JobLemma, DispatchLemma DEF PreAssignParent
  <2>. QED BY <1>0, <1>1, <2>1, ReturnFrameLemma DEF PreAssignParent
<1>2. CASE AssignGraphToParent(r) /\ Return(r) /\ UNCHANGED <<storeVars, starter>>
  BY <1>0, <1>2, JobLemma, ReturnFrameLemma DEF AssignGraphToParent
<1>3. CASE /\ AssignGraphToParent(r)
           /\ AssignTaskToGraph(Parent(r), "work")
           /\ runs' = [Ended(r) EXCEPT ![r] = Request(Parent(r), "work")]
           /\ EndTask(r)
           /\ starter' = [starter EXCEPT ![Parent(r)] = "service"]
  <2>1. StoreOK' /\ Keeps /\ Parent(r) \in Rows
    BY <1>0, <1>3, DispatchLemma
  <2>2. /\ Request(Parent(r), "work") \in RunState
        /\ Request(Parent(r), "work").pc = "spawned"
        /\ Request(Parent(r), "work").task = Parent(r)
        /\ Request(Parent(r), "work").g = "work"
    BY <1>0, RequestLemma
  <2>3. runs' \in [Runs -> RunState] /\ registered' \in [Tasks -> Runs \cup {NoRun}]
    BY <1>0, <1>3, <2>2, EndedLemma DEF RunsOK, EndTask
  <2>4. ASSUME NEW q \in Runs PROVE RunOK(q)'
    <3>1. CASE q = r
      <4>1. runs'[q] = Request(Parent(r), "work")
        BY <1>0, <1>3, <3>1, EndedLemma
      <4>. QED BY <2>1, <2>2, <4>1 DEF RunOK, Keeps
    <3>2. CASE q # r
      <4>1. runs'[q] = Ended(r)[q]
        BY <1>0, <1>3, <3>2, EndedLemma
      <4>. QED BY <1>0, <2>1, <3>2, <4>1, EndedLemma, RunKeptLemma DEF RunsOK
    <3>. QED BY <3>1, <3>2
  <2>5. starter' \in [Tasks -> Starters]
    BY <1>3 DEF RunsTypeOK, Starters
  <2>. QED BY <1>3, <2>1, <2>3, <2>4, <2>5, RunFrameLemma
           DEF RunsOK, RunsTypeOK, AssignGraphToParent
<1>. QED BY <1>1, <1>2, <1>3 DEF AssignGraphToParent

LEMMA RunLemma ==
  ASSUME IInv, NEW r \in Runs, Run(r)
  PROVE  IInv'
BY ExecutorLemma, CheckReadinessLemma, DispatchFineDecomposeLemma, BroadcastLemma, CreateKidLemma, LinkKidsLemma,
   ConsumeLemma, AssignLemma
   DEF Run, RunStep

-----------------------------------------------------------------------------
(* operator.go and system_tools.go *)

LEMMA OpFrameLemma ==
  ASSUME IInv, StoreOK', Keeps, RunsOK', queue' \in Seq(Event),
         starter' \in [Tasks -> Starters], op' \in OpState, spent' \in [Kinds -> Nat],
         OpOK', UNCHANGED cancel
  PROVE  IInv'
BY UntouchedLemma DEF IInv, RunsOK, RunsTypeOK, OpTypeOK

\* A handler that leaves the goroutines alone.
LEMMA OpOnlyLemma ==
  ASSUME IInv, StoreOK', Keeps, UNCHANGED runVars, UNCHANGED cancel,
         op' \in OpState, OpOK', spent' \in [Kinds -> Nat]
  PROVE  IInv'
BY UntouchedLemma, OpFrameLemma DEF IInv, RunsTypeOK, runVars

LEMMA SpendLemma ==
  ASSUME IInv, NEW k \in Kinds, Spend(k)
  PROVE  spent' \in [Kinds -> Nat]
BY DEF IInv, OpTypeOK, Spend

\* Where the loop holds no task.
LEMMA OpRestLemma ==
  ASSUME IInv,
         \/ OpDone \/ OpReport \/ op' = OpIdle \/ op' = InTurn("user") \/ op' = InTurn("event")
         \/ \E pc \in {"advance", "check", "recover"} : op' = [OpIdle EXCEPT !.pc = pc]
         \/ \E pc \in {"promote", "complete", "bootstrap"} : OpGoto(pc)
  PROVE  op' \in OpState /\ OpOK'
<1>. USE DEF IInv, OpTypeOK
<1>1. op.turn \in {"none", "user", "event"}
  BY DEF OpState
<1>2. OpIdle \in OpState /\ OpIdle.pc = "idle"
  BY DEF OpIdle, OpState, OpPC, Graphs
<1>3. ASSUME NEW pc \in OpPC
      PROVE  [OpIdle EXCEPT !.pc = pc] \in OpState /\ [OpIdle EXCEPT !.pc = pc].pc = pc
  BY <1>2 DEF OpState
<1>4. ASSUME NEW by \in {"none", "user", "event"}
      PROVE  InTurn(by) \in OpState /\ InTurn(by).pc = "llm"
  BY <1>2 DEF InTurn, OpState, OpPC
<1>5. ASSUME NEW pc \in OpPC, OpGoto(pc)
      PROVE  op' \in OpState /\ op'.pc = pc
  BY <1>5 DEF OpGoto, OpState
<1>6. op' \in OpState
      /\ op'.pc \in {"idle", "llm", "advance", "check", "recover", "promote", "complete", "bootstrap"}
  <2>1. CASE OpDone \/ op' = OpIdle
    BY <1>1, <1>2, <1>4, <2>1 DEF OpDone
  <2>2. CASE OpReport \/ op' = InTurn("user") \/ op' = InTurn("event")
    BY <1>1, <1>4, <2>2 DEF OpReport
  <2>3. CASE \E pc \in {"advance", "check", "recover"} : op' = [OpIdle EXCEPT !.pc = pc]
    BY <1>3, <2>3 DEF OpPC
  <2>4. CASE \E pc \in {"promote", "complete", "bootstrap"} : OpGoto(pc)
    BY <1>5, <2>4 DEF OpPC
  <2>. QED BY <2>1, <2>2, <2>3, <2>4
<1>. QED BY <1>6 DEF OpOK

LEMMA TakeEventLemma ==
  ASSUME IInv, TakeEvent, UNCHANGED cancel
  PROVE  IInv'
<1>1. queue \in Seq(Event) /\ queue # <<>>
  BY DEF IInv, RunsTypeOK, TakeEvent
<1>2. Head(queue) \in Event /\ Tail(queue) \in Seq(Event)
  BY <1>1
<1>. DEFINE ev == Head(queue)
<1>3. ev.type \in {"completed", "failed", "user"} /\ ev.next \in BOOLEAN
  BY <1>2 DEF Event
<1>4. \/ op' = InTurn("user") \/ op' = InTurn("event")
      \/ \E pc \in {"advance", "check", "recover"} : op' = [OpIdle EXCEPT !.pc = pc]
  <2>1. op' = CASE ev.type = "completed" /\ ev.next  -> [OpIdle EXCEPT !.pc = "advance"]
                [] ev.type = "completed" /\ ~ev.next -> [OpIdle EXCEPT !.pc = "check"]
                [] ev.type = "failed"                -> InTurn("event")
                [] ev.type = "user"                  -> InTurn("user")
    BY DEF TakeEvent
  <2>. HIDE DEF ev
  <2>2. CASE ev.type = "completed" /\ ev.next
    BY <2>1, <2>2
  <2>3. CASE ev.type = "completed" /\ ~ev.next
    BY <2>1, <2>3
  <2>4. CASE ev.type = "failed"
    BY <2>1, <2>4
  <2>5. CASE ev.type = "user"
    BY <2>1, <2>5
  <2>. QED BY <1>3, <2>2, <2>3, <2>4, <2>5
<1>5. op' \in OpState /\ OpOK'
  BY <1>4, OpRestLemma
<1>6. StoreOK' /\ Keeps
  BY JobLemma DEF TakeEvent, IInv
<1>7. RunsOK'
  BY <1>6, UntouchedLemma DEF TakeEvent
<1>. QED BY <1>2, <1>5, <1>6, <1>7, OpFrameLemma DEF TakeEvent, IInv, RunsTypeOK, OpTypeOK

\* Handlers that write no task row and leave the loop without a task.
LEMMA RestingLemma ==
  ASSUME IInv, UNCHANGED cancel,
         \/ EndTurn \/ CheckJobComplete \/ CompleteJob \/ PromoteJob \/ CreateJob
         \/ RecoverInterrupted
  PROVE  IInv'
<1>1. StoreOK' /\ Keeps
  BY JobLemma DEF EndTurn, CheckJobComplete, CompleteJob, PromoteJob, CreateJob,
                  RecoverInterrupted, JobStatus, IInv
<1>2. op' \in OpState /\ OpOK'
  BY OpRestLemma DEF EndTurn, CheckJobComplete, CompleteJob, PromoteJob, CreateJob,
                     RecoverInterrupted
<1>3. UNCHANGED runVars /\ UNCHANGED spent
  BY DEF EndTurn, CheckJobComplete, CompleteJob, PromoteJob, CreateJob, RecoverInterrupted
<1>4. spent' \in [Kinds -> Nat]
  BY <1>3 DEF IInv, OpTypeOK
<1>. QED BY <1>1, <1>2, <1>3, <1>4, OpOnlyLemma

\* The dispatch that is decided on is of a ready task and its own graph.
LEMMA AssignNextTaskLemma ==
  ASSUME IInv, AssignNextTask, UNCHANGED cancel
  PROVE  IInv'
<1>. USE DEF IInv
<1>1. StoreOK' /\ Keeps /\ spent' \in [Kinds -> Nat]
  BY JobLemma DEF AssignNextTask, OpTypeOK
<1>2. CASE OpDone \/ OpReport
  BY <1>1, <1>2, OpRestLemma, OpOnlyLemma DEF AssignNextTask
<1>3. CASE \E t \in {t \in GetReadyTasks : graph[t] # "none"} :
             op' = [op EXCEPT !.pc = "dispatch", !.task = t, !.g = graph[t],
                              !.busy = (Siblings(t) # {}), !.jobPending = (job = "pending")]
  <2>. PICK t \in GetReadyTasks :
          op' = [op EXCEPT !.pc = "dispatch", !.task = t, !.g = graph[t],
                           !.busy = (Siblings(t) # {}), !.jobPending = (job = "pending")]
    BY <1>3
  <2>1. t \in Tasks /\ t \in Rows /\ graph[t] \in Graphs
        /\ (graph[t] = "fine" => HasParent(t))
    BY ReadyLemma DEF StoreOK, StoreTypeOK
  <2>2. op' \in OpState /\ op'.pc = "dispatch" /\ op'.task = t /\ op'.g = graph[t]
    BY <2>1 DEF OpTypeOK, OpState, OpPC
  <2>3. OpOK'
    BY <1>1, <2>1, <2>2 DEF OpOK, Keeps
  <2>. QED BY <1>1, <2>2, <2>3, OpOnlyLemma DEF AssignNextTask
<1>. QED BY <1>2, <1>3 DEF AssignNextTask

\* Handlers that take hold of a task, or of a graph for it.
LEMMA ReadOperatorGateLemma ==
  ASSUME IInv, ReadOperatorGate, UNCHANGED cancel
  PROVE  IInv'
<1>. USE DEF IInv
<1>1. StoreOK' /\ Keeps /\ spent' \in [Kinds -> Nat]
  BY JobLemma DEF ReadOperatorGate, OpTypeOK
<1>2. op' \in OpState /\ op'.pc = "dispatch" /\ op'.task = op.task /\ op'.g = op.g
  BY DEF ReadOperatorGate, OpTypeOK, OpState, OpPC
<1>3. op.task \in Rows /\ op.g \in {"none", "work"}
  BY DEF ReadOperatorGate, OpAt, OpOK
<1>4. OpOK'
  BY <1>1, <1>2, <1>3 DEF OpOK, Keeps
<1>. QED BY <1>1, <1>2, <1>4, OpOnlyLemma DEF ReadOperatorGate

LEMMA CreateTaskToolLemma ==
  ASSUME IInv, CreateTaskTool, UNCHANGED cancel
  PROVE  IInv'
<1>. USE DEF IInv
<1>1. StoreOK' /\ Keeps
  BY JobLemma DEF CreateTaskTool
<1>2. spent' \in [Kinds -> Nat]
  BY SpendLemma DEF CreateTaskTool, Kinds
<1>. PICK g \in {"none", "work"} :
       op' = [op EXCEPT !.pc = "insert", !.g = g, !.jobPending = (job = "pending")]
  BY DEF CreateTaskTool
<1>3. op' \in OpState /\ op'.pc = "insert" /\ op'.g \in {"none", "work"}
  BY DEF OpTypeOK, OpState, OpPC, Graphs
<1>4. OpOK'
  BY <1>3 DEF OpOK
<1>. QED BY <1>1, <1>2, <1>3, <1>4, OpOnlyLemma DEF CreateTaskTool

LEMMA RetryTaskToolLemma ==
  ASSUME IInv, RetryTaskTool, UNCHANGED cancel
  PROVE  IInv'
<1>. USE DEF IInv
<1>1. StoreOK' /\ Keeps
  BY JobLemma DEF RetryTaskTool
<1>2. spent' \in [Kinds -> Nat]
  BY SpendLemma DEF RetryTaskTool, Kinds
<1>. PICK t \in Tasks : \E g \in {graph[t], "work"} \ {"none"} :
       /\ status[t] = "failed"
       /\ op' = [op EXCEPT !.pc = "retry", !.task = t, !.g = g]
  BY DEF RetryTaskTool
<1>. PICK g \in {graph[t], "work"} \ {"none"} :
       /\ status[t] = "failed"
       /\ op' = [op EXCEPT !.pc = "retry", !.task = t, !.g = g]
  BY DEF RetryTaskTool
<1>3. t \in Rows /\ g \in Graphs /\ (g = "fine" => HasParent(t))
  BY DEF Rows, StoreOK, StoreTypeOK, Graphs
<1>4. op' \in OpState /\ op'.pc = "retry" /\ op'.task = t /\ op'.g = g
  BY <1>3 DEF OpTypeOK, OpState, OpPC
<1>5. OpOK'
  BY <1>1, <1>3, <1>4 DEF OpOK, Keeps
<1>. QED BY <1>1, <1>2, <1>4, <1>5, OpOnlyLemma DEF RetryTaskTool

LEMMA SetupWorkspaceLemma ==
  ASSUME IInv, SetupWorkspace, UNCHANGED cancel
  PROVE  IInv'
<1>1. StoreOK' /\ Keeps
  BY JobLemma DEF SetupWorkspace, JobStatus, IInv
<1>2. spent' \in [Kinds -> Nat]
  BY SpendLemma DEF SetupWorkspace, Kinds
<1>3. op' \in OpState /\ OpOK'
  BY <1>1, UntouchedLemma DEF SetupWorkspace, IInv, OpTypeOK
<1>. QED BY <1>1, <1>2, <1>3, OpOnlyLemma DEF SetupWorkspace

\* The handlers that dispatch the task they hold, or give up.
LEMMA DispatchStepLemma ==
  ASSUME IInv, UNCHANGED cancel, DispatchGraphTask \/ QueueGraphTask \/ RetryDispatch
  PROVE  IInv'
<1>. USE DEF IInv
<1>1. /\ op.task \in Tasks /\ op.task \in Rows /\ op.g \in Graphs
      /\ op.g = "fine" => HasParent(op.task)
  BY DEF DispatchGraphTask, QueueGraphTask, RetryDispatch, OpAt, OpOK, Rows, OpTypeOK, OpState
<1>2. op' \in OpState /\ OpOK'
  BY OpRestLemma DEF DispatchGraphTask, QueueGraphTask, RetryDispatch
<1>3. StoreOK' /\ Keeps
  BY <1>1, JobLemma, DispatchLemma DEF DispatchGraphTask, QueueGraphTask, RetryDispatch
<1>4. UNCHANGED spent /\ UNCHANGED queue
  BY DEF DispatchGraphTask, QueueGraphTask, RetryDispatch, runVars
<1>5. \/ UNCHANGED <<runs, registered, starter>>
      \/ /\ Spawn(op.task, op.g, "operator")
         /\ AssignTaskToGraph(op.task, op.g) \/ RetryTask(op.task, op.g)
  BY DEF DispatchGraphTask, QueueGraphTask, RetryDispatch, runVars
<1>6. RunsOK' /\ starter' \in [Tasks -> Starters]
  <2>1. CASE UNCHANGED <<runs, registered, starter>>
    BY <1>3, <2>1, UntouchedLemma DEF RunsTypeOK
  <2>2. CASE /\ Spawn(op.task, op.g, "operator")
             /\ AssignTaskToGraph(op.task, op.g) \/ RetryTask(op.task, op.g)
    <3>. PICK t \in Tasks, g \in Graphs : t = op.task /\ g = op.g
      BY <1>1
    <3>1. t \in Rows' /\ (g = "fine" => HasParent(t)')
      BY <1>1, <1>3 DEF Keeps
    <3>. QED BY <1>3, <2>2, <3>1, SpawnLemma DEF RunsTypeOK, Starters
  <2>. QED BY <1>5, <2>1, <2>2
<1>. QED BY <1>2, <1>3, <1>4, <1>6, OpFrameLemma DEF RunsTypeOK, OpTypeOK

\* The handlers that insert a row: its id becomes the loop's task, or a goroutine's.
LEMMA InsertTaskLemma ==
  ASSUME IInv, InsertTask, UNCHANGED cancel
  PROVE  IInv'
<1>. USE DEF IInv
<1>. PICK t \in Tasks :
       /\ CreateTask(t, "pending", "none", NoTask, 0)
       /\ op' = [op EXCEPT !.task = t, !.pc = IF op.g = "none" THEN "announce" ELSE "gate"]
  BY DEF InsertTask
<1>1. "pending" \in TaskStatus \ {"none"} /\ "none" \in Graphs /\ 0 \in 0..MaxDecomposeDepth
  BY DepthAssumption DEF TaskStatus, Graphs
<1>2. StoreOK' /\ Keeps /\ t \in Rows'
  BY <1>1, CreateTaskLemma
<1>3. /\ op' \in OpState /\ op'.pc \in {"announce", "gate"}
      /\ op'.task = t /\ op'.g = op.g
  BY DEF OpTypeOK, OpState, OpPC
<1>4. OpOK'
  BY <1>2, <1>3 DEF OpOK, InsertTask, OpAt
<1>. QED BY <1>2, <1>3, <1>4, OpOnlyLemma DEF InsertTask, OpTypeOK

LEMMA AnnounceTaskLemma ==
  ASSUME IInv, AnnounceTask, UNCHANGED cancel
  PROVE  IInv'
<1>. USE DEF IInv
<1>1. StoreOK' /\ Keeps /\ spent' \in [Kinds -> Nat]
  BY JobLemma DEF AnnounceTask, OpTypeOK
<1>2. CASE OpDone
  BY <1>1, <1>2, OpRestLemma, OpOnlyLemma DEF AnnounceTask
<1>3. CASE WantsFineDecompose(op.task) /\ OpGoto("decompose")
  <2>1. op' \in OpState /\ op'.pc = "decompose" /\ op'.task = op.task
    BY <1>3 DEF OpGoto, OpTypeOK, OpState, OpPC
  <2>2. MayDecompose(op.task)
    BY <1>3, ReadyLemma DEF WantsFineDecompose, MayDecompose
  <2>3. OpOK'
    BY <1>1, <2>1, <2>2 DEF OpOK, Keeps, MayDecompose
  <2>. QED BY <1>1, <2>1, <2>3, OpOnlyLemma DEF AnnounceTask
<1>. QED BY <1>2, <1>3 DEF AnnounceTask

LEMMA BootstrapLemma ==
  ASSUME IInv, DispatchCoarseDecompose \/ DecomposeTask, UNCHANGED cancel
  PROVE  IInv'
<1>. USE DEF IInv
<1>1. op' \in OpState /\ OpOK'
  BY OpRestLemma DEF DispatchCoarseDecompose, DecomposeTask
<1>2. UNCHANGED spent /\ UNCHANGED queue
  BY DEF DispatchCoarseDecompose, DecomposeTask
<1>3. \/ UNCHANGED <<storeVars, runs, registered, starter>>
      \/ \E b \in Tasks, g \in Graphs :
           /\ StoreOK' /\ Keeps /\ b \in Rows' /\ (g = "fine" => HasParent(b)')
           /\ Spawn(b, g, "service")
  <2>1. CASE DispatchCoarseDecompose
    <3>1. "in_progress" \in TaskStatus \ {"none"} /\ "coarse" \in Graphs
          /\ 0 \in 0..MaxDecomposeDepth
      BY DepthAssumption DEF TaskStatus, Graphs
    <3>2. PICK b \in Tasks : /\ CreateTask(b, "in_progress", "coarse", NoTask, 0)
                             /\ Spawn(b, "coarse", "service")
      BY <2>1 DEF DispatchCoarseDecompose
    <3>3. StoreOK' /\ Keeps /\ b \in Rows'
      BY <3>1, <3>2, CreateTaskLemma
    <3>. QED BY <3>1, <3>2, <3>3
  <2>2. CASE DecomposeTask
    <3>1. op.task \in Tasks /\ MayDecompose(op.task) /\ "fine" \in Graphs
      BY <2>2 DEF DecomposeTask, OpAt, OpOK, MayDecompose, Rows, Graphs
    <3>2. PICK b \in Tasks : CreateBootstrap(b, op.task) /\ Spawn(b, "fine", "service")
      BY <2>2 DEF DecomposeTask
    <3>3. StoreOK' /\ Keeps /\ b \in Rows' /\ HasParent(b)'
      BY <3>1, <3>2, CreateBootstrapLemma
    <3>. QED BY <3>1, <3>2, <3>3
  <2>. QED BY <2>1, <2>2
<1>4. StoreOK' /\ Keeps /\ RunsOK' /\ starter' \in [Tasks -> Starters]
  <2>1. CASE UNCHANGED <<storeVars, runs, registered, starter>>
    <3>1. StoreOK' /\ Keeps
      BY <2>1, JobLemma
    <3>. QED BY <2>1, <3>1, UntouchedLemma DEF RunsTypeOK
  <2>2. ASSUME NEW b \in Tasks, NEW g \in Graphs,
               StoreOK' /\ Keeps /\ b \in Rows' /\ (g = "fine" => HasParent(b)'),
               Spawn(b, g, "service")
        PROVE  StoreOK' /\ Keeps /\ RunsOK' /\ starter' \in [Tasks -> Starters]
    BY <2>2, SpawnLemma DEF RunsTypeOK, Starters
  <2>. QED BY <1>3, <2>1, <2>2
<1>. QED BY <1>1, <1>2, <1>4, OpFrameLemma DEF RunsTypeOK, OpTypeOK

LEMMA LoopLemma ==
  ASSUME IInv, Loop \/ Model
  PROVE  IInv'
BY TakeEventLemma, RestingLemma, AssignNextTaskLemma, ReadOperatorGateLemma,
   CreateTaskToolLemma, RetryTaskToolLemma, SetupWorkspaceLemma, DispatchStepLemma,
   InsertTaskLemma, AnnounceTaskLemma, BootstrapLemma
   DEF Loop, LoopStep, Model, ModelStep

-----------------------------------------------------------------------------
(* The user and the process. *)

LEMMA UserLemma ==
  ASSUME IInv, UserMessage \/ UserRetry
  PROVE  IInv'
<1>. USE DEF IInv
<1>1. CASE UserMessage
  <2>1. StoreOK' /\ Keeps
    BY <1>1, JobLemma DEF UserMessage
  <2>2. RunsOK' /\ OpOK' /\ op' \in OpState
    BY <1>1, <2>1, UntouchedLemma DEF UserMessage, OpTypeOK
  <2>3. spent' \in [Kinds -> Nat]
    BY <1>1, SpendLemma DEF UserMessage, Kinds
  <2>4. [type |-> "user", next |-> FALSE] \in Event
    BY DEF Event
  <2>5. queue' \in Seq(Event)
    BY <1>1, <2>4 DEF UserMessage, RunsTypeOK
  <2>. QED BY <1>1, <2>1, <2>2, <2>3, <2>5, OpFrameLemma DEF UserMessage, RunsTypeOK
<1>2. CASE UserRetry
  <2>1. PICK t \in Tasks : RetryTask(t, graph[t]) /\ Spawn(t, graph[t], "service")
    BY <1>2 DEF UserRetry
  <2>2. graph[t] \in Graphs /\ (graph[t] = "fine" => HasParent(t))
    BY DEF StoreOK, StoreTypeOK
  <2>3. StoreOK' /\ Keeps /\ t \in Rows /\ (graph[t] = "fine" => HasParent(t)')
    BY <2>1, <2>2, DispatchLemma
  <2>4. RunsOK' /\ starter' \in [Tasks -> Starters]
    BY <2>1, <2>2, <2>3, SpawnLemma DEF Keeps, RunsTypeOK, Starters
  <2>5. spent' \in [Kinds -> Nat]
    BY <1>2, SpendLemma DEF UserRetry, Kinds
  <2>6. OpOK' /\ op' \in OpState
    BY <1>2, <2>3, UntouchedLemma DEF UserRetry, OpTypeOK
  <2>. QED BY <1>2, <2>3, <2>4, <2>5, <2>6, OpFrameLemma DEF UserRetry, RunsTypeOK
<1>. QED BY <1>1, <1>2

\* Steps of a cancel: the loop is not touched, and the list it sweeps is of rows.
LEMMA CancelFrameLemma ==
  ASSUME IInv, StoreOK', Keeps, RunsOK', UNCHANGED <<queue, starter, op>>,
         spent' \in [Kinds -> Nat], cancel' \in CancelState, CancelOK'
  PROVE  IInv'
BY UntouchedLemma DEF IInv, RunsOK, RunsTypeOK, OpTypeOK

LEMMA CancelLemma ==
  ASSUME IInv, CancelCheck \/ CancelStep
  PROVE  IInv'
<1>. USE DEF IInv
<1>1. CASE CancelCheck \/ CancelFlip
  <2>1. StoreOK' /\ Keeps
    BY <1>1, JobLemma DEF CancelCheck, CancelFlip, JobStatus
  <2>2. RunsOK'
    BY <1>1, <2>1, UntouchedLemma DEF CancelCheck, CancelFlip, runVars
  <2>3. spent' \in [Kinds -> Nat]
    BY <1>1, SpendLemma DEF CancelCheck, CancelFlip, Kinds, OpTypeOK
  <2>4. cancel' \in CancelState /\ cancel'.todo = cancel.todo
    BY <1>1 DEF CancelCheck, CancelFlip, CancelState, CancelPC
  <2>5. CancelOK'
    BY <2>1, <2>4 DEF CancelOK, Keeps
  <2>. QED BY <1>1, <2>1, <2>2, <2>3, <2>4, <2>5, CancelFrameLemma
           DEF CancelCheck, CancelFlip, runVars
<1>2. CASE CancelRuns
  <2>1. StoreOK' /\ Keeps
    BY <1>2, JobLemma DEF CancelRuns
  <2>2. ASSUME NEW r \in Runs
        PROVE  /\ runs'[r] \in RunState
               /\ runs'[r].pc = runs[r].pc /\ runs'[r].task = runs[r].task
               /\ runs'[r].g = runs[r].g /\ runs'[r].more = runs[r].more
               /\ runs'[r].aim = runs[r].aim
    <3>1. runs[r] \in RunState
      BY DEF RunsOK
    <3>2. runs'[r] = runs[r] \/ runs'[r] = [runs[r] EXCEPT !.ctxDone = TRUE]
      BY <1>2 DEF CancelRuns
    <3>. QED BY <3>1, <3>2 DEF RunState
  <2>3. runs' \in [Runs -> RunState]
    BY <1>2, <2>2 DEF CancelRuns
  <2>4. RunsOK'
    BY <1>2, <2>1, <2>2, <2>3, RunKeptLemma DEF CancelRuns, RunsOK
  <2>5. cancel' \in CancelState /\ cancel'.todo = cancel.todo
    BY <1>2 DEF CancelRuns, CancelState, CancelPC
  <2>6. CancelOK'
    BY <2>1, <2>5 DEF CancelOK, Keeps
  <2>. QED BY <1>2, <2>1, <2>4, <2>5, <2>6, CancelFrameLemma DEF CancelRuns, OpTypeOK
<1>3. CASE CancelList
  <2>1. StoreOK' /\ Keeps
    BY <1>3, JobLemma DEF CancelList
  <2>2. RunsOK'
    BY <1>3, <2>1, UntouchedLemma DEF CancelList, runVars
  <2>3. /\ cancel' \in CancelState
        /\ cancel'.todo = {t \in Tasks : status[t] \in {"pending", "in_progress"}}
    BY <1>3 DEF CancelList, CancelState, CancelPC
  <2>4. CancelOK'
    BY <2>1, <2>3 DEF CancelOK, Keeps, Rows
  <2>. QED BY <1>3, <2>1, <2>2, <2>3, <2>4, CancelFrameLemma DEF CancelList, runVars, OpTypeOK
<1>4. CASE CancelSweep
  <2>1. /\ cancel' \in CancelState /\ cancel'.todo \subseteq cancel.todo
        /\ cancel.todo \subseteq Tasks
    BY <1>4 DEF CancelSweep, CancelState, CancelPC
  <2>2. StoreOK' /\ Keeps
    BY <1>4, <2>1, JobLemma, UpdateTaskStatusLemma DEF CancelSweep, TaskStatus
  <2>3. RunsOK'
    BY <1>4, <2>2, UntouchedLemma DEF CancelSweep, runVars
  <2>4. CancelOK'
    BY <2>1, <2>2 DEF CancelOK, Keeps
  <2>. QED BY <1>4, <2>1, <2>2, <2>3, <2>4, CancelFrameLemma DEF CancelSweep, runVars, OpTypeOK
<1>. QED BY <1>1, <1>2, <1>3, <1>4 DEF CancelStep

LEMMA CrashLemma ==
  ASSUME IInv, CrashAndRestart
  PROVE  IInv'
<1>. USE DEF IInv
<1>1. StoreOK' /\ Keeps
  BY ReconcileLemma DEF CrashAndRestart
<1>2. Idle \in RunState /\ Idle.pc = "idle"
  BY DEF Idle, RunState, RunPC, Graphs
<1>3. RunsOK'
  BY <1>2 DEF CrashAndRestart, RunsOK, RunOK
<1>4. op' \in OpState /\ OpOK'
  BY OpRestLemma DEF CrashAndRestart
<1>5. cancel' \in CancelState /\ CancelOK'
  BY DEF CrashAndRestart, CancelIdle, CancelState, CancelPC, CancelOK
<1>6. spent' \in [Kinds -> Nat]
  BY SpendLemma DEF CrashAndRestart, Kinds
<1>7. queue' \in Seq(Event) /\ starter' \in [Tasks -> Starters]
  BY DEF CrashAndRestart, RunsTypeOK
<1>. QED BY <1>1, <1>3, <1>4, <1>5, <1>6, <1>7 DEF RunsOK, RunsTypeOK, OpTypeOK

-----------------------------------------------------------------------------
(* Types, and the cap. *)

LEMMA InitLemma == Init => IInv
<1>. SUFFICES ASSUME Init PROVE IInv
  OBVIOUS
<1>. USE DEF Init
<1>1. StoreOK
  BY DepthAssumption DEF StoreInit, StoreOK, StoreTypeOK, JobStatus, TaskStatus, Graphs
<1>2. Idle \in RunState /\ Idle.pc = "idle"
  BY DEF Idle, RunState, RunPC, Graphs
<1>3. RunsTypeOK /\ RunsOK
  BY <1>2 DEF RunsInit, RunsTypeOK, RunsOK, RunOK, Starters
<1>4. OpTypeOK /\ OpOK
  BY DEF OpInit, OpTypeOK, OpOK, OpIdle, OpState, OpPC, Graphs
<1>5. cancel \in CancelState /\ CancelOK
  BY DEF CancelIdle, CancelState, CancelPC, CancelOK
<1>. QED BY <1>1, <1>3, <1>4, <1>5 DEF IInv

LEMMA StepLemma == IInv /\ [Next]_vars => IInv'
<1>. SUFFICES ASSUME IInv, [Next]_vars PROVE IInv'
  OBVIOUS
<1>1. CASE Next
  BY <1>1, RunLemma, LoopLemma, UserLemma, CancelLemma, CrashLemma DEF Next
<1>2. CASE UNCHANGED vars
  <2>1. StoreOK' /\ Keeps
    BY <1>2, JobLemma DEF vars, IInv
  <2>. QED BY <1>2, <2>1, UntouchedLemma DEF vars, IInv, RunsTypeOK, OpTypeOK
<1>. QED BY <1>1, <1>2

THEOREM Invariance == Spec => []IInv
BY InitLemma, StepLemma, PTL DEF Spec

\* No handler, in any interleaving with the others, a cancel or a crash, leaves
\* a variable outside its type: above all, the id of a task that a decomposition
\* is applied to is always a row, and no count of remaining tasks goes below 0.
THEOREM TypeCorrect == Spec => []TypeOK
<1>1. IInv => TypeOK
  BY DEF IInv, TypeOK, StoreOK
<1>. QED BY <1>1, Invariance, PTL

\* A decomposer that splits again and again is stopped at maxDecomposeDepth.
THEOREM DepthCap == Spec => []DepthIsCapped
<1>1. IInv => DepthIsCapped
  BY DEF IInv, StoreOK, DepthIsCapped
<1>. QED BY <1>1, Invariance, PTL
=============================================================================
