------------------------------ MODULE Executor ------------------------------
(***************************************************************************)
(* The graph executor across the ends of the process                       *)
(* (internal/graphexec/executor.go): registration of runs, checkpoints,    *)
(* drain and the shutdown of the service (internal/service/local.go), with *)
(* the store's requeue at boot.  GraphRuns models what a run's end sets    *)
(* off; here a run is followed node by node and its callbacks are part of  *)
(* the state "ending", but for the one statement of a decomposition that   *)
(* writes the row of a task whose graph may be running (Verdict).          *)
(***************************************************************************)
EXTENDS Naturals

CONSTANTS Tasks,       \* tasks of one job, each bound to a graph
          Runs,        \* goroutines in ExecuteTask; an id is used again when it returns
          NoRun,       \* no goroutine registered for a task
          Nodes,       \* node executions of a graph, in the order they are saved
          MaxDeaths,   \* bound: ends of the process
          MaxRetries,  \* bound: RetryTask calls
          MaxCancels,  \* bound: CancelJob calls
          MaxVerdicts  \* bound: decompositions that find no graph, or split the task

ASSUME NodesAssumption == Nodes \in Nat
ASSUME RunsAssumption == NoRun \notin Runs
ASSUME BoundsAssumption == /\ MaxDeaths \in Nat /\ MaxRetries \in Nat
                           /\ MaxCancels \in Nat /\ MaxVerdicts \in Nat

VARIABLES
  status,    \* tasks.status
  ckpt,      \* graph_checkpoints: node executions in the saved state, 0 for no row
  run,       \* the goroutines
  handle,    \* Executor.running
  inFlight,  \* the runs taskWG counts
  proc,      \* where the process is in its shutdown
  drained,   \* what Drain returned
  ended,     \* history: the last graph to run for a task came to an outcome
  contested, \* history: tasks failed by a verdict while a goroutine worked on them
  deaths, retries, cancels, verdicts

vars == <<status, ckpt, run, handle, inFlight, proc, drained, ended, contested,
          deaths, retries, cancels, verdicts>>
processVars == <<proc, drained>>
bounds == <<deaths, retries, cancels, verdicts>>

Status == {"pending", "in_progress", "completed", "failed", "cancelled"}
Registered == {"preparing", "loading", "running", "saving", "stopped", "deleting",
               "persisting", "ending"}
RunState == [pc : Registered \cup {"idle", "begin", "failing"},
             task : Tasks, node : 0..Nodes, ok : BOOLEAN, cancelled : BOOLEAN]

TypeOK ==
  /\ status \in [Tasks -> Status]
  /\ ckpt \in [Tasks -> 0..Nodes]
  /\ run \in [Runs -> RunState]
  /\ handle \in [Tasks -> Runs \cup {NoRun}]
  /\ inFlight \subseteq Runs
  /\ proc \in {"up", "stopping", "draining", "leaving", "closed"}
  /\ drained \in BOOLEAN
  /\ ended \in [Tasks -> BOOLEAN]
  /\ contested \subseteq Tasks
  /\ deaths \in 0..MaxDeaths /\ retries \in 0..MaxRetries
  /\ cancels \in 0..MaxCancels /\ verdicts \in 0..MaxVerdicts

Init ==
  /\ status = [t \in Tasks |-> "pending"]
  /\ ckpt = [t \in Tasks |-> 0]
  /\ \E t \in Tasks :
       run = [r \in Runs |-> [pc |-> "idle", task |-> t, node |-> 0, ok |-> FALSE,
                             cancelled |-> FALSE]]
  /\ handle = [t \in Tasks |-> NoRun]
  /\ inFlight = {} /\ proc = "up" /\ drained = FALSE
  /\ ended = [t \in Tasks |-> FALSE] /\ contested = {}
  /\ deaths = 0 /\ retries = 0 /\ cancels = 0 /\ verdicts = 0

At(r, pc) == run[r].pc = pc
Goto(r, pc) == run' = [run EXCEPT ![r].pc = pc]
Open == proc # "closed"
Draining == proc \in {"draining", "leaving", "closed"}

\* A run's context ends with its handle's cancel or with the service's.
Done(r) == run[r].cancelled \/ proc # "up"

\* A goroutine that has returned keeps nothing.
Returned(r) == [run[r] EXCEPT !.pc = "idle", !.node = 0, !.ok = FALSE, !.cancelled = FALSE]

InGraph(r) == run[r].pc \in {"running", "saving"}

\* The goroutine has still to write something of its task.
Busy(r) ==
  run[r].pc \in {"begin", "failing", "preparing", "loading", "running", "saving",
                 "stopped", "deleting", "persisting"}

-----------------------------------------------------------------------------
(* Dispatch: the statement that starts a task and the go statement after it. *)

Spawn(t, r) ==
  /\ At(r, "idle") /\ Open
  /\ status' = [status EXCEPT ![t] = "in_progress"]
  /\ run' = [run EXCEPT ![r] = [pc |-> "begin", task |-> t, node |-> 0, ok |-> FALSE,
                                cancelled |-> FALSE]]
  /\ UNCHANGED <<ckpt, handle, inFlight, processVars, ended, contested,
                 deaths, cancels, verdicts>>

Dispatch(t, r) ==
  /\ status[t] = "pending"
  /\ Spawn(t, r)
  /\ UNCHANGED retries

\* Mutant: the statement has lost its condition on the status.
RetryTask_AnyStatus(t, r) ==
  /\ retries < MaxRetries
  /\ Spawn(t, r)
  /\ retries' = retries + 1

RetryTask(t, r) ==
  /\ status[t] = "failed" /\ retries < MaxRetries
  /\ Spawn(t, r)
  /\ retries' = retries + 1

-----------------------------------------------------------------------------
(* ExecuteTask. *)

\* Mutant: a run is registered although the executor drains.
BeginTask_IgnoresDrain(r) ==
  LET t == run[r].task
  IN  /\ At(r, "begin")
      /\ handle' = [handle EXCEPT ![t] = r]
      /\ inFlight' = inFlight \cup {r}
      /\ Goto(r, "preparing")
      /\ UNCHANGED <<status, ckpt, processVars, ended, contested, bounds>>

\* The flag is read, the handle stored and the run counted under one lock.
BeginTask(r) ==
  LET t == run[r].task
  IN  /\ At(r, "begin")
      /\ IF Draining
         THEN Goto(r, "failing") /\ UNCHANGED <<handle, inFlight>>
         ELSE /\ handle' = [handle EXCEPT ![t] = r]
              /\ inFlight' = inFlight \cup {r}
              /\ Goto(r, "preparing")
      /\ UNCHANGED <<status, ckpt, processVars, ended, contested, bounds>>

\* The provider, the graph or its compilation may be missing.
PrepareTask(r) ==
  /\ At(r, "preparing")
  /\ \E pc \in {"loading", "failing"} : Goto(r, pc)
  /\ UNCHANGED <<status, ckpt, handle, inFlight, processVars, ended, contested, bounds>>

\* A statement on a closed store fails, which is logged.
WriteStatus(t, s) == status' = IF Open THEN [status EXCEPT ![t] = s] ELSE status

\* failDispatch; the deferred endTask follows only if the run was registered.
FailDispatch(r) ==
  /\ At(r, "failing")
  /\ WriteStatus(run[r].task, "failed")
  /\ run' = [run EXCEPT ![r] = IF r \in inFlight THEN [@ EXCEPT !.pc = "ending"] ELSE Returned(r)]
  /\ UNCHANGED <<ckpt, handle, inFlight, processVars, ended, contested, bounds>>

EndTask(r) ==
  LET t == run[r].task
      h == handle[t]
  IN  /\ At(r, "ending")
      /\ run' = [x \in Runs |->
                   IF x = r THEN Returned(r)
                   ELSE [run[x] EXCEPT !.cancelled = @ \/ x = h]]
      /\ handle' = [handle EXCEPT ![t] = NoRun]
      /\ inFlight' = inFlight \ {r}
      /\ UNCHANGED <<status, ckpt, processVars, ended, contested, bounds>>

-----------------------------------------------------------------------------
(* Execute. *)

\* Mutant: the graph always runs from its entry.
Start_Fresh(r) ==
  /\ At(r, "loading")
  /\ run' = [run EXCEPT ![r].pc = "running", ![r].node = 0]
  /\ ended' = [ended EXCEPT ![run[r].task] = FALSE]
  /\ UNCHANGED <<status, ckpt, handle, inFlight, processVars, contested, bounds>>

\* A graph resumes from its checkpoint; a load on an ended context fails and the
\* graph runs fresh.
Start(r) ==
  LET t == run[r].task
  IN  /\ At(r, "loading")
      /\ run' = [run EXCEPT ![r].pc = "running",
                            ![r].node = IF Done(r) THEN 0 ELSE ckpt[t]]
      /\ ended' = [ended EXCEPT ![t] = FALSE]
      /\ UNCHANGED <<status, ckpt, handle, inFlight, processVars, contested, bounds>>

NodeCompletes(r) ==
  /\ At(r, "running") /\ run[r].node < Nodes
  /\ run' = [run EXCEPT ![r].pc = "saving", ![r].node = @ + 1]
  /\ UNCHANGED <<status, ckpt, handle, inFlight, processVars, ended, contested, bounds>>

\* The graph library saves the state after each node, under the run's context; a
\* save that fails ends the graph with an error.
SaveCheckpoint(r) ==
  LET t == run[r].task
  IN  /\ At(r, "saving")
      /\ IF Done(r)
         THEN Goto(r, "stopped") /\ UNCHANGED ckpt
         ELSE ckpt' = [ckpt EXCEPT ![t] = run[r].node] /\ Goto(r, "running")
      /\ UNCHANGED <<status, handle, inFlight, processVars, ended, contested, bounds>>

GraphSucceeds(r) ==
  /\ At(r, "running") /\ run[r].node = Nodes
  /\ run' = [run EXCEPT ![r].pc = "deleting", ![r].ok = TRUE]
  /\ UNCHANGED <<status, ckpt, handle, inFlight, processVars, ended, contested, bounds>>

GraphFails(r) ==
  /\ At(r, "running")
  /\ Goto(r, "stopped")
  /\ UNCHANGED <<status, ckpt, handle, inFlight, processVars, ended, contested, bounds>>

\* A run stopped by a drain leaves its task and its checkpoint as they are.
LeaveResumable(r) ==
  /\ At(r, "stopped")
  /\ Goto(r, IF Done(r) /\ Draining THEN "ending" ELSE "deleting")
  /\ UNCHANGED <<status, ckpt, handle, inFlight, processVars, ended, contested, bounds>>

\* Mutant: the checkpoint is dropped on success only.
DeleteCheckpoint_OnSuccess(r) ==
  LET t == run[r].task
  IN  /\ At(r, "deleting")
      /\ ckpt' = IF Open /\ run[r].ok THEN [ckpt EXCEPT ![t] = 0] ELSE ckpt
      /\ Goto(r, "persisting")
      /\ UNCHANGED <<status, handle, inFlight, processVars, ended, contested, bounds>>

DeleteCheckpoint(r) ==
  LET t == run[r].task
  IN  /\ At(r, "deleting")
      /\ ckpt' = IF Open THEN [ckpt EXCEPT ![t] = 0] ELSE ckpt
      /\ Goto(r, "persisting")
      /\ UNCHANGED <<status, handle, inFlight, processVars, ended, contested, bounds>>

OutcomeOf(r) ==
  CASE run[r].ok -> "completed"
    [] ~run[r].ok /\ Done(r) -> "cancelled"
    [] OTHER -> "failed"

PersistOutcome(r) ==
  LET t == run[r].task
  IN  /\ At(r, "persisting")
      /\ WriteStatus(t, OutcomeOf(r))
      /\ ended' = IF Open THEN [ended EXCEPT ![t] = TRUE] ELSE ended
      /\ Goto(r, "ending")
      /\ UNCHANGED <<ckpt, handle, inFlight, processVars, contested, bounds>>

Run(r) ==
  \/ BeginTask(r) \/ PrepareTask(r) \/ FailDispatch(r) \/ EndTask(r)
  \/ Start(r) \/ NodeCompletes(r) \/ SaveCheckpoint(r)
  \/ GraphSucceeds(r) \/ GraphFails(r) \/ LeaveResumable(r)
  \/ DeleteCheckpoint(r) \/ PersistOutcome(r)

-----------------------------------------------------------------------------
(* The end of a fine decomposition. *)

\* handleNoGraphFit fails the task, replaceParentWithSubtasks completes it, whatever
\* became of it since its decomposition was dispatched: of two decompositions of one
\* task the first may have started it.
Verdict(t, s) ==
  /\ proc = "up" /\ verdicts < MaxVerdicts
  /\ status' = [status EXCEPT ![t] = s]
  /\ contested' = IF s = "failed" /\ \E r \in Runs : Busy(r) /\ run[r].task = t
                  THEN contested \cup {t} ELSE contested
  /\ verdicts' = verdicts + 1
  /\ UNCHANGED <<ckpt, run, handle, inFlight, processVars, ended, deaths, retries, cancels>>

-----------------------------------------------------------------------------
(* The clients' Cancel. *)

CancelJob ==
  /\ proc = "up" /\ cancels < MaxCancels
  /\ run' = [r \in Runs |->
               [run[r] EXCEPT !.cancelled = @ \/ \E t \in Tasks : handle[t] = r]]
  /\ cancels' = cancels + 1
  /\ UNCHANGED <<status, ckpt, handle, inFlight, processVars, ended, contested,
                 deaths, retries, verdicts>>

\* The sweep of a Cancel works on an old list, so it may write over any status.
Sweep(t) ==
  /\ cancels > 0 /\ Open
  /\ status' = [status EXCEPT ![t] = "cancelled"]
  /\ UNCHANGED <<ckpt, run, handle, inFlight, processVars, ended, contested, bounds>>

-----------------------------------------------------------------------------
(* The process. *)

\* LocalService.Shutdown: the context first, Drain after it.
Shutdown ==
  /\ proc = "up"
  /\ proc' = "stopping"
  /\ UNCHANGED <<status, ckpt, run, handle, inFlight, drained, ended, contested, bounds>>

Drain ==
  /\ proc = "stopping"
  /\ proc' = "draining"
  /\ UNCHANGED <<status, ckpt, run, handle, inFlight, drained, ended, contested, bounds>>

DrainReturns ==
  /\ proc = "draining" /\ inFlight = {}
  /\ proc' = "leaving" /\ drained' = TRUE
  /\ UNCHANGED <<status, ckpt, run, handle, inFlight, ended, contested, bounds>>

\* Mutant: Drain waits without a limit.
DrainTimesOut_Never ==
  /\ proc = "draining" /\ inFlight = {}
  /\ proc' = "leaving"
  /\ UNCHANGED <<status, ckpt, run, handle, inFlight, drained, ended, contested, bounds>>

DrainTimesOut ==
  /\ proc = "draining"
  /\ proc' = "leaving"
  /\ UNCHANGED <<status, ckpt, run, handle, inFlight, drained, ended, contested, bounds>>

CloseStore ==
  /\ proc = "leaving"
  /\ proc' = "closed"
  /\ UNCHANGED <<status, ckpt, run, handle, inFlight, drained, ended, contested, bounds>>

\* The process ends, in order or not, and boots: ReconcileInterrupted.
Restart ==
  /\ deaths < MaxDeaths
  /\ deaths' = deaths + 1
  /\ status' = [t \in Tasks |-> IF status[t] = "in_progress" THEN "pending" ELSE status[t]]
  /\ run' = [r \in Runs |-> Returned(r)]
  /\ handle' = [t \in Tasks |-> NoRun]
  /\ inFlight' = {} /\ proc' = "up" /\ drained' = FALSE
  /\ UNCHANGED <<ckpt, ended, contested, retries, cancels, verdicts>>

Process == Drain \/ DrainReturns \/ DrainTimesOut \/ CloseStore

Next ==
  \/ \E t \in Tasks, r \in Runs : Dispatch(t, r) \/ RetryTask(t, r)
  \/ \E r \in Runs : Run(r)
  \/ CancelJob \/ \E t \in Tasks : Sweep(t)
  \/ \E t \in Tasks, s \in {"failed", "completed"} : Verdict(t, s)
  \/ Shutdown \/ Process \/ Restart

Spec == Init /\ [][Next]_vars

\* The goroutine that shuts down goes on and Drain's timer fires.  Nothing is
\* assumed of the runs: a node may ignore its context.
FairSpec == Spec /\ WF_vars(Drain) /\ WF_vars(DrainTimesOut) /\ WF_vars(CloseStore)

-----------------------------------------------------------------------------
(* Properties *)

\* Two runs of one graph would share the checkpoint, whose key is the task, and the
\* workspace.  No task's graph runs twice at once, through retries, cancels, splits,
\* shutdowns and restarts, unless a decomposition failed its row while a goroutine
\* was still at work on it and so let a retry start the next: the terminal status is
\* otherwise written only after the graph has returned, and a task is started from
\* pending or failed only.
OneGraphPerTask ==
  \A r, s \in Runs :
    InGraph(r) /\ InGraph(s) /\ run[r].task = run[s].task /\ run[r].task \notin contested
      => r = s

\* When Drain has returned true no registered run is left, however late a dispatch
\* came ("a dispatch can't slip in between Drain setting the flag and waiting"): no
\* graph runs on, saves a checkpoint or writes an outcome while the store closes.  A
\* dispatch that the drain refused is not waited for and may still write that its
\* task failed.
DrainedRunsAreSettled == drained => \A r \in Runs : run[r].pc \notin Registered

\* A run never goes on from a state that is not its own: the checkpoint is at most
\* the node just completed behind the run, and never ahead of it unless its context
\* has ended.  So an interruption at any point costs one node, and no saved node
\* runs again - of a task that no verdict contested, which may have two runs.
RunMatchesCheckpoint ==
  \A r \in Runs :
    run[r].pc \in {"running", "saving", "stopped"} /\ run[r].task \notin contested =>
      /\ run[r].node <= ckpt[run[r].task] + 1
      /\ Done(r) \/ ckpt[run[r].task] <= run[r].node

\* A checkpoint does not outlive the outcome of the run that wrote it: a retried
\* task does not inherit the state of the attempt that failed ("a checkpoint
\* survives only when the process exited before this point").  A second run of a
\* contested task may save one behind the first's outcome.
ObsoleteCheckpointIsGone == \A t \in Tasks \ contested : ended[t] => ckpt[t] = 0

\* executor.go: a graph that a shutdown interrupts, with no cancel of a client,
\* keeps its task in progress and its checkpoint; to write cancelled "would instead
\* strand the job".
ShutdownLeavesResumable ==
  \A r \in Runs :
    [](InGraph(r) /\ proc # "up" /\ cancels = 0
         => [](At(r, "deleting") /\ proc # "up" => run[r].ok))

\* A shutdown ends although a node ignores its context.
ShutdownEnds == proc = "stopping" ~> proc \in {"closed", "up"}
=============================================================================
