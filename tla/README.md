# toasters: TLA+ models of the server behind the conversations

`toasters` is a server that takes a request in a conversation, turns it into a
job, lets language models decompose the job into tasks, and executes each task
as a graph of model calls and tools. This directory models the parts in which
its correctness is decided by the order of things: who may start a task, when,
what wakes the next one, what is left of it after a cancel, a retry, a shutdown
or a crash; how a question to the user finds its answer; which turn a text
belongs to; what a client that lost its connection gets to see; who holds a slot
of the provider and who waits for whom; and what a long conversation may forget.

## 1. The system

### Components

| Component | Source | State | Operations |
|---|---|---|---|
| Store | `internal/db/sqlite.go` | rows of jobs, tasks, dependencies (one connection: statements are atomic, handlers are not) | CreateTask, UpdateTaskStatus (unconditional), AssignTaskToGraph / PreAssignTaskGraph / RetryTask (conditional on the status), AddTaskDependency, UpdateJobStatus, GetReadyTasks, ReconcileInterrupted |
| Graph executor | `internal/graphexec/executor.go` | one goroutine per dispatch; `running`: cancel function by task id; `draining`, the count `taskWG`; a checkpoint per task (`db/checkpoints.go`) | ExecuteTask, Execute, CancelJob, Drain |
| Decomposition | `internal/service/decompose.go` | none of its own: it works on the rows | dispatch of coarse and fine bootstraps, consumption of their results |
| Task callbacks | `internal/service/local_broadcast_jobs.go` | none | what a created, completed or failed task sets off |
| Operator loop | `internal/operator/operator.go`, `system_tools.go`, `workspace_tools.go` | `eventCh` (bounded), the conversation | one event at a time: advance, completion check, model turns with tools, recovery |
| Job calls of a client | `internal/service/local_jobs.go` | none | Cancel, RetryTask |
| Boot and shutdown | `cmd/serve.go` | none | reconciliation, drain |
| Human in the loop | `internal/hitl/broker.go`, `internal/service/local_blockers.go` | `pending`: a channel of one text per request; the queue of open blockers; `blockerOutcomes`; table `blockers` | Ask, Respond, RespondToPrompt, DismissPrompt, ResolveBlocker, the sweep at boot |
| Conversation | `internal/service/local_operator.go`, `local_broadcast_operator.go`, `operator/handoff.go` | the operator in office, the turn that holds the gate, the pending response, the chat history | SendMessage, replacement of the operator, text and turn-end callbacks |
| Batcher | `internal/service/batcher.go` | buffered text, timer | Add, Flush |
| Event stream | `internal/service/local_events.go`, `internal/server/eventring.go`, `sse.go`, `internal/client/events.go` | subscribers, ring of recent events, count of connections; last number seen, state of the connection | broadcast, record, serve, resume, reconnect |
| Worker runtime | `internal/runtime` | sessions, the count `wg`, `closed` | spawn, turns, cancel, subscribe, shutdown |
| Provider scheduler | `internal/provider/scheduler.go` | a semaphore | acquire, release, cancel while waiting |
| Histories | `internal/contextwindow/history.go`, `runtime/session_compact.go`, `operator/handoff.go` | messages, session file, archives, transcript rows | truncation, compaction, handoff, restore |
| Graph nodes | `internal/graphexec/fanout_node.go`, `nodes.go`, `compiler.go` | per execution | fan-out and merge, routing |
| Everything else | TUI, HTTP handlers, providers, MCP, config, loader, prompts, knowledge base, progress tools | | I/O and presentation |

### How they interact

`create_job` inserts a job and broadcasts it; the service starts a
*coarse-decompose* bootstrap, which is a task like any other, born in progress.
When its graph completes, the executor calls back into the service
(`consumeDecompositionOutput`), which inserts the tasks of the result, then
their dependencies, then announces each: a task that is ready and has no graph
gets a *fine-decompose* bootstrap of its own. That one answers with a graph for
the task (the service starts it, or stores the graph if a sibling is running),
with subtasks that replace it, or with nothing that fits. The completion of a
real task retro-triggers fine-decompose for whatever became ready, and is sent
to the operator's event channel; the operator's loop then starts the next ready
task that has a graph or, when nothing is ready, checks whether the job is done.
A failure starts a turn of the operator's model, which may retry, create tasks
or do nothing. Clients retry and cancel directly on the store and the executor.
At boot, tasks left in progress are set back to pending before the operator's
loop starts, and the loop's first act is to advance interrupted jobs; a graph
resumes after its last saved node.

A node of a graph and the operator's `ask_user` tool may ask the user. Both call
`Broker.Ask`, which blocks the node's run or the operator's whole loop; a client
sees the question in the blockers queue and calls RespondToPrompt or
DismissPrompt, which records how it was answered, then hands the text to the
broker. The asker, once Ask has returned, takes the question out of the queue
and writes its history row with what was recorded.

A client's SendMessage takes the one-turn gate and puts the message into the
operator's channel. The loop's text goes through a batcher to the broadcast
under the label of its turn; the turn's end flushes the batcher, opens the gate,
records the reply and announces the end. A change of the configuration replaces
the operator while all of this goes on. Whatever is broadcast is numbered and
offered to every subscriber without waiting; one subscriber keeps the latest
events so that a client that comes back can be sent what it missed.

A node of a graph and the tool `spawn_worker` run worker sessions; a worker may
spawn workers and waits for each. Their model calls, and the operator's, share
the slots of the provider's scheduler.

### What is hard

* No handler uses a transaction. A dispatch reads the sibling list in one
  statement and assigns in another; a cancel lists, then overwrites; the job's
  status is read before a dispatch and overwritten after it; the readiness of a
  task is read, and its fine-decompose inserted, statements later.
* Three parties start tasks: the operator's loop, one goroutine per
  decomposition, and clients. Only the first is serialized.
* Wake-ups are events: a full channel drops them after five seconds; a
  bootstrap's end produces none; `hasNextTask` is computed before the callbacks
  that use it.
* A crash may fall between any two statements.
* A shutdown first ends every context and then says so: what a run makes of its
  end depends on which it sees.
* Questions are answered by clients that do not know of each other, while the
  asker's context may end at the same moment.
* An operator that was replaced goes on for a while, with a channel that still
  accepts and callbacks into the same service.
* The batcher's timer, the loop and the end of a turn emit concurrently, and the
  label of the text is stored apart from the text.
* A replay from the ring and a live subscription overlap; each end of a broken
  connection notices in its own time; numbers begin at 1 after a restart.
* A parent holds no slot while it waits for a child, but the stream it turned
  away from may hold one after it is gone.
* Histories are cut, compacted, saved and restored in the middle of rounds of
  calls and results.

What makes each component correct, as the runs of section 4 state it: the store
keeps the life of a task; the executor strands no task, runs no graph twice and
resumes from its own checkpoint; decomposition respects dependencies and the
depth cap; the operator starts its tasks one at a time, completes only jobs whose
work is done and misses no wake-up; a cancel ends what runs; a restart takes up
what was interrupted; an answer of a person reaches exactly one waiter and the record says
so; a turn's text carries its label and the gate covers the turn; an event stream
has order, no duplicates and no hole the code does not admit; no slot is lost and
no orphan works on; a history never separates a call from its result and keeps
what must not be forgotten.

## 2. Modules

```
TaskStore            rows and statements
  GraphRuns          goroutines: executor, callbacks, decomposition
    OperatorLoop     event loop, tools, recovery
      JobPipeline    + clients, cancel, crash; Spec, properties
        MCJobPipeline           budgets for TLC
        JobPipelineProofs       the inductive invariant; types, depth cap
          JobPipelineSafetyProofs   nothing stranded, operator is serial, order
                                    of the work; implements TaskLifecycle
TaskLifecycle        abstract: the life of a task
Executor             runs node by node: checkpoints, drain, shutdown, boot
  ExecutorProofs     its safety
Hitl                 broker, blockers, clients' answers
  HitlProofs         its safety
Conversation         SendMessage, gate, batcher, turns, replaced operators
  ConversationProofs labels, gate, replies
EventStream          broadcast, ring, connections, clients that come back
  EventStreamProofs  order, holes, limit
Workers              sessions that spawn sessions; slots; shutdown
  WorkersProofs      its safety
Histories            what is cut, compacted, saved and restored
  HistoriesProofs    its safety
```

The pipeline is one composition of four modules: store, goroutines, loop and
clients write the same rows and wake each other. The others are models of their
own: what they exchange with the pipeline is a choice of their environment (a
question is asked, a message comes, a tool returns, an event is broadcast), and
no guard of one reads the state of another.

**TaskStore** has one operator per SQL statement; the conditional ones carry
their `WHERE` clause as a guard, and callers have a second disjunct for the case
where no row matched. Task ids are given out in creation order.

**GraphRuns** has one record per goroutine: the request (`task`, `g`), whether
its context is done, and the locals a callback keeps between two statements
(`next`, `busy`, `more`, `kids`, `todo`, `aim`). Each action is one statement with the
code around it. In particular a callback that announces a task asks whether it is
ready (`CheckReadiness`) and inserts its bootstrap (`DispatchFineDecompose`) in
two steps, between which the task may be decomposed, run and completed by others,
and its job completed. `registered` is `Executor.running`; `Ended` models `endTask`,
which cancels *whatever run is registered under the task id*. A run is `Live`
while it still has to write its task's terminal status.

**OperatorLoop** has the loop's position and locals (`op`). A turn of the model
is the state `llm`: while in it the model may call any tool, as often as the
budget allows, and ends whenever it likes. Only tools that change jobs and
tasks are there; there is one job.

**JobPipeline** adds the client's calls, the Cancel call statement by statement,
and `CrashAndRestart`. The initial state chooses one of `Budgets`, each of which
says how often a thing from outside may happen.

**TaskLifecycle** is the abstract specification: a task is created pending or
running, starts from pending, restarts from failed, and otherwise only ends;
`Restart` requeues what runs; what runs ends.

**Executor** looks at the same goroutines from the other side: GraphRuns has what
a run's end sets off, Executor what a run does before it ends. A run is followed
from `beginTask` (registration and count, one step under `drainMu`) through
`prepareTask`, the load of the checkpoint, node after node with a save after
each, to the check of the drain flag, the deletion of the checkpoint, the
status, and `endTask` after the callbacks. `proc` is the shutdown: context
cancelled, flag set, drained or timed out, store closed. A statement on the
closed store fails and is logged, as in the code. `Verdict` is what the end of a
fine decomposition writes to its parent's row, whatever became of it since
(decompose.go:315, 467); the history `contested` has the tasks it wrote to while a
goroutine was still at work on them.

**Hitl** has a goroutine per question (`asker`) and per client call (`call`).
The pieces of `Ask`, `addBlocker`, `ResolveBlocker` and `Respond` that run under
one lock are one action each, and so is each statement of the store and each
channel operation. A text is the call that carries it.

**Conversation** has a goroutine per SendMessage (`call`) and per operator
(`loop`): the operator in office and those it replaced. The batcher is part of
the loop's record: its timer (`TimerFires`) and the loop's own steps touch it.
`Label` and `Add` are the two statements of `emitText`; `FlushTurn`, `Release`,
`RecordReply` and `Announce` the four of a turn's end. A replacement is three
steps under the service's lock. A text remembers the turn that produced it; what
was broadcast, recorded or thrown away is history.

**EventStream** numbers events over all lives of the server; the number on the
wire is that minus `base`. `Broadcast` offers an event to the recorder and to
every handler in one step, as the service's lock does. A handler (`conn`) goes
from the count of connections through the headers, the subscription and the
replay to live forwarding, and leaves when it notices that its client has gone.
A client (`client`) dials, reads one connection (`Receive`, or `Skip` for an event
it cannot decode), loses it, announces the loss and dials again. `missed` notes,
for each event, the code's own reason why a client will not see it.

**Workers** has a record per session: its goroutine, its parent, the child it
waits for, its context, the turn budget, the status, what its parent was told,
and a subscriber's channel. A model call is `Acquire` and one of its ends
(`CallEnds`: the stream ends, does not open, or is abandoned because the context
ended); after a stream that ended the session collects it, or finds its context
done first (`CollectFails`). A stream the session turned away from is in
`lingering` until its source ends and releases the slot.

**Histories** has one history, the operator's or a worker's (`kind`), and the
functions that shorten histories as pure operators: `TruncateMessages`,
`TrimIncompleteTail`, `ElideToolResults`, `RebuildHistory`. What a message says
is its number; what the program writes into a history itself has the number 0.
The disk is the session file and the `archives` a handoff writes, of which the
latest `ArchiveKeep` survive its pruning (`Archive`, `Newest`); a save may fail,
of which the code only warns (`saveFailed`).

### Correspondence and abstraction

*The pipeline*

* `graph`: `"coarse"` and `"fine"` are the two decomposition graphs, `"work"`
  any other, `"none"` the empty string.
* Reads that follow each other with no write of the same handler between them
  are one snapshot (`AssignNextTask`, `RetryTaskTool`): what matters is that the
  write comes later, in a step of its own. The gate of the service
  (`ReadServiceGate`) ignores bootstraps, the operator's does not.
* The readiness check of a callback is the one read of `GetReadyTasks`: what the
  reads of the task and of the job around it look at does not change.
* `GetReadyTasks` is ordered by rows in the code; the model lets the loop take
  any ready task with a graph, and a callback announce its tasks in any order.
  Both are more than the code does.
* A statement that starts a task and the `go` statement that follows it are one
  step.
* What a decomposer answers is free within `Verdicts`, `MaxKids` and `Links`
  (`"cycle"` includes self-dependencies: the code drops only indexes out of
  range).
* Errors of the store and the ten-second limits of the detached contexts are not
  modelled, except for the closed store in Executor.
* `LinkKids` writes all the edges of a result at once; the code has one statement
  per edge. The operator is taken to be configured. `assign_task` is not offered
  to the model and is reached from `assignNextTask` only, whose re-reads of the
  task are part of its snapshot. Nothing modelled writes the status "blocked".
  Operator events that nothing modelled sends, or that only start a turn, are not
  told apart from a turn.

*Executor and Hitl*

* In Executor the two statements of a Cancel are a cancel of all registered runs
  and a `Sweep` that may write over any status: the list it works on is old
  (JobPipeline has it in detail). The two verdicts of a decomposition are a
  `Verdict` that may come at any time; GraphRuns has which run writes it. The
  graph library is external: it saves the state after each
  node under the run's context, and a save that fails is taken to end the graph.
  `ended` is a history variable.
* In Hitl a request id is used once (they are UUIDs), so the refusal of a
  duplicate cannot happen; a panic of the broadcast is not modelled; a client
  knows an id once the question is in the queue and may use it at any later time.
  The events `blocker.added` and `blocker.resolved` belong to the event stream.

*Conversation*

* The reasoning batcher is the same code on a second buffer and is left out. A
  batcher drains and emits in one step: the code holds the batcher's lock around
  both.
* An event of the system either starts a turn (`"decision"`) or is a completion
  that may or may not be the job's end, of which the loop tells the user outside
  any turn. What the operator does to the store in its turns is in the pipeline.
* Turns of a user are known by the call that asked for them; ids are UUIDs.
* Nothing makes a replaced operator exit: its context is ended, but for the
  operator of boot (serve.go:488), whose cancel function startOperator does not
  have. The first operator may be either.

*EventStream*

* Channels have small bounds; the consumer's channel (256 places, never waited
  for) is taken to be full or not at any receive.
* The client's request for the whole state on a reconnect only delays it.
  Heartbeats and progress snapshots are events like any other.
* An event the client cannot decode, or finds too large, is passed over
  (client/events.go:201-218). A line above the reader's own limit of 10 MiB would
  break the connection again at every replay, until the ring has forgotten the
  event; no event is that large here.

*Workers and Histories*

* A turn's tools are one step unless one of them spawns: `ToolsReturn` or
  `SpawnChild`. Several spawns in one answer are taken one per turn.
* Why a stream fails is a choice, and so is whether a history is over its budget
  and whether a summary call succeeds. The estimate of tokens is not modelled.
* Tool results that are elided in memory stay whole in the transcript
  (`TranscriptMirrorsHistory` compares messages, not their texts), and the marker
  row of a compaction is not counted. Writes to the transcript do not fail; the
  code warns and goes on.
* Archives are in the order they were written. In the code their names are, to
  the second (handoff.go:156), so two handoffs are taken to be a second apart. A
  deletion that fails leaves all archives; the code deletes the others.
* A round of calls fits into the operator's history (`MaxCalls < MaxMessages`;
  200 messages in the code), and a session says something (`MaxSaid` is not 0).


### Bounds

Whatever could grow without end has a bound in a guard, named in the module:
`MaxTasks` rows, `MaxRuns` goroutines at once, `MaxKids` tasks per result,
`MaxEvents` broadcasts, `MaxCuts` broken connections, `MaxTurns` of a session,
`MaxSaid` messages and so on, and `Budgets`, a set of budgets, one of which
limits what comes from outside the pipeline: messages, tool calls, a client's
retries, cancels, crashes. When ids or goroutines run out, a step that needs one
cannot be taken; runs with a liveness property have bounds that are never
reached, or properties that hold on the states they reach. `CHECK_DEADLOCK
FALSE` everywhere: a system whose budget is spent and that has nothing left to
do is a legitimate end.

| Run | Instance | Why it is enough |
|---|---|---|
| `chain_runs_in_order` | 7 tasks, results of up to 3 tasks, in a chain or independent, 4 goroutines, 2 events | two tasks are in progress at once, one task is decomposed while another waits, decompositions of one task overlap, a bootstrap is inserted after its task ran and its job was completed, and the channel is full while a run sends |
| `interruptions` | 4 tasks, 2 goroutines; a crash and a task of the operator, or a cancel and a user's retry | an old run in its callbacks next to the retry; a crash between any two statements |
| `splits_and_retries` | 6 tasks, all verdicts and shapes of links, depth 1; both retries, or a workspace set-up | a split on each side of the cap, cycles, a retry in the loop's window |
| `drain_and_resume` | 1 task, 2 goroutines, 2 nodes; 2 deaths, 2 retries, a cancel, a verdict | an old run in its callbacks next to its retry, or two at work after a verdict; a resume that starts in the middle; tasks meet only in the drain and in CancelJob |
| `questions_and_answers` | a question of each kind, 2 calls, 1 restart | a contest needs two calls |
| `event_stream` | 1 client, 2 handlers, limit 1, ring 2, channels 2, wire 1; 4 events, 1 cut, 1 restart | the client's old handler holds the only slot; events leave the ring; replay and subscription overlap |
| `worker_sessions` | 2 sessions, 1 slot, depth 1, 2 turns, 1 abandoned stream, 1 cancel | parent and child compete for the only slot while a stream nobody reads holds it |
| `conversation` | 2 messages, 1 swap, 1 event, 2 texts | the old operator in a turn while the new one is given a message |
| `histories` | 4 messages and 1 archive kept, 2 turns kept, rounds of 2 calls, 7 messages of an operator and 11 of a worker, 2 compactions or handoffs, 1 crash | every cut falls on each place of a round; a worker has two tiers of compaction with a spawn and a turn between; the second archive prunes the first |

Bounds that are proofs' parameters bound nothing there: the theorems of section 5
hold for all values.

### Fairness

`FairSpec` of the pipeline has weak fairness of each goroutine (`Run(r)`), of the
loop and of a Cancel that has begun: the Go scheduler runs what can run, and a
model call returns because providers and graphs have timeouts. What the model
decides, what a user does, and crashes are not fair. Fairness is of a whole
goroutine and not of a particular outcome: a graph may always fail.

In Executor only the goroutine that shuts down and Drain's timer are fair: a node
that ignores its context is what the timer is for. In Hitl the askers and the
handlers of calls are fair, and so is the timer of `promptUser`; whether anybody
answers, dismisses or cancels is not. In EventStream the recorder, each handler
and each client's loop are fair; that anything is broadcast, or that connections
break, is not. In Workers what the session's own goroutine does
is fair (`Proceeds`), and so is the rest of a cancel call that listed it
(`CancelListed`). A model call and a tool are fair only when the session is
cancelled, and a call also when it is that of a summary, which has a timeout: the
HTTP clients bound the dial, the handshake and the headers (anthropic.go:21-29,
openai.go:142-152), but nothing bounds a stream that stalls after them. An
abandoned stream ends when its session's context does, with a cancel or with the
session. `SessionsEnd` states the rest as its hypothesis. In Conversation the
loops except for their exit, the batcher's timer, the start of an operator
and the rest of a SendMessage that has begun are fair; a swap and an event are
not. Histories is about states only and has no fairness.

## 4. Runs

| Run | Question |
|---|---|
| `chain_runs_in_order` | Are tasks decomposed and run after their dependencies and each by one run, and is the job completed only when no work is left, although decompositions start twice and late and events may be dropped? |
| `interruptions` | Is whatever is in progress owned by a run, does what was started finish, is an active job taken up again after a crash at any point, and does every task live the life of TaskLifecycle, through crash, cancel and retry? |
| `splits_and_retries` | Is the depth cap kept whatever the decomposer answers, do the operator's own dispatches and retries never overlap, and does nothing that ended start again without a retry? |
| `drain_and_resume` | Does a task's graph ever run twice at once or go on from a state not its own, unless a decomposition's verdict contested it, and does a drain leave a registered run behind? |
| `questions_and_answers` | Is one answer accepted and delivered, is it what the history says, and does every wait end? |
| `event_stream` | Does a client see events in order, once, and with no hole the code does not admit; does the limit hold; does the client return? |
| `worker_sessions` | Is every slot held by somebody, is every orphan cancelled, is a reported success a completion, does whoever is cancelled end, and does everybody end if streams and tools do? |
| `conversation` | Does text carry the label of its turn, does the gate cover the turn and open again, and is each reply recorded once? |
| `histories` | Is what the model is sent well formed, does a worker keep its task and recent turns, and is the conversation on disk, except for what the window, pruned archives, failed saves and a crash take? |
| `lost_completion_check` | violation: a job may never end |
| `shutdown_looks_like_cancel` | violation: a shutdown cancels a task for good |
| `gate_lost_in_swap` | violation: a gate stays closed |

The properties are commented where they are defined. Each passing run has a
mutant per property in PROJECT.json, written next to the definition it changes:
a plausible slip in the code (a dropped guard, a status not written, an
off-by-one) under which the run fails. `chain_runs_in_order` is an instance of
the conditions under which section 5 proves its four invariants.

### Disagreements the runs show

* **A job that never ends** (`JobEnds`). A bootstrap counts as an unfinished task
  for `checkJobComplete`, but its own completion is consumed by the service and
  triggers no check.
* **A shutdown may cancel a task** (`ShutdownLeavesResumable`).
  `LocalService.Shutdown` cancels the context, then `Drain` sets the flag; a run
  that returns in between deletes its checkpoint and is recorded as cancelled,
  which no recovery takes up.
* **A gate that stays closed** (`GateOpens`). A replacement opens the gate of the
  operator it retires so that no message is refused for ever
  (local_operator.go:260). A SendMessage that has read the operator before the
  swap and takes the gate after it sends to the retired operator, whose loop has
  ended and whose channel nobody reads: nothing opens the gate until the next
  swap. (An operator that was activated live; that of boot goes on and answers.)

### Limits seen while modelling, with no run of their own

*The pipeline*

* Two independent tasks may run at once: the service's gate is read and acted on
  in two statements by one goroutine per decomposition (decompose.go:355), and the
  operator's and the service's gates do not know of each other. That work is
  serial, as the comments have it (system_tools.go:136 and 536, decompose.go:348),
  holds of the operator's own tasks (`OperatorRunsSerially`) and of each task
  (`OneRunPerTask`) only.
* A callback may insert a bootstrap for a task that has run since, and into a job
  that was completed since; nothing starts what it answers, but if nothing fits
  the completed task is marked failed.
* The boot sweep lists active jobs only (operator.go:681); a job whose tasks the
  service started is still pending and is not resumed.
* `handleNoGraphFit` fails the parent and tells nobody (decompose.go:330); a job
  whose last task ends so stays open.
* The operator queues a task behind a bootstrap (system_tools.go:548) and
  nothing starts it when the bootstrap ends.
* The job status read before a dispatch is promoted to active after it
  (system_tools.go:594), over a cancel in between; tasks may be added to a job
  that was cancelled after the tool read it (system_tools.go:370).
* `setup_workspace` turns any job status into `setting_up` and leaves it there
  (workspace_tools.go:62); such a job is not recovered after a crash.
* A retried task may be cancelled by the old run's `endTask`, which looks its
  registration up by task id (executor.go:237).
* The retro-trigger may decompose tasks whose dependencies are being written
  (decompose.go:225-263), so a task may be decomposed twice; the assignment's
  `WHERE` clause keeps it from running twice.
* A verdict may fail the row of a task that another decomposition has started
  (decompose.go:315). If a client then retries it, two runs of one task share the
  registration, the checkpoint and the workspace. `OneRunPerTask` is false with one
  such verdict and one retry, and Executor's properties leave such tasks out
  (`contested`).
* A split completes the parent first (decompose.go:467): its dependents become
  ready before the subtasks run, and a completion check in between may find the
  job done.
* A crash between the insert of a job and of its bootstrap, or between the rows
  of a decomposition, leaves a job that nothing completes.
* A completion dropped at a full channel stalls a job until another event; the
  code logs it.
* A dispatch that meets the drain is marked failed, not left for recovery
  (executor.go:644), by a goroutine that the drain does not wait for:
  `DrainedRunsAreSettled` is about registered runs only; a run that fails on its own while the context ends is
  recorded as cancelled (executor.go:509).
* A task at the depth cap stays pending, and cyclic `depends_on` never become
  ready; both are accepted by the code.
* `update_task_status` of the progress tools writes any status to any task and
  would bypass all of this; no shipped role lists it.

*Questions and the conversation*

* An accepted answer is lost when the asker's context ends before it has read
  the channel (broker.go:73-81): the client was told it succeeded, the record
  says answered, the asker got an error. `UncontestedOutcomeIsRecorded` is
  therefore about askers that got the text. In the same way a late call may, for
  a moment, label a question that is being given up as answered.
* Outcomes are keyed by the request, so a second call that the broker refuses
  clears what the accepted one recorded (local_operator.go:142): an answered
  question may be recorded as cancelled.
* A Send that fails opens the gate of whatever turn holds it after a swap, and a
  replaced operator's late end of turn takes the response the new one is
  collecting.
* The user's entry of the chat history is appended after the send, so the reply
  to a fast turn may precede it. What the loop tells the user outside a turn may
  be flushed under the label of the turn that follows.
* A replaced operator goes on writing to the session file of its successor.

*The event stream*

* After a restart of the server numbers begin at 1; a client that names a higher
  one is not sent what the ring holds, and skips events until the numbers pass
  its own (client/events.go:52).
* A client that resumes while the recorder lags misses what is in the
  recorder's channel and was broadcast before the subscription.
* A client that reconnects before its first event names no event and starts
  anew. When its consumer's channel is full, the announcements of a lost and a
  restored connection are dropped like any event (client/events.go:57-60).

*Workers and histories*

* A session cancelled while it waits for a slot is recorded as failed, not as
  cancelled. A cancelled session whose stream closes early may be collected as
  complete (runtime.go:332-334); `SuccessIsCompletion` is about the status.
* A stream that stalls after its headers holds its slot, its session and the
  parents above it until somebody cancels or shuts down: neither the client nor
  the session's context has a limit (runtime.go:272, session.go:105).
* After `archiveKeep` handoffs the first part of a conversation is nowhere
  (handoff.go:181); a crash loses more than a message if saves have failed,
  which is only logged (operator.go:1072).
* The summary's "nothing to elide" branch (session_compact.go:123) cannot be
  reached. An answer with 200 tool calls or more would fill a whole truncated
  history and lose its pairing.

## 5. Proofs

For every value of the constants, TLAPS proves of `Spec`:

| Module | Theorem | Statement |
|---|---|---|
| JobPipelineProofs | `TypeCorrect` | `[]TypeOK` |
| | `DepthCap` | `[]DepthIsCapped` |
| JobPipelineSafetyProofs | `NothingStranded` | `[]InProgressIsOwned` |
| | `OperatorSerial` | `[]OperatorRunsSerially` |
| | `Refinement` | `Lifecycle!Init /\ [][Lifecycle!Next]_status` |
| | `Unrevived` | `NoRevival` |
| | `DependenciesFirst` | `[]RunsAfterDependencies`, if `Undisturbed` and `FindsGraphs` |
| | `DecompositionInOrder` | `[]DecomposesAfterDependencies`, if the same |
| | `RunsOnce` | `[]OneRunPerTask`, if the same |
| | `CompletedHasNoWork` | `[]CompletedJobHasNoWork`, if also `NoRetryTool` and `NoUserRetry` |
| ExecutorProofs | `RunsAlone` | `[]OneGraphPerTask` |
| | `DrainIsComplete` | `[]DrainedRunsAreSettled` |
| | `ResumesOwnWork` | `[]RunMatchesCheckpoint` |
| | `NoStaleCheckpoint` | `[]ObsoleteCheckpointIsGone` |
| HitlProofs | `AcceptedOnce`, `SendFindsRoom` | `[]OneAnswerIsAccepted`, and no send finds a full channel |
| | `QueueIsLive` | `[]QueueHasAskers` |
| | `OutcomesDoNotLeak` | `[]OutcomesAreTransient` |
| | `HistoryIsRight` | `[]UncontestedOutcomeIsRecorded` |
| WorkersProofs | `TypeCorrect` | `[]TypeOK` |
| | `SlotsHeld` | `[]SlotsAreHeld` |
| | `NoRunawayWorker` | `[]OrphansAreCancelled` |
| | `ReportedSuccessIsReal` | `[]SuccessIsCompletion` |
| | `ShutdownIsComplete` | `[]ShutdownLeavesNobody` |
| EventStreamProofs | `InOrder` | `[]InOrderOnce` |
| | `ConnectionsWithinLimit` | `[]ServedWithinLimit` |
| | `HolesAdmitted` | `[]HolesAreAdmitted` |
| ConversationProofs | `TextLabelled` | `[]TurnTextIsLabelled` |
| | `GateCovers` | `[]GateCoversTurn` |
| | `RecordedOnce` | `[]RepliesRecordedOnce` |
| HistoriesProofs | `HistoryWellFormed` | `[]HistoryIsWellFormed` |
| | `WorkSurvives` | `[]WorkingSetSurvives` |
| | `TranscriptMirrors` | `[]TranscriptMirrorsHistory` |
| | `ConversationOnDisk` | `[]ConversationIsOnDisk` |

ExecutorProofs, HitlProofs, EventStreamProofs, ConversationProofs and
HistoriesProofs have a `TypeCorrect` of their own.

Assumed: the named ASSUMEs on the constants, which TLC evaluates in every run,
and for four theorems the conditions in the table, which are about constants too:

* `Undisturbed`: no budget lets the operator's model create tasks, a client
  cancel, or the process die. TLC finds both dependency properties false with one
  created task, or one cancel (whose sweep overwrites a completed dependency), and
  `CompletedJobHasNoWork` with one created task. With crashes it finds no violation
  on small instances, but the invariant does not hold: its phases do not fit a job
  whose bootstrap is started again or whose result is stored in part.
* `FindsGraphs`: a fine decomposition answers with a graph or with nothing. A
  split completes the parent before its subtasks ran, and TLC finds
  `CompletedJobHasNoWork` false with one. "No graph fits" fails a task that may be
  running, and TLC finds `OneRunPerTask` false if it is then retried. For the
  dependency properties it finds no violation in either case and the proof has
  nothing to say.
* `NoRetryTool`, `NoUserRetry`: nothing is retried by the model, or by a client.
  Neither retry asks whether the job was completed, and TLC finds
  `CompletedJobHasNoWork` false with one of either.

Each is a condition on the environment that a run of the unchanged program can
meet; failures of graphs, refused dispatches, full channels, workspace set-ups,
messages, all shapes of dependencies and, for the first three theorems, both
retries are within them.

*The pipeline.* `TypeOK` is not inductive: a decomposition writes to
`target[task]`, so its type depends on that being a row. `IInv` adds what
handlers rely on about the ids they hold while others write: a stored
fine-decompose bootstrap has a parent row above the cap (`HasParent`), a
goroutine's or the loop's task is a row, a cancel's list contains rows, a result
being created has a task left. These survive the others' steps because of two
facts, `Keeps`: rows are never deleted, and no statement changes the target or
depth of an existing row. There is a lemma per statement of the store
(`IInv` and `Keeps` follow), then one per handler, with frame lemmas for the
part a handler does not touch. `DepthIsCapped` is a conjunct of `IInv`: a subtask
is one level below a parent that is above the cap.

`InProgressIsOwned` is inductive relative to `IInv`: a run leaves `Live` only by
writing a terminal status of its own task, and a task starts only together with
a run. `OperatorRunsSerially` needs `GateHolds`: between the loop's read of its
gate and its write, nothing is in progress in the operator's name but the task
it retries, since only the loop starts tasks in that name. `Refinement` uses
`IInv` once more: an unconditional `UpdateTaskStatus` is a step of
TaskLifecycle only if it hits a row.

*The order of the work.* `OrderInv` has four parts. A task in progress has one run
that will end it, on the graph of its row (`OneRunInv`). Whatever has been started,
is about to be dispatched or has a bootstrap had its dependencies completed
(`MetInv`); a callback that is about to insert a bootstrap remembers for which task.
What waits has no graph yet or the one of its work, so no dispatch
starts a bootstrap (`WaitInv`). These are kept as long as nothing takes a
completion back (the lemmas about what a step of a run, `RunEffect`, and of
anybody else, `OtherEffect`, does to rows and runs) and no dependency is added to
a task that was started. The last is a matter of phases (`PhaseInv`): before the
job has a row, while its decomposition runs, while one run stores and links the
result and nobody else touches a task, and afterwards, when no run links anything
any more. In the third phase the loop is never about to dispatch and all tasks of
the result are pending, so linking them is harmless. `RunsOnce` is `OneRunInv`
itself, whose core is that only a pending row is assigned to. For
`CompletedJobHasNoWork`, the loop finds all rows ended only in the last phase
(`Done`); from then on no run starts or assigns anything, and all that is still
inserted are bootstraps of callbacks that asked before, whose answers find no
pending row.

*Executor.* None of the four properties is inductive. The core is `UniqueInv`: a
busy goroutine (one that will still write something of its task) is alone with
it, unless the task is contested, because its task is in progress or swept
(`StartedInv`) and no statement starts such a task. Then what a run finds in the checkpoint is what it wrote
(`GraphInv`), the deletion precedes the outcome, and a lemma, `OthersLemma`,
keeps the invariant of every other goroutine through any step. The drain needs
that registration and the reading of the flag are one step (`BeginTaskStep`).

*Hitl.* While a request is pending nobody has been accepted for it, its channel
is empty and its asker is in Ask (`PendingInv`): so one call takes it, its send
finds room, and what the asker reads is that call's text (`ChannelInv`).
`RowInv` ties the asker's position to the queue and the row; `ContestInv` keeps
the outcome of a call that no other contests until the row has it.

*Workers.* Most steps change one session's record; a lemma says what such a step
may change for the family invariants to survive it. `Family` is that
every session's record agrees with its position (`Sound`: its status is final
when its goroutine has ended, and a success was reported only of a completed
session), that a parent waits for another session, which was spawned
(`WaitsForChild`), and `OrphansAreCancelled` itself. The two counters are
cardinalities: `wg` of the sessions that have begun and not ended
(`GroupCounts`), the semaphore of the calls under way and the abandoned streams
(`Held`), so each step that moves a counter is shown to add or remove exactly one
element. The shutdown is then: once `closed` is set nobody begins, and the wait
ends only when the group is empty.

*EventStream.* `OrderInv` has three parts. Of a handler: what it has to replay,
and what its subscription holds, are increasing events of this server, and what
it has to replay is above `lastSent`. Of a client: its feed and then its
connection are one increasing sequence, and no event of this server it was given
is above `lastSeq`. Of a handler that is connected to its client (`LinkOK`): all
that the client has, or has on its connection, precedes all that is left to
replay, and an event in the subscription is either later than all that or not
above `lastSent`, which is when the forwarding loop drops it. At the resume the
connection is empty and the number the client named is its `lastSeq`, so the
suffix since() returns (its first element is the least newer one) is later than
the feed; a restart makes every event so far one of a former server. The limit
is two cardinalities: the counter is the number of handlers past the increment,
and those served are among them.

`HolesAreAdmitted` says of two events what has to be known of all: a client that
has got an event, or names its number, has got or is excused for every event
before it (`SeenOK`). So it must be known where the events are that it has not
got: in what its handler has to replay or in the handler's subscription, behind
the guard that drops what was sent (`PathOK`). That holds from the moment a stream
begins because every event of this server is in the ring, on its way there, or
gone (`ArchiveInv`), and since() leaves out of the first nothing that is newer.
`TypeCorrect` collects what these invariants bound and adds that no number on the
wire is above the id of its event (`Honest`), so the base a client derives from
the two is not negative.

*Conversation.* `PlacesInv` says where a message can be: with one operator, in
its queue or as its turn, once, after it was sent and until its end is announced
(`Mine`). So no two loops ever have the same turn, and nothing is with a message
that was not sent. `LoopOK` is what the order of label and text needs: while a
turn speaks, what the batcher holds of it is labelled with it; the flush precedes
the reset of the label, and so nothing of a turn is left when its end is
announced. For the gate, `GateCoversTurn` is not inductive: a call has the gate
before its message is in the queue. `Covered` starts where the call takes the gate
and ends where its turn releases it or its operator leaves office; a release opens
the gate for its own turn only, and by `PlacesInv` no other operator has that
turn. The swap opens the gate while nobody is in office, and the operator it then
installs has no message (`OfficeInv`).

`RepliesRecordedOnce` is that the spots a piece of text can be in (a batcher, the
pending response, the reply in a loop's hands, the history, what a swap threw
away) are a partition of what was said: each step moves the whole of one spot to
another or adds one piece to one. A loop holds a reply only until it has recorded
it (`HeldInv`), so a release never overwrites one. `TypeCorrect` is the bound on
what is said, for which the pieces that loops have reserved count as said.

*Histories.* The loops of the code that look for a place to cut are a minimum, a
maximum or a choice of a place here, so the cuts can be reasoned about: a piece of
a history that starts at no result keeps calls and results together, and so does
one that ends at a boundary. `TruncateMessages`, `RebuildHistory` and
`TrimIncompleteTail` cut at such places, and the round that is not over stays in
what `TruncateMessages` keeps because `MaxCalls < MaxMessages`. `ChainInv` is that
in every history each result follows its call at its place; `RoundInv` that, in
the middle of a round, the results still missing are those of the last answer. The disk invariant (`DiskInv`)
is an inclusion: what was said is in the history or in what is accounted for, the
surviving archives, those pruned, and what was cut (`Kept`); the same holds of the
file unless a save is due or has failed, and a history is at most one message
ahead of it. A handoff adds to an archive what it takes out of the history, and
pruning moves whole archives from one set of the account to the other. The
transcript's is an equality of lengths and places. For
`WorkingSetSurvives`, the recent turns are at the end of a worker's history as
they were said, at a fixed distance from their place in the conversation
(`EndsRecently`); an append moves both, a compaction keeps from the protected tail
on, which never starts earlier than it did.

*Only model-checked.* Liveness (`StartedTasksFinish`, `RecoveryAdvances`, the
fairness of TaskLifecycle, `ShutdownEnds`, `CallsReturn`, `WaitsEnd`,
`ClientsReturn`, `CancelledSessionsEnd`, `SessionsEnd`, `ServedTurnOpensGate`), because
TLAPS handles neither fairness nor ENABLED here; and the four invariants of
`chain_runs_in_order` outside the conditions above, where some of them are false
(section 4, limits).

## 6. Not modelled

* **Graph nodes and compilation.** Nodes run in an external graph library, whose
  scheduling of parallel nodes is not in this repository. The merge of a fan-out
  is one sequential pass over results that are all in, and is covered by
  `fanout_node_test.go`. Executor sees a node as one step, Hitl the question it
  asks.
* **HTTP handlers and the rest of the client** decode, call the service, encode:
  no state of their own, except for the event endpoint, which EventStream has.
* **Terminal UI.** A third of the code; presentation of what the event stream
  delivers.
* **Tools of the runtime, providers, MCP, configuration, loaders, prompts,
  knowledge base.** Files, processes, external services and text.
* **Progress tools.** Opt-in per role, listed by no shipped role.
* **Store.** Statements on other tables (sessions, graphs, knowledge) are inserts
  and lists that no modelled decision reads.

The lines these modules stand for are about a tenth of the repository's. Most of
the rest is the list above: presentation, wire types, and I/O in which no
property depends on the order of steps.
