# CodeRepair: specifications, model checking and proofs

This directory holds TLA+ specifications of the concurrent parts of CodeRepair,
TLC configurations that check them on small instances, and TLAPS proofs of the
results that should hold for every instance.

    tlc -workers 2 -config runs.cfg MCRunLifecycle     # one run
    tlapm RunLifecycleProofs.tla                       # the proofs of one component

`PROJECT.json` lists components, runs, mutants, findings, hazards and theorems,
and maps every definition to the source lines it translates.

Contents

1. The system: components, state, interactions
2. Modules
3. The code-change platform
4. The event stream of a run
5. The runs of a thread
6. Subagents
7. The memory queue
8. The MCP session pool
9. The sandbox pool
10. The IM channels
11. Runs: what each shows, bounds, fairness
12. Proofs
13. Disagreements between the code and what it says of itself
14. Not modelled, and the plan

## 1. The system

CodeRepair is an agent server (a FastAPI gateway over a LangGraph harness) with
a control plane on top that turns requests for a code change into reviewed
diffs. Paths below are relative to `src/backend/`; `harness` stands for
`packages/harness/deerflow`.

| Component | State | Operations | Talks to |
|---|---|---|---|
| **code_change store** `harness/code_change/store.py`, `state_machine.py` | per task `task.json` and `.claim.json`; one append-only `task_queue.jsonl` | save, enqueue, claim, renew, release, all but the plain reads under one `flock` | files shared by every process |
| **code_change worker** `worker.py` | in-memory `Task`, its claim id, a heartbeat thread | scan and claim, execute (export, patch, apply, test, report), save, release | the store; the artifact directory of the task |
| **code_change control plane** `worker.py`, `review.py`, `app/gateway/routers/code_change.py` | a copy of the task for the length of one request | create, retry, resubmit, review | the store; `requested_patch.diff`, `human_review.json` |
| **StreamBridge** `harness/runtime/stream_bridge/memory.py` | per run: bounded list of events, start offset, ended flag, condition, sequence counter | publish, publish_end, subscribe, cleanup | run worker (producer), SSE consumers |
| **SSE consumer** `app/gateway/services.py` | one generator per connection | forwards events, notices a disconnect, may cancel the run | bridge, run manager, client |
| **RunManager** `harness/runtime/runs/manager.py` | in-memory `RunRecord`s per thread, `finalizing` flags, a persistent store | create_or_reject, set_status, cancel, wait_for_prior_finalizing, reconcile, shutdown | run worker, stores |
| **Run worker** `harness/runtime/runs/worker.py` | one asyncio task per run, its abort event | run_agent: stream the graph, roll back, finalize | manager, bridge, checkpointer |
| **Memory queue** `harness/agents/memory/queue.py` | pending contexts, a timer, a processing flag | add (debounced), flush, process | timer thread, memory updater |
| **MCP session pool** `harness/mcp/session_pool.py` | sessions and in-flight creations in an LRU, each owned by a task of some event loop | get_session, close_*, evict | event loops, MCP servers |
| **Anchored branches** `harness/anchored_branch/store.py`, `app/gateway/routers/anchored_branch.py` | branch metadata of a conversation | create, run, close, merge | gateway, runs |
| **Sandbox pool** `harness/community/aio_sandbox` | containers per conversation, a warm pool, time stamps | acquire, get, release, reap idle, evict, adopt | Docker, agents, uploads |
| **Subagents** `harness/subagents/executor.py`, `harness/tools/builtins/task_tool.py` | background results with a terminal status, a registry | start, poll, time out, cancel, clean up | scheduler threads, an isolated event loop, the run's loop |
| **IM channels** `app/channels/manager.py` | recent message keys, the thread of each conversation, creation locks | dispatch, find or create a thread, run, answer | chat platforms, the gateway's HTTP API |
| Run journal, checkpointer, persistence | append-only events, checkpoints, SQL | adapters | |
| Lead agent, middlewares, skills, tools, models, channel adapters, TUI, frontend | no protocol state of their own | | |

What is hard in it:

- *code_change.* Worker processes, a heartbeat thread in each, and requests all
  read and rewrite the same `task.json`. The `flock` covers a single operation,
  not a read followed by a decision followed by a save. Leases expire under a
  worker that is still running; processes die between two writes; and the
  artifact directory (workspace, diffs, reports, review document) is written
  with no lock at all. What makes it correct: one accepted result per claim and
  only from the newest claim; statuses that follow the table of
  `state_machine.py`; a bounded number of attempts; evidence (applied diff, test
  result, report) that belongs to the diff it vouches for; every queued task
  eventually executed.
- *Event stream.* Events are evicted from a bounded history while subscribers
  are blocked or gone; clients return with the id of their last event, which may
  be retained, evicted or foreign; the stream is removed 60 seconds after the
  run ended, with subscribers still holding it or still to come. What makes it
  correct: order, no duplicates, gaps only from eviction, END last and END for
  everybody.
- *Run lifecycle.* A new run cuts the active one and both use the checkpoint of
  the thread: the one cleans up (a rollback, a title) while the other starts.
  Cancellation meets a run at any of its awaits; statuses are persisted outside
  the lock; the process drains or dies. What makes it correct: one run at a
  time works on the checkpoint, a rollback takes back its own run and nothing
  else, rows in the store have an owner, and nobody waits for ever.
- *Subagents.* Three threads share a result that readers look at without its
  lock; a subagent may hang for ever. Correct: the first outcome wins, what the
  tool tells is complete, every call returns, every subagent stops.
- *Memory queue.* Timers are cancelled, replaced and forgotten while another
  thread processes. Correct: the newest snapshot of a thread is not lost and
  never overtaken by an older one.
- *Session pool.* Each session must be entered and left by one task, on one
  loop, while calls of other loops evict it and calls are cancelled anywhere.
  Correct: what the pool offers is usable, no owner task is forgotten.
- *Sandbox pool.* The registry is locked, the backend is not: between a verdict
  and its consequence the sandbox may be dropped, created or released again, and
  a cancelled call leaves its function running. Correct: no container is lost,
  no live one is dropped, none is stopped while in use.
- *Channels.* Deliveries are repeated, handled concurrently, and fail. Correct:
  each message is handled once, a connection has one thread in a conversation,
  everyone gets an answer.
- *Anchored branches.* Decisions on records read several awaits earlier.

`PROJECT.json` lists the individual hazards at their lines, those no property
covers with the reason.

## 2. Modules

    TaskStates  <--  CodeChangeStore  <--  CodeChange  <--  MCCodeChange
                                              ^  |
                                              |  +-- INSTANCE FencedResults
                                       CodeChangeProofs

    RunStream     ---- INSTANCE OrderedFeed
    RunLifecycle  ---- INSTANCE ThreadContents

    X  <--  MCX         X = RunStream, RunLifecycle, Subagents, MemoryQueue,
    ^                       SessionPool, SandboxPool, Channels
    XProofs

(`A <-- B`: B EXTENDS A.)

| Module | What it models |
|---|---|
| `TaskStates` | `TaskStatus`, `ALLOWED_TRANSITIONS`, `transition()` and the failure handler of an execution |
| `CodeChangeStore` | the locked operations on `task.json`, `.claim.json` and the queue log, each one step; what a crash leaves half done |
| `CodeChange` | worker processes, heartbeats, time, control-plane requests, the artifact directory |
| `FencedResults` | the abstract specification of claims: ids only grow, a task takes a result only from its newest claim and never twice |
| `OrderedFeed` | the abstract specification of a run's events: a reader that comes and goes gets what is still kept, one by one, in order and none twice, and the end last |
| `RunStream` | the stream bridge, its producer, SSE consumers and reconnecting clients of one run |
| `ThreadContents` | the abstract specification of a thread's checkpoint: a run adds its writes or takes them back in one step |
| `RunLifecycle` | `RunManager`, `run_agent`, the requests that create and cancel runs, start and stop of the process: the runs of one thread |
| `Subagents` | background execution of subagents and the tool that waits for them |
| `MemoryQueue` | the debounced queue of memory updates and its timers |
| `SessionPool` | MCP sessions, their owner tasks, several event loops |
| `SandboxPool` | the containers of the AIO sandbox provider |
| `Channels` | the manager of chat messages |
| `...Proofs` | the theorems about a module, for every value of its constants |
| `MC...` | instances for TLC |

The modules meet at their edges. `RunStream` takes from the run worker that
events come before END and the clean-up after it, which is the order of
`run_agent`'s `finally` clause (`Close` in `RunLifecycle`); `Channels` takes from
`RunLifecycle` that a thread rejects a second run while it has one (`OneActive`);
`MemoryQueue` and `SandboxPool` only see that runs begin and end; the
cancellation of a run is what cancels a tool in `Subagents` and a call in
`SessionPool` and `SandboxPool`.

Recursion is not needed anywhere. The operators that follow a comment
"Mutant of ..." are the deliberately wrong variants `PROJECT.json` lists under
"mutants"; nothing in a specification uses them.

## 3. The code-change platform

### State and code

| Variable | Stands for |
|---|---|
| `disk[t]` | `task.json`: status, error code, `attempt_count`, submission mode, `claim_id`, the diff `patch_result` reports as applied, the diffs the workspace held when `test_result` was obtained |
| `claim[t]` | `.claim.json`: claim id (0: no file), worker, and whether `expires_at` is still ahead |
| `queueLog` | `task_queue.jsonl` |
| `lastClaim` | how many claim ids were handed out (`uuid4().hex` in the code: fresh, here increasing) |
| `requested`, `workspace`, `patchDiff`, `report`, `reviewDoc` | the artifact directory: `requested_patch.diff`, `workspace/`, `patch.diff`, the reports, `human_review.json` |
| `pc`, `task`, `rec`, `held`, `beat`, `scan` | one worker process: where it is, its task, its in-memory `Task`, its claim id, its heartbeat thread, the rest of the queue it read |
| `cpc`, `ctask`, `crec` | one control-plane request: where it is, its task, its copy |
| `faults` | faults so far |
| `granted`, `results` | history, read by no action: the newest claim of a task, the claims whose results were taken |

| Action | Code |
|---|---|
| `ReadQueue`, `ScanItem`, `PassOver` | `claim_next_task`: read the log once, look at each task without the lock, pass over what cannot be claimed |
| `ClaimTask` | `_claim_task_file` under the lock, then `heartbeat.start()` |
| `RunNow`, `SaveRunNow` | `run_task_now`: a task executed with no claim |
| `PrepareWorkspace`, `GeneratePatch`, `ReceivePatch`, `ApplyPatch`, `RunTests`, `AssertClaim`, `WriteReports` | the stages of `execute_task`, each with its failure |
| `Abandon` | an exception outside the `try` of `execute_task` (`get_project` before it; the claim check, `write_reports`, `save_task` after it): nothing is saved, the claim goes back. A fault, so that it happens finitely often: a project that can never be read again is claimed and given back for ever |
| `SaveResult`, `RejectStaleResult` | `save_task` with the claim, or `StaleTaskClaim` |
| `Release` | the `finally` clause of `run_next_task` |
| `Heartbeat`, `HeartbeatError` | `_TaskClaimHeartbeat._run`: one renewal, or the exception that ends the thread for good |
| `LeaseExpires`, `LateHeartbeat` | `expires_at` passes: of a lease nobody renews, or (a fault) of one that is being renewed |
| `WorkerCrash`, `ControllerCrash` | a process dies, between any two steps or inside a locked operation (`TearClaim`, `TearUnlink`, `TearRelease`) |
| `CreateTask`, `RetryTask`, `ResubmitPatch`, `ReviewTask`, then `WriteRequestedPatch`, `WriteReviewDoc`, `SaveEdit`, `RefuseEdit`, `EnqueueTask` | a request: read and decide, write the diff or the review document, save, append to the log |

What is atomic follows the code's locks. An operation under `_task_claim_lock`
is one step (and may be torn by a crash). `get_task`, `queued_items`, the
artifact files and the log are accessed without a lock, so reading a task,
writing a file, saving and enqueueing are separate steps, between which every
other process may act.

### Abstractions

- Time: only `expires_at > now` is ever asked of a lease. A renewal moves an
  `expires_at` that is still ahead, which changes nothing in the model.
- `create_task` writes no `task.json` before the task is `QUEUED`, so `CREATED`
  on the disk stands for "no file".
- A diff is a value; a workspace is the set of diffs applied since the export.
  Whether a diff applies, what the tests say and whether a stage raises are
  nondeterministic, except that a diff that is in the workspace already does not
  apply again.
- The contents of reports are the claim under which they were written.
- Error codes: `PATCH_REQUIRED` is the one the control plane asks about.
- Intermediate statuses (PLANNING, ...) live in the worker's memory only, as in
  the code, which saves once at the end of an execution.
- Not modelled: projects, the owner check, the timeline, the metrics, a torn
  line of the log, what `run_next_task` returns.

### Properties

| Property | Says |
|---|---|
| `TypeOK` | types; records stay within `max_attempts` |
| `ClaimIsNewest` | the claim on file is the newest ever granted: expired or superseded claims never come back |
| `ResultsAreFenced` | the platform implements `FencedResults` |
| `AttemptLimit` | a QUEUED task has an attempt left (a theorem, no run) |
| `OneExecutor` | while heartbeats come in time, one process at a time executes a task |
| `HandoffIsEvidence` | a HANDOFF_READY or APPROVED task was tested with exactly the diff it names, `patch.diff` is that diff and the report is that attempt's |
| `StatusFollowsLifecycle` | successive statuses in `task.json` follow the life of a task |
| `QueuedIsExecuted` | a QUEUED task gets a result, although workers crash or give up on an exception (leads-to) |
| `LeasesEnd` | every lease ends (leads-to) |

## 4. The event stream of a run

| Variable | Stands for |
|---|---|
| `run` | running, aborted, ended (END published), released (cleaned up) |
| `streams`, `current`, `counter` | every `_RunStream` ever made for the run id, the one in `_streams`, `_counters` |
| `conn[c]` | the client's subscription: its stream, `next_offset`, END sent |
| `sent[c]`, `read[c]`, `done[c]` | the events sent to the client since it started afresh, how many of them it received, END received |
| `connects[c]` | connections made (bound) |
| `abandoned` | consumers whose client left and that did not notice yet |

| Action | Code |
|---|---|
| `Publish` | `publish`: append, evict, number |
| `PublishEnd`, `Cleanup` | the `finally` clause of `run_agent`: `publish_end`, and `cleanup` 60 s later |
| `Join`, `Reconnect` | `subscribe` up to `_resolve_start_offset`, without and with a `Last-Event-ID` of this stream |
| `SendEvent`, `SendEnd` | one round of `subscribe`'s loop and of `sse_consumer` |
| `ReceiveEvent`, `ReceiveEnd`, `Disconnect` | the client; a broken connection loses what it carried |
| `NoticeDisconnect` | `sse_consumer` finds its client gone and cancels the run if `on_disconnect` is `cancel` |

The streams of different runs share nothing but two dictionaries, so one run is
modelled. One step is what runs between two awaits: asyncio runs one coroutine
at a time, and since the condition is only taken in sections that never await
while holding it, taking it does not yield on Python 3.12, which the project
requires. The code numbers events "{milliseconds}-{sequence}"; two streams of
one run are made at least the cleanup delay apart, so the stream an event
belongs to stands for its timestamp. A heartbeat changes nothing but makes the
consumer look at its client, which is why `NoticeDisconnect` needs no event.
An aborted run publishes nothing more. `close()` runs as the process exits and
is left out.

| Property | Says |
|---|---|
| `TypeOK` | types; the bounds of the connections |
| `OffsetsAreIds` | retained events are bounded, and the number in an event's id is its offset (a theorem, no run) |
| `ResolveIsScan` | finding a `Last-Event-ID` by arithmetic gives what scanning the history gives, also for evicted, foreign and absent ids (a theorem, no run) |
| `FeedIsOrdered` | the bridge, its producer, the consumers and the clients implement `OrderedFeed` |
| `InOrder` | what is sent to a client over all its connections is in order and none twice (a theorem, no run) |
| `GapsAreEvictions` | it misses an older event only if the bounded history dropped it |
| `EndMeansComplete` | END arrives after everything still retained |
| `SubscribersDrain` | a subscriber that stays connected to an ended stream gets END, also when the stream was cleaned up meanwhile (leads-to) |

## 5. The runs of a thread

| Variable | Stands for |
|---|---|
| `status`, `fin`, `action`, `strategy` | `RunRecord`: status, `finalizing`, `abort_action` once `abort_event` is set, `multitask_strategy` while the request is in `create_or_reject` |
| `pc` | where the request or the task of a run is: `put` (the row is being written, the lock held), `launch`, `new` (a task that took no step yet), `wait` (`wait_for_prior_finalizing`), `snapshot`, `graph`, `failing`, `restore`, `complete`, `title...`, `close`, `done`; `dead` is a task cancelled before its first step, `aborted` a run whose request failed before it had a task |
| `kill` | tasks with a `CancelledError` to come |
| `captured`, `snap`, `base` | the pre-run snapshot, and the checkpoint that what a run writes next is built on |
| `row`, `late` | the status in the run store, and the writes of it that a cancelling request has yet to do |
| `ckpt` | the thread's checkpoint: the set of runs whose writes it contains |
| `mode` | the process is up, draining or down |
| `unsaved` | history: the runs a status write of which failed |
| `unborn` | history: the runs that were cancelled while `start_run` had made no task of them |

| Action | Code |
|---|---|
| `Request`, `Admit`, `Refuse` | `create_or_reject` before and after its await on the store, and its exits |
| `Launch`, `LaunchFails` | the rest of `start_run` |
| `Cancel`, `PersistLate` | `cancel`, and the status it (or `create_or_reject`) stores after the lock is released |
| `Begin`, `NeverRuns`, `Proceed`, `Snapshot`, `Turn`, `GraphEnds`, `GraphRaises`, `GraphRaisesLocked`, `Fail`, `FailCancelled` | `run_agent` up to the end of the graph |
| `CleanUp`, `Restore` | the handlers of an aborted run, with and without a rollback |
| `Complete`, `Title`, `TitleSkipped`, `TitleRead`, `TitlePut`, `Close` | its `finally` clause |
| `ShutDown`, `Exit`, `Crash`, `Recover` | the drain, the end of the process, `reconcile_orphaned_inflight_runs` |

`RunManager._lock` is held across an await in one place only, so "the lock is
taken" means "some run is at `put`". asyncio's lock serves its waiters in order,
which matters: a handler of an exception that waits for the lock goes before a
request that comes later (`LockQueueEmpty`).

A run may be cancelled at any time. Two early moments are special, and section 13
tells of both. Between `create_or_reject` and the assignment of `record.task` there
is no task to cancel: the run is marked interrupted, starts all the same and works
beside newer ones. It is `unborn` then, and the properties about the checkpoint
exempt the executions in which there is such a run, `OneWriter` and `OneActive`
only that run. TLC counts such cancellations among the faults (`Early`), to bound
what they lead to; the theorems do not bound them. A task cancelled before its
first step is `dead`, keeps its mark, and is exempt in `StartedRunsEnd`.

| Property | Says |
|---|---|
| `OneWriter` | one run at a time works on the checkpoint: the clean-up of a run that was cut and the start of the one that cut it do not overlap, unless the older one is `unborn` |
| `ContentsAreAtomic` | the runs implement `ThreadContents`: what they read of the checkpoint and later write back comes to one step each, as long as no run is `unborn` |
| `RolledBackIsGone` | a run that was rolled back has left nothing, not even after later runs and titles, as long as no run is `unborn` |
| `ActiveRowsAreOwned` | a row that says pending or running has a run behind it, also after crashes and drains |
| `StartedRunsEnd` | every run that starts ends, however the earlier ones are cancelled and wait for each other, unless it waits for a `dead` one (leads-to) |
| `OneActive`, `DoneIsNotFinalizing`, `OutcomeStays` | one active run, `unborn` ones aside; a run that reached its end holds nobody up; success and error are final (theorems, no run) |
| `OthersKept`, `StaysOut` | only a rollback drops another run's writes, and only one without a snapshot; what was taken out of the thread for good stays out, also after a restart; both as long as no run is `unborn` (theorems, no run) |
| `RollbackRestores` | a rollback takes back its own writes only: **violated** (section 13) |

## 6. Subagents

A `SubagentResult` is shared by three threads: the loop of the run, where the
tool polls; a scheduler thread, which waits for the future with a timeout; and
the isolated loop, where the coroutine runs. Writers take the result's lock,
readers do not. Hence a terminal write is two steps, `Enter` (all fields) and
`Leave` (the status, the last assignment of `try_set_terminal`), and a reader may
come in between.

| Variable | Stands for |
|---|---|
| `status`, `setting`, `payload`, `usage`, `cancelled` | the result: its status, the one being set under its lock, the one its other fields belong to, the token records, `cancel_event` |
| `entries`, `backlog` | `_background_tasks`, and the queue of the thread pool |
| `sched`, `co`, `killed` | where `run_task` and `_aexecute` are, and whether the future was cancelled |
| `tool`, `answer`, `reported`, `cleaner` | the tool call: where it is, what it returned, whether the journal has the tokens, the deferred clean-up |
| `waited`, `unheard` | history: the task found no free scheduler thread; it had not ended when its cancelled tool stopped waiting for it |

| Action | Code |
|---|---|
| `Start`, `Submit`, `SubmitFails`, `Ends`, `Expire`, `MarkTimedOut`, `Marked`, `CancelFuture` | `run_task` in its scheduler thread |
| `BuildFails`, `Stream`, `Notice`, `StreamEnds`, `Finishes`, `Die` | `_aexecute` |
| `Call`, `Poll`, `Wake`, `PollsOut` | `task_tool` with `execute_async` |
| `CancelTool`, `Drained`, `DrainGivesUp`, `Raise` | its handler of a cancellation: the wait for the end with the report of the tokens, then the check, the removal and the re-raise, a step of its own (the two read the result without its lock) |
| `Clean`, `CleanGivesUp` | `_deferred_cleanup_subagent_task` |

Time appears as one fact: the tool's poll limit is the execution timeout and a
minute, so it ends before the scheduler thread's timeout only for a task that
waited for a thread. The status a task has while it runs is not looked at.

| Property | Says |
|---|---|
| `FirstTerminalWins` | the timeout and the end of the execution never rewrite one another's outcome |
| `AnswersAreComplete` | what the tool answers is what the task came to, with its payload, and its tokens are in the journal; those of a task that was cancelled may be missing if its tool had given up waiting before the end (`unheard`, section 13) or left it to the deferred clean-up |
| `EntriesAreOwned` | a task keeps its entry until its thread looked for it, and each entry left over has somebody to remove it |
| `ToolsReturn` | every call ends although subagents hang (leads-to) |
| `SubagentsStop` | no subagent outlives its timeout (leads-to) |

## 7. The memory queue

| Variable | Stands for |
|---|---|
| `queue`, `processing`, `batch` | `_queue`, `_processing`, the contexts taken and not updated yet |
| `armed`, `stray`, `fired` | timers: the one in `_timer`, those it forgot, threads on their way to `_process_queue` |
| `running`, `calls`, `flushes` | threads with a run; the calls made (bounds) |
| `latest`, `cleared` | history: the call applied last; threads whose newest context was cleared |

`Add` is `add` and `add_nowait`, called by `RunEnds` (the middleware's
`after_agent`) and `Summarize` (the hook); `RunBreaks` is a run that ends with no
call. `Fire`, `Process` (up to the release of the lock, with `Retry` when
somebody processes and `Take` when nobody does), `Update`, `Finish` are
`_process_queue`. `Flush`, `FlushNowait` and `Clear` are called by tests only,
`Clear` through `reset_memory_queue` and never while a batch is updated (it would
reset `_processing` under the thread that does). A context stands for the
messages of one call. The delays
differ (30 s, 0 s), but no property depends on which of two timers is first, so
any may be.

| Property | Says |
|---|---|
| `NewestIsKept` | the newest context of a thread waits, is in a batch or was applied or cleared |
| `AppliedInOrder` | no context is applied after a newer one of its thread |
| `QueueDrains` | what waits is taken (leads-to) |
| `QueueIsWatched` | while contexts wait, a timer or a thread will take them (a theorem, no run) |

## 8. The MCP session pool

| Variable | Stands for |
|---|---|
| `entries`, `older`, `inflight` | `_entries` and their LRU order, as pairs of entries; `_inflight`; a session is named after the call that creates it |
| `owner`, `ready` | `_run_session` of a session, and the future that carries it to the call |
| `told`, `cancelled`, `signals` | owners whose close event is set, that have a cancellation to come, and requests to other loops not run yet |
| `at`, `source`, `todo` | `get_session`: where it is, whose session it waits for, what it has to shut down |
| `broken`, `forgotten` | history: owners whose connection broke under an open session; what a cancelled call did not shut down any more |
| `closed`, `closes`, `cancels` | loops that asyncio.run closed; bounds |

| Action | Code |
|---|---|
| `Get` (`Hit`, `Miss`) | phase 1, under the lock: reuse, join a creation or start one; drop the session of another loop and the oldest ones |
| `CloseKeys` | `close_scope`, `close_server`, `close_all`: any set of keys leaves the registry |
| `Ask`, `Asked` | phase 2, and the same in the closing calls: shut the dropped ones down, on this loop or another |
| `Joined`, `Fail`, `Unwound`, `Promote`, `Refuse` | phases 2b to 4 |
| `Cancel...` | `CancelledError` at each await of it |
| `Begin`, `Start`, `Break`, `Interrupted`, `Close`, `Exit` | the owner task: its first step, the connection that succeeds or fails, one that breaks later (anyio cancels the task; the entry stays), a cancellation at any point (before the first step it leaves the future pending), the close event, the exit |
| `CloseAll`, `Deliver`, `CloseLoop` | `close_all_sync`, `call_soon_threadsafe`, the end of an `asyncio.run` |

| Property | Says |
|---|---|
| `EntriesAreKept` | the pool never ends what it still hands out: nobody told the owner of a registered session to go, and it waits, unless its connection broke or its loop was closed |
| `NoOwnerLost` | an owner task that lives is registered or being created, on its way out, told to go or going to be told, whatever its call does |

## 9. The sandbox pool

| Variable | Stands for |
|---|---|
| `running` | containers: sandbox and generation (which creation) |
| `active`, `warm`, `idle` | `_sandboxes` with `_sandbox_infos`, `_warm_pool`, the time stamps older than `idle_timeout` |
| `made` | how many `SandboxInfo` objects were made: an info is compared by identity in the code |
| `at`, `cache`, `again`, `seen`, `held`, `orphans` | a call of `acquire_async`: where it is, which pool it looks in, first or second pass, the info in its hands, the thread's lock, and whether it was cancelled while its function runs on |
| `marked`, `doomed`, `dying`, `victims` | the idle checker |
| `abandoned` | history: containers of cancelled creations and failed destructions |

| Action | Code |
|---|---|
| `Enter`, `Look`, `Check`, `Take`, `Drop`, `Stop` | the lookups among the active and the warm ones: health check outside the lock, verdict acted on under it |
| `Discover`, `Count`, `Evict`, `Evicted`, `Start`, `StartFails`, `Register`, `Unready`, `Failed` | discovery and creation under the file lock |
| `Cancel` | the call is cancelled: its lock goes, its worker thread does not |
| `Use`, `Release` | `get`, `release` |
| `Age`, `Sweep`, `Verify`, `Condemn`, `StopIdle` | time, and `_cleanup_idle_sandboxes` with `destroy` |
| `Crash` | a container dies |
| `Init` | `_reconcile_orphans`: what runs at the start is adopted into the warm pool |

A container is known to the backend by its name (the sandbox) and by its id. An
info made by a discovery has only the name, so destroying it stops whatever has
the name then (`Stopped`).

| Property | Says |
|---|---|
| `NoContainerLost` | what runs is tracked, in the hands of a call or the idle checker, or `abandoned` |
| `LiveIsKept` | acting on a failed health check drops no entry whose container runs, however often the sandbox was recreated, while no sandbox has two cancelled calls under way |
| `VerdictStands` | when a call acts on its verdict, the container it checked is gone for good (a theorem, no run) |
| `ActiveIsNotStopped` | no container is stopped while its sandbox is active: **violated** (section 13) |

## 10. The IM channels

| Variable | Stands for |
|---|---|
| `recent` | `_recent_inbound_events` |
| `thread`, `registry` | the thread stored under a mapping (named after the delivery that created it), `_thread_create_locks` of a conversation (a lock is named after who made it) |
| `at`, `lock`, `target`, `outcome` | the task of a delivery: where it is, its lock, its thread, the final answer |
| `created`, `troubled`, `expired` | history |

| Action | Code |
|---|---|
| `Dispatch`, `Expire` | `publish_inbound` and the dispatch loop with `_is_duplicate_inbound`, expiry of keys |
| `Refuse`, `Begin`, `Fail`..., `SendError` | `_handle_message`: refusals, a slot of the semaphore, an exception |
| `Stumble` | a call fails outside the lock: the lookups of the identity and the thread, the files, the last lookup of `/new` |
| `Lookup`, `Enlist`, `Recheck`, `Create` | `_get_or_create_thread`, `_create_thread`, and `/new`; what the lookup found may be old when the lock is asked for |
| `RecheckFails`, `CreateFails` | the lookup or the creation fails under the lock; the mapping may have been stored all the same |
| `Ask`, `Answer`, `RunFails` | the chat handlers: the Gateway rejects a second run on a thread, answers or fails |

A thread is created under the lock of its *conversation*, `(channel, chat, topic)`
(line 1234), and stored under its *mapping*: with a connection repository the
connection is part of it (lines 1178-1205). So a conversation may have several
mappings, and `Unlock` drops the lock that messages of other mappings wait for.
Whoever is left behind so, without a thread, makes its mapping `troubled`.

The thread's one run is `RunLifecycle`'s `OneActive` seen from outside. A
streaming handler answers with what it has when the stream breaks; the others
raise, which releases the key.

| Property | Says |
|---|---|
| `OneAtATime` | a message delivered again while it is handled is dropped, unless its key expired |
| `RememberedIsHandled` | what is dropped as a duplicate is being handled or was answered |
| `OneThread` | a mapping gets one thread, unless `/new` was sent or the lock was dropped while one of its messages waited or created: by a failure under it, or by a message of another connection |
| `AcceptedIsAnswered` | every accepted message is answered (leads-to) |
| `CreatedOnce` | the same without "unless": **violated**, where nobody sends `/new` (section 13) |

## 11. Runs

Distinct states are those TLC reports; runs marked S use symmetry (never with a
liveness property). Each run also checks the module's type invariant, but for
`liveness`, whose module has its own in `serial`.

| Run | Instance | Checks | States |
|---|---|---|---|
| `serial` S | 2 workers, 1 request at a time, 2 diffs, 1 crash of either kind, no late heartbeat | `OneExecutor`, `HandoffIsEvidence`, `StatusFollowsLifecycle` | 61,195 |
| `liveness` | 2 workers, 1 request, 1 worker fault of any kind, `FairSpec` | `ClaimIsNewest`, `ResultsAreFenced`, `QueuedIsExecuted`, `LeasesEnd` | 64,650 |
| `stream` | 2 clients, history of 2 out of 3 events, 1 frame in flight, 2 connections each, `FairSpec` | `FeedIsOrdered`, `GapsAreEvictions`, `EndMeansComplete`, `SubscribersDrain` | 24,114 |
| `runs` | 2 runs, 1 fault of any kind (an early cancellation is one), `FairSpec` | `OneWriter`, `ContentsAreAtomic`, `RolledBackIsGone`, `ActiveRowsAreOwned`, `StartedRunsEnd` | 183,695 |
| `subagents` | 2 tasks, 1 scheduler thread, `FairSpec` | all of section 6 | 228,466 |
| `queue` | 2 threads, 3 calls each, 2 flushes or clears, `FairSpec` | `NewestIsKept`, `AppliedInOrder`, `QueueDrains` | 144,228 |
| `sessions` S | 2 calls on the gateway's loop, 1 on a short-lived one, any of 2 keys, room for 1, 1 closing call of any kind, 1 call cancelled or 1 connection that breaks | `EntriesAreKept`, `NoOwnerLost` | 1,735,512 |
| `sandboxes` S | 2 users of one sandbox, a second sandbox that may be left from before, 1 replica, 3 infos, 1 crash, 1 cancelled call | `NoContainerLost`, `LiveIsKept` | 2,249,406 |
| `channels` | 4 deliveries in one chat over two connections (one a duplicate, one `/new`), 3 slots, 1 expiry, 1 failure, `FairSpec` | `OneAtATime`, `RememberedIsHandled`, `OneThread`, `AcceptedIsAnswered` | 250,984 |
| `rollback_wipes`, `evicts_active`, `thread_split` | the smallest instance with the case | one property each, which TLC violates | |

### Bounds and why they are enough

- `Tasks = {t1}` in `serial` and `liveness`. Tasks share only the log and the
  supply of claim ids; an item of another task is a detour of the scan
  (`PassOver`), which one task listed twice takes as well, and unique ids make
  claims of different tasks unrelated. The theorems hold for any number.
- Two workers are the least that race for a claim or take one over; a claim has
  one owner, so a third adds nothing to the conflict of a pair about one task.
- Two diffs in `serial` tell a resubmitted diff from the old one.
- `MaxAttempts = 2` allows a retry and reaches the limit (3 by default); in
  `liveness` it is 1, a larger value repeats the same cycle.
- `MaxClaims = 3` lets a claim be lost and replaced twice. At the bound a task
  is passed over; `liveness` cannot reach it (one attempt and one fault need at
  most two claims), so it hides no progress.
- `stream`: a history of 2 out of 3 events evicts at both ends of the range a
  `Last-Event-ID` can have; one frame in flight is enough to block a consumer
  and to lose a frame; two connections let a client come back, before and after
  the clean-up.
- `runs`: a conflict about the checkpoint is one of two runs, the older and the
  newer; the theorems cover more. One fault is one crash, one lost status write,
  one failing checkpoint access, one bad request or one request that cancels runs
  before they have a task, anywhere.
- `subagents`: two tasks on one thread is the least in which one waits for a
  thread, which is the only way the poll limit is reached.
- `queue`: a context replaced in the queue, one in a batch at the same time and
  one that comes after it need three calls of a thread; two threads of contexts
  make a batch of more than one.
- `sessions`: with room for one session every other key evicts; the short-lived
  loop gives the foreign owner, and the two calls on the other loop share,
  evict and overtake each other. A cancelled call and a broken connection are
  checked one at a time; the theorems allow any number of both.
- `sandboxes`: two users of one sandbox, because a cancelled call lets the lock
  go, are in the same lookup at the same time; the left-over sandbox is what gets
  evicted. Three infos allow a sandbox to be
  adopted, discovered and created again. At the bound neither a discovery nor a
  creation happens; creation may still fail, so no call is stuck, and no property
  is one of progress.
- `channels`: a message and its duplicate (when the key expired) meet at a mapping
  without a thread, a message of the other connection meets them at the lock, and
  `/new` meets that one at its mapping; with three slots one of four has to wait.
  One failure is enough to drop a lock, and the connections drop it without one.

Deadlock is checked in `serial` and `liveness`, where an idle worker polls the
log for ever. The others may stop by themselves: the run is released and no
client returns, all runs are done, every task has its answer, no timer is left,
the calls and deliveries are used up, or (sandboxes) the bound of infos is
reached with nobody inside.

### Fairness and why the code justifies it

- `CodeChange!Fairness`: weak fairness of each worker's steps (workers call
  `run_next_task` again and again, which is how they are operated), of each
  request's remaining steps, and of the expiry of a lease (time passes;
  `LeaseExpires` is disabled while a running heartbeat renews it). Nothing forces
  a request or a fault, and heartbeats need no fairness. A crashed worker's steps
  are those of the worker restarted in its place, which starts idle.
- `RunStream!Fairness`: weak fairness of a connected subscription's sends
  (`subscribe` wakes at the latest after `heartbeat_interval`) and of a connected
  client's reads. `SubscribersDrain` is about subscriptions of a stream that
  ended, and a client may always escape it by disconnecting.
- `RunLifecycle!FairSpec`: the event loop runs every coroutine that can go on,
  stores answer, and the graph ends (`recursion_limit`). Nobody has to cancel
  anything, and the process has to do nothing.
- `Subagents!FairSpec`: threads run and timeouts fire. A stream may stay silent
  for ever: of the coroutine only what follows its waking is fair (`Die` after
  the cancellation, `Finishes` of what it began).
- `MemoryQueue!FairSpec`: timers go off, threads run, an update ends (it calls a
  model through a client with a timeout, and its exceptions are swallowed).
- `Channels!FairSpec`: the event loop, and a Gateway that answers or fails; the
  client has a timeout.

Weak fairness is enough everywhere. `RunLifecycle`'s lock is left by whoever
holds it, and no request can take it again before the waiting handler.

### Mutants

Every property of a passing run has a mutant: a plausible bug of a mapped
definition under which TLC finds the property violated with the same cfg. For
example: a claim granted without looking at the lease (`OneExecutor`), a
`workspace/` that is not replaced (`HandoffIsEvidence`), END sent before the
retained events (`EndMeansComplete`), a run that waits for older active runs and
not for finalizing ones (`OneWriter`), a finalizing mark that is never set
(`ContentsAreAtomic`), a status assigned before the payload (`AnswersAreComplete`), a
timed-out future that is not cancelled (`SubagentsStop`), two threads in
`_process_queue` (`AppliedInOrder`), a closed pool that still registers
(`EntriesAreKept`), a verdict applied to whatever entry is there (`LiveIsKept`),
a creation without the second lookup (`OneThread`).

## 12. Proofs

Assumptions are named in the modules that declare the constants, and TLC
evaluates them in every run: `StoreAssumption` and `CodeChangeAssumption` (there
is a task, `NoWorker` and `NoPatch` are none, `MaxAttempts` is positive, fault
kinds are known), `RunStreamAssumption` (history and wire hold at least one
item), `RunLifecycleAssumption`, `SubagentsAssumption` (a scheduler thread),
`MemoryQueueAssumption`, `SessionPoolAssumption`, `SandboxPoolAssumption`,
`ChannelsAssumption` (each names the type of its constants).
Nothing is assumed about how many tasks, workers, runs, clients, users, faults
or messages there are.

**CodeChange** (`CodeChangeProofs`). The inductive invariant is

    IInv == TypeOK /\ AttemptInv /\ FenceInv

- `AttemptInv` strengthens `AttemptLimit`. It is not inductive alone: a save
  stores whatever a worker or request decided on earlier. `ExecutionsInv` and
  `RequestsInv` carry the limit through the two places where it was read: an
  execution about to start has an attempt left, and one that started never holds
  a QUEUED record; a request about to queue has an attempt left in its own copy,
  whatever the disk holds by then.
- `FenceInv` strengthens `ClaimIsNewest` for `ResultsAreFenced`. A held claim is
  no newer than the newest and its result is not taken yet (`HeldInv`); no claim
  is held twice (`HeldOnce`); a task under `run_task_now` is on no disk and in
  no other hands (`RunNowAlone`), so that its result, under claim 0, comes
  first; results never carry a claim newer than the newest (`GrantedInv`).

`TypeStep` and `FenceStep` show that every action preserves it, `Invariance`
puts them together, and `TypeCorrect`, `AttemptsLimited` and `NewestClaim` follow.
`Fencing` is the refinement: with `granted` and `results` as the abstract state,
`ClaimTask` and a torn claim map to `Grant`, `SaveResult` and `SaveRunNow` to
`Accept`, everything else to a stutter. The core of it is that a worker that
holds a live lease holds the claim on file, which is the newest.

`OneExecutorAtATime` assumes `HeartbeatsInTime`: heartbeats are neither late nor
failing (`FaultKinds`); without that assumption it is false (section 13).
`LeaseInv` says that every execution under a claim holds the lease on file and
that its heartbeat beats. Such a lease does not expire, so nobody else is granted
a claim, and two executions of a task would hold the same lease.

`EvidenceStands` and `LifecycleFollowed` assume
`OneRequest` as well, and are false without it. `SerialInv` adds three parts to
`HandoffIsEvidence`. `WaitsQueued`: a task executed under a claim is QUEUED on
disk until its result is saved. `StageInv`: at each stage of an execution the
workspace, the patch and the report hold what the stages before it put there, so
that the result it saves is about its own diff. `DecisionInv`: what a request
decided still is a legal successor of the status on disk when it saves, and an
approval still names the diff that was tested. The lemmas `Quiet` and `NoDecision`
dispose of the steps that touch none of this.

**RunStream** (`RunStreamProofs`). The inductive invariant adds to `TypeOK` and
`OffsetsAreIds`

- `FirstStream`: only the first stream of a run ever holds events or ends. One
  made after the clean-up stays empty, which is why ids of different streams
  never mix in one client's feed;
- per client `FeedOf`, `ConnOf`, `DoneOf`: what was sent is increasing and every
  event below the subscription's position is among it or evicted (`Has`), and
  after END the position is the end of the stream.

`StreamInvariance` proves it, and `StreamTypeCorrect`, `ResolveCorrect`,
`DeliveredInOrder`, `OnlyEvictedMissing` and `EndIsComplete` follow.

`ImplementsFeed` is the refinement of `OrderedFeed`. The abstract window of events
is that of the first stream (`Start` to `Total`), `Over` is its end, and a reader
has what its client has `Received`: not what was sent, which a broken connection
may lose. `FeedStep` maps each action: `Publish` and `PublishEnd` to `PublishNext`
and `Close`, `ReceiveEvent` and `ReceiveEnd` to `Receive` and `Tell`, `Join` to
`Restart`, and the others to no step. `FeedOf` says that the next frame on the
wire is newer than all before it and passes over nothing that was still kept,
`ConnOf` that END comes behind everything.

**RunLifecycle** (`RunLifecycleProofs`). `IInv` stands at the end of the module.
`RecordInv` says, for each place a task can be, what the manager's record says
of it (untouched, cut short by a request, cancelled by the drain, or `Beside`:
cancelled while it had no task). From it come `OlderInactive` (whoever was
admitted found no older run active, or cut it) and `OlderSettled` (whoever works
on the checkpoint found no older run finalizing), for all older runs but `unborn`
ones. Together they exclude two writers: the older of the two would be active, or
finalizing. `RowInv` ties the row in the store to the record. None of the theorems
has an assumption about when runs are cancelled: `OneActiveRun` and
`OneWriterAtATime` name the exempt run in the property, and `ActiveRowsOwned`,
`DoneLetsGo` and `OutcomeIsFinal` have no exception for it. `OutcomeIsFinal` needs only
`NoOutcomeYet`: whoever sets a status still finds an active or an interrupted
one.

`CheckpointInv` adds what runs hold of the checkpoint. While a run writes, the
checkpoint holds nothing that its base lacks, and its base nothing but its own
writes that its snapshot lacks (`SnapshotOK`); a run that has not reached its
graph is in no checkpoint and in no copy of one (`NotWrittenYet`); a run that
was rolled back is in none that may yet be written (`Gone`). `OneWriter` keeps
the three inductive: nobody else changes the checkpoint under a run that will
put its copy back, and that is why it holds as long as no run is `unborn`
(`CheckpointInvariance`). `unborn` only grows (`UnbornGrows`), so a step after which
it is empty started with it empty. `RollbackLasts` and `WritesOfOthersStay` follow.

`AtomicContents` is the refinement of `ThreadContents`, up to the first
cancellation of a run that has no task. A run reads the checkpoint in one step and puts it back in another, as a turn of
the graph, a rollback or a title. Abstractly it adds its own writes, or takes them
back, at the second step. The exception is the rollback without a snapshot, which
deletes the thread (section 13): a run that read the checkpoint before may bring
the deleted writes back. The mapping shows them as `Deleted`, what a writing run
holds and the checkpoint lacks, and the proof shows that nothing but that deletion
ever adds to it. `CalmStep` sorts the steps that touch the checkpoint from those
that do not; `TurnWrites` and `RestoreTakesBack` rest on `SnapshotOK` and
`OneWriter`. `OutForGood` is a consequence of the abstract specification alone:
a run that has stopped and is in neither the thread nor `Deleted` never is again.

**Subagents** (`SubagentsProofs`). `OneSetter`: exactly one thread is inside
`try_set_terminal` while a status is being set, and payload and status agree
from then on; `Owned`: who may remove an entry at each point of the tool call.
`CompleteAnswers`, `OwnedEntries` and `FirstWins` follow for any number of tasks
and threads. `BacklogIsQueued` is needed because a task that comes to the head of
the pool's queue must not have begun before.

**MemoryQueue** (`MemoryQueueProofs`). `BatchIsOwned` (a batch belongs to the one
thread that processes) and `Ordered` (what waits is newer than what is in the
batch, which is newer than what was applied) make `NewestIsKept`,
`QueueIsWatched` and `AppliedInOrder` inductive.

**SessionPool** (`SessionPoolProofs`). `EntriesAreKept` needs to know that nobody
means to end what is registered: `Doomed` gathers all who were told, will be told
by another loop or are still on the list of some call, and `RegistryInv` says that
no session is among them, and no creation but one whose own call gives up on it.
A creation that has succeeded is then still open when its call promotes it, unless
its connection broke meanwhile
(`FutureInv`, `LivingInv`). `NoOwnerLost` follows from three facts about steps:
what leaves the registry is doomed (`PoolLeaves`), who is doomed stays so until he
goes or a cancelled call forgets him (`DoomedStays`), and nobody else is told to go
(`DoomedGrows`). None of this bounds the calls, keys, loops or the size of the pool.

**SandboxPool** (`SandboxPoolProofs`). `HandsInv`: `SeenIsReal` and `LooksAtOwn` say
what a call has in its hands, `Generations` that no number of a container comes
twice, hence `VerdictStands`: a container that failed its check has not come back
when the call acts on the verdict. `PoolInv` is about the pools. `CoverInv` says who
can stop each container that runs, without counting a call that has only discovered
it; for it to last, a sandbox must be in one pool (`PoolsDisjoint`), or `release`
and `_remove_tracked_sandbox` drop one of two entries. What registers a sandbox must
therefore know that it is in none, although it looked pool by pool and without the
lock of the provider in between: `KnowledgeInv` carries what each lookup has shown
from one to the next. A release may move the entry on behind the call's back, from
the active to the warm ones; only a cancelled call, which has lost its lock, moves it
the other way. It does so once, so that a call under the lock is misled at most once
and the second pass finds the entry. With two cancelled calls of a sandbox under way
it may be misled twice, and the invariant is false (section 13). `NothingLost` and
`LiveKept` therefore assume `[]OneOrphan`, and `OneCancelLosesNothing` draws the
conclusion for a bound of one cancelled call, which is the one `sandboxes` has, and
any number of users, sandboxes, containers and crashes.

**Channels** (`ChannelsProofs`). `HandledIsRecent` gives `OneAtATime`. `OneThread`
needs `OneLock` (while a mapping has no thread, all that wait to create it share the
registered lock of the conversation) and `OneCreator`, both up to mappings in
trouble; `Unlocked` shows that leaving a lock troubles all who may part.
`ChannelsAssumption` says that a mapping belongs to one conversation.

Only model-checked: the liveness properties (fairness and ENABLED are outside the
prover's reach). Every invariant and every action property of a passing run is a
theorem.

## 13. Disagreements between the code and what it says of itself

Three have a run, whose property states what a comment or document says and
which TLC violates with what the code does (quotations in `PROJECT.json`):

| Run | What happens |
|---|---|
| `rollback_wipes` | a run that waits for the clean-up of an earlier one, or has not read the checkpoint yet, is cancelled with `action=rollback`. It has no pre-run snapshot, so `_rollback_to_pre_run_checkpoint` deletes the thread: the work of all earlier runs goes, although this one wrote nothing |
| `evicts_active` | a warm sandbox is taken out of the pool for eviction, or for being idle. Before its container is stopped, a call looks for it, finds it in no pool, discovers the running container and registers it as active. Then it is stopped |
| `thread_split` | the lookup under the lock or the creation of a thread fails; the `finally` clause drops the conversation's lock from the registry although another message waits for it. That one creates under the old lock while a message that comes now makes a new lock and creates too. With a connection repository no failure is needed: the lock is the chat's, the thread the connection's, and another user's message drops the lock when its own thread is stored |

Others were met while modelling. They bound what the passing runs and the
theorems can claim:

- *Late evidence.* A worker whose lease expired goes on executing in the shared
  artifact directory; the result of the valid claim is then saved with a report,
  a diff or a workspace of the stale execution. The claim fences `task.json`
  only. `serial` therefore has no late heartbeat.
- *Racing requests.* Two requests decide on the same record and both save: an
  approval becomes a request for changes. `save_task` without a claim compares
  nothing. Two racing retries bring back an attempt count that an execution in
  between had raised: one attempt too many is executed, although no QUEUED task
  is ever without one (`AttemptsLimited`). A request that read the task while a
  worker held it writes the released `claim_id` back. `serial` therefore has one
  request at a time.
- *Lost create.* A process that dies between `save_task` and `enqueue_task`
  leaves a QUEUED task that no worker ever finds. `liveness` has worker faults
  only.
- *Review document.* `human_review.json` says APPROVED although the save that
  follows was refused or overwritten.
- *Late join.* A client that joins after the clean-up subscribes to a new stream
  nobody ends, gets heartbeats for ever and keeps the stream alive.
  `SubscribersDrain` is about streams that end.
- *Cancelled before the first step.* `cancel` sets `finalizing` and cancels the
  task. If the task has not taken its first step, `run_agent` never runs, no
  `finally` clause clears the mark and no END is published: later runs of the
  thread wait for ever in `wait_for_prior_finalizing`. If the cancellation comes
  before `record.task` is set, no task is cancelled: the run proceeds, sets
  itself running again and works beside the run that cut it. Both are in the model
  and exempt in the properties (`dead` in `StartedRunsEnd`, `unborn` in the others):
  without the exemptions TLC violates `StartedRunsEnd` and `OneWriter` in `runs`.
- *A run nobody starts.* An exception between `create_or_reject` and the
  assignment of `record.task` leaves a pending run: `reject` is refused until the
  run is cancelled (`LaunchFails`; the run at `aborted` is exempt in
  `ActiveRowsAreOwned`).
- *Tokens nobody reports.* The comment at `task_tool.py:449` wants the final token
  usage in the journal. A cancelled tool that gives up waiting reads the records
  (line 460) and then whether the task has ended (line 461), without the lock. A
  task that ends in between is removed as finished although its tokens were not
  there yet, and a task left to `_deferred_cleanup_subagent_task` is never
  reported. `AnswersAreComplete` exempts the two (`unheard`, an active or past
  `cleaner`). Likewise the usage of the event the tool streams is read (line 394)
  before the status; the event and the cached usage may lack the tokens, which
  the journal's report, made after the status is seen, has.
- *Sessions that are dead.* A connection breaks, the owner task ends, and the entry
  stays: `get_session` hands the dead session out until somebody closes its scope,
  its server or the pool, or newer sessions evict it (`broken`).
- *A future nobody answers.* An owner that `close_all` (or another close, or a call
  on another loop) cancels before its first step never runs: its `ready` stays
  pending, and the call that created it and all that joined it wait for ever, or
  until they are cancelled themselves. No property claims that calls return.
- *Sessions and containers nobody tracks.* A call cancelled while it waits for
  another loop forgets the rest of what it evicted (what it asked the other loop for
  is done all the same), and its own creation record stays in `_inflight`; a call cancelled during `backend.create` leaves a
  container that nobody has heard of. `forgotten` and `abandoned` exempt them by
  name.
- *Two cancelled lookups.* Two calls of one sandbox are cancelled while their
  functions look it up, and the container dies. The one function reclaims the dead
  entry into the active pool after a third call has looked there, the other one
  does so again in the second pass: the third call finds nothing, creates a new
  container and registers it, while a release puts the dead entry back into the warm
  pool. The release of the new one (`release`, line 940) then drops its entry, for
  the pool has one already, and the container runs untracked. A third cancelled
  call that holds the verdict about the dead entry drops the live one with it: with
  six users and three cancellations TLC violates `LiveIsKept`. The theorems
  `NothingLost` and `LiveKept` assume `OneOrphan` for this reason.
- *`/goal` without a thread.* It creates one without the lock (line 1659), like
  `/new`, but nobody asked for a new one: together with a first message the
  conversation gets two.
- *Asking a loop that closes.* A call that asks another loop to shut a session
  down waits without a timeout. If `asyncio.run` closes that loop before it runs
  the request, nobody answers: `Asked` is never enabled again.

## 14. Not modelled, and the plan

By far the most of the repository is text, I/O and presentation: prompts and
middlewares around a model call, tools that run a command or fetch a page, the
wire formats of seven chat platforms, routers over a file or a table, schemas,
configuration, the TUI and the frontend. No two actors meet there over a state
that a protocol protects, so a state machine of it would restate assignments.
The share of lines the map covers is small for that reason; it is where the
concurrency is. `PROJECT.json` names the files of each part.

Left out of the modelled parts:

- code change: projects, the owner check, the timeline, the metrics, a torn line
  of the log (which makes every later scan fail), reads;
- stream: `close()`; the Redis bridge is not written yet;
- runs: several gateway processes over one store, the status of the thread in the
  thread store, goal continuation, the content of the journal, `cleanup`, `list`,
  `get`;
- subagents: `execute()`, which answers in place, and what the agent does;
- memory: the merging of correction flags, the content of an update, and `clear`
  in the middle of a batch, which no caller does;
- sessions: a loop that is idle and not closed, and the tool call over a session;
- sandboxes: `shutdown` and the signal handlers, several processes that share a
  host, ports and mounts, the remote backend, E2B and local providers;
- channels: the other commands, files, the identity a user is bound to, `stop()`,
  messages without an identifier or a workspace, which are never deduplicated
  (lines 1006-1014), and those with a connection but no owner, whose thread is
  looked up in one store and put into the other.

In order:

1. `SandboxPool` with two processes (the file lock then is the only one they
   share) and `shutdown`.
2. `AnchoredBranch`: a branch is closed while a run on it starts from the record
   and the history read two awaits earlier.
3. Two gateways over one run store: reconciliation of a live owner's runs.
