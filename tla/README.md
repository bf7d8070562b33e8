# A TLA+ verification project for aidir

aidir is one asyncio process (`core/app.py`) that accepts LLM and tool requests
over HTTP (OpenAI, Ollama, Anthropic and MCP flavours), turns each into a *task*,
queues it in Redis, and lets one scheduler coroutine dispatch it to a worker once
the memory it needs can be reserved. Beside it runs a maintenance process
(`core/cron.py`) that shares nothing with it but Redis and files. A restart is a new
process on the same Redis.

Paths and line numbers below and in the modules are relative to `src/`; a name
such as `scheduler.py` without a directory is in `src/core/`.

Contents: 1 inventory, 2 modules and abstractions, 3 checked properties,
4 disagreements and observations, 5 proofs, 6 what is not modelled, and what is next.

## 1. Inventory

| Component | State it keeps | Operations | Interacts with | What is hard | What makes it correct |
|---|---|---|---|---|---|
| Queue manager (`queue_manager.py`, `task.py`) | per type a ZSET, per task a HASH (Redis); `_tasks`, the live `Task` objects and their done events (memory) | `add_task`, `pop_next`, `mark_running/completed/failed/canceled`, `delete_task`, `recover_startup_tasks` | called by every coroutine; cron writes the same hashes | every method changes memory, awaits Redis, changes memory again; nothing compares the old status before it writes a new one | a task is in one place at a time; the hash settles; nothing lost, nothing replayed |
| Scheduler (`scheduler.py`) | the task in hand, `deferred_tasks` of the pass, `_active_runs` | pass, gates, dispatch, deferral, `_run_task`, `cancel_task` | queue, resources, router, workers, hooks | holds tasks in local variables across awaits; a requeue precedes the end of the run that asked for it; a cancellation may land in any await | never two workers on one task; a pass owns what it popped |
| Retries and refusals (`scheduler.py`) | counters and grace per task, the list of fallbacks, the refused candidates | `_handle_reject`, `_handle_remote_refusal`, smart fallback, hook control | router, hooks, remote aidirs | four mechanisms each queue a failed task again; candidates refuse in turn | a bounded number of runs; a task is not refused while a candidate is open |
| Endpoints (`endpoint.py`, `endpoints/*`) | the waiting handler, the open stream | checks, create, wait, answer, stream, time out, leave | `Core.on_task_added`, `terminate_task`, `delete_task` | the deadline races with dispatch and completion; the first chunk races with the end; a run that has put out chunks is queued again | every handler ends; the status line is true; a stream is one answer |
| Protocol translation (`messages_protocol.py`, converters of `endpoints/*`) | the open block, the collected result | encode, decode, convert a conversation, trace of hops | endpoints, provider workers | pieces come in any order; opaque blocks; another instance's header | one well-formed message, tool results after their calls, no endless loop between instances |
| Core (`app.py`) | wiring, restart flag, the window of the drain | start and recovery, `terminate_task`, `delete_task`, `request_restart`, `graceful_shutdown` | everything | the shutdown cancels a snapshot while the scheduler still moves tasks; time limits, a second request | a restart neither loses nor replays work, is patient and ends |
| Maintenance (`cron.py`) | none of its own; reads and writes hashes, activity records, partitions | stale, expired and orphan clean-up, keep-alive pings, retention | Redis, files | compares reads taken at different times; writes back what it read before an await | only reaps what nobody can still run; idle models are let go |
| Resources (`resources.py`, `resource.py`) | `used`, `consumers`, soft (warm) entries, model slots, active counts | check, reserve, release, unload, reload | scheduler, dashboard, sensors, local servers | check and act across unload awaits; one consumer id for all runs of a task | no overcommit; a model serves at most `maxConcurrentRequests`; a busy provider is not stopped |
| Resource monitor, peers (`resource_monitor.py`, `peer_resources.py`) | sensor states, observed availability and its generation | probe, peer poll, reactions | resources | probes overlap each other and reservations; a reading flaps | a measurement is discounted by what it has not seen; reactions are paced |
| Smart router (`smart_router.py`) | probe cache | `resolve_route` | resources, KV affinity, remote queues | decides on records and probes taken before an await | a choice that can start is not passed over for one that cannot |
| KV affinity (`kv_affinity.py`) | affinity records, their mirror in Redis, readiness history | lookup, upsert, forget, prune | router | mirror versus memory; bound and expiry; pruned history | the record follows the choice; a diversion rests on the true history |
| Local servers (`local_server_manager.py`) | state file with PID and start ticks, processes, locks, failures | `ensure_running`, `stop`, `stop_all`, `adopt_existing` | resources, cron, hooks | starts and stops interleave; PIDs are used again | one start at a time; only own processes are stopped; no call waits for ever |
| Workers, child tasks, hooks (`worker.py`, `hooks.py`, `workers/agent/openaix`) | context chain, conversation, tool loop, parent and child | model calls, retries, tool tasks, stream | scheduler, queue | a stream breaks after chunks went out; tools fail in the middle of a turn; the parent ends before its child | chunks are not repeated, every call is answered, a run ends |
| Audit log (`audit_log.py`) | queue, receipts, journal, index, partitions | submit, write, close a task, stop, retention | a writer thread, cron | full queue, failed write, full disk, time-outs, a writer that is stopped or dies, a crash within retention | what is told stored is stored; one closing record; removals finish |
| Request limits (`request_limits.py`) | bytes read of one body | bound, buffer, replay | endpoints | no or a wrong declared length; pieces around the limit; the client leaves | never more than the limit, given once, whole |
| Settings, dashboard, doctor, provider and tool workers | files, views, none, none | | | data and I/O, not control | |

`PROJECT.json` lists the hazards of this code at their lines, with the properties that
watch them.

## 2. Modules and how they correspond to the code

The task service:

| Module | What it is | Code |
|---|---|---|
| `QueueManager` | what each method of `queue_manager.py` does to memory and to Redis, split at its awaits: `AddIssue` / `AddCommit` / `AddRegister`, `Pop`, `RunningIssue` / `RunningCommit`, `FinishIssue` / `FinishCommit`, `DeleteIssue` / `DeleteHset` / `DeleteZrem` / `DeleteHash`, `RecoverQueued` / `RecoverOther` | `queue_manager.py`, `task.py` |
| `TaskLifecycle` | the coroutines that call these methods: one handler per task, the scheduler pass (`sched`, `cur`, `deferred`), any number of runs (`runTask`, `runPc`, `runCancel`), `terminate_task` (`term`), the cron reapers, crash and recovery, a Redis command that raises | `scheduler.py`, `app.py`, `endpoint.py`, `cron.py` |
| `Resources` | the accounting of one estimated resource: `used`, `held` and `base` (its `consumers`), `warm` (`_soft_used`), `slots`, `slotOf`, `active` (`_model_slots`, `_model_slot_consumers`, `_model_active`), the checks, reservations and releases, the reload | `resource.py`, `resources.py` |
| `ModelAdmission` | the resource gates of the scheduler, the unload loops, the reservations and releases of `_run_task`, a requeue that overlaps its old run, `force_release`, the reload | `scheduler.py`, `resources.py`, `resource_monitor.py`, `app.py` |
| `TaskRetries` | where a task goes after a refusal or a failed run: `Resolved`, `RefusedUnreachable`, `RefusedCapacity` (grace and count), `RejectRetry`, `RejectFallback`, `RejectCycle`, `RejectGivesUp`, `SmartFallback`, `HookControl`; the answers of the remotes change as they like | `scheduler.py`, `hooks.py` |
| `Shutdown` | a signal or the dashboard asks (`Ask`, `AskAgain`), queued tasks are canceled, the drain waits (`WindowOver`), the servers and services end, the event loop is cut, the next process recovers; pass, runs and child tasks go on meanwhile | `app.py`, `scheduler.py`, `queue_manager.py` |

Behind the scheduler:

| Module | What it is | Code |
|---|---|---|
| `ResourceMonitor` | one measured or peer resource with overlapping probes of the poll and of a dispatch, the generation of an observation, reservations against it; one sensor with threshold and cooldown | `resource_monitor.py`, `peer_resources.py`, `resource.py` |
| `KvAffinity` | the affinity records (bounded, expiring, least recently used first), the anchors of a context, the mirror with its detached writers | `kv_affinity.py` |
| `SmartRouter` | `resolve_route` over that store: lookup, probes with any verdict, choice, diversion, record | `smart_router.py` |
| `ModelReadiness` | the readiness history of one candidate, its merging and pruning, and the decision to divert | `kv_affinity.py` |
| `LocalServer` | one provider's server: calls of `ensure_running` and `stop` split at their awaits, the state file, processes and PIDs of the operating system, a restart of the core with `adopt_existing` | `local_server_manager.py` |
| `KeepAlive` | one model left warm: the core's record and soft consumer, the keep-alive run of cron split at its awaits, the time to live in Redis, what the provider keeps by itself, a restart | `cron.py`, `resources.py`, `app.py` |

The run, and the way to the client:

| Module | What it is | Code |
|---|---|---|
| `ChildTask` | the tool task of a run: its object, registry entry, hash and place, seen from the pass, the tool's run and `delete_task` | `queue_manager.py`, `scheduler.py`, `app.py` |
| `AgentRun` | one run of the agent worker over `ChildTask`: context chain, model calls with their retries, parser variants, stream, tool loop, a cancellation at any await | `workers/agent/openaix/app.py`, `worker.py` |
| `ClientRequest` | a request at an OpenAI, Ollama or Anthropic endpoint with its task: checks, wait, first chunk, stream, deadline, leave | `endpoints/*` |
| `RequestLimits` | the middleware that bounds a body | `request_limits.py` |
| `RouteTrace` | the list of visited instances: what is refused, what is added | `endpoints/*`, `workers/agent/*` |
| `MessagesStream` | the encoder (chunks to Messages events; a call may go on after other parts) and the decoder (events of several open blocks to chunks and a result) | `messages_protocol.py`, `workers/agent/call_anthropic` |
| `MessagesTurns` | a conversation on its way to the internal form and to an Anthropic provider, and the reply on its way back | `messages_protocol.py` |
| `AuditTrail` | abstract: records are submitted, stored at most once, told stored or lost, to a submitter that waits or to one that went on; a closing record cites only what is stored | |
| `AuditLog` | the event loop's submissions (both overflow policies), the wait for a receipt in its two steps, the write without a writer, the writer thread with its failures and its end, stop, retention in two processes, crash | `audit_log.py`, `cron.py` |

Instances: `MCTaskLifecycle` and `MCModelAdmission` check one composition each.
`MCBackends` (router, monitor, readiness, shutdown, keep-alive), `MCWork` (local
server, retries, agent run) and `MCAnswers` (request, body limit, trace, stream,
conversation, audit log) each put components side by side that share no state: a
behaviour picks one of them and only it moves, so a state space is the sum of its
parts, and each part's properties are checked on its own behaviours.

The theorems are in `TaskLifecycle_proofs` and `ModelAdmission_proofs`; `Backends_proofs` (monitor,
router with affinity, readiness), `Work_proofs` (local server, retries, agent run, shutdown),
`Answers_proofs` (body limit, request, trace, converted streams), `Conversation_proofs` and
`AuditLog_proofs`. `FoldTheorems` has what they need of induction, sums, subsequences and folds.
`Subsequences` defines the elements of a sequence at some positions without recursion, in the place
of `SelectSeq`: the provers accept no recursive operator.

Modules that interact are composed: `TaskLifecycle` EXTENDS `QueueManager`, `ModelAdmission`
EXTENDS `Resources`, `SmartRouter` EXTENDS `KvAffinity`, `AgentRun` EXTENDS `ChildTask`: the
control points of the caller around the operations of the callee.

A step is what one coroutine (or thread, or process) does between two suspension
points. An `await` of a Redis command is two steps, what precedes the call
and the effect together with what follows up to the next await:
others run in between. A step never changes anything that the code
does not change before it suspends again.

### Abstractions

`TaskLifecycle`:

* One task type, external tasks only (tool tasks are in `ChildTask`).
* The order of the ZSET is left out: a pop may take any member.
* The gates of a pass are one await; it may defer, fail or dispatch. What the
  gates do is in `ModelAdmission`, `SmartRouter` and `TaskRetries`.
* Retry, fallback, smart fallback and the retry of a hook are one requeue,
  `MaxRequeues` times: all go through `add_task` before the `finally` block of the run.
* Time: a deadline or a staleness limit may be over whenever the code tests it.
* A Redis command takes effect between the call and the resumption of the
  coroutine. One that raises has no effect (a lost reply is not modelled).
* One `terminate_task` or `delete_task` at a time for each task, after which
  another may start.
* A crash loses memory and keeps Redis; it may come at any step.

`ModelAdmission`:

* One resource with one metric, `source = "estimated"`, and one worker, so the
  consumer id `task:worker` is the task.
* `alive_time` or `keep_alive` is configured; a warm entry of a model that is not
  managed may expire at any moment (`KeepAlive` has the times).
* The asyncio locks of `Resources` and `Resource` are never held across a
  suspension, hence a check and the reservation that follows it are one step. The
  provider's unload is the only await that matters, and it may succeed or fail.
* The first unload call of a loop is issued in the same step as the look at the
  consumers; each later call in the step that resumes from the one before.
* A deferral leaves the task among the waiting tasks.
* Every `Need` is positive: a model without requirements has no memory to account.

The others:

* `TaskRetries` follows one task whose candidates are remote aidirs; `SmartRouter`
  takes what a probe finds as any verdict. Neither has the other's detail.
* `Shutdown`: a mark is one step and a task is in one coroutine's hands at a time
  (`TaskLifecycle` has the overlaps, and the crash).
* `ResourceMonitor`: one metric; the estimate and `discount` of a measurement are numbers.
* `KvAffinity`: one conversation that grows; a prefix is named by its length.
* `KeepAlive`: one model; one flow of the core at a time uses or unloads it;
  moments are ages.
* `LocalServer`: one provider; a PID is not handed out again within the 0.1 s
  between two polls of `stop`.
* `ClientRequest`, `MessagesStream`, `MessagesTurns`: a chunk, part or block is its
  kind and its number; texts, headers and the wording of errors are left out.
* `MessagesStream`: a piece of arguments is one more piece of its part, never a prefix that an
  earlier piece already had; a chunk holds one piece (the code takes its fields in a fixed order).
* `AuditLog`: the records of one task, in today's partition; the spool of bodies
  is left out. An append or a commit fails whole (`OSError`, `sqlite3.Error`), or the append raises
  something else, which ends the thread. A partial line of a failed append is not a record.

## 3. Checked properties

`P` is a passing run. States are distinct states found by TLC.

| Run | Instance | Properties | What it shows |
|---|---|---|---|
| `MCTaskLifecycle` P | 1 task, 2 runs, 1 requeue, 1 crash, 1 terminate, 1 Redis fault, cron; 1.0 M states | `TypeOK` `AtMostOneExecution` `PassOwnsItsTasks` `InterruptedNotReplayed` | one task against every coroutine that touches it |
| `MCTaskLifecycleLive` P | 1 task, 1 run, 1 requeue, 1 crash, 1 fault, cron; 162 k states, `FairSpec` | `ClientsLeave` `HashesSettle` | every handler ends; no hash stays queued or running unless the scheduler loop has died |
| `MCAdmission` P | 4 tasks, 3 models, 2 requeues, 1 operator release, 2 reloads; 362 k states | `TypeOK` `OneRunPerModel` `CountersExact` | slots and counters through overlapping runs and reloads, no smart fallback |
| `MCAdmissionMemory` P | 4 tasks, 3 models, smart fallback, 1 requeue, 1 aborted run; 41 k states | `MemoryNotOvercommitted` `UsedIsReserved` `NeverStopBusy` | memory is neither given out twice nor forgotten by `used`, and no model in use is unloaded |
| `MCAdmissionLive` P | 4 tasks, 3 runs, 1 requeue, sizes of its own; 8.7 k states, `FairSpec` | `SessionsWithinMaximum` `EveryTaskServed` | the limits of a parallel model; no task waits for ever behind idle models, unless its own warm model is misjudged for good |
| `MCBackends` P | 2 candidates, 2 context sizes, a store of 1 record; 2 reservations, 2 overlapping probes; a window of 3 samples; 1 external task with 1 child; 1 model; 432 k states, fairness of shutdown and keep-alive | router: `WaitsOnlyWhenNothingStarts` `RecordFollowsChoice`; monitor: `AdmissionFollowsProbes` `ReactionsArePaced`; readiness: `DivertsOnTrueHistory`; shutdown: `RestartIsFaithful` `DrainIsPatient` `ShutdownEnds`; keep-alive: `IdleModelIsLetGo` | routing, measuring, restart and letting go |
| `MCWork` P | 2 callers that start and 1 that stops, all in the core; 2 pids, 1 restart of the core; 2 remotes, every reject policy; 2 tool calls in a turn, 2 turns; 209 k states, fair | server: `OnlyOwnServer` `CallsReturn`; retries: `RunsBounded` `FindsOpenRemote`; agent: `StreamNeverRepeats` `CallsAreAnswered` `RunsEnd` | servers, attempts and tools |
| `MCAnswers` P | 2 runs, 2 chunks, 3 protocols; a limit of 3 bytes; 3 instances, 2 of one name; 3 parts in up to 2 pieces, 2 blocks fed side by side; 4 turns; 1 event, 2 closings, a queue of 1, 1 fault, 1 sweep; 338 k states, fair | request: `StreamIsWhole` `EarlyFailureKeepsStatus` `AnsweredIsForgotten`; limit: `BodyIsBounded`; trace: `VisitsAreBounded`; converters: `ConvertedStreamIsWhole` `ConversationComesBack`; audit: `KeepsTrail` `RemovalsFinish` `ConfirmEnds` | what a client gets, and what is kept of it |
| `TaskLifecycle_*`, `Admission_*`, `Answers_*`, `AuditLog_*` | small | one each | the disagreements of section 4 |

Every module states its type invariant (`TypeOK`, `ServerTypeOK`, `RouterTypeOK`, ...). Those of
`TaskLifecycle` and `ModelAdmission` are checked in their runs and proved; those of `Shutdown`,
`LocalServer`, `AuditLog`, `SmartRouter` and `ModelReadiness` are proved. The others document the state.

`KeepsTrail` is a refinement: `AuditLog` under the mapping at its end (`Trail == INSTANCE AuditTrail
WITH ...`) implements `AuditTrail!TrailSpec`. `AdmissionFollowsProbes`, `OnlyOwnServer`,
`RestartIsFaithful`, `ConvertedStreamIsWhole` and `ConversationComesBack` are each the
conjunction of two named properties of one component.

**Bounds.** One task is enough for the races of `TaskLifecycle`, because all its
coroutines meet at one task; tasks only share the pass, the deferred list and
the runs, and for that the theorems of section 5 speak of any number of them. Two runs are what
one requeue can make overlap. One requeue, crash, fault and terminate each reach every interleaving
with the other actors. For `ModelAdmission`, the capacity (5) holds any one
model, some pairs and not all three, so that each kind of gate occurs: fits, is
reused, needs an unload, does not fit; two requests for the parallel model reach
its maximum. `MCAdmissionLive` has sizes of its own (capacity 7, a 5, b 6, p 1 and 2 for a session): three
sessions of p fit into the memory and two are allowed, and a session needs more than p's idle footprint gives
back, so beside a it has to ask for the unload and beside b it is misjudged (section 4). In `MCBackends` two context sizes share one anchor and differ in another,
a store of one record makes every upsert an eviction, two probers are what overlaps, a child
of a run is the task that a shutdown cannot cancel in the queue, and the keep-alive window
is three times the period. In `MCWork` two starters and one stopper meet at the lock, two
pids allow one to be used again after the other; the remotes may change their answer once;
a reply with two calls has a first that succeeded when the second fails. In `MCAnswers` two
runs are a requeue after chunks went out; the limits of one to three hops and two instances of one
name make loops that the name alone would hide; three parts are every change from one kind to
another and back, and a call that goes on after another part; two blocks are open side by side for the decoder; a queue of one is full as soon as the writer is busy, one
fault is any of: a failed append or commit, a full disk, a writer that dies, a cron that dies. The refutation of
`LoopGoesOn` has no faults and no sweep, so that the stop alone explains it. The mutants of
`PROJECT.json` are bugs that each property finds under these bounds.
`CHECK_DEADLOCK FALSE` stands where the system may have nothing left to do: all
tasks served, all runs over, the answer given.

**What separates the runs of `ModelAdmission`.** `OneRunPerModel` and
`CountersExact` hold as long as a task keeps its model (`SmartFallback = FALSE`),
the second also needs that no run is aborted; see `SlotHeldUntilRelease` and the
observations on `mark_running`. The memory properties hold with smart fallback and aborted
runs and fail under a reload that drops a metric (section 4). `NeverStopBusy` is about
the scheduler's unload loop, during which the pass stands still; the operator's
release, which does not stop the pass, is not in that run (section 4).

**Fairness.**
`TaskLifecycle`: weak fairness of every coroutine, because the event
loop resumes what is ready, Redis answers or raises and run timeouts are finite;
strong fairness of a dispatch that is enabled again and again, because
resources held by others are released. Nothing is assumed of crashes, faults,
disconnects and the dashboard.
`ModelAdmission`: each pass looks at every waiting task, so a
task that can be admitted or can ask for an unload infinitely often does so
(strong fairness); runs end; a provider that is asked again and again unloads in the end
(strong fairness of `UnloadOk`). Without the last, a provider that always
refuses does starve the tasks behind it, by design. The retention window of a warm model that is not
managed ends (weak fairness of `SoftExpired`): it is a time limit, and `Managed` ones wait for an unload.
`Shutdown`: the drain and the exit take their own steps and their time limits pass; no run and no
pass of the scheduler has to end.
`KeepAlive`: time passes, what the core has begun is answered, cron is started again and again.
`LocalServer`: the awaits of a call have time limits, and an `asyncio.Lock` is first
come, first served (strong fairness of `AcquireLock`).
`MCWork` leaves out the keep-alive caller of the maintenance process (`CronPing = {}`): a third starter
does not fit; `OwnServer` is proved with it.
`TaskRetries`: passes follow each other and runs end; the remotes and hooks do as they like.
`AgentRun`: the run's awaits have time limits, and a cancellation that was asked for is delivered;
nothing is assumed of the tool or of the scheduler's passes.
`ClientRequest`: the event loop runs the handler, the run and what they scheduled; no client has to
send or leave, no deadline has to pass.
`AuditLog`: the writer thread does something with what it has, a failure included, the waits of the loop end and
the hourly retention goes on. A writer that is gone stays gone: what `ConfirmEnds` excepts.

## 4. Disagreements between the code and what it says of itself

Each is a `violation` run with one property, which TLC refutes. `PROJECT.json` quotes the
lines.

| Property | The repository says | The code does |
|---|---|---|
| `ReapedIsUndispatchable` | a queued hash in no queue can never be dispatched (`cron.py:343`) | a scheduler pass holds popped tasks, and the queues are read before the hashes |
| `SlotHeldUntilRelease` | a slot is held until its task releases (`resources.py:49`) | the runs of a task share a consumer id; smart fallback frees the wrong slot and leaks the other |
| `ToolCallsStayWhole` | argument deltas of a tool call become `input_json_delta` (`proposal_anthropic.md:212`) | a piece without an id, as OpenAI streams them, opens another block (`messages_protocol.py:1007`) |
| `LoopGoesOn` | a terminal event does not affect completion (`queue_manager.py:563`) | after a stop of the writer that timed out, the event loop waits for a receipt without a limit (`audit_log.py:273`) |

Noticed while modelling and left without a run. Where a definition of the project states the
promise, it is named; it does not hold.

Queue, scheduler, core:

* "External hashes are kept for cron" (`queue_manager.py:273`): the second delete of a timed-out
  stream takes the task for an internal one (295) and deletes its hash.
* `canceled` is terminal (`spec/scheduling.md:17-32`), but a deferred task that was canceled is queued
  again (`scheduler.py:363`).
* `finally` releases (`spec/scheduling.md:305`), but `mark_running` is awaited before the `try`
  (`scheduler.py:570-676`).
* A run that is canceled inside `mark_running` also leaves a hash that says
  queued and is in no queue, which `delete_task` promises not to leave
  (`queue_manager.py:275`); the orphan reaper ends it (`HashesSettle`).
* No Redis call of `Scheduler.run` is guarded; one exception ends the loop for good
  (`SchedulerDies`), while its docstring says that it runs until `stop()`
  (`scheduler.py:122`).
* A deferral re-adds the task with a new time stamp, so tasks of one priority overtake each other,
  and fires the `task_created` hook again (`queue_manager.py:84`; `proposal_hooks.md:94`).
* "When no candidate is left the task fails" (`scheduler.py:851-856`): candidates that refuse in turn keep
  it waiting (`RefusedEverywhereFails`; 864 copies the blocked set before it adds the one that
  refused). Grace is not cleared on a re-route (875; `spec/scheduling.md:379`). Smart fallback has no
  limit of its own.
* Restart: a queued task that is canceled while a pass holds it may still be dispatched or re-added; a
  submission that passed the flag check before the request escapes the cancel loop; a signal during a
  drain of the dashboard cuts the window to what the servers' stop takes; `restart_wait_timeout = 0` waits without limit;
  a child task whose hash says queued is restored without its parent. `RestartIsFaithful` holds
  with all of these: such a task ends or is queued in the next process.

Resources, monitor, routing:

* A reload keeps what running tasks hold (`resources.py:81`), but not for a metric that is left
  out once (116).
* "Never while a task holds a reservation" (`resources.py:610`): the loop looks once, then awaits
  one unload after the other (622), and only the scheduler's own loop keeps the pass still.
* `available_after_unloading_others` (`resource.py:566-590`) counts the other idle
  models and forgets this one; its docstring (572) says the reverse. The operator
  `FitsWithoutOthers` follows the code. A session that would fit once the others are gone may be answered
  `session_memory` instead of `waiting_unload`; nobody then asks for the unload, and when the other idle model
  is managed the task waits until another task asks (`ServedWhateverIsWarm` does not hold; `EveryTaskServed`
  excepts exactly this, as `Misjudged`).
* A refusal with 401 or 403 is "not a peer, cached" (`spec/scheduling.md:979`) and in the code a
  failed probe (`peer_resources.py:70`).
* A context that has grown over a step of the ladder does not find its record (`GrownContextFindsRecord`;
  `kv_affinity.py:145`, `spec/scheduling.md:713-715`).
* Smart routers are built per call (`scheduler.py:1239`, `endpoint_ollama.py:615`), so the shared probes and the one
  second of remote cache never span two tasks. A diversion from an overloaded preferred candidate may
  choose one that has to wait for memory.
* Local servers: between the start of a process and its record, a crash leaves a server nobody
  owns (`ServersAreRecorded`; `local_server_manager.py:165-167`, `spec/scheduling.md:1003`).
* Keep-alive: the record that was read before the ping is written back after it (`cron.py:507`), so a
  newer last use is lost, or a record comes back that an unload has cleared, and a managed server
  is started again without being accounted.

Agent, endpoints, translation, audit:

* A tool task that is deleted while its run goes on leaves a partial hash
  (`NothingLeftOfTools`; `queue_manager.py:273-274`).
* Parser-compatible payloads take the last 14 messages and may cut results from their calls
  (`workers/agent/openaix/app.py:1565-1647`).
* A smart fallback or retry after output, and a Messages stream that breaks off, mix native
  and converted chunks in one stream (`NeverMixture`; `spec/protocols.md:632-633`). A truncated upstream
  Messages stream is reported as a success.
* An assistant turn that has text beside tool use keeps only its opaque blocks (`TurnsComeBack`;
  `messages_protocol.py:528-531`, `proposal_anthropic.md:230-236`); images beside tool results are dropped.
* The encoder gives "a valid Anthropic SSE event sequence" (`messages_protocol.py:905`) unless a tool call goes
  on, under its id, after another part began: 1008-1009 close the block of the other call, or leave the one of a
  text, and 1034-1041 send the arguments at that index (`EveryPieceInPlace` does not hold;
  `ConvertedStreamIsWhole` asks for pieces in place only of other streams).
* The opaque block of a streamed thought is kept as it began, with its signature, and without the text of its
  deltas (823-845, 861-863); `result` has it as an entry that counts no pieces.
* A Messages stream that breaks off gets a last chunk without bytes of the provider
  (`workers/agent/call_anthropic/app.py:124-194`); for it the endpoint's own encoder, which has seen nothing,
  starts a second message (`endpoint_anthropic.py:411`).
* The usage chunk after OpenAI's finish chunk is ignored by the stopped encoder
  (`proposal_anthropic.md:718`).
* On a disconnect only `delete_task` is called (`SPEC.md:622` and `spec/scheduling.md:43` differ); a run that then
  fails and is queued again registers the task again, and nobody removes it.
* A comment of a foreign stream opens a 200 before any output (`spec/protocols.md:108-109`); a canceled OpenAI
  stream ends with `[DONE]`; an Ollama failure event lacks `"done": true`.
* Only hops of `openaix` carry the route trace, so a loop through a plain provider is not noticed.
* A durable submitter whose wait has expired overwrites the receipt with "failed", whatever the writer has made
  of it since (`audit_log.py:697-700`, 740): a record that is stored is told lost, and a closing record loses its
  reservation. The trail allows it only until the submitter goes on.
* The writer's thread ends with any exception that is not an `OSError` or `sqlite3.Error` (171; a lone surrogate
  of a body has no UTF-8, 712), and with an SQLite error of the sweep of a full disk (772-780, before 174). It
  leaves the receipt pending, and the end of the task waits for it without a limit (273), with no stop involved:
  `ConfirmEnds` excepts `writer = "died"` by name.
* An active day "is never deleted", but the emergency limit does (`audit_log.py:364-367`); a task that is
  marked twice may get two closing records when the first was told lost (`ClosedOnce`).
* The cron process stamps a shared key for tool listings it has only refreshed in its own memory
  (`workers/tool/external_mcp/app.py`), so the core's may stay old; not modelled.

## 5. Proofs

All theorems hold for every value of the constants that satisfies the named assumption of the
module (`...Assumption`), which TLC evaluates in the runs.

`TaskLifecycle_proofs`, for any set of tasks and of runs and any values of the bounds:

* `TypeCorrect`, `ExecutionIsExclusive`, `PassOwnership` follow from the
  inductive invariant `Inv == TypeOK /\ Control /\ Exclusive`.
  `AtMostOneExecution` is not inductive: a second execution could come from the
  queue, the deferred list, the task in hand, a run that is about to re-add the
  task or the handler that is still submitting it. `Exclusive` says that these
  holders exclude each other in pairs. `Control` ties control points to the data
  they need, and says that a task nobody submitted has left no trace (`Fresh`), so
  that a submission cannot meet an older holder.
* `NoReplay` needs `Replay == ExecNotQueued /\ InterruptedNotReplayed` on top: a task
  in a worker has a hash that says something other than queued, so a
  crash leaves a hash from which the recovery does not queue it again.

`ModelAdmission_proofs`, for any tasks, models, runs, routes and sizes; in the first five
theorems the memory checks stay opaque, since they only occur in guards:

* `TypeCorrect` from `TypeInv == TypeOK /\ RunsBusy`: a run that is not idle has its
  task and its model.
* `OneRun` and `SlotHeld`, without smart fallback, from `SlotInv`. `OneRunPerModel` is
  not inductive, because a slot may be given back while its run goes on. `SlotInv` adds
  that a run holds a slot until it releases and an active count until it finishes
  (`SlotHeldUntilRelease`, `ActiveHeld`), so admission, which wants both to be zero,
  finds nobody running (`FreeModel`), and that every trace of a task leads to one model
  (`RoutesKept`), so a release takes back the slot of its own model.
  The hypothesis is needed: with smart fallback the second is refuted (section 4).
* `Sessions`, for finitely many runs none of which is aborted, from `SessionInv`: the active
  count of a parallel model is the number of its runs, and its base is there exactly
  while there are any. `RunsInStep` says how a step of one run changes such a number.
* `Counters`, with both hypotheses, from `CountInv`, which adds that the slot under a
  run's consumer id is the slot of its model (`SlotOwner`).

* `MemoryFitsTogether` and `UsedIsExact`, for finitely many runs and without reload, from `MemoryInv ==
  SharesInv /\ MemoryFits`. A task's runs share one consumer entry, so what a run will give back
  is not in the state. `Share` is what each run of a task still has to release, and `SharesHeld` says
  that their sum is at most what the entry holds: a release therefore never
  cuts off at zero, and subtraction keeps `used` equal to the sum of the entries. `BaseWhole` says that
  the base of a parallel model is there entirely or not at all. Smart fallback, requeues, aborted runs and
  the operator's release are in.
* `BusyIsSpared`, for finitely many runs and without the operator's release, from `BusyInv`: a reservation of
  a run is visible to the look at the consumers because its share is positive (`SharesInv`) or because the base
  stays while a session is counted (`BaseKept`), so an unload is asked for only while nobody holds anything, and
  nobody is admitted while the pass waits for it (`UnloadsAlone`).

The hypotheses are not conveniences: section 4 says what the code does without them
(`~SmartFallback`: `SlotHeldUntilRelease`; `MaxAborts = 0`: `mark_running` before the `try`; `MaxReloads = 0`:
the metric that is left out once; `MaxPanel = 0`: the release that does not stop the pass).

`Backends_proofs`:

* Monitor, for any probes, amounts, threshold and cooldown and a finite set of consumers: `ProbesGovernAdmission`
  and `ReactionPace` from `MonitorInv`. A reservation carries the generation of the observation it was
  made on. `AfterBound` says that none is from the future, so a probe that ends starts a new generation with
  nothing reserved since; `AdmittedFitsObservation` sums what was. `FailureShows` ties a
  failed probe to the status that admission reads, and `RecoveryForgets` a recovery to the cooldown.
* Router, for any candidates, verdicts, policy, sizes and bound: `WaitsForNothingElse` needs no strengthening
  but a lemma about the choice: whatever the record and the lookups, it is sound for the verdicts taken
  (`Sound`). `StoreIsBounded` and `ChoiceIsRemembered` from `RouterInv == RouterTypeOK /\ SizeKnown`: a store is a
  sequence of records with different anchors within the bound (`Stored`, `AnchorsDiffer`), and an upsert is the last
  in the order of use, so the eviction that follows never takes it.
* Readiness, for any window, limits and samples: `HistoryIsTrue` from `ReadinessInv`. The
  kept transitions tell the state of every moment since the first of them (`KeptTells`), they begin no
  later than the window (`KeptBegins`), and the streak is what the samples make it (`SinceTells`). The
  blocked time and the observed span are sums over the kept transitions; `SumOfParts` turns them into
  the number of moments, which is how the whole history is measured.

`Work_proofs`:

* Local server, for any callers, pids, starts and restarts: `OwnServer` from `ServerInv == ServerTyped /\ LockHeld /\
  Foreign`. `StartsAreSerial` is not inductive without `LockHeld`: whoever is anywhere between `AcquireLock` and
  its return, the stop after a failed start included, holds the lock. That no other program is ended needs
  `Foreign`: whatever (pid, start ticks) the state file or a call remembers was stamped before now and never
  belongs to a program of others, so `_owned`'s comparison tells them apart.
* Retries, for any remotes, policies, fallback lists and bounds: `FailuresCostBoundedRuns` from `RetriesInv ==
  CountersType /\ RunsGranted`. The bound alone is not inductive; `RunsGranted` is a potential: the runs
  there have been and those the counters and the pending requests of a hook still allow are within what was granted.
* Agent, for any number of model calls, tools and turns: `OneAttemptStreams` and `EveryCallAnswered` from `AgentInv`.
  `OneStream` says at each control point which attempt may have put out chunks; `TalkIsWhole` that the results so
  far and the calls still to make are together the calls asked for, in order.
* Shutdown, for any tasks and without fairness: `RestartIsFaithful` speaks of the next process only. `PlaceInv` says
  what the dying one keeps true until then: a task waits in one place or runs (`OnePlace`), the hash of a run
  in its worker says running, and what was cut off is in no place and not said to be queued
  (`CutOffStays`); so recovery queues again only what never reached a worker. `DrainPatience` follows from `Patient`:
  a drain that is over without having canceled anything has seen the end of every run that was
  active at the request.

`Answers_proofs`:

* Body limit, for any limit and any sizes: `BodyBounded` from `PhaseInv`: until it is given, everything read is held,
  and only a whole body, or one whose client has left, gets that far.
* Request, for any number of runs and chunks: `StreamsAreWhole` and `FailuresAreReported` from `ClientInv`. What a
  client has read, what the handler holds and what is queued for it are one stream:
  `EndInv`, `HandInv` and `OutInv` say where its end may be at each control point, `FlowInv` that nothing is missing
  between the three while the stream is open, and `StatusInv` what a status already sent implies.
* Trace, for any instances, names, limits and headers: `RequestsDoNotCircle` from `TraceInv`: the list
  that travels holds the instances that made a task (`ListHasPath`), no instance twice, and each was within its
  own limit of hops.
* Streams, for any number of parts, pieces and open blocks: `StreamsConvertWhole` from `ReplyInv`. `Told` says of the
  events so far that they open a message once, that starts and stops alternate with the numbers in step
  (`Alternates`), and that the block open at the end is the one the encoder remembers (`EncoderTells`); as long as
  nothing crossed it also says `InPlace`, each piece behind one of its block. A piece that crosses is added without
  that half (`SendsStray`). `PartsBegun` and `CallsKnown` tie the ids the encoder has seen to the parts, so that one it
  makes up is not taken; `AtHand` says that what may go on without crossing is what is open. The decoder side is
  `DecoderInv`: an open block has gathered the pieces of its part (`Gathered`), and the prose fed and the
  calls closed are paired in order with what was passed on (`Paired`).

`Conversation_proofs`, for any number of turns and blocks: `ConversationsComeBack` from `TurnsInv`, which is about the
converted conversation, two folds one over the other. They are shown equal to `Converted`, recursive functions on
the prefixes of the history, so that a new turn only adds messages of its own. The rest is what these do to
turns that already satisfy the property: `GoodAppend` for results behind their uses, `OwnAppend` for the blocks the
provider gets back.

`AuditLog_proofs`, for any events, closings, queue size, policies and bounds:

* `AuditImplementsTrail` is the refinement `AuditSpec => Trail!TrailSpec`: the initial states map to
  an initial state, and every action to one action of the trail or to a stutter. It needs to know
  that a record waits in one place, once (`OnePlace`: the queue, the writer's hand, or a call that still
  has to put or write it), that receipts are true of the journal (`ReceiptsTrue`), which control points have a
  record in hand and in which state (`Places`), and that the place of
  the closing record is kept while its fate is open or good (`ReservedTold`), which is why a second closing
  needs the first to be told lost. `Awaited` maps the control points at which a submitter still waits: there, and
  only there, a late time-out may turn stored into lost (`LostStep`).

`FoldTheorems`: the library's induction theorems take the predicate as an operator, which the provers cannot
instantiate. `SetInduction` and `SubsetInduction` state induction with a set in its place, and follow from the
well-foundedness of the naturals. From them: the sum of a function over a finite set when one value, or the set, changes;
the length, order and elements of a subsequence (`Kept`), also of an appended or a filtered one; and what a fold
over a sequence is at each prefix, with an invariant for it (`FoldTyped`).

**Model-checked only.** Every safety and action property of the passing runs has a theorem. Left to TLC are the liveness
properties (`ClientsLeave`, `HashesSettle`, `EveryTaskServed`, `ShutdownEnds`, `IdleModelIsLetGo`,
`CallsReturn`, `FindsOpenRemote`, `RunsEnd`, `AnsweredIsForgotten`, `RemovalsFinish`, `ConfirmEnds`), which
rest on ENABLED, out of the provers' reach. `KeepAlive` and `ChildTask` have only such properties, and no theorem.

## 6. What is not modelled, and what is next

* Settings (`config*.py`, `settings/*`, `envid.py`): files read and written by one process at a time;
  the reload that reaches the resources is in `Resources`.
* The dashboard (`webui`): views over the same state; its terminate, release and restart calls are in
  `TaskLifecycle`, `ModelAdmission` and `Shutdown`.
* The doctor, the logger, the provider and tool workers (`call_*`, `http_api`, `web_*`): I/O; what they may
  answer is a choice of `AgentRun` and `MessagesStream`.
* Of modelled components: the score of the ZSET and stream queues; several metrics and resources at once;
  the MCP endpoint, model lists and generation options; the spool of bodies and the rebuilding of the
  index of the audit log; pruning of stored contexts by cron; the execution mode of the core.

Next, in this order: the composition of `Shutdown` with the marks of `QueueManager` (now one step each);
the score of the ZSET as an order, with overtaking stated; several resources in `ModelAdmission`; an abstract
task service that `TaskLifecycle` implements; proofs of what `ChildTask` and `KeepAlive` promise at every step.
