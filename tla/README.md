# A TLA+ model of all-agents

all-agents runs LLM agents as a service: a client submits a task over REST or
gRPC, an agent works on it with retries and an escalation path, users claim the
task and hand it to each other, and quotas, rate limits, locks, an audit log, a
knowledge graph, backups and a configuration surround that. This directory holds
TLA+ modules of the parts of it whose correctness depends on the order of steps,
the TLC configurations that check them and the proofs that TLAPS checks.

Paths below are relative to `src/src/agent_system/` unless they start with
`docs/`. `PROJECT.json` maps every definition to its source lines and lists the
runs, the mutants, the hazards and the theorems.

Contents: [1 Inventory](#1-inventory) · [2 Plan](#2-plan) ·
[3 The modules](#3-the-modules) · [4 The runs](#4-the-runs) ·
[5 Bounds](#5-bounds) · [6 Fairness](#6-fairness) · [7 Proofs](#7-proofs) ·
[8 Where code and documentation disagree](#8-where-code-and-documentation-disagree) ·
[9 Not modelled](#9-not-modelled)

## 1 Inventory

### How the parts work together

```
 REST clients          gRPC clients             GitHub
     |                      |                      |
 api/routes/tasks.py   grpc/server.py       api/routes/github_webhook.py
     | submit              | thread of a pool      | background review
     v                     v asyncio.run           v
 core/checkpoint_tracker  grpc/handlers.py      core/llm_router.py
     |                     | create_task           ^
     v                     v                       |
 core/graph.py --> core/agent.py: execute ---------+  do_work, discussion, CEO
     |                 |   \ core/resolver.py
     |                 +--> data/checkpoints/<id>.json   (core/failure_ux.py)
     |                 +--> experience graph node        (memory/experience.py)
     |                 +--> TASK_* events                (core/event_bus.py)
     v
 storage/task_store.py <---- claim, handoff (api/routes/tasks.py)
     |
     v
 core/audit_logger.py: queue -> timer -> thread -> audit-<day>.jsonl
```

There is one asyncio loop for REST, the flush timer and the webhook reviews.
gRPC calls run in a thread pool, each under an `asyncio.run` of its own. Files
are written by worker threads (`asyncio.to_thread`) or in place. Several
processes meet only in Redis (locks, quotas, rate limits) and in the files.

### The components

| Component | State | Operations | Hard behaviour | What makes it correct |
|---|---|---|---|---|
| Task store, REST and gRPC task handlers (`storage/task_store.py`, `api/routes/tasks.py`, `grpc/`) | records with status, owner, assignee, version | submit, claim, handoff, background run, complete, fail | records are shared, not copied; compare-and-set without a lock; a run that outlives its loop; ids that clients choose | an owner changes with the whole record only, a finished task stays, answers are recorded, the events replay to the record, an accepted task finishes |
| Audit logger (`core/audit_logger.py`) | bounded queue, batches in threads, a file per day | log, timer, flush, close, purge, query | threads that outlive the task that started them; overflow; failed writes; entries that cannot be serialized | each entry in one place, newest kept, young files kept, everything flushed, files in order |
| In-process lock (`concurrency/lock.py`) | records with holder and expiry | acquire, heartbeat, release, with_lock, inspections | a body that outlives its lease; a revived lease | leases do not overlap |
| Redis lock (`storage/redis_backend.py`) | a key with expiry, a fallback per process | the same, as separate commands | expiry between two commands, an unreachable server, crashes | one holder; a lock passes on only through free; abandoned locks end |
| Agent execution (`core/agent.py`, `core/failure_ux.py`, `core/checkpoint_tracker.py`, `core/notify.py`, `core/graph.py`) | attempts, two checkpoints of each task in one file, a graph node, offers to resume | execute, retry, resolve, discuss, escalate, finish, fail, crash, offer | two writers of one file, exceptions at any of several stores, shared task ids, crashes | bounded calls, one verdict told to everybody, progress tells the answer, every run ends |
| Resolver and evaluator (`core/resolver.py`, `core/evaluator.py`, `core/mixins/discussion.py`, `core/autogen_discussion.py`, `agents/ceo_agent.py`) | the phase of a resolution, the registry of peers | evaluate, try again, discuss, ask a person, escalate | nested retries, two ways to discuss, several agents at it on one loop | one ending, bounded reruns, dangerous actions wait for a person |
| Quotas and costs (`core/quota.py`, `core/cost_tracker.py`) | usage per user, department, system and day; waiting queues | check, start, end, record, enqueue, dequeue, notify | check and start are separate; the day changes under a task; two queues per task | bounded over-admission, counters match the running tasks, the levels agree |
| LLM router (`core/llm_router.py`) and its streams (`api/routes/llm_stream.py`, `grpc/`) | messages, usage, the agent of the context; open tool calls | call with retry, tool loops, stream | a retried call may be paid twice; failures after the work; clients that leave; a library with retries of its own | cost undercharged by known amounts only, tool results reach the model, a stream ends once |
| Rate limits (`core/rate_limit/`) | a log of times per key, in memory or in Redis | check, reset | replicas racing between count and admission | no window above its limit |
| Authentication (`core/auth/`) | a key ring, tokens | issue, verify, rotate, publish keys | replicas that run different settings during a rollout | a token is accepted while its key and its time are valid |
| Backup and restore (`core/backup/`) | archives, manifests | back up, retain, restore, verify | writers while copying, failing steps, stops in the middle | a restore writes what was copied, a whole archive stays |
| Knowledge graph (`memory/graph.py`, `memory/experience.py`, `memory/persistence.py`) | nodes, two-way links, files | record, link, save, load, archive, delete | threads that record at once, crashes, torn files | links mirrored, records reach the disk |
| Graph stores (`memory/storage/`) | a file per node, or tables | save, delete, link, migrate | an owner that writes during the migration | what is migrated is faithful |
| Graph queries (`memory/graph.py`, `core/dataview.py`) | a queue of the search, rows | neighbours, path, query | dangling links, limits, an order by names that are not keys | exact answers |
| GitHub webhook (`api/routes/github_webhook.py`) | the deliveries seen | verify, deduplicate, review | two copies under way, restarts, redeliveries | one review for each time a delivery is remembered |
| Event buses (`core/event_bus.py`, `core/agent.py`) | lists of subscribers | publish, subscribe, unsubscribe, clear | subscribing and leaving during a publication | heard once, by everybody who stays |
| Data migration (`migration/engine.py`) | copies of nodes, a report | migrate, verify, roll back | repeated and partly failed runs | runs converge |
| Request pipeline (`core/security_middleware.py`, `core/rate_limit/`, `core/auth/`, `core/observability.py`, `api/server.py`) | a bucket per address, context variables, what is left of a body | the layers a request passes, one after the other | requests interleave where a layer waits; the body is drained and given back; clients leave | contexts apart, counts follow ids, bodies whole but for one known case |
| Access control and the task list (`core/access_control.py`, `api/routes/tasks.py`) | records with a space | list, page | the filter runs after the limit of the store; the offset is cut from the wrong end | the newest tasks a reader may see are shown, other tenants' never |
| Audit queries (`core/audit/query.py`, `core/audit_logger.py`) | the files of the days | query, alert | late entries, lines torn inside a character, two loggers with and without time zones, limits | alerts and queries exact within their limits, over what can be read |
| Configuration (`core/config/`) | a cache over environment, secrets, files | get, set, persist, clear, restart | layers shared by tenants, stale cache | a tenant is answered its own values |
| Custom agents (`agents/custom/`, `api/routes/custom_agents.py`) | definitions in memory and in files | upload, delete, load, run | memory and disk changed one after the other, torn files | what was answered is kept |
| Pools and caches (`core/pools.py`, `core/cache.py`) | semaphores, pacing, an LRU | acquire, get, put | | no application code uses them |
| Application lifespan (`api/server.py`, `api/state.py`) | singletons, tasks in flight | start, stop | the shutdown waits for some tasks only | the graph is loaded and saved |
| Others: prompts and output handling of the agents, tools and the MCP client, schema and time helpers, onboarding, command line, code generation | little or none | | | |

Every component is listed in `PROJECT.json` under `components`, with the reason
where it is not modelled. `hazards` there names, line by line, what this code
could get wrong that a test would hardly reach.

## 2 Plan

Most important first. What is proved is in eight modules: `TaskCollaborationProofs`
and `AgentExecutionProofs` about one module each, and six about several:
`ModelCallProofs` (`Resolver`, `LLMRouter`, `LLMStream`), `RequestProofs`
(`RequestPipeline`, `EventBus`, `Webhook`, `RedisLock`), `RecordProofs` (`AuditLog`,
`Backup`), `LimitProofs` (`ResourceLock`, `Quota`, `RateLimit`), `GraphProofs`
(`MemoryGraph`, `GraphStorage`, `DataMigration`) and `StateProofs` (`ConfigLayers`,
`CustomAgents`, `KeyRotation`, `TaskListing`, `AuditQuery`, `GraphQueries`).
Every module takes its parameters as CONSTANTS (under a named assumption where
a proof or a definition needs one) and has one action per operation; invariants
are conjunctions of named parts, and nothing is RECURSIVE.

| # | Modules | Abstract specification | State |
|---|---|---|---|
| 1 | `TaskCollaboration` | `TaskBoard` | checked, proved |
| 2 | `AuditLog` | | checked, proved |
| 3 | `ResourceLock`, `RedisLock` | `ExclusiveLock`, implemented by both | checked, proved |
| 4 | `AgentExecution` | | checked, proved |
| 5 | `Quota` (admission and costs) | | checked, proved |
| 6 | `RateLimit` | | checked, proved |
| 7 | `LLMRouter`, `LLMStream` | | checked, proved |
| 8 | `KeyRotation` | | checked, proved |
| 9 | `Backup` | | checked, proved |
| 10 | `MemoryGraph`, `GraphStorage`, `GraphQueries` | | checked, proved |
| 11 | `Resolver` | | checked, proved |
| 12 | `RequestPipeline`, `Webhook`, `EventBus`, `DataMigration` | | checked, proved |
| 13 | `CustomAgents`, `ConfigLayers` | | checked, proved |
| 14 | `TaskListing`, `AuditQuery` | | checked, proved |
| | `Amounts` (totals), `Positions` (what a sequence has where, the first of some positions in an order) | | helpers |

Compositions: `TaskCollaboration` contains store, handlers and runs together,
`AgentExecution` contains agent, tracker, files and offers together,
`MemoryGraph` graph, recorders, files and process, `RequestPipeline` all layers
of the stack, because what is hard in each is in the interplay. Between the
other components there are calls that do not come back to the caller's state (an
event is published, an entry is logged), so they are checked by themselves.

What is left: an abstract specification of the audit log (an order-preserving
bounded log) and of an execution (a task with one verdict), and the composition of
`LLMRouter` with `Quota` (what a call reserves and what it records). Of what the
runs check, the invariants are proved and the liveness properties are not.

## 3 The modules

### TaskCollaboration

Tasks in the in-memory store, changed by REST handlers and gRPC runs. The
Postgres store is not a second case: its constructor fails over to the memory
store in this version of the code.

| Variable | Code |
|---|---|
| `store` | `InMemoryTaskStore._store`; `get` hands out the record itself |
| `request` | coroutines of `submit_task`, `claim_task`, `handoff_task` and their locals |
| `worker` | gRPC calls: `submit_task` and `_run_task` and their locals |
| `loop` | who is inside a segment between two awaits |
| `timeline` | the events of the audit log that name a task |

A claim or handoff goes through `Accept` (the checks), `Bind` (the version to
expect and the previous assignee are read), `Match` or `Conflict` (the test in
`update_fields`), `Write`, `Stamp` (`version += 1`) and `Report` (the audit
event). On one loop nothing comes between these steps, which `loop` expresses;
with `Threaded` a gRPC thread may come between any two. A gRPC run goes through
`GrpcSubmit`, `LlmAnswers`, `GetCurrent`, `WorkerMatch` or `WorkerConflict`,
`WorkerWrite`, `WorkerStamp`; `CancelRun` is `asyncio.run` cancelling the run
it leaves behind. `Refuse` is every answer of 403, 404 and 422. With `MayReuseId`
a client names an id that is in use, which `submit_task` accepts, and
`FinishSubmit` replaces the record. Reuse is modelled on one loop only (the
assumption excludes it together with `Threaded`): a thread that is updating the
record when it is replaced would go on with the object that was replaced.

`TaskBoard` is what users are promised: a task is posted once, moves between
assignees while it is pending, is finished once, and counts every change. The
refinement mapping shows the store with the version it is about to stamp: an
update takes effect at its write.

### AuditLog

`BatchAuditLogger`: `Log` with the drop-oldest rule, `TimerFires`, `Flush`,
`Close`/`CloseFlush`/`CloseReturns`, the writer threads `WriteDay` and
`WriteFails` (a batch is written one day at a time), and `Purge`. An entry is
its number in the order of the calls. The variables `dropped`, `failed` and
`purged` account for entries that left the system; they are history, the code
does not keep them.
`SyncLog` is `sync_log`, which writes past the queue; it has no callers outside
the tests, so `MaySync` says whether it is used. An entry logged where no event
loop runs takes the same path. An entry of `unserializable` makes
`model_dump_json` raise in `_write_batch` before its `try`: the batch is lost,
and if it was the timer's, the flush task is over (`flusher = "dead"`); what was
handed to `flush` or `close` raises to the caller. `EveryEntryFlushed` says that an
entry leaves the queue unless the log is closed or the flush task is over, and that
it is over only if such an entry was lost, which it then may be (section 8).

### ResourceLock, RedisLock, ExclusiveLock

`ResourceLock` has one step per operation, because each runs under one
`asyncio.Lock` without suspending; bodies under `with_lock` are what suspends.
`locks` is `_locks`, `body` the bodies under way with the lease each was last
told. `_gc` is part of every operation that calls it; `heartbeat` does not, so
it revives an expired record.

`RedisLock` has one step per command, since every command awaits: `SetNx`,
`GetBusy`, `Extend` (acquire); `GetBeat`, `Prolong` (heartbeat); `GetHolder`,
`Delete` (release). `KeyExpires` may come at any time, `Crash` takes a
process's clients and its fallback. `Reachable = FALSE` lets any operation take
the in-memory fallback instead. `Prompt` assumes that bodies and commands end
before the key expires; without it `OwnershipVerified` and `AcquireAtomic`, which
state what the docstring of the class promises, fail (section 8).

`ExclusiveLock` promises that a lock is taken only when it is free. Both locks
implement it: the unexpired records of the one, the Redis key of the other.

### AgentExecution

One request from `submit_task` to its answer. A step of the model is the code
between two suspensions. The tracker (`live`) and the agent (`own`) each hold a
`TaskCheckpoint` of the task and both write `file`. `node` is the task's node
in the experience graph, `told` the events published for the run, `offer` the
offers of the `ResumeManager`. `GiveUp` is the whole `except` branch of
`_execute_inner`: it records the failure, publishes, fails and saves the
checkpoint and enters the resolver (`Sequel`). With `DiskRaises` every store
that touches the disk may raise where it stands, with what the code then leaves
undone (`BeginRaises`, `SucceedRaises`, `GiveUpRaises`). With `SaveFails` a write of
`CheckpointStore.save` may also fail in silence: `save` returns False and its
callers go on, so the file keeps what it had, and `lost` remembers which tasks
lost their last write. `ProgressTellsAnswer` and `NeverStuck` say what a poll may
then read. `IdOf` allows several
requests to name one task id, as the REST route does.

### Resolver

What follows when `AgentExecution` has given up; there the resolver is reduced to
its outcomes, here it is looked into. Several agents (`Failing`) resolve at once
on one loop. `phase` is where each waits, `kind` the class of action the
evaluator sees, `tries` the retries it has spent. `ResolverStep` is one
uninterrupted stretch: evaluate and choose (self, peers, a person, the CEO), ask
a peer, apply what was advised, run `do_work` again. `autogen` says whether the
discussion goes through AutoGen first; its adapters share the class attribute
`_peer_registry` (`shared`), which is why `AsksOthers` is stated of the other
way to discuss. `reruns`, `events` and `consulted` are history.

`ResolutionSound` is `OneEnding` (one ending, told once, and at most one rerun of
the agent's own and one on its peers' advice), `HarmLeftToPeople` (a guarded
action is neither rerun nor discussed, one of high impact never rerun on advice)
and `AsksOthers` (nobody asks itself).

### Quota

Synchronous code, so one step per call; what interleaves are the calls of
different tasks: `Ask` (`check_quota`, with the queues when it refuses),
`StartTask`, `RecordCall` (by task or by agent only), `EndTask`, the two
`Notify` steps, and `NewDay`, which the store notices at its next look
(`storeDay`). `AdmissionSound` is `OverAdmissionBounded` (the gap between check
and start lets in no more than the tasks standing in it), `CountersMatchRunning`
(across the change of the day), `LevelsAgree` (what users, departments and the
system have spent adds up) and `WaitingHaveEntries` (who is told to wait is in a
queue; whose entry a notification takes cannot be told, as the entries are times).

### RateLimit

`log` keeps the admitted times by store and key, as the number of them of each age
(the limiter only asks how many there are in the window); what leaves the window
is kept under the age `Window + 1` until it is evicted. The memory and Lua
backends check and admit in one step (`CheckAtomic`), the WATCH fallback counts
(`WatchRound`), admits (`WatchAdmit`) or meets a conflict and tries again
(`WatchConflict`). `RedisFails` lets the request through, as the code does;
`ResetAll` empties every log. `WindowsBounded`: in a window
no key has more recorded admissions than the largest limit that uses the key; in
memory than that for each replica, and under WATCH at most as many more as
requests were between their count and their admission.

### LLMRouter, LLMStream

`LLMRouter` is one asyncio task that calls models again and again. `RouterStep` is
what happens at a suspension: an answer, an error before or after the provider did
the work, a pause, a tool. `CancelCall` may come at any of them. `charged` is what
the cost tracker was told, `answered` what was received, and `untold` what
`_record_cost` left out: the cached tokens, which it never passes, and recordings
that raised, which it swallows. `RetriesOf` is how often a turn is asked again: by
`_call_with_retry`, whose Anthropic client has no retries of its own, or by the
OpenAI library (`SdkRetries`, its default of two). `CallsSound` is
`NeverUndercharged` (what the tracker was told falls short of the answers by
`untold` and by nothing else), `UnrecordedPaymentsBounded` (paid requests nobody
heard of are bounded by these retries), `ResultsReachTheModel` (a tool that ran is
seen by the model unless the turns are used up) and `KeepsWhatFits` (truncation
drops no message that had room).

`LLMStream` is the generator between a provider's events and a transport. A
WebSocket sends frames as they come, gRPC collects them; `LeaveStream` is a
client that goes. The WebSocket, and a gRPC request without a model, pass on
`settings.llm`, which has no `model`: with a real provider the generator raises at
once, and the client gets an error frame, or over gRPC no frame at all
(`"aborted"`). `StreamWellFormed` is `EndsOnce` and `ToolsBracketed` (the
input of a tool comes between its start and its end).

### KeyRotation

`settings` is the environment an operator has published; `Roll` restarts one
replica with it, so replicas differ for a while. `Install`, `Announce`,
`Promote` and `Retire` are the steps of a rotation, in the careful order: the new
key is published everywhere before anybody signs with it. `KeysHonoured` is
`TokensHonoured` (no replica refuses another's unexpired token), `OutsideAgrees`
(a verifier that reads the published keys agrees) and `FreshAccepted` (a token
just issued is accepted). `KidPolicy` says how the operator names keys; the other
two values give the divergences of section 8.

### Backup

`BackupRun` takes a run from the copy of the graph through tar, close and
retention, each a step between which the application writes (`WriteGraph`), the
dump or the run fails, or an archive is damaged. The graph is two files, so that
a copy shows whether it is of one instant. `ArchivesFaithful` is
`RestoredFaithfully` (a verified restore without errors wrote what was copied)
and `PointInTime` (for databases). `WholeArchiveStays`: retention and failed
runs never leave the host without a whole archive once it had one. `KeepDays` is
at least 1: with 0 the code would delete the archive it has just written.

### MemoryGraph, GraphStorage, GraphQueries

`MemoryGraph`: an execution is recorded as a list of small steps on memory and
files (`todo`), so recordings of gRPC threads interleave with each other and with
the loop, and the process may crash between any two. `graph` holds nodes and both
directions of each link by number of copies, `files` the node files (which may be
torn), `lines` and `tornTail` the link file. `Startup` reads and discards, as the
code does. `GraphSound` is `LinksMirrored`, `RecordsReachDisk` and
`TornOnlyByFaults`.

`GraphStorage`: `source` and `target` are stores of a kind each; the `owner`
writes one node at a time and may crash, `job` is the migration command. SQL
stores upsert in transactions; the JSON store writes in place and appends links.
`StoresAgree` is `MigratedFaithfully` (after a report of success over a quiet
source the target loads as the source does) and `LinksAnchored` (a stored link
joins two stored nodes; in files except around a write, a deletion or a crash).

`GraphQueries`: a graph is built, then searched: `Expand` and `ExpandPath` take
one element off the queue of `neighbors` or `path`; `RunQuery` evaluates a
statement over the candidates in any order. The rows of an answer are a set, the
first nodes that match in the order of the statement, ties in the order of the
candidates. A column has a field and a key (`Column`): the alias, or the field
without its prefix. ORDER BY looks its name up among the keys (`SortsRows`), and
sorts nothing if none is called so; `LimitKeepsTop` is stated where one is
(section 8 has what happens to a selected field with another key). A path gives up
once it has visited `MaxVisited` nodes (10 000 in the code), so `PathShortest` is
stated of searches that did not. `AnswersExact` compares with the definition of
distance and of the rows (`NeighborsExact`, `PathShortest`, `LimitKeepsTop`).

### DataMigration

A run of the engine does not suspend, so `Migrate` is one step; nodes that cannot
be copied, edits between runs and repeated runs are what may happen. The selected
nodes are cut into batches in some order. `RunsConverge`: a run repeated until it
succeeds ends as if it had gone through at once. It is not
asked of runs of more than `MaxMigrated` nodes, which the engine refuses, nor of
those within one tenant without a source group (section 8). `RollbackRestores` is
the docstring of `rollback`, which is false of the code.

### Webhook

`Receive` is the handler up to its first answer: it looks the id up, waits for the
body, looks again and remembers it, before it checks the signature. `remembered`
is the LRU cache. `StartReview` and `RunReview` are the background task.
`HookRestart` loses the cache and the reviews. `OneReviewPerMemory`: an id starts
at most one review for each time it is remembered.

### EventBus

Both buses. `lists` are the list objects there have been, because `EventBus`
rebinds its list on unsubscribe and clears in place, while `EventHandler` changes
one list always; `walking` is the list and index of a publication.
`EachHeardOnce` is `HeardOnce` and `SteadyHeard`.

### RequestPipeline

`server.py` adds layers, Starlette runs the one added last first. `place` is where
a request waits: limiter, body, scan, route. Everything between is one
`RequestStep`. `context` are the context variables of its task, `held` the parts
of the body the scan gives back, `counted` what the metrics say of it, `bucket`
the token bucket of the address with its cleanup. `RequestsApart` is
`OwnContext`, `CountsFollowIds`, `RefusedEarly` and `BodyWhole`; `BucketBounded`
is the bound of a token bucket over every stretch of time. Where the scan has
drained the body, the layers inside are given what it holds as the whole body
(`Replayed`), also after a disconnect: `Handle` then runs the route on a part, with
200, 422 or an exception. `BodyWhole` says that this is the only way to a 200 for
a part of a body.

### TaskListing, AuditQuery

`TaskListing`: the records of `InMemoryTaskStore` in the order of its dictionary,
each with the space it is open to (`TaskSpaces`), and readers with a tenant, role
and memberships. `Page` asks the store for its newest `limit + offset` records of
a tenant (`StoreList`), filters them by `can_read` and cuts. A page is a set of
positions, and a cut is what is among the first so many and not among the fewer
before (`FirstOf`). `SaveTask` puts a record in place where the id is in use, by
whomever. `PostgresTaskStore` is no second case: it always falls back to this
store. `ListsRight` is `RecentShown` (the first page shows a task exactly when its
reader may see it and fewer than a page of tasks of its tenant and status came
after it) and `PagesWithinFirst` (later pages show nothing else). Which is to say
that the offset does not page (section 8).

`AuditQuery`: entries are appended late or torn, and a line is known by its day and
number. Two loggers write the folder, one with zones in its times and one without;
every query compares with a time that has a zone, which raises for the others, and
the line is skipped (`Since`). A line that is cut inside a character and written on
makes the file undecodable from the decoder's block on (`legible`); cut between
two characters it is skipped alone. (A line cut just before its newline is torn to
the model, as the next entry is written behind it; if the file ends there, the code
would still read it.) The query of the disk picks the files of the days asked for
by their names and keeps the first lines up to its limit. The properties compare
the two query paths and the alert rules with what can be read: `QueriesExact` is
`AlertsExact`, `UsersFound`, `DiskQueryFull` and `TornLinesHideOne`.

### ConfigLayers, CustomAgents

`ConfigLayers`: a value comes from the first of cache, environment, secret store
and the tenant's file that has the key. `given` and `persisted` are history.
`ValuesAnswered` is `TenantsConfigured`, `PersistedAnswered` and
`SubscribersKnow`.

`CustomAgents`: each change has a number; `Upload` and `Delete` change memory and
then the file, which may fail or tear; `Restart` reads the files, `LoadFolder` a
folder of definitions. `DefinitionsKept` is `AnsweredIsKept`, `NothingComesBack`
and `RunsTraced`.

### MCServices, MCStores, MCQueries

These three instantiate the modules that share no state. A variable `component`,
chosen at the start, says which of them moves; the others keep their initial
state, one of them where there are several (`Parked`). So the state spaces add up
and every behaviour of every module is in the run. `MCServices` has the modules
that answer or end something, with their fairness, and the Redis lock where commands
are prompt and Redis answers. `MCStores` has those that keep state and `MCQueries`
those that answer questions about it, with the in-process lock; of these only safety
is asked. The task store of `MCStores` is on one loop, with an id that every submission
may name again.

## 4 The runs

| Run | Question | Answer |
|---|---|---|
| `task_collaboration` | On one loop, with claims, handoffs, submissions and runs interleaved: are finished tasks, answers and events right, does the store implement the board, and do accepted tasks finish? | yes |
| `task_preempt` | With gRPC threads that preempt handlers anywhere: do the versions users see on a timeline still rise? | yes |
| `task_threads` | Does a task accepted by the gRPC server finish? | **no** |
| `audit_reorder` | Are the files of the audit log in chronological order? | **no** |
| `redis_lock` | If nothing is prompt and Redis comes and goes: does the key pass on only through free, and do abandoned locks end? | yes |
| `execution` | With shared task ids, crashes, failed saves and offers: are client, subscribers and graph told one verdict, and is no progress left running whose last save worked? | yes |
| `execution_progress` | With the resolver, a disk that raises and saves that fail in silence: are calls bounded, is progress right, does every run end? | yes |
| `services` | Audit log, model calls and streams, backup, webhook, resolver, request pipeline and event buses: do they keep their promises under failures, cancellations and interleavings, and does what they begin end? And does the Redis lock have one holder, if commands are prompt and Redis answers? | yes |
| `stores` | The task store with reused ids: do owners change with the whole record only? Quotas, rate limits, graph, stores and migration, keys, custom agents and configuration: do related pieces of state stay in agreement under races, crashes and failed writes? | yes |
| `queries` | Do the task list, the audit queries and the graph queries answer what they should, and has an in-process lock one holder at a time? | yes |
| `graph_restart` | Does a server that starts serve the graph the previous one saved? | **no** |
| `backup_restore` | Does an archive nothing happened to pass its verification? | **no** |

`TypeOK` is proved where there are proofs (section 7) and not part of a run, nor is
`TerminalIsFinal`, which is proved and which `ImplementsBoard` implies. Some modules
state a sentence of the code or its documents that the code does not keep
(`OwnerNeverChanges`, `OwnershipVerified`, `AcquireAtomic`, `FinalStatusPolled`,
`FlushedInTime`, `PagesDiffer`, `DeletionsAlert`, `FieldsOrderRows`, `RollbackRestores`): section 8 says
how TLC refutes them.

Each property of a passing run has a mutant in `PROJECT.json`: a change of one
definition, as a plausible bug would make it, under which TLC finds the
property violated. The operators of the mutants stand before the definitions
they vary and are marked `Mutant:`.

## 5 Bounds

* Tasks: two users, two ids, two requests and one gRPC call at a time, two
  events on the timeline. Two requests are what a conflict takes; two events a
  claim and a handoff, or two claims. `SentVersions` lets clients send any
  version in reach. `MaxTimeline` only stops new changes from being begun; those
  under way are finished, so that liveness is not cut off. In `task_preempt` and
  `stores` there is one id, since threads, and a second submission, interfere on a
  record.
* Audit: a queue and batches of two, three entries, two ticks a day, two days. The
  queue overflows, a batch spans midnight, a batch is partial, and a caller's
  `flush` meets the timer's.
* In-process locks: three coroutines with holders of their own, two resources,
  lifetimes of one and two ticks, four ticks: enough for a lease to lapse, pass
  on, and lapse again while the first body still runs.
* Redis: three clients in two processes, so that a fallback is shared by two and
  not by the third. The model is finite without further bounds.
* Execution: up to three requests, two of which share an id; up to two retries,
  so that the SELF path is open at the first attempts and closed at the last.
* Quotas: three tasks of two users in one department, two of them between check
  and start at a time, limits of one running task each, two days. Two racing
  tasks exceed a limit, the third waits, and a task spans midnight.
* Rate limits: two requests at a time on one log, two scopes of different limits
  that share the user's key, a window of one tick, two rounds of WATCH: one
  conflict that is repaired and one that is not. In Redis replicas share the one
  log, so two callers of one replica race like two replicas.
* Router: one tool turn, one retry of the router and one of the library, two tools
  in an answer, two calls in a row (the context variable outlives the first), four
  messages of which two are dropped.
  Stream: two tool calls and five events, so that calls nest and interleave.
* Backup: all three kinds of storage, two components, a day of retention, one
  write during the copy, one fault and one damaged archive. Tasks are left out,
  because no archive with tasks verifies (`backup_restore`).
* Webhook: two deliveries and a memory of one id, so that one drops the other;
  three sends and two restarts.
* Resolver: two of three agents failing at once, two tries.
* Pipeline: two requests of four kinds, three settings that together switch every
  layer on and off, a bucket of one token, three ticks (longer than the window and
  the cleanup interval).
* Event buses: three subscribers and one publication: one that is called, one that
  leaves, one behind it.
* Graph: one task executed twice under its id, a crash or failed write, two starts,
  one removal. Queries: four nodes and three links (a path with a detour), two
  values of the field, limits of one and two rows, a path that gives up beyond two
  visited nodes. Stores: two nodes with a link each way, one fault, two
  migrations. Data migration: three nodes in batches of two, three runs.
* Keys: two replicas and three generations, so that a rotation follows a rotation;
  tokens live two ticks.
* Custom agents: two tenants with an agent of the same name, a folder with an
  invalid file between two versions, five changes of which two fail.
* Task list: a user id that is in two tenants, an administrator of a tenant and one
  of the platform, a group and a project; pages of two and three tasks, one update:
  the third task pushes another off the page, and an offset goes past what it shows.
  Audit queries: a day of two ticks, an entry late by one, three entries, one of them
  torn, a limit of two.
  Configuration: two tenants, two values, four writes.

## 6 Fairness

* `TaskCollaboration!Fairness`: the event loop serves ready coroutines in turn,
  so every request and every run is strongly fair (another segment disables it
  again and again, but the queue of the loop is first in, first out), and a call
  of a model returns or raises; the code sets no limit of its own, the client
  library of the model does.
* `AuditLog!FairSpec`: the timer fires again after each interval and threads
  finish or fail. Nobody has to call `flush`, `close` or `log`.
* `RedisLock!FairSpec`: Redis answers commands, bodies end, and a key whose
  time has come expires. Expiry is strongly fair because acquiring and crashing
  clients do not stop time; only the holder's own commands prolong a key, apart
  from at most one late EXPIRE per client.
* `AgentExecution!FairSpec`: calls of models, peers and the CEO agent come back.
  `execute` sets no time limit itself, so this is an assumption about them.
  Nothing is assumed about crashes and offers.
* `MCServices!ServicesFairness` puts together what these modules state of
  themselves: timer and writers of the audit log as above; `RouterStep` and
  `StreamStep`, since requests to a model return or raise (the client library has
  a time limit) and pauses end; `BackupRun` and `NextDay`, since a run's steps are
  local commands and the scheduler's sleep ends; `StartReview` and `RunReview` of
  each delivery, background tasks of a loop that serves all in turn;
  `ResolverStep` of each agent and `RequestStep` of each request for the same
  reason, a request's client either sending the rest of the body or being gone;
  `Dispatch` of each publication, since handlers return. Nothing is assumed about
  clients, operators, faults, restarts, subscribers, writers and cancellations.
* `MCStores` and `MCQueries` assume no fairness and state no liveness.

## 7 Proofs

All proofs are checked by TLAPS and hold for every value of the constants that
satisfies the named assumption of the module and the hypotheses given here.

| Theorem | Statement | Hypotheses |
|---|---|---|
| `TaskCollaborationProofs!Typing` | types of all variables | none |
| `TaskCollaborationProofs!Ownership` | `OwnersReplacedWhole`: owners change with the whole record only, by a submission under its id | none |
| `TaskCollaborationProofs!Finality` | finished tasks stay as they are | `OneLoop` |
| `TaskCollaborationProofs!Answers` | a background run that gRPC has started records what the model answered | `OneLoop` |
| `TaskCollaborationProofs!Refinement` | the store implements `TaskBoard` | `OneLoop` |
| `TaskCollaborationProofs!VersionsRise` | `TimelineVersionsRise`, under preemption too | `~MayReuseId` |
| `TaskCollaborationProofs!Replays` | `TimelineReplays` | `OneLoop` |
| `LimitProofs!Typing` | types of `ResourceLock` | none |
| `LimitProofs!Leases` | leases of one lock do not overlap | `OwnHolders` |
| `LimitProofs!Refinement` | unexpired locks implement `ExclusiveLock` | none |
| `LimitProofs!AdmissionSoundHolds` | `AdmissionSound` of `Quota` | no agent is named like a user |
| `LimitProofs!WindowsBoundedHolds` | `WindowsBounded` of `RateLimit` | none |
| `RequestProofs!Exclusion` | one holder at a time | `Prompt`, `Reachable` |
| `RequestProofs!KeyImplementsLock` | the key implements `ExclusiveLock` | none |
| `AgentExecutionProofs!Typing` | types | none |
| `AgentExecutionProofs!Budget` | calls stay within the budget | none |
| `AgentExecutionProofs!ProgressIsRight` | progress tells the answer | `OwnIds` |
| `AgentExecutionProofs!NobodyStuck` | no task says running once its requests are answered | `~DiskRaises` |
| `AgentExecutionProofs!VerdictIsTold` | subscribers and graph are told what the client is told, once | `~DiskRaises`, `~Escalating` |
| `ModelCallProofs!ResolverSound` | `ResolutionSound` of `Resolver` | none |
| `ModelCallProofs!CallsSoundHolds` | `CallsSound` of `LLMRouter` | none |
| `ModelCallProofs!StreamWellFormedHolds` | `StreamWellFormed` of `LLMStream` | none |
| `RequestProofs!RequestsApartHolds` | `RequestsApart` of `RequestPipeline` | none |
| `RequestProofs!BucketBoundedHolds` | `BucketBounded` of `RequestPipeline` | none |
| `RequestProofs!EachHeardOnceHolds` | `EachHeardOnce` of `EventBus` | none |
| `RequestProofs!OneReviewPerMemoryHolds` | `OneReviewPerMemory` of `Webhook` | none |
| `RecordProofs!EachInOnePlaceHolds` | `EachInOnePlace` of `AuditLog` | none |
| `RecordProofs!NewestKeptHolds` | `NewestKept` of `AuditLog` | none |
| `RecordProofs!BackupFaithful` | `ArchivesFaithful` of `Backup` | none |
| `RecordProofs!BackupKept` | `WholeArchiveStays` of `Backup` | none |
| `StateProofs!ConfigAnswers` | `ValuesAnswered` of `ConfigLayers` | none |
| `StateProofs!CustomKept` | `DefinitionsKept` of `CustomAgents` | none |
| `StateProofs!KeysHonouredHolds` | `KeysHonoured` of `KeyRotation` | `KidPolicy = "renamed"` |
| `StateProofs!ListsRightHolds` | `ListsRight` of `TaskListing` | none |
| `StateProofs!QueriesExactHolds` | `QueriesExact` of `AuditQuery` | none |
| `StateProofs!AnswersExactHolds` | `AnswersExact` of `GraphQueries` | none |
| `GraphProofs!GraphSoundHolds` | `GraphSound` of `MemoryGraph` | none |
| `GraphProofs!StoresAgreeHolds` | `StoresAgree` of `GraphStorage` | none |
| `GraphProofs!RunsConvergeHolds` | `RunsConverge` of `DataMigration` | none |

The hypotheses are where the code is right, and TLC shows that they are needed:
`OneLoop` (no gRPC threads and no reused ids), `~MayReuseId` (no submission names
an id in use), `OwnHolders` (holders are not
shared by coroutines), `Prompt` and `Reachable` (see above), `OwnIds` (one
request per task id), `~DiskRaises` (no store raises while an execution records)
and `~Escalating` (no resolver answers after the failure was told). `KidPolicy =
"renamed"` means that the operator gives every key a kid of its own; with the other
two policies section 8 has the counterexamples. The store of quotas keeps users and
agents in one table by name (a call without a user is charged to its agent): an
agent named like a user would pay into the user's account but not into the user's
department, so the names have to differ.

The arguments:

* **Tasks.** Typing needs that whoever is at work on a task works on one that is
  in the store (`Grounded`). The rest follows from `InHand`: whoever is inside a
  segment holds the loop (`LoopHeld`), so what was checked at its beginning is
  still true at its write (`PendingInHand`, and `AnswerInHand` for the versions),
  and an id that a submission runs under is nobody else's (`IdInHand`).
  `StoreStep` sums up what any step does to the store; the theorems on finished
  tasks and answers are corollaries of it. The one on owners needs typing only,
  and so holds with threads and with reused ids: no update names the owner
  (`OwnerUntouched`). For the refinement, `WhoUpdates` shows that an update
  between write and stamp is the only one on its record, so the mapped version is
  right.

  The timeline comes in two parts. With threads, requests still exclude each other on
  the loop (`LoopKept`), and that is enough for the versions: no event has a version
  above its record's, and a request that has stamped and not reported has one that
  no event has (`Behind`, `RiseInv`). On one loop the events are the history of the
  record (`ReplayInv`): the moves of a task are numbered by their versions and each
  starts where the one before ended (`Numbered`), and the last of them tells the
  assignee and version of the record, except while an update is under way
  (`History`). Replaying needs no induction, because the assignee after so many
  events is that of the greatest move among them.
* **ResourceLock.** `LeaseExclusive` is not inductive: that two bodies do not
  overlap follows from where the lock is. `LeaseCovered` says that a body within
  its lease has the record in its holder's name, for at least as long.
* **RedisLock.** `IInv` adds that `acquired` and the program counters agree
  (`UserKnown`), that the key names whoever has acquired (`KeyOfUser`), and that
  between GET and EXPIRE of an acquire the key stays (`KeyOfExtender`). The
  refinement needs none of this: no command overwrites a key that is there.
* **AgentExecution.** `RunInv` says what a request has spent at each place it
  can be (`Spent`): the calls of the retry loop, and after them at most one of
  the SELF path, only before the third attempt, and one of the peers.
  `Tracked` says that the tracker's copy hides the file while a request is under
  way, and that both agree with the answer afterwards, unless the last write of the
  file is among the `lost` ones.

  `Followed` says for every task whose progress is running that one of its
  requests is still under way; because a save that raises would end a request
  without it, the disk has to be sound. `Verdict` says for each place what
  has been published and what the node holds, so that the answer agrees.
* **ConfigLayers.** The property speaks of the next answer, which a layer below the
  cache gives once the cache is cleared. `ConfigInv` therefore says of each layer
  by itself that it holds nothing of another tenant (`LayersOwn`), that the secret
  store holds what was persisted (`PersistedBelow`) and that what was told is
  cached (`ToldIsCached`).
* **Backup.** `BackupInv` follows a copy: what is live was written (`Written`), a
  job's copy of a database is of one instant (`JobAtOnce`), an archive has the sums
  of what was copied (`Archived`), also while its job is still at it
  (`JobArchived`). `WholeArchiveStays` follows because retention removes by age
  only after the new archive is whole.
* **Resolver.** `AgentInv` says for each place where a resolution waits what has
  been published and rerun before, that a dangerous action gets no further than its
  request to a person, and that nobody is among those it asks. The lemma on the
  evaluator holds for every class of error. `OneAtATime` reduces a step to the one
  agent that takes it.
* **CustomAgents.** `UpToDate` says that memory and file are no older than the last
  change answered with success. Restarts read the files, so both are needed; that
  numbers only grow orders them. `Traced` counts runs against entries.

* **Quota.** The limits are inductive when the tasks between `check_quota` and
  `start_task` are counted as if they ran (`Racers`): a task is admitted only below
  its limit, with fewer others between the calls than may race. `Counted` and
  `Queued` are the properties themselves, `LevelsAgree` compares totals. A total is
  the number of its units (`Amounts`), so that adding to one summand is a fact about
  finite sets and needs no induction over the users.
* **RateLimit.** `Mirrored` says that in the window the log a limiter reads is the
  history of what it admitted, and that the stores of other backends are empty.
  `Bounded` adds to what Redis holds the checks that have counted and not yet
  admitted (`Pending`): under WATCH each of them saw room for itself only. When time
  passes nobody is in between, and a window only gets emptier (`SumShifted`).
* **LLMRouter.** `RouterInv` counts requests without an answer by turn and attempt
  (`LostBounded`) and says that only a turn that is not the last leaves results to
  show (`ToolsSeen`). `Truncate` walks from the newest message back; where it stops
  is resolved without induction over the messages, as the least position from which
  everything fits (`LoopStops`, `LeastOf`), and sums over suffixes come from their
  one-step equation (`TruncateKeeps`).
* **LLMStream.** The frames only grow. `Brackets` says which tools are open: started,
  not ended, and no end before their last input. `EndLast` says that whatever ends a
  stream is last. The tools left open at the end are closed in one step, as a list of
  the set that has each of them once (`Listed`).
* **RequestPipeline.** `FlightInv` says what a request carries at each place: no
  status before it is answered (`Unanswered`), the parts of a body with it or still
  to come (`PartsKept`). Which layers lie around the one that answers is settled once
  (`LayersAround`). For the bucket, `Flows` says of every stretch of time that what
  was admitted in it and what the bucket holds now are no more than a full bucket and
  what flowed back, so that a bucket dropped and built again full has had the time
  to fill.
* **EventBus.** What a publication has called lies behind its index, and whoever is
  subscribed and was from the beginning lies ahead of it or has been called
  (`HeardBehind`, `SteadyAhead`). Taking somebody off a list moves others forwards
  only. No list has anybody twice (`ListsKept`), because `subscribe` is not called
  twice.
* **Webhook.** A delivery that was started or is past both checks is paid for by the
  memory: by the place it has there or by one it lost (`PaidByMemory`).
* **AuditLog.** No list has an entry twice (`Listed`) and each entry is in one place
  (`Placed`), which every step shows by telling where each entry is afterwards. The
  entries behind one in the queue are newer (`Queued`), so what the full queue drops
  is a queue's length behind. Selecting a day's entries from a batch is written by
  positions (`Positions`), so that what it keeps follows from counting them.
* **MemoryGraph.** `GraphInv` says that the links in memory are mirrored
  (`MirroredIn`) and follows the steps that recordings have still to do: those of a
  recording come in order (`TasksInOrder`), the save at shutdown runs beside them and
  touches files only (`SavesApart`). So a node or link is on the disk or its writing
  is still to come, unless a crash or a failed write is on record (`RecordsKept`), and
  a torn file has its fault (`TornAccounted`).
* **DataMigration.** A node's id begins with its tenant, and a copy made within a
  tenant is in another group than the run selects (`NodesFit`). So a run neither
  selects its copies again nor puts them over nodes it selects (`SelectionStays`).
  Batches lose nothing at their ends (`BatchesCover`), whatever the order
  (`CopiedAll`). A repeated run therefore adds what had failed and nothing else
  (`FitConverges`).
* **TaskListing.** The properties follow from typing, by counting. The store answers
  with the newest so many; the first page cuts the oldest so many of those that the
  reader may see, which is all of them (`FirstPage`). So a task is on it exactly when
  the reader may see it and fewer than a page are newer (`RecentSaid`); a later page is
  what is left above the offset among more of the store's, and what it shows has too
  few above it to be off the first (`WithinSaid`). `FirstOf` has as many as were asked
  for or all there are (`FirstOfCount`), and the place in an order rises along it
  (`RankRises`).
* **AuditQuery.** A file holds entries of its day only (`FilesTyped`), and the entries
  kept are no more than its lines, an unended line not counted (`LinesAccounted`):
  an entry that is written behind a torn one makes no line of its own. Where a day's
  file can be decoded to its end, the query of the disk finds all its readable lines
  (`FoundAll`); the others are the torn ones, so each hides one entry at most
  (`TornSaid`). The queries are counts over places again.
* **GraphQueries.** `SearchSound`: the queue goes level by level (`QueueByLevel`);
  what was visited was reached at its level and is expanded, unless it waits or lies
  at the last depth (`Reached`). The nodes within a depth, which `Within` defines by
  recursion, are the ends of walks of that length (`WithinWalked`), and a shortest
  walk has no more steps than there are nodes (`LevelBounded`, by the pigeonhole
  principle), so `Distance` finds it. For the rows, the order of a statement
  together with the candidates' places is a strict total order (`RowsOrdered`), so
  what the limit keeps is the top (`TopKept`).
* **GraphStorage.** A link whose end cannot be read needs files, and the node being
  written or a crash (`Anchored`). `Copied` relates target and source by what the
  migration has still to do; a writer ends its `quiet`.
* **KeyRotation.** In each phase a replica runs with settings of this phase or the
  one before, and knows every key that may sign (`Running`). A key is not taken off
  before the tokens it signed have run out (`Leaving`), which is what the waiting in
  the rollout is for.

All invariants the passing runs check are proved, and so are the safety properties
of steps (`ImplementsBoard`, `OwnersReplacedWhole`, `AnswerIsRecorded`, the two
`ImplementsLock`, and `WholeArchiveStays`). Only model-checked are the liveness properties
(`AcceptedTaskFinishes`, `EveryEntryFlushed`, `AbandonedLockEnds`, `EveryRunEnds`,
`WorkEnds`), since fairness is about ENABLED, which the prover does not reach. What
a recursive definition computes for every input would need an induction whose step is
an operator, which none of the provers can take. Where a definition over data occurs
in the proofs above, a least counterexample among the numbers, a greatest position
or a count of positions replaces the induction.

## 8 Where code and documentation disagree

Shown by a run:

1. `task_threads`: the gRPC server answers through `asyncio.run`, which cancels
   the run it leaves behind; a run that waits for the model leaves its task
   pending for good (`grpc/server.py:74`, against the comment at
   `grpc/handlers.py:181`).
2. `audit_reorder`: `close` cancels the timer but not the thread with its last
   batch; the final batch may reach the file first (`core/audit_logger.py:366`,
   against the docstring at line 419).
3. `graph_restart`: the lifespan throws away what `load_graph` returns, so a server
   starts with an empty graph (`api/server.py:80`, against its docstring at 78).
4. `backup_restore`: the manifest has the SHA-256 of a one-file component, restore
   computes a checksum over path and content; an archive with tasks is refused
   whenever it is verified (`core/backup/sources.py:205`, against the comment at
   213). Backups include tasks by default; the tests switch them off.

Seen while modelling. Those marked † can be reproduced with the modules by
changing a constant or by stating the sentence as a property.

Tasks

* † With `Threaded`, a claim can change a task that was finished after its check
  (`storage/task_store.py:176`): `TerminalIsFinal` fails.
* † With `MayReuseId`, POST replaces a record and its owner
  (`api/routes/tasks.py:246`; `storage/task_store.py:45` and `docs/PRODUCTION.md:625`
  call the owner immutable): `OwnerNeverChanges` fails.
* A gRPC run writes no audit event, so the timeline of its task does not show
  the end (`grpc/handlers.py:204`).
* † `InMemoryTaskStore.list` returns the newest `limit` records, oldest first
  (`storage/task_store.py:159`); with an offset the route asks for more of them and
  cuts from the front, so the pages repeat records and older ones are on none:
  `PagesDiffer` of `TaskListing` fails, though a comment at
  `tests/test_task_store_integration.py:124` says it (the assertions there compare
  lengths). Records are filtered after the limit, so a page of someone who may not
  read all of them is short (`api/routes/tasks.py:318`), and `total` is the length
  of the page. A record that is submitted again keeps its old place. A `ListTasks`
  of gRPC with limit 0 returns everything.
* `PostgresTaskStore` never has a connection and always falls back to memory.
* `platform_admin` lists only the own tenant; the role `admin` that
  `_check_write_access` tests for is not among the roles.

Audit

* † An entry that cannot be serialized raises outside the `try` of `_write_batch`,
  nothing in `_periodic_flush` catches it, and the timer task ends; later entries
  stay in the queue (`core/audit_logger.py:316`, against the docstring of the class
  at line 241): `FlushedInTime` fails.
* † `close` flushes one batch; what is left in the queue stays there
  (`core/audit_logger.py:371`, docstring at 363), and a full batch waits for the
  timer although the configuration says otherwise (`core/audit_logger.py:311`
  and 229).
* Entries of a query are said to be newest first; the files are, the lines within a
  file are not. `query_by_user` and the custom query apply the limit before their
  filter, and the limit of 10 000 drops the newest entries of a day.
* A torn line swallows the entry written after it (`TornLinesHideOne` says: no
  more than that one). A line cut inside a character makes the iteration over the
  file raise, outside the `try` for one line: the rest of that day is lost to every
  query (`core/audit/query.py:42`, `core/audit_logger.py:443`).
* † The batch logger writes times without a zone and the queries compare with times
  that have one; the TypeError is taken for a bad line and skipped
  (`core/audit/query.py:48`). So none of its entries raises an alert:
  `DeletionsAlert` fails. Those of the other logger fire the rules on deletions,
  configuration and cross-tenant access at every evaluation until the file is
  purged. The purge goes by the day in the file's name.

Locks

* † The key may expire and change hands between GET and DELETE of a release, or GET
  and EXPIRE of a heartbeat (`storage/redis_backend.py:91` and 106, against the
  docstring at line 33): with `Prompt = FALSE`, `OwnershipVerified` fails.
* † Two coroutines with the same holder id share a lock (`concurrency/lock.py:75`).
* † A Redis acquire by the holder itself returns True though the key may have
  expired before EXPIRE (`storage/redis_backend.py:80`, against line 32): with
  `Prompt = FALSE`, `AcquireAtomic` fails. A lock taken in the
  fallback does not exclude one in Redis (line 66): `MutualExclusion` fails
  without `Prompt` or `Reachable`.

Execution and resolver

* † `CheckpointStore.save` returns False where a write fails, and nobody looks
  (`core/failure_ux.py:304`): `finish` drops its copy, and the next poll reads the
  file that still says running, although the comment at
  `core/checkpoint_tracker.py:115` promises the final status. With `SaveFails`,
  `FinalStatusPolled` fails.
* † The agent deletes the file of a finished task, then the tracker writes its own
  under the same name, so `list_active` lists it for good
  (`core/checkpoint_tracker.py:114`, against `core/failure_ux.py:335`).
* † With several requests for one id, `finish` can leave the step failed
  (`core/checkpoint_tracker.py:108`), and, if the disk raises, the task running:
  `NeverStuck` fails with `DiskRaises` and a shared id.
* When the resolver succeeds, the node of the task stays failed
  (`core/agent.py:434`) and TASK_FAILED precedes TASK_COMPLETED; a failed
  checkpoint has nothing pending, so nothing to resume (`core/failure_ux.py:259`).
  `accept_offer` looks at no status (`core/notify.py:252`).
* A successful AutoGen chat is thrown away: its conversion uses names that are never
  imported, the NameError is caught, and the mixin's discussion runs too
  (`core/resolver.py:640`). † With AutoGen, adapters share `_peer_registry`, and an
  agent may ask itself (docstring at 565: "except self"): `AsksOthers` without
  `~autogen` fails.
* "Retry do_work() (up to 2 times" is one retry; a retry whose failure is evaluated
  as a person's or again as its own is escalated to the CEO agent. A pending
  request to a person raises, and nothing consumes HUMAN_REQUESTED. Every
  `CEOAgent()` subscribes another handler (`agents/ceo_agent.py:134`).

Models and costs

* A WebSocket stream passes `settings.llm`, which has no `model`, so only the mock
  provider streams; so does a `StreamLLM` of gRPC that names no model, whose
  client gets no frame at all (`grpc/handlers.py:279`). Streamed calls are not
  recorded as costs, and the router names no user. The OpenAI path counts earlier
  turns again (`core/llm_router.py:612`), which is why `NeverUndercharged` is an
  inequality. `StreamLLM` of gRPC collects the whole answer before it yields.
* `_record_cost` never passes the cached tokens that the answer's `cost_estimate`
  counts (`core/llm_router.py:670` and 516), and swallows what the tracker raises
  (679): both are `untold`.
* `AsyncOpenAI` is built without `max_retries=0` (`core/llm_router.py:271`), so the
  library's own retries come on top of those the router counts.
* Alerts on the cost of a task are never suppressed (`core/cost_tracker.py`).
* Scopes share the key of a user, so Retry-After can be too short, and a request
  its address's limit refuses has used up a place of its user
  (`core/rate_limit/registry.py:136`, 145).

Keys

* † `docs/PRODUCTION.md` 11.6 never changes AUTH_SIGNING_KID: with
  `KidPolicy = "kept"`, `FreshAccepted` fails (comment at `core/auth/jwt.py:152`);
  without kids (`"unset"`) `TokensHonoured` fails, since entries of AUTH_SECRETS are
  named by position and prepending one renames the others. The documented rotation
  in one step makes replicas refuse each other's tokens during the rollout, and a
  switch from HS256 to RS256 refuses old tokens at once.
* `/api/auth/token` takes any lifetime; zero means the default.

Backup

* The server never starts `BackupScheduler`. An hourly cron expression runs daily.
* Custom agents are archived as `custom-agents`: they are never verified, and
  `--components custom_agents` restores nothing. SQL graphs always fail the
  verification. † The copy of a JSON graph is not of one instant, although
  `core/backup/sources.py:4` says so: `PointInTime` is stated of databases. A failed
  `pg_dump` archives a placeholder as a success. A half-written archive matches
  `backup-*.tar.gz`. A restore leaves existing files alone. Ids have a resolution of
  a second. `docs/BACKUP.md` lists files that do not exist.

Graph

* Links are on the disk twice; `record_*` ignores that `link()` returned False; the
  shutdown's `save_graph` may overwrite a newer content of a thread. An archived node
  keeps its file, so loading brings it back. `graph cleanup` of the command line
  works on an empty graph of its own. A node whose type changes stays in the old
  type's index. `path` ignores `max_depth` and raises KeyError through a dangling
  link. DESC puts None first;
  the builder joins conditions with AND, which the grammar lacks.
* † ORDER BY looks up the field's name among the keys of a row
  (`core/dataview.py:754`), and a column's key is its alias or the name without its
  prefix: a selected field that has another key, as one that is not selected, sorts
  nothing, and LIMIT keeps any rows. `FieldsOrderRows` fails (`docs/DATAVIEW.md:34`).
* `--from-path` and `--to-path` are ignored; the migration of stores verifies counts
  only and skips unreadable files. `JSONBackend` says "temp + rename" and writes in
  place. `list_links` in both directions with a type has a precedence error in SQL.
* † The rollback of the data migration deletes nothing (`migration/engine.py:188`:
  "deletes target copies"): `RollbackRestores` fails, and its checksums are not
  compared. Links are not copied. † Within one tenant without a source group a run
  selects its own copies again, so `RunsConverge` is not asked of it.

Webhook and events

* † The id of a delivery is remembered before its signature is checked
  (`api/routes/github_webhook.py:117`): a delivery refused with 400 or 401 and sent
  again is answered "duplicate" and never reviewed. Reviews under way are lost on a
  restart, and every process has a cache of its own.
* † `EventHandler.unsubscribe` removes in place (`core/agent.py:100`), so a
  publication that waits for a handler skips the next one; `clear` cuts publications
  short on both buses. `SteadyHeard` says who is sure to hear.

Requests and lifespan

* `server.py` says "first added = outermost"; Starlette has it the other way. Answers
  of the outer layers (301, 429, 503, 400, 413) carry no request id and no security
  headers and are in no metric; an unhandled exception is counted twice; the
  limiter runs before the authentication, so limits per user never apply. A client
  that leaves while its body is drained leaves a truncated body that is passed on as
  whole, and the route may answer 200 to it (`core/security_middleware.py:265`;
  `BodyWhole` says exactly where). The scan is
  skipped beyond 100 000 characters or after two seconds.
* The shutdown waits 25 s for the tasks that were in flight when it began, then saves
  the graph.

Configuration and custom agents

* The environment's key is said to have a tenant prefix (`core/config/manager.py:149`)
  and has none, so environment and persisted values are shared by all tenants. A file
  edited under a cached key is seen after `clear_cache` only; a value set without
  persist is lost by it.
* An upload changes memory before the disk: one that is answered 500 is served until
  the restart. A torn file loses the previous definition.

## 9 Not modelled

* Pools and caches (`core/pools.py`, `core/cache.py`), `RedisQuotaStore`, the
  `GroupIsolationMixin`, the RBAC matrix and the timeout monitor
  (`core/failure_ux.py`): no application code uses or starts them.
* Progress, metrics, the WebSocket feed of tasks, and the graph routes beyond their
  searches: they read the state of other components and change nothing.
* The text of prompts and answers, tokens and grammar of queries, embeddings and
  scores, schema validation, time helpers, code generation: data with little
  control.
* Tools and the MCP client, onboarding and the command line: input and output with no
  state of their own.
* Cryptography, TLS and CORS, HTTP itself, the state-graph library that
  `core/graph.py` wires agents into: libraries and configuration.
* Writing, deleting and sharing under access control (`can_write`, `can_delete`,
  `share_with_user`); reading is part of `TaskListing`.
* The Postgres task store beyond its fallback, and what SQL databases
  do inside a transaction.
