# TLA+ specifications of ContextAgent

This directory models the concurrent and failure-prone parts of ContextAgent in
TLA+, checks them with TLC on small instances and proves the central properties
with TLAPS for every instance. `PROJECT.json` is the machine-readable index: the
components, the runs, the mutants of the runs, the map from every definition to
the source lines it models, the findings, the hazards and the theorems.

Paths below are relative to `src/context_agent/` unless they start with `docs/`
or `plugins/`, which are relative to `src/`.

## 1. Inventory

ContextAgent is a Python service (FastAPI, asyncio) that gathers context for an
agent from several memories, filters and compresses it and returns it. All the
code of one server runs on **one event loop**: two coroutines interleave only at
an `await` that really suspends. That makes every suspension point a scheduling
point and everything between two of them one atomic step. Several servers may
share Redis, the object storage and the long-term memory (LTM); nothing else is
shared.

| Component | State | Operations | What is hard | What makes it correct |
|---|---|---|---|---|
| `core/memory/async_processor.py` AsyncMemoryProcessor | a bounded queue, the list of workers, `_running`, the subscribers | `start`, `stop`, `enqueue`, `subscribe`, the worker loop | enqueues during `stop()`, sentinels on a full queue, LTM failures, subscribers that join during a notification | no task lost or taken twice; `stop()` returns and has finished what came before it; one truthful event per task and subscriber |
| `core/memory/tiered_router.py` TieredMemoryRouter | the hot entry of a scope in Redis or in a dict | `search`, `warm_cache`, `record_usage` | one latency budget for tiers with timeouts of their own; refreshes of two workers | a search stays in its budget and loses nothing a tier gave; a refresh brings nothing old back |
| `core/memory/working_memory.py` WorkingMemoryManager | two hashes per session: notes and items | create, get, list, update, delete notes; write, list items; `clear_session`, `mark_used` | every operation is several Redis calls | the limit of notes; what is removed stays removed; an operation disturbs no other note or item |
| `core/memory/orchestrator.py` MemoryOrchestrator | none of its own | `ingest_messages`: writes to the working memory, then enqueues | the enqueue is refused after the writes; two calls in the same session | an answered call is kept once, a failed one reaches no LTM |
| `adapters/ltm_adapter.py` LTM adapter | the scopes it has configured | add, search, update, delete | the first call of a scope | every call runs with a configured scope |
| `core/context/version_manager.py` ContextVersionManager | objects in a bucket; per server an index and a fallback dict | create, restore, list, delete a version | a bucket that raises after it took effect; several servers; restarts | listed implies restorable; deleted implies gone |
| `orchestration/sub_agent_manager.py` SubAgentContextManager | the active tickets | `delegate`, `receive_result`, `get_active_tickets` | late and repeated results, expiry | an active ticket names a restorable version; the list of active tickets is exact |
| `core/context/jit_resolver.py` JITResolver | a resolution cache in Redis or a bounded dict | `resolve`, `resolve_batch`, `store_tool_result` | sources that change during a search; one dict for two kinds of entries | nothing is served longer than the cache's time to live; the dict is bounded |
| `orchestration/context_aggregator.py` ContextAggregator | none between calls | `aggregate`: parallel sources under one timeout, then merge, rank, cut | slow and failing sources | what is missing is named; the budget leaves out the least relevant |
| `orchestration/compression_router.py`, `strategy_scheduler.py`, `strategies/` Compression | the registry | choose strategies, try them in order | each may raise; the LLM may refuse | what is left out without an LLM is called degraded |
| `core/context/exposure_controller.py` Exposure control | none | filter a snapshot | the degraded sources of the snapshot it rebuilds | warnings survive the filter |
| `core/monitoring/` collector and alert engine | an unbounded queue, a batch; cooldowns | `emit`, `start`, `stop`, flush; `evaluate` | records behind the sentinel, batches | each record flushed once and in order; one alert per cooldown |
| `core/retrieval/` search coordinator, tool governor, task conditioning | statistics of tools | parallel search and fusion; tool selection | paths that fail or time out | the best of each path survives; reliable tools are preferred |
| `adapters/llm_adapter.py` LLM adapter | none | `complete` with retries | 4xx, 5xx, lost connections | at most `max_retries` + 1 attempts, then an answer or an error |
| `api/` router and handlers | none between requests; the service's router and cleanup list | sequences of the calls above; start, serve and exit | partial failure between the calls, of the start and of the exit | warnings name what was degraded; the processor never outlives its stores |
| `core/monitoring/runtime_health.py` | the openJiuwen configuration it read once | `GET /health` | dependencies that hang or change during a check | an overall ok is right |
| `core/context/health_checker.py` | none | `quick_check`, `check` | floats | - |
| `config/` | settings | what `openjiuwen.py` opens and registers | a bootstrap that fails half-way | no processor on half a memory |
| `plugins/` (TypeScript) | `_pendingItemIds` of the engine | assemble, afterTurn, compact, memory tools | requests that are lost, refused or given up | the service did all of a call or nothing in the LTM |
| `models/`, `utils/`, `core/multimodal/`, other adapters, `scripts/`, `examples/`, `tests/` | - | - | - | not modelled, see section 5 |

How they interact: `api/router.py` calls the aggregator, the exposure control,
the compression router and the version manager for a context request;
`ingest_messages` goes to MemoryOrchestrator, which writes to WorkingMemoryManager
and enqueues a task of AsyncMemoryProcessor; its workers call the LTM adapter and
then TieredMemoryRouter.warm_cache; `mark_used` calls TieredMemoryRouter.record_usage
and WorkingMemoryManager.mark_used; SubAgentContextManager calls
ContextVersionManager; the aggregator calls JITResolver and the working memory.
The plugins of OpenClaw reach all this over HTTP. `lifespan()` of
`api/http_handler.py` builds the router, starts the processor and closes both.

`PROJECT.json` lists every hazard at its line, with the property that would
notice it going wrong, or with the reason why there is none.

## 2. Modules

An arrow goes from a module to one that EXTENDS it; `(X_proofs)` is the module that
holds the theorems about it.

    MemoryTaskQueue            what the processor promises: a bounded FIFO queue
      ^ implemented by
    AsyncMemoryProcessor --> MemoryPipeline           (MemoryPipeline_proofs: both)

    WorkingMemory                                     (WorkingMemory_proofs)
    JITResolver                                       (JITResolver_proofs)

    ContextVersions --> SubAgentDelegation            (SubAgentDelegation_proofs: both)

    TaskConditioning --> ContextAggregator --+
                         Compression --------+--> ContextRequests

    MessageIngestion --> ContextService --> OpenClawPlugins
                                                      (ContextRequests_proofs: both)

    TieredSearch ---------------------+
    TaskConditioning --> SearchFusion-+--> Retrieval  (Retrieval_proofs)
    ToolSelection --------------------+

    MetricLog                  what the collector promises: once, and in order
      ^ implemented by
    AlertEngine --> Monitoring                        (Operations_proofs: these
    ServiceLifecycle --> RuntimeHealth                 three modules)

    SequenceFilters                                   (SequenceFilters_proofs)

SequenceFilters has what the models do to sequences: `Keep` (a filter), `First` (a slice
that may be longer than the list), `StableSort` (`sorted()`) and `Total` (a sum), as
recursive functions, because SelectSeq, SortSeq and the folds of the libraries are out of
the provers' reach. AsyncMemoryProcessor, JITResolver, TaskConditioning, Compression,
MessageIngestion, TieredSearch and ToolSelection, and what extends them, are built from
these, and SequenceFilters_proofs says what they return.

Each `MC*` module extends the module it is named after and defines the values a
`.cfg` cannot write (functions, lists of items, symmetry sets).

The conventions are the same everywhere. One action is the code between two
suspension points of one coroutine. A call of Redis, of the bucket, of the LTM, of
a source or of the LLM is a state in which the coroutine waits and one action for
each way in which it ends. Variables under "What happened, for the properties only"
are history: no guard reads them, except that ids, tasks and records are fresh. A
definition named `X_Something` that follows a comment "Mutant" is a plausible bug
of `X`; no specification uses it, the mutants of `PROJECT.json` put it in the place
of `X` to show that a property notices it. A constant marked BOUND limits the runs
and nothing in the code.

### AsyncMemoryProcessor, MemoryTaskQueue

`queue`, `running`, `workers`, `subscribers` are the fields `_queue`, `_running`,
`_workers`, `_subscribers`. `wpc[w]` is the `await` in which the worker coroutine
`w` is suspended: `get`, or one of the calls of `_process` (`check`, `write`,
`search`, `warm`) or of `_notify`. `cpc[c]` is the `await` in which a call of
`stop()` is suspended: `put` on a full queue, or `gather`. `stop()` puts as many
sentinels as there is room for at once (`PutSentinels`), because `put()` on a queue
that is not full does not suspend, and continues when a worker made room. `start()`
replaces nothing: the code extends the list `_workers`, and so does the model, so
that overlapping calls of `start()` and `stop()` behave as they do in the code.

MemoryTaskQueue is the contract: accept a task when there is room, dispatch the
oldest one while fewer than `Concurrency` are in flight, finish one. The mapping
drops the sentinels from the queue (`Keep`).

### MemoryPipeline

The same actions, each conjoined with what its call does to the LTM (`ltm`) or to
the entry of the hot tier (`hot`), plus `record_usage()` (`UsageRead`, `UsageWrite`)
and the expiry of the entry. A memory is reduced to the task that wrote it last.

The search of a refresh is two actions: `SearchReads` is the moment at which the LTM
is read, the end of the call comes later. It has an empty query, `top_k=20`, and the
adapter drops what scores below 0.3; no score says anything about an empty query, so
whatever the LTM holds may be in the answer or not (`Answer`), up to `TopK`.
`LeavesNoneOut` restricts this to an LTM that answers with all it has, which the
run `hot_two_workers` uses, so that what it shows does not rest on a memory left out.
With Redis `warm_cache()` suspends in `setex` (`SearchReturns`, then `WarmReturns` or
`WarmSwallows`). Without Redis it does not, and neither does it when there is nothing to
cache: the end of the search, the write of the entry and the way to the notification are
then one action (`SearchReturnsAndWarms`). `warm_cache()` writes nothing if it has nothing
to cache, and swallows what Redis raises; only memories of type VARIABLE are cached. A
call of the LTM that raises may have taken effect before (`WriteRaises`).

`record_usage()` is modelled for the entry of one scope and changes nothing but the
counts of the entry it writes back, so it is a write of what was read; in the process
it is one block, and not seen. `earlier`, `beside`, `replaced` and `outdated` are history:
which tasks were accepted before a task or in process beside it, which contents the LTM
no longer has, and which of them it no longer had when the write ended that a refresh
follows.

### WorkingMemory

One session. `notes` and `items` are the two hashes; `deadline` is the time to live
that `create_note()` puts on the **whole hash** of notes by EXPIRE. `pc[c]` names
the Redis call the coroutine waits for; the actions are named after operation and
call (`UpdateGet`, `UpdatePut`, `MarkItemPut`, ...). A Redis call that raises without an
effect ends the operation (`CallFails`); one that raises after it took effect is the step
of the call followed by a failure of the next one. Without Redis
(`UseRedis = FALSE`) no operation suspends, which `MayRun` says; the run uses Redis,
where more behaviours are possible. `shared`, chosen at the start, says whether clients use
the session at the same time or take turns, one operation after the other (`Sequential`).
The schemas of the contents are left out. `clashed` is history: the ids that two operations
were about at the same time (`Pending(c)`: what the operation of `c` is still about; a
`clear_session()` is about all of them).

### ContextVersions, SubAgentDelegation

Several servers share `stored`, the objects of the bucket; `index[s]` and
`fallback[s]` are `_local` and `_local_data` of the server `s` and are lost in
`Restart(s)`. A call of the bucket that raises may have taken effect, but has none
later: a request that reaches the bucket after the client gave it up is not
modelled. Whether there is a bucket (`useS3`) is chosen at the start.
SubAgentDelegation is the class: the handler of `/context/delegate` makes a new manager for
each request, whose tickets end with it, so that what is said of tickets concerns those who
keep a manager. It adds the tickets, named by the version that was created for them,
the clock and the results. `ExposureController.apply` does not suspend and changes
nothing there, so it is not seen.

### JITResolver

`cache` is the resolution cache and the store of tool results, which are one dict
when there is no Redis (`useRedis`, chosen at the start); it is kept in the order of
`created_at`, which is the order in which the overflow is removed. An expired entry
is dropped in `Tick`, since every read and every write of the code drops it first.
The contents of an entry are the number of a version of its source: `Change` makes a
new one, `store_tool_result()` numbers the tool results. Whether a locator names a
note or something that is searched (`notes`) is also chosen at the start: a failing
`get_note()` yields nothing, a failing search raises. A source is read at some point of the
call (`SearchReads`, `ToolReads`), and its answer arrives later (`AnswerReturns`), when the
source may have changed any number of times; then it is cached with a full time to live.
`began[c]` is when the call of `resolve()` began, and an entry keeps, for the property, how
long the call took that made it (`took`).

### TaskConditioning, ContextAggregator, Compression, ContextRequests

TaskConditioning holds the pure functions of `core/retrieval/task_conditioning.py`:
the score of an item for a task and a role, in hundredths. ContextAggregator is
`aggregate()`: `waiting` are the sources whose task has not ended, `answers` what
they ended with; a common timeout drops **all** of them. Filter, deduplication, order
and budget are operators from items to a snapshot. An item keeps what these look at:
source, score, length, memory type, category, level. Compression is the schedule
(`strategy_scheduler.py`), the strategies one after another, each with its truncation
and its use of the LLM, and the LLM adapter with its attempts (`llmCall`, `tries`).

ContextRequests composes them: one request from `step = "start"` to `"answered"` or
`"raised"`, with what `api/router.py` does in between for the kind of output asked
for: the exposure policy (`visible`), the quick check, the search, the saving of a
version, the compression and the fallback when it raises. The same module has the
compactions of `api/openclaw_handler.py` and the direct calls of the compression.

`RequestsAssumption` is what the handlers guarantee: budgets are greater than zero
(`gt=0` in `api/schemas.py:21` and `api/openclaw_schemas.py:91` and `:139`), a compaction
counts the messages it is given and nothing else (`job.used = job.total`), and of the
strategies the realtime one calls nothing that could fail, so that `Failing`, the
strategies a run lets raise, never has it. (A registry in which somebody replaced it by a
strategy that raises is outside the model: then the schedule may end with no output.)
`HoldingsAssumption` says that sources return items, `CompressionAssumption` that the
retries and the messages that are kept are numbers.

### MessageIngestion, ContextService, OpenClawPlugins

MessageIngestion is `ingest_messages()` and `mark_used()` over the working memory
(`notes`), the queue of the processor (`queue`) and the LTM (`stored`): a call is
suspended in each write. `memory` says how the router was built; the code
has a path for each. ContextService adds the handlers of `api/http_handler.py` and
`api/openclaw_handler.py`, OpenClawPlugins the clients: `calls[c].client` is the
state of the call in the plugin, `calls[c].stage` in the service, so that a call may
be lost on the way to either, refused, or given up after the timeout (`TimesOut`)
while the service goes on with it. `pending` is `_pendingItemIds` of the engine. The
definitions of the specification are `PluginsInit`, `PluginsNext`, `PluginsSpec`, so that one
module can hold the proofs about it and about ContextRequests.

`Message` is all that is told apart of a message: its role, the markers the classifier
looks for, whether it is blank, its length, the type its metadata ask for. The roles are the
three of `api/openclaw_schemas.py:19`, and `"conversation"`, which the plugin sends to
`/context/write`, where the role is free. `ClientsAssumption` says that clients send lists
of messages, and limits that are numbers.

### MetricLog, AlertEngine, Monitoring

Monitoring is the collector: `queue` with records and sentinels, the worker's
`batch`, the ticks since its last flush. A flush has no suspension point: it is part
of the action of the worker. AlertEngine evaluates a batch record by record and keeps
a cooldown for each alert, scope and operation. MetricLog is the contract: every
record given to `emit()` is delivered once, in the order of the calls. `Orderly`
says that `start()` and `stop()` are called in turn; without it any order is allowed, except a
`start()` while the worker runs, which would make a second worker (`start()` looks at
nothing) and which nothing in the repository does. The
definitions of the specification are `MonitoringInit`, `MonitoringNext`, `MonitoringSpec`,
so that one module can hold the proofs about it and about RuntimeHealth.

### TieredSearch, SearchFusion, ToolSelection, Retrieval

TieredSearch is `search()` of the router: `search.left` is the budget that is left,
`search.waited` how long the tier under way has been waited for; the hot entry ages
with the clock, is warmed, marked as used and spoilt by others. SearchFusion is the
search coordinator: the paths of a plan end, fail or time out, then `RrfFuse` ranks
and cuts their lists and blends the scores with the hotness, and `Reranked` reranks.
Reciprocal ranks are whole numbers in units of `1/RrfUnit`, which `FusionAssumption` makes
exact: every rank that occurs divides it. `IdsAreUnique` is how the adapters make lists:
each result becomes a ContextItem of its own with a fresh id, so that no id is in two lists
or twice in one. ToolSelection registers tools, records their calls and selects.
They share no state: Retrieval chooses at the start which of them the behaviour is
about (`entry`), so that one run has all three.

### ServiceLifecycle, RuntimeHealth

ServiceLifecycle is `lifespan()` with `build_default_api_router()` and the bootstrap
of the LTM in `config/openjiuwen.py`: `phase` is the step, `open` the resources that
are open, `wired` what the router was given, `cleanup` the list of what the exit
closes, `lost` what a failed step left behind. A deployment is a record of what is
installed and configured, including what is missing, blank or invalid. RuntimeHealth
is `GET /health` during all this: five components are checked at the same time, each
with its own timeout, while dependencies come and go (`Flip`) or hang; `known` is the
configuration the checker read once and keeps.

## 3. Runs

| Run | Distinct states | Properties | Shows |
|---|---|---|---|
| `processor_lifecycle` | 264 000 | `TypeOK`, `TaskConservation`, `EventsOnce`, `StopFinishesEarlierTasks`, `StopReturns`, `AcceptedTasksGetDone`, `ImplementsTaskQueue` | two starts and two stops with every suspension point of `_process`, calls that raise and a subscriber that joins at any time: no task is lost, `stop()` always returns and has finished what was accepted before it, each task is told once with the right flag, and the processor is a bounded FIFO queue |
| `pipeline_two_workers` | 935 000 | `LtmKeepsOrder`, `RefreshBringsNothingBack` | two workers, the default, with Redis, `record_usage()` in between and calls that raise with or without effect: tasks about a memory reach the LTM in the order of their acceptance unless they were in process together, and no refresh brings back what was replaced before the write it follows |
| `working_memory` | 1 320 000 | `NoteLimit`, `RemovedStaysRemoved`, `NoMarkOrUpdateLost` | with Redis calls that fail with or without effect: clients that take turns keep the limit of notes; of those whose operations overlap in every way only the ones that are about the same id at the same time lose a mark or an update or bring back what was removed |
| `versions_delegation` | 886 000 | `ListedIsRestorable`, `DeletedIsGone`, `ActiveIsRestorable`, `ActiveIsExact` | two servers that create, delegate, delete, receive results, crash and start again, with and without a bucket |
| `jit_cache` | 6 430 000 | `TypeOK`, `ServedIsRecent` | the dict stays bounded, and what `resolve()` returns was current when the call began or, from the cache, less than the time to live and the time of the search that found it before |
| `context_requests` | 283 000 | `TypeOK`, `MissingSourcesAreNamed`, `NothingBetterLeftOut`, `NothingLostSilently`, `AggregatedIsNotCut`, `EveryRequestEnds` | whatever the sources, the policy, the strategies and the LLM do, what is merged, cut and warned about is right, and every request ends |
| `openclaw_calls` | 289 000 | `AnsweredIsKept`, `TruncationKeepsTheEnd` | two calls at once, lost, refused, failing half-way or given up while the service goes on: whatever becomes of a call, the session has a beginning of its messages, once and in order; an answered one has left all of them wherever there is a working memory, and one task with those worth keeping; what failed reaches no LTM; a truncation keeps the longest end that fits |
| `monitoring` | 11 000 | `DeliversInOrder`, `StopFlushesRemaining`, `QuietInCooldown`, `EveryBreachIsAlerted`, `RecordsAreDelivered` | the collector implements the log over batches, intervals, a stop and a restart; alerts neither repeat within their cooldown nor silence each other |
| `retrieval` | 179 000 | `AnswersWithinBudget`, `NoTierHidesAnother`, `HotServesFreshItems`, `BestOfEachPathIsFound`, `ReliableToolsAreSelected` | tiers that are slow or fail with an error of the adapters, and paths that fail or time out, take nothing away from the others, and the answer is within the budget (any other exception of the external retriever ends the search, section 5) |
| `service_health` | 495 000 | `ProcessorHasItsStores`, `ExitClosesTheRest`, `OkMeansUp` | in every deployment, whichever step of the start or of the exit fails: what the service serves with is open, what it opened it closes, and an overall ok is right |
| `hot_two_workers` | - | `HotIsCurrentAtRest` | **violated**: 1 below |
| `openclaw_ids` | - | `ShownItemsAreNamed` | **violated**: 2 below |

1. With two workers, the default, and Redis: a worker reads the LTM, another one adds a
   memory, reads the LTM and caches, and the first then caches what it had read. It stays
   for the whole time to live, or until the next add, while `docs/architecture-design.md:1333`
   allows an inconsistency of less than five seconds. The property looks when no task is queued or in
   process and no call has failed, so that no refresh is to come; the run needs no
   `record_usage()`, no delete and no memory that a search left out.
2. `assemble()` reads the ids of what it injects from a field of the metadata that no
   strategy sets, so that it names none and `afterTurn()` reports none.
   `docs/openclaw-integration.md` says that it returns them.

### Bounds, and why they are enough

* `processor_lifecycle`: three tasks, one of each type, fill a queue of two places
  while both workers hold one, so that a full queue, a refused enqueue and sentinels
  that wait for room all occur. `MaxWorkers = 4` is two life cycles of two workers: a
  stale sentinel or worker of the first would meet the second. One controller, as in
  the server; what can be proved of any number is in section 4.
* `pipeline_two_workers`: an add and a delete of one memory and an add of another, two
  workers and one coroutine in `record_usage()`: two tasks about one memory may be in process
  together or not, two refreshes overlap, and `TopK = 2` with `LeavesNoneOut = FALSE` lets a
  search answer with any part of the LTM. The theorems remove the bounds.
  `hot_two_workers` has the smallest instance with its behaviour: one memory, two tasks.
* `working_memory` (`Affordable` in MCWorkingMemory, a constraint): clients that take turns
  have two notes with a limit of one, so that they reach it, an item, and a clock that
  passes the `expires_at` of a note and the deadline of the hash. Clients whose operations
  overlap have a note and two items and no clock; the two lists they mark have one item in common, so
  that operations on different ids overlap in the same hash and those on the same id clash.
  The theorems have neither bound.
* `versions_delegation`: two versions, two servers, one caller that delegates and one
  that does not; the theorems remove the bounds.
* `jit_cache`: two references and one tool result are three keys for two places, so the
  dict overflows; the clock runs to 2 with times to live of 2 (resolutions) and 1 (tool
  results), so that entries of both kinds expire and are replaced before they do.
* `context_requests`: each of the three sources has a list that differs from the others
  in what the pipeline tells apart (duplicates with better and worse scores, an item a
  task lifts, items too small to count a token); the budgets 1, 6, 7 and 40 go from one
  that nearly nothing fits to one that everything fits. Compactions have two conversations,
  one near the limit. One retry of the LLM, since each attempt starts the same again.
* `openclaw_calls`: a queue of one task is full as soon as the other call has enqueued;
  the conversation has a preference, a blank message and a decision; the limits cut it
  in the middle and in its first message. Each of the five wirings of the router.
* `monitoring`: three records in batches of two leave one in the batch, one scope has
  two records in one batch, another breaches every threshold; interval and cooldown end
  at two ticks. One restart, in turn (`Orderly`).
* `retrieval`: the timeouts 1, 2, 3 and the budgets 0, 2, 4 make every tier the one at
  which the budget ends; the hot entry lives for 3 ticks. Three paths with three lists of
  different lengths; three tools with a threshold of two reach both ways of selecting.
  `top_k` is 1 or 2, so that it cuts sets of tools below the threshold, or does not.
* `service_health`: all combinations of installation, configuration file and vector
  store, and for a sound one all contents of the sections. A dependency changes once
  during a life (`MaxFlips`); the theorems remove the bound.

### Deadlock

`context_requests` and `service_health` check deadlock: a request and a service end in
a state of their own and nowhere else. In the other runs nobody is obliged to call
anything, the bounds stop the rest, and a system nobody calls may stop.

### Fairness

* AsyncMemoryProcessor (`FairSpec`): weak fairness of each worker coroutine and of each
  suspended `stop()`. The event loop resumes every coroutine whose awaited call has
  ended, in FIFO order, and `asyncio.Queue` wakes its getters and putters in FIFO order;
  the calls of the LTM and of the checker are assumed to end, with a result or an
  exception. Nothing is assumed of callers. `AcceptedTasksGetDone` therefore speaks of
  processors that run again and again (`[]<>running`): a task on the queue of one that
  is stopped for good stays there.
* ContextRequests (`Fairness`): the event loop runs what is ready; the timeout of the
  sources fires, since `asyncio.wait_for` has one; `httpx` ends each attempt of the LLM
  adapter by an answer or by its own timeout. No source is assumed to end.
* Monitoring (`Fairness`): the worker takes what is on the queue, a `stop()` whose worker
  is done returns, and time passes. Nobody has to emit, to start or to stop.

No other specification assumes any.

## 4. Proofs

A theorem holds for every value of the constants that satisfies the named assumptions of
the modules: sizes are natural numbers, special values differ from ordinary ones, and
what section 2 says of `RequestsAssumption`, `FusionAssumption` and `IdsAreUnique`. The
BOUND constants bound the proofs as little as the code: they may be any number. Some
theorems have one more hypothesis, written in their statement:

* `OneController`: one coroutine calls `start()` and `stop()`. It is so in the server:
  `lifespan()` of `api/http_handler.py` is the only caller.
* `Orderly`: `start()` and `stop()` of the collector are called in turn.

The properties of the runs are seldom inductive. What each needs:

* `MemoryPipeline_proofs`, about AsyncMemoryProcessor. `TypeCorrect`, `TypeOKHolds`:
  `EndTask` of a worker without a task would put `NoTask` among the tasks that are done, so
  `TypeInv` adds that a worker holds a task exactly while it is in `_process`, and that
  workers not yet created are in the state `none`. `Conservation` (`TaskConservation`) is
  inductive with `TypeInv`, and `EventsOnceHolds` (`EventsOnce`) rests on both; they hold
  for any number of controllers whose calls overlap in any way, which TLC does not check.
  `StopHolds` (`StopFinishesEarlierTasks`) and `RefinesTaskQueue` (`ImplementsTaskQueue`)
  are for `OneController`: `LifeInv` counts sentinels on the queue and workers that took
  one against the sentinels that were put, and says that what was accepted before the call
  is ahead of every sentinel. The mapping of the queue is a filter: a sentinel taken
  from it changes nothing (`KeepHead`), and one put behind it neither (`KeepConcat`).
* About MemoryPipeline, for every number of workers and of callers of `start()`, `stop()`
  and `record_usage()`, with Redis or without: `LtmHolds` (`LtmKeepsOrder`), `RefreshHolds`
  (`RefreshBringsNothingBack`). `OrderInv` says that of two tasks of which neither was in
  process beside the other (`Before`) the one accepted first is taken first, because the
  queue is in the order of acceptance. `EffectInv` says of each task that was applied that
  the LTM still has it, or a task it comes before, and that what is in `replaced` never
  returns. `RefreshInv` says that what a search read is disjoint from what was replaced when
  the write it follows ended, so that the entry it writes is too.
* `WorkingMemory_proofs`. `RemovedStaysRemovedHolds`, `NoMarkOrUpdateLostHolds`, for any
  number of clients whose operations overlap in any way: `Exclusive` says that an id two
  operations are about is in `clashed`, `Holds` and `Intact` what an operation may rely on
  when it resumes, Redis call by Redis call, as long as its id is not (for instance that the
  note an update writes back was not removed), and `Sound(x)` is the two properties for one
  id. A step changes only ids its operation is about (`StoresItsOwn`), so that for the
  others everything stays as it was. `NoteLimitHolds`: `SeqInv` adds, where operations take
  turns, that one runs at a time (`Alone`), that nothing clashed, and what the operation has
  counted or read is still so, unless Redis dropped all notes (`Counts`).
* `SubAgentDelegation_proofs`, about ContextVersions: `ListedRestorable`, `DeletedGone`.
  `Inv` adds that the puts under way are of different versions that are not created yet
  (otherwise a late put would bring back a deleted version), that a delete under way was
  asked for, and that nothing is in a bucket that does not exist. About
  SubAgentDelegation: `ActiveRestorable`, `ActiveExact`. Every step of a delegation is a
  step of ContextVersions or leaves its variables alone, so that `Inv` holds;
  `DelegationInv` adds that a ticket, expired or not, names a version its server can
  restore, that a ticket has one holder, and that it is kept until a result is received.
* `JITResolver_proofs`: `TypeOKHolds` (the bound of the dict is its last part) and
  `ServedIsRecentHolds`. An entry is not older than its time to live, so `EntryRecent`
  says what its contents were when the call that made it began, which is `took` before the
  entry was made: current for a resolution, to live as long as the entry for a tool result.
  `CallInv` says the same of what a coroutine has read and is about to write, however long
  its answer takes, and `SourceInv` that the versions to come have not ended.
* `ContextRequests_proofs`: `Typed`, `MissingNamed`, `BestKept`, `LossIsNamed`,
  `AggregatedStays`. `SnapshotInv` says that the snapshot is the ranking of what was
  collected, cut to the budget, until the exposure policy filters it. The ranking has
  one item per id, and the best of each (`TakenStep`, `HoldsBest`); the cut takes an item
  unless the better ones leave no room for it (`TakesOne`). `CompressionInv` is what
  the schedule guarantees: as long as a job fits, every strategy leaves its messages
  alone; a job near its limit has the realtime strategy as its only one; and a message
  is missing from an output only if the output is degraded or the LLM wrote it. A
  context fits because the aggregator cut it to the same budget, counting tokens the same
  way; a compaction that does not fit is near its limit.
* The same module, about OpenClawPlugins: `AnsweredIsKeptHolds`, `TruncationKeepsTheEndHolds`.
  `AnsweredIsKept` says nothing of what a call has still to write and would not survive
  the step that writes it. `PluginsInvariant` keeps an account of every call
  (`Accounted`): what it has left in the session and what it has still to write are
  together its messages that are not blank (`WritesOf`); what it has collected for its task
  and what is worth keeping of the rest are together what its task will hold, and no task
  of it exists before it is answered (`TaskOf`). A call whose client gave it up, or that
  failed, has the same account; a step of one call leaves the accounts of the others
  alone, since what they left and their tasks are filters by the call that a new note or
  task of another does not pass, and the processor only moves a task from the queue to the
  LTM (`TaskMoves`). For the truncation, `CutOf` says that an answered compaction without a
  router holds the result of `TruncateToBudget`; `TruncationTakesTheEnd` shows by induction
  on the messages looked at that this is the longest end within the limit.
* `Operations_proofs`, about Monitoring: `ImplementsLog` (`DeliversInOrder`), for every
  batch size and interval and also when `start()` and `stop()` are called in any order.
  `LogInv` says that the delivered records, the batch and the queue without its sentinels
  are together the log; a rank gives for each place of the queue how many records were
  emitted up to it (`Places`). `StopFlushes`: called in turn, a `stop()` has one sentinel
  on the way and it is behind what was emitted before the call (`Behind`). `QuietHolds`,
  `BreachHolds`: the flush folds over its batch, and `FiredInv` is the invariant of that
  fold: after k records, who has fired is in its cooldown, was not before, and nobody else.
* About ServiceLifecycle: `ProcessorStores`, `ExitCloses`, `ServiceReady`, `StartFails`,
  `LifecycleTyped`. `IInv` adds what the bootstrap has opened at each of its steps
  (`BootstrapInv`), and that from the wiring on whatever is open is lost, on the cleanup
  list or the LLM client (`RouterInv`). The adapter closes a list element by element; the
  lemma `Lists` says what the first failing close leaves. About RuntimeHealth:
  `HealthKeepsLifecycle`, the service with its health checks implements the life cycle,
  since no check changes its variables, so that `HealthStores` carries
  `ProcessorHasItsStores` and `ExitClosesTheRest` over; `OkIsRight` (`OkMeansUp`) needs
  `ReportInv` (a check runs only while the service serves, and the dependencies that are
  up were up during it) and `ComponentInv` (what each component may report, and why).
* `Retrieval_proofs`. `WithinBudget` (`AnswersWithinBudget`): what a tier may take depends
  on what the earlier ones took; `BudgetInv` is the account: what is spent is the budget
  less what is left, plus what the tier under way has waited. `HotIsFresh`
  (`HotServesFreshItems`): an entry of the local cache is at least as old as its last
  warming (`AgeInv`). `NothingHidden` (`NoTierHidesAnother`): the results are at all times
  the first of what the tiers gave (`GivenInv`), since cutting before something is
  appended does not change the beginning (`FirstOfFirst`). `ReliableHolds`
  (`ReliableToolsAreSelected`): success rates are compared by cross-multiplication, which
  is a transitive order (`FractionsAreOrdered`), so that sorting by them sorts. `BestFound`
  (`BestOfEachPathIsFound`): an item is in one list, so its score is the reciprocal of its
  rank there (`ScoreOfPlace`); only a first item has the score of a first item; so the ones
  ranked before the best item of a path are best items of other paths, and fewer than the
  answer has places (`BestIsFused`, which counts them by an injection into the paths).
* `SequenceFilters_proofs`: what Keep, First, StableSort and Total return, and how they
  behave under append and concatenation. The induction theorems of the libraries take an
  operator as a parameter, which the provers cannot instantiate; `NumberInduction`,
  `SequenceInduction` and `Recursion` are induction with a set in its place (the numbers,
  or the sequences, that have a property), proved from well-foundedness.

Only model-checked:

* everything about liveness, which needs fairness and ENABLED: `StopReturns`,
  `AcceptedTasksGetDone`, `EveryRequestEnds`, `RecordsAreDelivered`;
* the two violations, which are counterexamples and need no proof.

## 5. What the models leave out

### Disagreements seen on the way

The models contain what the code does at these places. They are not runs of their own.

* `stop()` "Drain the queue and stop workers" (`core/memory/async_processor.py:95`): a
  task enqueued while it waits is behind the sentinels, and nobody takes it until the
  next `start()`.
* `docs/requirements-analysis.md:590` promises three retries of a failed task; a failing
  LTM call is logged and the task is over.
* An exception of the external retriever that is neither an AdapterError nor a
  RetrievalError is not caught (`core/memory/tiered_router.py:310`): the search raises, and
  what the other tiers had found is lost.
  `ColdRaises` is the step; `NoTierHidesAnother` speaks of searches that answer.
* Only an add refreshes the hot tier (`core/memory/async_processor.py:192`): what a delete
  removed is served on, with one worker and nothing concurrent.
* `record_usage()` reads the entry of the hot tier, suspends and writes all of it back
  (`core/memory/tiered_router.py:350`): a refresh in between is lost.
* Two operations of the working memory about one note or item at the same time are not
  atomic, which is what `clashed` excepts: an `update_note()` that read a note before another
  client removed it writes it back (`core/memory/working_memory.py:143`), though
  `clear_session()` is to "Remove all notes for a session"; two `mark_used()` of one item count
  one use (`core/memory/working_memory.py:271`). The limit of notes
  (`docs/agent-integration-guide.md:205`) is checked before a suspension
  (`core/memory/working_memory.py:47`), so that two `create_note()` exceed it, which is why
  `NoteLimit` is about clients that take turns.
* A set of tools up to the threshold is to be returned in full
  (`core/retrieval/tool_governor.py:4` and `:45`, `tests/unit/core/retrieval/test_tool_governor.py:26`).
  Line 78 cuts it to `top_k`, by default 10 where the threshold is 20, so that of 11 to 20
  tools that fit some are left out. `ReliableToolsAreSelected` says what holds: nothing is left
  out while `top_k` has room, and then never a tool that failed less often.
* `expires_at` of one note is an EXPIRE on the whole hash (`core/memory/working_memory.py:62`)
  and takes all the notes of the session with it, though `models/note.py:78` says that a
  note without it lives until the session ends.
* A version is listed only by the server that created it, and not after its restart
  (`core/context/version_manager.py:38`, against the strong consistency of
  `docs/requirements-analysis.md:1290`).
* A second result of a delegation is merged again (`orchestration/sub_agent_manager.py:141`).
* A tool reference resolved before its result is stored is cached as resolving to nothing
  (`core/context/jit_resolver.py:96`) for the time to live of the cache.
* When the common timeout expires, the sources that did answer are dropped too
  (`orchestration/context_aggregator.py:140`). They are named, as `MissingSourcesAreNamed`
  shows.
* With a tiered router, the items of a SEARCH output do not pass the exposure policy
  (`api/router.py:225`).
* Above 85 % of the budget `README.md:292` promises a compaction by the LLM; without one, or
  when it fails, it is a truncation that does not call itself degraded
  (`strategies/compaction_strategy.py:123`).
* The hotness is blended into the score after the sort, and the list is not sorted again
  (`core/retrieval/search_coordinator.py:172`).
* A failed bootstrap leaves the database engine open (`config/openjiuwen.py:694`), and a
  close that raises keeps the ones behind it from being made (`api/http_handler.py:78`).
  ExitClosesTheRest counts both as lost.
* A library without `register_store()` ends the start instead of costing the LTM only.
* With placeholders in the settings the LLM that serves is not probed
  (`core/monitoring/runtime_health.py:344`); only the check of the environment shows it.
* `forget()` of the memory plugin calls `/context/delete`
  (`plugins/openclaw-memory-plugin/src/memory-client.ts:70`), which no handler serves, and
  its `memory_recall` does not find the items in the answer it gets.

### Not modelled

* Context engine and storage adapters (pgvector, S3, Redis clients): one statement or
  one library call per method; what could go wrong is in the library or the database.
  Their failures are modelled where they are called.
* Settings, default values and the migration of configuration files: single
  transformations of data.
* `ContextHealthChecker.check()`: a score on floats over texts that nothing of the
  service calls. The quick check is part of ContextRequests.
* Authorization and the validation of requests: decided before anything changes.
* The multimodal processor, which nothing of the service calls; models, logging, tracing.
* The translation between item formats in the LTM adapter, prompts, wording, latencies,
  and what retrievers, embeddings and LLMs compute.
* `resolve_batch()` is concurrent calls of `resolve()` without its limit of five.
* Scripts, examples, tests.

### Next

Every safety property of the passing runs has a theorem. Not covered yet: the format
conversions of the LTM adapter, the bucket's late effects after a request that was given up
(section 2, ContextVersions), and `resolve_batch()` with its limit.

## 6. Running

    tlc -workers 2 -config <run>.cfg <module>      (the module of each run: PROJECT.json)
    tlapm <module>_proofs.tla

Every passing run takes less than three minutes on two cores.
