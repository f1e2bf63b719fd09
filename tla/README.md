# CodeInsight: a verification project

TLA+ models of CodeInsight's backend, what TLC checks of them on small
instances, and what TLAPS proves of them for every value of their constants.
`PROJECT.json` lists components, runs, mutants, hazards and theorems, and maps
each definition to the lines it models. Paths below are relative to
`codeinsight-backend/codeinsight/` unless they start with `doc/`.

## 1. The system

CodeInsight analyses source repositories. A request starts a *run*: the working
tree is scanned, parsed to AST nodes, call and module graphs are built,
frameworks and routes detected, and a graph of LLM agents writes *knowledge
points*. Each run has a *version* with a tag; readers see the repository's
`current_version`. A run may be incremental: it compares file hashes with the
last snapshot and analyses only what changed and what depends on it.

One uvicorn process serves the API. In *eager* mode (the default, `config.py:109`)
runs are asyncio tasks of that process; in Celery mode they run in a worker, with
late acknowledgement. State lives in PostgreSQL (everything durable), Redis
(active-task keys, progress, cancel flags, retry counters, breaker and bucket),
Meilisearch (search documents, no transactions) and the memory of the process.

| Component | State | Operations | Interacts through | Hard behaviour |
|---|---|---|---|---|
| Orchestrator `tasks/analysis_orchestrator.py` | version row, repository status, `files` and all analysis tables, one shared session | the steps of a run, `fail`, `cancel`, resume | DB rows, progress in Redis, cancel checkpoints | commit in the middle, crash, swallowed step failures, terminal updates in other sessions |
| Submission, control, progress `api/analysis.py` | active-task key, `_active_eager_tasks`, progress key, cancel flag | submit, status, cancel, SSE stream | Redis, `task.cancel()`, timers | concurrent submissions, cancel against time-out against completion, restart |
| Repositories `api/repositories.py` | repository row, the same active-task key | create, delete, `analyze_specific_agents` | DB, Redis | a second kind of task that writes the key and never clears it |
| Celery tasks `tasks/analysis_tasks.py` | broker message, result state | `run_analysis` | broker | redelivery after a crash |
| Incremental analyzer `services/incremental_analyzer.py` | none of its own | `compute_diff` | reads snapshots, `files`, edges | stale or unreadable snapshot, order of the search, path spellings |
| Parsers and taggers `parsers/` | none | syntax tree to nodes, tags | the pipeline | a double walk that yields nodes twice |
| Structure pipeline `pipelines/structure_pipeline.py` | `ast_nodes`, `call_edges`, `module_dependencies` | validate, deduplicate, link, insert, delete changed files | the run's session, savepoints | foreign keys inside one batch, files edited between scan and parse |
| Call and module graphs `analyzers/call_graph.py`, `analyzers/module_graph.py` | the edges it builds | resolution strategies, `get_call_chain` | stored rows | names resolved over rows of several runs, cycles |
| Agent graph `agents/` | `AnalysisState` with two reducers | fan-out, retry, merge, expand | LangGraph supersteps, LLM client | order of merging, partial failure |
| Category retry `api/retry.py`, `tasks/retry_tasks.py`, `db/redis_failed_nodes.py` | retry counter and failure records in Redis, `agent_status` JSON, points, documents | retry endpoint and task | four stores, Celery retries | check-then-act, transactions in several stores |
| LLM limiter `llm/limiter.py` | breaker in memory and in Redis, bucket hash, lock | `acquire`, `record_success`, `record_failure` | Redis shared by processes | load against record, failing Redis, rounding |
| LLM client `llm/client.py`, `embedding/client.py` | configuration, model name, lock, semaphore | `chat*`, `embed` | limiter, cache in Redis, cost tracker | shared configuration switched for one call |
| Knowledge points, versions `repositories/knowledge_point.py`, `services/meilisearch_client.py`, `api/versions.py` | points, documents, `current_version` | create, carry over, delete, switch, rollback | DB and index | two stores, no common transaction; a second writer beside a run |
| Evaluation `evaluation/`, `src/scripts/evaluate.py` | the engine's configuration, the bridge's counter, a file of snapshots | evaluate, A/B test, batch, regression alarm | shared engine, file | configuration lent across awaits, counter read before a permit |
| Other analyzers, read endpoints, frontend | none | sequential passes, queries, presentation | | none of the above |

What makes each correct: a run leaves nothing half-published and can always be
followed by another; Redis and process memory never speak of a task that has
ended, and say the truth about how it ended; an incremental run skips only what
is untouched; each file's rows are one whole reading of it, and every parent and
edge leads to a row that is there; the agents' points survive merging; the retries of a
category are bounded and each ends; the breaker's copies stay coherent and the
bucket's rate holds; a call reaches the provider its model name is for, and the
client is given back as it was found; a document says what its row says, and the
current version is one a reader can use; a score is fair and belongs to the
configuration it is reported under.

## 2. The modules

| Module | Models | Uses / proofs |
|---|---|---|
| `AnalysisRun` | one repository, one worker, a session (`tx`) over the committed database (`db`) | implements `VersionLedger`; `AnalysisRunProofs` |
| `VersionLedger` | what the committed statuses of versions and repository may do | |
| `TaskLifecycle` | submission, task, handlers, cancel, time-out, restart, stream, reruns of single agents | `TaskLifecycleProofs` |
| `CircuitBreaker` | concurrent calls, per-process memories, Redis hash, the lock | `LimitProofs` |
| `TokenBucket` | the bucket's arithmetic over time | `LimitProofs` |
| `LLMRouting` | the client shared by coroutines, its lock and semaphore | below it: `CircuitBreaker`; `LLMRoutingProofs` |
| `IncrementalDiff` | `compute_diff`, its search, the orchestrator's selection | `StructureProofs` |
| `NodeExtraction` | which nodes each parser makes of a syntax tree | operators |
| `FrameworkTags` | the tags of a node | extends `NodeExtraction` |
| `ModuleGraph` | imports resolved into dependencies | operators |
| `CallGraph` | calls resolved into edges; the call chain | extends `ModuleGraph` |
| `StructureStore` | full and incremental runs that fill the tables while files change | composes the four above; `StructureProofs` |
| `AgentGraph` | one invocation of the graph | `AgentGraphProofs` |
| `CategoryRetry` | endpoint, Celery task, four stores | `CategoryRetryProofs` |
| `KnowledgeStore` | rows and documents under a run, a retry and a switch | `KnowledgeStoreProofs` |
| `Evaluation` | scoring, engine, A/B runner, bridge, history file | `LimitProofs` |

Where two components are proved about in one module (`LimitProofs`,
`StructureProofs`), the specification of one keeps the names `Init`, `Next` and
`Spec` and the others have a prefix: `BucketSpec`, `EvaluationSpec`, `StoreSpec`.

The `MC*` modules give the constants their small values. Operators named as
mutants (`Mutant: ...`) stand before the definition they would replace; they
are no part of the specification and show that a property notices a plausible bug.

**AnalysisRun.** `db` and `tx` are records with one field per thing readers can
tell apart: files, which generation of files the nodes, edges, dependencies and
routes belong to, snapshots by tag, `current`, version statuses, milestones,
repository status. A step changes `tx`; `CommitRun`, the commit inside the
incremental structure step, and the terminal updates (`CommitStatus`) change
`db`. `BeginRun` is `run_analysis` up to its resume decision, `ScanFiles` ...
`Complete` the steps in order, `RunRaises`/`Interrupt` the exception and
cancellation exits, `FailVersion`, `FailRepo`, `CancelVersion`, `CancelRepo` the
handlers. The transaction of each may fail (`HandlerFails`): `fail` logs it and goes on
from the version to the repository (`tasks/analysis_orchestrator.py:1609`), so that a
version may stay in progress under a repository shown as failed; `cancel` raises.
`SwitchVersion` is the other writer of `current_version` (`api/versions.py:138`); it
waits while the run's session holds the row of the repository.
`Crash` drops the session and, in Celery mode, leaves the message to be
redelivered. Incremental decisions take any result the analyzer may give;
`IncrementalDiff` says which it gives.

**TaskLifecycle.** One record per task: its position among the awaits of
`_run_async` and of its wrapper, what has been thrown into it, its Redis progress,
its flag, whether the in-process table names it. `Accept` is registration and
`create_task` in one step (no await lies between). A cancellation arrives by
`task.cancel()` and by the flag; `AwaitPusher` is the await inside which the
first is suppressed. `RedisMayBlock` lets the 5 s pre-check time out. A `Rerun` is
the task of `analyze_specific_agents`: it writes the same key, is in no table, has
no timer, and reports progress only when it finds no files.

**CircuitBreaker.** `pc` has one value per await of `acquire`,
`_acompletion_with_retry` and the two `record_*` methods; a load reads the hash
into `buf` and assigns the memory in a later step. Time is one bit, `cold`: the
last failure is older than the timeout. The bucket may grant or deny.

**TokenBucket.** The bucket itself, in integer units of a token. `ReadClock` is the
caller's `datetime.now` (`llm/limiter.py:251`), `Grant` and `Deny` the script that runs on
that reading, after scripts on later readings, too; `LetThrough` is the Redis error after
which a call goes ahead without a token (:180). `Elapsed` is the script's `math.max(0, ..)`.

**LLMRouting.** `config` and `modelName` are the two fields a switch sets, in the
order the code sets them and at the await where it does; `request` is what a call
has read of them, `charged` what the cost tracker is told after the answer.
`Release` is the `finally` of `chat_for_task` and the end of `chat_with_fallback`,
which differ in what they put back. `HasKey` says whether `config.api_key` is set
(`llm/client.py:176`). A cancellation may arrive at any await.

**IncrementalDiff.** Trees are functions from files to hashes. The breadth-first
queue is a set of pairs of path and depth popped at least depth, which is what a
FIFO does here. Call edges use the absolute paths the parsers store.

**NodeExtraction, FrameworkTags.** A file is a numbered syntax tree of elements
with the few kinds the parsers tell apart; `ParserOf` gives each language the table
of what it makes of each kind, and `Walk` is the double walk all of them share:
`Extracted` is `_extract_nodes`, `Inner` a turn of `_extract_nodes_from_node` over the
same children, `Property` one of `_extract_object_methods`; `Appended` chooses between them. Names
are atomic. tree-sitter is the source of the tree and external.

**CallGraph, ModuleGraph.** Each strategy of `CallGraphBuilder` (name, object,
injected dependency, seed rules, dynamic call) is an operator over the stored
rows; a path is directory words, base and extension, so that the suffix match of
`_get_file_id_by_path` is one of words; `WordsOf` joins base and extension where an import
may name a file as it is written (the exact match of `_find_imported_file`). `CallChain` is the depth-first search with its
shared set of visited nodes and its depth limit: `DfsChain` is one call of the inner
function, by recursion on the levels left, and `Follow` one turn of its loop over the
callees, which come in some order (the code's is that of the query). What a query orders or a loop
collects is stated by position: `Chosen` is the subsequence at a set of places,
`OfTypes` the rows of some types in the order of `start_line`.

**StructureStore.** `source` is what a file holds, `hashed` what it held when the
scan took its hash, `read` what it held when the parser read it again: `Edit` may
come between. `Rescan` begins a run of either kind: the scan replaces the files,
and the cascade takes nodes, edges and dependencies with them. `ParseFull` stores
one file under a savepoint, `ParseIncremental` without one; `BuildFull` and
`BuildIncremental` end the run. The pipeline's two keys, one for deduplication and
one for uuids, are both there, because they disagree.

**AgentGraph.** A list of points is a set (the reducer compares titles only).
`Reduce` applies the agents' results in the order LangGraph does, that of the
Send list, after the barrier; keys outside the schema are dropped (external
behaviour, as `agents/graph.py` relies on it).

**CategoryRetry.** `stored` is the committed table, `index` Meilisearch, `status`
the JSON of the latest completed version, `count` and `failed` Redis. The task's
own session is the fields `removed` and `result` of its record, which `Close`
drops as the code does. `Readings` is what `get_retry_count` may answer, the counter or,
when Redis fails, 0; the increment of `Accept` may fail likewise, and the retry starts
(`db/redis_failed_nodes.py:157`, :179). `QueryFails` is the version query. No analysis completes
meanwhile.

**KnowledgeStore.** `rows`, `status` and `current` are committed; the open
transaction of the run is what it has `moved`, `deleted` and `created`. Writers of
a row wait for each other as row locks make them. `index` has the documents with
the id of a row, `copies` the versions with documents under ids of their own (the
second addition, `tasks/analysis_orchestrator.py:2199`). `adrift` remembers the
points whose last call to the index failed, or belongs to a transaction that is
not going to be committed. `ListPrevious` reads one page of the previous version's
points, `Keep` moves or deletes each; `SwitchVersion` and its write are two steps.

**Evaluation.** `Pair` is the greedy matching within a category, point by point,
`Confusion` the counts; the cases a tester has still to do are positions in
`CaseOrder`, the order of the files. An F1 is a fraction in a report and ten-thousandths in a snapshot, which rounds there. A
tester is a coroutine that runs a plain evaluation or an A/B test on the shared
engine, with a step for each await of the agent; `Extract` and `Admit` are the
bridge with its limit and its permits; a job is an `evaluate.py` process.

## 3. What the runs show

All twelve runs pass.

| Run | Question and answer | Bounds |
|---|---|---|
| `AnalysisRun` | After any failures, cancellations, crashes, redeliveries and switches, failing handlers included: what the next run finds is resumable (`CommittedShape`), the snapshot of the newest visible version joins with the files (`NewestSnapshotReadable`), data moves only with a visible version (`DataMovesWithVersion`), the commits implement `VersionLedger` (`LedgerSpec`), every run ends (`RunEnds`) | 2 files, 2 contents, 3 runs (complete, interrupted incremental, resumed or new) and 3 tags, which repeat when a run takes one that exists or resumes; the tree holds one file at first (`MCSpec`), the 1 edit adds the other, changes or removes the first; threshold 1/2 (463 420 states) |
| `TaskLifecycle` | Neither key nor table names an analysis that came to its end (`EndedIsUnreferenced`), an ended task shows a final step and "completed" only after its commit (`EndedShowsOutcome`), 409 names an unfinished analysis or one a restart cut off, and never a rerun (`RejectionJustified`) | 2 tasks, 2 submitters, 1 rerun, 1 restart, Redis may block the check; symmetric in tasks and in clients; no streams, which only read (1 651 455 states) |
| `TaskLifecycleLive` | Every task ends (`TaskEnds`); the key lets go of every analysis, one a restart cut off after its TTL (`KeyLetsGo`); the stream of a succeeded or failed task ends (`StreamEnds`) | 1 task, streamed, 1 restart, no rerun (5 194 states) |
| `CircuitBreaker` | State and count agree in memory, Redis and in flight; every call ends | 2 processes, 3 calls, threshold 2, 1 retry, Redis fails at will |
| `TokenBucket` | The script grants no more than burst, rate and what late readings make it count again (`RateRespected`) | 2 callers, readings up to 2 ticks old, burst 7/3 tokens, 20 ticks, TTL 9: beyond expiry (155 794 states) |
| `IncrementalDiff` | The search is exact within its depth; what is skipped is untouched | 5 files, every subset of 4 dependencies and a call, 2 edits, depth 2, threshold 4/5, unreadable snapshots |
| `AgentGraph` | One source per title, justified results, disjoint reports all kept, expansion is an update, the graph ends | 3 agents, 2 titles, 2 confidences, 1 retry |
| `CategoryRetry` | The limit is passed by fewer than the concurrent requests, beside the retries that were forced or met a failing Redis (`OvershootBounded`) | 1 category, 2 requests, 2 tasks, limit 2, 1 rerun, 2 such retries; symmetric in requests and in tasks (3 119 264 states) |
| `StructureStore` | A parsed file has all its rows or, if they clash, none (`RowsAreWhole`), of the content that was hashed unless it was edited in between (`RowsAreCurrent`); parents contain their children and go before those that are nobody's parent (`ParentsContain`), and an outer parent before one it holds on a later line (`ParentsGoFirst`); edges start and end at rows that are there (`EdgesAreGrounded`); a plain call leads to all its namesakes (`CallsReachNames`); a call chain is what can be reached (`ChainsReachAll`); a full run has one dependency per import (`DepsMatchImports`) | 6 repositories of 1 to 3 files in Python, Java, TypeScript, JavaScript, Vue and Go with the constructs whose treatment differs, 3 runs, 2 edits among given variants |
| `LLMRouting` | A request's address, key and model name belong together (`RequestsCoherent`), the holder of the lock keeps the client it has set (`LockedCallsKeepClient`), a switch by itself is undone (`AloneRestores`), every call ends (`CallsEnd`) | 2 coroutines that make any of 6 kinds of call, 1 permit, 1 fallback list, Ollama up or down, failures and cancellations (9 538 states) |
| `KnowledgeStore` | Each document says what its row says (`DocumentsFollowRows`), the current version is usable (`CurrentIsUsable`), a run publishes all or nothing of the points it found (`KeptOrAffected`) | 2 points in 2 categories, 3 versions, pages of 1, 1 failure of index, snapshot or run (638 961 states) |
| `Evaluation` | A score is at least half the best pairing and full for the annotated answer (`GreedyIsFair`), the limit of the bridge is exact (`LimitIsExact`), who has the engine alone reports under its own configuration (`AloneMeansOwn`) | 3 cases, a plain evaluation and an A/B test, 1 batch of 4, limit 3, 2 permits (the code has 3), 1 job (108 563 states) |

The initial trees of `AnalysisRun` with no file or both were checked apart, the safety
properties on all nine under symmetry of files and contents (872 732 states).

`CHECK_DEADLOCK FALSE` stands in the cfgs of `AnalysisRun`, whose runs are
bounded, and of `IncrementalDiff`, a computation that ends.

Bounds are constants: `MaxRuns`, `MaxTag`, `MaxEdits`, `MaxEdited`,
`MaxRestarts`, `Rerun`, `Watched`, `MaxRetries`, `MaxReruns`, `MaxExcused`, `MaxTime`,
`MaxVersion`, `MaxFaults`. They are enough
because each hazard needs at most two actors and three runs: a third run is the
first that can resume an interrupted incremental one, two requests suffice for a
check-then-act race, a third agent for a merge onto an already merged list, a
third call in another process for a load that meets two writers, a third version
for a switch back that races a publication, two coroutines and one permit for a
lock held while another waits for the semaphore, a second point for a page that
does not hold all, a fourth case for a batch that passes its limit while one
waits for a permit. `TokenBucket` keeps the history variable `ideal`,
`CircuitBreaker` `streak`, `CategoryRetry` `succeeded`, `started` and `excused`,
`StructureStore` `raced`, `KnowledgeStore` `adrift` and `faults`, `Evaluation` the
fields `alone` and `found` of a tester: they record the past for properties and guard
nothing else than the bounds on excused retries and on faults.

Each property has a mutant in `PROJECT.json` under which TLC refutes it: a plausible
bug of the code it is about. Type invariants are proved (section 4) rather than run.

**Fairness.** Weak fairness of the steps a scheduler takes when an await is over:
an asyncio loop and a Celery worker do not abandon a ready task. Nothing is
assumed of failures, cancellations, users, or of the graph's time-out.
`TaskLifecycle` assumes the 600 s timer fires, not that the analysis progresses.
`CircuitBreaker` assumes weak fairness only: a call is retried a bounded number
of times and lock holders never wait for one another. `LLMRouting` assumes that a
coroutine whose await is over goes on and that a provider answers or fails within
its timeout; the lock and the semaphore need no more, because each holder ends.
`AgentGraph` ends without its time-out. `CategoryRetry` states `FairSpec`
and `RetriesEnd` (strong fairness of `Clean`, because PostgreSQL grants row locks in the
order they were asked for); TLC finds no counterexample with one request, two tasks, a
limit of 1 and one rerun (491 376 states), an instance that is not among the standing runs. `KeyLetsGo`
assumes that the clock reaches the TTL of a key. `StructureStore`,
`KnowledgeStore` and `Evaluation` state no liveness: their runs are straight lines
whose end `AnalysisRun` shows.

### Divergences without a standing run

These statements of the repository are definitions in the modules. TLC refutes each
for the code as it is; to see the trace, make it the only property of the cfg of the
module's run (a state predicate as INVARIANT, otherwise as PROPERTY), with the change
given in brackets.

| Definition (module) | The code | The statement |
|---|---|---|
| `NotModifiedIsTrue` (AnalysisRun) | 304 is decided from `files`, which only a scan writes, `api/analysis.py:525` | "no content changes", `api/analysis.py:541` |
| `StepResultsDurable` | whole run is one transaction, `tasks/analysis_orchestrator.py:1797` | "每个步骤…独立调用 commit()", doc/dev-report/P2-FixP7-Session-Review.md:57 |
| `ResumeDetectsFrameworks` | a run resumed at "frameworks" skips them, :1911 | "跳过结构分析，只执行框架检测", doc/dev-analysis/comprehensive-functionality-analysis.md:38 |
| `CompletedStagesRecorded` | the JSON dictionary is changed in place, only the first stage is stored, :600 | docstring :591 |
| `UnchangedFilesKeepNodes` | the scan's cascade deletes them, :494 | doc/dev-analysis/P2-06-PLANNING.md:764 |
| `ParsedFilesHaveDeps` | relative paths are compared with absolute ones, `analyzers/module_graph.py:310` | docstring :287 |
| `CancelIsPersisted` | the version row is not committed when its status is updated elsewhere, :1624 | doc/dev-report/P2-03-REPORT.md:195 |
| `OneRunAtATime` (TaskLifecycle) | two submissions read the key before either writes it, `api/analysis.py:353` | doc/dev-report/P1-08-REPORT.md:355 |
| `CancelHonoured` [`TaskLifecycleLive`] | the cancellation is suppressed with the pusher's, `tasks/analysis_orchestrator.py:90` | comment `api/analysis.py:646` |
| `CompleteEventTrue` [`TaskLifecycleLive`] | `complete()` publishes before the commit, :1552 | docstring `api/analysis.py:686` |
| `StreamClosesWithTask` [`TaskLifecycleLive`] | the stream leaves for COMPLETED and FAILED only, `api/analysis.py:730` | doc/dev-report/P3-09-REPORT.md:19 |
| `RerunsAlone` | single agents start beside an analysis in one of its first steps, and are refused after it, `api/repositories.py:274` | comment :266 |
| `KeyNamesActive` | nobody drops a rerun's key when it ends, :457 | comment :266 |
| `OpenBlocks` (CircuitBreaker) | the remaining time is an int, and only a float stops a call, `llm/limiter.py:171` | comment `llm/client.py:221` |
| `StreakOpens` | a load puts an older count back, `llm/limiter.py:97` | docstring :50 |
| `OpenIsKept` | a success closes a breaker opened meanwhile, :291 | comment :283 |
| `DeniedOnlyWhenEmpty` (TokenBucket) | a denial forgets the fraction accrued, :247 | docstring :220 |
| `CallersAreAnalyzed` (IncrementalDiff) | callers come back as absolute paths, `services/incremental_analyzer.py:440` | docstring :354 |
| `CountsMatch` | deleted and absolute paths are counted, :204 | comment :75 |
| `NothingLost` (AgentGraph) | a result with known titles only replaces the list, `agents/state.py:50` | docstring :24 |
| `HighestConfidenceKept` | the reducer decides before the merge, `agents/node.py:1270` | comment :1270 |
| `LowConfidenceSkipped` | both branches expand, :1334 | comment :1326 |
| `ExpansionFailuresReported` | the key is not in the schema, :1370 | comment `tasks/analysis_orchestrator.py:2109` |
| `RetryLimitHolds` (CategoryRetry) | counter read, await, increment, `api/retry.py:96` | docstring :231 |
| `SuccessIsStored` | a retry that reports success never commits its points, `tasks/retry_tasks.py:76` | docstring :184 |
| `SuccessIsSkipped`, `OtherStatusesKept` [`TwoCategories`] | one category's status replaces all, `tasks/retry_tasks.py:369` | docstring `api/retry.py:233`, comment :360 |
| `IndexFollowsStore` | documents go at the flush, rows come back, `repositories/knowledge_point.py:309` | `services/meilisearch_client.py:5` |
| `SuccessClearsRecord` | an empty success keeps the record, `tasks/retry_tasks.py:374` | docstring `db/redis_failed_nodes.py:108` |
| `AcceptedRequestsStart` [`Eager = TRUE`] | `asyncio.run` inside the loop, `api/retry.py:248` | docstring :234 |
| `RestoredWhenIdle` (LLMRouting) | the provider is saved before the lock is taken, `llm/client.py:596`: two routed calls leave the local model behind | comment :615 |
| `IndexFollowsStore` (KnowledgeStore) | rollback does not reach the index | `services/meilisearch_client.py:5` |
| `OneDocumentEach` | a second addition under other ids, `tasks/analysis_orchestrator.py:2199` | comment :2195 |
| `VersionsKeepPoints` | an incremental run moves and deletes the points of the previous version, :2027 | docstring `api/versions.py:179` |
| `SwitchTakesEffect` | a run that publishes at the same time overwrites the switch, `api/versions.py:138` | answer :162 |
| `UnchangedFilesKept` (StructureStore) | the scan's cascade, `tasks/analysis_orchestrator.py:494` | doc/dev-analysis/P2-06-PLANNING.md:764 |
| `ReadableFilesStored` | a double walk gives one uuid to a function and to a method, whose clash drops the file, :822 | docstring :779 |
| `ConfigComesBack` (Evaluation) | no `finally`, `evaluation/engine.py:577` | comment :595 |
| `AlarmIsOwn` | the last two lines of the file are compared, whoever wrote them | `evaluation/history.py:53` |
| `CounterIsProcessed` | the counter counts skipped cases | `evaluation/agent_bridge.py:79` |
| `EveryCaseWeighs` | weights are counts of extracted points: a case with none weighs nothing | comment `evaluation/engine.py:330` |
| `MockIsPerfect` [`MCJobs` of a category without cases] | an evaluation of no case scores 0.0 | `evaluation/agent_bridge.py:6` |

Met while modelling, and not stated as properties because the models have them as they are:

- Structure: relative imports count as external; the importer is found by suffix; of two
  functions that end on one line the enclosing one is not always the innermost
  (`analyzers/call_graph.py:837`); "external" and "injected" edges are dropped by the
  validator; a Python `from` import is named "unknown"; `ASTNode.children` is never
  filled, so that no node is tagged a React component; Python decorators never reach
  the nodes; `get_call_chain` with a depth limit misses nodes it first met too deep; an
  edit undone around the parse goes unnoticed; a file that cannot be read counts as completed.
- LLM: `chat_for_task` warns that it falls back to the cloud and raises (`llm/client.py:612`).
- Knowledge: `update()` drops `metadata`, so that "preserved" is never stored
  (`repositories/knowledge_point.py:24`); at most 100 points are carried over, the default
  page (`tasks/analysis_orchestrator.py:1991`); a snapshot that fails after the commit in
  the middle publishes a version without its points; `POST /retry/{repo}/expansion` is
  shadowed (`api/retry.py:218`); the points a rerun of single agents saves are in a
  session nobody commits (`api/repositories.py:301`); the documents of a deleted
  repository stay.
- Evaluation: `config.matcher` is never used (`evaluation/engine.py:169`); greedy matching
  is not optimal; the counter check of `extract_batch` (`evaluation/agent_bridge.py:203`) is not
  what enforces the limit; lines of two processes may interleave in the file; an empty
  run's 0.0 hides the next regression.

## 4. What is proved

For every value of the constants that the named assumptions allow, in eight modules:

- **AnalysisRun** — `TypeOK`, `CommittedShape`, `DataMovesWithVersion`,
  `RepoCompletedIsCurrent`, `NewestSnapshotReadable`, and that the
  specification implements `VersionLedger`. `CommittedShape` is not inductive: a
  run that resumes a version must know that the version it holds is the committed
  one in progress. `IInv` adds `FreshRows` (no row of a future run exists),
  `NoSession` (between runs the session equals nothing but the database), the
  shape of the session at setup (`AtSetup`) and what the session and the handlers
  may assume of the row they own. One lemma per action; the refinement maps each
  commit to `Publish`, `Checkpoint`, `Abandon` or `Settle` and all else to a stutter.
  `NewestSnapshotReadable` rests on `ScanInv`: the newest visible version's snapshot joins
  with the files table, in the committed database *and* in the session, because the
  session is what a commit publishes and the database what a rollback returns to; and both
  an open version and the one a run owns are the newest. `RepoCompletedIsCurrent` says no
  more than "a version in a final state", because a switch moves the name and not the files.
- **TaskLifecycle** — `TypeOK`, `EndedIsUnreferenced`, `EndedShowsOutcome`,
  `RejectionJustified`. The invariant ties each handler position to what was already
  published and removed, and says that a rerun's progress is never "working", which is
  why its key, although it is left behind, never blocks a submission. A task a restart cut
  off never runs its end, so the key may name it; that it does not for ever is `KeyLetsGo`.
- **KnowledgeStore** — `TypeOK`, `DocumentsFollowRows`, `CurrentIsUsable` and
  `KeptOrAffected`, for any points, files, versions, page size and number of faults.
  None is inductive. `IInv` adds `TransactionOK` (what the open transaction may hold at
  each of its places, and that it and a retry never hold one row), `PageOK` (what a
  run has moved or deleted and what it has still to look at are together the page it
  listed, or the whole of the previous version if that is smaller; a rolled back run
  holds nothing), `VersionsOK` (which versions exist and in which status beside the
  run's own, and that what a switch means to write is complete) and `CompletedOK` (there
  is a latest completed version whenever one is taken). `KeptOrAffected`
  follows from `PageOK` at the commit, with the cardinality of the page from the
  library's theorems on finite sets.
- **CircuitBreaker** — `TypeOK`, `BreakersCoherent`, and `HalfOpenIsLocal` (Redis
  never says half open); the invariant says of each record in flight what it was taken from.
- **TokenBucket** — `BucketTypeOK`, `RateRespected`, for any callers, burst and rate. A
  script on an older reading sets `last_refresh` back and the time since counts again; the
  ideal bucket is given that time, too, and a `Capacity` of the burst and `MaxDelay` ticks more.
  The invariant compares it with `Held`, what the bucket would contain if a script ran now
  on a fresh reading, also across the expiry of the key. Assumed is `ExpiresFull`,
  `TTL * Rate >= Capacity`, which `llm/limiter.py` gets from its 300 s expiry.
- **LLMRouting** — `TypeOK`, `RequestsCoherent`, `LockedCallsKeepClient`,
  `AloneRestores`, for any calls, providers, models, fallback list and number of
  permits. The key to all of them is one equation between two fields that are written
  separately: `modelName = Resolve(config)` at every await. Beside it the invariant says
  which kinds of call wait where (`Placed`), that the holder of the lock is a switching
  call whose arguments are what the client says (`Holding`), and what one switching call
  among others that do not switch finds and means to restore (`Alone`).
- **Evaluation** — `LimitIsExact`, `AloneMeansOwn` and `GreedyIsFair`, for any cases, batches, limit
  and testers. `LimitInv`: the analyses begun are the smaller of the counter and the
  limit, the running tasks of a batch and its free permits add up to `Permits`, the queue
  of the semaphore holds distinct waiting tasks, and once a case is skipped the limit
  is used up. `EngineInv` says of a tester alone which half of its test it is in and what
  the engine and its own `found` then are. `Started`, which counts the
  analyses of a batch by recursion, is unfolded one step at a time. For `GreedyIsFair`
  the work is in the algorithm: the greedy pairing is a matching of linked points and is
  maximal (`PairFinds`), so that every pair of any other matching shares an end with one
  of its pairs; each of its pairs has two ends, and so no matching has more than twice as
  many (`AtMostTwice`, put together over the five categories in `ScoreIsFair`). The
  annotated answer is paired completely, whichever titles are similar (`PairsItself`).
  `ScoreInv` carries this to the reports: what is still to do are cases of the data set,
  and every result kept is the score of an answer to its case.
- **IncrementalDiff** — `TypeOK`, `SkippedIsUntouched`, `IncrementalHasBase` (an
  unreadable base falls back) and `SearchIsExact`, for every tree, graph, depth and
  threshold below one. For `SkippedIsUntouched` the invariant is that whatever was
  visited has its neighbours visited, queued or at the depth limit. For `SearchIsExact`,
  which compares the search with the layers of the graph, `ExactOK` says that a queued
  path stands at its distance, that nothing farther than `MaxDepth` is visited, and that a
  visited file nearer than that is queued or has its dependencies visited; when the queue is
  empty, this makes every layer visited, one layer after the other.
- **StructureStore** — `StoreTypeOK`, `RowsAreWhole`, `RowsAreCurrent`,
  `ParentsContain`, `EdgesAreGrounded`, `CallsReachNames`, `DepsMatchImports` and
  `ChainsReachAll`, for any repositories, edits and numbers of runs. `StoreInv`: files still to be parsed have no rows
  (`Pending`), the rows of a parsed file are one whole reading, each key once
  (`ParsedWhole`), a hash not raced by an edit still holds (`HashedStill`), parents enclose
  and precede (`ParentsWithin`), and the graphs agree with the rows they were built
  from. The weight is in the lemmas about the operators: the ranks of a finite set under
  a strict order number it (so that `Chosen` and `OfTypes` are permutations of the places
  they are asked for), deduplication and the linking of parents keep the keys of a file and
  their number, an edge found by any strategy ends at a row or at none, and the dependencies
  of one name are as many as its import rows when every importer is a known file.
  What the parsers return is proved, too (`ParsedNodes`): `Walk` is recursive over a tree, and
  that it exists and keeps every node inside its parent is one induction over the `Rank` of a
  step; two walks that agree on the steps of smaller rank agree on the next (`AppendedAlike`).
  `ChainsReachAll` is about an algorithm with shared state: a call of the search is
  entered with what all calls before it have visited. `Explored` says what one call
  does: it visits its node, adds only what its chain leads to, and leaves no edge
  from something it added to something not visited; `Walked` says the same halfway
  through its loop (`LevelExplores`). The levels left are never fewer than the nodes not yet visited,
  which is why the depth limit cuts nothing off, and the graph is finite because each
  edge was stored from a row.
- **AgentGraph** — `TypeOK`, `OneSourcePerTitle`, `FinalPointsJustified`,
  `ExpansionKeepsPoints`, `DisjointReportsKept` for any number of agents. Needs that
  confidences are a finite set, for which a largest one is found by well-founded descent.
  For disjoint reports `Kept` says that while results are reduced the list is the union of
  the reports applied so far, and from the merge on that its titles are all those reported.
- **CategoryRetry** — `TypeOK` and `OvershootBounded`: `Reserved` says that every started
  retry is counted or excused, and that the retries started together with the requests that
  have passed the check, unforced and on a true reading, stay within the bound.

The induction theorems of the library take an operator as parameter, which no prover here
can instantiate. Where a definition is recursive over a number, a lemma shows that the
function it defines exists and unfolds (`PairUnfolds`, `DfsUnfolds`), and the induction is
made by hand: a counterexample would have a least number (`LeastNatural`, `UpTo`), which the
unfolding excludes.

Each invariant was first checked by TLC: `LimitInv`, `EngineInv` and `ScoreInv` on the 108 563
states of `Evaluation`, `Kept` on 539 408, `ExactOK` on
1 671 549, the invariant of `LLMRouting` on 9 538 and with a third coroutine on
1 877 645, `StoreInv` on 5 216.

Assumed of the constants, beyond their sorts: `RootAssumption` (the clone directory is
not the file-system root), `PathsAssumption` (paths are distinct, relative and have a
base name), `SourcesAssumption` (what is parsed are trees: what is below an element comes
after it and lies within its lines, as tree-sitter gives it), `CasesAssumption` (cases,
annotated points and the model's answers are lists), `ExpiresFull`, and in `ConfigAssumption`
that the configured provider can be resolved.

All invariants and action properties of the runs are theorems, except `ParentsGoFirst`;
`RepoCompletedIsCurrent` is a theorem that no run repeats.
That and all liveness (`RunEnds`, `TaskEnds`, `KeyLetsGo`, `StreamEnds`, `CallsEnd`,
`Terminates`), which needs `ENABLED`, are only model-checked.

## 5. Assumptions

- One worker writes a repository's tables at a time; readers see committed states.
- `SwitchVersion` waits for the row of the repository as a row lock makes it; switches are
  made between completed versions.
- Redis answers in `TaskLifecycle`, except for the pre-check: `_cleanup_redis_task_key`
  swallows an error, after which the key of an ended task stays until its TTL, as that of
  a task a restart cut off does. It fails at will in `CircuitBreaker`, for a script in
  `TokenBucket` and for the counter in `CategoryRetry`. In `LLMRouting` a failing cache is a miss.
- All processes share a clock, and a script runs at most `MaxDelay` after the reading it was
  sent with. Calls let through because Redis failed are outside the rate that is bounded.
- A single retry of `CategoryRetry` that was forced, or whose counter could not be read or
  incremented, is outside the bound on retries.
- In `IncrementalDiff` the stored graph does not change during the diff: the scan
  holds the rows. Deleted files do not propagate, as `tests/test_incremental_analyzer.py:595`
  expects. The threshold is below one (default 0.3).
- In `StructureStore` names, words of paths and elements of trees are atomic, and no
  name is part of another; files are neither added nor removed between runs. Of the errors
  that cost a file its rows only the clash of uuids is modelled: a parser that raises, or
  an insert that fails in an incremental run (caught per file, without a savepoint,
  `tasks/analysis_orchestrator.py:1028`), is not.
- In `KnowledgeStore` a statement on a row another transaction has written waits for
  its end (PostgreSQL, read committed), and versions are numbered by their runs.
- In `Evaluation` which titles are similar is a constant; `SequenceMatcher` is external.

## 6. Not modelled, and the plan

Not modelled: the rules by which the scanner ignores files, the contents of prompts and
the parsing of answers, route, framework, middleware and dependency detection beyond
the tags (pattern matching over texts and manifests: sequential, with a unit test per
pattern), the older `EvaluationRunner` and the self-evaluation by an LLM, the cost
tracker's window, which nothing reads, read-only endpoints, schemas and migrations, and
the frontend, whose one protocol is the SSE client.

In this order the project would go on with:

1. The Celery branch of `TaskLifecycle`: states of `AsyncResult`, revocation, expiring results.
2. `AnalysisRun` with a second writer: two runs of one repository in one database
   (`OneRunAtATime` does not hold), row locks.
3. The SSE client of the frontend with the stream of `TaskLifecycle`.
4. Chunking of large repositories and the choice of snippets in `AgentGraph`.
5. Route extraction and its middleware chain as operators, as `CallGraph` is.

Proofs to come: the true halves of the divergences above, for example that
`RetryLimitHolds` is true of one request at a time, and `KeyNamesActive` without reruns.
