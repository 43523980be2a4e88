# GRACE-Mem in TLA+

GRACE-Mem turns conversations into a memory (a knowledge graph, vector
collections, a BM25 index and an extraction cache) and answers questions from
it. Two benchmark harnesses, LongMem and LoCoMo, drive it over many datasets for
hours, with checkpoints, resumes and a watchdog. Most of the code is sequential
Python. What is hard about it is what it keeps in several places at once, what
happens to those places when a step fails, a process dies or a run is taken up
again, and, on the way from a question to an answer, how many filters a fact
passes and what each of them promises the next.

All paths below are under `src/`.

## Inventory

| Component | State | Operations | Hard | Module |
|---|---|---|---|---|
| Persistence manager: `grace_mem/services/dense_index/chroma_manager.py`, `services/cache/cache.py`, `services/sparse_index/bm25.py`, `utils/atomic_write.py` | in-memory cache and BM25 index, Chroma collections, cache shards and BM25 file, writer thread, stored error, lock | `persist_async`, `flush_persist`, `close`, `reset_all`, cold start | writer thread against callers, bounded join, failure reported later, kill between two files | `PersistManager` |
| Turn ingestion: `grace_mem/ingestion/pipeline.py`, `steps/`, `managers/`, `parsing.py`, `extractors/`, `data_model/provenance.py` | caches of processed entities and relationships, vectors, BM25 documents, graph | summarize, extract, parse, adjudicate, apply, upsert, sync, verify, fallback | a fallback over half-written stores, dedupe keys set before the writes | `TurnIngest` |
| Graph client: `services/graph/falkordb.py` | shared graph database | sync, id checks, snapshots, clear | refused rows are logged and left out | by its effect, in `TurnIngest`, `LocomoRun`, `LongMemRunner` |
| Vector store: `services/dense_index/chroma_vdb.py` | one collection per kind | add, search, rebuild | duplicate ids, ties between equals | `add`, in `TurnIngest` |
| Retrieval: `grace_mem/retrieval/pipeline.py`, `candidates/`, `ranking/`, `query/`, `observability/`; `experiment/locomo/stages/qa_eval.py`, `experiment/benchmarking/error_analysis.py` | keyword cache, trace of the last question, rows | keywords, seeds, spreading activation, subgraphs, reranker in batches, boost, answer, diagnosis | stale trace after a failure, drops nobody reports, order of seeds | `Retrieval` |
| Evidence: `grace_mem/retrieval/evidence/` | candidates, selection, block | collect, rank, quotas, rerank, fetch, narrow | a turn cited twice, a slot spent on the worse candidate | `Evidence` |
| Agent filter: `grace_mem/agent_filter/` | messages, counters, verified sids | tool loop, selection, audit, render | bounded rounds, malformed replies, a context made worse | `AgentFilter` |
| Temporal resolution: `grace_mem/temporal/`, `ingestion/temporal_repair.py`, `retrieval/query/rewrite.py` | none that outlives a text | classify, resolve, rewrite, augment, repair | ends of months, leap days, weeks across years, a text rewritten twice | `Temporal` |
| LongMem batch: `experiment/longmem/pipeline/runner.py`, `batch.py`, `helpers/checkpoints.py` | checkpoint, indexes and answer per dataset; one shared graph | setup, ingest, checkpoint, answer, judge, teardown | kills, torn checkpoints, resume over a cleared graph | `LongMemRunner`, `BatchRun` |
| LongMem watchdog: `experiment/longmem/pipeline/watchdog.py` | stuck log, restart counter | launch, time out, mark, restart; rerun mode | reads files another process writes; bounded retries | `Watchdog`; rerun mode in `LongMemResults` |
| LongMem results: `pipeline/rerun.py`, `aggregate.py`, `utils/io.py`, `helpers/progress.py` | a CSV per dataset, `progress.csv`, `all_answers.csv`, aggregate | rerun, save a row, rewrite a table, judge, sum up | several processes on one table, files rewritten in place, resume by existence | `LongMemResults` |
| LoCoMo worker: `experiment/locomo/pipeline/runner.py`, `worker.py`, `artifacts/snapshot.py`, `utils/graph.py` | working directory and graph shared by the samples; snapshots and archive per sample | ingest, snapshot, resume, restore, copy, answer, refresh | kills, swallowed restore failures, other settings on resume | `LocomoRun` |
| Judging: `experiment/locomo/stages/judge.py`, `experiment/benchmarking/evaluation/judge.py` | files of answers, verdicts and votes | answer, judge, sum up, judge again with votes | files rewritten in place, stale outputs, threads, resume with other votes | `Judging`, `LongMemResults` |
| Entity adjudication pool: `EntityOpsProcessor`, `RateLimiter` in `managers/entity_manager.py` | futures, call times | submit, retry, collect | timeouts, order of results | planned |
| LLM client, embeddings, prompts, analysis reports | none that outlives a call | remote calls, text | their answers are free choices of the models | not modelled |

How they interact. The watchdog starts the batch as a process and reads its
files; the batch calls the ingestor turn by turn; the ingestor resolves the
turn's time expressions, writes through the managers into the stores the
persistence manager owns, and into the graph, which all datasets share and every
dataset's teardown clears. A question is rewritten, searched for in those
stores and in the graph, narrowed to a block of evidence, passed through the
agent filter where one is configured, and answered. The LoCoMo orchestrator
starts one worker process per sample, which talks to it by files and an exit
status; all workers share the working directory and the graph, which a refresh
empties between them. Reruns and judges read and rewrite the files the runs
leave; the reruns of a category share its two tables.

What makes each correct, in a line: the files of a run are written by one thread
at a time and hold what was accepted; a relationship noted as processed is kept;
a dataset is answered only after all its sessions went in; the watchdog never
runs two batches, never writes off what is answered, and stops; a snapshot holds
its sessions and no others; a context is the best of what was found, and what was
dropped is reported; a filter never makes a context worse, and ends; a date
means the same in the text shown and in the range searched; a verdict, once
given, stands beside the answer it was given to, and a score is of everything
that was to be judged.

## Modules

`X` is a component, `MCX` gives TLC the values a configuration cannot write, and
`XProofs` holds the theorems about `X`: `StoreProofs` those about `PersistManager` and
`TurnIngest`, `QueryProofs` those about `Evidence`, `AgentFilter` and `Retrieval`.

### `PersistManager`: the stores of one artifact directory

Actions are the operations of `VDBManager` cut where threads interleave: staging
an item in the cache (`Stage`), indexing it (`IndexItem`), asking for a persist
(`PersistAsync`, `FlushPersist`, `Close`), taking `_persist_lock` (`Acquire`), the
bounded join with its four outcomes (`JoinTimesOut`, `JoinRaises`, and after
`Joined` one of `Spawn`, `StartFlush`, `EndWait`), one step per file of
`_persist_all` (`WriterWrites` in the daemon thread, `FlushWrites` in the caller)
and its failure, the rest of `close`/`reset_all`/`reload`, and `Kill`/`Start`.
`asked`, `acked`, `torn`, `owed` and `timedOut` are history: what a caller may rely
on, and the excuses the code has.

### `TurnIngest`: the turns of a session into the stores

One action per step of `summarize_and_ingest_turn` and `ExtractionSyncer.sync`;
`step` says which is next, `attempt` whether it is the primary or the fallback
attempt. Anything that can raise (`StepFails`, `VerifyFails`, the second disjuncts
of `Summarize`, `AddEntityDocs`, `AddRelationshipVectors`) ends the attempt over
whatever the stores hold by then. A reply is any sequence of the names, or of
the relationships between extracted names, that its lines can give
(`ParsedEntities`, `ParsedRelationships`); what those are, and whether the model adds
or updates, is existentially quantified. The loop of `upsert_from_extraction`
is one step per stated relationship (`UpsertRelationship`, `EndRelationships`). Descriptions are sets: of turns for an entity, of texts for a
relationship; merging is union, replacing is not. `told` is history: what the
accepted turns said since the graph was cleared.

### `LongMemRunner` and `BatchRun`: a batch process

`LongMemRunner` is `process_all` over `process_dataset`: setup, the session loop
with its periodic checkpoint, flush, answer, teardown, judging. Saving a
checkpoint takes two steps, since the file is truncated before it is written.
`Kill` may happen at every step, and loses the process's variables but not the
files nor the graph. `BatchRun` is what somebody who only sees the files of the
run sees: stages, counts, answers, and whether a process exists. The property
`RunnerIsABatchRun` (`Batch == INSTANCE BatchRun WITH stage <- ..., count <-
..., running <- pc # "idle"`) says that the runner implements it.

### `Watchdog`: supervision

`Watchdog` extends `BatchRun` with `main()` of the watchdog: check, launch, wait,
time out and kill, mark, restart, and its own exceptions. Since it is built on
the abstract batch that the runner implements, what holds of it holds over the
real runner's files, torn checkpoints included. Marking is one step per dataset;
`SameProgress` counts the places of a dataset's events in the log (`Events`).

### `LongMemResults`: the results of a category

Each rerun is a process with a program counter over its datasets: skip what has a
file, answer and judge one dataset (`RerunDataset`), rewrite its CSV in two steps
(`RerunOpens`, `RerunWrites`), append its row to `progress.csv` under the lock
(`LockProgress`, `SaveProgress`), and rewrite `all_answers.csv` without one
(`ReadAnswers`, `MergeAnswers`; `Merged` takes a dataset's result, if the run has one,
and the line of the old table otherwise). The unified judge is a pool of jobs over the same
CSVs (`JudgeReads`, `JudgeRow`, `JudgeOpens`, `JudgeWrites`), and an aggregate at the
end (`Score`, `WriteAggregate`). Any process is killed anywhere; a CSV whose writer
died is there and cannot be read. An answer is known by its number, a verdict by
the answer it was given to and its number of votes. `posted` is history: the rows
that were saved.

### `LocomoRun`: the samples of a LoCoMo run

The orchestrator and its worker are one sequence of steps `pc`, since only one
of them runs at a time. A *piece* is what one session contributes to a store
under given settings, so that a store is a set of pieces and a foreign, missing
or outdated piece shows. `StartIngest` takes the last of a contiguous run of
snapshots (`highest_existing_snapshot`, `validate_snapshot`) and installs its
files, `RestoreGraph` may leave any part of the graph behind it
(`_restore_graph` logs and returns), and the session loop is `IngestSession`,
`Flush`, `SaveSnapshot`. The archive is copied file by file: `CopyPart` says that a part
of it is through, `CopyInPart` that it is not, and leaves any mixture of new, old and
cut off files of the stores, or a graph file that cannot be read (`Torn`), for a kill
or a failed copy to end with. `Refresh` may empty both, one or none of what the samples share. `KillWorker` and
`Kill` end a worker, or the whole run, anywhere. `partial` is history: this
worker's graph was restored in part; `torn` has the samples whose last copy was cut
off, or was an evaluation's copy of what such a one left.

### `Judging`: the score of a LoCoMo sample

The worker's half is `evaluate_items` and `llm_as_judge_singlemode`, row by row; the
other half is the unified judge, whose threads finish in any order (`PoolJudges`)
while results are taken in the order of the rows (`TakeResult`). Both may run
at once, and both may die while they rewrite a file, which leaves its first
rows. Answers are told apart by the evaluation they come from; a verdict is
correct, wrong, or not there.

### `Retrieval`: a question to its row

One retriever answers the questions of a run. `Ask`, the keywords from the cache or
from the model with its attempts, the search for seeds, the spreading activation
(`Weigh`, `Hop`, `StartSpreading`, one node per `Spread`, `EndSpreading`), the two
branches (`NodeSubgraph`, `SearchRelations`), the reranker one batch at a time
(`ScoreBatch`), the two selections, the boost, and the row, whether the question
was answered, its retrieval raised or its answer did; then `Diagnose` over the
rows that were judged wrong. Hits, weights and scores are free choices; graph and
cache agree only as far as ingestion makes them agree. `phase` is the control state,
`stages` the stage trace, `trace` the object the caller reads after the call. Sorting,
filtering and adding up are stated by counting (`Lists`): `BestOf` ranks by `Outranks`, the
activation a node receives is a `Total`. A relationship of a node with itself
raises the node while it hands on, so that what comes later in its arcs gets
more (`Later` is any part of them); the graph is taken to list such a relationship
once, as one row of `get_node_subgraph`, and never two of the same source and
target, since those share an id (`canonical_rel_id`). `WithinHops(n)`, what the walk is measured
against, is not the loop of the code but the ends of walks of at most n kept arcs.

### `Evidence`: the block of a question

`CollectItem` takes up a kept entity or relationship, `LookAtTurn` a turn of its
provenance, the newest first. `SelectTurns` or `SelectEntries` ranks and cuts (with
quotas and direct hits), `RerankEntries` reorders with its fallback, `FetchSnippet`
reads texts one by one (a text may be missing), `FormatBlock` and `FormatItem` render
the block item by item, and `Narrow` cuts it. Sorting and filtering are stated by
ranks: the k-th item of `Ranked(s)` or `At(s, P)` is the one with k - 1 before it, so
that ties keep the order they had, as `sorted` does. `At` and `Upto` (the first n) are in
`Lists`, which `AgentFilter` and `Retrieval` use too.

### `AgentFilter`: one refinement

The tool loop of `harness.py` and `runtime/session.py`: a reply is parsed over
every channel it may come on (`ParseResponse`), and is then one of `Unparsed`,
`Finals`, `Repeats`, `Executes`; `OutOfCalls` and `ForceFinal` end the loop; `Select`,
`Audit`/`AuditSkipped` and `Render` make the context, `Raises` hands back the original.
A sid has session, unit and part, so that the names the models shorten are
resolved as the code does it. The control state is `stage`; specification and
variables have names of their own (`RefineSpec`, `refineVars`), so that `QueryProofs` can
extend this module, `Retrieval` (`RetrieveSpec`, `retrieveVars`) and `Evidence` alike.

### `Temporal`: expressions, ranges and names

The calendar as functions on day numbers, one operator per resolver, matching and
rewriting over tokens. The actions carry a question through the two rewrites it
gets, and a turn through markers (`Augment`, or `LeaveUndated` without a time of the
dialogue), an extraction, and the repair; `leg` says how far it is. What the model
names is a list of at most `MaxNamed` entities: times it was given in any of `Forms`,
events, time expressions it still reads in the text, and the entities `Invented`,
which have nothing to do with the text. A turn without hints is written as it is
(`WriteUnrepaired`), and so is one whose first attempt failed anywhere, a resolver
that raises included, and was read again as raw text (`FallBack`, `ExtractRaw`). `Civil` and `Day` are inverse tables, so that the
arithmetic of the resolvers is checked against a calendar and not against itself.
The constraints of a text are in its order (`Constraints`), and rewriting replaces them
from the last to the first (`Replaced`); a hint is kept for the last of the expressions
with one text.

## Runs

| Run | Bounds | Shows |
|---|---|---|
| `PersistManager` | two threads, one entity, one relationship | `ManagerSound` (types, one writer of the files), `NoFailureForgotten`, `Durable`, `FlushCovers`, `RestartKeepsPromise`, `LockReleased` |
| `LongMemRunner` | two datasets of two sessions, a checkpoint after each | `CountsAreTrue` (`TypeOK`, `OnlyIngestedCounted`, `OnlySkippedMissing`), `AnswersAreBacked` (`AnsweredAfterIngest`, `StageAfterOutput`), `GraphIsolated`, `RunEnds`, and `RunnerIsABatchRun` |
| `Watchdog` | two datasets of one session, one resume at the same count, one counted restart, one exception | `SingleBatch`, `BudgetsAreKept` (`ErrorAfterRetries`, `AnswerNotWrittenOff`, `RestartsCounted`), `SupervisionEnds` |
| `LongMemResults` | two datasets, the second an abstention, one rerun each, one or three votes, two answers per dataset; two launches of one rerun and two judgings, or two launches of one and one of the other, or one of each and two judgings | `VerdictsFit` (`TypeOK`, `OfItsAnswer`, `ColumnsTellTheVote`), `ProgressKept`, `AggregateCountsAll` |
| `TurnIngest` | a session of two turns with one entity related to itself and two texts, a session of one turn with two entities; two names and one repeat of the session | `StoresAgree` (`IngestTypeOK`, `DedupeSound`, `CacheCoversEdges`, `AcceptedEntitiesInGraph`), `RelationshipsAccumulate` |
| `LocomoRun` | two samples, of one session and of two, two settings (`MCBound`) | `SnapshotsAreSound` (types, snapshots hold their sessions), `ContinuesTheSnapshots`, `AnswersOverWholeIngest`, `ArchivesAreOwn` |
| `Judging` | three questions, one evaluation, one or three votes, a save after two verdicts | `CarryRule`, `ResultsInPlace`, `SummaryIsComplete`, `VerdictsAreFinal` (`VerdictsKept`, `VotesKept`) |
| `Evidence` | two items, three turns of one entry or one of two, four levels of score, eight configurations | `CitedOnce`, `SlotsWellSpent` (`NoBetterLeftOut`, `QuotaServed`), `RerankedAreShown`, `NarrowingOnlyDrops` |
| `Retrieval` | two questions, a path of three entities, one of them related to itself, and one the graph lacks, two states of the stores, three configurations, four scorings | `ContextIsFound` (`SpreadsOnce`, `ContextIsBest`), `RowsTellTheRun` (`RetrieveTypeOK`, `DropsAreReported`, `FailuresAreMarked`, `SameKeywords`, `VerdictNamesFirst`) |
| `AgentFilter` | five calls, eight replies, three contexts, four rulings, six configurations | `ContextIsSound` (`NeverWorse`, `ChoiceSurvives`), `PatienceIsConsecutive`, `RefinementEnds` |
| `Temporal` | five reference times (a leap day, ends of months and years), forty-odd texts, eight invented entities, three entities of a turn (`MaxNamed`), the years 2015 to 2027 | `LaterReferenceLaterRange`, `NameAndRangeAgree`, `OnlyExpressionsChange`, `GraphNamesAreAbsolute` |

`LongMemRunnerResume` ends in a violation and has its finding below.

Why these bounds are enough to be interesting. Two threads are needed for a
writer started by one to be joined by another, and one entity and one
relationship for the two cache shards and the BM25 file to disagree. Two datasets
are needed for a graph to be left to the next, two sessions for a checkpoint
that counts some of them. One resume and one restart make the sequence "time out
twice at the same count, be written off". Two texts make a merge, and a repeat of
the session makes a write over a cleared graph. Two samples are needed for one
to find what another left, two sessions for a resume between them, two settings
for a resume that must be refused. `MCBound` leaves out the runs that would take up
the snapshots of the first sample under other settings, since those of the second
show the same, and `StartFails` leaves a sample in the same state. Three entities of a turn make one that keeps its name, one
that is renamed, and a second of the same old name. Three questions for a save that leaves a row
out. Two reruns meet at a table, and a second answer makes a verdict stale. A
path of three entities takes two hops, two entities of one name are told apart
only by their identifiers, and a batch of two documents makes the reranker work
in batches. Five calls are needed for three failures in a row with something
before them. There are no bounds on kills, failures, relaunches and timeouts but
the ones named (`MaxRestarts`, `MaxErrors`, `MaxRetries`, `MaxAttempts`, `Budgets`).
The symmetry of `LocomoRun` permutes the settings, which are only ever compared.

`CHECK_DEADLOCK FALSE` is set where the program stops: the watchdog's `main` and a
rerun return, a session is ingested or has failed for the last time, a question
or a text is done.

## Divergences

`LongMemRunnerResume` shows that `AnswersOnCompleteGraph` fails: a resumed dataset is
answered on a graph without the sessions the resume skipped
(`experiment/longmem/pipeline/runner.py:251`), and has its finding in `PROJECT.json`.

Four more limit what a property of a run says; the models do what the code does:

* Quotas. A turn counts for the first item that leads to it alone
  (`retrieval/evidence/builder.py:500` and 534), so a source whose passing turns were
  all claimed gets nothing, although `builder.py:323` and `evidence/ranking.py:23` and
  35 promise each source its best. One slot, a quota of one and two items that lead
  to the same turn are enough, with a better turn of the first. `QuotaServed` says
  what does hold: a turn is left out only if its first item has its quota.
* Archives. The copy to a sample's directory goes file by file
  (`experiment/locomo/utils/io.py:60`), and an evaluation alone asks only whether the
  directory exists (`experiment/locomo/helpers/sample_hooks.py:42`): after a copy that
  was cut off it answers over part of the stores, or over none, although
  `experiment/locomo/utils/graph.py:7` says that the stores are validated. So
  `ArchivesAreOwn` claims part of one ingest, and all of it only where the last copy
  was not cut off; answers over an archive are not claimed to be whole.
* Names that are not repaired. The repair runs only for a turn with hints
  (`ingestion/pipeline.py:451`), and the fallback passes neither hints nor the time
  context (`pipeline.py:711`), so that a "yesterday" of the model's is written as it
  is; by `ingestion/temporal_repair.py:40` every such name becomes a resolved value
  first. `GraphNamesAreAbsolute` is of repaired turns.
* Clock times. "9 pm" is repaired to "21:00", without the day
  (`temporal_repair.py:216`), and the hint's text is injected besides the marker
  (`temporal_repair.py:297`), so the same hour of two days is one entity, against
  `temporal_repair.py:38`. A clock time counts as absolute in `GraphNamesAreAbsolute`.

The following was met while modelling; the models do what the code does, and no
run is spent on it.

Persistence. The cache has a relationship before the vector store
(`ingestion/managers/relationship_manager.py:222`, against the order
`utils/atomic_write.py:19` states), so a kill leaves the cache ahead. `close()` clears
the cache while a writer that outlived its join still saves it
(`chroma_manager.py:310`). The writer dumps maps other threads add to
(`chroma_manager.py:145`).

Ingestion. The fallback skips, as already processed, an edge the primary attempt
never wrote (`relationship_manager.py:197`, against `ingestion/pipeline.py:684`). Of two
rows of one id in a batch the vector store may keep the one with less in it
(`chroma_vdb.py:107`). An ADD of a known name replaces its provenance
(`data_model/provenance.py:92`). A line of prose with two commas is recovered as an
entity by the lenient parse. A name extracted twice under one type resolves to the
later of the two (`entity_manager.py:662`); under two types to the first
(`relationship_manager.py:92`), where the model, whose names have no types, takes the
later.

LongMem. The checkpoint precedes the indexes it counts on (`runner.py:293`). A
teardown that raises after the answer makes the dataset an error
(`runner.py:1340`). The batch takes up again what the watchdog wrote off
(`watchdog.py:186`), and a watchdog that is killed leaves its batch running
(`watchdog.py:540`). `all_answers.csv` is rewritten without the lock
(`pipeline/aggregate.py:64`; `utils/io.py` calls it the mutex behind every shared-file
update): rows are lost in the model. A rerun fills the tables once, at its end,
from its own results (`watchdog.py:752`; `aggregate.py:3` says after each category), so
one that is killed and resumed never enters what it had finished. A file that
exists counts as complete, one cut by a kill too (`watchdog.py:566`). A default
rerun never skips what is done: its stages lose the ingest before they are
compared with the default ones (`watchdog.py:703`). A rerun drops the
columns of the unified judge (`rerun.py:335`), and judge and rerun undo each
other's work on one file (`benchmarking/evaluation/judge.py:754`). A blank answer,
read back, is the text "nan" and is judged (`judge.py:735`).

LoCoMo. A failed restore of the graph is swallowed, and the snapshots that follow
lack its sessions (`utils/graph.py:169`). An evaluation alone writes a graph restored
in part over the archived one (`worker.py:980`). After a new evaluation the answers
of the one before are judged (`stages/judge.py:393`). Rows cut off by a kill are
never judged again (`stages/judge.py:462`).

Questions. A question rewritten by the runner is rewritten again by the retriever
(`retrieval/pipeline.py:1158`; `runner.py:563` says once). A count that leaves the
calendar raises (`temporal/normalizer.py:60`). "since" and "after" match their first
day only, a window such as "in the last three months" is shown by its first unit,
and a weekend never matches. The entity of "after 5 pm" is named for the clock alone
(`temporal/resolver.py:1044`) and keeps no day. A dialogue's time is written as `[mentioned_at:`
(`evidence/rendering.py:43`) and looked for as `[t:`
(`experiment/locomo/stages/qa_eval.py:1106`). Seeds that the reranker rejects are
diagnosed as no seeds, and a retrieval that raised as one without evidence
(`error_analysis.py:288`). A quota may exceed the top k (`evidence/builder.py:317`). In
the agent filter a ruling is matched by substring (`evidence/adjudication.py:75`), so
one sid may take the verdict of another, and finds are dropped together with the
seeds when nothing of the seeds is kept (`evidence/finalization.py:126`).

## Fairness

* `PersistManager!FairSpec`: a thread that holds the lock is scheduled, and so is
  the owner in its teardown. The writer is not fair: a disk may hang, and the
  join is bounded for that reason.
* `LongMemRunner!FairSpec`: a process that is left alone takes its next step; it
  need not succeed. Nothing makes an operator launch one or keeps it from being
  killed.
* `Watchdog!FairSpec`: the watchdog takes its next step, and a run that goes on
  for ever times out (`proc.wait(timeout=...)`). Nothing is assumed of the batch.
* `AgentFilter!RefineFairSpec`: every call of a model returns or raises, since the client
  has a timeout; which of the two, and what it says, is free.

`Evidence` and `Retrieval` are sequential and their specifications say that they go
on; no property rests on it.

## Proofs

Eight modules of theorems, each for all values of the constants that the named
assumptions of its module allow.

| Module | Theorem | Property |
|---|---|---|
| `StoreProofs` | `ManagerIsSound` | `ManagerSound` |
| | `TypeCorrect`, `WritesAreSerial` | its two parts |
| | `FailuresReachACaller` | `NoFailureForgotten` |
| | `AcceptedIsDurable` | `Durable` |
| | `RestartsKeepPromises` | `RestartKeepsPromise` |
| | `FlushesCover` | `FlushCovers` |
| | `StoresAlwaysAgree` | `StoresAgree` |
| | `RelationshipsOnlyGrow` | `RelationshipsAccumulate` |
| `LocomoRunProofs` | `SnapshotsStaySound` | `SnapshotsAreSound` |
| | `TypeCorrect`, `SnapshotsHoldTheirSessions` | its two parts |
| | `ResumesContinue` | `ContinuesTheSnapshots` |
| | `AnswersAreOverAll` | `AnswersOverWholeIngest` |
| | `ArchivesHoldOneSample` | `ArchivesAreOwn` |
| `JudgingProofs` | `VerdictsFollowTheCarryRule` | `CarryRule` |
| | `EveryResultInItsRow` | `ResultsInPlace` |
| | `NoSummaryOfAnUnjudgedRow` | `SummaryIsComplete` |
| | `NoVerdictIsDrawnTwice` | `VerdictsAreFinal` |
| `LongMemRunnerProofs` | `CountsStayTrue` | `CountsAreTrue` |
| | `AnswersStayBacked` | `AnswersAreBacked` |
| | `GraphStaysIsolated` | `GraphIsolated` |
| | `RunnerImplementsBatchRun` | `RunnerIsABatchRun` |
| `WatchdogProofs` | `OneBatchAtATime` | `SingleBatch` |
| | `BudgetsAreAlwaysKept` | `BudgetsAreKept` |
| | `LaunchesAreCounted`, `AnswersAreKept` | two of its parts |
| `LongMemResultsProofs` | `SavedRowsStay` | `ProgressKept` |
| | `VerdictsStandBesideTheirAnswers` | `VerdictsFit` |
| | `AggregatesAreComplete` | `AggregateCountsAll` |
| `QueryProofs` | `NothingIsCitedTwice` | `CitedOnce` |
| | `TheBestAreChosen` | `SlotsWellSpent` |
| | `RerankedIsShown` | `RerankedAreShown` |
| | `NarrowingDropsOnly` | `NarrowingOnlyDrops` |
| | `PatienceIsKept` | `PatienceIsConsecutive` |
| | `ContextStaysSound` | `ContextIsSound` |
| | `ContextIsAlwaysFound` | `ContextIsFound` |
| | `RowsAlwaysTell` | `RowsTellTheRun` |
| `TemporalProofs` | `OnlyExpressionsEverChange` | `OnlyExpressionsChange` |
| | `GraphNamesStayAbsolute` | `GraphNamesAreAbsolute` |

*Persistence.* `SingleWriter` is not inductive without the types, `Durable` not without
knowing, file by file, what a write under way has put on disk and what memory
still holds: an item that was accepted is in the cache and in BM25, and each file
the current write has passed contains it. That invariant, in two layers, is
proved preserved by every action. `RestartKeepsPromise` is an action property and
follows from the same invariant in the state before. `FlushCovers` needs the same
for the one call: until it returns, memory has what it had when the flush was
called (`FlushHeld`), and each file it has passed has its part of that
(`FlushSaved`). Another caller may write meanwhile, but what it writes is memory,
and by `SingleWriter` nobody tears the stores down under the flush.
Assumed: the owner is a caller, the two kinds of item are disjoint, `None` is
neither.

*Turn ingestion.* `StoresAgree` needs to know what the rows between two stores hold:
each row of an entity says something of it (`Described`), there is one per
extracted name (`Aligned`), and no row of an edge has anything its record has
not (`RowsCovered`), so that the vectors and the graph, written from rows, stay
below the cache. Which of several rows of one id a store ends up with is the
last, or the longest; that there is one to take is the least-number principle
(`LeastNat`, `GreatestNat`), from the well-foundedness of the naturals. Assumed: the
entities of a session's replies are entities, a session has a turn, the bounds
are numbers.

*LoCoMo.* What a snapshot holds depends on what the worker that took it started
from, and that on an earlier snapshot; so the four properties are proved
together. `Ingesting` follows a worker from the snapshot it starts with to its
answers: at each step it says which sessions are saved, which are in the open
stores and which, unless the graph was restored in part, are in the graph.
`Evaluating` does the same for a worker that starts from the archive. What an archive
holds is within the one ingest its sample's snapshots are of, and all of it unless
a copy was cut off (`Archives`, `Within`, `All`; `Copying` while one is under way). Nothing is
said of a worker in its `finally` clause, nor of the working directory it leaves
behind: the next worker empties or overwrites that directory. Assumed: a missing or
unreadable file is not a set of pieces, a missing one no snapshot; every sample has a session.

*Judging.* Each judge works on a copy of a file and saves it now and then, so the
invariant relates the copy to the file: none of the file's verdicts is changed in
it (`WorkerInv`, `PoolInv`), which makes `VerdictsAreFinal` hold of the save. A result
a thread has brought waits until the rows before it are taken; it fits the row it
will be entered at (`Waits`), and that row has not got its verdict meanwhile.
`Sound` says of every copy and of the file on disk that its two columns are of one
length and obey the carry rule. Columns are sequences, and their lemmas
(`ColumnExcept`, `ColumnCut`, `ColumnBlank`) rest on `SequenceTheorems`. Assumed:
there is a question, votes and the interval between saves are positive.

*LongMem runner.* The three safety properties need each other. A checkpoint is
true because of what the process counts (`Present`: it is in the graph or was
skipped on resume), an answer because the last checkpoint of an ingest comes
after every session (`Complete`), and the stage `qa_complete` because that
checkpoint follows the answer and nothing is written after it (`Announced`).
`Between` says that a process carries nothing from one dataset to the next, and
`Cleared` that the graph is empty when a dataset is set up. The refinement is
proved from the same invariant, action by action (`NextMaps`); `Counts` relates the
number of sessions of a checkpoint to the set of their names. Assumed: there is a
dataset and a session, and the interval is a number.

*Watchdog.* A batch exists only while `main` waits for it (`Waiting`): every way out
of that wait has seen the process end or has killed and reaped it. `Counted` says
which launches the counters already show, by the phase of the loop. That a
dataset is written off after its resumes only is a fact about a log of any
length: the events of a dataset since it was last at another count (`Since`) are
what `SameProgress` counts, and logging one more adds one to their number, or
starts again with it alone. Assumed: the limits are numbers, a restart is
allowed.

*Results.* A process between reading `progress.csv` and replacing it holds the lock,
and its copy is the table as it is (`AtTable`), so nobody's row is lost by the
replacement. `VerdictsFit` is not about the files alone: a verdict fits its answer
in every place that may be written to one later (`RerunFits` and `JudgeFits`: the
results of a rerun, its copies of the tables, the frame of every job).
`Undisturbed` follows a judge no rerun has disturbed: a frame that was read is its
row, one that was judged has its verdict, and when the score is taken every
dataset asked for is judged or was kept. Assumed: the reruns share no dataset,
`Nobody` is none of them, votes are positive.

*Evidence.* A sort, a filter, a cut, a quota and a reordering each give a list whose
items are items of the old one, no place twice; most of the proof is one lemma per
kind (`AtFit`, `UptoFit`, `RankedFit`, `ConcatFit`, `OrdersFit`, `QuotaItems`). They rest on
what a rank is: in a finite linear order every place has its own, and every number
below the count is one (`RankGrows`, `RankOnto`, `LeadingPlaces`), by cardinalities. A list
is `Fit` when every candidate has its entry's score and the first item that leads to
it, and none is twice. While items are taken up, the candidates are those of the
turns looked at so far that passed (`Collecting`), so at the cut they are all that
provenance leads to, and a cut leaves out worse ones only (`CutIsBest`,
`QuotaServesAll`, `HitsFit` for the search). Narrowing cannot empty a block since a block
that is ready has a line that is no heading (`Formatting`), and the line with most
overlap is kept (`SomeLinesAreKept`). Assumed: the budget of narrowing and the cap of
the pool are positive (8 and 40 in the code), scores and limits are numbers.

*Agent filter.* Patience: `failures` and `repeats` are the lengths of runs at the end of
the history (`Trails`), which three remembered replies are just enough to tell
(`PInv`, `TrailsAfter`). Soundness: whatever a tool returns, an auditor keeps or a reply
names is resolved, and what resolves is a turn of the conversation (`ToolsReturnKnown`,
`FinalHolds`, `RuledHolds`), so every list of the refinement is one of known sids (`SInv`).
The seeds and the choice are cut before the audit, and the audit adds behind
(`CutKeepsFirst`); a chosen sid is among those its own unit shows (`UnitHolds`, `ShownHolds`),
also where the model shortened its name. The list lemmas (`AtHolds`, `UptoHolds`,
`FlattenHolds` and the rest) say of each operator which items its list has, and of the
flattening that it is one, whose recursion is unfolded by the least prefix that
would not be. Assumed: the conversation, a reply's items and their arguments, a
ruling and a context are lists, the store is finite, the cap is positive.

*Retrieval.* `RowsTellTheRun` is proved from the types (`TInv`) and from what has to be known
between a stage and the row: the trace is that of the question and marked when it
failed (`Marked`), each row and verdict keeps that (`RowsMarked`), the keywords under way
are those the cache has (`KeysKept`), and what was found last is in a stage of the
trace, the union before the reranker and the choice after it (`StagesTell`): with two
stages of which the second has the choice, whatever is not chosen is lost between
them (`DropsAreTold`). `ContextIsFound` needs two more. `Walked`: everything `all` has can be
reached from the seeds, what is behind the frontier has its neighbours in `all`, so
that an empty frontier ends the walk early without loss (`WithinClosed`, `WithinGrows`);
while activation spreads, the targets of a visited node are visited or in the queue,
and the number of times it was handed on is the number of kept arcs of the visited
(`SharesGrow`), so that at an empty queue both are complete. `BestKept`: what is scored so
far has the scores of the first documents, in whatever batches, halved or not
(`Scoring`), the selection is the best of them (`BestChosen`, by the ranks of *Evidence*), and
neither the filter by what the cache knows nor the boost changes who is in it
(`ContextHolds`, `BoostedHolds`). Assumed: entities and relationships are finitely many and
distinct numbers, no two relationships have the same source and target (`canonical_rel_id`;
source and target may be one entity), stores have entities and
relationships only, limits are numbers, a seed's activation is positive.

*Time expressions.* The invariant of rewriting is short, that `outcome` and `again` are what
`Rewrite` and `Augmented` make of the text (`TextInv`); the work is in what these are. The
constraints of any text lie apart and in its order (`ConstraintsAre`). Behind the
place where the k-th of them begins, the text is, after the last of them down to the
k-th were replaced, what it is to be in the end (`ReplacedEndsInTails`), and in front of
it nothing has changed yet, so that the offsets found in the unchanged text are right
when they are used. The text in the end is built item by item from the left, over
expressions (`OneStretch`) and over what is between them (`PlainStretch`), and the two
meet (`ReplacedIsPiecewise`). What is recursive here counts up to a number, and is unfolded by
the least number at which it would fail (`StepByStep`). For the graph, every resolver
that resolves shows something `Definite`, a list of tokens of which each stands for itself
(`PointShows`, `MatchShows`, through a boundary `WordAheadDefinite`), so every hint is
`Hinted` (`HintsAreHinted`), and so is the first expression of an entity's own name
(`FirstIsDefinite`). Of what the model named before the repair only the shape is known,
a name that is a list and ends that were named (`Told`, `GraphInv`): the new name of a time
is `Settled` whatever the old one was (`TimeNameSettled`, `RepairedNames`), and an end of a
relationship follows the entity that had its name, or the later of two (`EndsAreFollowed`).
The theorem says nothing of a turn that is not repaired. Assumed: texts and invented names are
lists; nothing of the calendar, nor of which names are invented.

The inductive invariants were first checked by TLC on the instances of the runs.

Only model-checked: liveness (`LockReleased`, `RunEnds`, `SupervisionEnds`,
`RefinementEnds`), since the prover does not reason about fairness; and two properties
of `Temporal`, `LaterReferenceLaterRange` and `NameAndRangeAgree`: they are about the
arithmetic of the calendar, a table that is defined by recursion over years and
months, with quotients and remainders in every resolver, and what the table holds for
any pair of years is an induction over data.

## Not modelled

* The texts: summaries, prompts, descriptions, the characters of a line, scores,
  embeddings. A model decides freely what is extracted, what a search returns
  and how the reranker scores; `Evidence` and `Retrieval` say what is done with it.
* The thread pool of the entity adjudication and its rate limiter.
* The metadata exports and the summary collection of the persistence manager:
  no resume reads them. Search, read-side deduplication and rebuild of the vector
  store; the fallback of the graph client from batches to rows.
* The split-summary rebuild, runs of selected stages, the error-analysis bundle,
  and the `skipped_by_watchdog` stage of older checkpoints; the seeding of the
  progress table.
* The watchdog's child manifests, and its own death: a killed watchdog leaves its
  batch running, which a second one would not know of.
* The replay modes of the LoCoMo worker, which answer from the files of an
  earlier run; the open-domain judge; `--column` and `--dry-run` of the unified
  judge and its LoCoMo aggregate. A directory of snapshots somebody edits by hand.
* The regular expressions of the temporal patterns: a token is what they make of
  it. Presets and prompts of the agent filter.
* Saves read memory in one step; a dictionary that grows while it is dumped shows
  up as a failed write only.
* The remote clients, and the reports computed from finished runs.

## Plan

1. Entity adjudication pool and rate limiter: results by index, timeouts, retries;
   the limiter's window.
2. The graph client with its fallback from batches to rows, composed with
   `TurnIngest`; the vector store's search and rebuild.
3. The LoCoMo aggregate over samples and the split-summary rebuild.

Theorems to prove next: that the calendar's tables are inverse and grow with their
arguments, and from it `LaterReferenceLaterRange` for the resolvers that count days.
