# RegMind-LK in TLA+

Specifications, model checks and proofs for RegMind-LK (`sltda_mcp`): an MCP
server that answers questions about Sri Lankan tourism regulation, and the
ingestion pipeline that feeds it. Paths below are relative to the repository;
`ingestion/` and `mcp_server/` are under `src/sltda_mcp/`.

Check a module with `tlc -config X.cfg M`, its proofs with `tlapm M.tla`.

## The system

Two containers share two stores.

* The **ingestion** container runs `ingestion/pipeline.py` from a schedule:
  scrape, detect changes, download, extract, chunk, embed, load a *staging*
  side of both stores, test it, and cut over.
* The **server** container runs `mcp_server/main.py`: fourteen tools on one
  asyncio event loop, which read PostgreSQL, search Qdrant and ask Gemini.
* **PostgreSQL** has every content table up to three times: `t` (read by the
  tools), `t_staging` (written by ingestion) and `t_old` (kept for a rollback),
  and the one row of `system_metadata` that says where a cutover stands.
* **Qdrant** has collections behind the alias `sltda_documents`.

| Component | State | Operations | What is hard | What makes it correct |
|---|---|---|---|---|
| Cutover (`ingestion/cutover.py`, `qdrant_upsert.py`, `qdrant_client.reassign_alias`) | collections, alias, three names per table, metadata row | cutover, rollback, clean-up, staging rebuild | two stores without a common transaction; a stop between any two statements; a lost commit acknowledgement; procedures that overlap | readers always have tables; an offered rollback is possible; metadata agrees; rows are not lost |
| Pipeline (`ingestion/pipeline.py`) | step of the run, advisory lock | thirteen steps, four aborts | order of steps, leftovers of aborted runs | publishes what it loaded |
| Change detection, downloads (`change_detector.py`, `downloader.py`) | manifest file, results of the run | detect, write | failed downloads, crashes between ingesting and recording | nothing is skipped but what was ingested, failed to parse or was rehearsed |
| Synthesis guard (`mcp_server/rag.py` 49-56, 277-321, `main._timed_tool`) | semaphore, breaker, thread pool | acquire, call, count, trip | cancellation at every await; threads that outlive their caller | permits conserved, nobody starves, breaker closes |
| RAG cache (`rag.run_rag`) | `_rag_cache` | look up, store, invalidate | awaits between look-up and store; another process cuts over | bounded staleness |
| Rate limiter (`mcp_server/rate_limiter.py`) | deque or Redis counter, the choice between them | check | concurrent first checks; Redis errors; window edge | never more than the limit in a window |
| RAG retrieval (`rag.py`, `query_expansion.py`) | none | expand, filter, rerank, assemble, ground | boundaries | keeps the best, within the budget |
| Loading (`pg_sync.py`, `chunker.py`, `embedder.py`, `qdrant_upsert.py`) | staging rows, chunks, points of the run | sync, split, embed, upsert | statements that commit one by one; chunk indices; overlap | every document that did not fail is loaded whole; nothing lost, no index twice |
| Tools and envelope (`main.py`, `mcp_server/tools/`) | pool, log tasks | fourteen tools | tables and index read at different moments; pool at its limit | simple tools answer for one moment; connections come back; every call ends |
| Authentication (`mcp_server/auth.py`) | key cache | dispatch | stale cache | a deactivated key stops within the ttl and one lookup |
| Health (`mcp_server/health.py`, `notifications.py`) | last alerted status | check, alert | several instances | a bounded number of alerts per transition; the row settles |
| Extractors, format identifier, validator, scraper | none | parse | text | - |

## Modules

`BlueGreen` (73 lines) is the abstract promise, `Cutover` the code. `MC*` modules give TLC
its constants, `*Proofs` modules hold the theorems.

### BlueGreen, Cutover

`BlueGreen` has three variables: what a search finds (`index`), what the tools
read (`tables`), what is kept (`retained`). It says that the index goes first,
that tables only follow to a set with all the runs the index serves, that what
is replaced is retained and nothing retained is overwritten, and that the tables
go back only when the index already serves the retained set.

`Cutover` has one action per statement that commits on its own. A table or a
collection is *there* or not and holds the rows of a set of ingestion runs.

| Code | Actions |
|---|---|
| `ensure_staging_collection` | `DropStagingCollection`, `CreateStagingCollection` |
| document loop, `pg_sync` | `SyncStagingTables` |
| embed, upsert, point count | `UpsertChunks` |
| `_smoke_tests` | `SmokeTestsPass` |
| `execute_cutover` | `MoveAlias`, `MarkQdrantDone`, `SwapTables` or `SwapFails`, `RevertAlias`, `MarkComplete` |
| aborts, exceptions, crashes, dry run | `RunStops` |
| `execute_rollback` | `RollbackAlias`, `RollbackTables`, `RollbackStops` |
| `cleanup_old_data` | `CleanupReads`, `DropOld(t)`, `CleanupCloses`, `CleanupStops` |
| 48 hours pass | `WindowPasses` |

`SwapTables` lets the transaction commit while the code sees an exception (the
acknowledgement was lost) and goes on to the compensation. `AliasMovesTo` fails
on a missing target, as Qdrant does; a deleted collection loses its aliases.
`Init` starts with or without `sltda_documents_prev`, which nothing in the
repository creates. `_smoke_tests` also queries `business_categories_staging`;
it stands or falls with the other staging tables, since renames move all tables
at once, and is among `Staged`.

Two constants say what the operator does. `Serial`: procedures do not overlap.
Only the pipeline takes the advisory lock, so this is discipline, not code.
`Runbook`: `execute_rollback` is called only within its window, which the README
of the repository asks for and the function does not check.

### ChangeDetection

One run at a time: `Scrape`, `Downloaded(d)` or `DownloadFailed(d)` for every
candidate, `DetectChanges`, `Process`, `Publish` or, in a dry run,
`SkipCutover`, `OpenManifest`, `WriteManifest`, and `RunStops` anywhere, while
the site updates and lists documents as it likes. Whether a run is dry matters
in one place only, so the choice is made there. A hash is a version number.
`ingested` and `tolerated` are histories for the property: the versions the live
collection came to hold at a cutover, and those without which a run went on to
its manifest, because they failed to parse (`pipeline.py:278`) or the run was
dry (345). A manifest records both. The order is the one that
`detect_changes` and `write_manifest` need by their signatures, and their unit
tests use: both take download results. `run_pipeline` hands them scraped
candidates, which have no `status` or hash (see below).

### Synthesis

`_synthesise` under `_timed_tool`. A tool call is idle, waiting for a permit,
granted one (woken, not resumed), calling, or finished. Its job in the thread
pool is queued or running, and has a result. The semaphore is that of Python
3.11, the image's version: a permit is never taken past a waiter, `release`
grants it to the head of the queue, a resumed waiter wakes the next when
permits are left. `GiveUpWaiting`, `GiveUpGranted`, `GiveUpCalling` are the
three places where `asyncio.wait_for` can cancel; the last leaves its thread
running as an orphan. `failures` saturates at `Trip`, as only `>=` looks at it.

### RagCache

`run_rag` from look-up to store in the steps its awaits make, replies reduced
to their kind and the release of the index they came from. `Publish` and
`Invalidate` are the cutover's alias move and `invalidate_rag_cache`;
`OneProcess` says whether they are in the server's process. Time is in ticks: a
request ends within `Timeout` (`asyncio.wait_for`), an entry within `Ttl`.

### RateLimiter

One key. Each instance finds out with its first calls whether Redis answers;
calls in flight at that time decide for themselves (`FirstCheck`,
`PingAnswers`, `PingFails`), later ones follow `_redis_available`
(`LaterCheck`). `CheckRedis` is INCR and EXPIRE, which Redis runs together;
`RedisFails` lets the call through. `recent` is a history of what Redis counted,
which the code does not have; properties compare the counters with it.

### Requests

One server process. A call is `new`, waits for a lookup's connection, is in its
`select` or `update`, `admitted`, in its `tool`, wants or has a connection for a
`read`, or is `done`. `CachedKey`, `KeyExpiresUnderRead`, `UnknownKey` are the
ways through the key cache (`auth.py` 64-73); `SelectFinds`, `SelectFindsNone`,
`LookupFails`, `Admit` the lookup; `RateLimited`, `StartTool`, `WantRead`,
`ReadEnds`, `Timeout`, `FinishTool` the wrapper that `main.py` repeats for every
tool; `LogTakes`, `LogEnds`, `LogRefused` the detached log task; `ClosePool`,
`PoolClosed` the shutdown. A wrapper's two halves are mapped to one half of the
repeated wrappers each. `seen` and `lastActive` are histories for the
properties. The cache's clock is coarse: at the tick at which an entry expires
it may be there or not, or go between the two looks of line 65 and 66.

### HealthAlert

A checker is one poll at a time on one instance. `CheckPostgres`, `CheckQdrant`
(with Gemini, files and disk, which follow without an await),
`CheckMetadata`, then the row: `ReadRow`, `WriteRow` and their failures,
`Notify`, `NotifyLost`, `ResetRow`. `warning` is what only this instance sees.
`repeats` counts the alerts ordered since the row last changed.

### Replies

A tool is a list of at most three reads: what its first statement looks for,
what its second does, and chunks of the index. Which of these each ingestion run
brought is any assignment (`has`), and `BlueGreen`, the same module that
`Cutover` implements, moves the stores underneath. `call.seen` is the history of
the stores' contents during the call; what `_rag_cache` answers with counts as
the index of that moment. The three search tools differ from `niche_toolkit`
and `investment_process` in what they make of an empty result.

### Retrieval

`run_rag` in its order: `Search`, `Cohere`, `Rerank`, `Assemble`, and `Answer`
or `NoAnswer`. Scores are any assignment; scores, overlaps and the recency boost
are in hundredths, the weights 0.8 and 0.2 as 8 and 2. Ties are broken in every
way. The sentences of an answer and how many of them share four words with a
chunk are numbers.

### Chunker, Loading

A text is a sequence of blocks with a kind and a number of characters. A string
is estimated as `estimate_tokens` does, a quarter of its characters rounded down,
and which string that is matters: the paragraphs and sections that are added up
are estimated one by one, a whole text or a section of several blocks and a
merged list as one string with what separates its blocks. Blocks are taken to be
a blank line (two newlines) apart, items of a merged list one newline. Each
strategy of `chunker.py` is an operator from blocks to sequences of positions:
`Paragraphs`, `List`, `Clauses`, `Headings`, and `Chunks` for `chunk_document`
with its tables. `Loading` takes the documents of one run through
`_process_document`: `SyncDocument`, one of `DeleteSteps` and `InsertStep`s,
`SyncConcessions`, `SyncCategories`, `SyncSections`, `SyncToolkit`, then
`ExtendChunks`; `Fails` ends a document anywhere and leaves what it wrote. Then
`StartEmbedding`, `EmbedBatch`, `UpsertChunks`, `SmokeTests`. Where
`run_pipeline` calls a function with arguments it does not have, the model
follows the function's signature (see below).

## Runs

| Run | Shows | Distinct states |
|---|---|---|
| `serial` | `ServingTablesStay`, `RollbackReady`, `StatusMatchesActive`, `CompleteMeansAligned`, `ImplementsBlueGreen` under `Serial` and `Runbook` | 267,950 |
| `chaos` | `OneNamePerRun`, `OnlyCleanupLosesRows` without either | 553,477 |
| `changes` | `RecordedWasHandled` | 1,760,768 |
| `loading` | `TextIsIndexed`, `ChunksSound`, `TablesAreSound` | 3,376,541 |
| `synthesis` | `PermitsConserved`, `NoLostWakeUp`, `NobodyQueuesForever`, `CircuitCloses` | 61,333 |
| `ragcache` | `StalenessBounded` | 872,542 |
| `retrieval` | `ContextFits`, `NothingBetterDropped`, `ConfidenceEarned` | 244,622 |
| `replies` | `QuietCallsAgree`, `AnswersAMoment`, `PartsWereHeld` | 852,848 |
| `requests` | `ConnectionsConserved`, `DeactivatedStops`, `EveryCallEnds`, `ShutdownEnds` | 209,142 |
| `ratelimiter` | `AllowedWithinLimit`, `MemoryCountsTheWindow` | 2,308,974 |
| `healthalert` | `RepeatsBounded`, `RowSettles` | 235,712 |
| `filter` | `FilterKept` is violated, below | |

**Bounds.** `Cutover`: three runs (one to publish, one to replace it, one for
what comes after a rollback or clean-up) and one table of each kind: staged and
smoke-tested, staged only (`serial`), created without a twin like
`format_review_queue`, never created like `tourism_statistics`.
`Synthesis`: four callers on two permits leave two in the queue; two
threads, so that one orphan makes jobs queue; trip at two failures, open for
two ticks. `RagCache`: two requests on two keys, two cutovers, an entry that
outlives a request (3 ticks against 1). `RateLimiter`: two instances, limit 1,
window 2, two checks in flight, three calls per counter, so that one is allowed, one refused
and one renews; instances are symmetric. `ChangeDetection`: two documents with
two versions; `AbortOneIn` is 2, so that one of two documents may fail to parse,
where the code's threshold is one in ten. `Requests`: two calls on one connection, so that
a call waits for the other's lookup, read or log row; two keys in a cache of
one, so that a store evicts; three ticks against a ttl and a lookup of one, so
that an entry expires in mid-call and a key comes back after it stopped.
`HealthAlert`: two checkers, enough to overlap; the world changes without bound.
`Replies`: one call, since calls only meet in the cache, which `OthersSearch`
fills too; two releases and three moves, so that a release is published,
withdrawn and restored within one call. `Retrieval`: four chunks of one document
and one each of three others (more than `CoherentDocs` documents and more than
`CoherentKeep` chunks of the best), a search limit of 6, the three scores on
either side of the thresholds 0.60, 0.70 and 0.85, a context of 10 characters for
chunks of 1 to 6. `Loading`: two documents, of which one may fail; the first
has any text of up to three blocks of 3, 15 or 23 characters (headings of 7 or
15), or four of 7 or 15 (headings of 7), with a chunk target of 4 tokens, an
overlap of 1 and a short document of 2, so that a block counts nothing, one, or
less or more than a chunk, always with three characters that the estimate
drops; under each strategy, or
like the second one to three steps, a category, a toolkit or concessions under
keys both may use; batches of two.

**Deadlock.** Not checked where the program stops by itself: the number of runs
(`serial`, `chaos`), one run (`loading`), one search (`retrieval`, `filter`),
one call (`replies`). All other runs check it.

**Fairness.** Three modules have liveness properties. `Synthesis`: weak fairness of `Resume`
and of `Answered \/ Failed`: the event loop runs what is ready. Of `JobEnds`
and `OrphanEnds`: a Gemini call ends, since the client library has a network
timeout and `_call_gemini_sync` at most three attempts. Of `Tick`: time passes.
Nothing is assumed of the tool timeout or of the clients. `NobodyQueuesForever`
therefore holds without the timeout's help. `Requests`: of `Take` and
`LogTakes`: asyncpg hands a free connection to who waits; weak fairness is
enough for one call at a time on it, as everybody else's ends too. Of `LookUp` and `LogEnds`:
`command_timeout` ends statements (`database.py:31`). Of `Timeout`: the timer of
`asyncio.wait_for` fires; a tool may otherwise read for ever. `HealthAlert`: of
each checker's next step: monitors poll on, and statements end. `RowSettles`
assumes in its statement that the world stands still and checkers agree.

## What the code does against what it says

`filter` is a run that TLC ends with a counterexample: "Limit to specific SLTDA
section" (`Docs/SLTDA_MCP_Server_Production_Plan.md:1447`). `run_rag` puts the
section and type conditions into `must` (`rag.py:443`), and
`_build_superseded_filter` builds a filter with a `must` of its own and takes
over only `should` and `must_not` (172-176): neither filter has an effect.

The following are stated as definitions that no run checks; TLC violates each
under the cfg named, with the definition in place of its properties.

1. `StagingLeavesLiveAlone` (`serial.cfg`): "Never touches the live sltda_documents collection"
   (`qdrant_upsert.py:33`). Since the first cutover the alias points to
   `sltda_documents_next`, which the next run deletes first.
2. `SplitIsVisible` (`serial.cfg`): "health returns `degraded` on incomplete cutover"
   (`Docs/IMPLEMENTATION_PLAN.md:1536`). A stop between alias and status leaves
   the split with the old status.
3. `GeminiCallsLimited` (`synthesis.cfg` with `Workers = 3`, since a third call needs a third
   thread): "asyncio.Semaphore limits concurrent Gemini calls to 5" (`rag.py:5`). A
   timed out call gives its permit back and keeps its thread.
4. `InvalidatedOnCutover` (`ragcache.cfg`): "invalidated on ingestion cutover" (`rag.py:404`). The cutover runs in
   another process; and in one process a request in flight stores the old reply
   after the invalidation.
5. `RefusalCountsTheWindow` (module `RateLimiter`, one instance, `MaxInFlight = 1`, `MaxCalls = 5`): "{count} calls ... in the last 60 seconds" (`main.py:69`). The Redis
   counter's expiry is renewed by every call and never restarts for a client
   that keeps asking.
6. `UnchangedIsServed` (`changes.cfg`): "Only new/modified documents need re-ingestion"
   (`change_detector.py:5`). The staging collection is wiped and gets the
   changed documents only; after the cutover the others are not found.
7. `DryRunRecordsNothing` (`changes.cfg`): "If True, skip cutover (steps 12-13)"
   (`pipeline.py:212`). Step 13, the manifest, is not skipped (359): what a dry run
   only staged counts as unchanged in the runs that follow.
8. `AlertsOnChange` (`healthalert.cfg`): "state-change only, not every poll" (`notifications.py:10`),
   "safe for multi-instance" (`health.py:178`). Two instances that see different
   statuses overwrite each other's row and alert at every poll.

Seen while reading, with no run of their own:

* `run_pipeline` does not get past its second step: `pipeline_state` has no
  columns `step`, `status`, `details`; `detect_changes` gets candidates for
  results; `batch_result.results`, and the arguments of `embed_chunks`,
  `upsert_chunks` and `write_manifest`, do not exist as called; `init_client`
  is not called, so `reassign_alias` would raise. The models follow the called
  functions' own signatures.
* `cutover.py` has no command line, although `README.md:124` calls it with
  `--rollback`; `cleanup_old_data` and `execute_rollback` have no caller.
* After the first cutover no `_staging` table is left, and only a rollback
  brings one back: the next ingestion run fails at its first insert
  (`SyncStagingTables` is disabled). `format_review_queue`, which has no staging
  twin, loses its live name at the first cutover, which is why
  `ServingTablesStay` speaks of `Staged` tables only.
* Staging tables are not emptied between runs, although
  `Docs/SLTDA_MCP_Server_Production_Plan.md:1897` says so.
* A manifest that was cut off while being written stops every later run at
  `json.load`.
* A timeout is a `CancelledError`, which the breaker's `except Exception` does
  not see: a Gemini that hangs never opens the circuit. Failures of calls let in
  before it opened extend it beyond "resets after 30s" (`rag.py:20`).
* Excerpts after a failed synthesis and "Not found" are cached for an hour.
* All callers share the rate limit key "anonymous"; an instance whose first ping
  fails never tries Redis again.
* The `output_table` names of `ingestion/config/format_strategies.yaml` have no
  `_staging` suffix, which `pipeline.py:178-189` compares with: every document
  goes to `document_sections_staging`, `registration_steps_staging` stays empty,
  and the smoke test fails.
* `_process_document` calls `chunk_document(document_id=, text=, ...)`,
  `identify_format(pdf_path)` and `validate_extraction(dict)` with arguments they
  do not take, and looks for the PDF under the section's name where the
  downloader uses a slug.
* The result of `validate_extraction` is ignored, although `validator.py:3` says
  that invalid data is not written; `documents` rows say `is_indexed` before
  anything is indexed, and rows of documents that failed are published.
* `upsert_chunks` writes no `section_name`, `document_name`, `source_url` or
  `content_as_of`, which `rag.py:344-363` reads back: a section filter that did
  take effect would find nothing, and no chunk is ever recent.
* `_chunk_list_aware` makes everything from the first numbered item on one
  chunk, of any size, and does not split what precedes it, although its
  docstring says so.
* The target of 600 tokens bounds what the loop adds up, not the chunk: paragraphs
  are estimated one by one and rounded down, and the blank lines between them are not counted
  (`chunker.py:85`). 600 paragraphs of seven characters weigh 600 and make one
  chunk of more than 1300 tokens; paragraphs of under four weigh nothing and are
  never split. `SizesBounded` says by how much a chunk may exceed the target.
* A document that failed to parse is in the manifest all the same and is not
  tried again until it changes (`pipeline.py:278`, `change_detector.py:110`).
* `in` and the subscript of a `TTLCache` may see an entry and see it expired, a
  `KeyError` for the request: modelled for the key cache (`auth.py:65-66`), not
  for `_rag_cache` (`rag.py:417-418`), where it is one more reply without a store.
* If `_lifespan` finds no application to attach `ApiKeyMiddleware` to, the server
  goes on without authentication, with a log line at most (`main.py:115-123`).
  `DeactivatedStops` speaks of requests that pass the middleware.
* The coherence reranking keeps the *first* three chunks of the best document
  and may drop the best hit itself (`Docs/IMPLEMENTATION_PLAN.md:1134` says "top-3").
* There is no union search with the unexpanded question (`rag.py:7`,
  `query_expansion.py:5`); the separators of the context are outside its budget;
  a batch with fewer vectors than texts silently loses chunks (`embedder.py:116`).
* Network errors that persist leave `download_documents` as a `RetryError`,
  although it says that it does not raise.
* `tdl_information` may deny both levies and forms over a cutover, when each
  release has one of them: `AnswersAMoment` makes an exception for it.
* `registration_checklist` asks `registration_steps` for "registration", "renewal"
  or "inspection", where `registration_requirements` asks for "register" and "renew".
* `log_invocation` inserts `str(dict)` as `jsonb`, which is no JSON, and swallows
  the error; calls that time out leave no log row; PostgreSQL down is
  never alerted (`health.py:179`); a lookup whose `last_used_at` update fails
  refuses a valid key.

## Proofs

Eight modules, checked by TLAPS for all values of the constants that the
assumptions allow. Every safety property of the passing runs, invariant or
action property, is a theorem.

**CutoverProofs.** `TypeCorrect`, `RowsHaveOneName` and `RowsSurvive` hold for
any constants, overlapping procedures included. The others assume `Serial` and
`Runbook`. None of the invariants is inductive: `RollbackReady`, for one, needs
to know what stands under `_staging` to see that a swap retains the right rows.
`PhasesInvariant` is the strengthening

    IInv == TypeOK /\ Exclusive /\ CatalogPhase /\ IndexPhase /\ MetaPhase

Without overlap the tables' names are in one of two phases: *Fresh* (live and
staging, as the migrations or a rollback leave them) or *Retired* (live, no
staging, since a cutover), and *Published* is Retired with every `_old` table
still there. `CatalogPhase` says which phase each step of each procedure and the
metadata imply, and whose rows the `documents` table has under its names in it;
`IndexPhase` where the alias can be and what its collection holds; `MetaPhase`
what the metadata row says.
`TablesServed`, `RollbackIsReady`, `MetadataAgrees` follow from it;
`CompleteIsAligned` and `Refinement` (each action a BlueGreen step or a
stutter) are step properties under it.

**RagProofs.** `Staleness` and `CacheTypeCorrect` (RagCache): `CacheInv` adds that an
entry, and a request's search result, of a release gone for `n` ticks has at most
`Ttl + Timeout - n`, or `Timeout - n`, left; a store adds `Ttl` to what the
request had. `RetrievalTypeCorrect`, `ContextAlwaysFits`, `DroppedForAReason`
and `ConfidenceIsEarned` (Retrieval), for any chunks, scores, budgets and
thresholds: `IInv` says of each stage what it kept of the one before and, of a
hit that is gone, why. The characters of a context are a fold over a set; that
they are the sum in whatever order is by induction on the set's size.

**ChunkerProofs.** What the strategies do to every text, however long, under any
thresholds with `Overlap < MaxTokens` and `Short <= MaxTokens`. There is no
theorem about a specification in it; `IngestionProofs` uses its last lemmas,
`NothingIsMissing`, `ListsAreWhole`, `SizesAreBounded`. Chunks *cover* a text if
they are runs of positions, each beginning after the last position of the one
before or with it; segments *tile* it if they do so without overlap. Every
strategy packs segments that tile the text, and packing such segments covers it
(`PackCovers`), tears none of them apart (`PackWhole`), and, when they are
single blocks, makes no chunk of three or more whose blocks' estimates sum to
more than the target, so that its characters are at most five a block beyond
(`PackFits`).

`Pack`, `Length` and `Sections` are recursive functions. That such a function
has its values, one step after the other, is itself to be proved (`Iteration`),
by induction. The library's induction theorems take an operator, which none of
the provers used here can instantiate; `LeastOf` and `UpTo` do with sets instead: a
set of numbers that is not empty has a least element, as `<` is well founded.

**IngestionProofs.** `EverythingIndexed`, `TablesSound`, `ChunkingSound` and
`LoadingTypeCorrect` for any documents, texts, thresholds and batch size, with
any number of failures allowed. The
properties speak of the end of a run, or of one moment of it; `LoadingInvariant`
says what is loaded at every moment:

    LoadingInv == ProgressInv /\ RowsInv /\ StepsInv /\ IndexInv

`ProgressInv`: documents are read one by one, each of those before `doc` is
either loaded or counted as failed. `RowsInv`: a row is what its document makes
it, a category's is the only one, and a document whose tables are written has
its row. `StepsInv`: the steps of a document are its first ones up to a number;
while it inserts, no other document has its key; once it is done it has them
all, or none because a later one took the key. `IndexInv`: the chunks are those
of the loaded documents, each once, which is why `Dedup` keeps all of them
(`NoDuplicates`) and an upsert replaces none; the collection is empty or has
them all. The invariant was model-checked first, to the end with three documents
and half-way through the `loading` instance.

The proof found one flaw of the model: `Split` was a CASE whose arms overlapped (a short
text under any strategy), which TLA+ leaves open and TLC resolves by order. The
code looks at the length first in every strategy; so does `Split` now.

`Recorded` and `DetectionTypeCorrect` (ChangeDetection): the strengthening
`Recordable` says that what a run is about to record is, before the cutover,
changed or already in the manifest, and after it, or after it was skipped,
ingested or tolerated.

**SynthesisProofs.** `TypeCorrect`, `PermitsKept`, `WakeUps` and `JobsOfHolders`
for any callers, permits and threads. A release hands its permit to the head of
the semaphore's queue without passing through the counter, so `PermitsConserved`
is inductive only if that head really waits: `IInv` adds that the semaphore's
queue is exactly the waiting calls, each once (`Lined`), likewise for the jobs
no thread has taken, that only a call that holds a permit has a job, and that
running jobs and orphans together fit the pool. `NoLostWakeUp` survives because
whoever queues past a free permit finds somebody granted, and a granted call
wakes the next one both when it resumes and when it is cancelled.

**RequestsProofs.** `RequestsTypeCorrect`, `ConnectionsAreConserved` and
`DeactivationTakesEffect` for any calls, keys, pool and cache. Conservation
counts holders: every step adds or removes the one call it is about, or leaves
the set alone. Deactivation needs to know how old what a cache entry says may
be: `LooksBack` adds that an entry was stored within a lookup of a moment at which
its key was active, and that an UPDATE under way began at one, so that neither a
hit nor a late store lets a key in beyond ttl plus lookup.

**RepliesProofs.** `RepliesTypeCorrect`, `QuietCallsAreExact`,
`RepliesAnswerAMoment` and `RepliesHoldWhatWasHeld` for any calls, runs and
releases, and however the stores move: nothing of `BlueGreen` is used. `IInv` says, of a call under way, that the present is among
the moments it has seen, and that what it holds so far is, if it saw one moment
only, exactly what that moment held of what it asked up to there.

**ServerProofs.** `LimiterTypeCorrect`, `LimiterKeepsTheLimit` and
`MemoryCountIsExact` (RateLimiter) for any instances, limit and window. Of a deque the
invariant says that it is sorted by age, so that pruning from the left drops
exactly what is out of the window, and that a check was allowed at a position
within the limit, which only falls. Of Redis it says that what was counted in
the last window is no more than the counter, because the counter goes only a whole
window after its last check.
`AlertTypeCorrect` and `AlertsPerTransition` (HealthAlert), for any
checkers. That at most one alert per checker is ordered since the row last
changed is not inductive: `AlertInv` counts with them the checks that are about
to write what the row already says, each of which read it before it did.

Model-checked only: the liveness properties (`NobodyQueuesForever`,
`CircuitCloses`, `EveryCallEnds`, `ShutdownEnds`, `RowSettles`), as the provers
have no rule for fairness and ENABLED; and the counterexample of `filter`. `BlueGreen` has no
theorem of its own; `Refinement` is about it.

## Not modelled, and what is left

Not modelled: PDF extraction, format identification, validation, scraping and
query expansion are regular expressions and parsing over text and keep no state;
`downloader.py`'s pace and retry decorator only decide how long a download
takes before it succeeds or fails; configuration, logging and wording. Of
`run_pipeline`, the rows of `pipeline_state` and its notifications are left out,
as nothing reads them back. `health.py`'s counters are reported and decide
nothing.

Worth adding: `RagCache` as an implementation of a cache that serves one release
or the one before; ingestion runs one after the other over the same tables
(`Loading` is one run on empty ones), which the code does not reach today.
