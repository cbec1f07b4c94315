# Formal models of Lapua-RAG

TLA+ modules, TLC configurations and TLAPS proofs for the repository in `src/`:
the ingest pipeline and the batch script around it, extraction, the query path,
the API with its keys, the front end, the statistics and the version hash.
Paths below are relative to that directory; `lapua_rag/` is short for
`src/lapua_rag/`.

    tlc -workers 2 -config IngestRace.cfg MCIngestPipeline.tla
    tlc -workers 2 -config IngestSolo.cfg MCSysteemi.tla
    tlc -workers 2 -config QueryOverIngest.cfg MCQueryPath.tla
    tlc -workers 2 -config WebApi.cfg MCWebApi.tla
    tlc -workers 2 -config BatchExtraction.cfg MCBatchIngest.tla
    tlc -workers 2 -config TextFunctions.cfg MCTextFunctions.tla
    tlapm IngestPipelineProofs.tla

`PROJECT.json` lists which module and configuration make up each run.

## 1. The system

Minutes of municipal boards arrive as PDFs. *Ingest* turns one PDF into rows,
files, vectors and full-text rows; a *query* searches them and answers with
citations, or abstains.

| Component | State it keeps | Operations | Talks to |
|---|---|---|---|
| Ingest pipeline, `pipeline.py` | local variables of one call | `ingest` | every store, OCR, embedder, extractor |
| Relational store, `db/` | documents, pages, chunks, api_keys, audit_log (tables, decisions: never written) | `session_scope` transactions | everyone |
| Vector index, `index/qdrant.py` | one collection, a point per chunk | `ensure_collection`, `upsert`, `search` | ingest, search |
| Lexical index, `index/bm25.py` | an FTS5 table in a SQLite file of its own | `upsert`, `search` | ingest, search |
| Storage, `storage/layout.py` | `<tenant>/<YYYY>/<MM>/<doc_id>/` | `for_document` | ingest, OCR |
| OCR, `ocr/pipeline.py` | page files | `run`, `_canonicalise_page_files` | Paddle |
| Post-processing, `postprocess/` | none (document.md) | consolidate, detect type, chunk | ingest |
| Extraction, `extract/` | none | `extract_document`, `LlmClient` with retries | LLM server |
| Retrieval, `index/hybrid.py`, `retrieve/`, `rerank/` | none | rewrite, fuse, rerank, boost | both indexes, chunks |
| Answers, `rag/answer.py` | none | gate, retrieve, extract, synth | search, LLM |
| Query API and audit, `api/routes/query.py`, `audit/` | audit_log | `POST /v1/query`, background `log_query` | answers |
| API keys, `api/auth.py`, CLI | api_keys | create, revoke, resolve | every endpoint |
| Statistics, version, coverage, `systeemi/` | none | sums over two reads | documents, chunks |
| Queue and watcher, `ingest/` | documents rows | enqueue, pending, mark | nothing calls them yet |
| Batch script, CLI, MCP server | log file, counters, exit code | calls of `ingest` | ingest |
| Aggregates, documents, upload, system, `api/routes/` | none | read, upload | every store, ingest |
| Front end, `frontend/` | chat turns, answer mode, localStorage history | submit, push, clear, reload | API |

What makes it hard:

- **No coordination between workers.** The API, the CLI and the batch script
  each build a pipeline and call `ingest`; nothing but the primary key of
  `documents` keeps two of them off the same PDF.
- **Four stores, no common transaction.** Rows, files, points and full-text
  rows are written one after another; a crash or another worker may come
  between any two writes.
- **Nothing resumes.** There is no handler around `ingest`: an exception and a
  crash leave the same half-written state, and only a new call goes on.
- **Re-runs merge.** Existing page files are kept, chunk rows merged, points
  and full-text rows upserted by ids that hold neither tenant nor reading.
- **Queries read while ingest writes**, twice from the same table, and filter
  by tenant in the indexes only.
- **The LLM returns anything** its contract lets through, or raises; which
  exceptions are caught depends on which client raised them.
- **A key is read and written in two transactions**, and an upload holds the
  event loop while it is ingested, so that every other request waits.
- **Tabs share one stored history** without a lock, and a reply may come to a
  tab that was reloaded, or never.

What makes each part correct: a hit resolves to a chunk and a document;
`indexed` is never an early promise and is never taken back by the worker
itself; what a finished run produced stays searchable; a document keeps its
first tenant; a query is answered from its tenant's chunks, cites only what
exists, shows the LLM nothing below the threshold, and always ends; a dead key
is refused and stays dead; a turn shows what was answered; an exit code of 0
means that every PDF is indexed; a decision is missing only where the model gave
none or the local client raised a `ValueError`; and a chunk holds, with its
pages, every line of its section.

## 2. Modules

| Module | What it is |
|---|---|
| `IngestPipeline` | `LapuaPipeline.ingest` by any number of workers over the shared stores |
| `DocumentCatalogue` | what ingest promises its readers: registration, publishing, completion |
| `Systeemi` | `IngestPipeline` with the readers of `systeemi/`: statistics and version hash |
| `QueryPath` | retrieval, answer and audit of `POST /v1/query` while ingest writes |
| `Access` | API keys and the three handlers that use their tenant |
| `ChatHistory` | turns, mode and stored history of the browser tabs |
| `WebApi` | composition of `ChatHistory` (front end) with `Access` (API) over a network |
| `Chunking` | `consolidate_markdown`, `detect_doc_type`, `chunk_document` as functions |
| `Extraction` | `extract_document` over the two LLM clients, with retries |
| `BatchIngest` | the batch script and `ingest-dir` around ingest, with `Extraction` step by step |
| `QueryText` | query rewrites, rank fusion and the quote of an extract answer as functions |
| `Orders` | sorted lists: `sorted()` with a key, and a loop over a list that keeps some of it |
| `TextFunctions` | calls of the functions of `Chunking` and `QueryText` |
| `MC...` | the model values, corpora and inputs of the instances |
| `...Proofs` | the theorems about a module and their proofs (section 5) |
| `DataLemmas` | induction over numbers and finite sets, sums, sorting, flattening: what the proofs about functions rest on |

`BatchIngest` extends `Extraction`, which extends `Chunking`; `Chunking`,
`QueryText` and `QueryPath` extend `Orders`. `WebApi` extends `Access` and takes
`ChatHistory` by `INSTANCE`. `IngestPipeline` implements `DocumentCatalogue`, and
`WebApi` implements `Access`.

### IngestPipeline

A worker is a process; `pc` is its place in `ingest` and `job` its local
variables. One action is one transaction or one external call. A check and the
write that follows it in the code are separate actions exactly when another
worker can run in between:

- `Ingest` is `_lookup` with the branch after it; `LookupRaises`,
  `LookupSkips` and `LookupProceeds` are its ends.
- `PrepareLayout`: `DocumentLayout.for_document` and the `exists()` test.
  `OpenCopy` and `FinishCopy`: the open in `shutil.copy2`, which truncates, also a
  copy another worker has made since the test, and the end of the copy. The
  source is `partial` in between, and `copier` is the worker that opened it last:
  its end makes the file whole, that of an earlier one perhaps.
- `UpsertReads`, `InsertRow`, `InsertConflicts`: `db.get` and the insert at
  commit, which the primary key may refuse.
- `OpenPdf`, `OcrPage`, `FinishOcr`: the loop of `OcrPipeline.run`, a page at a
  time, each canonicalised as it comes. Each reading is a free choice: OCR of
  another run may differ.
- `PersistPages`, `Consolidate`, `UpdateDoctype`, `StoreChunks`: the functions
  they are named for. A text is the sequence of its pages' readings; its chunks
  are `ChunkIds[text]`, a constant, so that every chunker is covered.
- `EnsureCollection`, `DropCollection`, `CreateCollection`, `CreateConflicts`:
  the three requests of `ensure_collection`. `UpsertVectors` and
  `CollectionMissing` are the two answers to the upsert that follows.
- `SetOcr` ... `SetIndexed`: `_set_status`, which replaces whatever it finds.
- `Abort`: an exception or the end of the process, at any place. The two leave
  the same shared state.

`completed` is a history variable: the pairs of document and text whose run set
`indexed`. `started` and `aborts` bound the instance; of the properties only
`IndexedUnlessAborted` reads one of them.

`CollectionReady` says whether the Qdrant collection exists before the first
worker starts. `ExpireOnCommit` is the `expire_on_commit` of the session: TRUE
is the default and what `Session(get_engine())` (`lapua_rag/db/session.py:31`)
gives. The row `_lookup` returns is detached once `session_scope` has committed
and closed, so its first attribute access raises. Other callers avoid it
(`lapua_rag/api/routes/audit.py:59` and `lapua_rag/retrieve/search.py:144` copy
what they need inside the session). With TRUE, which is the program as it is,
no registered document gets past the look-up again: one whose run died is never
indexed. With FALSE, the pipeline is the one its documentation describes. The
behaviours with FALSE include those with TRUE except for the failed look-ups,
which change no store, so a safety property that holds with FALSE holds with
TRUE. `IngestSolo` uses FALSE, to have retries over what a crash left, and checks
safety only; all the others use TRUE.

### DocumentCatalogue

Three actions: a document is registered once for one tenant, labels become
searchable, and a text completes only when all its chunks are searchable. The
refinement mapping takes `owner` from the documents rows, `searchable` from the
intersection of the three stores, `complete` from the history. A chunk that is
in one index only is not promised to anyone.

A second mapping, `LexicalCatalogue`, takes `searchable` from the chunk table and
the full-text index alone: what the sparse half of a search finds
(`index/hybrid.py:69`). It is what is left when the collection is recreated under
a running ingest: a drop of the collection and a write of points are then
stutters, so the promise needs no `CollectionReady`.

### QueryPath

A request goes from `Query` through a dense and a sparse search per query
variant, `Rerank` (which reads the texts), `LoadFacts` (which reads the rows
again, adds the boost and sorts), the gate, at most one LLM call, to the
response and the audit row. Between any two of its steps, ingest may write a
chunk: the row, then the point, then the full-text row, or stop halfway
(`Write`).

Abstractions:

- Distances, BM25 ranks and RRF scores are a free choice of which chunks are
  returned; only the set matters, since the reranker orders it anew. Sizes are
  the code's: the vector search returns its nearest `top_k` whatever their
  distance, the lexical one at most `top_k`.
- A document has one chunk. Its text is one of a few classes the boost tells
  apart. Scores are integers in steps of 0.05: 2 is the threshold, a decision
  gains 4, an attendance list loses 3.
- `tenant` in a result is not in the code's `RetrievalResult`; it is kept to
  state whose chunk was shown.
- The LLM's extract reply is an index, or anything that makes the code fall
  back; the fallback may choose any of the results. Its synth reply is any
  combination of text class, abstention, reason and sources that validates.
- `Owner` is the tenant each PDF was first ingested for; `SharedPdfs = FALSE`
  says that no two tenants ingest the same bytes. With TRUE, tenant separation
  does not hold, for the reason `IngestTenant` shows.

### Systeemi

`ReadDocuments` and `ReadChunks` are the two selects of `gather_stats`, with
any number of worker steps between them. `KeepAnswer` stands for a consumer of
`compute_system_version`, which keeps what it drew from the chunks under the
hash; the hash is the set of the indexed documents' ids, as two sets of
`(doc_id, sha256)` differ exactly when the sets of ids do. A version therefore
names the chunks of indexed documents only. With two workers a re-extraction may
change chunks under an unchanged hash; with one it cannot, since an indexed
document is never taken up again. A behaviour has one report or one kept
answer: neither changes what another reader sees.

### Access, ChatHistory and WebApi

A request is a record with a `stage`. `Resolve` is the select of
`require_api_key` with its checks, `Touch` the update of `last_used_at` that
follows in the same session: a revocation or another request may come between.
`Start` leads from there to the handler: queries and aggregates run in threads,
an upload (`BeginIngest`, `FinishIngest`, `IngestFails`, `NotPdf`) on the event
loop, held in `loop`; while it is held no request is received and none replied
to, though the threads go on, and a request sent meanwhile arrives when it is
free. `Record` is the
background task, which may fail, and `Crash` fails every request that is not yet
replied to. `stale` is a history variable: the key was already dead when the
request came. No command sets `expires_at`; rows that have one are rows an
operator wrote.

`ChatHistory` takes what a tab does between two awaits as one step, with one
exception: `pushHistory` takes the time, reads and writes localStorage, and
browsers run tabs of one origin in processes of their own. So the answer with
the new entry (`ReceiveAnswer`), the `getItem` (`LoadHistory`) and the `setItem`
(`StoreHistory`, or `StoreThrows` when the storage is full) are three steps;
`pushing` holds the entry, then also the list. Timestamps are not modelled: clocks
may tie or be set back. An entry has the set of requests stored before it was
made (`before`), and newest first means that none is ahead of one that was made
after it had been stored. Of two overlapping pushes either may come first:
sorted by timestamp, as the comment of `frontend/lib/history.ts:17` may be read, the
list need not be. `PastHistories` are the lists an earlier session may have left.

`WebApi` joins them. The front end sends neither a key nor a tenant
(`frontend/lib/api/client.ts`), so with auth on each of its questions is refused
(401) and nothing is pushed; what else a tab does, change its mode, reload or
clear, is left out of those behaviours. With auth off nobody reads a key, so
those behaviours have none. A request that does not validate (422) is one of
those that fail: a tab sees a status that is not 2xx. Requests are
numbered in the order they are sent. The reply may be lost (`LoseReply`) while
the server goes on. The two classifiers, `classifyQuery` of the front end and
`classify_aggregate_query` of the API, are constants; in the instance they
disagree, as they do on some questions.

### Chunking, Extraction and BatchIngest

A text is a sequence of lines. A line is of a kind the chunker tells apart
(page marker, section, bare section, heading, body) and has the page it is from;
blank lines are left out, and the unit of a window is a line in the place of a
character. A chunk is the lines it takes. A bare "§ N" takes the next line as
its title, a marker or not.

`Extraction` has one action per turn of the loop or attempt of the client. A call
may go wrong in four ways (`Troubles`): a `ValueError` without an answer, another
exception, an answer that is no JSON, JSON that is no decision.
`extract/pipeline.py:41` catches the `ValueError`s of the local client, those of
the libraries that load its model and its adapter too; in the remote client
tenacity wraps all but the last in a `RetryError`, which is not caught (`Caught`).
`misread` and `unanswered` are history: the sections the model answered with
something that is no decision, and those left out without an answer. Whether the
local model is loaded is left out: any call may go wrong in any way, so a model
half loaded that never answers is among the behaviours.

`BatchIngest` keeps of ingest the row's status and the chunks, and its branches:
an indexed document is returned as indexed, an unreadable row raises, every
stage may raise. Before the first PDF come the listing (`BeginBatch`, or `NoPdfs`),
`build_default`, which may raise (`BuildRaises`), and the open that truncates the
log (`OpenLog`): a batch that ends before it leaves the log of an earlier one.
The command (script or `ingest-dir`), the client, `--skip-extract`
and `expireOnCommit` are chosen once per behaviour. A batch may be killed
between any two steps and another begun over another tree.

### QueryText and TextFunctions

Pure functions have no state of their own: `TextFunctions` has one call, chosen
in `Init`, and what it returned. A question is a sequence of words, and may be all
blanks (`lapua_rag/api/routes/query.py:28` counts characters): then no variant
has an end to keep, and the one that mentions Lapua is still there. Fusion
scores are integers in the ratio of the code's fractions; where two are equal,
rounding may give either order, so `Fusions` is a set. The sentence of a quote is
its length and the number of the question's words in it. A quote of the model's
own is not compared with any chunk, in the code and here.

The docstring of `_extract_quote` says that the index is clamped to the number
of chunks in the prompt. That of the fallback is not: it ranges over all the
results. The quote is right in both cases, so it is noted here only.

## 3. Runs

| Run | Instance | Shows |
|---|---|---|
| `IngestSolo` | 1 worker, 1 document, 1 tenant, 2 months, 2 pages, 2 readings, 3 runs, 2 aborts, a reader of the statistics or the version | types, `StatusIsBacked`, `IndexedIsFinal`, `VersionNamesContent`, `IndexedAreCounted` |
| `IngestRace` | 2 workers, 2 tenants, 1 page, 2 readings, 2 months, 2 runs, 1 abort | `ReferentialIntegrity`, `CompletedRunsStaySearchable`, `IndexedMeansCompleted`, `RegistrationIsPermanent`, `IndexedUnlessAborted`, refinement of `DocumentCatalogue` |
| `IngestBootstrap` | 2 workers, 1 tenant, no collection yet | `ReferentialIntegrity`, `CompletedRunsStayStored`, refinement of `DocumentCatalogue` for the sparse half of a search |
| `QueryOverIngest` | 1 request, 2 tenants, 3 chunks, 2 variants, 1 write | the query properties and `Responds` |
| `WebApi` | 2 requests, 1 key, 2 tenants, 2 tabs, a history of 2 entries at most, with none or one to begin with, 1 change of mode, 1 tick | the key and front end properties and `TurnsSettle` |
| `BatchExtraction` | 2 documents, trees that are empty, plain or hold a PDF twice, 2 batches, 3 attempts, 2 readings | exit code, log, decisions and `BatchEnds` |
| `TextFunctions` | every 2 pages of up to 3 lines, questions of up to 4 words, 3 rankings of 3 chunks, sentences at the edges of the budget | the text functions against what they are to return |
| `IngestReingest` | as Race, 1 tenant, 1 month | violation of `ReingestIsNoOp` |
| `IngestTenant` | as Race, 1 month | violation of `OneTenantPerDocument` |
| `IngestSource` | as Race, 1 worker, 1 tenant, 1 month | violation of `IndexedIsWhole` |
| `IngestCollection` | as Bootstrap, 2 runs | violation of `CompletedRunsStaySearchable` |
| `QueryGate` | 1 request, no writes | violation of `GateIsOnRerankScore` |

Why the bounds are enough.

*Ingest.* Documents do not interact except through the collection, so one is
taken; two workers are the least that race. `IngestSolo` and `IngestBootstrap`
have three runs, so that one may begin over what two left behind; in `IngestRace`,
where no call gets past the row once there is one, a third could only begin
before that, and there are two. Two readings with one and two chunks give texts whose
labels overlap, grow and shrink. Two pages let a crash fall between pages and
the texts of two runs mix; a second month gives a later run a directory of its
own. One report or one kept answer is enough, since the readers change nothing.

*Queries.* One request is enough since requests share no state they write. Three
chunks are one more than `top_k` returns, and the prompt and the listing hold
fewer than the search finds. All chunks are the first tenant's: the second one's
request must find none of them. The theorem has chunks of any tenants.

*API and front end.* Two requests are the least of which one waits for the loop
that the other holds, one is resolved while the key of the other is revoked, and
two tabs push over each other's list; with an entry of an earlier session the
list of two is full and the oldest is cut. One change of mode may fall before,
within or after a turn. The key may be there from the start, with
or without an expiry, or be created for either tenant; one tick passes every
expiry. The four calls of other clients are a query and an upload, each with
and without the key; the query names a tenant in its body that need not be the
key's.

*Batches.* Two batches give a killed one and its successor; a tree with a PDF
twice meets a document its own batch has indexed or failed on. Three attempts
are the code's. The first reading has a section of two windows and a bare
section behind a page that could not be read, the second has none.

*Text.* A window holds three lines and overlaps by one; two pages of three
lines with their markers give parts of up to three windows. The budget is the code's 600
characters; the lengths are those at which its tests change.

Deadlock is not checked: no call need ever come, and the bounds stop the calls.

Fairness. In `IngestRace` a started run goes on while its process lives
(`WF(Run)`); nobody has to call again. `IndexedUnlessAborted` promises nothing
once a run has raised or died, since no later call takes the document up again.
The loser of the race for the row is not counted among those: its end must not
cost the document its index. In `QueryOverIngest` a handler goes on
(`WF(Handle)`): every external call returns or raises, by the HTTP clients'
timeouts and the retry limit. In `WebApi` some thread, event loop or tab goes on
as long as there is work for one (`WF(Proceed)`). One condition for all is
enough, and is all that is assumed: a request takes finitely many steps, so none
can be passed over for ever. Calls, crashes, lost replies and administration are
not fair. In `BatchExtraction` the one thread of the batch goes on (`WF(Work)`):
OCR ends, a call to the LLM has a timeout and the attempts are bounded. The kill
is not fair.

## 4. Where code and documentation disagree

1. **Re-ingest raises** (`IngestReingest`). `pipeline.py:74` reads `status` of a
   detached row; the module promises a no-op. For the same reason a document whose
   first run died after its row was inserted is never indexed.
2. **One PDF, two tenants** (`IngestTenant`). The ids carry no tenant; the
   chunks go over to the second tenant, the document stays with the first.
   `docs/architecture.md:13` promises hard separation.
3. **A partial source stays** (`IngestSource`). A copy cut short by a crash is
   never copied again, and the document is indexed from what is there. With two
   workers the same comes about without a crash: one reads what the other is
   still copying.
4. **The collection is recreated** (`IngestCollection`). Of two workers that
   find none, the slower drops the points of the faster.
5. **The gate sees the boosted score** (`QueryGate`), where the documentation of
   `min_score` speaks of the cross-encoder's.

## 5. Proofs

For all values of the constants that meet the named assumptions: any workers,
documents, tenants, keys, tabs, requests, chunkers, scores and bounds.

| Module | Theorem | Statement |
|---|---|---|
| `IngestPipelineProofs` | `TypeCorrect` | `Spec => []TypeOK` |
| | `RegistrationHolds` | `Spec => RegistrationIsPermanent` |
| | `ReferencesHold` | `Spec => []ReferentialIntegrity` |
| | `CompletedStored` | `Spec => []CompletedRunsStayStored` |
| | `CompletedSearchable` | `Spec => []CompletedRunsStaySearchable`, if `CollectionReady` |
| | `IndexedCompleted` | `Spec => []IndexedMeansCompleted` |
| | `Refinement` | `Spec => ImplementsCatalogue`, if `CollectionReady` |
| | `LexicalRefinement` | `Spec => ImplementsLexicalCatalogue` |
| `SysteemiProofs` | `StatusBacked` | `Spec => []StatusIsBacked`, if `OneWorker` |
| | `IndexedFinal` | `Spec => IndexedIsFinal`, if `OneWorker` |
| | `ReadersAreUnseen` | `SysSpec => Spec` (of `IngestPipeline`) |
| | `VersionNames` | `SysSpec => []VersionNamesContent`, if `OneWorker` |
| | `ReportsCount` | `SysSpec => []IndexedAreCounted`, for one tenant |
| `QueryPathProofs` | `QueryTypeCorrect` | `Spec => []TypeOK` |
| | `GateAlwaysHolds` | `Spec => []GateHolds` |
| | `CitationsAlwaysHold` | `Spec => []CitationsHold` |
| | `BestAlwaysFirst` | `Spec => []BestFirst` |
| | `TenantsSeparate` | `Spec => []TenantSeparation`, if not `SharedPdfs` |
| | `ExtractAnswers` | `Spec => []ExtractAlwaysAnswers` |
| `WebApiProofs` | `AccessTypeCorrect` | `Spec => []TypeOK` |
| | `DeadKeysRefused` | `Spec => []DeadKeysAreRefused` |
| | `KeysTenantServed` | `Spec => []ServedForKeysTenant` |
| | `RevocationHolds` | `Spec => RevocationIsFinal` |
| | `WebTypeCorrect` | `WebSpec => []WebTypeOK` |
| | `HistoryNewestFirst` | `WebSpec => []HistoryIsNewestFirst` |
| | `WebImplementsAccess` | `WebSpec => Spec` (of `Access`) |
| | `WebKeysHold` | the theorems about keys, under the front end |
| | `HistoryAnswered` | `WebSpec => []HistoryIsAnswered` |
| | `TurnsTrue` | `WebSpec => []TurnsAreTrue` |
| `BatchIngestProofs` | `BatchTypeCorrect` | `Spec => []TypeOK` |
| | `ExitZeroIndexed` | `Spec => []ExitZeroMeansIndexed` |
| | `LogTrue` | `Spec => []LogIsTrue` |
| | `DecisionsFollow` | `Spec => []DecisionsFollowSections` |
| | `OnlyValueErrorsLose` | `Spec => []OnlyValueErrorsLoseDecisions` |
| `TextFunctionsProofs` | `TextIsAlwaysChunked` | `Spec => []TextIsChunked` |
| | `PagesAreAlwaysKnown` | `Spec => []PagesAreKnown` |
| | `RewritesAlwaysKeepQuestion` | `Spec => []RewritesKeepQuestion` |
| | `FusionAlwaysFollowsRankings` | `Spec => []FusionFollowsRankings` |
| | `QuoteAlwaysFits` | `Spec => []QuoteFits` |

Assumptions: the typing of the constants, and that `NoValue` is none of the
values it stands beside (`RecordsAssumption` and `TabsAssumption` say it of
records and lists). Beyond those:

- `CompletedSearchable` and `Refinement` need a collection at the start;
  `IngestCollection` is the counterexample without it.
- `TenantsSeparate` needs that no two tenants ingest the same bytes;
  `IngestTenant` shows what happens otherwise.
- `OneWorker`: any two workers are the same one. A second worker that took a
  document up before it was indexed may set its status back and write its
  chunks anew.
- `ReportsCount` has one tenant, since a chunk row of a PDF of two is counted for
  the later one, and finite `Docs` and `Labels`, which are counted.
- `QueryPath` takes its corpus to be finite.
- `TextFunctions` takes its inputs to be what the code gives these functions: a
  search has a chunk once (`RankingAssumption`), no quote is asked for without
  results and no sentence is empty (`ReplyAssumption`), and a second sentence
  needs less room than a quote has. `Scale` is a multiple of every rank's
  divisor, so that scores are exact; it stands for no constant of the code.

### Ingest

`TypeInv` is `TypeOK` together with what the local variables hold
at each place. `StoreInv` adds `RunProgress`: a worker past `upsert` has a
documents row, past `consolidate` a text, past `store` its chunk rows, past
`lexical` its full-text rows. None of this follows from the properties
themselves, and all of it is needed: a run is complete at `SetIndexed` only
because of what it did steps before, and those writes last because
`Written` never removes a label. `VectorInv` adds that the collection exists and
that a worker past `vectors` has its points, which `DropCollection` would break;
with the collection there it is never enabled.

`IndexedCompleted` is inductive over `TypeInv`: `OnlySetIndexed` goes through
every statement that writes to `documents` and finds one that makes a row
`indexed`. `Refinement` sorts the steps the same way. `SeenSteps` leaves those
a reader of the catalogue can see: the insert registers, a merge into any
of the three stores publishes (the labels that it completes in all three),
`SetIndexed` completes, and every other step is a stutter, but for the drop of
the collection. That the owner exists when a run publishes, that all labels are
searchable when it completes, and that nothing is dropped, is `VectorInv`.

`LexicalRefinement` needs only `StoreInv`, which holds whatever becomes of the
collection: seen from the table and the full-text index, `DropCollection` and
`UpsertVectors` are stutters (`VectorsUnread`). That the first mapping does need
the collection is what `IngestCollection` shows.

### One worker, and the readers

`SoloInv` says of the worker's place what the stores hold of its document
(`Alone`): from `store` on the row has the text the run read, past each of the
three stores that store has this text under all its labels, and before `store`
the status promises nothing. `Backed` carries the promise to documents that no
run is at. `NoPoints` is needed for `DropCollection`: with one worker, a
collection that is missing was never written to, so dropping it takes nothing
away from another document. `VersionNames` adds that a kept answer's documents
are indexed and therefore, by `IndexedStays`, written to no more.

`ReportsCount` is for any number of workers. What the first select shows as
indexed some run has completed (`IndexedCompleted`), what a completed run
produced stays in the table (`StoreInv`), so the second select counts at least as
much; `ReportInv` carries this from one select to the other. `ReadersAreUnseen`
brings the theorems about the pipeline to `SysSpec`.

### Queries

`IInv` is `TypeOK`, that the stores hold a chunk for its owner only
(`StoresHeld`), and for each request what it holds at each place (`Held`): the
reranked list is ordered and of stored chunks without doubles, what it found is
of its tenant unless PDFs are shared, the results are sorted although the boost
was read later than the ranking, and an answer agrees with them. The parts are
named (`OrderHeld`, `MineHeld`, `ListsHeld`, `AnswerHeld`), and `SameHeld`
gives all of them for a request that a step does not touch. The lemmas under
`SortedIs` show that the stable sort returns what it was given in descending
order.

### Keys and the front end

`DeadKeysAreRefused` looks at the end of a request, `stale` at its beginning:
the invariant that joins them says that a stale request is before its check or
refused. `ServedForKeysTenant` needs that a request past `Resolve` carries the
tenant its key had then, and that neither a key's tenant nor a revocation ever
changes; `Touch` is the step that might, since it writes a row it read earlier.
`WebImplementsAccess` maps every step of `WebApi` to one of `Access` or to a
stutter, so what is proved of keys carries over. `AnswersInv` adds that
an entry about to be stored, and every stored one, is of an answered request,
and that the request a turn sent has the turn's mode.

`HistoryNewestFirst` needs the entries that tabs are pushing as well as those
stored (`ChatInv`): an entry that is being pushed was never stored, no two tabs
push the same one, and all that is in a list, stored or just read, has been
stored, but for the entry at its head. So an entry put ahead of others cannot be
among them, and none of them was made after it had been stored.

### Batches

`BatchHeld` says for each stage what the batch knows: which PDFs before `index`
are indexed, how the counters and the log agree, that the status to be logged is
the document's. `indexed` is stable, so a PDF twice in a tree or a batch before
do no harm. `StructureHeld` relates the extraction at work, and every structure
written, to its chunks: each section before `next` is decided, misread or, with
the local client, without an answer.

`BeginExtraction` is given chunks by `ChunkingProofs`: whatever pages OCR
leaves, `ChunkDocument` makes a sequence of chunks of them.

### Texts, questions, rankings and quotes

`ReturnsItsResult` is inductive by the shape of `TextFunctions`; the theorems are
about the functions. The library's induction theorems take a predicate, which
the provers cannot be given, so `DataLemmas` states them for sets: a set that
has 0, and n + 1 with n, has every number (`Induction`); one that has a subset
of a finite set as soon as it has all smaller ones has them all
(`SubsetInduction`). From these follow recursion along a list (`Recursion`), that
a sum is what its parts add up to in any order (`SumIs`, `SumTakeOut`) and grows
with them (`SumGrows`), that a sorted list has each member once in its place
(`OrderedIs`, `AscendingIs`), and that lists put end to end have every entry of
every list in order (`FlattenIs`).

- *Chunks.* `ConsolidatedIs`: pages are in order and each begins with its marker
  (`WellPaged`). `SplitIs`: the parts between markers follow one another without
  a gap from the first marker to the end. `WindowsAre`: the windows of a part
  begin with it, none begins behind its end, and each of its lines is in one;
  that a window moves on at all needs `OverlapLines < MaxLines`. `TextKept` and
  `PagesKept` put the three together.
- *Variants.* `DedupIs`: each item once and the first one first. Without a cut,
  since a question has three variants at most and `_MAX_REWRITES` is three; the
  tagged variant is the last, and a smaller cap would lose it.
- *Fusion.* `ScoreIs`: the better chunk is in every ranking of the other one,
  each adds more to its score (`LowerRankAddsMore`), and further rankings only
  add. `FusionIs` draws from it that no order by score has them the other way.
- *Quotes.* `BestIs`: among finitely many sentences, if one has any of the
  question's words, there is a first with the most. `FallbackQuoteFits`: the
  second piece is cut to what the first and the blank between them leave.

### Model-checked only

Liveness (`IndexedUnlessAborted`, `Responds`, `TurnsSettle`, `BatchEnds`), which
is out of the prover's reach. Every other property of the passing runs is
proved.

## 6. Not modelled

- **Queue and watcher** (`ingest/`): no code calls `enqueue`, `pending` or
  `watch`, so there is no behaviour of the program to check. Two consumers that
  take the same document are two workers of `IngestRace`.
- **`systeemi/coverage.py`, the document routes, `GET /v1/audit`, the other CLI
  commands**: one read each, grouped or formatted; the MCP server is a stub.
- **`decisions` and `tables`**: no code writes them, so what
  `POST /v1/aggregate` sums is left out; its key, tenant and audit row are in
  `Access`. `postprocess/tables.py` is called by no code, `encoding.py` repairs
  wording.
- **`lapua_rag/models/`** is not in the repository; its tables are modelled from
  their use.
- **Embedder, reranker model, Paddle, the stemmer, prompt and answer wording**:
  external functions of a text; what they return is a free choice here.
- **Metrics and logs**: nothing reads them back.
- **Evaluation, training and maintenance scripts**: one-shot, offline, no state
  that outlives a run.
- **Layout of the front end**: cards, sidebar, PDF dialog.

Hazards that no property covers are listed in `PROJECT.json` with the reason:
a text put together from two runs' pages (no document says which reading is
right), the double page rows of a retry (no reader), the two reads of the chunk
rows in one search (nothing promises that they agree), the sources and the
abstention of a synth answer (no document says what they must be), the audit row
lost in a crash (accepted by `audit/service.py:84`), the empty `decisions`, the
answered turn shown as an error when the history cannot be stored.
