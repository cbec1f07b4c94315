--------------------------- MODULE IngestPipeline ---------------------------
(***************************************************************************)
(* LapuaPipeline.ingest (pipeline.py): a set of workers, each a process    *)
(* that calls ingest for one PDF at a time, over the stores they share:    *)
(* the documents/pages/chunks tables, the storage tree, the Qdrant         *)
(* collection and the FTS5 index.  One action per transaction or external  *)
(* call, in the order the method makes them.  A worker that raises and a   *)
(* worker that dies leave the same shared state behind, because ingest has *)
(* no handler of its own: both are Abort.                                  *)
(***************************************************************************)
EXTENDS Naturals, Sequences, FiniteSets

CONSTANTS
    Workers,            \* processes that call ingest: API, CLI, batch script
    Docs,               \* doc_ids: two PDFs with the same bytes are one doc
    Tenants,
    NumPages,           \* pages of a whole PDF
    Readings,           \* what OCR may read off one page, run by run
    Labels,             \* (section_id, index) pairs hashed into a chunk_id
    ChunkIds,           \* the labels chunk_document gives a consolidated text
    NoValue,            \* Python's None, an absent row or an absent file
    MaxMonth,           \* bound: storage buckets the clock goes through
    MaxRuns,            \* bound: runs that get past the look-up
    MaxAborts,          \* bound: exceptions and crashes
    ExpireOnCommit,     \* Session's default: rows detached after commit raise
    CollectionReady     \* "lapua-rag init" ran before the first ingest

Texts == UNION {[1..n -> Readings] : n \in 0..NumPages}
Months == 1..MaxMonth
Dirs == Tenants \X Months \X Docs          \* storage/<tenant>/<YYYY>/<MM>/<doc_id>

ASSUME ConstantsAssumption ==
    /\ NumPages \in Nat \ {0}
    /\ MaxMonth \in Nat \ {0}
    /\ MaxRuns \in Nat
    /\ MaxAborts \in Nat
    /\ ExpireOnCommit \in BOOLEAN
    /\ CollectionReady \in BOOLEAN
    /\ ChunkIds \in [Texts -> SUBSET Labels]

Statuses == {"queued", "ocr", "postproc", "embedded", "extract", "indexed"}
Entries == [tenant : Tenants, text : Texts]
DocumentRows == [tenant : Tenants, month : Months, status : Statuses,
                 text : Texts \cup {NoValue}]
FileRecords == [source : {"absent", "partial", "whole"},
                copier : Workers \cup {NoValue},     \* opened source.pdf last
                pages : Texts,
                md : Texts \cup {NoValue}, structured : Texts \cup {NoValue}]
Jobs == [doc : Docs, tenant : Tenants, month : Months,
         total : 0..NumPages, pages : 0..NumPages,
         text : Texts \cup {NoValue}]

ASSUME NoValueAssumption ==
    NoValue \notin Texts /\ NoValue \notin Entries /\ NoValue \notin DocumentRows

ASSUME TenantsAssumption == NoValue \notin Tenants

Outcomes == {"none", "indexed", "skipped", "failed"}

(***************************************************************************)
(* The statements of ingest between which another worker can run.          *)
(***************************************************************************)
Steps == {"idle", "layout", "open_copy", "copy", "upsert", "insert", "set_ocr", "open",
          "page", "persist", "set_postproc", "consolidate", "update_doctype",
          "store", "set_embedded", "ensure", "drop", "create", "vectors",
          "lexical", "choose_extract", "extract", "set_indexed"}

VARIABLES
    documents,   \* documents table: row of each doc_id, or NoValue
    pageRows,    \* pages table: number of rows of each (doc_id, page_no)
    chunks,      \* chunks table, by doc_id and label
    collection,  \* the Qdrant collection exists
    points,      \* its points, by doc_id and label
    fts,         \* chunks_fts rows, by doc_id and label
    files,       \* each storage directory's artefacts
    month,       \* date.today(), as a storage bucket
    pc, job,     \* each worker's place in ingest and its local variables
    outcome,     \* how each worker's last call ended
    started,     \* bound: runs past the look-up so far
    aborts,      \* bound: aborts so far
    completed    \* history: <<doc, text>> of every run that set INDEXED

db == <<documents, pageRows, chunks>>
indexes == <<collection, points, fts>>
bounds == <<started, aborts>>
vars == <<documents, pageRows, chunks, collection, points, fts, files, month,
          pc, job, outcome, started, aborts, completed>>

NoFiles == [source |-> "absent", copier |-> NoValue, pages |-> <<>>,
            md |-> NoValue, structured |-> NoValue]
NoEntries == [d \in Docs |-> [l \in Labels |-> NoValue]]

Init ==
    /\ documents = [d \in Docs |-> NoValue]
    /\ pageRows = [d \in Docs |-> [p \in 1..NumPages |-> 0]]
    /\ chunks = NoEntries
    /\ collection = CollectionReady
    /\ points = NoEntries
    /\ fts = NoEntries
    /\ files = [dir \in Dirs |-> NoFiles]
    /\ month = 1
    /\ pc = [w \in Workers |-> "idle"]
    /\ job = [w \in Workers |-> NoValue]
    /\ outcome = [w \in Workers |-> "none"]
    /\ started = 0
    /\ aborts = 0
    /\ completed = {}

-----------------------------------------------------------------------------
\* Control of a worker.

GoTo(w, step) == pc' = [pc EXCEPT ![w] = step]

Return(w, result) ==
    /\ GoTo(w, "idle")
    /\ job' = [job EXCEPT ![w] = NoValue]
    /\ outcome' = [outcome EXCEPT ![w] = result]

At(w, step) == pc[w] = step

Advance(w, step, next) ==
    /\ At(w, step)
    /\ GoTo(w, next)
    /\ UNCHANGED <<outcome, month, bounds>>

Dir(w) == <<job[w].tenant, job[w].month, job[w].doc>>

\* Mutant: the store's old entries of the document are deleted first.
WrittenAnew(w, old) ==
    [l \in Labels |-> IF l \in ChunkIds[job[w].text]
                      THEN [tenant |-> job[w].tenant, text |-> job[w].text]
                      ELSE NoValue]

\* The entries a run merges over those a store already holds for its document.
Written(w, old) ==
    [l \in Labels |-> IF l \in ChunkIds[job[w].text]
                      THEN [tenant |-> job[w].tenant, text |-> job[w].text]
                      ELSE old[l]]

\* _set_status: one transaction, no check of the status it replaces.
SetStatus(w, status) ==
    LET d == job[w].doc IN
    documents' = IF documents[d] = NoValue THEN documents
                 ELSE [documents EXCEPT ![d].status = status]

-----------------------------------------------------------------------------
\* The look-up, the layout and the documents row.

\* The row _lookup returns is detached once session_scope has committed: with
\* SQLAlchemy's default its first attribute access raises.
LookupRaises(w, d) ==
    /\ documents[d] # NoValue
    /\ ExpireOnCommit
    /\ Return(w, "failed")
    /\ UNCHANGED started

LookupSkips(w, d) ==
    /\ documents[d] # NoValue
    /\ ~ExpireOnCommit
    /\ documents[d].status = "indexed"
    /\ Return(w, "skipped")
    /\ UNCHANGED started

\* Mutant: the status of the row is not looked at.
LookupIgnoresStatus(w, d, t) ==
    /\ started < MaxRuns
    /\ started' = started + 1
    /\ GoTo(w, "layout")
    /\ job' = [job EXCEPT ![w] = [doc |-> d, tenant |-> t, month |-> month,
                                  total |-> 0, pages |-> 0, text |-> NoValue]]
    /\ outcome' = [outcome EXCEPT ![w] = "none"]

LookupProceeds(w, d, t) ==
    /\ documents[d] # NoValue => ~ExpireOnCommit /\ documents[d].status # "indexed"
    /\ started < MaxRuns
    /\ started' = started + 1
    /\ GoTo(w, "layout")
    /\ job' = [job EXCEPT ![w] = [doc |-> d, tenant |-> t, month |-> month,
                                  total |-> 0, pages |-> 0,
                                  text |-> NoValue]]
    /\ outcome' = [outcome EXCEPT ![w] = "none"]

Ingest(w, d, t) ==
    /\ At(w, "idle")
    /\ \/ LookupRaises(w, d)
       \/ LookupSkips(w, d)
       \/ LookupProceeds(w, d, t)
    /\ UNCHANGED <<db, indexes, files, month, aborts, completed>>

\* DocumentLayout.for_document(bucket=date.today()), then the exists() test.
PrepareLayout(w) ==
    /\ At(w, "layout")
    /\ job' = [job EXCEPT ![w].month = month]
    /\ Advance(w, "layout",
               IF files[<<job[w].tenant, month, job[w].doc>>].source = "absent"
               THEN "open_copy" ELSE "upsert")
    /\ UNCHANGED <<db, indexes, files, completed>>

\* copy2 opens the target and truncates it, though another worker may have
\* begun or finished its copy since the test.
OpenCopy(w) ==
    /\ Advance(w, "open_copy", "copy")
    /\ files' = [files EXCEPT ![Dir(w)].source = "partial",
                              ![Dir(w)].copier = w]
    /\ UNCHANGED <<db, indexes, job, completed>>

\* All is written that the file lacked when this worker opened it; what was
\* truncated away since may or may not have been written by then.
FinishCopy(w) ==
    LET dir == Dir(w)
        whole == files[dir].source = "whole" \/ files[dir].copier = w
    IN
    /\ Advance(w, "copy", "upsert")
    /\ \/ files' = [files EXCEPT ![dir].source = "whole", ![dir].copier = NoValue]
       \/ ~whole /\ UNCHANGED files
    /\ UNCHANGED <<db, indexes, job, completed>>

\* Mutant: the upsert takes an existing row over for its own tenant.
UpsertTakesOver(w) ==
    LET d == job[w].doc IN
    /\ Advance(w, "upsert",
               IF documents[d] = NoValue THEN "insert" ELSE "set_ocr")
    /\ documents' = IF documents[d] = NoValue THEN documents
                    ELSE [documents EXCEPT ![d].tenant = job[w].tenant]
    /\ UNCHANGED <<pageRows, chunks, indexes, files, job, completed>>

\* _upsert_document reads the row; an existing one is left as it is.
UpsertReads(w) ==
    /\ Advance(w, "upsert",
               IF documents[job[w].doc] = NoValue THEN "insert" ELSE "set_ocr")
    /\ UNCHANGED <<db, indexes, files, job, completed>>

\* Mutant: the new row is read once more when its session has committed.
InsertThenRaises(w) ==
    LET d == job[w].doc IN
    /\ At(w, "insert")
    /\ documents[d] = NoValue
    /\ documents' = [documents EXCEPT ![d] =
                        [tenant |-> job[w].tenant, month |-> job[w].month,
                         status |-> "queued", text |-> NoValue]]
    /\ Return(w, "failed")
    /\ UNCHANGED <<pageRows, chunks, indexes, files, month, bounds, completed>>

\* ... and inserts at commit: a row another worker inserted meanwhile is an
\* IntegrityError on the primary key.
InsertRow(w) ==
    LET d == job[w].doc IN
    /\ Advance(w, "insert", "set_ocr")
    /\ documents[d] = NoValue
    /\ documents' = [documents EXCEPT ![d] =
                        [tenant |-> job[w].tenant, month |-> job[w].month,
                         status |-> "queued", text |-> NoValue]]
    /\ UNCHANGED <<pageRows, chunks, indexes, files, job, completed>>

InsertConflicts(w) ==
    /\ At(w, "insert")
    /\ documents[job[w].doc] # NoValue
    /\ Return(w, "failed")
    /\ UNCHANGED <<db, indexes, files, month, bounds, completed>>

-----------------------------------------------------------------------------
\* OCR and post-processing.

SetOcr(w) ==
    /\ Advance(w, "set_ocr", "open")
    /\ SetStatus(w, "ocr")
    /\ UNCHANGED <<pageRows, chunks, indexes, files, job, completed>>

\* predict opens source.pdf; a PDF cut short yields fewer pages (or raises).
OpenPdf(w) ==
    /\ Advance(w, "open", "page")
    /\ \E n \in 0..NumPages :
        /\ (files[Dir(w)].source = "whole") <=> (n = NumPages)
        /\ job' = [job EXCEPT ![w].total = n, ![w].pages = 0]
    /\ UNCHANGED <<db, indexes, files, completed>>

\* Mutant: the new output is added after the canonical files of an old run.
OcrPageAppends(w) ==
    /\ Advance(w, "page", "page")
    /\ job[w].pages < job[w].total
    /\ job' = [job EXCEPT ![w].pages = @ + 1]
    /\ \E r \in Readings : files' = [files EXCEPT ![Dir(w)].pages = Append(@, r)]
    /\ UNCHANGED <<db, indexes, completed>>

\* One turn of the page loop.  _canonicalise_page_files moves the new output
\* to NNN.md and NNN.res.json only when these do not exist yet.
OcrPage(w) ==
    LET dir == Dir(w)
        done == job[w].pages
    IN
    /\ Advance(w, "page", "page")
    /\ done < job[w].total
    /\ job' = [job EXCEPT ![w].pages = done + 1]
    /\ IF Len(files[dir].pages) > done
       THEN UNCHANGED files
       ELSE \E r \in Readings :
              files' = [files EXCEPT ![dir].pages = Append(@, r)]
    /\ UNCHANGED <<db, indexes, completed>>

FinishOcr(w) ==
    /\ Advance(w, "page", "persist")
    /\ job[w].pages = job[w].total
    /\ UNCHANGED <<db, indexes, files, job, completed>>

\* _persist_pages adds one PageRow, under a fresh autoincrement id, for every
\* page whose files exist: a second run adds them again.
PersistPages(w) ==
    LET d == job[w].doc
        present == 1..Len(files[Dir(w)].pages)
    IN
    /\ Advance(w, "persist", "set_postproc")
    /\ pageRows' = [pageRows EXCEPT ![d] =
           [p \in 1..NumPages |-> IF p <= job[w].pages /\ p \in present
                                  THEN @[p] + 1 ELSE @[p]]]
    /\ UNCHANGED <<documents, chunks, indexes, files, job, completed>>

SetPostproc(w) ==
    /\ Advance(w, "set_postproc", "consolidate")
    /\ SetStatus(w, "postproc")
    /\ UNCHANGED <<pageRows, chunks, indexes, files, job, completed>>

\* consolidate_markdown overwrites document.md from the page files on disk,
\* whoever wrote them, and the text is read back.
Consolidate(w) ==
    LET text == SubSeq(files[Dir(w)].pages, 1, job[w].pages) IN
    /\ Advance(w, "consolidate", "update_doctype")
    /\ files' = [files EXCEPT ![Dir(w)].md = text]
    /\ job' = [job EXCEPT ![w].text = text]
    /\ UNCHANGED <<db, indexes, completed>>

\* Mutant: the chunk rows are left to a later stage.
UpdateDoctypeOnly(w) ==
    LET d == job[w].doc IN
    /\ Advance(w, "update_doctype", "set_embedded")
    /\ documents' = [documents EXCEPT ![d].text = job[w].text]
    /\ UNCHANGED <<pageRows, chunks, indexes, files, job, completed>>

\* _update_doctype: doc_type and page_count, both functions of the text.
UpdateDoctype(w) ==
    LET d == job[w].doc IN
    /\ Advance(w, "update_doctype", "store")
    /\ documents' = IF documents[d] = NoValue THEN documents
                    ELSE [documents EXCEPT ![d].text = job[w].text]
    /\ UNCHANGED <<pageRows, chunks, indexes, files, job, completed>>

\* _store_chunks merges by chunk_id; labels the text no longer has stay.
StoreChunks(w) ==
    LET d == job[w].doc IN
    /\ Advance(w, "store", "set_embedded")
    /\ chunks' = [chunks EXCEPT ![d] = Written(w, @)]
    /\ UNCHANGED <<documents, pageRows, indexes, files, job, completed>>

-----------------------------------------------------------------------------
\* Embedding and the two indexes.

\* Mutant: the document is declared indexed before the indexes are written.
SetIndexedEarly(w) ==
    /\ Advance(w, "set_embedded", "ensure")
    /\ SetStatus(w, "indexed")
    /\ UNCHANGED <<pageRows, chunks, indexes, files, job, completed>>

SetEmbedded(w) ==
    /\ Advance(w, "set_embedded", "ensure")
    /\ SetStatus(w, "embedded")
    /\ UNCHANGED <<pageRows, chunks, indexes, files, job, completed>>

\* ensure_collection lists the collections ...
EnsureCollection(w) ==
    /\ Advance(w, "ensure", IF collection THEN "vectors" ELSE "drop")
    /\ UNCHANGED <<db, indexes, files, job, completed>>

\* ... and recreate_collection is a delete, which succeeds whether or not
\* there is anything to delete, and a create, which the server refuses when
\* the collection exists by then.
DropCollection(w) ==
    /\ Advance(w, "drop", "create")
    /\ collection' = FALSE
    /\ points' = NoEntries
    /\ UNCHANGED <<db, fts, files, job, completed>>

CreateCollection(w) ==
    /\ Advance(w, "create", "vectors")
    /\ ~collection
    /\ collection' = TRUE
    /\ UNCHANGED <<db, points, fts, files, job, completed>>

CreateConflicts(w) ==
    /\ At(w, "create")
    /\ collection
    /\ Return(w, "failed")
    /\ UNCHANGED <<db, indexes, files, month, bounds, completed>>

\* QdrantIndex.upsert: nothing is sent without ids.
UpsertVectors(w) ==
    LET d == job[w].doc IN
    /\ Advance(w, "vectors", "lexical")
    /\ collection \/ ChunkIds[job[w].text] = {}
    /\ points' = [points EXCEPT ![d] = Written(w, @)]
    /\ UNCHANGED <<db, collection, fts, files, job, completed>>

\* The server answers 404 while another worker is recreating the collection.
CollectionMissing(w) ==
    /\ At(w, "vectors")
    /\ ~collection
    /\ ChunkIds[job[w].text] # {}
    /\ Return(w, "failed")
    /\ UNCHANGED <<db, indexes, files, month, bounds, completed>>

\* BM25Index.upsert: delete by chunk_id and insert, in one transaction.
UpsertLexical(w) ==
    LET d == job[w].doc IN
    /\ Advance(w, "lexical", "choose_extract")
    /\ fts' = [fts EXCEPT ![d] = Written(w, @)]
    /\ UNCHANGED <<db, collection, points, files, job, completed>>

-----------------------------------------------------------------------------
\* Extraction and the end of the run.

SkipExtract(w) ==
    /\ Advance(w, "choose_extract", "set_indexed")
    /\ UNCHANGED <<db, indexes, files, job, completed>>

SetExtract(w) ==
    /\ Advance(w, "choose_extract", "extract")
    /\ SetStatus(w, "extract")
    /\ UNCHANGED <<pageRows, chunks, indexes, files, job, completed>>

Extract(w) ==
    /\ Advance(w, "extract", "set_indexed")
    /\ files' = [files EXCEPT ![Dir(w)].structured = job[w].text]
    /\ UNCHANGED <<db, indexes, job, completed>>

SetIndexed(w) ==
    /\ At(w, "set_indexed")
    /\ SetStatus(w, "indexed")
    /\ Return(w, "indexed")
    /\ completed' = completed \cup {<<job[w].doc, job[w].text>>}
    /\ UNCHANGED <<pageRows, chunks, indexes, files, month, bounds>>

\* A stage raises, or the process dies, before its next write.
Abort(w) ==
    /\ ~At(w, "idle")
    /\ aborts < MaxAborts
    /\ aborts' = aborts + 1
    /\ Return(w, "failed")
    /\ UNCHANGED <<db, indexes, files, month, started, completed>>

NextMonth ==
    /\ month < MaxMonth
    /\ month' = month + 1
    /\ UNCHANGED <<db, indexes, files, pc, job, outcome, bounds, completed>>

Prepare(w) == \/ PrepareLayout(w) \/ OpenCopy(w) \/ FinishCopy(w)
              \/ UpsertReads(w) \/ InsertRow(w) \/ InsertConflicts(w)
Ocr(w) == SetOcr(w) \/ OpenPdf(w) \/ OcrPage(w) \/ FinishOcr(w) \/ PersistPages(w)
Postprocess(w) == \/ SetPostproc(w) \/ Consolidate(w) \/ UpdateDoctype(w)
                  \/ StoreChunks(w)
Index(w) == \/ SetEmbedded(w) \/ EnsureCollection(w) \/ DropCollection(w)
            \/ CreateCollection(w) \/ CreateConflicts(w) \/ UpsertVectors(w)
            \/ CollectionMissing(w) \/ UpsertLexical(w)
Finish(w) == SkipExtract(w) \/ SetExtract(w) \/ Extract(w) \/ SetIndexed(w)

Run(w) == Prepare(w) \/ Ocr(w) \/ Postprocess(w) \/ Index(w) \/ Finish(w)
Call(w) == \E d \in Docs, t \in Tenants : Ingest(w, d, t)

Next ==
    \/ \E w \in Workers : Call(w) \/ Run(w) \/ Abort(w)
    \/ NextMonth

Spec == Init /\ [][Next]_vars

\* A started call goes on while its process lives.  Nobody has to call again.
Fairness == \A w \in Workers : WF_vars(Run(w))

FairSpec == Spec /\ Fairness

-----------------------------------------------------------------------------
\* Properties.

TypeOK ==
    /\ documents \in [Docs -> DocumentRows \cup {NoValue}]
    /\ pageRows \in [Docs -> [1..NumPages -> Nat]]
    /\ chunks \in [Docs -> [Labels -> Entries \cup {NoValue}]]
    /\ collection \in BOOLEAN
    /\ points \in [Docs -> [Labels -> Entries \cup {NoValue}]]
    /\ fts \in [Docs -> [Labels -> Entries \cup {NoValue}]]
    /\ files \in [Dirs -> FileRecords]
    /\ month \in Months
    /\ pc \in [Workers -> Steps]
    /\ job \in [Workers -> Jobs \cup {NoValue}]
    /\ \A w \in Workers : pc[w] # "idle" => job[w] \in Jobs
    /\ outcome \in [Workers -> Outcomes]
    /\ started \in 0..MaxRuns
    /\ aborts \in 0..MaxAborts
    /\ completed \subseteq Docs \X Texts

Stored(store, d, l) == store[d][l] # NoValue

Searchable(d, l) ==
    Stored(chunks, d, l) /\ Stored(points, d, l) /\ Stored(fts, d, l)

HasStatus(d, statuses) == documents[d] # NoValue /\ documents[d].status \in statuses

(***************************************************************************)
(* Whatever the workers' order, crashes and retries: a hit of either index *)
(* resolves to a chunk row (retrieve/search.py drops the ones that do      *)
(* not), and no chunk or page row is without its document.                 *)
(***************************************************************************)
ReferentialIntegrity ==
    \A d \in Docs :
      /\ \A l \in Labels :
           /\ Stored(points, d, l) \/ Stored(fts, d, l) => Stored(chunks, d, l)
           /\ Stored(chunks, d, l) => documents[d] # NoValue
      /\ \A p \in 1..NumPages : pageRows[d][p] > 0 => documents[d] # NoValue

(***************************************************************************)
(* A run that marked its document indexed has left every chunk it produced *)
(* in the chunks table and in the lexical index for good: no overlap,      *)
(* retry or crash of another run removes one.                              *)
(***************************************************************************)
CompletedRunsStayStored ==
    \A run \in completed : \A l \in ChunkIds[run[2]] :
        Stored(chunks, run[1], l) /\ Stored(fts, run[1], l)

(***************************************************************************)
(* Once a run has marked its document indexed, the chunks it produced stay *)
(* in the table and in both indexes, whatever the other workers do.  The   *)
(* collection must exist before the first worker starts (the runs and the  *)
(* theorem say so): ensure_collection alone does not give it.              *)
(***************************************************************************)
CompletedRunsStaySearchable ==
    \A run \in completed : \A l \in ChunkIds[run[2]] : Searchable(run[1], l)

(***************************************************************************)
(* status = indexed is never an early promise: some run of this document   *)
(* went through every stage, even when other runs died or overlapped.      *)
(***************************************************************************)
IndexedMeansCompleted ==
    \A d \in Docs :
      HasStatus(d, {"indexed"}) => \E text \in Texts : <<d, text>> \in completed

(***************************************************************************)
(* _upsert_document never takes a row over: the tenant and the source_path *)
(* of the first registration stay, also for the retry of another tenant or *)
(* of a later month.                                                       *)
(***************************************************************************)
RegistrationIsPermanent ==
    [][\A d \in Docs : documents[d] # NoValue =>
          /\ documents'[d] # NoValue
          /\ documents'[d].tenant = documents[d].tenant
          /\ documents'[d].month = documents[d].month]_vars

(***************************************************************************)
(* With one worker, the skip makes indexed final: no later call, retry or  *)
(* crash takes a document out of it.                                       *)
(***************************************************************************)
IndexedIsFinal ==
    [][\A d \in Docs : HasStatus(d, {"indexed"}) => HasStatus(d, {"indexed"})']_vars

(***************************************************************************)
(* With one worker, the status is what a reader may rely on after any      *)
(* crash: from embedded on the chunk table, from extract on all three      *)
(* stores hold the text page_count and doc_type were computed from.        *)
(***************************************************************************)
Holds(store, d) ==
    \A l \in ChunkIds[documents[d].text] :
        Stored(store, d, l) /\ store[d][l].text = documents[d].text

StatusIsBacked ==
    \A d \in Docs :
      /\ HasStatus(d, {"embedded", "extract", "indexed"}) => Holds(chunks, d)
      /\ HasStatus(d, {"extract", "indexed"}) => Holds(points, d) /\ Holds(fts, d)

(***************************************************************************)
(* Of workers that overlap on one PDF one may lose the race for the row,   *)
(* and one may take a finished document back to ocr; over a collection     *)
(* that exists, and unless a run raises or dies, the document is indexed   *)
(* in the end and stays so.  (After that it never is: see ReingestIsNoOp.) *)
(***************************************************************************)
IndexedUnlessAborted ==
    \A d \in Docs : (documents[d] # NoValue)
                       ~> [](aborts > 0 \/ HasStatus(d, {"indexed"}))

(***************************************************************************)
(* Over a collection that exists beforehand, ingest implements the         *)
(* catalogue its readers see.                                              *)
(***************************************************************************)
Catalogue == INSTANCE DocumentCatalogue WITH
    owner <- [d \in Docs |-> IF documents[d] = NoValue THEN NoValue
                             ELSE documents[d].tenant],
    searchable <- [d \in Docs |-> {l \in Labels : Searchable(d, l)}],
    complete <- completed

ImplementsCatalogue == Catalogue!Spec

(***************************************************************************)
(* With or without a collection beforehand, and though workers that start  *)
(* together drop it under each other, ingest implements the catalogue of   *)
(* what the sparse half of a search finds.                                 *)
(***************************************************************************)
LexicalCatalogue == INSTANCE DocumentCatalogue WITH
    owner <- [d \in Docs |-> IF documents[d] = NoValue THEN NoValue
                             ELSE documents[d].tenant],
    searchable <- [d \in Docs |-> {l \in Labels : Stored(chunks, d, l) /\ Stored(fts, d, l)}],
    complete <- completed

ImplementsLexicalCatalogue == LexicalCatalogue!Spec

-----------------------------------------------------------------------------
\* What the documentation says and the code does not do.

(***************************************************************************)
(* pipeline.py:4: re-running on an indexed document is a no-op; the call   *)
(* must not fail.                                                          *)
(***************************************************************************)
ReingestIsNoOp ==
    [][\A w \in Workers, d \in Docs, t \in Tenants :
          HasStatus(d, {"indexed"}) /\ Ingest(w, d, t) => outcome'[w] = "skipped"]_vars

(***************************************************************************)
(* docs/architecture.md:13: rows and vectors carry the tenant, with hard   *)
(* separation; those of one document carry the tenant of its row.          *)
(***************************************************************************)
OneTenantPerDocument ==
    \A d \in Docs, l \in Labels :
      Stored(chunks, d, l) => chunks[d][l].tenant = documents[d].tenant

(***************************************************************************)
(* pipeline.py:3-4: every stage is idempotent; the copy of the source that *)
(* a crash cut short is redone, so what gets indexed is the whole PDF.     *)
(***************************************************************************)
IndexedIsWhole == \A run \in completed : Len(run[2]) = NumPages
=============================================================================
