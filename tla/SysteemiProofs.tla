--------------------------- MODULE SysteemiProofs ---------------------------
(***************************************************************************)
(* What holds when one worker ingests, proved: every status is backed by   *)
(* the stores, indexed is final, and the version hash names its content.   *)
(* And of any number of workers: a report counts the chunks of everything  *)
(* it shows as indexed.                                                    *)
(***************************************************************************)
EXTENDS Systeemi, IngestPipelineProofs, FiniteSetTheorems

-----------------------------------------------------------------------------
\* One worker: what its place in ingest says of its document.

OneWorker == \A v, w \in Workers : v = w

Unbacked == {"open", "page", "persist", "set_postproc", "consolidate", "update_doctype"}
Renewed == {"store", "set_embedded", "ensure", "drop", "create", "vectors", "lexical",
            "choose_extract", "extract", "set_indexed"}

\* The store has the text of w's run under all the labels of that text.
HasOwn(store, w) ==
    \A l \in ChunkIds[job[w].text] :
        store[job[w].doc][l] # NoValue /\ store[job[w].doc][l].text = job[w].text

Alone(w) ==
    /\ pc[w] # "idle" => ~HasStatus(job[w].doc, {"indexed"})
    /\ pc[w] \in Unbacked => ~HasStatus(job[w].doc, {"embedded", "extract", "indexed"})
    /\ pc[w] \in Renewed => documents[job[w].doc] # NoValue
                            /\ documents[job[w].doc].text = job[w].text
    /\ pc[w] \in ChunksDone => HasOwn(chunks, w)
    /\ pc[w] \in VectorsDone => HasOwn(points, w)
    /\ pc[w] \in LexicalDone => HasOwn(fts, w)
    /\ pc[w] = "drop" => ~collection

Backed(d) ==
    /\ HasStatus(d, {"embedded", "extract", "indexed"}) => Holds(chunks, d)
    /\ HasStatus(d, {"extract", "indexed"}) => Holds(points, d) /\ Holds(fts, d)

NoPoints == ~collection => points = NoEntries

SoloInv == /\ StoreInv /\ NoPoints
           /\ \A w \in Workers : Alone(w)
           /\ \A d \in Docs : Backed(d)

(***************************************************************************)
(* What the stores hold of a document says all about its status.           *)
(***************************************************************************)
LEMMA BackedStays ==
    ASSUME NEW d \in Docs, Backed(d), documents'[d] = documents[d],
           chunks'[d] = chunks[d], points'[d] = points[d], fts'[d] = fts[d]
    PROVE  Backed(d)'
BY DEF Backed, HasStatus, Holds, Stored

(***************************************************************************)
(* A run writes to its own document, but for the points it drops.          *)
(***************************************************************************)
LEMMA OwnDocumentOnly ==
    ASSUME TypeInv, NEW w \in Workers, Run(w), NEW d \in Docs, d # job[w].doc
    PROVE  /\ documents'[d] = documents[d] /\ chunks'[d] = chunks[d] /\ fts'[d] = fts[d]
           /\ points'[d] = points[d] \/ DropCollection(w)
<1> USE DEF TypeInv, TypeOK, db, indexes
<1>1. CASE Prepare(w)
  BY <1>1 DEF Prepare, PrepareLayout, OpenCopy, FinishCopy, UpsertReads, InsertRow, InsertConflicts
<1>2. CASE Ocr(w)
  BY <1>2 DEF Ocr, SetOcr, OpenPdf, OcrPage, FinishOcr, PersistPages, SetStatus
<1>3. CASE Postprocess(w)
  BY <1>3 DEF Postprocess, SetPostproc, Consolidate, UpdateDoctype, StoreChunks, SetStatus
<1>4. CASE Index(w)
  BY <1>4 DEF Index, SetEmbedded, EnsureCollection, DropCollection, CreateCollection,
     CreateConflicts, UpsertVectors, CollectionMissing, UpsertLexical, SetStatus
<1>5. CASE Finish(w)
  BY <1>5 DEF Finish, SkipExtract, SetExtract, Extract, SetIndexed, SetStatus
<1>6. QED BY <1>1, <1>2, <1>3, <1>4, <1>5 DEF Run

(***************************************************************************)
(* A statement that writes to no store keeps what is known of its worker,  *)
(* if it goes on from where that was needed.                               *)
(***************************************************************************)
LEMMA QuietKeeps ==
    ASSUME NEW w \in Workers, Alone(w), UNCHANGED <<documents, chunks, points, fts>>,
           \/ pc'[w] = "idle"
           \/ /\ pc[w] # "idle" /\ job'[w].doc = job[w].doc
              /\ pc'[w] \in Renewed => job'[w].text = job[w].text
              /\ pc'[w] \in Renewed => pc[w] \in Renewed
              /\ pc'[w] \in Unbacked => pc[w] \in Unbacked
              /\ pc'[w] \in ChunksDone => pc[w] \in ChunksDone
              /\ pc'[w] \in VectorsDone => pc[w] \in VectorsDone
              /\ pc'[w] \in LexicalDone => pc[w] \in LexicalDone
              /\ pc'[w] = "drop" => ~collection'
    PROVE  Alone(w)'
<1> USE DEF Renewed, Unbacked, ChunksDone, VectorsDone, LexicalDone
<1>1. CASE pc'[w] = "idle"
  BY <1>1 DEF Alone
<1>2. CASE pc'[w] # "idle"
  <2>1. pc'[w] \in ChunksDone \cup VectorsDone \cup LexicalDone => pc'[w] \in Renewed
    OBVIOUS
  <2>2. ~HasStatus(job[w].doc, {"indexed"})
    BY <1>2 DEF Alone
  <2>3. QED BY <1>2, <2>1, <2>2 DEF Alone, HasOwn, HasStatus
<1>3. QED BY <1>1, <1>2

Quiet(w) ==
    \/ PrepareLayout(w) \/ OpenCopy(w) \/ FinishCopy(w) \/ UpsertReads(w) \/ InsertConflicts(w)
    \/ OpenPdf(w) \/ OcrPage(w) \/ FinishOcr(w) \/ PersistPages(w) \/ Consolidate(w)
    \/ EnsureCollection(w) \/ CreateCollection(w) \/ CreateConflicts(w)
    \/ CollectionMissing(w) \/ SkipExtract(w) \/ Extract(w)

(***************************************************************************)
(* The statements that only read, write files or move on.                  *)
(***************************************************************************)
LEMMA QuietStep ==
    ASSUME TypeInv, NEW w \in Workers, Quiet(w), Alone(w)
    PROVE  UNCHANGED <<documents, chunks, points, fts>> /\ Alone(w)'
<1> USE DEF Advance, Return, At, GoTo, db, indexes
<1>1. UNCHANGED <<documents, chunks, points, fts>>
  BY DEF Quiet, PrepareLayout, OpenCopy, FinishCopy, UpsertReads, InsertConflicts, OpenPdf, OcrPage,
     FinishOcr, PersistPages, Consolidate, EnsureCollection, CreateCollection,
     CreateConflicts, CollectionMissing, SkipExtract, Extract
<1>2. /\ pc \in [Workers -> Steps] /\ job \in [Workers -> Jobs \cup {NoValue}]
      /\ (pc[w] # "idle" => job[w] \in Jobs)
  BY DEF TypeInv, TypeOK
<1>3. CASE InsertConflicts(w) \/ CreateConflicts(w) \/ CollectionMissing(w)
  <2>1. pc'[w] = "idle"
    BY <1>2, <1>3 DEF InsertConflicts, CreateConflicts, CollectionMissing
  <2>2. QED BY <1>1, <2>1, QuietKeeps
<1>4. CASE PrepareLayout(w) \/ OpenPdf(w) \/ OcrPage(w) \/ Consolidate(w)
  <2>1. <<pc[w], pc'[w]>> \in
           {<<"layout", "open_copy">>, <<"layout", "upsert">>, <<"open", "page">>,
            <<"page", "page">>, <<"consolidate", "update_doctype">>}
    BY <1>2, <1>4 DEF PrepareLayout, OpenPdf, OcrPage, Consolidate
  <2>2. ASSUME PrepareLayout(w) PROVE job'[w].doc = job[w].doc
    BY <1>2, <2>2 DEF PrepareLayout, Jobs
  <2>3. ASSUME OpenPdf(w) PROVE job'[w].doc = job[w].doc
    BY <1>2, <2>3 DEF OpenPdf, Jobs
  <2>4. ASSUME OcrPage(w) \/ Consolidate(w) PROVE job'[w].doc = job[w].doc
    BY <1>2, <2>4 DEF OcrPage, Consolidate, Jobs
  <2>5. pc[w] # "idle" /\ job'[w].doc = job[w].doc
    BY <1>4, <2>1, <2>2, <2>3, <2>4
  <2>6. QED BY <1>1, <2>1, <2>5, QuietKeeps DEF Renewed, Unbacked, ChunksDone, VectorsDone, LexicalDone
<1>5. CASE \/ OpenCopy(w) \/ FinishCopy(w) \/ UpsertReads(w) \/ FinishOcr(w) \/ PersistPages(w)
           \/ EnsureCollection(w) \/ CreateCollection(w) \/ SkipExtract(w) \/ Extract(w)
  <2>1. /\ pc[w] # "idle" /\ job' = job
        /\ <<pc[w], pc'[w]>> \in
             {<<"open_copy", "copy">>, <<"copy", "upsert">>, <<"upsert", "insert">>, <<"upsert", "set_ocr">>,
              <<"page", "persist">>, <<"persist", "set_postproc">>, <<"ensure", "vectors">>,
              <<"ensure", "drop">>, <<"create", "vectors">>,
              <<"choose_extract", "set_indexed">>, <<"extract", "set_indexed">>}
    BY <1>2, <1>5 DEF OpenCopy, FinishCopy, UpsertReads, FinishOcr, PersistPages, EnsureCollection,
       CreateCollection, SkipExtract, Extract
  <2>2. pc'[w] = "drop" => ~collection'
    BY <1>2, <1>5 DEF OpenCopy, FinishCopy, UpsertReads, FinishOcr, PersistPages, EnsureCollection,
       CreateCollection, SkipExtract, Extract
  <2>3. QED BY <1>1, <2>1, <2>2, QuietKeeps
        DEF Renewed, Unbacked, ChunksDone, VectorsDone, LexicalDone
<1>6. QED BY <1>3, <1>4, <1>5 DEF Quiet

Status(w) == SetOcr(w) \/ SetPostproc(w) \/ SetEmbedded(w) \/ SetExtract(w) \/ SetIndexed(w)

(***************************************************************************)
(* _set_status changes the status of the run's row and nothing else.       *)
(***************************************************************************)
LEMMA OnlyStatus ==
    ASSUME TypeInv, NEW w \in Workers, job[w] \in Jobs, documents[job[w].doc] # NoValue,
           NEW status \in Statuses, SetStatus(w, status)
    PROVE  /\ documents'[job[w].doc] # NoValue
           /\ documents'[job[w].doc].status = status
           /\ documents'[job[w].doc].text = documents[job[w].doc].text
<1>1. job[w].doc \in Docs /\ documents[job[w].doc] \in DocumentRows
  BY DEF Jobs, TypeInv, TypeOK
<1>2. documents'[job[w].doc] \in DocumentRows
  BY <1>1 DEF SetStatus, TypeInv, TypeOK, DocumentRows
<1>3. QED BY <1>1, <1>2, NoValueAssumption DEF SetStatus, TypeInv, TypeOK, DocumentRows

(***************************************************************************)
(* A status is only written when what it stands for is in the stores.      *)
(***************************************************************************)
LEMMA StatusStep ==
    ASSUME TypeInv, RunProgress, NEW w \in Workers, Status(w), Alone(w),
           NEW d \in Docs, d = job[w].doc, Backed(d)
    PROVE  Alone(w)' /\ Backed(d)'
<1> USE DEF Advance, Return, At, GoTo, db, indexes
<1>1. /\ pc \in [Workers -> Steps] /\ job \in [Workers -> Jobs \cup {NoValue}]
      /\ (pc[w] # "idle" => job[w] \in Jobs)
  BY DEF TypeInv, TypeOK
<1>2. pc[w] \in {"set_ocr", "set_postproc", "set_embedded", "choose_extract", "set_indexed"}
  BY DEF Status, SetOcr, SetPostproc, SetEmbedded, SetExtract, SetIndexed
<1>3. job[w] \in Jobs /\ documents[d] # NoValue
  BY <1>1, <1>2 DEF RunProgress, Progress, Registered, Jobs
<1>4. UNCHANGED <<chunks, points, fts, collection>>
  BY DEF Status, SetOcr, SetPostproc, SetEmbedded, SetExtract, SetIndexed
<1>5. CASE SetOcr(w) \/ SetPostproc(w)
  <2>1. PICK status \in {"ocr", "postproc"} : SetStatus(w, status)
    BY <1>5 DEF SetOcr, SetPostproc
  <2>2. documents'[d] # NoValue /\ documents'[d].status \in {"ocr", "postproc"}
    BY <1>3, <2>1, OnlyStatus DEF Statuses
  <2>3. job' = job /\ pc'[w] \in {"open", "consolidate"}
    BY <1>1, <1>5 DEF SetOcr, SetPostproc
  <2>4. Backed(d)'
    BY <2>2, <2>3 DEF Backed, HasStatus
  <2>5. Alone(w)'
    BY <2>2, <2>3 DEF Alone, HasStatus, Unbacked, Renewed, ChunksDone, VectorsDone, LexicalDone
  <2>6. QED BY <2>4, <2>5
<1>6. CASE SetEmbedded(w) \/ SetExtract(w)
  <2>1. /\ job' = job
        /\ \/ pc[w] = "set_embedded" /\ pc'[w] = "ensure" /\ SetStatus(w, "embedded")
           \/ pc[w] = "choose_extract" /\ pc'[w] = "extract" /\ SetStatus(w, "extract")
    BY <1>1, <1>6 DEF SetEmbedded, SetExtract
  <2>2. /\ documents'[d] # NoValue /\ documents'[d].text = documents[d].text
        /\ documents'[d].status = IF pc[w] = "set_embedded" THEN "embedded" ELSE "extract"
    BY <1>3, <2>1, OnlyStatus DEF Statuses
  <2>3. documents[d].text = job[w].text /\ HasOwn(chunks, w)
        /\ (pc[w] = "choose_extract" => HasOwn(points, w) /\ HasOwn(fts, w))
    BY <2>1 DEF Alone, Renewed, ChunksDone, VectorsDone, LexicalDone
  <2>4. Backed(d)'
    <3>1. /\ Holds(chunks, d)'
          /\ pc[w] = "choose_extract" => Holds(points, d)' /\ Holds(fts, d)'
      BY <1>4, <2>2, <2>3 DEF Holds, HasOwn, Stored
    <3>2. pc[w] # "choose_extract" => documents'[d].status = "embedded"
      BY <2>1, <2>2
    <3>3. QED BY <2>2, <3>1, <3>2 DEF Backed, HasStatus
  <2>5. Alone(w)'
    BY <1>4, <2>1, <2>2, <2>3
       DEF Alone, HasStatus, HasOwn, Unbacked, Renewed, ChunksDone, VectorsDone, LexicalDone
  <2>6. QED BY <2>4, <2>5
<1>7. CASE SetIndexed(w)
  <2>1. pc[w] = "set_indexed" /\ pc'[w] = "idle" /\ SetStatus(w, "indexed")
    BY <1>1, <1>7 DEF SetIndexed
  <2>2. /\ documents'[d] # NoValue /\ documents'[d].text = documents[d].text
        /\ documents'[d].status = "indexed"
    BY <1>3, <2>1, OnlyStatus DEF Statuses
  <2>3. /\ documents[d].text = job[w].text
        /\ HasOwn(chunks, w) /\ HasOwn(points, w) /\ HasOwn(fts, w)
    BY <2>1 DEF Alone, Renewed, ChunksDone, VectorsDone, LexicalDone
  <2>4. Holds(chunks, d)' /\ Holds(points, d)' /\ Holds(fts, d)'
    BY <1>4, <2>2, <2>3 DEF Holds, HasOwn, Stored
  <2>5. QED BY <2>1, <2>4 DEF Backed, Alone, Unbacked, Renewed, ChunksDone, VectorsDone, LexicalDone
<1>8. QED BY <1>5, <1>6, <1>7 DEF Status

(***************************************************************************)
(* The documents row of the run: inserted, or given its text.              *)
(***************************************************************************)
LEMMA RowStep ==
    ASSUME TypeInv, RunProgress, NEW w \in Workers, InsertRow(w) \/ UpdateDoctype(w),
           Alone(w), NEW d \in Docs, d = job[w].doc, Backed(d)
    PROVE  Alone(w)' /\ Backed(d)'
<1> USE DEF Advance, Return, At, GoTo, db, indexes
<1>1. /\ pc \in [Workers -> Steps] /\ job \in [Workers -> Jobs \cup {NoValue}]
      /\ (pc[w] # "idle" => job[w] \in Jobs)
      /\ documents \in [Docs -> DocumentRows \cup {NoValue}]
  BY DEF TypeInv, TypeOK
<1>2. UNCHANGED <<chunks, points, fts, job, collection>>
  BY DEF InsertRow, UpdateDoctype
<1>3. CASE InsertRow(w)
  <2>1. /\ pc'[w] = "set_ocr" /\ job[w] \in Jobs
        /\ documents'[d] = [tenant |-> job[w].tenant, month |-> job[w].month,
                            status |-> "queued", text |-> NoValue]
    BY <1>1, <1>3 DEF InsertRow
  <2>2. documents'[d].status = "queued"
    BY <2>1
  <2>3. QED BY <1>2, <2>1, <2>2
        DEF Alone, Backed, HasStatus, Unbacked, Renewed, ChunksDone, VectorsDone, LexicalDone
<1>4. CASE UpdateDoctype(w)
  <2>1. /\ pc[w] = "update_doctype" /\ pc'[w] = "store" /\ job[w] \in Jobs
        /\ job[w].text \in Texts
    BY <1>1, <1>4 DEF UpdateDoctype, TypeInv, LocalsOK, HasText
  <2>2. documents[d] \in DocumentRows
    BY <1>1, <2>1 DEF RunProgress, Progress, Registered
  <2>3. /\ documents' = [documents EXCEPT ![d].text = job[w].text]
    BY <1>4, <2>2, NoValueAssumption DEF UpdateDoctype
  <2>4. /\ documents'[d] \in DocumentRows /\ documents'[d].text = job[w].text
        /\ documents'[d].status = documents[d].status
    BY <1>1, <2>1, <2>2, <2>3 DEF DocumentRows
  <2>5. ~HasStatus(d, {"embedded", "extract", "indexed"})'
    BY <2>1, <2>2, <2>4, NoValueAssumption DEF Alone, Unbacked, HasStatus
  <2>6. ~HasStatus(d, {"indexed"})'
    BY <2>5 DEF HasStatus
  <2>7. Backed(d)'
    BY <2>5 DEF Backed, HasStatus
  <2>8. Alone(w)'
    BY <1>2, <2>1, <2>4, <2>6, NoValueAssumption
       DEF Alone, Unbacked, Renewed, ChunksDone, VectorsDone, LexicalDone
  <2>9. QED BY <2>7, <2>8
<1>5. QED BY <1>3, <1>4

(***************************************************************************)
(* After a merge the store has the run's text under all its labels.        *)
(***************************************************************************)
LEMMA WriteHasOwn ==
    ASSUME NEW w \in Workers, job[w] \in Jobs, job[w].text \in Texts,
           NEW old \in [Docs -> StoreRows], NEW new,
           new = [old EXCEPT ![job[w].doc] = Written(w, old[job[w].doc])]
    PROVE  HasOwn(new, w)
<1>1. job[w].doc \in Docs /\ job[w].tenant \in Tenants
      /\ ChunkIds[job[w].text] \subseteq Labels
  BY ConstantsAssumption DEF Jobs
<1>2. new[job[w].doc] = Written(w, old[job[w].doc])
  BY <1>1
<1>3. ASSUME NEW l \in ChunkIds[job[w].text]
      PROVE  new[job[w].doc][l] # NoValue /\ new[job[w].doc][l].text = job[w].text
  <2>1. new[job[w].doc][l] = [tenant |-> job[w].tenant, text |-> job[w].text]
    BY <1>1, <1>2, <1>3 DEF Written
  <2>2. [tenant |-> job[w].tenant, text |-> job[w].text] \in Entries
    BY <1>1 DEF Entries
  <2>3. QED BY <2>1, <2>2, NoValueAssumption
<1>4. QED BY <1>3 DEF HasOwn

(***************************************************************************)
(* The merges into the three stores.                                       *)
(***************************************************************************)
LEMMA WriteStep ==
    ASSUME TypeInv, NEW w \in Workers, StoreChunks(w) \/ UpsertVectors(w) \/ UpsertLexical(w),
           Alone(w), NEW d \in Docs, d = job[w].doc, Backed(d)
    PROVE  Alone(w)' /\ Backed(d)'
<1> USE DEF Advance, Return, At, GoTo, db, indexes
<1>1. /\ pc[w] \in {"store", "vectors", "lexical"}
      /\ pc' = [pc EXCEPT ![w] = IF pc[w] = "store" THEN "set_embedded"
                                 ELSE IF pc[w] = "vectors" THEN "lexical"
                                 ELSE "choose_extract"]
      /\ UNCHANGED <<documents, job, collection>>
  BY DEF StoreChunks, UpsertVectors, UpsertLexical
<1>2. /\ pc \in [Workers -> Steps] /\ job[w] \in Jobs /\ job[w].text \in Texts
      /\ chunks \in [Docs -> StoreRows] /\ points \in [Docs -> StoreRows]
      /\ fts \in [Docs -> StoreRows]
  BY <1>1 DEF TypeInv, TypeOK, LocalsOK, HasText, StoreRows
<1>3. /\ documents[d] # NoValue /\ documents[d].text = job[w].text
      /\ ~HasStatus(d, {"indexed"})
  BY <1>1 DEF Alone, Renewed
<1>4. ~HasStatus(d, {"indexed"})'
  BY <1>1, <1>3 DEF HasStatus
<1>5. ASSUME HasOwn(chunks, w)' \/ (chunks' = chunks /\ pc[w] # "store"),
             HasOwn(points, w)' \/ (points' = points /\ pc[w] # "vectors"),
             HasOwn(fts, w)' \/ (fts' = fts /\ pc[w] # "lexical")
      PROVE  Alone(w)' /\ Backed(d)'
  <2>1. /\ HasStatus(d, {"embedded", "extract", "indexed"}) => Holds(chunks, d)'
        /\ HasStatus(d, {"extract", "indexed"}) => Holds(points, d)' /\ Holds(fts, d)'
    <3>1. /\ HasOwn(chunks, w)' => Holds(chunks, d)'
          /\ HasOwn(points, w)' => Holds(points, d)'
          /\ HasOwn(fts, w)' => Holds(fts, d)'
      BY <1>1, <1>3 DEF Holds, HasOwn, Stored
    <3>2. /\ chunks' = chunks /\ Holds(chunks, d) => Holds(chunks, d)'
          /\ points' = points /\ Holds(points, d) => Holds(points, d)'
          /\ fts' = fts /\ Holds(fts, d) => Holds(fts, d)'
      BY <1>1 DEF Holds, Stored
    <3>3. QED BY <1>5, <3>1, <3>2 DEF Backed
  <2>2. Backed(d)'
    BY <1>1, <2>1 DEF Backed, HasStatus
  <2>3. /\ pc'[w] \in ChunksDone => HasOwn(chunks, w)'
        /\ pc'[w] \in VectorsDone => HasOwn(points, w)'
        /\ pc'[w] \in LexicalDone => HasOwn(fts, w)'
    BY <1>1, <1>2, <1>5 DEF Alone, HasOwn, ChunksDone, VectorsDone, LexicalDone
  <2>4. pc'[w] \notin Unbacked \cup {"drop"}
    BY <1>1, <1>2 DEF Unbacked
  <2>5. QED BY <1>1, <1>3, <1>4, <2>2, <2>3, <2>4 DEF Alone
<1>6. CASE StoreChunks(w)
  <2>1. chunks' = [chunks EXCEPT ![job[w].doc] = Written(w, chunks[job[w].doc])]
        /\ UNCHANGED <<points, fts>> /\ pc[w] = "store"
    BY <1>6 DEF StoreChunks
  <2>2. HasOwn(chunks', w)
    BY <1>2, <2>1, WriteHasOwn
  <2>3. HasOwn(chunks, w)'
    BY <1>1, <2>2 DEF HasOwn
  <2>4. QED BY <1>5, <2>1, <2>3
<1>7. CASE UpsertVectors(w)
  <2>1. points' = [points EXCEPT ![job[w].doc] = Written(w, points[job[w].doc])]
        /\ UNCHANGED <<chunks, fts>> /\ pc[w] = "vectors"
    BY <1>7 DEF UpsertVectors
  <2>2. HasOwn(points', w)
    BY <1>2, <2>1, WriteHasOwn
  <2>3. HasOwn(points, w)'
    BY <1>1, <2>2 DEF HasOwn
  <2>4. QED BY <1>5, <2>1, <2>3
<1>8. CASE UpsertLexical(w)
  <2>1. fts' = [fts EXCEPT ![job[w].doc] = Written(w, fts[job[w].doc])]
        /\ UNCHANGED <<chunks, points>> /\ pc[w] = "lexical"
    BY <1>8 DEF UpsertLexical
  <2>2. HasOwn(fts', w)
    BY <1>2, <2>1, WriteHasOwn
  <2>3. HasOwn(fts, w)'
    BY <1>1, <2>2 DEF HasOwn
  <2>4. QED BY <1>5, <2>1, <2>3
<1>9. QED BY <1>6, <1>7, <1>8

(***************************************************************************)
(* Without a collection there are no points, and one worker drops only     *)
(* when there is none.                                                     *)
(***************************************************************************)
LEMMA NoPointsStep ==
    ASSUME TypeInv, NEW w \in Workers, Run(w), NoPoints
    PROVE  NoPoints'
<1> USE DEF Advance, Return, At, GoTo, db, indexes
<1>1. CASE Prepare(w) \/ Ocr(w) \/ Postprocess(w) \/ Finish(w)
  <2>1. UNCHANGED <<collection, points>>
    BY <1>1 DEF Prepare, PrepareLayout, OpenCopy, FinishCopy, UpsertReads, InsertRow, InsertConflicts,
       Ocr, SetOcr, OpenPdf, OcrPage, FinishOcr, PersistPages,
       Postprocess, SetPostproc, Consolidate, UpdateDoctype, StoreChunks,
       Finish, SkipExtract, SetExtract, Extract, SetIndexed
  <2>2. QED BY <2>1 DEF NoPoints, NoEntries
<1>2. CASE UpsertVectors(w)
  <2>1. job[w] \in Jobs /\ collection' = collection
        /\ points' = [points EXCEPT ![job[w].doc] = Written(w, points[job[w].doc])]
        /\ (collection \/ ChunkIds[job[w].text] = {})
    BY <1>2 DEF UpsertVectors, TypeInv, TypeOK
  <2>2. CASE collection
    BY <2>1, <2>2 DEF NoPoints
  <2>3. CASE ~collection
    <3>1. points = NoEntries /\ ChunkIds[job[w].text] = {} /\ job[w].doc \in Docs
      BY <2>1, <2>3 DEF NoPoints, Jobs
    <3>2. Written(w, points[job[w].doc]) = points[job[w].doc]
      BY <3>1 DEF Written, NoEntries
    <3>3. points' = NoEntries
      BY <2>1, <3>1, <3>2 DEF NoEntries
    <3>4. QED BY <3>3 DEF NoPoints, NoEntries
  <2>4. QED BY <2>2, <2>3
<1>3. CASE Index(w) /\ ~UpsertVectors(w)
  <2>1. collection' = TRUE \/ points' = NoEntries \/ UNCHANGED <<collection, points>>
    BY <1>3 DEF Index, SetEmbedded, EnsureCollection, DropCollection, CreateCollection,
       CreateConflicts, CollectionMissing, UpsertLexical
  <2>2. QED BY <2>1 DEF NoPoints, NoEntries
<1>4. QED BY <1>1, <1>2, <1>3 DEF Run

(***************************************************************************)
(* No statement of a run is at the place of a worker without one.          *)
(***************************************************************************)
LEMMA RunIsAtWork ==
    ASSUME NEW w \in Workers, Run(w)
    PROVE  pc[w] # "idle"
<1> USE DEF Advance, At
<1>1. CASE Prepare(w) \/ Ocr(w)
  BY <1>1 DEF Prepare, PrepareLayout, OpenCopy, FinishCopy, UpsertReads, InsertRow, InsertConflicts,
     Ocr, SetOcr, OpenPdf, OcrPage, FinishOcr, PersistPages
<1>2. CASE Postprocess(w) \/ Finish(w)
  BY <1>2 DEF Postprocess, SetPostproc, Consolidate, UpdateDoctype, StoreChunks,
     Finish, SkipExtract, SetExtract, Extract, SetIndexed
<1>3. CASE Index(w)
  BY <1>3 DEF Index, SetEmbedded, EnsureCollection, DropCollection, CreateCollection,
     CreateConflicts, UpsertVectors, CollectionMissing, UpsertLexical
<1>4. QED BY <1>1, <1>2, <1>3 DEF Run

(***************************************************************************)
(* A statement of a run keeps what is known of it and of its document.     *)
(***************************************************************************)
LEMMA RunAlone ==
    ASSUME SoloInv, NEW w \in Workers, Run(w)
    PROVE  Alone(w)' /\ \A d \in Docs : Backed(d)'
<1>1. TypeInv /\ RunProgress /\ Alone(w) /\ (\A d \in Docs : Backed(d)) /\ NoPoints
  BY DEF SoloInv, StoreInv
<1>2. job[w].doc \in Docs
  BY <1>1, RunIsAtWork DEF TypeInv, TypeOK, Jobs
<1>3. CASE DropCollection(w)
  <2>1. /\ pc[w] = "drop" /\ pc'[w] = "create"
        /\ UNCHANGED <<documents, chunks, fts, job>> /\ points' = NoEntries
    BY <1>1, <1>3 DEF DropCollection, Advance, At, GoTo, db, TypeInv, TypeOK
  <2>2. points' = points
    BY <1>1, <2>1 DEF Alone, NoPoints
  <2>3. Alone(w)'
    BY <1>1, <2>1, <2>2, QuietKeeps
       DEF Renewed, Unbacked, ChunksDone, VectorsDone, LexicalDone
  <2>4. QED BY <1>1, <2>1, <2>2, <2>3, BackedStays
<1>4. CASE Quiet(w)
  <2>1. UNCHANGED <<documents, chunks, points, fts>> /\ Alone(w)'
    BY <1>1, <1>4, QuietStep
  <2>2. QED BY <1>1, <2>1, BackedStays
<1>5. ASSUME NEW d \in Docs, d # job[w].doc, ~DropCollection(w)
      PROVE  Backed(d)'
  BY <1>1, <1>5, OwnDocumentOnly, BackedStays
<1>6. CASE Status(w)
  <2>1. ~DropCollection(w)
    BY <1>6 DEF Status, SetOcr, SetPostproc, SetEmbedded, SetExtract, SetIndexed,
                DropCollection, Advance, At
  <2>2. QED BY <1>1, <1>2, <1>5, <1>6, <2>1, StatusStep
<1>7. CASE InsertRow(w) \/ UpdateDoctype(w)
  <2>1. ~DropCollection(w)
    BY <1>7 DEF InsertRow, UpdateDoctype, DropCollection, Advance, At
  <2>2. QED BY <1>1, <1>2, <1>5, <1>7, <2>1, RowStep
<1>8. CASE StoreChunks(w) \/ UpsertVectors(w) \/ UpsertLexical(w)
  <2>1. ~DropCollection(w)
    BY <1>8 DEF StoreChunks, UpsertVectors, UpsertLexical, DropCollection, Advance, At
  <2>2. QED BY <1>1, <1>2, <1>5, <1>8, <2>1, WriteStep
<1>9. QED
  BY <1>3, <1>4, <1>6, <1>7, <1>8
     DEF Run, Prepare, Ocr, Postprocess, Index, Finish, Quiet, Status

(***************************************************************************)
(* A call, an abort or a change of month keeps it too.                     *)
(***************************************************************************)
LEMMA IdleAlone ==
    ASSUME SoloInv, NEW w \in Workers,
           Call(w) \/ Abort(w) \/ NextMonth \/ UNCHANGED vars
    PROVE  /\ UNCHANGED <<documents, chunks, points, fts, collection>>
           /\ Alone(w)' /\ \A d \in Docs : Backed(d)'
<1> USE DEF Return, At, GoTo, db, indexes
<1>1. UNCHANGED <<documents, chunks, points, fts, collection>>
  BY DEF Call, Ingest, Abort, NextMonth, vars
<1>2. \A d \in Docs : Backed(d)'
  BY <1>1, BackedStays DEF SoloInv
<1>3. /\ pc \in [Workers -> Steps] /\ job \in [Workers -> Jobs \cup {NoValue}]
      /\ Alone(w)
  BY DEF SoloInv, StoreInv, TypeInv, TypeOK
<1>4. CASE Call(w)
  <2>1. PICK d \in Docs, t \in Tenants : Ingest(w, d, t)
    BY <1>4 DEF Call
  <2>2. CASE LookupRaises(w, d) \/ LookupSkips(w, d)
    <3>1. pc'[w] = "idle"
      BY <1>3, <2>2 DEF LookupRaises, LookupSkips
    <3>2. QED BY <1>1, <1>2, <1>3, <3>1, QuietKeeps
  <2>3. CASE LookupProceeds(w, d, t)
    <3>1. pc'[w] = "layout" /\ job'[w].doc = d /\ ~HasStatus(d, {"indexed"})'
      BY <1>1, <1>3, <2>3 DEF LookupProceeds, HasStatus
    <3>2. Alone(w)'
      BY <3>1 DEF Alone, HasStatus, Unbacked, Renewed, ChunksDone, VectorsDone, LexicalDone
    <3>3. QED BY <1>1, <1>2, <3>2
  <2>4. QED BY <2>1, <2>2, <2>3 DEF Ingest
<1>5. CASE Abort(w)
  <2>1. pc'[w] = "idle"
    BY <1>3, <1>5 DEF Abort
  <2>2. QED BY <1>1, <1>2, <1>3, <2>1, QuietKeeps
<1>6. CASE NextMonth \/ UNCHANGED vars
  <2>1. pc' = pc /\ job' = job
    BY <1>6 DEF NextMonth, vars
  <2>2. QED BY <1>1, <1>2, <1>3, <2>1 DEF Alone, HasOwn, HasStatus
<1>7. QED BY <1>4, <1>5, <1>6

(***************************************************************************)
(* Every step of a system with one worker keeps the invariant.             *)
(***************************************************************************)
LEMMA SoloStep ==
    ASSUME OneWorker, SoloInv, [Next]_vars
    PROVE  SoloInv'
<1>1. StoreInv'
  BY StoreStep DEF SoloInv
<1>2. CASE \E w \in Workers : Run(w)
  <2>1. PICK w \in Workers : Run(w)
    BY <1>2
  <2>2. Alone(w)' /\ \A d \in Docs : Backed(d)'
    BY <2>1, RunAlone
  <2>3. NoPoints'
    BY <2>1, NoPointsStep DEF SoloInv, StoreInv
  <2>4. \A v \in Workers : Alone(v)'
    BY <2>2 DEF OneWorker
  <2>5. QED BY <1>1, <2>2, <2>3, <2>4 DEF SoloInv
<1>3. CASE (\E w \in Workers : Call(w) \/ Abort(w)) \/ NextMonth \/ UNCHANGED vars
  <2>1. UNCHANGED <<points, collection>>
    BY <1>3 DEF Call, Ingest, Abort, NextMonth, vars, indexes
  <2>2. NoPoints'
    BY <2>1 DEF SoloInv, NoPoints, NoEntries
  <2>3. ASSUME NEW w \in Workers
        PROVE  Alone(w)' /\ \A d \in Docs : Backed(d)'
    BY <1>3, IdleAlone DEF OneWorker
  <2>4. ASSUME NEW d \in Docs
        PROVE  Backed(d)'
    <3>1. UNCHANGED <<documents, chunks, points, fts>>
      BY <1>3 DEF Call, Ingest, Abort, NextMonth, vars, db, indexes
    <3>2. QED BY <3>1, BackedStays DEF SoloInv
  <2>5. QED BY <1>1, <2>2, <2>3, <2>4 DEF SoloInv
<1>4. QED BY <1>2, <1>3 DEF Next

(***************************************************************************)
(* The invariant holds at the start.                                       *)
(***************************************************************************)
LEMMA SoloInit == Init => SoloInv
BY StoreInit DEF Init, SoloInv, NoPoints, Alone, Backed, HasStatus, Unbacked, Renewed,
   ChunksDone, VectorsDone, LexicalDone

(***************************************************************************)
(* With one worker, a status is what a reader may rely on after any crash. *)
(***************************************************************************)
THEOREM StatusBacked ==
    ASSUME OneWorker
    PROVE  Spec => []StatusIsBacked
<1>1. SoloInv /\ [Next]_vars => SoloInv'
  BY SoloStep
<1>2. SoloInv => StatusIsBacked
  BY DEF SoloInv, StatusIsBacked, Backed
<1>3. QED BY <1>1, <1>2, SoloInit, PTL DEF Spec

(***************************************************************************)
(* What is indexed is not written to again: no run is at work on it.       *)
(***************************************************************************)
LEMMA IndexedStays ==
    ASSUME OneWorker, SoloInv, [Next]_vars, NEW d \in Docs, HasStatus(d, {"indexed"})
    PROVE  documents'[d] = documents[d] /\ chunks'[d] = chunks[d]
<1>1. CASE \E w \in Workers : Run(w)
  <2>1. PICK w \in Workers : Run(w)
    BY <1>1
  <2>2. d # job[w].doc
    BY <2>1, RunIsAtWork DEF SoloInv, Alone
  <2>3. QED BY <2>1, <2>2, OwnDocumentOnly DEF SoloInv, StoreInv
<1>2. CASE (\E w \in Workers : Call(w) \/ Abort(w)) \/ NextMonth \/ UNCHANGED vars
  BY <1>2 DEF Call, Ingest, Abort, NextMonth, vars, db
<1>3. QED BY <1>1, <1>2 DEF Next

(***************************************************************************)
(* With one worker, indexed is final: a call skips the document, and no    *)
(* run that is at work, dies or is retried has it.                         *)
(***************************************************************************)
THEOREM IndexedFinal ==
    ASSUME OneWorker
    PROVE  Spec => IndexedIsFinal
<1>1. SoloInv /\ [Next]_vars => SoloInv'
  BY SoloStep
<1>2. SoloInv /\ [Next]_vars =>
        [\A d \in Docs : HasStatus(d, {"indexed"}) => HasStatus(d, {"indexed"})']_vars
  <2> SUFFICES ASSUME SoloInv, [Next]_vars, NEW d \in Docs, HasStatus(d, {"indexed"})
               PROVE  HasStatus(d, {"indexed"})'
    OBVIOUS
  <2>1. documents'[d] = documents[d]
    BY IndexedStays
  <2>2. QED BY <2>1 DEF HasStatus
<1>3. QED BY <1>1, <1>2, SoloInit, PTL DEF Spec, IndexedIsFinal

-----------------------------------------------------------------------------
\* The readers.

(***************************************************************************)
(* The readers write nothing that ingest reads: every behaviour with them  *)
(* is one of the pipeline, so what is proved of it holds beside them.      *)
(***************************************************************************)
THEOREM ReadersAreUnseen == SysSpec => Spec
<1>1. SysInit => Init
  BY DEF SysInit
<1>2. [SysNext]_sysVars => [Next]_vars
  BY DEF SysNext, Read, ReadDocuments, KeepAnswer, ReadChunks, sysVars
<1>3. QED BY <1>1, <1>2, PTL DEF SysSpec, Spec

VersionInv ==
    /\ SoloInv
    /\ kept # NoValue =>
         /\ \A d \in kept.version : d \in Docs /\ HasStatus(d, {"indexed"})
         /\ kept.content = Content(kept.version)

(***************************************************************************)
(* A version hash that is still the one of a kept answer names the chunks  *)
(* the answer was drawn from: with one worker they are never written to    *)
(* again.                                                                  *)
(***************************************************************************)
THEOREM VersionNames ==
    ASSUME OneWorker
    PROVE  SysSpec => []VersionNamesContent
<1>1. SysInit => VersionInv
  BY SoloInit DEF SysInit, VersionInv
<1>2. VersionInv /\ [SysNext]_sysVars => VersionInv'
  <2> SUFFICES ASSUME VersionInv, [SysNext]_sysVars PROVE VersionInv'
    OBVIOUS
  <2>1. [Next]_vars
    BY DEF SysNext, Read, ReadDocuments, KeepAnswer, ReadChunks, sysVars
  <2>2. SoloInv'
    BY <2>1, SoloStep DEF VersionInv
  <2>3. CASE kept' = kept
    <3>1. CASE kept = NoValue
      BY <2>2, <2>3, <3>1 DEF VersionInv
    <3>2. CASE kept # NoValue
      <4>1. ASSUME NEW d \in kept.version
            PROVE  /\ d \in Docs /\ HasStatus(d, {"indexed"})'
                   /\ chunks'[d] = chunks[d]
        <5>1. d \in Docs /\ HasStatus(d, {"indexed"})
          BY <3>2 DEF VersionInv
        <5>2. documents'[d] = documents[d] /\ chunks'[d] = chunks[d]
          BY <2>1, <5>1, IndexedStays DEF VersionInv
        <5>3. QED BY <5>1, <5>2 DEF HasStatus
      <4>2. kept.content = Content(kept.version)'
        BY <2>3, <3>2, <4>1 DEF VersionInv, Content
      <4>3. QED BY <2>2, <2>3, <4>1, <4>2 DEF VersionInv
    <3>3. QED BY <3>1, <3>2
  <2>4. CASE \E scope \in Scopes : KeepAnswer(scope)
    <3>1. PICK scope \in Scopes : KeepAnswer(scope)
      BY <2>4
    <3>2. /\ kept' = [scope |-> scope, version |-> Version(scope),
                      content |-> Content(Version(scope))]
          /\ UNCHANGED <<documents, chunks>>
      BY <3>1 DEF KeepAnswer, vars
    <3>3. kept'.version = Version(scope) /\ kept'.content = Content(Version(scope))
      BY <3>2
    <3>4. \A d \in kept'.version : d \in Docs /\ HasStatus(d, {"indexed"})'
      BY <3>2, <3>3 DEF Version, Selected, HasStatus
    <3>5. kept'.content = Content(kept.version)'
      BY <3>2, <3>3 DEF Content
    <3>6. QED BY <2>2, <3>4, <3>5 DEF VersionInv
  <2>5. QED BY <2>3, <2>4
        DEF SysNext, Read, ReadDocuments, ReadChunks, readers, sysVars
<1>3. VersionInv => VersionNamesContent
  BY DEF VersionInv, VersionNamesContent
<1>4. QED BY <1>1, <1>2, <1>3, PTL DEF SysSpec

-----------------------------------------------------------------------------
\* The statistics, with any number of workers.

\* What a report shows as indexed, a run has completed before.
ReportInv ==
    report # NoValue =>
      /\ report = [scope |-> report.scope, chunk_count |-> report.chunk_count,
                   facts |-> report.facts]
      /\ DOMAIN report.facts \subseteq Docs
      /\ \A d \in DOMAIN report.facts : report.facts[d].tenant \in Tenants
      /\ \A d \in ShownIndexed : \E text \in Texts : <<d, text>> \in completed

StoresInv == StoreInv /\ IndexedMeansCompleted

(***************************************************************************)
(* Of one tenant, the second select counts every chunk row there is.       *)
(***************************************************************************)
LEMMA AllCounted ==
    ASSUME TypeInv, CompletedRunsStayStored, IsFiniteSet(Docs), IsFiniteSet(Labels),
           NEW t \in Tenants, Tenants = {t}, NEW S \in SUBSET Docs,
           NEW text \in [S -> Texts], \A d \in S : <<d, text[d]>> \in completed
    PROVE  Cardinality({x \in S \X Labels : x[2] \in ChunkIds[text[x[1]]]}) <= Counted(t)
<1> DEFINE produced == {x \in S \X Labels : x[2] \in ChunkIds[text[x[1]]]}
           there == {x \in Docs \X Labels :
                        Stored(chunks, x[1], x[2]) /\ chunks[x[1]][x[2]].tenant = t}
<1>1. IsFiniteSet(Docs \X Labels)
  BY FS_Product
<1>2. IsFiniteSet(there)
  <2>1. there \in SUBSET (Docs \X Labels)
    OBVIOUS
  <2>2. QED BY <1>1, <2>1, FS_Subset
<1>3. produced \in SUBSET there
  <2> SUFFICES ASSUME NEW x \in produced PROVE x \in there
    OBVIOUS
  <2>1. x[1] \in S /\ x[1] \in Docs /\ x[2] \in Labels /\ x \in Docs \X Labels
        /\ x[2] \in ChunkIds[text[x[1]]]
    OBVIOUS
  <2>2. <<x[1], text[x[1]]>> \in completed
    BY <2>1
  <2>3. Stored(chunks, x[1], x[2])
    BY <2>1, <2>2 DEF CompletedRunsStayStored
  <2>4. chunks[x[1]][x[2]] \in Entries
    BY <2>1, <2>3 DEF TypeInv, TypeOK, Stored
  <2>5. chunks[x[1]][x[2]].tenant = t
    BY <2>4 DEF Entries
  <2>6. QED BY <2>1, <2>3, <2>5
<1>4. Cardinality(produced) <= Cardinality(there)
  BY <1>2, <1>3, FS_Subset
<1>5. QED BY <1>4 DEF Counted

(***************************************************************************)
(* The stores beside the readers are those of the pipeline.                *)
(***************************************************************************)
LEMMA StoresBeside == SysSpec => []StoresInv
<1>1. Spec => []StoreInv
  BY StoreInit, StoreStep, PTL DEF Spec
<1>2. QED BY <1>1, IndexedCompleted, ReadersAreUnseen, PTL DEF StoresInv

(***************************************************************************)
(* A worker's step takes nothing from under a report.                      *)
(***************************************************************************)
LEMMA ReportKept ==
    ASSUME ReportInv, IndexedAreCounted, report' = report, completed \subseteq completed'
    PROVE  ReportInv' /\ IndexedAreCounted'
<1>1. ReportInv'
  BY DEF ReportInv, ShownIndexed
<1>2. ASSUME report # NoValue, report.chunk_count # NoValue, NEW t \in DOMAIN report.chunk_count
      PROVE  \E text \in [ShownIndexed -> Texts] :
               /\ \A d \in ShownIndexed : <<d, text[d]>> \in completed'
               /\ Cardinality({x \in ShownIndexed \X Labels : x[2] \in ChunkIds[text[x[1]]]})
                    <= report.chunk_count[t]
  <2>1. PICK text \in [ShownIndexed -> Texts] :
               /\ \A d \in ShownIndexed : <<d, text[d]>> \in completed
               /\ Cardinality({x \in ShownIndexed \X Labels : x[2] \in ChunkIds[text[x[1]]]})
                    <= report.chunk_count[t]
    BY <1>2 DEF IndexedAreCounted
  <2>2. \A d \in ShownIndexed : <<d, text[d]>> \in completed'
    BY <2>1
  <2>3. QED BY <2>1, <2>2
<1>3. ShownIndexed' = ShownIndexed
  BY DEF ShownIndexed
<1>4. IndexedAreCounted'
  BY <1>2, <1>3 DEF IndexedAreCounted
<1>5. QED BY <1>1, <1>4

(***************************************************************************)
(* The first select shows as indexed what some run has completed.          *)
(***************************************************************************)
LEMMA FirstSelect ==
    ASSUME StoresInv, NEW scope \in Scopes, ReadDocuments(scope)
    PROVE  ReportInv' /\ IndexedAreCounted'
<1>1. /\ report'.chunk_count = NoValue
      /\ report'.facts = [d \in Selected(scope) |-> [tenant |-> documents[d].tenant,
                                                     status |-> documents[d].status]]
      /\ report' = [scope |-> report'.scope, chunk_count |-> report'.chunk_count,
                    facts |-> report'.facts]
      /\ UNCHANGED vars
  BY DEF ReadDocuments
<1>2. Selected(scope) \subseteq Docs
  BY DEF Selected
<1>3. ASSUME NEW d \in Selected(scope)
      PROVE  documents[d].tenant \in Tenants /\ documents[d] # NoValue
  <2>1. documents[d] \in DocumentRows
    BY DEF Selected, StoresInv, StoreInv, TypeInv, TypeOK
  <2>2. QED BY <2>1 DEF Selected, DocumentRows
<1>4. ASSUME NEW d \in ShownIndexed'
      PROVE  \E text \in Texts : <<d, text>> \in completed'
  <2>1. d \in Selected(scope) /\ documents[d].status = "indexed"
    BY <1>1 DEF ShownIndexed
  <2>2. \E text \in Texts : <<d, text>> \in completed
    BY <1>2, <1>3, <2>1 DEF StoresInv, IndexedMeansCompleted, HasStatus
  <2>3. QED BY <1>1, <2>2 DEF vars
<1>5. ReportInv'
  <2>1. DOMAIN report'.facts \subseteq Docs
    BY <1>1, <1>2
  <2>2. \A d \in DOMAIN report'.facts : report'.facts[d].tenant \in Tenants
    BY <1>1, <1>3
  <2>3. QED BY <1>1, <1>4, <2>1, <2>2 DEF ReportInv
<1>6. QED BY <1>1, <1>5 DEF IndexedAreCounted

(***************************************************************************)
(* The second select covers what the first has shown as indexed.           *)
(***************************************************************************)
LEMMA SecondSelect ==
    ASSUME StoresInv, ReportInv, ReadChunks, IsFiniteSet(Docs), IsFiniteSet(Labels),
           NEW t \in Tenants, Tenants = {t}
    PROVE  ReportInv' /\ IndexedAreCounted'
<1> DEFINE T == {report.facts[d].tenant : d \in DOMAIN report.facts}
           text == [d \in ShownIndexed |-> CHOOSE tx \in Texts : <<d, tx>> \in completed]
<1>1. /\ report # NoValue
      /\ report' = [report EXCEPT !.chunk_count = [u \in T |-> Counted(u)]]
      /\ UNCHANGED vars
  BY DEF ReadChunks
<1>2. report' = [scope |-> report.scope, chunk_count |-> [u \in T |-> Counted(u)],
                 facts |-> report.facts]
  BY <1>1 DEF ReportInv
<1> HIDE DEF T
<1>3. report'.facts = report.facts /\ report'.chunk_count = [u \in T |-> Counted(u)]
      /\ report'.scope = report.scope
  BY <1>2
<1>4. ShownIndexed' = ShownIndexed /\ completed' = completed
  BY <1>1, <1>3 DEF ShownIndexed, vars
<1>5. ReportInv'
  BY <1>1, <1>2, <1>3, <1>4 DEF ReportInv
<1>6. T \subseteq {t}
  BY <1>1 DEF ReportInv, T
<1>7. /\ text \in [ShownIndexed -> Texts]
      /\ \A d \in ShownIndexed : <<d, text[d]>> \in completed
  BY <1>1 DEF ReportInv
<1>8. ShownIndexed \in SUBSET Docs
  BY <1>1 DEF ReportInv, ShownIndexed
<1>9. TypeInv /\ CompletedRunsStayStored
  BY DEF StoresInv, StoreInv
<1> HIDE DEF text
<1>10. Cardinality({x \in ShownIndexed \X Labels : x[2] \in ChunkIds[text[x[1]]]}) <= Counted(t)
  BY <1>7, <1>8, <1>9, AllCounted
<1>11. ASSUME NEW u \in DOMAIN report'.chunk_count
       PROVE  Cardinality({x \in ShownIndexed \X Labels : x[2] \in ChunkIds[text[x[1]]]})
                <= report'.chunk_count[u]
  BY <1>3, <1>6, <1>10
<1>12. IndexedAreCounted'
  BY <1>4, <1>7, <1>11 DEF IndexedAreCounted
<1>13. QED BY <1>5, <1>12

(***************************************************************************)
(* A report is torn only forwards: between its two selects the workers may *)
(* add chunks, and take none away.                                         *)
(***************************************************************************)
THEOREM ReportsCount ==
    ASSUME IsFiniteSet(Docs), IsFiniteSet(Labels), NEW t \in Tenants, Tenants = {t}
    PROVE  SysSpec => []IndexedAreCounted
<1> DEFINE Inv == ReportInv /\ IndexedAreCounted
<1>1. SysInit => Inv
  BY DEF SysInit, ReportInv, IndexedAreCounted
<1>2. StoresInv /\ Inv /\ [SysNext]_sysVars => Inv'
  <2> SUFFICES ASSUME StoresInv, Inv, [SysNext]_sysVars PROVE Inv'
    OBVIOUS
  <2>1. CASE report' = report
    <3>1. [Next]_vars
      BY DEF SysNext, Read, ReadDocuments, KeepAnswer, ReadChunks, sysVars
    <3>2. completed \subseteq completed'
      BY <3>1, CompletedGrows DEF StoresInv, StoreInv
    <3>3. QED BY <2>1, <3>2, ReportKept
  <2>2. ASSUME NEW scope \in Scopes, ReadDocuments(scope) PROVE Inv'
    BY <2>2, FirstSelect
  <2>3. CASE ReadChunks
    BY <2>3, SecondSelect
  <2>4. QED BY <2>1, <2>2, <2>3 DEF SysNext, Read, KeepAnswer, readers, sysVars
<1>3. QED BY <1>1, <1>2, StoresBeside, PTL DEF SysSpec
=============================================================================
