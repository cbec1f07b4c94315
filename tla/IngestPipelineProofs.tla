------------------------ MODULE IngestPipelineProofs ------------------------
(***************************************************************************)
(* Proofs about IngestPipeline, for any number of workers, documents,      *)
(* tenants, pages, runs and aborts: its invariants; what status = indexed  *)
(* means; that it implements DocumentCatalogue over a collection that      *)
(* exists beforehand, and in any case for the sparse half of a search.     *)
(***************************************************************************)
EXTENDS IngestPipeline, TLAPS

-----------------------------------------------------------------------------
\* Texts.

(***************************************************************************)
(* A text is a sequence of readings no longer than the PDF.                *)
(***************************************************************************)
LEMMA TextIsSeq ==
    ASSUME NEW t \in Texts
    PROVE  t \in Seq(Readings) /\ Len(t) \in 0..NumPages
BY ConstantsAssumption DEF Texts

(***************************************************************************)
(* A sequence of readings no longer than the PDF is a text.                *)
(***************************************************************************)
LEMMA SeqIsText ==
    ASSUME NEW t \in Seq(Readings), Len(t) <= NumPages
    PROVE  t \in Texts
<1>1. Len(t) \in 0..NumPages /\ t \in [1..Len(t) -> Readings]
  BY ConstantsAssumption
<1>2. QED BY <1>1 DEF Texts

(***************************************************************************)
(* OcrPage adds one reading to a text that is short of pages.              *)
(***************************************************************************)
LEMMA AppendIsText ==
    ASSUME NEW t \in Texts, NEW r \in Readings, Len(t) < NumPages
    PROVE  Append(t, r) \in Texts /\ Len(Append(t, r)) = Len(t) + 1
<1>1. t \in Seq(Readings) /\ Len(t) \in Nat
  BY TextIsSeq, ConstantsAssumption
<1>2. Append(t, r) \in Seq(Readings) /\ Len(Append(t, r)) = Len(t) + 1
  BY <1>1
<1>3. Len(t) + 1 <= NumPages
  BY <1>1, ConstantsAssumption
<1>4. Len(Append(t, r)) <= NumPages
  BY <1>2, <1>3
<1>5. Append(t, r) \in Texts
  BY <1>2, <1>4, SeqIsText
<1>6. QED BY <1>2, <1>5

(***************************************************************************)
(* Consolidate reads the first pages of the files there are.               *)
(***************************************************************************)
LEMMA PrefixIsText ==
    ASSUME NEW t \in Texts, NEW n \in 0..NumPages, n <= Len(t)
    PROVE  SubSeq(t, 1, n) \in Texts
<1>1. t \in Seq(Readings) /\ Len(t) \in 0..NumPages
  BY TextIsSeq
<1>2. /\ SubSeq(t, 1, n) \in Seq(Readings)
      /\ Len(SubSeq(t, 1, n)) = n
  BY <1>1, ConstantsAssumption
<1>3. Len(SubSeq(t, 1, n)) <= NumPages
  BY <1>2, ConstantsAssumption
<1>4. QED BY <1>2, <1>3, SeqIsText

-----------------------------------------------------------------------------
\* Type correctness.

ReadingPages == {"page", "persist", "set_postproc", "consolidate"}
HasText == {"update_doctype", "store", "set_embedded", "ensure", "drop", "create",
            "vectors", "lexical", "choose_extract", "extract", "set_indexed"}

(***************************************************************************)
(* What a run knows of its local variables: from OCR on, the page files it *)
(* counted are on disk; from consolidate_markdown on, it has a text.       *)
(***************************************************************************)
LocalsOK ==
    \A w \in Workers :
      /\ pc[w] \in ReadingPages => /\ job[w].pages <= job[w].total
                                  /\ job[w].pages <= Len(files[Dir(w)].pages)
      /\ pc[w] \in HasText => job[w].text \in Texts

TypeInv == TypeOK /\ LocalsOK

StoreRows == [Labels -> Entries \cup {NoValue}]

(***************************************************************************)
(* What a run writes over a document's entries is well typed, loses no     *)
(* entry and has all the labels of the run's text.                         *)
(***************************************************************************)
LEMMA WrittenType ==
    ASSUME NEW w \in Workers, NEW old \in StoreRows,
           job[w] \in Jobs, job[w].text \in Texts
    PROVE  /\ Written(w, old) \in StoreRows
           /\ \A l \in Labels : old[l] # NoValue => Written(w, old)[l] # NoValue
           /\ \A l \in ChunkIds[job[w].text] : Written(w, old)[l] # NoValue
<1>1. [tenant |-> job[w].tenant, text |-> job[w].text] \in Entries
  BY DEF Entries, Jobs
<1>2. ChunkIds[job[w].text] \subseteq Labels
  BY ConstantsAssumption
<1>3. QED BY <1>1, <1>2, NoValueAssumption DEF Written, StoreRows

(***************************************************************************)
(* No write to the documents table drops a row or reassigns it.            *)
(***************************************************************************)
RowsKept ==
    \A d \in Docs : documents[d] # NoValue =>
        /\ documents'[d] # NoValue
        /\ documents'[d].tenant = documents[d].tenant
        /\ documents'[d].month = documents[d].month

(***************************************************************************)
(* Replacing a row by one with the same tenant and month keeps the table's *)
(* type and the registrations.                                             *)
(***************************************************************************)
LEMMA RowUpdate ==
    ASSUME TypeOK, NEW d \in Docs, NEW row \in DocumentRows, documents[d] # NoValue,
           row.tenant = documents[d].tenant, row.month = documents[d].month,
           documents' = [documents EXCEPT ![d] = row]
    PROVE  documents' \in [Docs -> DocumentRows \cup {NoValue}] /\ RowsKept
BY NoValueAssumption DEF TypeOK, RowsKept

(***************************************************************************)
(* _set_status keeps the table's type and the registrations.               *)
(***************************************************************************)
LEMMA SetStatusType ==
    ASSUME TypeOK, NEW w \in Workers, job[w] \in Jobs,
           NEW status \in Statuses, SetStatus(w, status)
    PROVE  documents' \in [Docs -> DocumentRows \cup {NoValue}] /\ RowsKept
<1> DEFINE d == job[w].doc
           row == [documents[d] EXCEPT !.status = status]
<1>1. d \in Docs /\ documents[d] \in DocumentRows \cup {NoValue}
  BY DEF TypeOK, Jobs
<1>2. CASE documents[d] = NoValue
  BY <1>2 DEF TypeOK, SetStatus, RowsKept
<1>3. CASE documents[d] # NoValue
  <2>1. /\ row \in DocumentRows
        /\ row.tenant = documents[d].tenant /\ row.month = documents[d].month
    BY <1>1, <1>3 DEF DocumentRows
  <2>2. documents' = [documents EXCEPT ![d] = row]
    BY <1>3 DEF SetStatus
  <2>3. QED BY <1>1, <1>3, <2>1, <2>2, RowUpdate
<1>4. QED BY <1>2, <1>3

(***************************************************************************)
(* _update_doctype keeps the table's type and the registrations.           *)
(***************************************************************************)
LEMMA UpdateDoctypeType ==
    ASSUME TypeInv, NEW w \in Workers, UpdateDoctype(w)
    PROVE  documents' \in [Docs -> DocumentRows \cup {NoValue}] /\ RowsKept
<1> DEFINE d == job[w].doc
           row == [documents[d] EXCEPT !.text = job[w].text]
<1>1. /\ d \in Docs /\ documents[d] \in DocumentRows \cup {NoValue}
      /\ job[w].text \in Texts
  BY DEF TypeInv, TypeOK, LocalsOK, Jobs, UpdateDoctype, Advance, At, HasText
<1>2. CASE documents[d] = NoValue
  BY <1>2 DEF TypeInv, TypeOK, UpdateDoctype, RowsKept
<1>3. CASE documents[d] # NoValue
  <2>1. /\ row \in DocumentRows
        /\ row.tenant = documents[d].tenant /\ row.month = documents[d].month
    BY <1>1, <1>3 DEF DocumentRows
  <2>2. documents' = [documents EXCEPT ![d] = row]
    BY <1>3 DEF UpdateDoctype
  <2>3. QED BY <1>1, <1>3, <2>1, <2>2, RowUpdate DEF TypeInv
<1>4. QED BY <1>2, <1>3

(***************************************************************************)
(* One turn of the page loop keeps the types: the canonical pages grow by  *)
(* at most one and never beyond the PDF.                                   *)
(***************************************************************************)
LEMMA OcrPageType ==
    ASSUME TypeInv, NEW w \in Workers, OcrPage(w)
    PROVE  TypeInv'
<1> DEFINE dir == Dir(w)
           done == job[w].pages
<1>1. /\ pc[w] = "page" /\ done < job[w].total /\ done <= Len(files[dir].pages)
      /\ job[w] \in Jobs /\ dir \in Dirs /\ files[dir].pages \in Texts
      /\ done \in Nat /\ job[w].total \in 0..NumPages
  BY ConstantsAssumption
     DEF TypeInv, TypeOK, LocalsOK, OcrPage, Advance, At, Dir, Dirs, Jobs, ReadingPages,
         FileRecords
<1>2. job' = [job EXCEPT ![w] = [job[w] EXCEPT !.pages = done + 1]]
  BY DEF OcrPage
<1>3. [job[w] EXCEPT !.pages = done + 1] \in Jobs
  <2>1. done + 1 \in 0..NumPages
    BY <1>1, ConstantsAssumption
  <2> HIDE DEF done
  <2>2. QED BY <1>1, <2>1 DEF Jobs
<1>4. /\ files' \in [Dirs -> FileRecords]
      /\ \A x \in Dirs : Len(files[x].pages) <= Len(files'[x].pages)
      /\ done + 1 <= Len(files'[dir].pages)
  <2>1. CASE Len(files[dir].pages) > done
    <3>1. files' = files
      BY <2>1 DEF OcrPage
    <3>2. \A x \in Dirs : Len(files[x].pages) \in Nat
      BY TextIsSeq, ConstantsAssumption DEF TypeInv, TypeOK, FileRecords
    <3>3. QED BY <1>1, <2>1, <3>1, <3>2 DEF TypeInv, TypeOK
  <2>2. CASE ~(Len(files[dir].pages) > done)
    <3>1. PICK r \in Readings :
            files' = [files EXCEPT ![dir] =
                        [files[dir] EXCEPT !.pages = Append(files[dir].pages, r)]]
      BY <2>2 DEF OcrPage
    <3>2. \A x \in Dirs : Len(files[x].pages) \in Nat
      BY TextIsSeq, ConstantsAssumption DEF TypeInv, TypeOK, FileRecords
    <3>3. Len(files[dir].pages) = done /\ Len(files[dir].pages) < NumPages
      BY <1>1, <2>2, <3>2, ConstantsAssumption
    <3>4. /\ Append(files[dir].pages, r) \in Texts
          /\ Len(Append(files[dir].pages, r)) = done + 1
      BY <1>1, <3>3, AppendIsText
    <3>5. [files[dir] EXCEPT !.pages = Append(files[dir].pages, r)] \in FileRecords
      <4>1. files[dir] \in FileRecords
        BY <1>1 DEF TypeInv, TypeOK
      <4>2. QED BY <3>4, <4>1 DEF FileRecords
    <3>6. files'[dir].pages = Append(files[dir].pages, r)
      BY <1>1, <3>1 DEF TypeInv, TypeOK, FileRecords
    <3>7. \A x \in Dirs : x # dir => files'[x] = files[x]
      BY <3>1 DEF TypeInv, TypeOK
    <3>8. QED BY <1>1, <3>1, <3>2, <3>3, <3>4, <3>5, <3>6, <3>7 DEF TypeInv, TypeOK
  <2>3. QED BY <2>1, <2>2
<1>5. TypeOK'
  BY <1>1, <1>2, <1>3, <1>4
     DEF TypeInv, TypeOK, OcrPage, Advance, At, GoTo, Steps, db, indexes, bounds
<1>6. LocalsOK'
  <2>1. ASSUME NEW v \in Workers, v # w
        PROVE  job'[v] = job[v] /\ pc'[v] = pc[v] /\ Dir(v)' = Dir(v)
    BY <2>1, <1>2 DEF OcrPage, Advance, GoTo, TypeInv, TypeOK, Dir
  <2>2. /\ job'[w] \in Jobs /\ job'[w].pages = done + 1 /\ job'[w].total = job[w].total
        /\ Dir(w)' = dir /\ pc'[w] = "page"
    BY <1>1, <1>2, <1>3 DEF TypeInv, TypeOK, OcrPage, Advance, GoTo, Dir, Jobs
  <2>3. ASSUME pc[w] # "idle", NEW v \in Workers, v # w, pc[v] \in ReadingPages
        PROVE  /\ job[v].pages <= job[v].total
               /\ job[v].pages <= Len(files'[Dir(v)].pages)
    <3>1. Dir(v) \in Dirs /\ job[v].pages \in Nat
      BY <2>3, ConstantsAssumption DEF TypeInv, TypeOK, ReadingPages, Dir, Dirs, Jobs
    <3>2. Len(files[Dir(v)].pages) \in Nat /\ Len(files'[Dir(v)].pages) \in Nat
      BY <1>4, <3>1, TextIsSeq, ConstantsAssumption DEF TypeInv, TypeOK, FileRecords
    <3>3. Len(files[Dir(v)].pages) <= Len(files'[Dir(v)].pages)
      BY <1>4, <3>1
    <3>4. job[v].pages <= job[v].total /\ job[v].pages <= Len(files[Dir(v)].pages)
      BY <2>3 DEF TypeInv, LocalsOK
    <3>5. QED BY <3>1, <3>2, <3>3, <3>4
  <2>4. ASSUME NEW v \in Workers, v # w, pc[v] \in HasText
        PROVE  job[v].text \in Texts
    BY <2>4 DEF TypeInv, LocalsOK
  <2>5. done + 1 <= job[w].total
    BY <1>1, ConstantsAssumption
  <2>6. QED BY <1>1, <1>4, <2>1, <2>2, <2>3, <2>4, <2>5 DEF LocalsOK, HasText
<1>7. QED BY <1>5, <1>6 DEF TypeInv

(***************************************************************************)
(* A run's directory is one of the storage tree's.                         *)
(***************************************************************************)
LEMMA DirType ==
    ASSUME TypeOK, NEW w \in Workers, pc[w] # "idle"
    PROVE  job[w] \in Jobs /\ Dir(w) \in Dirs
BY DEF TypeOK, Dir, Dirs, Jobs

(***************************************************************************)
(* The other steps that write to the storage tree leave the pages alone.   *)
(***************************************************************************)
SamePages ==
    /\ files' \in [Dirs -> FileRecords]
    /\ \A x \in Dirs : files'[x].pages = files[x].pages

(***************************************************************************)
(* Replacing a directory's record by one with the same pages keeps the     *)
(* pages of every directory.                                               *)
(***************************************************************************)
LEMMA FilesUpdate ==
    ASSUME files \in [Dirs -> FileRecords], NEW x \in Dirs, NEW rec \in FileRecords,
           rec.pages = files[x].pages, files' = [files EXCEPT ![x] = rec]
    PROVE  SamePages
BY DEF SamePages

(***************************************************************************)
(* One worker's step that changes no page leaves what the others know of   *)
(* their locals as it was.                                                 *)
(***************************************************************************)
LEMMA LocalsKept ==
    ASSUME TypeInv, SamePages, NEW w \in Workers,
           \A v \in Workers : v # w => job'[v] = job[v] /\ pc'[v] = pc[v],
           pc'[w] \notin ReadingPages,
           pc'[w] \in HasText => job'[w].text \in Texts
    PROVE  LocalsOK'
<1> SUFFICES ASSUME NEW v \in Workers, v # w
             PROVE  /\ pc[v] \in ReadingPages =>
                         /\ job[v].pages <= job[v].total
                         /\ job[v].pages <= Len(files'[Dir(v)].pages)
                    /\ pc[v] \in HasText => job[v].text \in Texts
  BY DEF LocalsOK, Dir
<1>1. pc[v] \in HasText => job[v].text \in Texts
  BY DEF TypeInv, LocalsOK
<1>2. ASSUME pc[v] \in ReadingPages
      PROVE  /\ job[v].pages <= job[v].total
             /\ job[v].pages <= Len(files'[Dir(v)].pages)
  <2>1. Dir(v) \in Dirs
    BY <1>2, DirType DEF TypeInv, ReadingPages
  <2>2. files'[Dir(v)].pages = files[Dir(v)].pages
    BY <2>1 DEF SamePages
  <2>3. QED BY <1>2, <2>2 DEF TypeInv, LocalsOK
<1>3. QED BY <1>1, <1>2

(***************************************************************************)
(* The two halves of TypeOK: what the workers are at, what the stores hold.*)
(***************************************************************************)
ControlOK ==
    /\ files \in [Dirs -> FileRecords]
    /\ month \in Months
    /\ pc \in [Workers -> Steps]
    /\ job \in [Workers -> Jobs \cup {NoValue}]
    /\ \A w \in Workers : pc[w] # "idle" => job[w] \in Jobs
    /\ outcome \in [Workers -> Outcomes]
    /\ started \in 0..MaxRuns
    /\ aborts \in 0..MaxAborts

StoresOK ==
    /\ documents \in [Docs -> DocumentRows \cup {NoValue}]
    /\ pageRows \in [Docs -> [1..NumPages -> Nat]]
    /\ chunks \in [Docs -> StoreRows]
    /\ collection \in BOOLEAN
    /\ points \in [Docs -> StoreRows]
    /\ fts \in [Docs -> StoreRows]
    /\ completed \subseteq Docs \X Texts

(***************************************************************************)
(* The halves are the whole.                                               *)
(***************************************************************************)
LEMMA TypeHalves == TypeOK <=> ControlOK /\ StoresOK
BY DEF TypeOK, ControlOK, StoresOK, StoreRows

(***************************************************************************)
(* The same of the state after a step.                                     *)
(***************************************************************************)
LEMMA TypeHalvesNext == TypeOK' <=> ControlOK' /\ StoresOK'
BY DEF TypeOK, ControlOK, StoresOK, StoreRows

(***************************************************************************)
(* The stores are well typed, and stay so when nothing is written to them. *)
(***************************************************************************)
LEMMA StoresKept ==
    ASSUME TypeInv, UNCHANGED <<db, indexes, completed>>
    PROVE  StoresOK'
BY TypeHalves DEF TypeInv, StoresOK, db, indexes

(***************************************************************************)
(* A statement that changes neither the locals nor the files keeps what is *)
(* known of the workers, if it goes on from where that was needed.         *)
(***************************************************************************)
LEMMA AdvanceKeeps ==
    ASSUME TypeInv, NEW w \in Workers, NEW step \in Steps, NEW next \in Steps,
           Advance(w, step, next), UNCHANGED <<files, job>>, step # "idle",
           next \in ReadingPages => step \in ReadingPages,
           next \in HasText => step \in HasText
    PROVE  /\ ControlOK' /\ LocalsOK' /\ pc[w] = step /\ job[w] \in Jobs
           /\ step \in HasText => job[w].text \in Texts
<1>1. pc[w] = step /\ pc' = [pc EXCEPT ![w] = next] /\ UNCHANGED <<outcome, month, bounds>>
  BY DEF Advance, At, GoTo
<1>2. ControlOK'
  BY <1>1 DEF TypeInv, TypeOK, ControlOK, bounds
<1>3. LocalsOK'
  <2>1. \A v \in Workers :
           /\ pc'[v] \in ReadingPages => pc[v] \in ReadingPages
           /\ pc'[v] \in HasText => pc[v] \in HasText
    BY <1>1 DEF TypeInv, TypeOK
  <2>2. QED BY <2>1 DEF TypeInv, LocalsOK, Dir
<1>4. QED BY <1>1, <1>2, <1>3 DEF TypeInv, TypeOK, LocalsOK

(***************************************************************************)
(* So does the end of a call.                                              *)
(***************************************************************************)
LEMMA ReturnKeeps ==
    ASSUME TypeInv, NEW w \in Workers, NEW result \in Outcomes,
           Return(w, result), UNCHANGED <<files, month, started>>,
           aborts' \in 0..MaxAborts
    PROVE  ControlOK' /\ LocalsOK'
<1>1. /\ pc' = [pc EXCEPT ![w] = "idle"] /\ job' = [job EXCEPT ![w] = NoValue]
      /\ outcome' = [outcome EXCEPT ![w] = result]
  BY DEF Return, GoTo
<1>2. ControlOK'
  BY <1>1 DEF TypeInv, TypeOK, ControlOK, Steps
<1>3. LocalsOK'
  <2>1. \A v \in Workers : pc'[v] # "idle" => pc'[v] = pc[v] /\ job'[v] = job[v]
    BY <1>1 DEF TypeInv, TypeOK
  <2>2. QED BY <2>1 DEF TypeInv, LocalsOK, ReadingPages, HasText, Dir
<1>4. QED BY <1>2, <1>3

(***************************************************************************)
(* Every step keeps the types and the locals.                              *)
(***************************************************************************)
LEMMA TypeStep == TypeInv /\ [Next]_vars => TypeInv'
<1> SUFFICES ASSUME TypeInv, [Next]_vars PROVE TypeInv'
  OBVIOUS
<1>1. ASSUME NEW w \in Workers, NEW d \in Docs, NEW t \in Tenants, Ingest(w, d, t)
      PROVE  TypeInv'
<2> USE DEF TypeInv, TypeOK, LocalsOK, At, GoTo, Advance, Return, Dir, Steps,
            ReadingPages, HasText, db, indexes, bounds
  <2>1. CASE LookupRaises(w, d) \/ LookupSkips(w, d)
    BY <1>1, <2>1 DEF Ingest, LookupRaises, LookupSkips, Outcomes
  <2>2. CASE LookupProceeds(w, d, t)
    <3>1. [doc |-> d, tenant |-> t, month |-> month, total |-> 0, pages |-> 0,
           text |-> NoValue] \in Jobs
      BY <1>1, ConstantsAssumption DEF Jobs
    <3>2. started' \in 0..MaxRuns
      BY <2>2, ConstantsAssumption DEF LookupProceeds
    <3>3. QED BY <1>1, <2>2, <3>1, <3>2 DEF Ingest, LookupProceeds, Outcomes
  <2>3. QED BY <1>1, <2>1, <2>2 DEF Ingest
<1>2. ASSUME NEW w \in Workers, PrepareLayout(w)
      PROVE  TypeInv'
<2> USE DEF TypeInv, TypeOK, LocalsOK, At, GoTo, Advance, Return, Dir, Steps,
            ReadingPages, HasText, db, indexes, bounds
  <2> DEFINE new == [job[w] EXCEPT !.month = month]
  <2>1. new \in Jobs
    BY <1>2 DEF PrepareLayout, Jobs
  <2>2. job' = [job EXCEPT ![w] = new]
    BY <1>2 DEF PrepareLayout
  <2>3. SamePages
    BY <1>2 DEF PrepareLayout, SamePages
  <2>4. PICK next \in {"open_copy", "upsert"} : pc' = [pc EXCEPT ![w] = next]
    BY <1>2 DEF PrepareLayout
  <2>5. UNCHANGED <<outcome, month, started, aborts, db, indexes, completed>>
    BY <1>2 DEF PrepareLayout
  <2>6. /\ job' \in [Workers -> Jobs \cup {NoValue}]
        /\ job'[w] \in Jobs
        /\ \A v \in Workers : v # w => job'[v] = job[v] /\ pc'[v] = pc[v]
    BY <2>1, <2>2, <2>4
  <2>7. TypeOK'
    <3> HIDE DEF new
    <3>1. QED BY <2>3, <2>4, <2>5, <2>6 DEF SamePages
  <2>8. LocalsOK'
    <3>1. pc'[w] = next
      BY <2>4
    <3> HIDE DEF TypeInv, TypeOK, LocalsOK, new
    <3>2. QED BY <2>3, <2>6, <3>1, LocalsKept
  <2>9. QED BY <2>7, <2>8
<1>3. ASSUME NEW w \in Workers, OpenCopy(w) \/ FinishCopy(w)
      PROVE  TypeInv'
<2> USE DEF TypeInv, TypeOK, LocalsOK, At, GoTo, Advance, Return, Dir, Steps,
            ReadingPages, HasText, db, indexes, bounds
  <2> DEFINE opened == [files[Dir(w)] EXCEPT !.source = "partial", !.copier = w]
             copied == [files[Dir(w)] EXCEPT !.source = "whole", !.copier = NoValue]
  <2>1. Dir(w) \in Dirs /\ files[Dir(w)] \in FileRecords
    BY <1>3 DEF OpenCopy, FinishCopy, Jobs, Dirs
  <2>2. /\ opened \in FileRecords /\ opened.pages = files[Dir(w)].pages
        /\ copied \in FileRecords /\ copied.pages = files[Dir(w)].pages
    BY <2>1 DEF FileRecords
  <2>3. CASE OpenCopy(w)
    <3>1. files' = [files EXCEPT ![Dir(w)] = opened]
      BY <2>3 DEF OpenCopy
    <3>2. SamePages
      BY <2>1, <2>2, <3>1, FilesUpdate
    <3>3. QED BY <2>3, <3>2 DEF OpenCopy, SamePages, Jobs, Dirs
  <2>4. CASE FinishCopy(w)
    <3>1. files' = [files EXCEPT ![Dir(w)] = copied] \/ files' = files
      BY <2>4 DEF FinishCopy
    <3>2. SamePages
      BY <2>1, <2>2, <3>1, FilesUpdate DEF SamePages
    <3>3. QED BY <2>4, <3>2 DEF FinishCopy, SamePages, Jobs, Dirs
  <2>5. QED BY <1>3, <2>3, <2>4
<1>4. ASSUME NEW w \in Workers, UpsertReads(w)
      PROVE  TypeInv'
  <2>1. PICK next \in {"insert", "set_ocr"} : Advance(w, "upsert", next)
    BY <1>4 DEF UpsertReads
  <2>2. ControlOK' /\ LocalsOK'
    BY <1>4, <2>1, AdvanceKeeps DEF UpsertReads, Steps, ReadingPages, HasText
  <2>3. StoresOK'
    BY <1>4, StoresKept DEF UpsertReads
  <2>5. QED BY <2>2, <2>3, TypeHalvesNext DEF TypeInv
<1>5. ASSUME NEW w \in Workers, InsertRow(w)
      PROVE  TypeInv'
<2> USE DEF TypeInv, TypeOK, LocalsOK, At, GoTo, Advance, Return, Dir, Steps,
            ReadingPages, HasText, db, indexes, bounds
  <2>1. [tenant |-> job[w].tenant, month |-> job[w].month, status |-> "queued",
         text |-> NoValue] \in DocumentRows
    BY <1>5 DEF InsertRow, Jobs, DocumentRows, Statuses
  <2>2. QED BY <1>5, <2>1 DEF InsertRow, Jobs
<1>6. ASSUME NEW w \in Workers, InsertConflicts(w)
      PROVE  TypeInv'
  <2>1. Return(w, "failed") /\ aborts' \in 0..MaxAborts
    BY <1>6, ConstantsAssumption DEF InsertConflicts, TypeInv, TypeOK, bounds
  <2>2. ControlOK' /\ LocalsOK'
    BY <1>6, <2>1, ReturnKeeps DEF InsertConflicts, Outcomes, bounds
  <2>3. StoresOK'
    BY <1>6, StoresKept DEF InsertConflicts
  <2>4. QED BY <2>2, <2>3, TypeHalvesNext DEF TypeInv
<1>7. ASSUME NEW w \in Workers, SetOcr(w)
      PROVE  TypeInv'
  <2>1. Advance(w, "set_ocr", "open") /\ UNCHANGED <<files, job>>
    BY <1>7 DEF SetOcr
  <2>2. /\ ControlOK' /\ LocalsOK' /\ job[w] \in Jobs
    BY <2>1, AdvanceKeeps DEF Steps, ReadingPages, HasText
  <2>3. documents' \in [Docs -> DocumentRows \cup {NoValue}]
    BY <1>7, <2>2, SetStatusType DEF SetOcr, TypeInv, Statuses
  <2>4. StoresOK'
    BY <1>7, <2>3, TypeHalves DEF SetOcr, TypeInv, StoresOK, indexes
  <2>5. QED BY <2>2, <2>4, TypeHalvesNext DEF TypeInv
<1>8. ASSUME NEW w \in Workers, OpenPdf(w)
      PROVE  TypeInv'
<2> USE DEF TypeInv, TypeOK, LocalsOK, At, GoTo, Advance, Return, Dir, Steps,
            ReadingPages, HasText, db, indexes, bounds
  <2>1. PICK n \in 0..NumPages :
          job' = [job EXCEPT ![w] = [job[w] EXCEPT !.total = n, !.pages = 0]]
    BY <1>8 DEF OpenPdf
  <2>2. job[w] \in Jobs /\ Dir(w) \in Dirs
    BY <1>8 DEF OpenPdf, Jobs, Dirs
  <2> DEFINE new == [job[w] EXCEPT !.total = n, !.pages = 0]
  <2>3. new \in Jobs /\ 0 <= n /\ new.pages = 0 /\ new.total = n
        /\ <<new.tenant, new.month, new.doc>> = Dir(w)
    <3>1. 0 \in 0..NumPages /\ 0 <= n
      BY ConstantsAssumption
    <3>2. QED BY <2>2, <3>1 DEF Jobs
  <2>4. 0 <= Len(files[Dir(w)].pages)
    BY <2>2, TextIsSeq, ConstantsAssumption DEF FileRecords
  <2>5. QED BY <1>8, <2>1, <2>2, <2>3, <2>4 DEF OpenPdf, Jobs
<1>9. ASSUME NEW w \in Workers, FinishOcr(w)
      PROVE  TypeInv'
  <2>1. Advance(w, "page", "persist") /\ UNCHANGED <<files, job>>
    BY <1>9 DEF FinishOcr
  <2>2. /\ ControlOK' /\ LocalsOK' /\ job[w] \in Jobs
    BY <2>1, AdvanceKeeps DEF Steps, ReadingPages, HasText
  <2>3. StoresOK'
    BY <1>9, StoresKept DEF FinishOcr
  <2>5. QED BY <2>2, <2>3, TypeHalvesNext DEF TypeInv
<1>10. ASSUME NEW w \in Workers, PersistPages(w)
      PROVE  TypeInv'
  <2>1. Advance(w, "persist", "set_postproc") /\ UNCHANGED <<files, job>>
    BY <1>10 DEF PersistPages
  <2>2. /\ ControlOK' /\ LocalsOK' /\ job[w] \in Jobs
    BY <2>1, AdvanceKeeps DEF Steps, ReadingPages, HasText
  <2>3. pageRows' \in [Docs -> [1..NumPages -> Nat]]
    <3> DEFINE d == job[w].doc
               new == [p \in 1..NumPages |->
                         IF p <= job[w].pages /\ p \in 1..Len(files[Dir(w)].pages)
                         THEN pageRows[d][p] + 1 ELSE pageRows[d][p]]
    <3>1. d \in Docs /\ pageRows[d] \in [1..NumPages -> Nat]
      BY <2>2, TypeHalves DEF TypeInv, StoresOK, Jobs
    <3>2. new \in [1..NumPages -> Nat]
      <4>1. ASSUME NEW p \in 1..NumPages
            PROVE  pageRows[d][p] \in Nat /\ pageRows[d][p] + 1 \in Nat
        <5>1. pageRows[d][p] \in Nat
          BY <3>1
        <5> DEFINE count == pageRows[d][p]
        <5> HIDE DEF count
        <5>2. count \in Nat => count + 1 \in Nat
          OBVIOUS
        <5>3. QED BY <5>1, <5>2 DEF count
      <4>2. ASSUME NEW p \in 1..NumPages PROVE new[p] \in Nat
        BY <4>1
      <4>3. QED BY <4>2
    <3>3. pageRows' = [pageRows EXCEPT ![d] = new]
      BY <1>10 DEF PersistPages
    <3> HIDE DEF new
    <3>4. QED BY <3>2, <3>3, TypeHalves DEF TypeInv, StoresOK
  <2>4. StoresOK'
    BY <1>10, <2>3, TypeHalves DEF PersistPages, TypeInv, StoresOK, indexes
  <2>5. QED BY <2>2, <2>4, TypeHalvesNext DEF TypeInv
<1>11. ASSUME NEW w \in Workers, SetPostproc(w)
      PROVE  TypeInv'
  <2>1. Advance(w, "set_postproc", "consolidate") /\ UNCHANGED <<files, job>>
    BY <1>11 DEF SetPostproc
  <2>2. /\ ControlOK' /\ LocalsOK' /\ job[w] \in Jobs
    BY <2>1, AdvanceKeeps DEF Steps, ReadingPages, HasText
  <2>3. documents' \in [Docs -> DocumentRows \cup {NoValue}]
    BY <1>11, <2>2, SetStatusType DEF SetPostproc, TypeInv, Statuses
  <2>4. StoresOK'
    BY <1>11, <2>3, TypeHalves DEF SetPostproc, TypeInv, StoresOK, indexes
  <2>5. QED BY <2>2, <2>4, TypeHalvesNext DEF TypeInv
<1>12. ASSUME NEW w \in Workers, Consolidate(w)
      PROVE  TypeInv'
<2> USE DEF TypeInv, TypeOK, LocalsOK, At, GoTo, Advance, Return, Dir, Steps,
            ReadingPages, HasText, db, indexes, bounds
  <2> DEFINE text == SubSeq(files[Dir(w)].pages, 1, job[w].pages)
  <2>1. /\ Dir(w) \in Dirs /\ files[Dir(w)] \in FileRecords
        /\ job[w] \in Jobs /\ job[w].pages <= Len(files[Dir(w)].pages)
    BY <1>12 DEF Consolidate, Jobs, Dirs
  <2>2. text \in Texts
    BY <2>1, PrefixIsText DEF FileRecords, Jobs
  <2>3. files' = [files EXCEPT ![Dir(w)] = [files[Dir(w)] EXCEPT !.md = text]]
    BY <1>12 DEF Consolidate
  <2>4. /\ [files[Dir(w)] EXCEPT !.md = text] \in FileRecords
        /\ [files[Dir(w)] EXCEPT !.md = text].pages = files[Dir(w)].pages
    BY <2>1, <2>2 DEF FileRecords
  <2>5. SamePages
    BY <2>1, <2>3, <2>4, FilesUpdate
  <2>6. job' = [job EXCEPT ![w] = [job[w] EXCEPT !.text = text]]
    BY <1>12 DEF Consolidate
  <2>7. [job[w] EXCEPT !.text = text] \in Jobs
    BY <2>1, <2>2 DEF Jobs
  <2>8. job'[w] \in Jobs /\ job'[w].text \in Texts
    BY <2>1, <2>2, <2>6, <2>7 DEF Jobs
  <2>9. /\ pc' = [pc EXCEPT ![w] = "update_doctype"]
        /\ UNCHANGED <<outcome, month, started, aborts, db, indexes, completed>>
    BY <1>12 DEF Consolidate
  <2>10. \A v \in Workers : v # w => job'[v] = job[v]
    BY <2>6
  <2>11. job' \in [Workers -> Jobs \cup {NoValue}]
    BY <2>6, <2>7
  <2>12. TypeOK'
    BY <2>5, <2>8, <2>9, <2>10, <2>11 DEF SamePages
  <2>13. LocalsOK'
    <3>1. \A v \in Workers : v # w => pc'[v] = pc[v]
      BY <2>9
    <3>2. pc'[w] = "update_doctype"
      BY <2>9
    <3> HIDE DEF TypeInv, TypeOK, LocalsOK
    <3>3. QED BY <2>5, <2>8, <2>10, <3>1, <3>2, LocalsKept
  <2>14. QED BY <2>12, <2>13
<1>13. ASSUME NEW w \in Workers, UpdateDoctype(w)
      PROVE  TypeInv'
  <2>1. Advance(w, "update_doctype", "store") /\ UNCHANGED <<files, job>>
    BY <1>13 DEF UpdateDoctype
  <2>2. /\ ControlOK' /\ LocalsOK' /\ job[w] \in Jobs
    BY <2>1, AdvanceKeeps DEF Steps, ReadingPages, HasText
  <2>3. documents' \in [Docs -> DocumentRows \cup {NoValue}]
    BY <1>13, UpdateDoctypeType
  <2>4. StoresOK'
    BY <1>13, <2>3, TypeHalves DEF UpdateDoctype, TypeInv, StoresOK, indexes
  <2>5. QED BY <2>2, <2>4, TypeHalvesNext DEF TypeInv
<1>14. ASSUME NEW w \in Workers, StoreChunks(w)
      PROVE  TypeInv'
  <2>1. Advance(w, "store", "set_embedded") /\ UNCHANGED <<files, job>>
    BY <1>14 DEF StoreChunks
  <2>2. /\ ControlOK' /\ LocalsOK' /\ job[w] \in Jobs
        /\ job[w].text \in Texts
    BY <2>1, AdvanceKeeps DEF Steps, ReadingPages, HasText
  <2>3. chunks' \in [Docs -> StoreRows]
    <3>1. chunks[job[w].doc] \in StoreRows /\ job[w].doc \in Docs
      BY <2>2, TypeHalves DEF TypeInv, StoresOK, Jobs
    <3>2. Written(w, chunks[job[w].doc]) \in StoreRows
      BY <2>2, <3>1, WrittenType
    <3>3. chunks' = [chunks EXCEPT ![job[w].doc] = Written(w, chunks[job[w].doc])]
      BY <1>14 DEF StoreChunks
    <3>4. QED BY <3>2, <3>3, TypeHalves DEF TypeInv, StoresOK
  <2>4. StoresOK'
    BY <1>14, <2>3, TypeHalves DEF StoreChunks, TypeInv, StoresOK, db, indexes
  <2>5. QED BY <2>2, <2>4, TypeHalvesNext DEF TypeInv
<1>15. ASSUME NEW w \in Workers, SetEmbedded(w)
      PROVE  TypeInv'
  <2>1. Advance(w, "set_embedded", "ensure") /\ UNCHANGED <<files, job>>
    BY <1>15 DEF SetEmbedded
  <2>2. /\ ControlOK' /\ LocalsOK' /\ job[w] \in Jobs
    BY <2>1, AdvanceKeeps DEF Steps, ReadingPages, HasText
  <2>3. documents' \in [Docs -> DocumentRows \cup {NoValue}]
    BY <1>15, <2>2, SetStatusType DEF SetEmbedded, TypeInv, Statuses
  <2>4. StoresOK'
    BY <1>15, <2>3, TypeHalves DEF SetEmbedded, TypeInv, StoresOK, indexes
  <2>5. QED BY <2>2, <2>4, TypeHalvesNext DEF TypeInv
<1>16. ASSUME NEW w \in Workers, EnsureCollection(w)
      PROVE  TypeInv'
  <2>1. PICK next \in {"vectors", "drop"} : Advance(w, "ensure", next)
    BY <1>16 DEF EnsureCollection
  <2>2. ControlOK' /\ LocalsOK'
    BY <1>16, <2>1, AdvanceKeeps DEF EnsureCollection, Steps, ReadingPages, HasText
  <2>3. StoresOK'
    BY <1>16, StoresKept DEF EnsureCollection
  <2>5. QED BY <2>2, <2>3, TypeHalvesNext DEF TypeInv
<1>17. ASSUME NEW w \in Workers, DropCollection(w)
      PROVE  TypeInv'
  <2>1. Advance(w, "drop", "create") /\ UNCHANGED <<files, job>>
    BY <1>17 DEF DropCollection
  <2>2. /\ ControlOK' /\ LocalsOK' /\ job[w] \in Jobs
    BY <2>1, AdvanceKeeps DEF Steps, ReadingPages, HasText
  <2>3. points' \in [Docs -> StoreRows]
    BY <1>17 DEF DropCollection, NoEntries, StoreRows
  <2>4. StoresOK'
    BY <1>17, <2>3, TypeHalves DEF DropCollection, TypeInv, StoresOK, db
  <2>5. QED BY <2>2, <2>4, TypeHalvesNext DEF TypeInv
<1>18. ASSUME NEW w \in Workers, CreateCollection(w)
      PROVE  TypeInv'
  <2>1. Advance(w, "create", "vectors") /\ UNCHANGED <<files, job>>
    BY <1>18 DEF CreateCollection
  <2>2. /\ ControlOK' /\ LocalsOK' /\ job[w] \in Jobs
    BY <2>1, AdvanceKeeps DEF Steps, ReadingPages, HasText
  <2>4. StoresOK'
    BY <1>18, TypeHalves DEF CreateCollection, TypeInv, StoresOK, db
  <2>5. QED BY <2>2, <2>4, TypeHalvesNext DEF TypeInv
<1>19. ASSUME NEW w \in Workers, CreateConflicts(w)
      PROVE  TypeInv'
  <2>1. Return(w, "failed") /\ aborts' \in 0..MaxAborts
    BY <1>19, ConstantsAssumption DEF CreateConflicts, TypeInv, TypeOK, bounds
  <2>2. ControlOK' /\ LocalsOK'
    BY <1>19, <2>1, ReturnKeeps DEF CreateConflicts, Outcomes, bounds
  <2>3. StoresOK'
    BY <1>19, StoresKept DEF CreateConflicts
  <2>4. QED BY <2>2, <2>3, TypeHalvesNext DEF TypeInv
<1>20. ASSUME NEW w \in Workers, UpsertVectors(w)
      PROVE  TypeInv'
  <2>1. Advance(w, "vectors", "lexical") /\ UNCHANGED <<files, job>>
    BY <1>20 DEF UpsertVectors
  <2>2. /\ ControlOK' /\ LocalsOK' /\ job[w] \in Jobs
        /\ job[w].text \in Texts
    BY <2>1, AdvanceKeeps DEF Steps, ReadingPages, HasText
  <2>3. points' \in [Docs -> StoreRows]
    <3>1. points[job[w].doc] \in StoreRows /\ job[w].doc \in Docs
      BY <2>2, TypeHalves DEF TypeInv, StoresOK, Jobs
    <3>2. Written(w, points[job[w].doc]) \in StoreRows
      BY <2>2, <3>1, WrittenType
    <3>3. points' = [points EXCEPT ![job[w].doc] = Written(w, points[job[w].doc])]
      BY <1>20 DEF UpsertVectors
    <3>4. QED BY <3>2, <3>3, TypeHalves DEF TypeInv, StoresOK
  <2>4. StoresOK'
    BY <1>20, <2>3, TypeHalves DEF UpsertVectors, TypeInv, StoresOK, db, indexes
  <2>5. QED BY <2>2, <2>4, TypeHalvesNext DEF TypeInv
<1>21. ASSUME NEW w \in Workers, CollectionMissing(w)
      PROVE  TypeInv'
  <2>1. Return(w, "failed") /\ aborts' \in 0..MaxAborts
    BY <1>21, ConstantsAssumption DEF CollectionMissing, TypeInv, TypeOK, bounds
  <2>2. ControlOK' /\ LocalsOK'
    BY <1>21, <2>1, ReturnKeeps DEF CollectionMissing, Outcomes, bounds
  <2>3. StoresOK'
    BY <1>21, StoresKept DEF CollectionMissing
  <2>4. QED BY <2>2, <2>3, TypeHalvesNext DEF TypeInv
<1>22. ASSUME NEW w \in Workers, UpsertLexical(w)
      PROVE  TypeInv'
  <2>1. Advance(w, "lexical", "choose_extract") /\ UNCHANGED <<files, job>>
    BY <1>22 DEF UpsertLexical
  <2>2. /\ ControlOK' /\ LocalsOK' /\ job[w] \in Jobs
        /\ job[w].text \in Texts
    BY <2>1, AdvanceKeeps DEF Steps, ReadingPages, HasText
  <2>3. fts' \in [Docs -> StoreRows]
    <3>1. fts[job[w].doc] \in StoreRows /\ job[w].doc \in Docs
      BY <2>2, TypeHalves DEF TypeInv, StoresOK, Jobs
    <3>2. Written(w, fts[job[w].doc]) \in StoreRows
      BY <2>2, <3>1, WrittenType
    <3>3. fts' = [fts EXCEPT ![job[w].doc] = Written(w, fts[job[w].doc])]
      BY <1>22 DEF UpsertLexical
    <3>4. QED BY <3>2, <3>3, TypeHalves DEF TypeInv, StoresOK
  <2>4. StoresOK'
    BY <1>22, <2>3, TypeHalves DEF UpsertLexical, TypeInv, StoresOK, db, indexes
  <2>5. QED BY <2>2, <2>4, TypeHalvesNext DEF TypeInv
<1>23. ASSUME NEW w \in Workers, SkipExtract(w)
      PROVE  TypeInv'
  <2>1. Advance(w, "choose_extract", "set_indexed") /\ UNCHANGED <<files, job>>
    BY <1>23 DEF SkipExtract
  <2>2. /\ ControlOK' /\ LocalsOK' /\ job[w] \in Jobs
    BY <2>1, AdvanceKeeps DEF Steps, ReadingPages, HasText
  <2>3. StoresOK'
    BY <1>23, StoresKept DEF SkipExtract
  <2>5. QED BY <2>2, <2>3, TypeHalvesNext DEF TypeInv
<1>24. ASSUME NEW w \in Workers, SetExtract(w)
      PROVE  TypeInv'
  <2>1. Advance(w, "choose_extract", "extract") /\ UNCHANGED <<files, job>>
    BY <1>24 DEF SetExtract
  <2>2. /\ ControlOK' /\ LocalsOK' /\ job[w] \in Jobs
    BY <2>1, AdvanceKeeps DEF Steps, ReadingPages, HasText
  <2>3. documents' \in [Docs -> DocumentRows \cup {NoValue}]
    BY <1>24, <2>2, SetStatusType DEF SetExtract, TypeInv, Statuses
  <2>4. StoresOK'
    BY <1>24, <2>3, TypeHalves DEF SetExtract, TypeInv, StoresOK, indexes
  <2>5. QED BY <2>2, <2>4, TypeHalvesNext DEF TypeInv
<1>25. ASSUME NEW w \in Workers, Extract(w)
      PROVE  TypeInv'
<2> USE DEF TypeInv, TypeOK, LocalsOK, At, GoTo, Advance, Return, Dir, Steps,
            ReadingPages, HasText, db, indexes, bounds
  <2>1. Dir(w) \in Dirs /\ files[Dir(w)] \in FileRecords
        /\ job[w].text \in Texts
    BY <1>25 DEF Extract, Jobs, Dirs
  <2>2. files' = [files EXCEPT ![Dir(w)] = [files[Dir(w)] EXCEPT !.structured = job[w].text]]
    BY <1>25 DEF Extract
  <2>3. /\ [files[Dir(w)] EXCEPT !.structured = job[w].text] \in FileRecords
        /\ [files[Dir(w)] EXCEPT !.structured = job[w].text].pages = files[Dir(w)].pages
    BY <2>1 DEF FileRecords
  <2>4. SamePages
    BY <2>1, <2>2, <2>3, FilesUpdate
  <2>5. QED BY <1>25, <2>1, <2>4 DEF Extract, SamePages, Jobs, Dirs
<1>26. ASSUME NEW w \in Workers, SetIndexed(w)
      PROVE  TypeInv'
<2> USE DEF TypeInv, TypeOK, LocalsOK, At, GoTo, Advance, Return, Dir, Steps,
            ReadingPages, HasText, db, indexes, bounds
  <2>1. job[w].doc \in Docs /\ job[w].text \in Texts
    BY <1>26 DEF SetIndexed, Jobs
  <2>2. completed' \subseteq Docs \X Texts
    BY <1>26, <2>1 DEF SetIndexed
  <2>3. documents' \in [Docs -> DocumentRows \cup {NoValue}]
    BY <1>26, SetStatusType DEF SetIndexed, Statuses
  <2>4. QED BY <1>26, <2>2, <2>3 DEF SetIndexed, Outcomes
<1>27. ASSUME NEW w \in Workers, Abort(w)
      PROVE  TypeInv'
  <2>1. Return(w, "failed") /\ aborts' \in 0..MaxAborts
    BY <1>27, ConstantsAssumption DEF Abort, TypeInv, TypeOK, bounds
  <2>2. ControlOK' /\ LocalsOK'
    BY <1>27, <2>1, ReturnKeeps DEF Abort, Outcomes, bounds
  <2>3. StoresOK'
    BY <1>27, StoresKept DEF Abort
  <2>4. QED BY <2>2, <2>3, TypeHalvesNext DEF TypeInv
<1>28. CASE NextMonth
  BY <1>28, ConstantsAssumption DEF NextMonth, Months, TypeInv, TypeOK, LocalsOK, Dir, bounds, db, indexes
<1>29. CASE UNCHANGED vars
  BY <1>29 DEF vars, TypeInv, TypeOK, LocalsOK, Dir
<1>30. QED
  BY <1>1, <1>2, <1>3, <1>4, <1>5, <1>6, <1>7, <1>8, <1>9, <1>10, <1>11, <1>12, <1>13, <1>14,
     <1>15, <1>16, <1>17, <1>18, <1>19, <1>20, <1>21, <1>22, <1>23, <1>24, <1>25, <1>26, <1>27,
     <1>28, <1>29, OcrPageType
     DEF Next, Call, Run, Prepare, Ocr, Postprocess, Index, Finish

(***************************************************************************)
(* The types and the locals hold initially.                                *)
(***************************************************************************)
LEMMA TypeInit == Init => TypeInv
<1> SUFFICES ASSUME Init PROVE TypeInv
  OBVIOUS
<1>1. <<>> \in Texts
  <2>1. <<>> \in Seq(Readings) /\ Len(<<>>) <= NumPages
    BY ConstantsAssumption
  <2>2. QED BY <2>1, SeqIsText
<1>2. NoFiles \in FileRecords
  BY <1>1 DEF NoFiles, FileRecords
<1>3. QED
  BY <1>2, ConstantsAssumption
     DEF Init, TypeInv, TypeOK, LocalsOK, NoEntries, Months, Steps, Outcomes,
         ReadingPages, HasText

(***************************************************************************)
(* Every variable stays in its type: in particular the page files of a     *)
(* directory never outgrow the PDF, however many runs share it.            *)
(***************************************************************************)
THEOREM TypeCorrect == Spec => []TypeOK
<1>1. TypeInv => TypeOK
  BY DEF TypeInv
<1>2. QED BY <1>1, TypeInit, TypeStep, PTL DEF Spec

-----------------------------------------------------------------------------
\* Nothing a run has written is taken away by another.

Kept(store) == \A d \in Docs, l \in Labels : Stored(store, d, l) => Stored(store, d, l)'

(***************************************************************************)
(* What a run adds to a store: the labels of its text, and no others.      *)
(***************************************************************************)
Adds(old, new, d, text) ==
    /\ \A e \in Docs, l \in Labels : old[e][l] # NoValue => new[e][l] # NoValue
    /\ \A l \in ChunkIds[text] : new[d][l] # NoValue
    /\ \A e \in Docs, l \in Labels :
          new[e][l] # NoValue => old[e][l] # NoValue \/ (e = d /\ l \in ChunkIds[text])

(***************************************************************************)
(* A store after a run's merge has gained the run's labels and lost none.  *)
(***************************************************************************)
LEMMA WriteAdds ==
    ASSUME NEW w \in Workers, job[w] \in Jobs, job[w].text \in Texts,
           NEW old \in [Docs -> StoreRows], NEW new,
           new = [old EXCEPT ![job[w].doc] = Written(w, old[job[w].doc])]
    PROVE  Adds(old, new, job[w].doc, job[w].text)
<1> DEFINE d == job[w].doc
<1>1. d \in Docs /\ old[d] \in StoreRows
  BY DEF Jobs
<1>2. /\ Written(w, old[d]) \in StoreRows
      /\ \A l \in Labels : old[d][l] # NoValue => Written(w, old[d])[l] # NoValue
      /\ \A l \in ChunkIds[job[w].text] : Written(w, old[d])[l] # NoValue
  BY <1>1, WrittenType
<1>3. \A l \in Labels : l \notin ChunkIds[job[w].text] => Written(w, old[d])[l] = old[d][l]
  BY DEF Written
<1>4. new[d] = Written(w, old[d]) /\ \A e \in Docs : e # d => new[e] = old[e]
  BY <1>1
<1>5. QED BY <1>1, <1>2, <1>3, <1>4 DEF Adds

(***************************************************************************)
(* _store_chunks adds the run's chunks to the table.                       *)
(***************************************************************************)
LEMMA StoreChunksWrites ==
    ASSUME TypeInv, NEW w \in Workers, StoreChunks(w)
    PROVE  Adds(chunks, chunks', job[w].doc, job[w].text)
<1>1. /\ job[w] \in Jobs /\ job[w].text \in Texts /\ chunks \in [Docs -> StoreRows]
      /\ chunks' = [chunks EXCEPT ![job[w].doc] = Written(w, chunks[job[w].doc])]
  BY DEF StoreChunks, Advance, At, TypeInv, TypeOK, LocalsOK, HasText, StoreRows
<1>2. QED BY <1>1, WriteAdds

(***************************************************************************)
(* BM25Index.upsert adds the run's chunks to the lexical index.            *)
(***************************************************************************)
LEMMA UpsertLexicalWrites ==
    ASSUME TypeInv, NEW w \in Workers, UpsertLexical(w)
    PROVE  Adds(fts, fts', job[w].doc, job[w].text)
<1>1. /\ job[w] \in Jobs /\ job[w].text \in Texts /\ fts \in [Docs -> StoreRows]
      /\ fts' = [fts EXCEPT ![job[w].doc] = Written(w, fts[job[w].doc])]
  BY DEF UpsertLexical, Advance, At, TypeInv, TypeOK, LocalsOK, HasText, StoreRows
<1>2. QED BY <1>1, WriteAdds

(***************************************************************************)
(* QdrantIndex.upsert adds the run's chunks to the collection.             *)
(***************************************************************************)
LEMMA UpsertVectorsWrites ==
    ASSUME TypeInv, NEW w \in Workers, UpsertVectors(w)
    PROVE  Adds(points, points', job[w].doc, job[w].text)
<1>1. /\ job[w] \in Jobs /\ job[w].text \in Texts /\ points \in [Docs -> StoreRows]
      /\ points' = [points EXCEPT ![job[w].doc] = Written(w, points[job[w].doc])]
  BY DEF UpsertVectors, Advance, At, TypeInv, TypeOK, LocalsOK, HasText, StoreRows
<1>2. QED BY <1>1, WriteAdds

StaticRows == UNCHANGED <<documents, chunks, fts>>

(***************************************************************************)
(* One step never drops a row of the documents or chunks table or of the   *)
(* lexical index, whichever worker takes it.                               *)
(***************************************************************************)
LEMMA StepKeeps ==
    ASSUME TypeInv, [Next]_vars
    PROVE  RowsKept /\ Kept(chunks) /\ Kept(fts)
<1> USE DEF Advance, Return, At, GoTo, db, indexes, bounds
<1> DEFINE Goal == RowsKept /\ Kept(chunks) /\ Kept(fts)
<1>1. StaticRows => Goal
  BY DEF StaticRows, RowsKept, Kept, Stored
<1>2. ASSUME NEW w \in Workers, InsertRow(w)
      PROVE  Goal
  BY <1>2 DEF InsertRow, RowsKept, Kept, Stored, TypeInv, TypeOK
<1>3. ASSUME NEW w \in Workers,
             SetOcr(w) \/ SetPostproc(w) \/ SetEmbedded(w) \/ SetExtract(w) \/ SetIndexed(w)
      PROVE  Goal
  <2>1. job[w] \in Jobs
    BY <1>3 DEF TypeInv, TypeOK, SetOcr, SetPostproc, SetEmbedded, SetExtract, SetIndexed
  <2>2. PICK status \in Statuses : SetStatus(w, status)
    BY <1>3 DEF Statuses, SetOcr, SetPostproc, SetEmbedded, SetExtract, SetIndexed
  <2>3. RowsKept
    BY <2>1, <2>2, SetStatusType DEF TypeInv
  <2>4. UNCHANGED <<chunks, fts>>
    BY <1>3 DEF SetOcr, SetPostproc, SetEmbedded, SetExtract, SetIndexed
  <2>5. QED BY <2>3, <2>4 DEF Kept, Stored
<1>4. ASSUME NEW w \in Workers, UpdateDoctype(w)
      PROVE  Goal
  <2>1. UNCHANGED <<chunks, fts>>
    BY <1>4 DEF UpdateDoctype
  <2>2. RowsKept
    BY <1>4, UpdateDoctypeType
  <2>3. QED BY <2>1, <2>2 DEF Kept, Stored
<1>5. ASSUME NEW w \in Workers, StoreChunks(w)
      PROVE  Goal
  <2>1. Kept(chunks)
    BY <1>5, StoreChunksWrites DEF Adds, Kept, Stored
  <2>2. UNCHANGED <<documents, fts>>
    BY <1>5 DEF StoreChunks
  <2>3. QED BY <2>1, <2>2 DEF RowsKept, Kept, Stored
<1>6. ASSUME NEW w \in Workers, UpsertLexical(w)
      PROVE  Goal
  <2>1. Kept(fts)
    BY <1>6, UpsertLexicalWrites DEF Adds, Kept, Stored
  <2>2. UNCHANGED <<documents, chunks>>
    BY <1>6 DEF UpsertLexical
  <2>3. QED BY <2>1, <2>2 DEF RowsKept, Kept, Stored
<1>7. ASSUME NEW w \in Workers, Call(w)
      PROVE  StaticRows
  BY <1>7 DEF Call, Ingest, StaticRows
<1>8. ASSUME NEW w \in Workers,
             PrepareLayout(w) \/ OpenCopy(w) \/ FinishCopy(w) \/ UpsertReads(w) \/ InsertConflicts(w)
      PROVE  StaticRows
  BY <1>8 DEF PrepareLayout, OpenCopy, FinishCopy, UpsertReads, InsertConflicts, StaticRows
<1>9. ASSUME NEW w \in Workers,
             \/ OpenPdf(w) \/ OcrPage(w) \/ FinishOcr(w) \/ PersistPages(w) \/ Consolidate(w)
             \/ SkipExtract(w) \/ Extract(w) \/ Abort(w)
      PROVE  StaticRows
  BY <1>9 DEF OpenPdf, OcrPage, FinishOcr, PersistPages, Consolidate, SkipExtract, Extract,
              Abort, StaticRows
<1>10. ASSUME NEW w \in Workers,
              \/ EnsureCollection(w) \/ DropCollection(w) \/ CreateCollection(w)
              \/ CreateConflicts(w) \/ UpsertVectors(w) \/ CollectionMissing(w)
       PROVE  StaticRows
  BY <1>10 DEF EnsureCollection, DropCollection, CreateCollection, CreateConflicts,
               UpsertVectors, CollectionMissing, StaticRows
<1>11. NextMonth \/ UNCHANGED vars => StaticRows
  BY DEF NextMonth, vars, StaticRows
<1> HIDE DEF Goal
<1>12. QED
  BY <1>1, <1>2, <1>3, <1>4, <1>5, <1>6, <1>7, <1>8, <1>9, <1>10, <1>11
     DEF Next, Run, Prepare, Ocr, Postprocess, Index, Finish, Goal

(***************************************************************************)
(* The row an ingest registered is its owner's for good: a later run, of   *)
(* whatever tenant or month, changes only the status and the text.         *)
(***************************************************************************)
THEOREM RegistrationHolds == Spec => RegistrationIsPermanent
<1>1. TypeInv /\ [Next]_vars =>
        [\A d \in Docs : documents[d] # NoValue =>
            /\ documents'[d] # NoValue
            /\ documents'[d].tenant = documents[d].tenant
            /\ documents'[d].month = documents[d].month]_vars
  BY StepKeeps DEF RowsKept
<1>2. QED BY <1>1, TypeInit, TypeStep, PTL DEF Spec, RegistrationIsPermanent

-----------------------------------------------------------------------------
\* How far a run has come, and what that leaves in the stores.

Registered == {"set_ocr", "open", "page", "persist", "set_postproc", "consolidate",
               "update_doctype", "store", "set_embedded", "ensure", "drop", "create",
               "vectors", "lexical", "choose_extract", "extract", "set_indexed"}
ChunksDone == {"set_embedded", "ensure", "drop", "create", "vectors", "lexical",
               "choose_extract", "extract", "set_indexed"}
LexicalDone == {"choose_extract", "extract", "set_indexed"}

HoldsText(store, d, text) == \A l \in ChunkIds[text] : Stored(store, d, l)

Progress(w) ==
    /\ pc[w] \in Registered => documents[job[w].doc] # NoValue
    /\ pc[w] \in ChunksDone => HoldsText(chunks, job[w].doc, job[w].text)
    /\ pc[w] \in LexicalDone => HoldsText(fts, job[w].doc, job[w].text)

RunProgress == \A w \in Workers : Progress(w)

StoreInv == TypeInv /\ RunProgress /\ ReferentialIntegrity /\ CompletedRunsStayStored

(***************************************************************************)
(* A step of one worker leaves the others where they are.                  *)
(***************************************************************************)
LEMMA OthersStay ==
    ASSUME TypeInv, NEW w \in Workers, Call(w) \/ Run(w) \/ Abort(w),
           NEW v \in Workers, v # w
    PROVE  pc'[v] = pc[v] /\ job'[v] = job[v]
<1> USE DEF Advance, Return, At, GoTo, TypeInv, TypeOK
<1>1. CASE Call(w)
  BY <1>1 DEF Call, Ingest, LookupRaises, LookupSkips, LookupProceeds
<1>2. CASE Prepare(w)
  BY <1>2 DEF Prepare, PrepareLayout, OpenCopy, FinishCopy, UpsertReads, InsertRow, InsertConflicts
<1>3. CASE Ocr(w)
  BY <1>3 DEF Ocr, SetOcr, OpenPdf, OcrPage, FinishOcr, PersistPages
<1>4. CASE Postprocess(w)
  BY <1>4 DEF Postprocess, SetPostproc, Consolidate, UpdateDoctype, StoreChunks
<1>5. CASE Index(w)
  BY <1>5 DEF Index, SetEmbedded, EnsureCollection, DropCollection, CreateCollection,
              CreateConflicts, UpsertVectors, CollectionMissing, UpsertLexical
<1>6. CASE Finish(w) \/ Abort(w)
  BY <1>6 DEF Finish, SkipExtract, SetExtract, Extract, SetIndexed, Abort
<1>7. QED BY <1>1, <1>2, <1>3, <1>4, <1>5, <1>6 DEF Run

(***************************************************************************)
(* What was true of a worker that stays where it is stays true: the stores *)
(* it relies on only grow.                                                 *)
(***************************************************************************)
LEMMA ProgressStays ==
    ASSUME TypeInv, [Next]_vars, NEW v \in Workers, Progress(v),
           pc'[v] = "idle" \/ (job'[v].doc = job[v].doc /\ job'[v].text = job[v].text),
           pc'[v] \in Registered => pc[v] \in Registered,
           pc'[v] \in ChunksDone => pc[v] \in ChunksDone,
           pc'[v] \in LexicalDone => pc[v] \in LexicalDone
    PROVE  Progress(v)'
<1>1. CASE pc'[v] = "idle"
  BY <1>1 DEF Progress, Registered, ChunksDone, LexicalDone
<1>2. CASE pc'[v] # "idle" /\ pc'[v] \notin Registered
  BY <1>2 DEF Progress, Registered, ChunksDone, LexicalDone
<1>3. CASE pc'[v] \in Registered
  <2>1. pc[v] \in Registered /\ job[v] \in Jobs /\ pc'[v] # "idle"
    BY <1>3, DirType DEF Registered, TypeInv
  <2>2. RowsKept /\ Kept(chunks) /\ Kept(fts)
    BY StepKeeps
  <2>3. job[v].doc \in Docs /\ job'[v].doc = job[v].doc /\ job'[v].text = job[v].text
    BY <2>1 DEF Jobs
  <2>4. documents'[job'[v].doc] # NoValue
    BY <2>1, <2>2, <2>3 DEF Progress, RowsKept
  <2>5. pc[v] \in ChunksDone => job[v].text \in Texts /\ ChunkIds[job[v].text] \subseteq Labels
    BY ConstantsAssumption DEF TypeInv, LocalsOK, ChunksDone, HasText
  <2>6. pc'[v] \in ChunksDone => HoldsText(chunks, job[v].doc, job[v].text)'
    BY <2>2, <2>3, <2>5 DEF Progress, HoldsText, Kept, Stored
  <2>7. pc'[v] \in LexicalDone => HoldsText(fts, job[v].doc, job[v].text)'
    BY <2>2, <2>3, <2>5 DEF Progress, HoldsText, Kept, Stored, ChunksDone, LexicalDone
  <2>8. QED BY <2>4, <2>6, <2>7 DEF Progress
<1>4. QED BY <1>1, <1>2, <1>3

(***************************************************************************)
(* The step a worker takes itself keeps its progress.                      *)
(***************************************************************************)
LEMMA OwnProgress ==
    ASSUME TypeInv, NEW w \in Workers, Call(w) \/ Run(w) \/ Abort(w), Progress(w)
    PROVE  Progress(w)'
<1> USE DEF Advance, Return, At, GoTo
<1>1. pc \in [Workers -> Steps] /\ job \in [Workers -> Jobs \cup {NoValue}]
      /\ (pc[w] # "idle" => job[w] \in Jobs) /\ [Next]_vars
  BY DEF TypeInv, TypeOK, Next
<1>2. CASE Call(w) \/ PrepareLayout(w) \/ OpenCopy(w) \/ FinishCopy(w) \/ InsertConflicts(w)
           \/ CreateConflicts(w) \/ CollectionMissing(w) \/ SetIndexed(w) \/ Abort(w)
  <2>1. pc'[w] \in {"idle", "layout", "open_copy", "copy", "upsert"}
    BY <1>1, <1>2 DEF Call, Ingest, LookupRaises, LookupSkips, LookupProceeds, PrepareLayout, OpenCopy,
       FinishCopy, InsertConflicts, CreateConflicts, CollectionMissing, SetIndexed, Abort
  <2>2. QED BY <2>1 DEF Progress, Registered, ChunksDone, LexicalDone
<1>3. CASE UpsertReads(w)
  <2>1. /\ pc'[w] = IF documents[job[w].doc] = NoValue THEN "insert" ELSE "set_ocr"
        /\ job' = job /\ documents' = documents
    BY <1>1, <1>3 DEF UpsertReads, db
  <2>2. QED BY <2>1 DEF Progress, Registered, ChunksDone, LexicalDone
<1>4. CASE InsertRow(w)
  <2>1. /\ pc'[w] = "set_ocr" /\ job' = job /\ job[w].doc \in Docs
        /\ documents'[job[w].doc] \in DocumentRows
    BY <1>1, <1>4 DEF InsertRow, Jobs, DocumentRows, Statuses, TypeInv, TypeOK
  <2>2. QED BY <2>1, NoValueAssumption DEF Progress, ChunksDone, LexicalDone
<1>5. CASE OpenPdf(w) \/ OcrPage(w) \/ Consolidate(w)
  <2>1. /\ pc[w] \in {"open", "page", "consolidate"}
        /\ pc'[w] \in {"page", "update_doctype"}
        /\ job'[w].doc = job[w].doc
    <3>1. CASE OpenPdf(w)
      <4>1. PICK n \in 0..NumPages :
              job' = [job EXCEPT ![w] = [job[w] EXCEPT !.total = n, !.pages = 0]]
        BY <3>1 DEF OpenPdf
      <4>2. [job[w] EXCEPT !.total = n, !.pages = 0].doc = job[w].doc
        BY <1>1, <3>1 DEF OpenPdf, Jobs
      <4>3. QED BY <1>1, <3>1, <4>1, <4>2 DEF OpenPdf
    <3>2. CASE OcrPage(w)
      BY <1>1, <3>2 DEF OcrPage, Jobs
    <3>3. CASE Consolidate(w)
      BY <1>1, <3>3 DEF Consolidate, Jobs
    <3>4. QED BY <1>5, <3>1, <3>2, <3>3
  <2>2. job[w].doc \in Docs /\ RowsKept
    BY <1>1, <2>1, StepKeeps DEF Jobs
  <2>3. QED BY <2>1, <2>2 DEF Progress, RowsKept, Registered, ChunksDone, LexicalDone
<1>6. CASE StoreChunks(w)
  <2>1. /\ pc[w] = "store" /\ pc'[w] = "set_embedded" /\ job' = job /\ job[w].doc \in Docs
        /\ documents' = documents
    BY <1>1, <1>6 DEF StoreChunks, Jobs
  <2>2. HoldsText(chunks, job[w].doc, job[w].text)'
    BY <1>6, <2>1, StoreChunksWrites DEF Adds, HoldsText, Stored
  <2>3. QED BY <2>1, <2>2 DEF Progress, Registered, LexicalDone
<1>7. CASE UpsertLexical(w)
  <2>1. /\ pc[w] = "lexical" /\ pc'[w] = "choose_extract" /\ job' = job /\ job[w].doc \in Docs
        /\ documents' = documents /\ chunks' = chunks
    BY <1>1, <1>7 DEF UpsertLexical, Jobs, db
  <2>2. HoldsText(fts, job[w].doc, job[w].text)'
    BY <1>7, <2>1, UpsertLexicalWrites DEF Adds, HoldsText, Stored
  <2>3. QED BY <2>1, <2>2 DEF Progress, Registered, ChunksDone, HoldsText, Stored
<1>8. CASE \/ SetOcr(w) \/ FinishOcr(w) \/ PersistPages(w) \/ SetPostproc(w)
           \/ UpdateDoctype(w) \/ SetEmbedded(w) \/ EnsureCollection(w)
           \/ DropCollection(w) \/ CreateCollection(w) \/ UpsertVectors(w)
           \/ SkipExtract(w) \/ SetExtract(w) \/ Extract(w)
  <2>1. /\ job' = job
        /\ <<pc[w], pc'[w]>> \in
             {<<"set_ocr", "open">>, <<"page", "persist">>, <<"persist", "set_postproc">>,
              <<"set_postproc", "consolidate">>, <<"update_doctype", "store">>,
              <<"set_embedded", "ensure">>, <<"ensure", "vectors">>, <<"ensure", "drop">>,
              <<"drop", "create">>, <<"create", "vectors">>, <<"vectors", "lexical">>,
              <<"choose_extract", "set_indexed">>, <<"choose_extract", "extract">>,
              <<"extract", "set_indexed">>}
    BY <1>1, <1>8 DEF SetOcr, FinishOcr, PersistPages, SetPostproc, UpdateDoctype, SetEmbedded,
       EnsureCollection, DropCollection, CreateCollection, UpsertVectors, SkipExtract,
       SetExtract, Extract
  <2>2. /\ pc'[w] \in Registered => pc[w] \in Registered
        /\ pc'[w] \in ChunksDone => pc[w] \in ChunksDone
        /\ pc'[w] \in LexicalDone => pc[w] \in LexicalDone
    BY <2>1 DEF Registered, ChunksDone, LexicalDone
  <2>3. QED BY <1>1, <2>1, <2>2, ProgressStays
<1>9. QED
  BY <1>2, <1>3, <1>4, <1>5, <1>6, <1>7, <1>8
     DEF Run, Prepare, Ocr, Postprocess, Index, Finish

(***************************************************************************)
(* Every step keeps what each worker's place says of the stores.           *)
(***************************************************************************)
LEMMA ProgressStep == TypeInv /\ RunProgress /\ [Next]_vars => RunProgress'
<1> SUFFICES ASSUME TypeInv, RunProgress, [Next]_vars, NEW v \in Workers
             PROVE  Progress(v)'
  BY DEF RunProgress
<1>1. Progress(v)
  BY DEF RunProgress
<1>2. CASE pc' = pc /\ job' = job
  BY <1>1, <1>2, ProgressStays
<1>3. ASSUME NEW w \in Workers, Call(w) \/ Run(w) \/ Abort(w)
      PROVE  Progress(v)'
  <2>1. CASE w = v
    BY <1>1, <1>3, <2>1, OwnProgress
  <2>2. CASE w # v
    <3>1. pc'[v] = pc[v] /\ job'[v] = job[v]
      BY <1>3, <2>2, OthersStay
    <3>2. QED BY <1>1, <3>1, ProgressStays
  <2>3. QED BY <2>1, <2>2
<1>4. NextMonth \/ UNCHANGED vars => pc' = pc /\ job' = job
  BY DEF NextMonth, vars
<1>5. QED BY <1>2, <1>3, <1>4 DEF Next

-----------------------------------------------------------------------------
\* What the stores then satisfy.

(***************************************************************************)
(* A new document, chunk, point, lexical row or page row is written by one *)
(* action each, by a worker that has come far enough.                      *)
(***************************************************************************)
LEMMA ReferenceStep ==
    ASSUME TypeInv, RunProgress, ReferentialIntegrity, [Next]_vars
    PROVE  ReferentialIntegrity'
<1>1. RowsKept /\ Kept(chunks) /\ Kept(fts)
  BY StepKeeps
<1> USE DEF Advance, Return, At, GoTo, db, indexes, bounds
<1> DEFINE Same == UNCHANGED <<chunks, points, fts, pageRows>>
<1>2. CASE Same
  BY <1>1, <1>2 DEF ReferentialIntegrity, RowsKept, Stored
<1>3. ASSUME NEW w \in Workers, StoreChunks(w)
      PROVE  ReferentialIntegrity'
  <2>1. Adds(chunks, chunks', job[w].doc, job[w].text)
    BY <1>3, StoreChunksWrites
  <2>2. documents[job[w].doc] # NoValue /\ UNCHANGED <<documents, pageRows, points, fts>>
    BY <1>3 DEF StoreChunks, RunProgress, Progress, Registered
  <2>3. QED BY <1>1, <2>1, <2>2 DEF ReferentialIntegrity, Adds, Stored
<1>4. ASSUME NEW w \in Workers, UpsertVectors(w)
      PROVE  ReferentialIntegrity'
  <2>1. Adds(points, points', job[w].doc, job[w].text)
    BY <1>4, UpsertVectorsWrites
  <2>2. /\ HoldsText(chunks, job[w].doc, job[w].text)
        /\ UNCHANGED <<documents, pageRows, chunks, fts>>
    BY <1>4 DEF UpsertVectors, RunProgress, Progress, ChunksDone
  <2>3. QED BY <2>1, <2>2 DEF ReferentialIntegrity, Adds, Stored, HoldsText
<1>5. ASSUME NEW w \in Workers, UpsertLexical(w)
      PROVE  ReferentialIntegrity'
  <2>1. Adds(fts, fts', job[w].doc, job[w].text)
    BY <1>5, UpsertLexicalWrites
  <2>2. /\ HoldsText(chunks, job[w].doc, job[w].text)
        /\ UNCHANGED <<documents, pageRows, chunks, points>>
    BY <1>5 DEF UpsertLexical, RunProgress, Progress, ChunksDone
  <2>3. QED BY <2>1, <2>2 DEF ReferentialIntegrity, Adds, Stored, HoldsText
<1>6. ASSUME NEW w \in Workers, DropCollection(w)
      PROVE  ReferentialIntegrity'
  <2>1. /\ points' = NoEntries
        /\ UNCHANGED <<documents, pageRows, chunks, fts>>
    BY <1>6 DEF DropCollection
  <2>2. QED BY <2>1 DEF ReferentialIntegrity, Stored, NoEntries
<1>7. ASSUME NEW w \in Workers, PersistPages(w)
      PROVE  ReferentialIntegrity'
  <2>1. /\ documents[job[w].doc] # NoValue
        /\ \A d \in Docs : d # job[w].doc => pageRows'[d] = pageRows[d]
        /\ UNCHANGED <<documents, chunks, points, fts>>
    BY <1>7 DEF PersistPages, RunProgress, Progress, Registered, TypeInv, TypeOK
  <2>2. QED BY <2>1 DEF ReferentialIntegrity, Stored
<1>8. ASSUME NEW w \in Workers, Call(w) \/ Prepare(w)
      PROVE  Same
  BY <1>8 DEF Call, Ingest, Prepare, PrepareLayout, OpenCopy, FinishCopy, UpsertReads, InsertRow,
              InsertConflicts
<1>9. ASSUME NEW w \in Workers,
             \/ SetOcr(w) \/ OpenPdf(w) \/ OcrPage(w) \/ FinishOcr(w)
             \/ SetPostproc(w) \/ Consolidate(w) \/ UpdateDoctype(w) \/ SetEmbedded(w)
      PROVE  Same
  BY <1>9 DEF SetOcr, OpenPdf, OcrPage, FinishOcr, SetPostproc, Consolidate,
              UpdateDoctype, SetEmbedded
<1>10. ASSUME NEW w \in Workers,
              \/ EnsureCollection(w) \/ CreateCollection(w) \/ CreateConflicts(w)
              \/ CollectionMissing(w) \/ Finish(w) \/ Abort(w)
       PROVE  Same
  BY <1>10 DEF EnsureCollection, CreateCollection, CreateConflicts, CollectionMissing,
               Finish, SkipExtract, SetExtract, Extract, SetIndexed, Abort
<1>11. NextMonth \/ UNCHANGED vars => Same
  BY DEF NextMonth, vars
<1> HIDE DEF Same
<1>12. QED
  BY <1>2, <1>3, <1>4, <1>5, <1>6, <1>7, <1>8, <1>9, <1>10, <1>11
     DEF Next, Run, Ocr, Postprocess, Index

(***************************************************************************)
(* Only SetIndexed completes a run, and then every chunk of its text is in *)
(* the table and in the lexical index.                                     *)
(***************************************************************************)
LEMMA CompletedGrows ==
    ASSUME TypeInv, [Next]_vars
    PROVE  \/ completed' = completed
           \/ \E w \in Workers : /\ pc[w] = "set_indexed"
                                 /\ completed' = completed \cup {<<job[w].doc, job[w].text>>}
                                 /\ UNCHANGED <<chunks, points, fts>>
<1> USE DEF Advance, Return, At, GoTo, db, indexes
<1> DEFINE Same == completed' = completed
<1>1. ASSUME NEW w \in Workers, Call(w) \/ Prepare(w) \/ Ocr(w) \/ Abort(w)
      PROVE  Same
  BY <1>1 DEF Call, Ingest, Prepare, PrepareLayout, OpenCopy, FinishCopy, UpsertReads, InsertRow,
     InsertConflicts, Ocr, SetOcr, OpenPdf, OcrPage, FinishOcr, PersistPages, Abort
<1>2. ASSUME NEW w \in Workers, Postprocess(w) \/ Index(w)
      PROVE  Same
  BY <1>2 DEF Postprocess, SetPostproc, Consolidate, UpdateDoctype, StoreChunks,
     Index, SetEmbedded, EnsureCollection, DropCollection, CreateCollection,
     CreateConflicts, UpsertVectors, CollectionMissing, UpsertLexical
<1>3. ASSUME NEW w \in Workers, SkipExtract(w) \/ SetExtract(w) \/ Extract(w)
      PROVE  Same
  BY <1>3 DEF SkipExtract, SetExtract, Extract
<1>4. NextMonth \/ UNCHANGED vars => Same
  BY DEF NextMonth, vars
<1>5. ASSUME NEW w \in Workers, SetIndexed(w)
      PROVE  /\ pc[w] = "set_indexed"
             /\ completed' = completed \cup {<<job[w].doc, job[w].text>>}
             /\ UNCHANGED <<chunks, points, fts>>
  BY <1>5 DEF SetIndexed
<1> HIDE DEF Same
<1>6. QED BY <1>1, <1>2, <1>3, <1>4, <1>5 DEF Next, Run, Finish, Same

(***************************************************************************)
(* Every step keeps the completed runs stored.                             *)
(***************************************************************************)
LEMMA CompletedStep ==
    ASSUME TypeInv, RunProgress, CompletedRunsStayStored, [Next]_vars
    PROVE  CompletedRunsStayStored'
<1>1. Kept(chunks) /\ Kept(fts)
  BY StepKeeps
<1>2. \A run \in completed : /\ run[1] \in Docs /\ ChunkIds[run[2]] \subseteq Labels
  BY ConstantsAssumption DEF TypeInv, TypeOK
<1>3. ASSUME NEW run \in completed, NEW l \in ChunkIds[run[2]]
      PROVE  Stored(chunks, run[1], l)' /\ Stored(fts, run[1], l)'
  BY <1>1, <1>2, <1>3 DEF Kept, CompletedRunsStayStored
<1>4. CASE completed' = completed
  BY <1>3, <1>4 DEF CompletedRunsStayStored
<1>5. ASSUME NEW w \in Workers, pc[w] = "set_indexed",
             completed' = completed \cup {<<job[w].doc, job[w].text>>},
             UNCHANGED <<chunks, points, fts>>
      PROVE  CompletedRunsStayStored'
  <2>1. HoldsText(chunks, job[w].doc, job[w].text) /\ HoldsText(fts, job[w].doc, job[w].text)
    BY <1>5 DEF RunProgress, Progress, ChunksDone, LexicalDone
  <2>2. QED BY <1>3, <1>5, <2>1 DEF CompletedRunsStayStored, HoldsText, Stored
<1>6. QED BY <1>4, <1>5, CompletedGrows

(***************************************************************************)
(* The inductive invariant of the stores holds initially.                  *)
(***************************************************************************)
LEMMA StoreInit == Init => StoreInv
BY TypeInit DEF Init, StoreInv, RunProgress, Progress, Registered, ChunksDone, LexicalDone,
   ReferentialIntegrity, CompletedRunsStayStored, Stored, NoEntries

(***************************************************************************)
(* Every step keeps the inductive invariant of the stores.                 *)
(***************************************************************************)
LEMMA StoreStep == StoreInv /\ [Next]_vars => StoreInv'
BY TypeStep, ProgressStep, ReferenceStep, CompletedStep DEF StoreInv

(***************************************************************************)
(* A hit of either index always resolves to a chunk row, and no row is     *)
(* without its document, in every interleaving of any number of workers.   *)
(***************************************************************************)
THEOREM ReferencesHold == Spec => []ReferentialIntegrity
<1>1. StoreInv => ReferentialIntegrity
  BY DEF StoreInv
<1>2. QED BY <1>1, StoreInit, StoreStep, PTL DEF Spec

(***************************************************************************)
(* What a completed run wrote to the table and the lexical index stays,    *)
(* whether or not the collection existed at the start.                     *)
(***************************************************************************)
THEOREM CompletedStored == Spec => []CompletedRunsStayStored
<1>1. StoreInv => CompletedRunsStayStored
  BY DEF StoreInv
<1>2. QED BY <1>1, StoreInit, StoreStep, PTL DEF Spec

-----------------------------------------------------------------------------
\* Vectors: with the collection there from the start, nobody recreates it.

VectorsDone == {"lexical", "choose_extract", "extract", "set_indexed"}

VectorInv ==
    /\ StoreInv
    /\ collection
    /\ \A w \in Workers :
         /\ pc[w] \notin {"drop", "create"}
         /\ pc[w] \in VectorsDone => HoldsText(points, job[w].doc, job[w].text)
    /\ CompletedRunsStaySearchable

(***************************************************************************)
(* A step of any kind, seen from the collection and its points.            *)
(***************************************************************************)
LEMMA VectorCases ==
    ASSUME TypeInv, Next, collection, \A w \in Workers : pc[w] \notin {"drop", "create"}
    PROVE  /\ collection'
           /\ \/ points' = points
              \/ \E w \in Workers : UpsertVectors(w)
<1> USE DEF Advance, Return, At, GoTo, db, indexes
<1> DEFINE Same == UNCHANGED <<collection, points>>
<1>1. ASSUME NEW w \in Workers, Call(w) \/ Prepare(w) \/ Ocr(w) \/ Postprocess(w)
      PROVE  Same
  BY <1>1 DEF Call, Ingest, Prepare, PrepareLayout, OpenCopy, FinishCopy, UpsertReads, InsertRow,
     InsertConflicts, Ocr, SetOcr, OpenPdf, OcrPage, FinishOcr, PersistPages,
     Postprocess, SetPostproc, Consolidate, UpdateDoctype, StoreChunks
<1>2. ASSUME NEW w \in Workers, Finish(w) \/ Abort(w)
      PROVE  Same
  BY <1>2 DEF Finish, SkipExtract, SetExtract, Extract, SetIndexed, Abort
<1>3. ASSUME NEW w \in Workers, SetEmbedded(w) \/ EnsureCollection(w)
                \/ CollectionMissing(w) \/ UpsertLexical(w)
      PROVE  Same
  BY <1>3 DEF SetEmbedded, EnsureCollection, CollectionMissing, UpsertLexical
<1>4. \A w \in Workers : ~DropCollection(w) /\ ~CreateCollection(w) /\ ~CreateConflicts(w)
  BY DEF DropCollection, CreateCollection, CreateConflicts
<1>5. ASSUME NEW w \in Workers, UpsertVectors(w)
      PROVE  collection' = collection
  BY <1>5 DEF UpsertVectors
<1>6. NextMonth => Same
  BY DEF NextMonth
<1> HIDE DEF Same
<1>7. CASE Same
  BY <1>7 DEF Same
<1>8. QED BY <1>1, <1>2, <1>3, <1>4, <1>5, <1>6, <1>7 DEF Next, Run, Index

(***************************************************************************)
(* While the collection exists no worker enters the recreation, and one    *)
(* that is past the upsert was there before or has just done it.           *)
(***************************************************************************)
LEMMA VectorControl ==
    ASSUME TypeInv, Next, collection, \A w \in Workers : pc[w] \notin {"drop", "create"},
           NEW v \in Workers
    PROVE  /\ pc'[v] \notin {"drop", "create"}
           /\ pc'[v] \in VectorsDone => /\ job'[v] = job[v]
                                        /\ pc[v] \in VectorsDone \/ UpsertVectors(v)
<1> USE DEF Advance, Return, At, GoTo, VectorsDone
<1> DEFINE Goal == /\ pc'[v] \notin {"drop", "create"}
                   /\ pc'[v] \in VectorsDone => /\ job'[v] = job[v]
                                                /\ pc[v] \in VectorsDone \/ UpsertVectors(v)
<1>1. pc \in [Workers -> Steps] /\ pc[v] \notin {"drop", "create"}
  BY DEF TypeInv, TypeOK
<1>2. pc'[v] = pc[v] /\ job'[v] = job[v] => Goal
  BY <1>1
<1>3. NextMonth => pc' = pc /\ job' = job
  BY DEF NextMonth
<1>4. CASE Call(v) \/ Prepare(v) \/ Ocr(v) \/ Abort(v)
  <2>1. pc'[v] \in {"idle", "layout", "open_copy", "copy", "upsert", "insert", "set_ocr", "open", "page",
                    "persist", "set_postproc"}
    BY <1>1, <1>4 DEF Call, Ingest, LookupRaises, LookupSkips, LookupProceeds, Prepare,
       PrepareLayout, OpenCopy, FinishCopy, UpsertReads, InsertRow, InsertConflicts, Ocr, SetOcr,
       OpenPdf, OcrPage, FinishOcr, PersistPages, Abort
  <2>2. QED BY <2>1
<1>5. CASE Postprocess(v)
  <2>1. pc'[v] \in {"consolidate", "update_doctype", "store", "set_embedded"}
    BY <1>1, <1>5 DEF Postprocess, SetPostproc, Consolidate, UpdateDoctype, StoreChunks
  <2>2. QED BY <2>1
<1>6. CASE SetEmbedded(v) \/ EnsureCollection(v) \/ CollectionMissing(v)
  <2>1. pc'[v] \in {"ensure", "vectors", "idle"}
    BY <1>1, <1>6 DEF SetEmbedded, EnsureCollection, CollectionMissing
  <2>2. QED BY <2>1
<1>7. CASE UpsertVectors(v)
  BY <1>1, <1>7 DEF UpsertVectors
<1>8. CASE UpsertLexical(v) \/ SkipExtract(v) \/ SetExtract(v) \/ Extract(v) \/ SetIndexed(v)
  BY <1>1, <1>8 DEF UpsertLexical, SkipExtract, SetExtract, Extract, SetIndexed
<1>9. ~DropCollection(v) /\ ~CreateCollection(v) /\ ~CreateConflicts(v)
  BY <1>1 DEF DropCollection, CreateCollection, CreateConflicts
<1>10. ASSUME Call(v) \/ Run(v) \/ Abort(v)
       PROVE  Goal
  <2> HIDE DEF Goal
  <2>1. QED BY <1>4, <1>5, <1>6, <1>7, <1>8, <1>9, <1>10 DEF Run, Index, Finish, Goal
<1> HIDE DEF Goal
<1>11. ASSUME NEW w \in Workers, Call(w) \/ Run(w) \/ Abort(w)
       PROVE  Goal
  <2>1. CASE w = v
    BY <1>10, <1>11, <2>1
  <2>2. CASE w # v
    BY <1>2, <1>11, <2>2, OthersStay
  <2>3. QED BY <2>1, <2>2
<1>12. Goal
  BY <1>2, <1>3, <1>11 DEF Next
<1>13. QED BY <1>12 DEF Goal

(***************************************************************************)
(* Every step keeps the inductive invariant of the collection.             *)
(***************************************************************************)
LEMMA VectorStep == VectorInv /\ [Next]_vars => VectorInv'
<1> SUFFICES ASSUME VectorInv, [Next]_vars PROVE VectorInv'
  OBVIOUS
<1>1. StoreInv /\ TypeInv /\ collection /\ \A w \in Workers : pc[w] \notin {"drop", "create"}
  BY DEF VectorInv, StoreInv
<1>2. StoreInv'
  BY <1>1, StoreStep
<1>3. CASE UNCHANGED vars
  BY <1>2, <1>3
     DEF vars, VectorInv, CompletedRunsStaySearchable, Searchable, Stored, HoldsText
<1>4. CASE Next
  <2>1. collection'
    BY <1>1, <1>4, VectorCases
  <2>2. Kept(points)
    <3>1. CASE points' = points
      BY <3>1 DEF Kept, Stored
    <3>2. ASSUME NEW w \in Workers, UpsertVectors(w)
          PROVE  Kept(points)
      BY <1>1, <3>2, UpsertVectorsWrites DEF Adds, Kept, Stored
    <3>3. QED BY <1>1, <1>4, <3>1, <3>2, VectorCases
  <2>3. ASSUME NEW v \in Workers
        PROVE  /\ pc'[v] \notin {"drop", "create"}
               /\ pc'[v] \in VectorsDone => HoldsText(points, job[v].doc, job[v].text)'
    <3>1. /\ pc'[v] \notin {"drop", "create"}
          /\ pc'[v] \in VectorsDone => /\ job'[v] = job[v]
                                       /\ pc[v] \in VectorsDone \/ UpsertVectors(v)
      BY <1>1, <1>4, VectorControl
    <3>2. CASE pc[v] \in VectorsDone
      <4>1. /\ job[v].doc \in Docs /\ ChunkIds[job[v].text] \subseteq Labels
            /\ HoldsText(points, job[v].doc, job[v].text)
        BY <1>1, <3>2, ConstantsAssumption
           DEF VectorInv, VectorsDone, TypeInv, TypeOK, LocalsOK, HasText, Jobs
      <4>2. QED BY <2>2, <3>1, <4>1 DEF Kept, HoldsText, Stored
    <3>3. CASE UpsertVectors(v)
      <4>1. /\ job' = job
            /\ \A l \in ChunkIds[job[v].text] : points'[job[v].doc][l] # NoValue
        BY <1>1, <3>3, UpsertVectorsWrites DEF Adds, UpsertVectors
      <4>2. QED BY <3>1, <4>1 DEF HoldsText, Stored
    <3>4. QED BY <3>1, <3>2, <3>3
  <2>4. CompletedRunsStaySearchable'
    <3>1. \A run \in completed : run[1] \in Docs /\ ChunkIds[run[2]] \subseteq Labels
      BY <1>1, ConstantsAssumption DEF TypeInv, TypeOK
    <3>2. \A run \in completed : \A l \in ChunkIds[run[2]] : Stored(points, run[1], l)'
      BY <2>2, <3>1 DEF VectorInv, CompletedRunsStaySearchable, Searchable, Kept
    <3>3. \A run \in completed' : \A l \in ChunkIds[run[2]] : Stored(points, run[1], l)'
      <4>1. CASE completed' = completed
        BY <3>2, <4>1
      <4>2. ASSUME NEW w \in Workers, pc[w] = "set_indexed",
                   completed' = completed \cup {<<job[w].doc, job[w].text>>},
                   UNCHANGED <<chunks, points, fts>>
            PROVE  \A run \in completed' : \A l \in ChunkIds[run[2]] : Stored(points, run[1], l)'
        <5>1. HoldsText(points, job[w].doc, job[w].text)
          BY <4>2 DEF VectorInv, VectorsDone
        <5>2. QED BY <3>2, <4>2, <5>1 DEF HoldsText, Stored
      <4>3. QED BY <1>1, <4>1, <4>2, CompletedGrows
    <3>4. CompletedRunsStayStored'
      BY <1>2 DEF StoreInv
    <3>5. QED BY <3>3, <3>4
          DEF CompletedRunsStaySearchable, CompletedRunsStayStored, Searchable, Stored
  <2>5. QED BY <1>2, <2>1, <2>3, <2>4 DEF VectorInv
<1>5. QED BY <1>3, <1>4

(***************************************************************************)
(* Where the collection was created before the first ingest, a chunk of a  *)
(* completed run is found by both searches from then on.                   *)
(***************************************************************************)
THEOREM CompletedSearchable ==
    ASSUME CollectionReady
    PROVE  Spec => []CompletedRunsStaySearchable
<1>1. Init => VectorInv
  BY StoreInit DEF Init, VectorInv, VectorsDone, CompletedRunsStaySearchable
<1>2. VectorInv => CompletedRunsStaySearchable
  BY DEF VectorInv
<1>3. QED BY <1>1, <1>2, VectorStep, PTL DEF Spec

-----------------------------------------------------------------------------
\* The status.

IndexedOnlyBy(d) ==
    HasStatus(d, {"indexed"})' =>
       \/ HasStatus(d, {"indexed"})
       \/ \E w \in Workers : SetIndexed(w) /\ job[w].doc = d

(***************************************************************************)
(* _set_status writes the status it is given, to one row only.             *)
(***************************************************************************)
LEMMA StatusWritten ==
    ASSUME TypeOK, NEW w \in Workers, job[w] \in Jobs, NEW status \in Statuses,
           SetStatus(w, status), NEW d \in Docs
    PROVE  /\ d # job[w].doc => documents'[d] = documents[d]
           /\ documents'[d] # NoValue => documents[d] # NoValue
           /\ d = job[w].doc /\ documents[d] # NoValue => documents'[d].status = status
<1>1. job[w].doc \in Docs /\ documents[d] \in DocumentRows \cup {NoValue}
  BY DEF Jobs, TypeOK
<1>2. QED BY <1>1, NoValueAssumption DEF SetStatus, TypeOK, DocumentRows

(***************************************************************************)
(* No statement but the last makes a document indexed.                     *)
(***************************************************************************)
LEMMA OnlySetIndexed ==
    ASSUME TypeInv, [Next]_vars, NEW d \in Docs
    PROVE  IndexedOnlyBy(d)
<1> USE DEF Advance, Return, At, GoTo, db, indexes
<1>1. documents'[d] = documents[d] => IndexedOnlyBy(d)
  BY DEF IndexedOnlyBy, HasStatus
<1>2. ASSUME NEW w \in Workers, InsertRow(w)
      PROVE  IndexedOnlyBy(d)
  <2>1. CASE d = job[w].doc
    <3>1. documents'[d].status = "queued"
      BY <1>2, <2>1 DEF InsertRow, TypeInv, TypeOK
    <3>2. QED BY <3>1 DEF IndexedOnlyBy, HasStatus
  <2>2. CASE d # job[w].doc
    <3>1. documents'[d] = documents[d]
      BY <1>2, <2>2 DEF InsertRow, TypeInv, TypeOK
    <3>2. QED BY <1>1, <3>1
  <2>3. QED BY <2>1, <2>2
<1>3. ASSUME NEW w \in Workers, job[w] \in Jobs,
             NEW status \in Statuses \ {"indexed"}, SetStatus(w, status)
      PROVE  IndexedOnlyBy(d)
  BY <1>1, <1>3, StatusWritten DEF IndexedOnlyBy, HasStatus, TypeInv
<1>4. ASSUME NEW w \in Workers,
             SetOcr(w) \/ SetPostproc(w) \/ SetEmbedded(w) \/ SetExtract(w)
      PROVE  IndexedOnlyBy(d)
  <2>1. job[w] \in Jobs
    BY <1>4 DEF TypeInv, TypeOK, SetOcr, SetPostproc, SetEmbedded, SetExtract
  <2>2. PICK status \in Statuses \ {"indexed"} : SetStatus(w, status)
    BY <1>4 DEF Statuses, SetOcr, SetPostproc, SetEmbedded, SetExtract
  <2>3. QED BY <1>3, <2>1, <2>2
<1>5. ASSUME NEW w \in Workers, SetIndexed(w)
      PROVE  IndexedOnlyBy(d)
  <2>1. job[w] \in Jobs /\ SetStatus(w, "indexed") /\ "indexed" \in Statuses
    BY <1>5 DEF TypeInv, TypeOK, SetIndexed, Statuses
  <2>2. d # job[w].doc => documents'[d] = documents[d]
    BY <2>1, StatusWritten DEF TypeInv
  <2>3. QED BY <1>1, <1>5, <2>2 DEF IndexedOnlyBy
<1>6. ASSUME NEW w \in Workers, UpdateDoctype(w)
      PROVE  IndexedOnlyBy(d)
  <2>1. job[w] \in Jobs /\ documents[d] \in DocumentRows \cup {NoValue}
    BY <1>6 DEF UpdateDoctype, TypeInv, TypeOK
  <2>2. /\ documents'[d] # NoValue => documents[d] # NoValue
        /\ documents[d] # NoValue => documents'[d].status = documents[d].status
    BY <1>6, <2>1 DEF UpdateDoctype, TypeInv, TypeOK, Jobs, DocumentRows
  <2>3. QED BY <2>2 DEF IndexedOnlyBy, HasStatus
<1>7. ASSUME NEW w \in Workers, Call(w) \/ Abort(w)
      PROVE  documents' = documents
  BY <1>7 DEF Call, Ingest, Abort
<1>8. ASSUME NEW w \in Workers,
             \/ PrepareLayout(w) \/ OpenCopy(w) \/ FinishCopy(w) \/ UpsertReads(w) \/ InsertConflicts(w)
             \/ OpenPdf(w) \/ OcrPage(w) \/ FinishOcr(w) \/ PersistPages(w)
             \/ Consolidate(w) \/ StoreChunks(w)
      PROVE  documents' = documents
  BY <1>8 DEF PrepareLayout, OpenCopy, FinishCopy, UpsertReads, InsertConflicts, OpenPdf, OcrPage,
     FinishOcr, PersistPages, Consolidate, StoreChunks
<1>9. ASSUME NEW w \in Workers,
             \/ EnsureCollection(w) \/ DropCollection(w) \/ CreateCollection(w)
             \/ CreateConflicts(w) \/ UpsertVectors(w) \/ CollectionMissing(w)
             \/ UpsertLexical(w) \/ SkipExtract(w) \/ Extract(w)
      PROVE  documents' = documents
  BY <1>9 DEF EnsureCollection, DropCollection, CreateCollection, CreateConflicts,
     UpsertVectors, CollectionMissing, UpsertLexical, SkipExtract, Extract
<1>10. NextMonth \/ UNCHANGED vars => documents' = documents
  BY DEF NextMonth, vars
<1>11. QED
  BY <1>1, <1>2, <1>4, <1>5, <1>6, <1>7, <1>8, <1>9, <1>10
     DEF Next, Run, Prepare, Ocr, Postprocess, Index, Finish

(***************************************************************************)
(* A document is indexed only after some run has gone through every stage, *)
(* however many workers overlap or die.                                    *)
(***************************************************************************)
THEOREM IndexedCompleted == Spec => []IndexedMeansCompleted
<1> DEFINE Inv == TypeInv /\ IndexedMeansCompleted
<1>1. Init => Inv
  BY TypeInit DEF Init, IndexedMeansCompleted, HasStatus
<1>2. Inv /\ [Next]_vars => Inv'
  <2> SUFFICES ASSUME Inv, [Next]_vars PROVE IndexedMeansCompleted'
    BY TypeStep
  <2>1. completed \subseteq completed'
    BY CompletedGrows
  <2>2. ASSUME NEW d \in Docs, HasStatus(d, {"indexed"})'
        PROVE  \E text \in Texts : <<d, text>> \in completed'
    <3>1. CASE HasStatus(d, {"indexed"})
      BY <2>1, <3>1 DEF IndexedMeansCompleted
    <3>2. ASSUME NEW w \in Workers, SetIndexed(w), job[w].doc = d
          PROVE  \E text \in Texts : <<d, text>> \in completed'
      <4>1. job[w].text \in Texts
        BY <3>2 DEF SetIndexed, At, TypeInv, LocalsOK, HasText
      <4>2. <<d, job[w].text>> \in completed'
        BY <3>2 DEF SetIndexed
      <4>3. QED BY <4>1, <4>2
    <3>3. QED BY <2>2, <3>1, <3>2, OnlySetIndexed DEF IndexedOnlyBy
  <2>3. QED BY <2>2 DEF IndexedMeansCompleted
<1>3. Inv => IndexedMeansCompleted
  OBVIOUS
<1>4. QED BY <1>1, <1>2, <1>3, PTL DEF Spec

-----------------------------------------------------------------------------
\* The refinement.

Owners == [d \in Docs |-> IF documents[d] = NoValue THEN NoValue ELSE documents[d].tenant]
Found == [d \in Docs |-> {l \in Labels : Searchable(d, l)}]

InText == [d \in Docs |-> {l \in Labels : Stored(chunks, d, l) /\ Stored(fts, d, l)}]

\* A step that the sparse half of a search cannot see, and one that no reader
\* of a catalogue can.
Unread ==
    /\ UNCHANGED <<chunks, fts, completed>>
    /\ \A d \in Docs :
         /\ documents'[d] = NoValue <=> documents[d] = NoValue
         /\ documents[d] # NoValue => documents'[d].tenant = documents[d].tenant
Unseen == Unread /\ UNCHANGED points

(***************************************************************************)
(* A status or a text written to a row is not seen by them.                *)
(***************************************************************************)
LEMMA RowWritesUnseen ==
    ASSUME TypeInv, [Next]_vars, NEW w \in Workers,
           \/ SetOcr(w) \/ SetPostproc(w) \/ SetEmbedded(w) \/ SetExtract(w)
           \/ UpdateDoctype(w)
    PROVE  Unseen
<1>1. RowsKept
  BY StepKeeps
<1>2. UNCHANGED <<chunks, points, fts, completed>>
  BY DEF SetOcr, SetPostproc, SetEmbedded, SetExtract, UpdateDoctype, indexes
<1>3. ASSUME NEW d \in Docs, documents'[d] # NoValue
      PROVE  documents[d] # NoValue
  <2>1. job[w] \in Jobs
    BY DEF TypeInv, TypeOK, SetOcr, SetPostproc, SetEmbedded, SetExtract, UpdateDoctype,
           Advance, At
  <2>2. CASE UpdateDoctype(w)
    BY <1>3, <2>1, <2>2 DEF UpdateDoctype, TypeInv, TypeOK, Jobs
  <2>3. CASE SetOcr(w) \/ SetPostproc(w) \/ SetEmbedded(w) \/ SetExtract(w)
    <3>1. PICK status \in Statuses : SetStatus(w, status)
      BY <2>3 DEF Statuses, SetOcr, SetPostproc, SetEmbedded, SetExtract
    <3>2. QED BY <1>3, <2>1, <3>1, StatusWritten DEF TypeInv
  <2>4. QED BY <2>2, <2>3
<1>4. QED BY <1>1, <1>2, <1>3 DEF RowsKept, Unread, Unseen

(***************************************************************************)
(* The statements a reader of a catalogue can see, and no others.          *)
(***************************************************************************)
LEMMA SeenSteps ==
    ASSUME TypeInv, Next
    PROVE  \/ Unseen
           \/ \E w \in Workers :
                \/ InsertRow(w) \/ SetIndexed(w) \/ DropCollection(w)
                \/ StoreChunks(w) \/ UpsertVectors(w) \/ UpsertLexical(w)
<1> USE DEF Advance, Return, At, GoTo, db, indexes
<1> DEFINE Still == UNCHANGED <<documents, chunks, points, fts, completed>>
<1>1. Still => Unseen
  BY DEF Unread, Unseen
<1>2. ASSUME NEW w \in Workers, Call(w) \/ Abort(w)
      PROVE  Still
  BY <1>2 DEF Call, Ingest, Abort
<1>3. ASSUME NEW w \in Workers,
             \/ PrepareLayout(w) \/ OpenCopy(w) \/ FinishCopy(w) \/ UpsertReads(w) \/ InsertConflicts(w)
             \/ OpenPdf(w) \/ OcrPage(w) \/ FinishOcr(w) \/ PersistPages(w) \/ Consolidate(w)
      PROVE  Still
  BY <1>3 DEF PrepareLayout, OpenCopy, FinishCopy, UpsertReads, InsertConflicts, OpenPdf, OcrPage,
     FinishOcr, PersistPages, Consolidate
<1>4. ASSUME NEW w \in Workers,
             \/ EnsureCollection(w) \/ CreateCollection(w) \/ CreateConflicts(w)
             \/ CollectionMissing(w) \/ SkipExtract(w) \/ Extract(w)
      PROVE  Still
  BY <1>4 DEF EnsureCollection, CreateCollection, CreateConflicts, CollectionMissing,
     SkipExtract, Extract
<1>5. NextMonth => Still
  BY DEF NextMonth
<1>6. ASSUME NEW w \in Workers,
             \/ SetOcr(w) \/ SetPostproc(w) \/ SetEmbedded(w) \/ SetExtract(w)
             \/ UpdateDoctype(w)
      PROVE  Unseen
  BY <1>6, RowWritesUnseen
<1> HIDE DEF Still
<1>7. QED
  BY <1>1, <1>2, <1>3, <1>4, <1>5, <1>6
     DEF Next, Run, Prepare, Ocr, Postprocess, Index, Finish

(***************************************************************************)
(* A step nobody sees is a stutter of the catalogue.                       *)
(***************************************************************************)
LEMMA UnseenStutters ==
    ASSUME TypeInv, Unseen
    PROVE  UNCHANGED Catalogue!vars
<1>1. Owners' = Owners
  BY DEF Owners, Unread, Unseen
<1>2. Found' = Found
  BY DEF Found, Unread, Unseen, Searchable, Stored
<1>3. QED BY <1>1, <1>2 DEF Catalogue!vars, Owners, Found, Unread, Unseen

(***************************************************************************)
(* Inserting the row gives the document the caller's tenant, and no other  *)
(* store changes.                                                          *)
(***************************************************************************)
LEMMA InsertOwns ==
    ASSUME TypeInv, NEW w \in Workers, InsertRow(w)
    PROVE  /\ UNCHANGED <<chunks, points, fts, completed>>
           /\ \E d \in Docs, t \in Tenants :
                Owners[d] = NoValue /\ Owners' = [Owners EXCEPT ![d] = t]
<1>1. PICK d \in Docs, t \in Tenants : d = job[w].doc /\ t = job[w].tenant
  BY DEF InsertRow, Advance, At, TypeInv, TypeOK, Jobs
<1>2. /\ documents[d] = NoValue
      /\ documents' = [documents EXCEPT ![d] =
             [tenant |-> t, month |-> job[w].month, status |-> "queued", text |-> NoValue]]
      /\ UNCHANGED <<chunks, points, fts, completed>>
  BY <1>1 DEF InsertRow, indexes
<1>3. documents'[d] # NoValue /\ documents'[d].tenant = t
  <2>1. [tenant |-> t, month |-> job[w].month, status |-> "queued", text |-> NoValue]
           \in DocumentRows
    BY <1>1 DEF InsertRow, Advance, At, TypeInv, TypeOK, Jobs, DocumentRows, Statuses
  <2>2. documents'[d] =
           [tenant |-> t, month |-> job[w].month, status |-> "queued", text |-> NoValue]
    BY <1>1, <1>2 DEF TypeInv, TypeOK
  <2>3. QED BY <2>1, <2>2, NoValueAssumption
<1>4. \A e \in Docs : e # d => documents'[e] = documents[e]
  BY <1>1, <1>2 DEF TypeInv, TypeOK
<1>5. Owners[d] = NoValue /\ Owners' = [Owners EXCEPT ![d] = t]
  BY <1>1, <1>2, <1>3, <1>4 DEF Owners
<1>6. QED BY <1>2, <1>5

(***************************************************************************)
(* Inserting the row registers the document for the caller's tenant.       *)
(***************************************************************************)
LEMMA InsertRegisters ==
    ASSUME TypeInv, NEW w \in Workers, InsertRow(w)
    PROVE  Catalogue!Next
<1>1. UNCHANGED <<chunks, points, fts, completed>>
  BY InsertOwns
<1>2. PICK d \in Docs, t \in Tenants :
        Owners[d] = NoValue /\ Owners' = [Owners EXCEPT ![d] = t]
  BY InsertOwns
<1>3. Found' = Found
  BY <1>1 DEF Found, Searchable, Stored
<1>4. Catalogue!Register(d, t)
  BY <1>1, <1>2, <1>3 DEF Catalogue!Register, Owners, Found
<1>5. QED BY <1>4 DEF Catalogue!Next

(***************************************************************************)
(* A registered document has an owner.                                     *)
(***************************************************************************)
LEMMA RegisteredOwned ==
    ASSUME TypeInv, NEW d \in Docs, documents[d] # NoValue
    PROVE  Owners[d] # NoValue
<1>1. documents[d].tenant \in Tenants
  BY DEF TypeInv, TypeOK, DocumentRows
<1>2. QED BY <1>1, TenantsAssumption DEF Owners

(***************************************************************************)
(* What a run writes to one store makes labels of its own document         *)
(* searchable and takes nothing away from any.                             *)
(***************************************************************************)
LEMMA WritePublishes ==
    ASSUME TypeInv, NEW d \in Docs, documents[d] # NoValue,
           UNCHANGED <<documents, completed>>,
           \A e \in Docs, l \in Labels : Searchable(e, l) => Searchable(e, l)',
           \A e \in Docs, l \in Labels : e # d /\ Searchable(e, l)' => Searchable(e, l)
    PROVE  Catalogue!Next
<1> DEFINE labels == {l \in Labels : Searchable(d, l)'}
<1>1. Owners' = Owners
  BY DEF Owners
<1>2. Found' = [Found EXCEPT ![d] = @ \cup labels]
  BY DEF Found
<1>3. Catalogue!Publish(d, labels)
  BY <1>1, <1>2, RegisteredOwned DEF Catalogue!Publish, Owners, Found
<1>4. labels \in SUBSET Labels
  OBVIOUS
<1>5. QED BY <1>3, <1>4 DEF Catalogue!Next

(***************************************************************************)
(* The merge of the chunk rows and the two index upserts publish.          *)
(***************************************************************************)
LEMMA UpsertPublishes ==
    ASSUME VectorInv, NEW w \in Workers,
           StoreChunks(w) \/ UpsertVectors(w) \/ UpsertLexical(w)
    PROVE  Catalogue!Next
<1> DEFINE d == job[w].doc
<1>1. TypeInv /\ d \in Docs /\ documents[d] # NoValue
  BY DEF VectorInv, StoreInv, RunProgress, Progress, Registered, TypeInv, TypeOK, Jobs,
         StoreChunks, UpsertVectors, UpsertLexical, Advance, At
<1>2. UNCHANGED <<documents, completed>>
  BY DEF StoreChunks, UpsertVectors, UpsertLexical, db
<1>3. CASE StoreChunks(w)
  <2>1. Adds(chunks, chunks', d, job[w].text)
    BY <1>1, <1>3, StoreChunksWrites
  <2>2. UNCHANGED <<points, fts>>
    BY <1>3 DEF StoreChunks, indexes
  <2>3. QED BY <1>1, <1>2, <2>1, <2>2, WritePublishes DEF Adds, Searchable, Stored
<1>4. CASE UpsertVectors(w)
  <2>1. Adds(points, points', d, job[w].text)
    BY <1>1, <1>4, UpsertVectorsWrites
  <2>2. UNCHANGED <<chunks, fts>>
    BY <1>4 DEF UpsertVectors, db
  <2>3. QED BY <1>1, <1>2, <2>1, <2>2, WritePublishes DEF Adds, Searchable, Stored
<1>5. CASE UpsertLexical(w)
  <2>1. Adds(fts, fts', d, job[w].text)
    BY <1>1, <1>5, UpsertLexicalWrites
  <2>2. UNCHANGED <<chunks, points>>
    BY <1>5 DEF UpsertLexical, db
  <2>3. QED BY <1>1, <1>2, <2>1, <2>2, WritePublishes DEF Adds, Searchable, Stored
<1>6. QED BY <1>3, <1>4, <1>5

(***************************************************************************)
(* The last statement of a run finds every chunk of its text in the table  *)
(* and in the lexical index, and changes no store and no owner.            *)
(***************************************************************************)
LEMMA IndexedFinds ==
    ASSUME StoreInv, [Next]_vars, NEW w \in Workers, SetIndexed(w)
    PROVE  /\ job[w].doc \in Docs /\ job[w].text \in Texts
           /\ documents[job[w].doc] # NoValue
           /\ HoldsText(chunks, job[w].doc, job[w].text)
           /\ HoldsText(fts, job[w].doc, job[w].text)
           /\ UNCHANGED <<chunks, points, fts>>
           /\ completed' = completed \cup {<<job[w].doc, job[w].text>>}
           /\ Owners' = Owners
<1>1. TypeInv /\ pc[w] = "set_indexed" /\ job[w] \in Jobs
      /\ job[w].doc \in Docs /\ job[w].text \in Texts
  BY DEF StoreInv, TypeInv, TypeOK, LocalsOK, HasText, Jobs, SetIndexed, At
<1>2. /\ documents[job[w].doc] # NoValue
      /\ HoldsText(chunks, job[w].doc, job[w].text)
      /\ HoldsText(fts, job[w].doc, job[w].text)
  BY <1>1 DEF StoreInv, RunProgress, Progress, Registered, ChunksDone, LexicalDone
<1>3. /\ UNCHANGED <<chunks, points, fts>>
      /\ completed' = completed \cup {<<job[w].doc, job[w].text>>}
  BY DEF SetIndexed, indexes
<1>4. Owners' = Owners
  <2>1. RowsKept
    BY <1>1, StepKeeps
  <2>2. \A e \in Docs : documents'[e] # NoValue => documents[e] # NoValue
    BY <1>1, StatusWritten DEF TypeInv, SetIndexed, Statuses
  <2>3. QED BY <2>1, <2>2 DEF RowsKept, Owners
<1>5. QED BY <1>1, <1>2, <1>3, <1>4

(***************************************************************************)
(* The last statement of a run completes its text: all three stores hold   *)
(* every chunk of it by then.                                              *)
(***************************************************************************)
LEMMA IndexedCompletes ==
    ASSUME VectorInv, [Next]_vars, NEW w \in Workers, SetIndexed(w)
    PROVE  Catalogue!Next
<1> DEFINE d == job[w].doc
           text == job[w].text
<1>1. /\ d \in Docs /\ text \in Texts /\ documents[d] # NoValue
      /\ HoldsText(chunks, d, text) /\ HoldsText(fts, d, text)
      /\ UNCHANGED <<chunks, points, fts>> /\ completed' = completed \cup {<<d, text>>}
      /\ Owners' = Owners
  BY IndexedFinds DEF VectorInv
<1>2. HoldsText(points, d, text)
  BY DEF VectorInv, VectorsDone, SetIndexed, At
<1> HIDE DEF d, text
<1>3. ChunkIds[text] \subseteq Found[d]
  <2>1. ChunkIds[text] \subseteq Labels
    BY <1>1, ConstantsAssumption
  <2>2. QED BY <1>1, <1>2, <2>1 DEF Found, HoldsText, Searchable
<1>4. Found' = Found
  BY <1>1 DEF Found, Searchable, Stored
<1>5. Owners[d] # NoValue
  BY <1>1, RegisteredOwned DEF VectorInv, StoreInv
<1>6. Catalogue!Complete(d, text)
  BY <1>1, <1>3, <1>4, <1>5 DEF Catalogue!Complete, Owners, Found
<1>7. QED BY <1>1, <1>6 DEF Catalogue!Next

(***************************************************************************)
(* Over a collection that exists beforehand, whatever the workers do is    *)
(* one step of the catalogue or none of it: once, for one tenant, and      *)
(* never less than before.                                                 *)
(***************************************************************************)
THEOREM Refinement ==
    ASSUME CollectionReady
    PROVE  Spec => ImplementsCatalogue
<1>1. Init => VectorInv
  BY StoreInit DEF Init, VectorInv, VectorsDone, CompletedRunsStaySearchable
<1>2. Init => Catalogue!Init
  BY DEF Init, Catalogue!Init, Searchable, Stored, NoEntries
<1>3. VectorInv /\ [Next]_vars => [Catalogue!Next]_(Catalogue!vars)
  <2> SUFFICES ASSUME VectorInv, [Next]_vars
               PROVE  Catalogue!Next \/ UNCHANGED Catalogue!vars
    OBVIOUS
  <2>1. TypeInv /\ \A w \in Workers : pc[w] \notin {"drop", "create"}
    BY DEF VectorInv, StoreInv
  <2>2. CASE UNCHANGED vars
    BY <2>1, <2>2, UnseenStutters DEF Unread, Unseen, vars
  <2>3. CASE Unseen
    BY <2>1, <2>3, UnseenStutters
  <2>4. ASSUME NEW w \in Workers, InsertRow(w)
        PROVE  Catalogue!Next
    BY <2>1, <2>4, InsertRegisters
  <2>5. ASSUME NEW w \in Workers, StoreChunks(w) \/ UpsertVectors(w) \/ UpsertLexical(w)
        PROVE  Catalogue!Next
    BY <2>5, UpsertPublishes
  <2>6. ASSUME NEW w \in Workers, SetIndexed(w)
        PROVE  Catalogue!Next
    BY <2>6, IndexedCompletes
  <2>7. \A w \in Workers : ~DropCollection(w)
    BY <2>1 DEF DropCollection, Advance, At
  <2>8. QED BY <2>1, <2>2, <2>3, <2>4, <2>5, <2>6, <2>7, SeenSteps
<1>4. QED BY <1>1, <1>2, <1>3, VectorStep, PTL DEF Spec, ImplementsCatalogue, Catalogue!Spec

-----------------------------------------------------------------------------
\* The refinement for the sparse half of a search, whatever becomes of the
\* collection.

(***************************************************************************)
(* A step it cannot see is a stutter of its catalogue.                     *)
(***************************************************************************)
LEMMA UnreadStutters ==
    ASSUME TypeInv, Unread
    PROVE  UNCHANGED LexicalCatalogue!vars
<1>1. Owners' = Owners
  BY DEF Owners, Unread
<1>2. InText' = InText
  BY DEF InText, Unread, Stored
<1>3. QED BY <1>1, <1>2 DEF LexicalCatalogue!vars, Owners, InText, Unread

(***************************************************************************)
(* Dropping the collection and writing points are such steps.              *)
(***************************************************************************)
LEMMA VectorsUnread ==
    ASSUME NEW w \in Workers, DropCollection(w) \/ UpsertVectors(w)
    PROVE  Unread
<1>1. UNCHANGED <<documents, chunks, fts, completed>>
  BY DEF DropCollection, UpsertVectors, db
<1>2. QED BY <1>1 DEF Unread

(***************************************************************************)
(* The insert registers, here too.                                         *)
(***************************************************************************)
LEMMA InsertRegistersText ==
    ASSUME TypeInv, NEW w \in Workers, InsertRow(w)
    PROVE  LexicalCatalogue!Next
<1>1. UNCHANGED <<chunks, fts, completed>>
  BY InsertOwns
<1>2. PICK d \in Docs, t \in Tenants :
        Owners[d] = NoValue /\ Owners' = [Owners EXCEPT ![d] = t]
  BY InsertOwns
<1>3. InText' = InText
  BY <1>1 DEF InText, Stored
<1>4. LexicalCatalogue!Register(d, t)
  BY <1>1, <1>2, <1>3 DEF LexicalCatalogue!Register, Owners, InText
<1>5. QED BY <1>4 DEF LexicalCatalogue!Next

(***************************************************************************)
(* The merge of the chunk rows and of the lexical rows publish.            *)
(***************************************************************************)
LEMMA MergePublishesText ==
    ASSUME StoreInv, NEW w \in Workers, StoreChunks(w) \/ UpsertLexical(w)
    PROVE  LexicalCatalogue!Next
<1>0. PICK d \in Docs : d = job[w].doc
  BY DEF StoreInv, TypeInv, TypeOK, Jobs, StoreChunks, UpsertLexical, Advance, At
<1> DEFINE labels == {l \in Labels : Stored(chunks, d, l)' /\ Stored(fts, d, l)'}
<1>1. TypeInv /\ documents[d] # NoValue
  BY <1>0 DEF StoreInv, RunProgress, Progress, Registered, TypeInv, TypeOK, Jobs,
         StoreChunks, UpsertLexical, Advance, At
<1>2. UNCHANGED <<documents, completed>>
  BY DEF StoreChunks, UpsertLexical, db
<1>3. \/ Adds(chunks, chunks', d, job[w].text) /\ UNCHANGED fts
      \/ Adds(fts, fts', d, job[w].text) /\ UNCHANGED chunks
  <2>1. CASE StoreChunks(w)
    BY <1>0, <1>1, <2>1, StoreChunksWrites DEF StoreChunks, indexes
  <2>2. CASE UpsertLexical(w)
    BY <1>0, <1>1, <2>2, UpsertLexicalWrites DEF UpsertLexical, db
  <2>3. QED BY <2>1, <2>2
<1>4. Owners' = Owners
  BY <1>2 DEF Owners
<1>5. InText' = [InText EXCEPT ![d] = @ \cup labels]
  <2>1. InText' = [e \in Docs |-> {l \in Labels : Stored(chunks, e, l)' /\ Stored(fts, e, l)'}]
    BY DEF InText
  <2>2. ASSUME NEW e \in Docs
        PROVE  {l \in Labels : Stored(chunks, e, l)' /\ Stored(fts, e, l)'} =
               IF e = d THEN InText[e] \cup labels ELSE InText[e]
    <3>1. \A l \in Labels : Stored(chunks, e, l) /\ Stored(fts, e, l) =>
                            Stored(chunks, e, l)' /\ Stored(fts, e, l)'
      BY <1>3 DEF Adds, Stored
    <3>2. e # d => \A l \in Labels : Stored(chunks, e, l)' /\ Stored(fts, e, l)' =>
                                     Stored(chunks, e, l) /\ Stored(fts, e, l)
      BY <1>3 DEF Adds, Stored
    <3>3. InText[e] = {l \in Labels : Stored(chunks, e, l) /\ Stored(fts, e, l)}
      BY DEF InText
    <3>4. QED BY <3>1, <3>2, <3>3
  <2>3. QED BY <1>1, <2>1, <2>2 DEF InText
<1>6. labels \in SUBSET Labels
  OBVIOUS
<1> HIDE DEF labels
<1>7. LexicalCatalogue!Publish(d, labels)
  BY <1>1, <1>2, <1>4, <1>5, RegisteredOwned DEF LexicalCatalogue!Publish, Owners, InText
<1>8. QED BY <1>1, <1>6, <1>7 DEF LexicalCatalogue!Next

(***************************************************************************)
(* The last statement of a run completes its text here as well, though its *)
(* points may be gone by then.                                             *)
(***************************************************************************)
LEMMA IndexedCompletesText ==
    ASSUME StoreInv, [Next]_vars, NEW w \in Workers, SetIndexed(w)
    PROVE  LexicalCatalogue!Next
<1> DEFINE d == job[w].doc
           text == job[w].text
<1>1. /\ d \in Docs /\ text \in Texts /\ documents[d] # NoValue
      /\ HoldsText(chunks, d, text) /\ HoldsText(fts, d, text)
      /\ UNCHANGED <<chunks, fts>> /\ completed' = completed \cup {<<d, text>>}
      /\ Owners' = Owners
  BY IndexedFinds
<1> HIDE DEF d, text
<1>2. ChunkIds[text] \subseteq InText[d]
  <2>1. ChunkIds[text] \subseteq Labels
    BY <1>1, ConstantsAssumption
  <2>2. QED BY <1>1, <2>1 DEF InText, HoldsText
<1>3. InText' = InText
  BY <1>1 DEF InText, Stored
<1>4. Owners[d] # NoValue
  BY <1>1, RegisteredOwned DEF StoreInv
<1>5. LexicalCatalogue!Complete(d, text)
  BY <1>1, <1>2, <1>3, <1>4 DEF LexicalCatalogue!Complete, Owners, InText
<1>6. QED BY <1>1, <1>5 DEF LexicalCatalogue!Next

(***************************************************************************)
(* Whether or not the collection exists beforehand, and whichever worker   *)
(* drops it when, the sparse half of a search never loses a chunk, and a   *)
(* text is complete only when all of it is there to be found.              *)
(***************************************************************************)
THEOREM LexicalRefinement == Spec => ImplementsLexicalCatalogue
<1>1. Init => LexicalCatalogue!Init
  BY DEF Init, LexicalCatalogue!Init, Stored, NoEntries
<1>2. StoreInv /\ [Next]_vars => [LexicalCatalogue!Next]_(LexicalCatalogue!vars)
  <2> SUFFICES ASSUME StoreInv, [Next]_vars
               PROVE  LexicalCatalogue!Next \/ UNCHANGED LexicalCatalogue!vars
    OBVIOUS
  <2>1. TypeInv
    BY DEF StoreInv
  <2>2. CASE Unread
    BY <2>1, <2>2, UnreadStutters
  <2>3. CASE UNCHANGED vars
    <3>1. Unread
      BY <2>3 DEF Unread, vars
    <3>2. QED BY <2>2, <3>1
  <2>4. ASSUME NEW w \in Workers, DropCollection(w) \/ UpsertVectors(w)
        PROVE  Unread
    BY <2>4, VectorsUnread
  <2>5. ASSUME NEW w \in Workers, InsertRow(w)
        PROVE  LexicalCatalogue!Next
    BY <2>1, <2>5, InsertRegistersText
  <2>6. ASSUME NEW w \in Workers, StoreChunks(w) \/ UpsertLexical(w)
        PROVE  LexicalCatalogue!Next
    BY <2>6, MergePublishesText
  <2>7. ASSUME NEW w \in Workers, SetIndexed(w)
        PROVE  LexicalCatalogue!Next
    BY <2>7, IndexedCompletesText
  <2>8. CASE Next
    <3>1. Unseen => Unread
      BY DEF Unseen
    <3>2. QED BY <2>1, <2>2, <2>4, <2>5, <2>6, <2>7, <2>8, <3>1, SeenSteps
  <2>9. QED BY <2>3, <2>8
<1>3. QED
  BY <1>1, <1>2, StoreInit, StoreStep, PTL
     DEF Spec, ImplementsLexicalCatalogue, LexicalCatalogue!Spec
=============================================================================
