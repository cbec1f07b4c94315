---------------------------- MODULE BatchIngest ----------------------------
(***************************************************************************)
(* scripts/batch_ingest.py and "lapua-rag ingest-dir": one process that    *)
(* ingests the PDFs of a tree one after the other, keeps a log and ends    *)
(* with an exit code.  Of ingest (module IngestPipeline) the row's status  *)
(* and the chunks are left here; the extraction is step by step.  A batch  *)
(* may be killed at any time and run again over another tree.              *)
(***************************************************************************)
EXTENDS Extraction

CONSTANTS
    Docs,               \* doc_ids; a tree may hold a PDF twice
    Trees,              \* the PDFs of each tree, as docs in path order
    Readings,           \* what OCR gives of a PDF: pages and keyword hits
    MaxRuns             \* bound: batches

ASSUME BatchAssumption ==
    /\ Trees \subseteq Seq(Docs)
    /\ MaxRuns \in Nat

VARIABLES
    documents,          \* documents table: NoValue, "registered" or "indexed"
    structured,         \* structured.json of each document, or NoValue
    batch,              \* the batch and its locals, or NoValue
    log,                \* lines of the JSONL file
    exit,               \* exit code of the last batch, or NoValue
    runs                \* bound: batches so far

results == <<log, exit>>
vars == <<settings, extraction, documents, structured, batch, log, exit, runs>>

Settings == [command : {"script", "ingest-dir"}, remote : BOOLEAN,
             skipExtract : BOOLEAN, expireOnCommit : BOOLEAN]

Stages == {"build", "lookup", "process", "extract", "index", "log", "end",
           "over", "killed"}

\* opened: the script has opened its log.
Batches == [stage : Stages, pdfs : Seq(Docs), opened : BOOLEAN, index : Nat,
            indexed : Nat, failed : Nat, skipped : Nat,
            status : {"indexed", "failed", NoValue}]

ASSUME NoValueAssumption ==
    /\ NoValue \notin Batches \cup Structures \cup Extractions
    /\ NoValue \notin {0, 1, 2}
    /\ NoValue \notin {"registered", "indexed", "failed"}

ASSUME ReadingsAssumption == \A reading \in Readings : reading.pages \in ReadPages

Init ==
    /\ settings \in Settings
    /\ extraction = NoValue
    /\ documents = [d \in Docs |-> NoValue]
    /\ structured = [d \in Docs |-> NoValue]
    /\ batch = NoValue
    /\ log = <<>>
    /\ exit = NoValue
    /\ runs = 0

-----------------------------------------------------------------------------
Running == batch # NoValue /\ batch.stage \notin {"over", "killed"}

In(stage) == batch # NoValue /\ batch.stage = stage

Doc == batch.pdfs[batch.index]

GoTo(stage) == batch' = [batch EXCEPT !.stage = stage]

NewBatch(pdfs, stage) ==
    batch' = [stage |-> stage, pdfs |-> pdfs, opened |-> FALSE, index |-> 1,
              indexed |-> 0, failed |-> 0, skipped |-> 0, status |-> NoValue]

StartBatch ==
    /\ ~Running
    /\ runs < MaxRuns
    /\ runs' = runs + 1
    /\ UNCHANGED <<settings, extraction, documents, structured, log>>

\* main: a root that does not exist.
MissingRoot ==
    /\ StartBatch
    /\ settings.command = "script"
    /\ NewBatch(<<>>, "over")
    /\ exit' = 2

\* run_batch returns before it builds the pipeline and opens the log: an older
\* one stays.
NoPdfs ==
    /\ StartBatch
    /\ settings.command = "script"
    /\ <<>> \in Trees
    /\ NewBatch(<<>>, "over")
    /\ exit' = 0

\* The PDFs are listed; ingest-dir may find none, or no folder.
BeginBatch(pdfs) ==
    /\ StartBatch
    /\ settings.command = "script" => pdfs # <<>>
    /\ NewBatch(pdfs, "build")
    /\ exit' = NoValue

\* build_default raises, or the open: a traceback, and the log as it was.
BuildRaises ==
    /\ In("build")
    /\ GoTo("over")
    /\ exit' = 1
    /\ UNCHANGED <<settings, extraction, documents, structured, log, runs>>

\* Mutant: the log is opened for appending.
OpenedToAppend == log

\* open("w").
Opened == IF settings.command = "script" THEN <<>> ELSE log

OpenLog ==
    /\ In("build")
    /\ batch' = [batch EXCEPT !.stage = IF batch.pdfs = <<>> THEN "end" ELSE "lookup",
                              !.opened = settings.command = "script"]
    /\ log' = Opened
    /\ UNCHANGED <<settings, extraction, documents, structured, exit, runs>>

-----------------------------------------------------------------------------
\* One PDF.

\* _lookup: with Session's default the row of a known document cannot be read.
Readable == documents[Doc] = NoValue \/ ~settings.expireOnCommit

\* An indexed document is returned as indexed, not as skipped.
AlreadyIndexed ==
    /\ In("lookup")
    /\ documents[Doc] = "indexed"
    /\ Readable
    /\ batch' = [batch EXCEPT !.stage = "log", !.status = "indexed"]
    /\ UNCHANGED <<settings, extraction, documents, structured, results, runs>>

Register ==
    /\ In("lookup")
    /\ documents[Doc] # "indexed"
    /\ Readable
    /\ documents' = [documents EXCEPT ![Doc] = "registered"]
    /\ GoTo("process")
    /\ UNCHANGED <<settings, extraction, structured, results, runs>>

\* Consolidation and chunking of what OCR gave.
DocumentChunks == [reading \in Readings |->
    ChunkDocument(Consolidated(reading.pages), DetectDocType(reading.hits))]

\* OCR, consolidation, chunking and indexing.
Process(reading) ==
    /\ In("process")
    /\ IF settings.skipExtract
       THEN GoTo("index") /\ UNCHANGED extraction
       ELSE /\ GoTo("extract")
            /\ BeginExtraction(DocumentChunks[reading])
    /\ UNCHANGED <<settings, documents, structured, results, runs>>

ExtractChunk ==
    /\ In("extract")
    /\ Extract
    /\ UNCHANGED <<settings, documents, structured, batch, results, runs>>

\* structured.json.
WriteStructure ==
    /\ In("extract")
    /\ Extracted
    /\ structured' = [structured EXCEPT ![Doc] =
           [chunks |-> extraction.chunks, decisions |-> extraction.decisions,
            misread |-> extraction.misread,
            unanswered |-> extraction.unanswered]]
    /\ extraction' = NoValue
    /\ GoTo("index")
    /\ UNCHANGED <<settings, documents, results, runs>>

SetIndexed ==
    /\ In("index")
    /\ documents' = [documents EXCEPT ![Doc] = "indexed"]
    /\ batch' = [batch EXCEPT !.stage = "log", !.status = "indexed"]
    /\ UNCHANGED <<settings, extraction, structured, results, runs>>

\* Mutant: the PDF is taken up again.
FailedAgain == [batch EXCEPT !.stage = "lookup"]

Failed == [batch EXCEPT !.stage = "log", !.status = "failed"]

\* Any step of ingest raises: always on a row it cannot read, and on an LLM
\* that does not answer.  The row stays as it is;
\* the script counts a failure, ingest-dir ends there.
IngestRaises ==
    /\ \/ In("lookup") \/ In("process") \/ In("index")
       \/ In("extract") /\ (Extracted \/ \E trouble \in Troubles : Raises(trouble))
    /\ extraction' = NoValue
    /\ IF settings.command = "script"
       THEN batch' = Failed /\ UNCHANGED exit
       ELSE GoTo("over") /\ exit' = 1
    /\ UNCHANGED <<settings, documents, structured, log, runs>>

-----------------------------------------------------------------------------
\* The batch around it.

LogLine == [doc |-> IF batch.status = "failed" THEN NoValue ELSE Doc,
            status |-> batch.status]

\* Mutant: a failure is none of the counted ones.
FailedIsSkipped(counts) ==
    IF counts.status = "indexed" THEN [counts EXCEPT !.indexed = @ + 1]
    ELSE [counts EXCEPT !.skipped = @ + 1]

Count(counts) ==
    IF counts.status = "indexed" THEN [counts EXCEPT !.indexed = @ + 1]
    ELSE IF counts.status = "failed" THEN [counts EXCEPT !.failed = @ + 1]
    ELSE [counts EXCEPT !.skipped = @ + 1]

\* The counters, the line and its flush; ingest-dir has the loop only.
LogItem ==
    /\ In("log")
    /\ batch' = [Count(batch) EXCEPT
                    !.index = @ + 1, !.status = NoValue,
                    !.stage = IF batch.index = Len(batch.pdfs) THEN "end" ELSE "lookup"]
    /\ log' = IF settings.command = "script" THEN Append(log, LogLine) ELSE log
    /\ UNCHANGED <<settings, extraction, documents, structured, exit, runs>>

EndBatch ==
    /\ In("end")
    /\ exit' = IF batch.failed = 0 THEN 0 ELSE 1
    /\ GoTo("over")
    /\ UNCHANGED <<settings, extraction, documents, structured, log, runs>>

Kill ==
    /\ Running
    /\ GoTo("killed")
    /\ extraction' = NoValue
    /\ UNCHANGED <<settings, documents, structured, results, runs>>

Work ==
    \/ BuildRaises \/ OpenLog \/ AlreadyIndexed \/ Register
    \/ ExtractChunk \/ WriteStructure \/ SetIndexed
    \/ \E reading \in Readings : Process(reading)
    \/ IngestRaises \/ LogItem \/ EndBatch

Next == \/ MissingRoot \/ NoPdfs \/ \E pdfs \in Trees : BeginBatch(pdfs)
        \/ Work \/ Kill

Spec == Init /\ [][Next]_vars

\* The batch is one thread; OCR ends, and a call to the LLM ends by its
\* timeout at the latest.
FairSpec == Spec /\ WF_vars(Work)

-----------------------------------------------------------------------------
\* Properties.

TypeOK ==
    /\ settings \in Settings
    /\ ExtractionTypeOK
    /\ documents \in [Docs -> {"registered", "indexed", NoValue}]
    /\ structured \in [Docs -> Structures \cup {NoValue}]
    /\ batch \in Batches \cup {NoValue}
    /\ log \in Seq([doc : Docs \cup {NoValue}, status : {"indexed", "failed"}])
    /\ exit \in {0, 1, 2, NoValue}
    /\ runs \in 0..MaxRuns
    /\ In("extract") <=> extraction # NoValue
    /\ Running => batch.index <= Len(batch.pdfs) \/ batch.stage \in {"build", "end"}

(***************************************************************************)
(* batch_ingest.py:208 and the CLI: a batch that exits with 0 leaves every *)
(* PDF of its tree indexed, also when the tree holds a PDF twice, earlier  *)
(* batches were killed or the LLM did not answer.                          *)
(***************************************************************************)
ExitZeroMeansIndexed ==
    exit = 0 => \A i \in DOMAIN batch.pdfs : documents[batch.pdfs[i]] = "indexed"

(***************************************************************************)
(* Once opened the log is of this batch alone, a line per PDF in their     *)
(* order up to the one at work; it agrees with the counters, and what it   *)
(* calls indexed is.  It is whole when the batch is over, and usable when  *)
(* it was killed.                                                          *)
(***************************************************************************)
LogIsTrue ==
    batch # NoValue /\ batch.opened =>
      /\ Len(log) = batch.index - 1
      /\ batch.indexed = Cardinality({i \in DOMAIN log : log[i].status = "indexed"})
      /\ batch.indexed + batch.failed = Len(log)
      /\ \A i \in DOMAIN log : log[i].status = "indexed" =>
           log[i].doc = batch.pdfs[i] /\ documents[batch.pdfs[i]] = "indexed"
      /\ batch.stage = "over" => Len(log) = Len(batch.pdfs)

(***************************************************************************)
(* The decisions of a structured.json are in the order of the document, at *)
(* most one of a chunk and each of a chunk that is a section's.            *)
(***************************************************************************)
DecisionsFollowSections ==
    \A d \in Docs : structured[d] # NoValue =>
      LET s == structured[d] IN
      /\ \A i \in DOMAIN s.decisions : s.chunks[s.decisions[i]].section # 0
      /\ \A i, j \in DOMAIN s.decisions : i < j => s.decisions[i] < s.decisions[j]

(***************************************************************************)
(* A structured.json misses the decision of a section only where the model *)
(* answered with something that is none, or, of the local client alone,    *)
(* where it raised a ValueError (extract/pipeline.py:41, also of its       *)
(* loading).  Whatever else comes in between, a call that is out after its *)
(* repeats (llm.py:198) too, fails the document and leaves it unindexed.   *)
(***************************************************************************)
OnlyValueErrorsLoseDecisions ==
    \A d \in Docs :
      /\ documents[d] = "indexed" /\ ~settings.skipExtract => structured[d] # NoValue
      /\ structured[d] # NoValue =>
           LET s == structured[d] IN
           /\ settings.remote => s.unanswered = {}
           /\ \A k \in DOMAIN s.chunks : s.chunks[k].section # 0 =>
                \/ k \in s.misread \cup s.unanswered
                \/ \E i \in DOMAIN s.decisions : s.decisions[i] = k

(***************************************************************************)
(* A batch ends: the repeated calls to an LLM that is down are bounded.    *)
(***************************************************************************)
BatchEnds == Running ~> ~Running
=============================================================================
