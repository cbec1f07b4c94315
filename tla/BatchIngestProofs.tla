-------------------------- MODULE BatchIngestProofs --------------------------
(***************************************************************************)
(* Proofs about BatchIngest, for any trees, readings, settings and number  *)
(* of batches: what the exit code and the log say of the documents, and    *)
(* what a structured.json holds of the sections.                           *)
(***************************************************************************)
EXTENDS BatchIngest, ChunkingProofs

-----------------------------------------------------------------------------
\* The extraction of one document.

(***************************************************************************)
(* Every section behind the place of the loop is decided, was misread or   *)
(* got no answer, and what is decided is in order.                         *)
(***************************************************************************)
Settled(s, next) ==
    /\ \A k \in DOMAIN s.chunks :
         s.chunks[k].section # 0 /\ k < next =>
           k \in s.misread \cup s.unanswered \/ \E i \in DOMAIN s.decisions : s.decisions[i] = k
    /\ \A i \in DOMAIN s.decisions :
         s.decisions[i] < next /\ s.chunks[s.decisions[i]].section # 0
    /\ \A i, j \in DOMAIN s.decisions : i < j => s.decisions[i] < s.decisions[j]

ExtractionHeld ==
    /\ ExtractionTypeOK
    /\ extraction # NoValue =>
         /\ extraction \in Extractions /\ Settled(extraction, extraction.next)
         /\ settings.remote => extraction.unanswered = {}

LEMMA Appended ==
    ASSUME NEW S, NEW s \in Seq(S), NEW v \in S
    PROVE  /\ Append(s, v) \in Seq(S)
           /\ Len(s) \in Nat /\ DOMAIN s = 1..Len(s) /\ Len(Append(s, v)) = Len(s) + 1
           /\ DOMAIN Append(s, v) = 1..(Len(s) + 1)
           /\ Append(s, v)[Len(s) + 1] = v
           /\ \A i \in 1..Len(s) : Append(s, v)[i] = s[i] /\ s[i] \in S
OBVIOUS

LEMMA Numbers ==
    ASSUME NEW n \in Nat, NEW s \in Seq(1..n)
    PROVE  s \in Seq(Nat) /\ \A i \in DOMAIN s : s[i] \in 1..n
OBVIOUS

LEMMA BeginHolds ==
    ASSUME NEW chunks \in Seq(Chunks), BeginExtraction(chunks)
    PROVE  extraction' # NoValue /\ ExtractionHeld'
<1> DEFINE x == [chunks |-> chunks, next |-> 1, attempts |-> 0,
                 decisions |-> <<>>, misread |-> {}, unanswered |-> {}]
<1>1. x \in Extractions /\ x # NoValue
  <2>1. <<>> \in Seq(Nat) /\ {} \in SUBSET Nat
    OBVIOUS
  <2>2. x \in Extractions
    BY <2>1 DEF Extractions
  <2>3. QED BY <2>2, NoValueAssumption
<1>2. extraction' = x
  BY DEF BeginExtraction
<1>3. /\ x.chunks \in Seq(Chunks)
      /\ x.next \in 1..(Len(x.chunks) + 1)
      /\ x.attempts \in 0..(MaxAttempts - 1)
      /\ x.decisions \in Seq(1..Len(x.chunks))
      /\ x.misread \subseteq 1..Len(x.chunks) /\ x.unanswered = {}
  BY AttemptsAssumption
<1>4. Settled(x, x.next)
  BY DEF Settled
<1> HIDE DEF x
<1>5. QED BY <1>1, <1>2, <1>3, <1>4 DEF ExtractionHeld, ExtractionTypeOK

(***************************************************************************)
(* On to the next chunk: with its decision, or without one where it needs  *)
(* none, was misread or, with the local client, got no answer.             *)
(***************************************************************************)
LEMMA SettleHolds ==
    ASSUME ExtractionHeld, Extracting, NEW decisions, NEW misread, NEW unanswered,
           Settle(decisions, misread, unanswered), settings' = settings,
           settings.remote => unanswered = extraction.unanswered,
           \/ /\ decisions = Append(extraction.decisions, extraction.next)
              /\ misread = extraction.misread /\ unanswered = extraction.unanswered
              /\ Extractable(extraction.chunks[extraction.next])
           \/ /\ decisions = extraction.decisions
              /\ extraction.misread \subseteq misread
              /\ extraction.unanswered \subseteq unanswered
              /\ misread \cup unanswered \subseteq
                    extraction.misread \cup extraction.unanswered \cup {extraction.next}
              /\ \/ ~Extractable(extraction.chunks[extraction.next])
                 \/ extraction.next \in misread \cup unanswered
    PROVE  extraction' # NoValue /\ ExtractionHeld'
<1> DEFINE e == extraction
           n == Len(extraction.chunks)
           x == [extraction EXCEPT !.next = @ + 1, !.attempts = 0,
                                   !.decisions = decisions, !.misread = misread,
                                   !.unanswered = unanswered]
<1>1. /\ e # NoValue /\ e \in Extractions /\ e.chunks \in Seq(Chunks)
      /\ e.next \in 1..n /\ n \in Nat /\ DOMAIN e.chunks = 1..n
      /\ e.decisions \in Seq(1..n) /\ e.misread \subseteq 1..n /\ e.unanswered \subseteq 1..n
  BY DEF ExtractionHeld, ExtractionTypeOK, Extracting
<1>2. /\ \A k \in 1..n : e.chunks[k].section # 0 /\ k < e.next =>
             k \in e.misread \cup e.unanswered \/ \E i \in DOMAIN e.decisions : e.decisions[i] = k
      /\ \A i \in DOMAIN e.decisions :
           e.decisions[i] < e.next /\ e.chunks[e.decisions[i]].section # 0
      /\ \A i, j \in DOMAIN e.decisions : i < j => e.decisions[i] < e.decisions[j]
  BY <1>1 DEF ExtractionHeld, Settled
<1>3. /\ decisions \in Seq(1..n) /\ decisions \in Seq(Nat)
      /\ misread \subseteq 1..n /\ misread \in SUBSET Nat
      /\ unanswered \subseteq 1..n /\ unanswered \in SUBSET Nat
  <2>1. Append(e.decisions, e.next) \in Seq(1..n)
    BY <1>1, Appended
  <2>2. decisions \in Seq(1..n)
    BY <1>1, <2>1
  <2>3. misread \subseteq 1..n /\ unanswered \subseteq 1..n
    BY <1>1
  <2>4. 1..n \subseteq Nat
    BY <1>1
  <2>5. QED BY <1>1, <2>2, <2>3, <2>4, Numbers
<1>4. /\ x \in Extractions /\ x.chunks = e.chunks /\ x.next = e.next + 1
      /\ x.attempts = 0 /\ x.decisions = decisions /\ x.misread = misread
      /\ x.unanswered = unanswered
  <2>1. e.next + 1 \in Nat /\ 0 \in Nat
    BY <1>1
  <2>2. QED BY <1>1, <1>3, <2>1 DEF Extractions
<1>5. x # NoValue /\ extraction' = x
  BY <1>4, NoValueAssumption DEF Settle
<1> HIDE DEF x
<1>6. /\ x.next \in 1..(n + 1) /\ x.attempts \in 0..(MaxAttempts - 1)
  BY <1>1, <1>4, AttemptsAssumption
<1>7. \A k \in 1..n : e.chunks[k].section # 0 /\ k < e.next + 1 =>
         k \in misread \cup unanswered \/ \E i \in DOMAIN decisions : decisions[i] = k
  <2> SUFFICES ASSUME NEW k \in 1..n, e.chunks[k].section # 0, k < e.next + 1
               PROVE  k \in misread \cup unanswered \/ \E i \in DOMAIN decisions : decisions[i] = k
    OBVIOUS
  <2>1. CASE k = e.next
    <3>1. CASE decisions = Append(e.decisions, e.next)
      <4>1. /\ Len(e.decisions) + 1 \in DOMAIN decisions
            /\ decisions[Len(e.decisions) + 1] = e.next
        BY <1>1, <3>1
      <4>2. QED BY <2>1, <4>1
    <3>2. CASE e.next \in misread \cup unanswered
      BY <2>1, <3>2
    <3>3. Extractable(e.chunks[e.next])
      BY <2>1 DEF Extractable
    <3>4. QED BY <3>1, <3>2, <3>3
  <2>2. CASE k # e.next
    <3>1. k < e.next
      BY <1>1, <2>2
    <3>2. k \in e.misread \cup e.unanswered \/ \E i \in DOMAIN e.decisions : e.decisions[i] = k
      BY <1>2, <3>1
    <3>3. \A i \in DOMAIN e.decisions : i \in DOMAIN decisions /\ decisions[i] = e.decisions[i]
      <4>1. CASE decisions = e.decisions
        BY <4>1
      <4>2. CASE decisions = Append(e.decisions, e.next)
        <5>1. e.decisions \in Seq(1..n) /\ e.next \in 1..n
          BY <1>1
        <5>2. /\ DOMAIN e.decisions = 1..Len(e.decisions) /\ Len(e.decisions) \in Nat
              /\ DOMAIN Append(e.decisions, e.next) = 1..(Len(e.decisions) + 1)
              /\ \A i \in 1..Len(e.decisions) : Append(e.decisions, e.next)[i] = e.decisions[i]
          BY <5>1, Appended
        <5>3. QED BY <4>2, <5>2
      <4>3. QED BY <4>1, <4>2
    <3>4. e.misread \cup e.unanswered \subseteq misread \cup unanswered
      OBVIOUS
    <3>5. QED BY <3>2, <3>3, <3>4
  <2>3. QED BY <2>1, <2>2
<1>8. /\ \A i \in DOMAIN decisions :
           decisions[i] < e.next + 1 /\ e.chunks[decisions[i]].section # 0
      /\ \A i, j \in DOMAIN decisions : i < j => decisions[i] < decisions[j]
  <2>1. CASE decisions = e.decisions
    <3>1. \A i \in DOMAIN e.decisions : e.decisions[i] \in Nat
      BY <1>1
    <3>2. QED BY <1>1, <1>2, <2>1, <3>1
  <2>2. CASE /\ decisions = Append(e.decisions, e.next)
             /\ Extractable(e.chunks[e.next])
    <3> DEFINE m == Len(e.decisions)
    <3>1. /\ m \in Nat /\ DOMAIN e.decisions = 1..m /\ DOMAIN decisions = 1..(m + 1)
          /\ decisions[m + 1] = e.next
          /\ \A i \in 1..m : decisions[i] = e.decisions[i] /\ e.decisions[i] \in 1..n
      BY <1>1, <2>2, Appended
    <3> HIDE DEF m
    <3>2. e.chunks[e.next].section # 0
      BY <2>2 DEF Extractable
    <3>3. \A i \in 1..(m + 1) : i = m + 1 \/ i \in 1..m
      BY <3>1
    <3>4. ASSUME NEW i \in 1..(m + 1)
          PROVE  decisions[i] < e.next + 1 /\ e.chunks[decisions[i]].section # 0
      <4>1. CASE i = m + 1
        BY <1>1, <3>1, <3>2, <4>1
      <4>2. CASE i \in 1..m
        <5>1. decisions[i] = e.decisions[i] /\ decisions[i] \in 1..n
          BY <3>1, <4>2
        <5>2. e.decisions[i] < e.next /\ e.chunks[e.decisions[i]].section # 0
          BY <1>2, <3>1, <4>2
        <5>3. decisions[i] < e.next + 1
          BY <1>1, <5>1, <5>2
        <5>4. QED BY <5>1, <5>2, <5>3
      <4>3. QED BY <3>3, <4>1, <4>2
    <3>5. ASSUME NEW i \in 1..(m + 1), NEW j \in 1..(m + 1), i < j
          PROVE  decisions[i] < decisions[j]
      <4>1. i \in 1..m
        BY <3>1, <3>5
      <4>2. CASE j = m + 1
        BY <1>1, <1>2, <3>1, <4>1, <4>2
      <4>3. CASE j \in 1..m
        BY <1>1, <1>2, <3>1, <3>5, <4>1, <4>3
      <4>4. QED BY <3>3, <4>2, <4>3
    <3>6. QED BY <3>1, <3>4, <3>5
  <2>3. QED BY <2>1, <2>2
<1>9. Settled(x, x.next)
  BY <1>1, <1>4, <1>7, <1>8 DEF Settled
<1>10. settings'.remote => x.unanswered = {}
  BY <1>1, <1>4 DEF ExtractionHeld
<1>11. QED BY <1>1, <1>3, <1>4, <1>5, <1>6, <1>9, <1>10 DEF ExtractionHeld, ExtractionTypeOK

LEMMA RepeatHolds ==
    ASSUME ExtractionHeld, NEW trouble, Repeat(trouble), settings' = settings
    PROVE  extraction' # NoValue /\ ExtractionHeld'
<1> DEFINE e == extraction
           x == [extraction EXCEPT !.attempts = @ + 1]
<1>1. /\ e # NoValue /\ e \in Extractions /\ e.chunks \in Seq(Chunks)
      /\ e.attempts \in 0..(MaxAttempts - 1) /\ Settled(e, e.next)
      /\ e.attempts + 1 # MaxAttempts
  BY DEF Repeat, Asking, Extracting, LastAttempt, ExtractionHeld, ExtractionTypeOK
<1>2. /\ x \in Extractions /\ x.chunks = e.chunks /\ x.next = e.next
      /\ x.attempts = e.attempts + 1 /\ x.decisions = e.decisions /\ x.misread = e.misread
      /\ x.unanswered = e.unanswered
  <2>1. e.attempts + 1 \in Nat
    BY <1>1, AttemptsAssumption
  <2>2. QED BY <1>1, <2>1 DEF Extractions
<1>3. x # NoValue /\ extraction' = x
  BY <1>2, NoValueAssumption DEF Repeat
<1> HIDE DEF x
<1>4. x.attempts \in 0..(MaxAttempts - 1)
  BY <1>1, <1>2, AttemptsAssumption
<1>5. Settled(x, x.next)
  BY <1>1, <1>2 DEF Settled
<1>6. QED BY <1>1, <1>2, <1>3, <1>4, <1>5 DEF ExtractionHeld, ExtractionTypeOK

(***************************************************************************)
(* No call that goes without an answer settles its chunk, save the local   *)
(* client's ValueErrors.                                                   *)
(***************************************************************************)
LEMMA ExtractHolds ==
    ASSUME ExtractionHeld, Extract, settings' = settings
    PROVE  extraction' # NoValue /\ ExtractionHeld'
<1>1. CASE SkipChunk
  BY <1>1, SettleHolds DEF SkipChunk
<1>2. CASE Decide
  BY <1>2, SettleHolds DEF Decide, Asking
<1>3. ASSUME NEW trouble \in Troubles, LeaveOut(trouble)
      PROVE  extraction' # NoValue /\ ExtractionHeld'
  <2>1. PICK misread, unanswered :
           /\ misread = extraction.misread \cup
                {k \in {extraction.next} : trouble \in {"not_json", "not_valid"}}
           /\ unanswered = extraction.unanswered \cup
                {k \in {extraction.next} : trouble = "value_error"}
    OBVIOUS
  <2>2. Settle(extraction.decisions, misread, unanswered) /\ Extracting
    BY <1>3, <2>1 DEF LeaveOut, Asking
  <2>3. /\ trouble \in {"value_error", "not_json", "not_valid"}
        /\ settings.remote => trouble = "not_valid"
    BY <1>3 DEF LeaveOut, Caught
  <2>4. /\ extraction.next \in misread \cup unanswered
        /\ settings.remote => unanswered = extraction.unanswered
        /\ extraction.misread \subseteq misread
        /\ extraction.unanswered \subseteq unanswered
        /\ misread \cup unanswered \subseteq
              extraction.misread \cup extraction.unanswered \cup {extraction.next}
    BY <2>1, <2>3
  <2>5. QED BY <2>2, <2>4, SettleHolds
<1>4. ASSUME NEW trouble \in Troubles, Repeat(trouble)
      PROVE  extraction' # NoValue /\ ExtractionHeld'
  BY <1>4, RepeatHolds
<1>5. QED BY <1>1, <1>2, <1>3, <1>4 DEF Extract

-----------------------------------------------------------------------------
\* The batch, its log and its exit code.

Documents == [Docs -> {"registered", "indexed", NoValue}]
LogLines == [doc : Docs \cup {NoValue}, status : {"indexed", "failed"}]

(***************************************************************************)
(* The PDF at work, the one in "log" with its status, the place before the *)
(* first one and that after the last, and whether there is a log.          *)
(***************************************************************************)
PlaceHeld == batch # NoValue =>
    /\ batch.index # 0
    /\ Running => /\ exit = NoValue
                  /\ batch.index <= Len(batch.pdfs) \/ batch.stage \in {"build", "end"}
    /\ In("build") => /\ ~batch.opened
                      /\ batch.index = 1 /\ batch.failed = 0 /\ batch.indexed = 0
    /\ batch.opened => settings.command = "script"
    /\ In("log") => /\ batch.status # NoValue
                    /\ batch.status = "indexed" => documents[Doc] = "indexed"
    /\ In("end") => batch.index = Len(batch.pdfs) + 1

(***************************************************************************)
(* Without a failure so far, every PDF so far is indexed.                  *)
(***************************************************************************)
SoFarHeld == batch # NoValue /\ batch.failed = 0 =>
    \A i \in DOMAIN batch.pdfs : i < batch.index => documents[batch.pdfs[i]] = "indexed"

BatchHeld ==
    /\ settings \in Settings
    /\ documents \in Documents
    /\ batch \in Batches \cup {NoValue}
    /\ log \in Seq(LogLines)
    /\ exit \in {0, 1, 2, NoValue}
    /\ exit = 0 => batch # NoValue
    /\ PlaceHeld /\ SoFarHeld /\ LogIsTrue /\ ExitZeroMeansIndexed

(***************************************************************************)
(* A step within the work on one PDF.                                      *)
(***************************************************************************)
Moved(stage, status) ==
    /\ batch' \in Batches
    /\ batch'.stage = stage /\ batch'.status = status
    /\ batch'.pdfs = batch.pdfs /\ batch'.index = batch.index
    /\ batch'.indexed = batch.indexed /\ batch'.failed = batch.failed
    /\ batch'.skipped = batch.skipped /\ batch'.opened = batch.opened

DocumentsGrow ==
    /\ documents' \in Documents
    /\ \A d \in Docs : documents[d] = "indexed" => documents'[d] = "indexed"

LEMMA GoToMoves ==
    ASSUME batch \in Batches, NEW stage \in Stages, GoTo(stage)
    PROVE  Moved(stage, batch.status)
BY DEF GoTo, Moved, Batches

LEMMA LoggedMoves ==
    ASSUME batch \in Batches, NEW status \in {"indexed", "failed"},
           batch' = [batch EXCEPT !.stage = "log", !.status = status]
    PROVE  Moved("log", status)
BY DEF Moved, Batches, Stages

LEMMA SameDocuments ==
    ASSUME documents \in Documents, documents' = documents
    PROVE  DocumentsGrow
BY DEF DocumentsGrow

LEMMA TreeDocs ==
    ASSUME NEW b \in Batches, NEW i \in DOMAIN b.pdfs
    PROVE  b.pdfs[i] \in Docs /\ i \in Nat /\ Len(b.pdfs) \in Nat /\ i <= Len(b.pdfs)
BY DEF Batches

LEMMA MovedHolds ==
    ASSUME BatchHeld, Running, NEW stage \in Stages \ {"build", "end"}, NEW status,
           Moved(stage, status), DocumentsGrow, log' = log, settings' = settings,
           exit' \in {0, 1, 2, NoValue},
           stage # "over" => exit' = NoValue,
           stage = "over" => /\ exit' = 0 => batch.failed = 0 /\ In("end")
                             /\ batch.opened => In("end"),
           stage \notin {"over", "killed"} => batch.index <= Len(batch.pdfs),
           stage = "log" => /\ status # NoValue
                            /\ status = "indexed" => documents'[Doc] = "indexed"
    PROVE  BatchHeld'
<1>1. batch # NoValue /\ batch \in Batches /\ batch' # NoValue
  BY NoValueAssumption DEF BatchHeld, Running, Moved
<1>2. PlaceHeld'
  <2>1. batch'.index # 0
    BY <1>1 DEF BatchHeld, PlaceHeld, Moved
  <2>2. Doc' = Doc
    BY DEF Doc, Moved
  <2>3. batch'.opened => settings'.command = "script"
    BY <1>1 DEF BatchHeld, PlaceHeld, Moved
  <2>4. QED BY <1>1, <2>1, <2>2, <2>3 DEF PlaceHeld, Moved, Running, In
<1>3. SoFarHeld'
  <2> SUFFICES ASSUME batch.failed = 0, NEW i \in DOMAIN batch.pdfs, i < batch.index
               PROVE  documents'[batch.pdfs[i]] = "indexed"
    BY DEF SoFarHeld, Moved
  <2>1. documents[batch.pdfs[i]] = "indexed"
    BY <1>1 DEF BatchHeld, SoFarHeld
  <2>2. QED BY <1>1, <2>1, TreeDocs DEF DocumentsGrow
<1>4. LogIsTrue'
  <2> SUFFICES ASSUME batch.opened
               PROVE  /\ Len(log) = batch.index - 1
                      /\ batch.indexed = Cardinality({i \in DOMAIN log : log[i].status = "indexed"})
                      /\ batch.indexed + batch.failed = Len(log)
                      /\ \A i \in DOMAIN log : log[i].status = "indexed" =>
                           log[i].doc = batch.pdfs[i] /\ documents'[batch.pdfs[i]] = "indexed"
                      /\ stage = "over" => Len(log) = Len(batch.pdfs)
    BY DEF LogIsTrue, Moved
  <2>1. /\ Len(log) = batch.index - 1
        /\ batch.indexed = Cardinality({i \in DOMAIN log : log[i].status = "indexed"})
        /\ batch.indexed + batch.failed = Len(log)
        /\ \A i \in DOMAIN log : log[i].status = "indexed" =>
             log[i].doc = batch.pdfs[i] /\ documents[batch.pdfs[i]] = "indexed"
    BY <1>1 DEF BatchHeld, LogIsTrue
  <2>2. /\ Len(log) \in Nat /\ DOMAIN log = 1..Len(log)
        /\ batch.index \in Nat /\ Len(batch.pdfs) \in Nat
        /\ DOMAIN batch.pdfs = 1..Len(batch.pdfs)
    BY <1>1 DEF BatchHeld, Batches
  <2>3. batch.index <= Len(batch.pdfs) \/ In("end")
    BY <1>1 DEF BatchHeld, PlaceHeld, In
  <2>4. In("end") => batch.index = Len(batch.pdfs) + 1
    BY <1>1 DEF BatchHeld, PlaceHeld
  <2>5. \A i \in DOMAIN log : i \in DOMAIN batch.pdfs
    BY <2>1, <2>2, <2>3, <2>4
  <2>6. \A i \in DOMAIN log : log[i].status = "indexed" => documents'[batch.pdfs[i]] = "indexed"
    BY <1>1, <2>1, <2>5, TreeDocs DEF DocumentsGrow
  <2>7. stage = "over" => Len(log) = Len(batch.pdfs)
    BY <2>1, <2>2, <2>4
  <2>8. QED BY <2>1, <2>6, <2>7
<1>5. ExitZeroMeansIndexed'
  <2> SUFFICES ASSUME exit' = 0, NEW i \in DOMAIN batch.pdfs
               PROVE  documents'[batch.pdfs[i]] = "indexed"
    BY DEF ExitZeroMeansIndexed, Moved
  <2>1. batch.failed = 0 /\ In("end")
    BY NoValueAssumption
  <2>2. batch.index = Len(batch.pdfs) + 1
    BY <1>1, <2>1 DEF BatchHeld, PlaceHeld
  <2>3. i < batch.index
    BY <1>1, <2>2, TreeDocs
  <2>4. QED BY <1>1, <1>3, <2>1, <2>3 DEF SoFarHeld, Moved
<1>6. /\ settings' \in Settings /\ documents' \in Documents
      /\ batch' \in Batches \cup {NoValue} /\ log' \in Seq(LogLines)
  BY DEF BatchHeld, DocumentsGrow, Moved
<1>7. QED BY <1>1, <1>2, <1>3, <1>4, <1>5, <1>6 DEF BatchHeld

(***************************************************************************)
(* A batch begins, and leaves the log of an earlier one alone.             *)
(***************************************************************************)
LEMMA NewBatchHolds ==
    ASSUME BatchHeld, NEW pdfs \in Seq(Docs), NEW stage \in {"build", "over"},
           NewBatch(pdfs, stage), UNCHANGED <<settings, documents, log>>,
           stage = "over" => pdfs = <<>> /\ exit' \in {0, 2},
           stage = "build" => exit' = NoValue
    PROVE  BatchHeld'
<1> DEFINE x == [stage |-> stage, pdfs |-> pdfs, opened |-> FALSE, index |-> 1,
                 indexed |-> 0, failed |-> 0, skipped |-> 0, status |-> NoValue]
<1>1. x \in Batches /\ batch' = x
  BY DEF NewBatch, Batches, Stages
<1>2. x # NoValue
  BY <1>1, NoValueAssumption
<1>3. /\ x.stage = stage /\ x.pdfs = pdfs /\ x.index = 1 /\ ~x.opened
      /\ x.indexed = 0 /\ x.failed = 0
  OBVIOUS
<1> HIDE DEF x
<1>4. DOMAIN pdfs = 1..Len(pdfs) /\ Len(pdfs) \in Nat
  OBVIOUS
<1>5. PlaceHeld'
  BY <1>1, <1>2, <1>3 DEF PlaceHeld, Running, In
<1>6. SoFarHeld'
  BY <1>1, <1>3, <1>4 DEF SoFarHeld
<1>7. LogIsTrue'
  BY <1>1, <1>3 DEF LogIsTrue
<1>8. ExitZeroMeansIndexed'
  BY <1>1, <1>3, NoValueAssumption DEF ExitZeroMeansIndexed
<1>9. QED BY <1>1, <1>2, <1>5, <1>6, <1>7, <1>8 DEF BatchHeld

(***************************************************************************)
(* The script's log is empty when the first PDF is taken up.               *)
(***************************************************************************)
LEMMA OpenLogHolds ==
    ASSUME BatchHeld, OpenLog
    PROVE  BatchHeld'
<1> DEFINE stage == IF batch.pdfs = <<>> THEN "end" ELSE "lookup"
           x == [batch EXCEPT !.stage = stage, !.opened = settings.command = "script"]
<1>1. /\ batch # NoValue /\ batch \in Batches /\ batch.stage = "build"
      /\ batch.index = 1 /\ batch.failed = 0 /\ batch.indexed = 0 /\ exit = NoValue
  BY DEF OpenLog, In, BatchHeld, PlaceHeld, Running
<1>2. x \in Batches /\ batch' = x
  BY <1>1 DEF OpenLog, Batches, Stages
<1>3. x # NoValue
  BY <1>2, NoValueAssumption
<1>4. /\ x.stage = stage /\ x.pdfs = batch.pdfs
      /\ x.opened => settings.command = "script"
      /\ x.index = 1 /\ x.failed = 0 /\ x.indexed = 0
  BY <1>1 DEF Batches
<1> HIDE DEF x
<1>5. /\ DOMAIN batch.pdfs = 1..Len(batch.pdfs) /\ Len(batch.pdfs) \in Nat
      /\ IF batch.pdfs = <<>> THEN Len(batch.pdfs) = 0 ELSE 1 <= Len(batch.pdfs)
  BY <1>1 DEF Batches
<1>6. UNCHANGED <<settings, documents, exit>> /\ log' = Opened
  BY DEF OpenLog
<1>7. PlaceHeld'
  BY <1>1, <1>2, <1>3, <1>4, <1>5, <1>6 DEF PlaceHeld, Running, In
<1>8. SoFarHeld'
  BY <1>2, <1>4, <1>5 DEF SoFarHeld
<1>9. LogIsTrue'
  <2> SUFFICES ASSUME settings.command = "script"
               PROVE  /\ Len(log') = 0
                      /\ Cardinality({i \in DOMAIN log' : log'[i].status = "indexed"}) = 0
                      /\ \A i \in DOMAIN log' : log'[i].status # "indexed"
    BY <1>2, <1>4 DEF LogIsTrue
  <2>1. log' = <<>>
    BY <1>6 DEF Opened
  <2>2. {i \in DOMAIN log' : log'[i].status = "indexed"} = {}
    BY <2>1
  <2>3. QED BY <2>1, <2>2, FS_EmptySet
<1>10. ExitZeroMeansIndexed' /\ exit' # 0
  BY <1>1, <1>6, NoValueAssumption DEF ExitZeroMeansIndexed
<1>11. log' \in Seq(LogLines)
  <2>1. log' = log \/ log' = <<>>
    BY <1>6 DEF Opened
  <2>2. log \in Seq(LogLines) /\ <<>> \in Seq(LogLines)
    BY DEF BatchHeld
  <2>3. QED BY <2>1, <2>2
<1>12. QED BY <1>2, <1>6, <1>7, <1>8, <1>9, <1>10, <1>11 DEF BatchHeld

(***************************************************************************)
(* The counters after a PDF.                                               *)
(***************************************************************************)
LEMMA CountKeeps ==
    ASSUME batch \in Batches, batch.status \in {"indexed", "failed"}
    PROVE  /\ Count(batch) \in Batches
           /\ Count(batch).pdfs = batch.pdfs /\ Count(batch).index = batch.index
           /\ Count(batch).opened = batch.opened
           /\ Count(batch).indexed = IF batch.status = "indexed" THEN batch.indexed + 1
                                     ELSE batch.indexed
           /\ Count(batch).failed = IF batch.status = "indexed" THEN batch.failed
                                    ELSE batch.failed + 1
<1>1. CASE batch.status = "indexed"
  <2>1. Count(batch) = [batch EXCEPT !.indexed = @ + 1]
    BY <1>1 DEF Count
  <2>2. batch.indexed + 1 \in Nat
    BY DEF Batches
  <2>3. QED BY <1>1, <2>1, <2>2 DEF Batches
<1>2. CASE batch.status = "failed"
  <2>1. Count(batch) = [batch EXCEPT !.failed = @ + 1]
    BY <1>2 DEF Count
  <2>2. batch.failed + 1 \in Nat
    BY DEF Batches
  <2>3. QED BY <1>2, <2>1, <2>2 DEF Batches
<1>3. QED BY <1>1, <1>2

(***************************************************************************)
(* A line more, counted if it is that of an indexed document.              *)
(***************************************************************************)
LEMMA CountedLine ==
    ASSUME NEW s \in Seq(LogLines), NEW line \in LogLines
    PROVE  LET Indexed(t) == {i \in DOMAIN t : t[i].status = "indexed"} IN
           /\ Cardinality(Indexed(s)) \in Nat
           /\ Cardinality(Indexed(Append(s, line))) =
                IF line.status = "indexed" THEN Cardinality(Indexed(s)) + 1
                ELSE Cardinality(Indexed(s))
<1> DEFINE Indexed(t) == {i \in DOMAIN t : t[i].status = "indexed"}
           n == Len(s)
           t == Append(s, line)
<1>1. /\ n \in Nat /\ DOMAIN s = 1..n /\ DOMAIN t = 1..(n + 1) /\ t[n + 1] = line
      /\ \A i \in 1..n : t[i] = s[i]
  BY Appended
<1>2. IsFiniteSet(1..n)
  BY <1>1, FS_Interval
<1>3. IsFiniteSet(Indexed(s)) /\ Cardinality(Indexed(s)) \in Nat
  BY <1>1, <1>2, FS_Subset, FS_CardinalityType
<1> HIDE DEF t, n
<1>4. CASE line.status = "indexed"
  <2>1. Indexed(t) = Indexed(s) \cup {n + 1} /\ n + 1 \notin Indexed(s)
    BY <1>1, <1>4
  <2>2. Cardinality(Indexed(t)) = Cardinality(Indexed(s)) + 1
    BY <1>3, <2>1, FS_AddElement
  <2>3. QED BY <1>3, <1>4, <2>2 DEF t
<1>5. CASE line.status # "indexed"
  <2>1. Indexed(t) = Indexed(s)
    BY <1>1, <1>5
  <2>2. QED BY <1>3, <1>5, <2>1 DEF t
<1>6. QED BY <1>4, <1>5

LEMMA LogItemHolds ==
    ASSUME BatchHeld, LogItem
    PROVE  BatchHeld'
<1> DEFINE last == batch.index = Len(batch.pdfs)
           stage == IF last THEN "end" ELSE "lookup"
           x == [Count(batch) EXCEPT !.index = batch.index + 1, !.status = NoValue,
                                     !.stage = stage]
           n == Len(batch.pdfs)
<1>1. /\ batch \in Batches /\ batch # NoValue /\ batch.stage = "log"
      /\ batch.status \in {"indexed", "failed"}
      /\ batch.status = "indexed" => documents[Doc] = "indexed"
      /\ batch.index \in Nat \ {0} /\ n \in Nat /\ batch.index <= n
      /\ DOMAIN batch.pdfs = 1..n /\ exit = NoValue
  BY DEF BatchHeld, LogItem, In, PlaceHeld, Running, Batches
<1>2. batch' = x
  <2>1. batch' = [Count(batch) EXCEPT !.index = @ + 1, !.status = NoValue, !.stage = stage]
    BY DEF LogItem
  <2>2. Count(batch).index = batch.index /\ Count(batch) \in Batches
    BY <1>1, CountKeeps
  <2>3. QED BY <2>1, <2>2 DEF Batches
<1>3. /\ x \in Batches /\ x.pdfs = batch.pdfs /\ x.index = batch.index + 1
      /\ x.opened = batch.opened /\ x.stage = stage /\ x.status = NoValue
      /\ x.indexed = IF batch.status = "indexed" THEN batch.indexed + 1 ELSE batch.indexed
      /\ x.failed = IF batch.status = "indexed" THEN batch.failed ELSE batch.failed + 1
  <2>1. stage \in Stages /\ batch.index + 1 \in Nat
    BY <1>1 DEF Stages
  <2> HIDE DEF stage
  <2>2. /\ Count(batch) \in Batches
        /\ Count(batch).pdfs = batch.pdfs /\ Count(batch).opened = batch.opened
        /\ Count(batch).indexed = IF batch.status = "indexed" THEN batch.indexed + 1
                                  ELSE batch.indexed
        /\ Count(batch).failed = IF batch.status = "indexed" THEN batch.failed
                                 ELSE batch.failed + 1
    BY <1>1, CountKeeps
  <2>3. QED BY <2>1, <2>2 DEF Batches
<1> HIDE DEF x
<1>4. x # NoValue
  BY <1>3, NoValueAssumption
<1>5. UNCHANGED <<settings, documents, exit>>
  BY DEF LogItem
<1>6. Doc \in Docs /\ LogLine \in LogLines
  BY <1>1, TreeDocs DEF Doc, LogLine, LogLines
<1>7. PlaceHeld'
  <2>1. batch.index + 1 # 0 /\ (~last => batch.index + 1 <= n)
    BY <1>1
  <2>2. batch.opened => settings.command = "script"
    BY <1>1 DEF BatchHeld, PlaceHeld
  <2>3. QED BY <1>1, <1>2, <1>3, <1>5, <2>1, <2>2 DEF PlaceHeld, Running, In
<1>8. SoFarHeld'
  <2> SUFFICES ASSUME x.failed = 0, NEW i \in 1..n, i < batch.index + 1
               PROVE  documents[batch.pdfs[i]] = "indexed"
    BY <1>1, <1>2, <1>3, <1>5 DEF SoFarHeld
  <2>1. batch.status = "indexed" /\ batch.failed = 0
    BY <1>1, <1>3 DEF Batches
  <2>2. CASE i = batch.index
    BY <1>1, <2>1, <2>2 DEF Doc
  <2>3. CASE i < batch.index
    BY <1>1, <2>1, <2>3 DEF BatchHeld, SoFarHeld
  <2>4. QED BY <1>1, <2>2, <2>3
<1>9. LogIsTrue'
  <2> SUFFICES ASSUME batch.opened
               PROVE  /\ Len(log') = batch.index
                      /\ x.indexed = Cardinality({i \in DOMAIN log' : log'[i].status = "indexed"})
                      /\ x.indexed + x.failed = Len(log')
                      /\ \A i \in DOMAIN log' : log'[i].status = "indexed" =>
                           log'[i].doc = batch.pdfs[i] /\ documents[batch.pdfs[i]] = "indexed"
    BY <1>1, <1>2, <1>3, <1>5 DEF LogIsTrue
  <2>1. /\ Len(log) = batch.index - 1
        /\ batch.indexed = Cardinality({i \in DOMAIN log : log[i].status = "indexed"})
        /\ batch.indexed + batch.failed = Len(log)
        /\ \A i \in DOMAIN log : log[i].status = "indexed" =>
             log[i].doc = batch.pdfs[i] /\ documents[batch.pdfs[i]] = "indexed"
    BY <1>1 DEF BatchHeld, LogIsTrue
  <2>2. log' = Append(log, LogLine) /\ log \in Seq(LogLines)
    BY <1>1 DEF LogItem, BatchHeld, PlaceHeld
  <2>3. /\ Len(log') = Len(log) + 1 /\ DOMAIN log = 1..Len(log)
        /\ DOMAIN log' = 1..(Len(log) + 1) /\ log'[Len(log) + 1] = LogLine
        /\ \A i \in 1..Len(log) : log'[i] = log[i]
    BY <1>6, <2>2, Appended
  <2>4. LogLine.status = batch.status /\ (batch.status = "indexed" => LogLine.doc = Doc)
    BY DEF LogLine
  <2>5. /\ Len(log') = batch.index
        /\ DOMAIN log' = 1..batch.index /\ log'[batch.index] = LogLine
        /\ \A i \in 1..batch.index : i # batch.index => i \in DOMAIN log /\ log'[i] = log[i]
    BY <1>1, <2>1, <2>3
  <2>6. x.indexed = Cardinality({i \in DOMAIN log' : log'[i].status = "indexed"})
    <3>1. Cardinality({i \in DOMAIN log' : log'[i].status = "indexed"}) =
            IF LogLine.status = "indexed"
            THEN Cardinality({i \in DOMAIN log : log[i].status = "indexed"}) + 1
            ELSE Cardinality({i \in DOMAIN log : log[i].status = "indexed"})
      BY <1>6, <2>2, CountedLine
    <3>2. QED BY <1>3, <2>1, <2>4, <3>1
  <2>7. x.indexed + x.failed = Len(log')
    <3>1. batch.indexed \in Nat /\ batch.failed \in Nat
      BY <1>1 DEF Batches
    <3>2. QED BY <1>1, <1>3, <2>1, <2>5, <3>1
  <2>8. ASSUME NEW i \in DOMAIN log', log'[i].status = "indexed"
        PROVE  log'[i].doc = batch.pdfs[i] /\ documents[batch.pdfs[i]] = "indexed"
    <3>1. CASE i = batch.index
      BY <1>1, <2>4, <2>5, <2>8, <3>1 DEF Doc
    <3>2. CASE i # batch.index
      BY <2>1, <2>5, <2>8, <3>2
    <3>3. QED BY <3>1, <3>2
  <2>9. QED BY <2>5, <2>6, <2>7, <2>8
<1>10. ExitZeroMeansIndexed' /\ exit' # 0
  BY <1>1, <1>5, NoValueAssumption DEF ExitZeroMeansIndexed
<1>11. log' \in Seq(LogLines)
  <2>1. log \in Seq(LogLines) /\ (log' = log \/ log' = Append(log, LogLine))
    BY DEF BatchHeld, LogItem
  <2>2. QED BY <1>6, <2>1, Appended
<1>12. QED BY <1>2, <1>3, <1>5, <1>7, <1>8, <1>9, <1>10, <1>11 DEF BatchHeld

(***************************************************************************)
(* Every step of a batch keeps what its exit code and its log say.         *)
(***************************************************************************)
LEMMA BatchStepHolds ==
    ASSUME BatchHeld, [Next]_vars
    PROVE  BatchHeld'
<1>1. /\ settings \in Settings /\ documents \in Documents
      /\ exit \in {0, 1, 2, NoValue} /\ batch \in Batches \cup {NoValue}
  BY DEF BatchHeld
<1>2. ASSUME NEW s, In(s), s \in {"lookup", "process", "extract", "index", "log"}
      PROVE  /\ Running /\ batch \in Batches /\ batch.stage = s /\ exit = NoValue
             /\ batch.index <= Len(batch.pdfs) /\ Doc \in Docs
  <2>1. /\ Running /\ batch \in Batches /\ batch.stage = s /\ exit = NoValue
        /\ batch.index <= Len(batch.pdfs) /\ batch.index # 0
    BY <1>2, <1>1 DEF In, Running, BatchHeld, PlaceHeld
  <2>2. batch.index \in DOMAIN batch.pdfs
    BY <2>1 DEF Batches
  <2>3. QED BY <2>1, <2>2, TreeDocs DEF Doc
<1>3. CASE MissingRoot \/ NoPdfs
  <2>1. /\ NewBatch(<<>>, "over") /\ exit' \in {0, 2}
        /\ UNCHANGED <<settings, documents, log>> /\ <<>> \in Seq(Docs)
    BY <1>3 DEF MissingRoot, NoPdfs, StartBatch
  <2>2. QED BY <2>1, NewBatchHolds
<1>4. ASSUME NEW pdfs \in Trees, BeginBatch(pdfs)
      PROVE  BatchHeld'
  <2>1. /\ NewBatch(pdfs, "build") /\ exit' = NoValue
        /\ UNCHANGED <<settings, documents, log>> /\ pdfs \in Seq(Docs)
    BY <1>4, BatchAssumption DEF BeginBatch, StartBatch
  <2>2. QED BY <2>1, NewBatchHolds
<1>5. CASE BuildRaises
  <2>1. /\ In("build") /\ GoTo("over") /\ exit' = 1
        /\ documents' = documents /\ settings' = settings /\ log' = log
    BY <1>5 DEF BuildRaises
  <2>2. Running /\ batch \in Batches /\ ~batch.opened
    BY <1>1, <2>1 DEF In, Running, BatchHeld, PlaceHeld
  <2>3. Moved("over", batch.status) /\ DocumentsGrow
    BY <1>1, <2>1, <2>2, GoToMoves, SameDocuments DEF Stages
  <2>4. QED BY <2>1, <2>2, <2>3, MovedHolds DEF Stages
<1>6. CASE AlreadyIndexed
  <2>1. /\ In("lookup") /\ documents[Doc] = "indexed"
        /\ batch' = [batch EXCEPT !.stage = "log", !.status = "indexed"]
        /\ documents' = documents
        /\ settings' = settings /\ exit' = exit /\ log' = log
    BY <1>6 DEF AlreadyIndexed, results
  <2>2. Moved("log", "indexed") /\ DocumentsGrow
    BY <1>1, <1>2, <2>1, LoggedMoves, SameDocuments
  <2>3. QED BY <1>2, <2>1, <2>2, MovedHolds, NoValueAssumption DEF Stages
<1>7. CASE Register
  <2>1. /\ In("lookup") /\ documents[Doc] # "indexed" /\ GoTo("process")
        /\ documents' = [documents EXCEPT ![Doc] = "registered"]
        /\ settings' = settings /\ exit' = exit /\ log' = log
    BY <1>7 DEF Register, results
  <2>2. DocumentsGrow
    BY <1>1, <1>2, <2>1 DEF DocumentsGrow, Documents
  <2>3. Moved("process", batch.status)
    BY <1>2, <2>1, GoToMoves DEF Stages
  <2>4. QED BY <1>2, <2>1, <2>2, <2>3, MovedHolds DEF Stages
<1>8. ASSUME NEW s \in {"process", "extract"}, NEW t \in {"extract", "index"},
             In(s), GoTo(t), UNCHANGED <<settings, documents, results>>
      PROVE  BatchHeld'
  <2>1. Moved(t, batch.status) /\ DocumentsGrow
    BY <1>1, <1>2, <1>8, GoToMoves, SameDocuments DEF Stages
  <2>2. settings' = settings /\ exit' = exit /\ log' = log
    BY <1>8 DEF results
  <2>3. QED BY <1>1, <1>2, <1>8, <2>1, <2>2, MovedHolds DEF Stages
<1>9. CASE SetIndexed
  <2>1. /\ In("index") /\ documents' = [documents EXCEPT ![Doc] = "indexed"]
        /\ batch' = [batch EXCEPT !.stage = "log", !.status = "indexed"]
        /\ settings' = settings /\ exit' = exit /\ log' = log
    BY <1>9 DEF SetIndexed, results
  <2>2. DocumentsGrow /\ documents'[Doc] = "indexed"
    BY <1>1, <1>2, <2>1 DEF DocumentsGrow, Documents
  <2>3. Moved("log", "indexed")
    BY <1>2, <2>1, LoggedMoves
  <2>4. QED BY <1>2, <2>1, <2>2, <2>3, MovedHolds, NoValueAssumption DEF Stages
<1>10. CASE IngestRaises
  <2>1. PICK s \in {"lookup", "process", "extract", "index"} : In(s)
    BY <1>10 DEF IngestRaises
  <2>2. DocumentsGrow /\ settings' = settings /\ log' = log
    BY <1>1, <1>10, SameDocuments DEF IngestRaises
  <2>3. CASE settings.command = "script"
    <3>1. batch' = [batch EXCEPT !.stage = "log", !.status = "failed"] /\ exit' = exit
      BY <1>10, <2>3 DEF IngestRaises, Failed
    <3>2. Moved("log", "failed")
      BY <1>2, <2>1, <3>1, LoggedMoves
    <3>3. QED BY <1>2, <2>1, <2>2, <3>1, <3>2, MovedHolds, NoValueAssumption DEF Stages
  <2>4. CASE settings.command # "script"
    <3>1. GoTo("over") /\ exit' = 1
      BY <1>10, <2>4 DEF IngestRaises
    <3>2. Moved("over", batch.status)
      BY <1>2, <2>1, <3>1, GoToMoves DEF Stages
    <3>3. ~batch.opened
      BY <1>2, <2>1, <2>4 DEF BatchHeld, PlaceHeld, In
    <3>4. QED BY <1>2, <2>1, <2>2, <3>1, <3>2, <3>3, MovedHolds DEF Stages
  <2>5. QED BY <2>3, <2>4
<1>11. CASE LogItem
  BY <1>11, LogItemHolds
<1>12. CASE EndBatch
  <2>1. /\ In("end") /\ GoTo("over") /\ exit' = IF batch.failed = 0 THEN 0 ELSE 1
        /\ documents' = documents /\ settings' = settings /\ log' = log
    BY <1>12 DEF EndBatch
  <2>2. Running /\ batch \in Batches
    BY <1>1, <2>1 DEF In, Running
  <2>3. Moved("over", batch.status) /\ DocumentsGrow
    BY <1>1, <2>1, <2>2, GoToMoves, SameDocuments DEF Stages
  <2>4. QED BY <2>1, <2>2, <2>3, MovedHolds DEF Stages
<1>13. CASE Kill
  <2>1. /\ Running /\ GoTo("killed")
        /\ documents' = documents /\ settings' = settings /\ log' = log /\ exit' = exit
    BY <1>13 DEF Kill, results
  <2>2. batch \in Batches /\ exit = NoValue
    BY <1>1, <2>1 DEF Running, BatchHeld, PlaceHeld
  <2>3. Moved("killed", batch.status) /\ DocumentsGrow
    BY <1>1, <2>1, <2>2, GoToMoves, SameDocuments DEF Stages
  <2>4. QED BY <2>1, <2>2, <2>3, MovedHolds DEF Stages
<1>14. CASE UNCHANGED <<settings, documents, batch, log, exit>>
  BY <1>14 DEF BatchHeld, PlaceHeld, SoFarHeld, LogIsTrue, ExitZeroMeansIndexed, Running, In, Doc
<1>15. ASSUME NEW reading \in Readings, Process(reading)
       PROVE  BatchHeld'
  BY <1>8, <1>15 DEF Process
<1>16. CASE WriteStructure
  BY <1>8, <1>16 DEF WriteStructure
<1>17. CASE ExtractChunk
  BY <1>14, <1>17 DEF ExtractChunk, results
<1>18. QED BY <1>3, <1>4, <1>5, <1>6, <1>7, <1>9, <1>10, <1>11, <1>12, <1>13, <1>14,
              <1>15, <1>16, <1>17, OpenLogHolds DEF Next, Work, vars

-----------------------------------------------------------------------------
\* The structured.json files.

(***************************************************************************)
(* What a structured.json holds: each section's chunk is decided, was      *)
(* misread or, with the local client, got no answer, and the decisions are *)
(* of sections and in order.                                               *)
(***************************************************************************)
Whole(s) ==
    /\ \A k \in DOMAIN s.chunks : s.chunks[k].section # 0 =>
         k \in s.misread \cup s.unanswered \/ \E i \in DOMAIN s.decisions : s.decisions[i] = k
    /\ \A i \in DOMAIN s.decisions : s.chunks[s.decisions[i]].section # 0
    /\ \A i, j \in DOMAIN s.decisions : i < j => s.decisions[i] < s.decisions[j]

StructureHeld ==
    /\ ExtractionHeld
    /\ In("extract") <=> extraction # NoValue
    /\ structured \in [Docs -> Structures \cup {NoValue}]
    /\ \A d \in Docs : structured[d] # NoValue => Whole(structured[d])
    /\ \A d \in Docs :
         structured[d] # NoValue /\ settings.remote => structured[d].unanswered = {}
    /\ \A d \in Docs :
         documents[d] = "indexed" /\ ~settings.skipExtract => structured[d] # NoValue
    /\ In("index") /\ ~settings.skipExtract => structured[Doc] # NoValue

LEMMA WriteStructureHolds ==
    ASSUME BatchHeld, StructureHeld, WriteStructure
    PROVE  StructureHeld'
<1> DEFINE e == extraction
           x == [chunks |-> extraction.chunks, decisions |-> extraction.decisions,
                 misread |-> extraction.misread, unanswered |-> extraction.unanswered]
<1>1. /\ In("extract") /\ batch \in Batches /\ Doc \in Docs
  <2>1. In("extract") /\ batch \in Batches /\ batch.index \in DOMAIN batch.pdfs
    BY DEF WriteStructure, In, BatchHeld, PlaceHeld, Running, Batches
  <2>2. QED BY <2>1, TreeDocs DEF Doc
<1>2. /\ e # NoValue /\ e \in Extractions /\ Settled(e, e.next)
      /\ DOMAIN e.chunks = 1..Len(e.chunks) /\ Len(e.chunks) \in Nat
      /\ e.next \in Nat /\ e.next > Len(e.chunks)
      /\ settings.remote => e.unanswered = {}
  BY DEF WriteStructure, Extracted, StructureHeld, ExtractionHeld, Extractions
<1>3. x \in Structures /\ x # NoValue
  BY <1>2, NoValueAssumption DEF Structures, Extractions
<1>4. Whole(x)
  <2>1. \A k \in DOMAIN e.chunks : k < e.next
    BY <1>2
  <2>2. QED BY <1>2, <2>1 DEF Settled, Whole
<1>5. structured' = [structured EXCEPT ![Doc] = x]
  BY DEF WriteStructure
<1> HIDE DEF x
<1>6. /\ structured' \in [Docs -> Structures \cup {NoValue}] /\ structured'[Doc] = x
      /\ \A d \in Docs : d # Doc => structured'[d] = structured[d]
  BY <1>1, <1>3, <1>5 DEF StructureHeld
<1>7. /\ extraction' = NoValue /\ UNCHANGED <<settings, documents>>
      /\ Moved("index", batch.status)
  BY <1>1, GoToMoves DEF WriteStructure, Stages
<1>8. ~In("extract")' /\ Doc' = Doc
  BY <1>7 DEF In, Moved, Doc
<1>9. ExtractionHeld'
  BY <1>7 DEF ExtractionHeld, ExtractionTypeOK
<1>10. \A d \in Docs : structured'[d] # NoValue => Whole(structured'[d])
  BY <1>4, <1>6 DEF StructureHeld
<1>11. \A d \in Docs :
         structured'[d] # NoValue /\ settings'.remote => structured'[d].unanswered = {}
  <2>1. x.unanswered = e.unanswered
    BY DEF x
  <2>2. QED BY <1>2, <1>6, <1>7, <2>1 DEF StructureHeld
<1>12. \A d \in Docs :
         documents'[d] = "indexed" /\ ~settings'.skipExtract => structured'[d] # NoValue
  BY <1>3, <1>6, <1>7 DEF StructureHeld
<1>13. structured'[Doc'] # NoValue
  BY <1>3, <1>6, <1>8
<1>14. QED BY <1>6, <1>7, <1>8, <1>9, <1>10, <1>11, <1>12, <1>13 DEF StructureHeld

(***************************************************************************)
(* The other steps leave the files alone.                                  *)
(***************************************************************************)
LEMMA KeptStructures ==
    ASSUME StructureHeld, UNCHANGED <<settings, structured>>, ExtractionHeld',
           In("extract")' <=> extraction' # NoValue,
           \A d \in Docs : documents'[d] = "indexed" /\ ~settings.skipExtract =>
              structured[d] # NoValue,
           In("index")' => settings.skipExtract \/ (In("index") /\ Doc' = Doc)
    PROVE  StructureHeld'
BY DEF StructureHeld

LEMMA StructureStepHolds ==
    ASSUME BatchHeld, StructureHeld, [Next]_vars
    PROVE  StructureHeld'
<1>1. /\ ExtractionHeld /\ (In("extract") <=> extraction # NoValue)
      /\ batch \in Batches \cup {NoValue} /\ documents \in Documents
      /\ \A d \in Docs : documents[d] = "indexed" /\ ~settings.skipExtract =>
              structured[d] # NoValue
  BY DEF StructureHeld, BatchHeld
<1>2. ASSUME extraction' = NoValue
      PROVE  ExtractionHeld'
  BY <1>2 DEF ExtractionHeld, ExtractionTypeOK
<1>3. ASSUME NEW pdfs \in Seq(Docs), NEW stage \in {"build", "over"}, NewBatch(pdfs, stage),
             ~Running, UNCHANGED <<settings, extraction, documents, structured>>
      PROVE  StructureHeld'
  <2>1. batch'.stage = stage
    BY <1>3 DEF NewBatch
  <2>2. ~In("extract")' /\ ~In("index")'
    BY <2>1 DEF In
  <2>3. extraction = NoValue
    BY <1>1, <1>3 DEF In, Running
  <2>4. QED BY <1>1, <1>2, <1>3, <2>2, <2>3, KeptStructures
<1>4. ASSUME NEW stage \in Stages, batch \in Batches, batch' \in Batches,
             batch'.stage = stage, stage \notin {"extract", "index"}, extraction' = NoValue,
             UNCHANGED <<settings, structured>>,
             \A d \in Docs : documents'[d] = "indexed" /\ ~settings.skipExtract =>
                structured[d] # NoValue
      PROVE  StructureHeld'
  <2>1. ~In("extract")' /\ ~In("index")'
    BY <1>4 DEF In
  <2>2. QED BY <1>2, <1>4, <2>1, KeptStructures
<1>5. CASE MissingRoot \/ NoPdfs
  <2>1. <<>> \in Seq(Docs)
    OBVIOUS
  <2>2. QED BY <1>3, <1>5, <2>1 DEF MissingRoot, NoPdfs, StartBatch
<1>6. ASSUME NEW pdfs \in Trees, BeginBatch(pdfs)
      PROVE  StructureHeld'
  BY <1>3, <1>6, BatchAssumption DEF BeginBatch, StartBatch
<1>7. ASSUME Running
      PROVE  batch \in Batches /\ batch # NoValue
  BY <1>1, <1>7 DEF Running
<1>8. ASSUME NEW s, In(s)
      PROVE  batch \in Batches /\ batch # NoValue /\ (s # "extract" => extraction = NoValue)
  BY <1>1, <1>8 DEF In
<1>9. CASE BuildRaises \/ OpenLog
  <2>1. In("build") /\ UNCHANGED <<settings, extraction, documents, structured>>
    BY <1>9 DEF BuildRaises, OpenLog
  <2>2. batch' \in Batches /\ batch'.stage \in {"over", "end", "lookup"}
    BY <1>8, <1>9, <2>1 DEF BuildRaises, OpenLog, GoTo, Batches, Stages
  <2>3. QED BY <1>1, <1>4, <1>8, <2>1, <2>2 DEF Stages
<1>10. CASE AlreadyIndexed
  <2>1. In("lookup") /\ UNCHANGED <<settings, extraction, documents, structured>>
    BY <1>10 DEF AlreadyIndexed
  <2>2. Moved("log", "indexed")
    BY <1>8, <1>10, <2>1, LoggedMoves DEF AlreadyIndexed
  <2>3. QED BY <1>1, <1>4, <1>8, <2>1, <2>2 DEF Moved, Stages
<1>11. CASE Register
  <2>1. /\ In("lookup") /\ documents' = [documents EXCEPT ![Doc] = "registered"]
        /\ GoTo("process") /\ UNCHANGED <<settings, extraction, structured>>
    BY <1>11 DEF Register
  <2>2. Moved("process", batch.status)
    BY <1>8, <2>1, GoToMoves DEF Stages
  <2>3. \A d \in Docs : documents'[d] = "indexed" => documents[d] = "indexed"
    BY <1>1, <2>1 DEF Documents
  <2>4. QED BY <1>1, <1>4, <1>8, <2>1, <2>2, <2>3 DEF Moved, Stages
<1>12. ASSUME NEW reading \in Readings, Process(reading)
       PROVE  StructureHeld'
  <2>1. In("process") /\ UNCHANGED <<settings, documents, structured>>
    BY <1>12 DEF Process
  <2>2. CASE settings.skipExtract
    <3>1. GoTo("index") /\ extraction' = extraction
      BY <1>12, <2>2 DEF Process
    <3>2. Moved("index", batch.status) /\ extraction' = NoValue
      BY <1>8, <2>1, <3>1, GoToMoves DEF Stages
    <3>3. ~In("extract")'
      BY <3>2 DEF In, Moved
    <3>4. QED BY <1>1, <1>2, <2>1, <2>2, <3>2, <3>3, KeptStructures
  <2>3. CASE ~settings.skipExtract
    <3> DEFINE chunks == DocumentChunks[reading]
    <3>0. chunks \in Seq(Chunks)
      <4>1. reading.pages \in ReadPages
        BY ReadingsAssumption
      <4>2. QED BY <4>1, ConsolidatedIs, ChunkDocumentIs DEF DocumentChunks
    <3>1. GoTo("extract") /\ BeginExtraction(chunks) /\ chunks \in Seq(Chunks)
      BY <1>12, <2>3, <3>0 DEF Process
    <3> HIDE DEF chunks
    <3>2. Moved("extract", batch.status)
      BY <1>8, <2>1, <3>1, GoToMoves DEF Stages
    <3>3. extraction' # NoValue /\ ExtractionHeld'
      BY <3>1, BeginHolds
    <3>4. In("extract")' /\ ~In("index")'
      BY <3>2, NoValueAssumption DEF In, Moved
    <3>5. QED BY <1>1, <2>1, <3>3, <3>4, KeptStructures
  <2>4. QED BY <2>2, <2>3
<1>13. CASE ExtractChunk
  <2>1. In("extract") /\ Extract /\ UNCHANGED <<settings, documents, structured, batch>>
    BY <1>13 DEF ExtractChunk
  <2>2. extraction' # NoValue /\ ExtractionHeld'
    BY <1>1, <2>1, ExtractHolds
  <2>3. In("extract")' /\ ~In("index")'
    BY <2>1 DEF In
  <2>4. QED BY <1>1, <2>1, <2>2, <2>3, KeptStructures
<1>14. CASE WriteStructure
  BY <1>14, WriteStructureHolds
<1>15. CASE SetIndexed
  <2>1. /\ In("index") /\ documents' = [documents EXCEPT ![Doc] = "indexed"]
        /\ UNCHANGED <<settings, extraction, structured>>
    BY <1>15 DEF SetIndexed
  <2>2. Moved("log", "indexed")
    BY <1>8, <1>15, <2>1, LoggedMoves DEF SetIndexed
  <2>3. ~settings.skipExtract => structured[Doc] # NoValue
    BY <2>1 DEF StructureHeld
  <2>4. \A d \in Docs : documents'[d] = "indexed" => d = Doc \/ documents[d] = "indexed"
    BY <1>1, <2>1 DEF Documents
  <2>5. QED BY <1>1, <1>4, <1>8, <2>1, <2>2, <2>3, <2>4 DEF Moved, Stages
<1>16. CASE IngestRaises
  <2>1. PICK s \in {"lookup", "process", "extract", "index"} : In(s)
    BY <1>16 DEF IngestRaises
  <2>2. extraction' = NoValue /\ UNCHANGED <<settings, documents, structured>>
    BY <1>16 DEF IngestRaises
  <2>3. GoTo("over") \/ batch' = [batch EXCEPT !.stage = "log", !.status = "failed"]
    BY <1>16 DEF IngestRaises, Failed
  <2>4. Moved("over", batch.status) \/ Moved("log", "failed")
    BY <1>8, <2>1, <2>3, GoToMoves, LoggedMoves DEF Stages
  <2>5. QED BY <1>1, <1>4, <1>8, <2>1, <2>2, <2>4 DEF Moved, Stages
<1>17. CASE LogItem
  <2>1. In("log") /\ UNCHANGED <<settings, extraction, documents, structured>>
    BY <1>17 DEF LogItem
  <2>2. batch.status \in {"indexed", "failed"}
    BY <1>8, <2>1 DEF BatchHeld, PlaceHeld, Batches
  <2>3. Count(batch) \in Batches
    BY <1>8, <2>1, <2>2, CountKeeps
  <2>4. batch'.stage \in {"end", "lookup"}
    BY <1>17, <2>3 DEF LogItem, Batches
  <2>5. ~In("extract")' /\ ~In("index")'
    BY <2>4 DEF In
  <2>6. QED BY <1>1, <1>2, <1>8, <2>1, <2>5, KeptStructures
<1>18. CASE EndBatch
  <2>1. /\ In("end") /\ GoTo("over")
        /\ UNCHANGED <<settings, extraction, documents, structured>>
    BY <1>18 DEF EndBatch
  <2>2. Moved("over", batch.status)
    BY <1>8, <2>1, GoToMoves DEF Stages
  <2>3. QED BY <1>1, <1>4, <1>8, <2>1, <2>2 DEF Moved, Stages
<1>19. CASE Kill
  <2>1. /\ Running /\ GoTo("killed") /\ extraction' = NoValue
        /\ UNCHANGED <<settings, documents, structured>>
    BY <1>19 DEF Kill
  <2>2. Moved("killed", batch.status)
    BY <1>7, <2>1, GoToMoves DEF Stages
  <2>3. QED BY <1>1, <1>4, <1>7, <2>1, <2>2 DEF Moved, Stages
<1>20. CASE UNCHANGED vars
  <2>1. UNCHANGED <<settings, extraction, documents, structured, batch>>
    BY <1>20 DEF vars
  <2>2. QED BY <2>1 DEF StructureHeld, ExtractionHeld, ExtractionTypeOK, In, Doc
<1>21. QED BY <1>5, <1>6, <1>9, <1>10, <1>11, <1>12, <1>13, <1>14, <1>15, <1>16, <1>17, <1>18,
              <1>19, <1>20 DEF Next, Work

-----------------------------------------------------------------------------
\* The theorems.

IInv == BatchHeld /\ StructureHeld /\ runs \in 0..MaxRuns

LEMMA InitHolds == ASSUME Init PROVE IInv
<1>1. <<>> \in Seq(LogLines) /\ 0 \in 0..MaxRuns
  BY BatchAssumption
<1>2. BatchHeld
  BY <1>1, NoValueAssumption
     DEF Init, BatchHeld, Documents, PlaceHeld, SoFarHeld, LogIsTrue, ExitZeroMeansIndexed
<1>3. StructureHeld
  BY NoValueAssumption DEF Init, StructureHeld, ExtractionHeld, ExtractionTypeOK, In
<1>4. QED BY <1>1, <1>2, <1>3 DEF Init, IInv

LEMMA StepHolds == ASSUME IInv, [Next]_vars PROVE IInv'
<1>1. BatchHeld' /\ StructureHeld'
  BY BatchStepHolds, StructureStepHolds DEF IInv
<1>2. runs' \in 0..MaxRuns
  <2>1. runs' = runs \/ (runs < MaxRuns /\ runs' = runs + 1)
    BY DEF Next, Work, MissingRoot, NoPdfs, BeginBatch, StartBatch, BuildRaises, OpenLog,
         AlreadyIndexed, Register, Process, ExtractChunk, WriteStructure, SetIndexed,
         IngestRaises, LogItem, EndBatch, Kill, vars
  <2>2. QED BY <2>1, BatchAssumption DEF IInv
<1>3. QED BY <1>1, <1>2 DEF IInv

(***************************************************************************)
(* The invariant holds in every reachable state.                           *)
(***************************************************************************)
THEOREM Invariant == Spec => []IInv
<1>1. Init => IInv
  BY InitHolds
<1>2. IInv /\ [Next]_vars => IInv'
  BY StepHolds
<1>3. QED BY <1>1, <1>2, PTL DEF Spec

(***************************************************************************)
(* The variables have their types.                                         *)
(***************************************************************************)
THEOREM BatchTypeCorrect == Spec => []TypeOK
<1>1. IInv => TypeOK
  BY DEF IInv, BatchHeld, StructureHeld, ExtractionHeld, PlaceHeld, Running, Documents,
         LogLines, TypeOK
<1>2. QED BY <1>1, Invariant, PTL

(***************************************************************************)
(* A batch that exits with 0 leaves every PDF of its tree indexed, however *)
(* many batches were killed or failed before it.                           *)
(***************************************************************************)
THEOREM ExitZeroIndexed == Spec => []ExitZeroMeansIndexed
<1>1. IInv => ExitZeroMeansIndexed
  BY DEF IInv, BatchHeld
<1>2. QED BY <1>1, Invariant, PTL

(***************************************************************************)
(* The log agrees with the counters and with the documents, whenever the   *)
(* batch is killed.                                                        *)
(***************************************************************************)
THEOREM LogTrue == Spec => []LogIsTrue
<1>1. IInv => LogIsTrue
  BY DEF IInv, BatchHeld
<1>2. QED BY <1>1, Invariant, PTL

(***************************************************************************)
(* Decisions are of sections and in the order of the document.             *)
(***************************************************************************)
THEOREM DecisionsFollow == Spec => []DecisionsFollowSections
<1>1. IInv => DecisionsFollowSections
  BY DEF IInv, StructureHeld, Whole, DecisionsFollowSections
<1>2. QED BY <1>1, Invariant, PTL

(***************************************************************************)
(* A section lacks its decision where the model misread it, and otherwise  *)
(* only with the local client, where a call raised a ValueError: whatever  *)
(* else it raises, however often the remote one is asked again, and        *)
(* whatever batches are killed.                                            *)
(***************************************************************************)
THEOREM OnlyValueErrorsLose == Spec => []OnlyValueErrorsLoseDecisions
<1>1. IInv => OnlyValueErrorsLoseDecisions
  BY DEF IInv, StructureHeld, Whole, OnlyValueErrorsLoseDecisions
<1>2. QED BY <1>1, Invariant, PTL
=============================================================================
