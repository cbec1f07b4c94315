------------------------------ MODULE QueryPath ------------------------------
(***************************************************************************)
(* POST /v1/query: HybridRetriever and SearchService over the stores that  *)
(* ingest writes meanwhile, AnswerService in its three modes over an LLM   *)
(* that may return anything its contract lets through or raise, and the    *)
(* audit record a background task writes after the response.  One action   *)
(* per read of a store, per LLM call and per write; the computation        *)
(* between two of them is local to the request.                            *)
(***************************************************************************)
EXTENDS Orders, Integers, Sequences, Functions

CONSTANTS
    Requests,
    Tenants,
    Chunks,
    Owner,              \* tenant each chunk's document was first ingested for
    SharedPdfs,         \* two tenants may ingest the same PDF
    Texts,              \* what a chunk may say
    Boost,              \* _chunk_type_boost of each text, in steps of 0.05
    BaseScores,         \* what the cross-encoder may say, in the same steps
    MinScore,           \* answer_min_score
    TopKHits,           \* top_k_dense and top_k_sparse
    TopKFused,
    TopKFinal,          \* results SearchService returns
    MaxContextChunks,   \* results a synth prompt or a retrieve answer holds
    ExtractMaxChunks,   \* results an extract prompt holds
    MaxVariants,        \* rewrites of one query
    NoValue,            \* Python's None, or nothing there
    MaxWrites           \* bound: chunks ingest writes

ASSUME ConstantsAssumption ==
    /\ Owner \in [Chunks -> Tenants]
    /\ SharedPdfs \in BOOLEAN
    /\ Boost \in [Texts -> Int]
    /\ BaseScores \subseteq Int
    /\ MinScore \in Int
    /\ {TopKHits, TopKFused, TopKFinal, MaxContextChunks, ExtractMaxChunks,
        MaxVariants} \subseteq Nat \ {0}
    /\ MaxWrites \in Nat
    /\ IsFiniteSet(Chunks)

ASSUME NoValueAssumption == NoValue \notin Tenants \cup Chunks \cup Texts \cup Int

Modes == {"synth", "retrieve", "extract"}
Reasons == {"no_context", "below_threshold", "model_refused"}
Rows == [tenant : Tenants, text : Texts]
Results == [chunk : Chunks, base : BaseScores, score : Int, tenant : Tenants,
            text : Texts]

(***************************************************************************)
(* johtopaatos: the abstention text, a text of the model's own, the quote  *)
(* of an extract answer or the heading of a retrieve answer.  A source of  *)
(* the model's own making, not tied to a result, is NoValue.               *)
(***************************************************************************)
Conclusions == {"abstention", "claim", "quote", "listing"}
Answers == [conclusion : Conclusions, sources : Seq(Chunks \cup {NoValue}),
            abstained : BOOLEAN, reason : Reasons \cup {NoValue},
            score : Int \cup {NoValue},
            used : Nat]                        \* 1-based, 0 without a quote

Askings == [tenant : Tenants, mode : Modes, left : 0..MaxVariants]
Writings == [chunk : Chunks, tenant : Tenants, next : {"vectors", "lexical"}]

ASSUME RecordsAssumption == NoValue \notin Rows \cup Answers \cup Askings \cup Writings

VARIABLES
    rows,       \* the chunks table
    points,     \* tenant in the payload of each chunk's point, or NoValue
    fts,        \* tenant in each chunk's FTS5 row, or NoValue
    writing,    \* the chunk an ingest run is writing, or NoValue
    writes,     \* bound: writes begun
    step,       \* each request's place in the handler
    asked,      \* its tenant, mode and query variants still to be run
    hits,       \* chunk_ids the indexes returned to it
    ranked,     \* <<chunk_id, score>> of the reranker
    results,    \* what SearchService.search returned
    prompted,   \* results the LLM was shown
    answer,     \* the response, or NoValue
    audit       \* its audit_log row, or NoValue

stores == <<rows, points, fts, writing, writes>>
found == <<hits, ranked, results>>
vars == <<rows, points, fts, writing, writes, step, asked, hits, ranked,
          results, prompted, answer, audit>>

Steps == {"idle", "dense", "sparse", "rerank", "facts", "gate", "llm",
          "record", "done"}

SmallerOf(m, n) == IF m <= n THEN m ELSE n

\* The corpus is indexed: every row has its point and its FTS5 row.
Init ==
    /\ rows \in [Chunks -> Rows \cup {NoValue}]
    /\ \A c \in Chunks : rows[c] # NoValue => rows[c].tenant = Owner[c]
    /\ points = [c \in Chunks |-> IF rows[c] = NoValue THEN NoValue ELSE Owner[c]]
    /\ fts = points
    /\ writing = NoValue
    /\ writes = 0
    /\ step = [q \in Requests |-> "idle"]
    /\ asked = [q \in Requests |-> NoValue]
    /\ hits = [q \in Requests |-> {}]
    /\ ranked = [q \in Requests |-> <<>>]
    /\ results = [q \in Requests |-> <<>>]
    /\ prompted = [q \in Requests |-> {}]
    /\ answer = [q \in Requests |-> NoValue]
    /\ audit = [q \in Requests |-> NoValue]

-----------------------------------------------------------------------------
\* Ingest, as a query sees it: the row, then the point, then the FTS5 row.

Writing(s) == writing # NoValue /\ writing.next = s

BeginWrite(c, t, text) ==
    /\ writing = NoValue
    /\ writes < MaxWrites
    /\ SharedPdfs \/ t = Owner[c]
    /\ writing' = [chunk |-> c, tenant |-> t, next |-> "vectors"]
    /\ writes' = writes + 1
    /\ rows' = [rows EXCEPT ![c] = [tenant |-> t, text |-> text]]
    /\ UNCHANGED <<points, fts>>

WriteVectors ==
    /\ Writing("vectors")
    /\ points' = [points EXCEPT ![writing.chunk] = writing.tenant]
    /\ writing' = [writing EXCEPT !.next = "lexical"]
    /\ UNCHANGED <<rows, fts, writes>>

WriteLexical ==
    /\ Writing("lexical")
    /\ fts' = [fts EXCEPT ![writing.chunk] = writing.tenant]
    /\ writing' = NoValue
    /\ UNCHANGED <<rows, points, writes>>

StopWriting ==
    /\ writing # NoValue
    /\ writing' = NoValue
    /\ UNCHANGED <<rows, points, fts, writes>>

Write ==
    /\ \/ \E c \in Chunks, t \in Tenants, text \in Texts : BeginWrite(c, t, text)
       \/ WriteVectors \/ WriteLexical \/ StopWriting
    /\ UNCHANGED <<step, asked, found, prompted, answer, audit>>

-----------------------------------------------------------------------------
\* Retrieval.

Advance(q, from, to) ==
    /\ step[q] = from
    /\ step' = [step EXCEPT ![q] = to]

\* The tenant is the key's, or the request's own when auth is off.
Query(q, t, mode, variants) ==
    /\ Advance(q, "idle", "dense")
    /\ asked' = [asked EXCEPT ![q] = [tenant |-> t, mode |-> mode, left |-> variants]]
    /\ UNCHANGED <<stores, found, prompted, answer, audit>>

Reachable(index, t) == {c \in Chunks : index[c] = t}

\* Mutant: the vector search has no tenant condition.
SearchAllTenants(q) ==
    /\ Advance(q, "dense", "sparse")
    /\ \E near \in SUBSET {c \in Chunks : points[c] # NoValue} :
         /\ Cardinality(near) <= TopKHits
         /\ hits' = [hits EXCEPT ![q] = @ \cup near]
    /\ UNCHANGED <<stores, asked, ranked, results, prompted, answer, audit>>

\* QdrantIndex.search: the nearest top_k of the tenant's points, whatever
\* their distance.
SearchDense(q) ==
    LET mine == Reachable(points, asked[q].tenant) IN
    /\ Advance(q, "dense", "sparse")
    /\ \E near \in SUBSET mine :
         /\ Cardinality(near) = SmallerOf(TopKHits, Cardinality(mine))
         /\ hits' = [hits EXCEPT ![q] = @ \cup near]
    /\ UNCHANGED <<stores, asked, ranked, results, prompted, answer, audit>>

\* Mutant: the loop over the variants starts again.
SearchSparseAgain(q) ==
    /\ Advance(q, "sparse", "dense")
    /\ UNCHANGED <<stores, asked, found, prompted, answer, audit>>

\* Mutant: one turn of the loop too many.
LastVariantMissed(q) == asked[q].left = 0

LastVariant(q) == asked[q].left = 1

\* BM25Index.search: at most top_k of the tenant's matching rows.  After the
\* last variant rrf_fuse keeps each chunk_id once and the best TopKFused.
SearchSparse(q) ==
    LET last == LastVariant(q) IN
    /\ Advance(q, "sparse", IF last THEN "rerank" ELSE "dense")
    /\ asked' = [asked EXCEPT ![q].left = @ - 1]
    /\ \E matching \in SUBSET Reachable(fts, asked[q].tenant) :
         LET all == hits[q] \cup matching IN
         /\ Cardinality(matching) <= TopKHits
         /\ \E fused \in SUBSET all :
              /\ Cardinality(fused) = IF last THEN SmallerOf(TopKFused, Cardinality(all))
                                      ELSE Cardinality(all)
              /\ hits' = [hits EXCEPT ![q] = fused]
    /\ UNCHANGED <<stores, ranked, results, prompted, answer, audit>>

\* Orders in which the reranker may return its candidates.
Rankings(score) ==
    LET candidates == DOMAIN score
        n == Cardinality(candidates)
    IN  {r \in Bijection(1..n, candidates) :
            \A i, j \in 1..n : i < j => score[r[i]] >= score[r[j]]}

\* _load_chunk_texts, with no condition on the tenant, and the cross-encoder.
Rerank(q) ==
    LET candidates == {c \in hits[q] : rows[c] # NoValue} IN
    /\ Advance(q, "rerank", "facts")
    /\ hits' = [hits EXCEPT ![q] = {}]
    /\ \E score \in [candidates -> BaseScores] : \E order \in Rankings(score) :
         LET n == SmallerOf(TopKFinal, Cardinality(candidates)) IN
         ranked' = [ranked EXCEPT ![q] =
                       [i \in 1..n |-> <<order[i], score[order[i]]>>]]
    /\ UNCHANGED <<stores, asked, results, prompted, answer, audit>>

Boosted(pair) ==
    [chunk |-> pair[1], base |-> pair[2],
     score |-> pair[2] + Boost[rows[pair[1]].text],
     tenant |-> rows[pair[1]].tenant, text |-> rows[pair[1]].text]

\* Mutant: the results are left in the reranker's order.
Unsorted(loaded) == Ascending(DOMAIN loaded)

\* A stable sort, highest adjusted score first.
ByScore(loaded) ==
    Ordered(DOMAIN loaded,
            {p \in (DOMAIN loaded) \X (DOMAIN loaded) :
                \/ loaded[p[1]].score > loaded[p[2]].score
                \/ loaded[p[1]].score = loaded[p[2]].score /\ p[1] < p[2]})

\* _load_chunk_facts reads the rows again; boost and order are by what it
\* finds now, the base score by what _load_chunk_texts found.
LoadFacts(q) ==
    LET pairs == ranked[q]
        there == {i \in DOMAIN pairs : rows[pairs[i][1]] # NoValue}
        loaded == [i \in there |-> Boosted(pairs[i])]
        order == ByScore(loaded)
    IN
    /\ Advance(q, "facts", "gate")
    /\ ranked' = [ranked EXCEPT ![q] = <<>>]
    /\ results' = [results EXCEPT ![q] = [k \in DOMAIN order |-> loaded[order[k]]]]
    /\ UNCHANGED <<stores, asked, hits, prompted, answer, audit>>

\* An index, the database or a model call raises: the client gets a 500.
SearchFails(q) ==
    /\ step[q] \in {"dense", "sparse", "rerank", "facts"}
    /\ step' = [step EXCEPT ![q] = "done"]
    /\ hits' = [hits EXCEPT ![q] = {}]
    /\ ranked' = [ranked EXCEPT ![q] = <<>>]
    /\ UNCHANGED <<stores, asked, results, prompted, answer, audit>>

-----------------------------------------------------------------------------
\* The gate and the three modes.

\* Mutant: min for max.
LowestScore(q) == results[q][CHOOSE i \in DOMAIN results[q] :
                      \A j \in DOMAIN results[q] :
                          results[q][i].score <= results[q][j].score].score

TopScore(q) == results[q][CHOOSE i \in DOMAIN results[q] :
                   \A j \in DOMAIN results[q] :
                       results[q][i].score >= results[q][j].score].score

TopResults(q, n) == SubSeq(results[q], 1, SmallerOf(Len(results[q]), n))

ChunksOf(s) == [i \in DOMAIN s |-> s[i].chunk]

\* The response is sent and the audit task queued.
Respond(q, from, a) ==
    /\ Advance(q, from, "record")
    /\ answer' = [answer EXCEPT ![q] = a]
    /\ UNCHANGED <<stores, asked, found, audit>>

Abstain(q, reason) ==
    Respond(q, "gate",
        [conclusion |-> "abstention", sources |-> <<>>, abstained |-> TRUE,
         reason |-> reason,
         score |-> IF results[q] = <<>> THEN NoValue ELSE TopScore(q),
         used |-> 0])

NoContext(q) ==
    /\ results[q] = <<>>
    /\ Abstain(q, "no_context")
    /\ UNCHANGED prompted

BelowThreshold(q) ==
    /\ results[q] # <<>>
    /\ TopScore(q) < MinScore
    /\ Abstain(q, "below_threshold")
    /\ UNCHANGED prompted

Passes(q) == results[q] # <<>> /\ TopScore(q) >= MinScore

Retrieve(q) ==
    /\ Passes(q)
    /\ asked[q].mode = "retrieve"
    /\ Respond(q, "gate",
           [conclusion |-> "listing",
            sources |-> ChunksOf(TopResults(q, MaxContextChunks)),
            abstained |-> FALSE, reason |-> NoValue, score |-> TopScore(q),
            used |-> 0])
    /\ UNCHANGED prompted

\* _build_context and _build_numbered_context: the first few results.
PromptSize(q) == IF asked[q].mode = "extract" THEN ExtractMaxChunks
                 ELSE MaxContextChunks

CallLlm(q) ==
    /\ Advance(q, "gate", "llm")
    /\ Passes(q)
    /\ asked[q].mode \in {"synth", "extract"}
    /\ prompted' = [prompted EXCEPT ![q] = Range(ChunksOf(TopResults(q, PromptSize(q))))]
    /\ UNCHANGED <<stores, asked, found, answer, audit>>

\* Mutant: the prompt's chunks are all listed after the quoted one.
CitedAgain(q, used) ==
    <<results[q][used].chunk>> \o ChunksOf(TopResults(q, ExtractMaxChunks))

\* The quoted chunk first, then the others of the prompt.
Cited(q, used) ==
    LET shown == ChunksOf(TopResults(q, ExtractMaxChunks))
        others == {i \in DOMAIN shown : shown[i] # results[q][used].chunk}
        order == Ascending(others)
    IN  <<results[q][used].chunk>> \o [k \in DOMAIN order |-> shown[order[k]]]

Quote(q, used) ==
    /\ asked[q].mode = "extract"
    /\ Respond(q, "llm",
           [conclusion |-> "quote", sources |-> Cited(q, used),
            abstained |-> FALSE, reason |-> NoValue, score |-> TopScore(q),
            used |-> used])
    /\ UNCHANGED prompted

\* The model quotes chunk i (the schema has only a lower bound): clamped.
ExtractQuotes(q, i) == Quote(q, SmallerOf(i, Len(TopResults(q, ExtractMaxChunks))))

\* Mutant: an exception of the LLM client reaches the handler.
ExtractGivesUp(q) ==
    /\ Advance(q, "llm", "done")
    /\ asked[q].mode = "extract"
    /\ UNCHANGED <<stores, asked, found, prompted, answer, audit>>

\* No reply, no JSON, no_match or an empty quote: _python_fallback_across_chunks
\* takes the best sentence of any result.
ExtractFallsBack(q) == \E i \in 1..Len(results[q]) : Quote(q, i)

\* What RagAnswer.model_validate lets through.  Text that reads like an
\* abstention makes the answer one; an answer without sources gets them all.
SynthAnswers(q, conclusion, abstained, reason, sources) ==
    LET recovered == ~abstained /\ conclusion = "abstention"
        refused == abstained \/ recovered
    IN
    /\ asked[q].mode = "synth"
    /\ Respond(q, "llm",
           [conclusion |-> conclusion,
            sources |-> IF recovered THEN <<>>
                        ELSE IF ~refused /\ sources = <<>> THEN ChunksOf(results[q])
                        ELSE sources,
            abstained |-> refused,
            reason |-> IF refused THEN "model_refused" ELSE reason,
            score |-> TopScore(q), used |-> 0])
    /\ UNCHANGED prompted

\* The client raises, or the JSON does not validate: a 500.
SynthFails(q) ==
    /\ Advance(q, "llm", "done")
    /\ asked[q].mode = "synth"
    /\ UNCHANGED <<stores, asked, found, prompted, answer, audit>>

Gate(q) ==
    /\ step[q] = "gate"
    /\ NoContext(q) \/ BelowThreshold(q) \/ Retrieve(q) \/ CallLlm(q)

Llm(q) ==
    /\ step[q] = "llm"
    /\ \/ \E i \in 1..(ExtractMaxChunks + 1) : ExtractQuotes(q, i)
       \/ ExtractFallsBack(q)
       \/ \E conclusion \in {"abstention", "claim"}, abstained \in BOOLEAN,
             reason \in Reasons \cup {NoValue}, sources \in {<<>>, <<NoValue>>} :
               SynthAnswers(q, conclusion, abstained, reason, sources)
       \/ SynthFails(q)

-----------------------------------------------------------------------------
\* The audit record.

Record(q) ==
    /\ Advance(q, "record", "done")
    /\ audit' = [audit EXCEPT ![q] =
           [tenant |-> asked[q].tenant, mode |-> asked[q].mode,
            abstained |-> answer[q].abstained, sources |-> answer[q].sources]]
    /\ UNCHANGED <<stores, asked, found, prompted, answer>>

\* log_entry never raises: a failed write leaves only a log line.  So does a
\* process that stops between the response and the task.
RecordFails(q) ==
    /\ Advance(q, "record", "done")
    /\ UNCHANGED <<stores, asked, found, prompted, answer, audit>>

Handle(q) == \/ SearchDense(q) \/ SearchSparse(q) \/ Rerank(q) \/ LoadFacts(q)
             \/ SearchFails(q) \/ Gate(q) \/ Llm(q) \/ Record(q) \/ RecordFails(q)

Next ==
    \/ \E q \in Requests :
         \/ \E t \in Tenants, mode \in Modes, n \in 1..MaxVariants : Query(q, t, mode, n)
         \/ Handle(q)
    \/ Write

Spec == Init /\ [][Next]_vars

\* A handler runs on in its thread: each store read and LLM call returns or
\* raises (the HTTP clients have timeouts).
FairSpec == Spec /\ \A q \in Requests : WF_vars(Handle(q))

-----------------------------------------------------------------------------
\* Properties.

AuditRows == [tenant : Tenants, mode : Modes, abstained : BOOLEAN,
              sources : Seq(Chunks \cup {NoValue})]

TypeOK ==
    /\ rows \in [Chunks -> Rows \cup {NoValue}]
    /\ points \in [Chunks -> Tenants \cup {NoValue}]
    /\ fts \in [Chunks -> Tenants \cup {NoValue}]
    /\ writing \in Writings \cup {NoValue}
    /\ writes \in 0..MaxWrites
    /\ step \in [Requests -> Steps]
    /\ asked \in [Requests -> Askings \cup {NoValue}]
    /\ hits \in [Requests -> SUBSET Chunks]
    /\ ranked \in [Requests -> Seq(Chunks \X BaseScores)]
    /\ results \in [Requests -> Seq(Results)]
    /\ prompted \in [Requests -> SUBSET Chunks]
    /\ answer \in [Requests -> Answers \cup {NoValue}]
    /\ audit \in [Requests -> AuditRows \cup {NoValue}]

Answered(q) == answer[q] # NoValue

Refuses(q, reason) == answer[q].abstained /\ answer[q].reason = reason

(***************************************************************************)
(* answer.py:22: the LLM sees something only if some result reaches the    *)
(* threshold, and an answer abstains for want of context exactly when      *)
(* there is none, for a low score exactly when every result is below: one  *)
(* good result, wherever the boost has moved it, is enough to go on.       *)
(***************************************************************************)
GateHolds ==
    \A q \in Requests :
      LET good == \E i \in DOMAIN results[q] : results[q][i].score >= MinScore IN
      /\ prompted[q] # {} => good
      /\ Answered(q) =>
           /\ Refuses(q, "no_context") <=> results[q] = <<>>
           /\ Refuses(q, "below_threshold") <=> results[q] # <<>> /\ ~good

(***************************************************************************)
(* What a quoting or listing answer cites can be looked up: it cites at    *)
(* least one chunk, none twice, each in the chunks table, and within the   *)
(* size of what the mode may show.                                         *)
(***************************************************************************)
CitationsHold ==
    \A q \in Requests :
      Answered(q) /\ answer[q].conclusion \in {"quote", "listing"} =>
        LET cited == answer[q].sources IN
        /\ cited # <<>>
        /\ IsInjective(cited)
        /\ \A c \in Range(cited) : rows[c] # NoValue
        /\ Len(cited) <= IF answer[q].conclusion = "listing" THEN MaxContextChunks
                         ELSE ExtractMaxChunks + 1

(***************************************************************************)
(* search.py:130: after the boost the first result is the top one.  Every  *)
(* answer's max_source_score is its score, and a listing is in order of    *)
(* relevance.                                                              *)
(***************************************************************************)
BestFirst ==
    \A q \in Requests :
      /\ \A i, j \in DOMAIN results[q] :
           i < j => results[q][i].score >= results[q][j].score
      /\ Answered(q) /\ results[q] # <<>> => answer[q].score = results[q][1].score

(***************************************************************************)
(* docs/architecture.md:13: what a tenant is shown is its own, as long as  *)
(* no two tenants ingest the same PDF.                                     *)
(***************************************************************************)
TenantSeparation ==
    \A q \in Requests : \A i \in DOMAIN results[q] :
        results[q][i].tenant = asked[q].tenant

(***************************************************************************)
(* In extract mode nothing after the gate fails: whatever the LLM returns  *)
(* or raises, the client gets an answer with a quote (answer.py:17).       *)
(***************************************************************************)
ExtractAlwaysAnswers ==
    \A q \in Requests :
      prompted[q] # {} /\ asked[q].mode = "extract" /\ step[q] # "llm" =>
        Answered(q) /\ ~answer[q].abstained /\ answer[q].used \in DOMAIN results[q]

(***************************************************************************)
(* Every request gets a response, be it an error.                          *)
(***************************************************************************)
Responds == \A q \in Requests : step[q] = "dense" ~> step[q] = "done"

-----------------------------------------------------------------------------
\* What the documentation says and the code does not do.

(***************************************************************************)
(* answer.py:414: it is the cross-encoder's score below which the answer   *)
(* abstains without an LLM call.                                           *)
(***************************************************************************)
GateIsOnRerankScore ==
    \A q \in Requests :
      prompted[q] # {} => \E i \in DOMAIN results[q] : results[q][i].base >= MinScore
=============================================================================
