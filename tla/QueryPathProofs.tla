--------------------------- MODULE QueryPathProofs ---------------------------
(***************************************************************************)
(* Proofs about QueryPath, for any number of requests, chunks, tenants and *)
(* texts, any scores and boosts, and any limits of the retrieval.          *)
(***************************************************************************)
EXTENDS QueryPath, DataLemmas

-----------------------------------------------------------------------------
\* The inductive invariant.

(***************************************************************************)
(* A result list: each chunk once, best score first, its rows there.       *)
(***************************************************************************)
Distinct(list) ==
    \A i, j \in DOMAIN list : i # j => list[i].chunk # list[j].chunk

Sorted(list) ==
    \A i, j \in DOMAIN list : i < j => list[i].score >= list[j].score

Found(table, list) == \A i \in DOMAIN list : table[list[i].chunk] # NoValue

\* The best result reaches the threshold.
Good(list) == list # <<>> /\ list[1].score >= MinScore

(***************************************************************************)
(* What an answer a given over a result list owes to the gate, to the      *)
(* ordering and to the chunks it cites.                                    *)
(***************************************************************************)
Fits(a, list, table) ==
    /\ a.abstained /\ a.reason = "no_context" <=> list = <<>>
    /\ a.abstained /\ a.reason = "below_threshold" <=> list # <<>> /\ ~Good(list)
    /\ list # <<>> => a.score = list[1].score
    /\ a.conclusion \in {"quote", "listing"} =>
         /\ a.sources # <<>>
         /\ \A i, j \in DOMAIN a.sources : i # j => a.sources[i] # a.sources[j]
         /\ \A i \in DOMAIN a.sources :
              a.sources[i] \in Chunks /\ table[a.sources[i]] # NoValue
         /\ Len(a.sources) <= IF a.conclusion = "listing" THEN MaxContextChunks
                              ELSE ExtractMaxChunks + 1

\* An answer of extract mode after the gate.
Quotes(a, list) == a # NoValue /\ ~a.abstained /\ a.used \in DOMAIN list

(***************************************************************************)
(* Without shared PDFs the stores hold a chunk for its owner alone.        *)
(***************************************************************************)
StoresHeld ==
    ~SharedPdfs =>
      /\ \A c \in Chunks : rows[c] # NoValue => rows[c].tenant = Owner[c]
      /\ \A c \in Chunks : points[c] \in {Owner[c], NoValue}
      /\ \A c \in Chunks : fts[c] \in {Owner[c], NoValue}
      /\ writing # NoValue => writing.tenant = Owner[writing.chunk]

Early == {"idle", "dense", "sparse", "rerank", "facts"}

(***************************************************************************)
(* What a request has at each place in the handler.                        *)
(***************************************************************************)
OrderHeld(q) ==
    /\ step[q] = "idle" => hits[q] = {} /\ ranked[q] = <<>>
    /\ step[q] # "idle" => asked[q] \in Askings
    /\ step[q] \in {"dense", "sparse"} => asked[q].left >= 1
    /\ step[q] \in Early => results[q] = <<>>
    /\ step[q] \in Early \cup {"gate"} => prompted[q] = {} /\ answer[q] = NoValue
    /\ step[q] = "llm" => Good(results[q])
    /\ step[q] = "record" => answer[q] # NoValue

(***************************************************************************)
(* Without shared PDFs it only ever holds chunks of its own tenant.        *)
(***************************************************************************)
MineHeld(q) ==
    ~SharedPdfs =>
      /\ \A c \in hits[q] : Owner[c] = asked[q].tenant
      /\ \A i \in DOMAIN ranked[q] : Owner[ranked[q][i][1]] = asked[q].tenant
      /\ \A i \in DOMAIN results[q] : results[q][i].tenant = asked[q].tenant

ListsHeld(q) ==
    /\ \A i, j \in DOMAIN ranked[q] : i # j => ranked[q][i][1] # ranked[q][j][1]
    /\ Distinct(results[q]) /\ Sorted(results[q]) /\ Found(rows, results[q])

AnswerHeld(q) ==
    /\ prompted[q] # {} => Good(results[q])
    /\ answer[q] # NoValue => Fits(answer[q], results[q], rows)
    /\ prompted[q] # {} /\ asked[q].mode = "extract" /\ step[q] # "llm" =>
         Quotes(answer[q], results[q])

Held(q) == OrderHeld(q) /\ MineHeld(q) /\ ListsHeld(q) /\ AnswerHeld(q)

IInv == TypeOK /\ StoresHeld /\ \A q \in Requests : Held(q)

\* Nothing of request p changes.
Same(p) ==
    /\ step'[p] = step[p] /\ asked'[p] = asked[p] /\ hits'[p] = hits[p]
    /\ ranked'[p] = ranked[p] /\ results'[p] = results[p]
    /\ prompted'[p] = prompted[p] /\ answer'[p] = answer[p]

(***************************************************************************)
(* A request nothing happens to keeps what it has, rows being added or     *)
(* not.                                                                    *)
(***************************************************************************)
LEMMA SameHeld ==
    ASSUME IInv, NEW p \in Requests, Same(p),
           \A c \in Chunks : rows[c] # NoValue => rows'[c] # NoValue
    PROVE  Held(p)'
<1> USE DEF Same
<1>1. Held(p)
  BY DEF IInv
<1>2. OrderHeld(p)' /\ MineHeld(p)'
  BY <1>1 DEF Held, OrderHeld, MineHeld, Early, Good
<1>3. results[p] \in Seq(Results)
  BY DEF IInv, TypeOK
<1>4. \A i \in DOMAIN results[p] : results[p][i].chunk \in Chunks
  <2>1. \A i \in DOMAIN results[p] : results[p][i] \in Results
    BY <1>3
  <2>2. QED BY <2>1 DEF Results
<1>5. ListsHeld(p)'
  BY <1>1, <1>4 DEF Held, ListsHeld, Distinct, Sorted, Found
<1>6. ASSUME answer[p] # NoValue
      PROVE  Fits(answer[p], results[p], rows')
  <2>1. Fits(answer[p], results[p], rows)
    BY <1>1, <1>6 DEF Held, AnswerHeld
  <2>2. ASSUME answer[p].conclusion \in {"quote", "listing"},
               NEW i \in DOMAIN answer[p].sources
        PROVE  rows'[answer[p].sources[i]] # NoValue
    BY <2>1, <2>2 DEF Fits
  <2>3. QED BY <2>1, <2>2 DEF Fits
<1>7. AnswerHeld(p)'
  BY <1>1, <1>6 DEF Held, AnswerHeld, Good, Quotes
<1>8. QED BY <1>2, <1>5, <1>7 DEF Held

(***************************************************************************)
(* A handler's step disturbs its own request only.                         *)
(***************************************************************************)
LEMMA OneRequest ==
    ASSUME IInv, TypeOK', UNCHANGED stores, NEW q \in Requests,
           \A p \in Requests : p # q => Same(p), Held(q)'
    PROVE  IInv'
<1>1. rows' = rows /\ StoresHeld'
  BY DEF IInv, StoresHeld, stores
<1>2. ASSUME NEW p \in Requests PROVE Held(p)'
  <2>1. CASE p = q
    BY <2>1
  <2>2. CASE p # q
    BY <1>1, <2>2, SameHeld
  <2>3. QED BY <2>1, <2>2
<1>3. QED BY <1>1, <1>2 DEF IInv

LEMMA InitHolds == Init => IInv
<1> SUFFICES ASSUME Init PROVE IInv
  OBVIOUS
<1>1. \A c \in Chunks : Owner[c] \in Tenants
  BY ConstantsAssumption
<1>2. TypeOK
  <2>1. rows \in [Chunks -> Rows \cup {NoValue}]
    BY DEF Init
  <2>2. points \in [Chunks -> Tenants \cup {NoValue}] /\ fts = points
    BY <1>1 DEF Init
  <2>3. writes \in 0..MaxWrites
    BY ConstantsAssumption DEF Init
  <2>4. <<>> \in Seq(Chunks \X BaseScores) /\ <<>> \in Seq(Results)
    OBVIOUS
  <2>5. QED BY <2>1, <2>2, <2>3, <2>4 DEF Init, TypeOK, Steps
<1>3. StoresHeld
  BY DEF Init, StoresHeld
<1>4. ASSUME NEW q \in Requests PROVE Held(q)
  BY DEF Init, Held, OrderHeld, MineHeld, ListsHeld, AnswerHeld, Early, Good, Distinct,
         Sorted, Found
<1>5. QED BY <1>2, <1>3, <1>4 DEF IInv

-----------------------------------------------------------------------------
\* Ingest's steps.

LEMMA WriteHolds == ASSUME IInv, Write PROVE IInv'
<1> USE DEF stores, found
<1>1. ASSUME NEW c \in Chunks, NEW t \in Tenants, NEW text \in Texts,
             BeginWrite(c, t, text)
      PROVE  TypeOK' /\ StoresHeld' /\ \A d \in Chunks : rows[d] # NoValue => rows'[d] # NoValue
  <2>1. [tenant |-> t, text |-> text] \in Rows
    BY DEF Rows
  <2>2. [chunk |-> c, tenant |-> t, next |-> "vectors"] \in Writings
    BY DEF Writings
  <2>3. rows' \in [Chunks -> Rows \cup {NoValue}] /\ writing' \in Writings \cup {NoValue}
    BY <1>1, <2>1, <2>2 DEF IInv, TypeOK, BeginWrite
  <2>4. writes' \in 0..MaxWrites
    BY <1>1, ConstantsAssumption DEF IInv, TypeOK, BeginWrite
  <2>5. TypeOK'
    BY <1>1, <2>3, <2>4 DEF IInv, TypeOK, BeginWrite, Write
  <2>6. rows'[c].tenant = t /\ rows'[c] # NoValue /\ \A d \in Chunks : d # c => rows'[d] = rows[d]
    BY <1>1, <2>1, RecordsAssumption DEF IInv, TypeOK, BeginWrite
  <2>7. StoresHeld'
    BY <1>1, <2>6 DEF IInv, StoresHeld, BeginWrite
  <2>8. QED BY <2>5, <2>6, <2>7
<1>2. ASSUME WriteVectors \/ WriteLexical \/ StopWriting
      PROVE  TypeOK' /\ StoresHeld' /\ rows' = rows
  <2>1. writing \in Writings /\ writing.chunk \in Chunks /\ writing.tenant \in Tenants
    BY <1>2 DEF IInv, TypeOK, WriteVectors, WriteLexical, StopWriting, Writing, Writings
  <2>2. writing' \in Writings \cup {NoValue}
    BY <1>2, <2>1 DEF WriteVectors, WriteLexical, StopWriting, Writings
  <2>3. points' \in [Chunks -> Tenants \cup {NoValue}] /\ fts' \in [Chunks -> Tenants \cup {NoValue}]
    BY <1>2, <2>1 DEF IInv, TypeOK, WriteVectors, WriteLexical, StopWriting
  <2>4. TypeOK'
    BY <1>2, <2>2, <2>3 DEF IInv, TypeOK, Write, WriteVectors, WriteLexical, StopWriting
  <2>5. writing' # NoValue => writing'.tenant = writing.tenant /\ writing'.chunk = writing.chunk
    BY <1>2, <2>1 DEF WriteVectors, WriteLexical, StopWriting, Writings
  <2>6. StoresHeld'
    BY <1>2, <2>1, <2>5 DEF IInv, TypeOK, StoresHeld, WriteVectors, WriteLexical,
                            StopWriting, Writing
  <2>7. QED BY <1>2, <2>4, <2>6 DEF WriteVectors, WriteLexical, StopWriting
<1>3. TypeOK' /\ StoresHeld' /\ \A d \in Chunks : rows[d] # NoValue => rows'[d] # NoValue
  BY <1>1, <1>2 DEF Write
<1>4. ASSUME NEW p \in Requests PROVE Held(p)'
  BY <1>3, SameHeld DEF Write, Same
<1>5. QED BY <1>3, <1>4 DEF IInv

-----------------------------------------------------------------------------
\* Retrieval's steps.

LEMMA QueryHolds ==
    ASSUME IInv, NEW q \in Requests, NEW t \in Tenants, NEW mode \in Modes,
           NEW n \in 1..MaxVariants, Query(q, t, mode, n)
    PROVE  IInv'
<1> DEFINE new == [tenant |-> t, mode |-> mode, left |-> n]
<1> USE DEF Query, Advance, found
<1>1. new \in Askings /\ new.left >= 1
  BY ConstantsAssumption DEF Askings
<1>2. asked' \in [Requests -> Askings \cup {NoValue}] /\ step' \in [Requests -> Steps]
  BY <1>1 DEF IInv, TypeOK, Steps
<1>3. TypeOK'
  BY <1>2 DEF IInv, TypeOK, stores
<1>4. \A p \in Requests : p # q => Same(p)
  BY DEF Same, IInv, TypeOK
<1>5. asked'[q] = new /\ step[q] = "idle" /\ step'[q] = "dense"
  BY DEF IInv, TypeOK
<1> HIDE DEF new
<1>6. Held(q)
  BY DEF IInv
<1>7. OrderHeld(q)'
  BY <1>1, <1>5, <1>6 DEF Held, OrderHeld, Early
<1>8. MineHeld(q)' /\ ListsHeld(q)' /\ AnswerHeld(q)'
  BY <1>5, <1>6 DEF Held, OrderHeld, MineHeld, ListsHeld, AnswerHeld, Early, stores
<1>9. QED BY <1>3, <1>4, <1>7, <1>8, OneRequest DEF Held

LEMMA SearchDenseHolds ==
    ASSUME IInv, NEW q \in Requests, SearchDense(q)
    PROVE  IInv'
<1> USE DEF SearchDense, Advance, Reachable
<1>1. PICK near \in SUBSET Reachable(points, asked[q].tenant) :
        hits' = [hits EXCEPT ![q] = @ \cup near]
  OBVIOUS
<1>2. near \in SUBSET Chunks
  OBVIOUS
<1>3. hits' \in [Requests -> SUBSET Chunks] /\ step' \in [Requests -> Steps]
  BY <1>1, <1>2 DEF IInv, TypeOK, Steps
<1>4. TypeOK'
  BY <1>3 DEF IInv, TypeOK, stores
<1>5. \A p \in Requests : p # q => Same(p)
  BY <1>1 DEF Same, IInv, TypeOK
<1>6. hits'[q] = hits[q] \cup near /\ step[q] = "dense" /\ step'[q] = "sparse"
  BY <1>1 DEF IInv, TypeOK
<1>7. Held(q)
  BY DEF IInv
<1>8. OrderHeld(q)'
  BY <1>6, <1>7 DEF Held, OrderHeld, Early
<1>9. asked[q].tenant \in Tenants /\ asked[q].tenant # NoValue
  BY <1>6, <1>7, NoValueAssumption DEF Held, OrderHeld, Askings
<1>10. ~SharedPdfs => \A c \in near : Owner[c] = asked[q].tenant
  BY <1>2, <1>9 DEF IInv, StoresHeld
<1>11. MineHeld(q)'
  BY <1>6, <1>7, <1>10 DEF Held, MineHeld
<1>12. ListsHeld(q)' /\ AnswerHeld(q)'
  BY <1>6, <1>7 DEF Held, OrderHeld, ListsHeld, AnswerHeld, Early, stores
<1>13. QED BY <1>4, <1>5, <1>8, <1>11, <1>12, OneRequest DEF Held

LEMMA SearchSparseHolds ==
    ASSUME IInv, NEW q \in Requests, SearchSparse(q)
    PROVE  IInv'
<1> USE DEF SearchSparse, Advance, Reachable
<1>1. PICK matching \in SUBSET Reachable(fts, asked[q].tenant) :
        \E fused \in SUBSET (hits[q] \cup matching) : hits' = [hits EXCEPT ![q] = fused]
  OBVIOUS
<1>2. PICK fused \in SUBSET (hits[q] \cup matching) : hits' = [hits EXCEPT ![q] = fused]
  BY <1>1
<1>3. step[q] = "sparse" /\ Held(q) /\ asked[q] \in Askings /\ asked[q].left >= 1
  BY DEF IInv, Held, OrderHeld
<1>4. asked' = [asked EXCEPT ![q].left = @ - 1]
  OBVIOUS
<1>5. asked'[q] = [asked[q] EXCEPT !.left = @ - 1]
  BY <1>4 DEF IInv, TypeOK
<1>6. /\ asked'[q] \in Askings /\ asked'[q].left = asked[q].left - 1
      /\ asked'[q].tenant = asked[q].tenant /\ asked'[q].mode = asked[q].mode
  BY <1>3, <1>5, ConstantsAssumption DEF Askings
<1>7. asked' \in [Requests -> Askings \cup {NoValue}]
  BY <1>4, <1>6 DEF IInv, TypeOK
<1>8. fused \in SUBSET Chunks
  BY DEF IInv, TypeOK
<1>9. hits' \in [Requests -> SUBSET Chunks] /\ step' \in [Requests -> Steps]
  BY <1>2, <1>8 DEF IInv, TypeOK, Steps
<1>10. TypeOK'
  BY <1>7, <1>9 DEF IInv, TypeOK, stores
<1>11. \A p \in Requests : p # q => Same(p)
  BY <1>2, <1>4 DEF Same, IInv, TypeOK
<1>12. /\ hits'[q] = fused /\ step'[q] \in {"rerank", "dense"}
       /\ step'[q] = "dense" => asked[q].left # 1
  BY <1>2 DEF IInv, TypeOK, LastVariant
<1>13. step'[q] = "dense" => asked'[q].left >= 1
  BY <1>3, <1>6, <1>12 DEF Askings
<1>14. OrderHeld(q)'
  BY <1>3, <1>6, <1>12, <1>13 DEF Held, OrderHeld, Early
<1>15. asked[q].tenant # NoValue
  BY <1>3, NoValueAssumption DEF Askings
<1>16. ~SharedPdfs => \A c \in fused : Owner[c] = asked[q].tenant
  BY <1>3, <1>8, <1>15 DEF IInv, StoresHeld, Held, MineHeld
<1>17. MineHeld(q)'
  BY <1>3, <1>6, <1>12, <1>16 DEF Held, MineHeld
<1>18. ListsHeld(q)' /\ AnswerHeld(q)'
  BY <1>3, <1>12 DEF Held, OrderHeld, ListsHeld, AnswerHeld, Early, stores
<1>19. QED BY <1>10, <1>11, <1>14, <1>17, <1>18, OneRequest DEF Held

LEMMA SearchFailsHolds ==
    ASSUME IInv, NEW q \in Requests, SearchFails(q)
    PROVE  IInv'
<1> USE DEF SearchFails
<1>1. TypeOK'
  BY DEF IInv, TypeOK, stores, Steps
<1>2. \A p \in Requests : p # q => Same(p)
  BY DEF Same, IInv, TypeOK
<1>3. hits'[q] = {} /\ ranked'[q] = <<>> /\ step'[q] = "done" /\ Held(q)
  BY DEF IInv, TypeOK
<1>4. Held(q)'
  BY <1>3 DEF Held, OrderHeld, MineHeld, ListsHeld, AnswerHeld, Early, stores
<1>5. QED BY <1>1, <1>2, <1>4, OneRequest

\* The reranker's list of candidates with their scores, in its order.
RankedOf(score, order, n) == [i \in 1..n |-> <<order[i], score[order[i]]>>]

(***************************************************************************)
(* It has some of the candidates, each once.                               *)
(***************************************************************************)
LEMMA RankedIs ==
    ASSUME NEW candidates \in SUBSET Chunks, NEW score \in [candidates -> BaseScores],
           NEW order \in Rankings(score)
    PROVE  LET pairs == RankedOf(score, order, SmallerOf(TopKFinal, Cardinality(candidates))) IN
           /\ pairs \in Seq(Chunks \X BaseScores)
           /\ \A i \in DOMAIN pairs : pairs[i][1] \in candidates
           /\ \A i, j \in DOMAIN pairs : i # j => pairs[i][1] # pairs[j][1]
<1> DEFINE n == SmallerOf(TopKFinal, Cardinality(candidates))
           pairs == RankedOf(score, order, n)
<1>1. Cardinality(candidates) \in Nat
  BY ConstantsAssumption, FS_Subset, FS_CardinalityType
<1>2. n \in Nat /\ n <= Cardinality(candidates)
  BY <1>1, ConstantsAssumption DEF SmallerOf
<1>3. order \in Bijection(1..Cardinality(candidates), candidates)
  BY DEF Rankings
<1>4. /\ order \in [1..Cardinality(candidates) -> candidates]
      /\ \A i, j \in 1..Cardinality(candidates) : order[i] = order[j] => i = j
  BY <1>3 DEF Bijection, Injection, IsInjective
<1> HIDE DEF n
<1>5. ASSUME NEW i \in 1..n PROVE i \in 1..Cardinality(candidates)
  BY <1>1, <1>2
<1>6. \A i \in 1..n : order[i] \in candidates /\ score[order[i]] \in BaseScores
  BY <1>4, <1>5
<1>7. DOMAIN pairs = 1..n /\ \A i \in 1..n : pairs[i] = <<order[i], score[order[i]]>>
  BY DEF RankedOf
<1>8. pairs \in Seq(Chunks \X BaseScores)
  BY <1>2, <1>6 DEF RankedOf
<1>9. \A i, j \in 1..n : i # j => order[i] # order[j]
  BY <1>4, <1>5
<1> HIDE DEF pairs
<1>10. /\ \A i \in DOMAIN pairs : pairs[i][1] \in candidates
       /\ \A i, j \in DOMAIN pairs : i # j => pairs[i][1] # pairs[j][1]
  BY <1>6, <1>7, <1>9
<1>11. QED BY <1>8, <1>10 DEF n, pairs

LEMMA RerankHolds ==
    ASSUME IInv, NEW q \in Requests, Rerank(q)
    PROVE  IInv'
<1> DEFINE candidates == {c \in hits[q] : rows[c] # NoValue}
<1>1. step[q] = "rerank" /\ Held(q) /\ candidates \in SUBSET Chunks
  BY DEF IInv, TypeOK, Rerank, Advance
<1>2. PICK score \in [candidates -> BaseScores] : \E order \in Rankings(score) :
        ranked' = [ranked EXCEPT ![q] =
                     [i \in 1..SmallerOf(TopKFinal, Cardinality(candidates)) |->
                         <<order[i], score[order[i]]>>]]
  BY DEF Rerank
<1>3. PICK order \in Rankings(score) :
        ranked' = [ranked EXCEPT ![q] =
                     [i \in 1..SmallerOf(TopKFinal, Cardinality(candidates)) |->
                         <<order[i], score[order[i]]>>]]
  BY <1>2
<1> DEFINE pairs == RankedOf(score, order, SmallerOf(TopKFinal, Cardinality(candidates)))
<1>4. ranked' = [ranked EXCEPT ![q] = pairs]
  BY <1>3 DEF RankedOf
<1> HIDE DEF candidates
<1>5. /\ pairs \in Seq(Chunks \X BaseScores)
      /\ \A i \in DOMAIN pairs : pairs[i][1] \in candidates
      /\ \A i, j \in DOMAIN pairs : i # j => pairs[i][1] # pairs[j][1]
  BY <1>1, RankedIs
<1> HIDE DEF pairs
<1>6. ranked' \in [Requests -> Seq(Chunks \X BaseScores)] /\ ranked'[q] = pairs
  BY <1>5, <1>4 DEF IInv, TypeOK
<1>7. /\ step' = [step EXCEPT ![q] = "facts"] /\ hits' = [hits EXCEPT ![q] = {}]
      /\ UNCHANGED <<stores, asked, results, prompted, answer, audit>>
  BY DEF Rerank, Advance
<1>8. TypeOK'
  BY <1>6, <1>7 DEF IInv, TypeOK, Steps, stores
<1>9. \A p \in Requests : p # q => Same(p)
  BY <1>4, <1>7 DEF Same, IInv, TypeOK
<1>10. hits'[q] = {} /\ step'[q] = "facts"
  BY <1>7 DEF IInv, TypeOK
<1>11. OrderHeld(q)' /\ AnswerHeld(q)'
  BY <1>1, <1>10, <1>7 DEF Held, OrderHeld, AnswerHeld, Early
<1>12. MineHeld(q)'
  BY <1>1, <1>5, <1>6, <1>10, <1>7 DEF Held, MineHeld, candidates
<1>13. ListsHeld(q)'
  BY <1>1, <1>5, <1>6, <1>7 DEF Held, ListsHeld, stores
<1>14. QED BY <1>8, <1>9, <1>11, <1>12, <1>13, <1>7, OneRequest DEF Held

(***************************************************************************)
(* The sort by score is of a strict order of the whole list.               *)
(***************************************************************************)
LEMMA ByScoreIs ==
    ASSUME NEW loaded, IsFiniteSet(DOMAIN loaded), DOMAIN loaded \in SUBSET Nat,
           \A i \in DOMAIN loaded : loaded[i].score \in Int
    PROVE  /\ Cardinality(DOMAIN loaded) \in Nat
           /\ ByScore(loaded) \in [1..Cardinality(DOMAIN loaded) -> DOMAIN loaded]
           /\ \A k, m \in 1..Cardinality(DOMAIN loaded) :
                k < m => /\ ByScore(loaded)[k] # ByScore(loaded)[m]
                         /\ loaded[ByScore(loaded)[k]].score >= loaded[ByScore(loaded)[m]].score
<1> DEFINE ids == DOMAIN loaded
           before == {p \in ids \X ids :
                        \/ loaded[p[1]].score > loaded[p[2]].score
                        \/ loaded[p[1]].score = loaded[p[2]].score /\ p[1] < p[2]}
<1>1. \A i, j : <<i, j>> \in before <=>
        /\ i \in ids /\ j \in ids
        /\ \/ loaded[i].score > loaded[j].score
           \/ loaded[i].score = loaded[j].score /\ i < j
  OBVIOUS
<1> HIDE DEF before
<1>2. Total(ids, before)
  <2>1. \A i \in ids : <<i, i>> \notin before
    BY <1>1
  <2>2. ASSUME NEW i \in ids, NEW j \in ids, NEW k \in ids,
               <<i, j>> \in before, <<j, k>> \in before
        PROVE  <<i, k>> \in before
    BY <1>1, <2>2
  <2>3. ASSUME NEW i \in ids, NEW j \in ids, i # j
        PROVE  <<i, j>> \in before \/ <<j, i>> \in before
    BY <1>1, <2>3
  <2>4. QED BY <2>1, <2>2, <2>3 DEF Total
<1>3. ByScore(loaded) = Ordered(ids, before)
  BY DEF ByScore, before
<1>4. /\ Cardinality(ids) \in Nat
      /\ Ordered(ids, before) \in [1..Cardinality(ids) -> ids]
      /\ \A k, m \in 1..Cardinality(ids) :
           k < m => <<Ordered(ids, before)[k], Ordered(ids, before)[m]>> \in before
  BY <1>2, OrderedIs
<1>5. \A i, j \in ids : <<i, j>> \in before => i # j /\ loaded[i].score >= loaded[j].score
  BY <1>1
<1>6. QED BY <1>3, <1>4, <1>5

\* The loaded results in the order of the sort.
SortedOf(loaded) == [k \in DOMAIN ByScore(loaded) |-> loaded[ByScore(loaded)[k]]]

(***************************************************************************)
(* They are the results loaded, each once, best first.                     *)
(***************************************************************************)
LEMMA SortedIs ==
    ASSUME NEW there \in SUBSET Nat, IsFiniteSet(there), NEW loaded \in [there -> Results],
           \A i, j \in there : i # j => loaded[i].chunk # loaded[j].chunk
    PROVE  LET list == SortedOf(loaded) IN
           /\ list \in Seq(Results) /\ Sorted(list) /\ Distinct(list)
           /\ \A k \in DOMAIN list : \E i \in there : list[k] = loaded[i]
<1> DEFINE list == SortedOf(loaded)
<1>1. DOMAIN loaded = there
  OBVIOUS
<1>2. \A i \in there : loaded[i] \in Results
  OBVIOUS
<1>3. \A i \in DOMAIN loaded : loaded[i].score \in Int
  BY <1>1, <1>2 DEF Results
<1>4. IsFiniteSet(DOMAIN loaded) /\ DOMAIN loaded \in SUBSET Nat
  BY <1>1
<1> DEFINE n == Cardinality(DOMAIN loaded)
           order == ByScore(loaded)
<1>5. /\ n \in Nat /\ order \in [1..n -> DOMAIN loaded]
      /\ \A k, m \in 1..n : k < m =>
           order[k] # order[m] /\ loaded[order[k]].score >= loaded[order[m]].score
  BY <1>3, <1>4, ByScoreIs
<1>6. list = [k \in DOMAIN order |-> loaded[order[k]]]
  BY DEF SortedOf
<1> HIDE DEF n, order
<1>7. DOMAIN order = 1..n
  BY <1>5
<1>8. /\ DOMAIN list = 1..n
      /\ \A k \in 1..n : list[k] = loaded[order[k]] /\ order[k] \in there
  BY <1>1, <1>5, <1>6, <1>7
<1>9. list \in Seq(Results)
  <2>1. list = [k \in 1..n |-> loaded[order[k]]]
    BY <1>6, <1>7
  <2>2. \A k \in 1..n : loaded[order[k]] \in Results
    BY <1>2, <1>8
  <2>3. QED BY <1>5, <2>1, <2>2
<1> HIDE DEF list
<1>10. Sorted(list)
  BY <1>5, <1>8 DEF Sorted
<1>11. Distinct(list)
  <2>1. \A k, m \in 1..n : k # m => order[k] # order[m]
    BY <1>5
  <2>2. ASSUME NEW k \in 1..n, NEW m \in 1..n, k # m
        PROVE  list[k].chunk # list[m].chunk
    <3>1. order[k] # order[m] /\ order[k] \in there /\ order[m] \in there
      BY <1>8, <2>1, <2>2
    <3>2. QED BY <1>8, <3>1
  <2>3. QED BY <1>8, <2>2 DEF Distinct
<1>12. QED BY <1>8, <1>9, <1>10, <1>11 DEF list

\* The positions of the reranker's list whose row is there, and their results.
ThereOf(pairs) == {i \in DOMAIN pairs : rows[pairs[i][1]] # NoValue}
LoadedOf(pairs) == [i \in ThereOf(pairs) |-> Boosted(pairs[i])]

(***************************************************************************)
(* The results loaded for the reranker's list are those of its chunks that *)
(* are still there.                                                        *)
(***************************************************************************)
LEMMA LoadedIs ==
    ASSUME TypeOK, NEW pairs \in Seq(Chunks \X BaseScores),
           \A i, j \in DOMAIN pairs : i # j => pairs[i][1] # pairs[j][1]
    PROVE  LET there == ThereOf(pairs)
               loaded == LoadedOf(pairs)
           IN  /\ there \in SUBSET Nat /\ IsFiniteSet(there)
               /\ loaded \in [there -> Results]
               /\ \A i, j \in there : i # j => loaded[i].chunk # loaded[j].chunk
               /\ \A i \in there :
                    /\ i \in DOMAIN pairs /\ pairs[i][1] \in Chunks
                    /\ loaded[i].chunk = pairs[i][1] /\ rows[pairs[i][1]] # NoValue
                    /\ loaded[i].tenant = rows[pairs[i][1]].tenant
<1> DEFINE there == ThereOf(pairs)
           loaded == LoadedOf(pairs)
<1>1. /\ Len(pairs) \in Nat /\ DOMAIN pairs = 1..Len(pairs)
      /\ \A i \in DOMAIN pairs : pairs[i] \in Chunks \X BaseScores
  OBVIOUS
<1>2. \A i \in DOMAIN pairs : pairs[i][1] \in Chunks /\ pairs[i][2] \in BaseScores
  BY <1>1
<1>3. there \in SUBSET Nat /\ IsFiniteSet(there) /\ there \in SUBSET (DOMAIN pairs)
  <2>1. there \in SUBSET (1..Len(pairs)) /\ there \in SUBSET (DOMAIN pairs)
    BY <1>1 DEF ThereOf
  <2>2. IsFiniteSet(1..Len(pairs))
    BY <1>1, FS_Interval
  <2>3. IsFiniteSet(there)
    BY <2>1, <2>2, FS_Subset
  <2>4. QED BY <1>1, <2>1, <2>3
<1>4. ASSUME NEW i \in there
      PROVE  /\ loaded[i] \in Results
             /\ loaded[i].chunk = pairs[i][1] /\ rows[pairs[i][1]] # NoValue
             /\ loaded[i].tenant = rows[pairs[i][1]].tenant
  <2>1. /\ rows[pairs[i][1]] \in Rows /\ pairs[i][1] \in Chunks
        /\ pairs[i][2] \in BaseScores /\ pairs[i][2] \in Int
    BY <1>2, <1>3, ConstantsAssumption DEF TypeOK, ThereOf
  <2>2. rows[pairs[i][1]].tenant \in Tenants /\ rows[pairs[i][1]].text \in Texts
    BY <2>1 DEF Rows
  <2>3. Boost[rows[pairs[i][1]].text] \in Int
    BY <2>2, ConstantsAssumption
  <2>4. pairs[i][2] + Boost[rows[pairs[i][1]].text] \in Int
    BY <2>1, <2>3
  <2>5. loaded[i] = Boosted(pairs[i]) /\ rows[pairs[i][1]] # NoValue
    BY DEF LoadedOf, ThereOf
  <2>6. Boosted(pairs[i]) \in Results
    BY <2>1, <2>2, <2>4 DEF Boosted, Results
  <2>7. QED BY <2>5, <2>6 DEF Boosted
<1>5. loaded \in [there -> Results]
  <2>1. loaded = [i \in there |-> Boosted(pairs[i])]
    BY DEF LoadedOf
  <2>2. QED BY <1>4, <2>1
<1> HIDE DEF there, loaded
<1>6. ASSUME NEW i \in there, NEW j \in there, i # j
      PROVE  loaded[i].chunk # loaded[j].chunk
  <2>1. pairs[i][1] # pairs[j][1]
    BY <1>3, <1>6
  <2>2. QED BY <1>4, <2>1
<1>7. QED BY <1>2, <1>3, <1>4, <1>5, <1>6 DEF there, loaded

LEMMA LoadFactsHolds ==
    ASSUME IInv, NEW q \in Requests, LoadFacts(q)
    PROVE  IInv'
<1>1. /\ step[q] = "facts" /\ step'[q] = "gate" /\ ranked'[q] = <<>> /\ Held(q)
      /\ ranked[q] \in Seq(Chunks \X BaseScores)
  BY DEF LoadFacts, Advance, IInv, TypeOK
<1> DEFINE pairs == ranked[q]
           there == ThereOf(pairs)
           loaded == LoadedOf(pairs)
           list == SortedOf(loaded)
<1>2. results' = [results EXCEPT ![q] = list]
  BY DEF LoadFacts, SortedOf, LoadedOf, ThereOf
<1>3. pairs = ranked[q]
  OBVIOUS
<1>4. /\ step' = [step EXCEPT ![q] = "gate"] /\ ranked' = [ranked EXCEPT ![q] = <<>>]
      /\ UNCHANGED <<stores, asked, hits, prompted, answer, audit>>
  BY DEF LoadFacts, Advance
<1>5. \A i, j \in DOMAIN pairs : i # j => pairs[i][1] # pairs[j][1]
  BY <1>1, <1>3 DEF Held, ListsHeld
<1>6. TypeOK /\ pairs \in Seq(Chunks \X BaseScores)
  BY <1>1, <1>3 DEF IInv
<1>7. /\ there \in SUBSET Nat /\ IsFiniteSet(there)
      /\ loaded \in [there -> Results]
      /\ \A i, j \in there : i # j => loaded[i].chunk # loaded[j].chunk
      /\ \A i \in there :
           /\ i \in DOMAIN pairs /\ pairs[i][1] \in Chunks
           /\ loaded[i].chunk = pairs[i][1] /\ rows[pairs[i][1]] # NoValue
           /\ loaded[i].tenant = rows[pairs[i][1]].tenant
  BY <1>5, <1>6, LoadedIs
<1>8. /\ list \in Seq(Results) /\ Sorted(list) /\ Distinct(list)
      /\ \A k \in DOMAIN list : \E i \in there : list[k] = loaded[i]
  BY <1>7, SortedIs
<1> HIDE DEF pairs, there, loaded, list
<1>9. Found(rows, list)
  BY <1>7, <1>8 DEF Found
<1>10. results'[q] = list /\ results' \in [Requests -> Seq(Results)]
  BY <1>2, <1>8 DEF IInv, TypeOK
<1>11. TypeOK'
  BY <1>10, <1>4 DEF IInv, TypeOK, Steps, stores
<1>12. \A p \in Requests : p # q => Same(p)
  BY <1>2, <1>4 DEF Same, IInv, TypeOK
<1>13. OrderHeld(q)' /\ AnswerHeld(q)'
  BY <1>1, <1>10, <1>4 DEF Held, OrderHeld, AnswerHeld, Early
<1>14. ASSUME ~SharedPdfs, NEW k \in DOMAIN list
       PROVE  list[k].tenant = asked[q].tenant
  <2>1. PICK i \in there : list[k] = loaded[i]
    BY <1>8
  <2>2. Owner[pairs[i][1]] = asked[q].tenant
    BY <1>1, <1>14, <1>3, <1>7 DEF Held, MineHeld
  <2>3. QED BY <1>14, <1>7, <2>1, <2>2 DEF IInv, StoresHeld
<1>15. MineHeld(q)'
  BY <1>1, <1>10, <1>14, <1>4 DEF Held, MineHeld
<1>16. ListsHeld(q)'
  BY <1>1, <1>9, <1>10, <1>4, <1>8 DEF ListsHeld, stores
<1>17. QED BY <1>11, <1>12, <1>13, <1>15, <1>16, <1>4, OneRequest DEF Held

-----------------------------------------------------------------------------
\* The gate and the three modes.

(***************************************************************************)
(* What the invariant says of a request's results, position by position.   *)
(***************************************************************************)
LEMMA ResultsAre ==
    ASSUME IInv, NEW q \in Requests
    PROVE  /\ results[q] \in Seq(Results) /\ Len(results[q]) \in Nat
           /\ DOMAIN results[q] = 1..Len(results[q])
           /\ \A i \in 1..Len(results[q]) : /\ results[q][i].chunk \in Chunks
                                            /\ results[q][i].score \in Int
                                            /\ rows[results[q][i].chunk] # NoValue
           /\ \A i, j \in 1..Len(results[q]) :
                i # j => results[q][i].chunk # results[q][j].chunk
           /\ results[q] # <<>> <=> Len(results[q]) >= 1
<1>1. results[q] \in Seq(Results)
  BY DEF IInv, TypeOK
<1>2. /\ Len(results[q]) \in Nat /\ DOMAIN results[q] = 1..Len(results[q])
      /\ \A i \in 1..Len(results[q]) : results[q][i] \in Results
      /\ results[q] # <<>> <=> Len(results[q]) >= 1
  BY <1>1
<1>3. \A i \in 1..Len(results[q]) :
        results[q][i].chunk \in Chunks /\ results[q][i].score \in Int
  BY <1>2 DEF Results
<1>4. ListsHeld(q)
  BY DEF IInv, Held
<1>5. \A i \in 1..Len(results[q]) : rows[results[q][i].chunk] # NoValue
  BY <1>2, <1>4 DEF ListsHeld, Found
<1>6. \A i, j \in 1..Len(results[q]) : i # j => results[q][i].chunk # results[q][j].chunk
  BY <1>2, <1>4 DEF ListsHeld, Distinct
<1>7. QED BY <1>1, <1>2, <1>3, <1>5, <1>6

(***************************************************************************)
(* The best score is the first one's.                                      *)
(***************************************************************************)
LEMMA TopFirst ==
    ASSUME IInv, NEW q \in Requests, results[q] # <<>>
    PROVE  TopScore(q) = results[q][1].score /\ results[q][1].score \in Int
<1> DEFINE D == DOMAIN results[q]
           best == CHOOSE i \in D : \A j \in D : results[q][i].score >= results[q][j].score
<1>1. 1 \in D /\ \A i \in D : results[q][i].score \in Int
  BY ResultsAre
<1>2. \A j \in D : results[q][1].score >= results[q][j].score
  <2>1. Sorted(results[q])
    BY DEF IInv, Held, ListsHeld
  <2>2. ASSUME NEW j \in D PROVE j = 1 \/ 1 < j
    BY ResultsAre
  <2>3. ASSUME NEW j \in D PROVE results[q][1].score >= results[q][j].score
    BY <1>1, <2>1, <2>2 DEF Sorted
  <2>4. QED BY <2>3
<1>3. best \in D /\ \A j \in D : results[q][best].score >= results[q][j].score
  BY <1>1, <1>2
<1>4. TopScore(q) = results[q][best].score
  BY DEF TopScore
<1> HIDE DEF best, D
<1>5. QED BY <1>1, <1>2, <1>3, <1>4

(***************************************************************************)
(* What is shown are the chunks of the first few results.                  *)
(***************************************************************************)
LEMMA ShownAre ==
    ASSUME IInv, NEW q \in Requests, NEW n \in Nat
    PROVE  LET shown == ChunksOf(TopResults(q, n)) IN
           /\ shown \in Seq(Chunks) /\ Len(shown) = SmallerOf(Len(results[q]), n)
           /\ \A i \in 1..Len(shown) : i \in 1..Len(results[q]) /\ shown[i] = results[q][i].chunk
<1> DEFINE top == TopResults(q, n)
           shown == ChunksOf(top)
           m == SmallerOf(Len(results[q]), n)
<1>1. results[q] \in Seq(Results) /\ Len(results[q]) \in Nat
  BY ResultsAre
<1>2. m \in Nat /\ m <= Len(results[q])
  BY <1>1 DEF SmallerOf
<1>3. top = SubSeq(results[q], 1, m)
  BY DEF TopResults
<1> HIDE DEF m, top
<1>4. top \in Seq(Results) /\ Len(top) = m /\ \A i \in 1..m : top[i] = results[q][i]
  BY <1>1, <1>2, <1>3
<1>5. DOMAIN top = 1..m
  BY <1>4
<1>6. \A i \in 1..m : i \in 1..Len(results[q])
  BY <1>1, <1>2
<1>7. \A i \in 1..m : top[i].chunk \in Chunks
  BY <1>4, <1>6, ResultsAre
<1>8. shown = [i \in 1..m |-> top[i].chunk]
  BY <1>5 DEF ChunksOf
<1> HIDE DEF shown
<1>9. shown \in Seq(Chunks) /\ Len(shown) = m /\ \A i \in 1..m : shown[i] = top[i].chunk
  BY <1>2, <1>7, <1>8
<1>10. QED BY <1>4, <1>6, <1>9 DEF shown, top, m

LEMMA IntervalSize ==
    ASSUME NEW l \in Nat
    PROVE  IsFiniteSet(1..l) /\ Cardinality(1..l) = l
<1>1. IsFiniteSet(1..l)
  BY FS_Interval
<1>2. PICK c : c = Cardinality(1..l)
  OBVIOUS
<1>3. c = IF 1 > l THEN 0 ELSE l - 1 + 1
  BY <1>2, FS_Interval
<1>4. c = l
  BY <1>3
<1>5. QED BY <1>1, <1>2, <1>4

(***************************************************************************)
(* A quote cites the quoted chunk and the others that were shown.          *)
(***************************************************************************)
LEMMA CitedIs ==
    ASSUME IInv, NEW q \in Requests, NEW used \in 1..Len(results[q])
    PROVE  LET cited == Cited(q, used) IN
           /\ cited \in Seq(Chunks) /\ cited # <<>> /\ Len(cited) <= ExtractMaxChunks + 1
           /\ \A i, j \in DOMAIN cited : i # j => cited[i] # cited[j]
           /\ \A i \in DOMAIN cited : cited[i] \in Chunks /\ rows[cited[i]] # NoValue
<1> DEFINE shown == ChunksOf(TopResults(q, ExtractMaxChunks))
           first == results[q][used].chunk
           others == {i \in DOMAIN shown : shown[i] # first}
           order == Ascending(others)
           rest == [k \in DOMAIN order |-> shown[order[k]]]
           cited == <<first>> \o rest
           n == Cardinality(others)
<1>1. first \in Chunks /\ rows[first] # NoValue
  BY ResultsAre
<1>2. /\ shown \in Seq(Chunks) /\ Len(shown) \in Nat /\ Len(shown) <= ExtractMaxChunks
      /\ DOMAIN shown = 1..Len(shown)
      /\ \A i \in 1..Len(shown) :
           i \in 1..Len(results[q]) /\ shown[i] = results[q][i].chunk
  <2>1. ExtractMaxChunks \in Nat
    BY ConstantsAssumption
  <2>2. shown \in Seq(Chunks) /\ Len(shown) = SmallerOf(Len(results[q]), ExtractMaxChunks)
        /\ \A i \in 1..Len(shown) : i \in 1..Len(results[q]) /\ shown[i] = results[q][i].chunk
    BY <2>1, ShownAre
  <2>3. SmallerOf(Len(results[q]), ExtractMaxChunks) <= ExtractMaxChunks
    BY <2>1, ResultsAre DEF SmallerOf
  <2> HIDE DEF shown
  <2>4. QED BY <2>2, <2>3
<1> HIDE DEF shown, first
<1>3. /\ \A i \in DOMAIN shown : shown[i] \in Chunks /\ rows[shown[i]] # NoValue
      /\ \A i, j \in DOMAIN shown : i # j => shown[i] # shown[j]
  BY <1>2, ResultsAre
<1>4. IsFiniteSet(others) /\ Cardinality(others) <= Len(shown) /\ others \in SUBSET Nat
  <2>1. others \in SUBSET (1..Len(shown))
    BY <1>2
  <2>2. IsFiniteSet(1..Len(shown)) /\ Cardinality(1..Len(shown)) = Len(shown)
    BY <1>2, IntervalSize
  <2>3. IsFiniteSet(others) /\ Cardinality(others) <= Cardinality(1..Len(shown))
    BY <2>1, <2>2, FS_Subset
  <2>4. QED BY <2>1, <2>2, <2>3
<1>5. \A i \in others : i \in DOMAIN shown /\ shown[i] # first
  OBVIOUS
<1> HIDE DEF others
<1>7. /\ n \in Nat /\ order \in [1..n -> others]
      /\ \A k, m \in 1..n : k < m => order[k] < order[m]
  BY <1>4, AscendingIs
<1>8. \A k, m \in 1..n : k < m => order[k] < order[m]
  BY <1>7
<1>9. Cited(q, used) = cited
  BY DEF Cited, shown, first, others
<1>10. n <= ExtractMaxChunks
  BY <1>2, <1>4, <1>7, ConstantsAssumption
<1> HIDE DEF order, n
<1>11. \A k \in 1..n : order[k] \in others
  BY <1>7
<1>12. DOMAIN order = 1..n
  BY <1>7
<1>13. /\ rest \in Seq(Chunks) /\ Len(rest) = n
       /\ \A k \in 1..n : rest[k] = shown[order[k]]
  <2>1. \A k \in 1..n : shown[order[k]] \in Chunks
    BY <1>3, <1>5, <1>11
  <2>2. rest = [k \in 1..n |-> shown[order[k]]]
    BY <1>12
  <2>3. QED BY <1>7, <2>1, <2>2
<1> HIDE DEF rest
<1>14. /\ cited \in Seq(Chunks) /\ Len(cited) = n + 1 /\ DOMAIN cited = 1..(n + 1)
       /\ cited[1] = first /\ \A k \in 2..(n + 1) : cited[k] = rest[k - 1]
  BY <1>1, <1>7, <1>13
<1> HIDE DEF cited
<1>15. \A k \in 2..(n + 1) : k - 1 \in 1..n
  BY <1>7
<1>16. \A k \in 2..(n + 1) :
         /\ cited[k] = shown[order[k - 1]] /\ order[k - 1] \in others
         /\ cited[k] # first
  BY <1>5, <1>11, <1>13, <1>14, <1>15
<1>17. \A k \in DOMAIN cited : k = 1 \/ k \in 2..(n + 1)
  BY <1>7, <1>14
<1>18. \A k \in DOMAIN cited : cited[k] \in Chunks /\ rows[cited[k]] # NoValue
  BY <1>1, <1>3, <1>5, <1>14, <1>16, <1>17
<1>19. ASSUME NEW j \in 2..(n + 1), NEW k \in 2..(n + 1), j # k
       PROVE  cited[j] # cited[k]
  <2>1. order[j - 1] # order[k - 1]
    <3>1. j - 1 < k - 1 \/ k - 1 < j - 1
      BY <1>7, <1>19
    <3>2. order[j - 1] \in Nat /\ order[k - 1] \in Nat
      BY <1>4, <1>16
    <3>3. QED BY <1>8, <1>15, <3>1, <3>2
  <2>2. QED BY <1>3, <1>5, <1>16, <2>1
<1>20. ASSUME NEW j \in DOMAIN cited, NEW k \in DOMAIN cited, j # k
       PROVE  cited[j] # cited[k]
  BY <1>14, <1>16, <1>17, <1>19, <1>20
<1>21. cited # <<>> /\ Len(cited) <= ExtractMaxChunks + 1
  BY <1>7, <1>10, <1>14, ConstantsAssumption
<1>22. QED BY <1>9, <1>14, <1>18, <1>20, <1>21

(***************************************************************************)
(* Giving a well-formed answer that fits the results.                      *)
(***************************************************************************)
LEMMA RespondHolds ==
    ASSUME IInv, NEW q \in Requests, NEW from \in {"gate", "llm"}, NEW a \in Answers,
           Respond(q, from, a), UNCHANGED prompted,
           Fits(a, results[q], rows),
           from = "llm" /\ asked[q].mode = "extract" => Quotes(a, results[q])
    PROVE  IInv'
<1>1. /\ step[q] = from /\ step' = [step EXCEPT ![q] = "record"]
      /\ answer' = [answer EXCEPT ![q] = a]
      /\ UNCHANGED <<stores, asked, found, audit, prompted>>
  BY DEF Respond, Advance
<1>2. answer' \in [Requests -> Answers \cup {NoValue}] /\ step' \in [Requests -> Steps]
  BY <1>1 DEF IInv, TypeOK, Steps
<1>3. TypeOK'
  BY <1>1, <1>2 DEF IInv, TypeOK, stores, found
<1>4. \A p \in Requests : p # q => Same(p)
  BY <1>1 DEF Same, IInv, TypeOK, found
<1>5. /\ answer'[q] = a /\ step'[q] = "record" /\ results'[q] = results[q]
      /\ asked'[q] = asked[q] /\ prompted'[q] = prompted[q] /\ hits'[q] = hits[q]
      /\ ranked'[q] = ranked[q] /\ rows' = rows
  BY <1>1 DEF IInv, TypeOK, found, stores
<1>6. Held(q) /\ a # NoValue
  BY RecordsAssumption DEF IInv
<1>7. OrderHeld(q)'
  BY <1>1, <1>5, <1>6 DEF Held, OrderHeld, Early
<1>8. MineHeld(q)' /\ ListsHeld(q)'
  BY <1>5, <1>6 DEF Held, MineHeld, ListsHeld
<1>9. prompted[q] # {} => from = "llm"
  BY <1>1, <1>6 DEF Held, OrderHeld, Early
<1>10. AnswerHeld(q)'
  BY <1>1, <1>5, <1>6, <1>9 DEF Held, AnswerHeld
<1>11. QED BY <1>1, <1>3, <1>4, <1>7, <1>8, <1>10, OneRequest DEF Held

LEMMA AbstainsHold ==
    ASSUME IInv, NEW q \in Requests, NoContext(q) \/ BelowThreshold(q)
    PROVE  IInv'
<1>1. PICK reason \in {"no_context", "below_threshold"} :
        /\ Abstain(q, reason) /\ UNCHANGED prompted
        /\ reason = "no_context" <=> results[q] = <<>>
        /\ results[q] # <<>> => TopScore(q) < MinScore
  BY DEF NoContext, BelowThreshold
<1> DEFINE top == IF results[q] = <<>> THEN NoValue ELSE TopScore(q)
           a == [conclusion |-> "abstention", sources |-> <<>>, abstained |-> TRUE,
                 reason |-> reason, score |-> top, used |-> 0]
<1>2. Respond(q, "gate", a)
  BY <1>1 DEF Abstain
<1>3. top \in Int \cup {NoValue} /\ (results[q] # <<>> => top = results[q][1].score)
  BY TopFirst
<1>4. results[q] # <<>> => ~Good(results[q])
  <2>1. results[q] # <<>> => TopScore(q) = results[q][1].score /\ TopScore(q) \in Int
    BY TopFirst
  <2>2. QED BY <1>1, <2>1, ConstantsAssumption DEF Good
<1> HIDE DEF top
<1>5. a \in Answers
  <2>1. <<>> \in Seq(Chunks \cup {NoValue})
    OBVIOUS
  <2>2. QED BY <1>3, <2>1 DEF Answers, Conclusions, Reasons
<1>6. Fits(a, results[q], rows)
  BY <1>1, <1>3, <1>4 DEF Fits
<1> HIDE DEF a
<1>7. QED BY <1>1, <1>2, <1>5, <1>6, RespondHolds

\* Passing the gate.
LEMMA PassesIsGood ==
    ASSUME IInv, NEW q \in Requests, Passes(q)
    PROVE  Good(results[q]) /\ TopScore(q) = results[q][1].score /\ TopScore(q) \in Int
BY TopFirst DEF Passes, Good

LEMMA RetrieveHolds ==
    ASSUME IInv, NEW q \in Requests, Retrieve(q)
    PROVE  IInv'
<1> DEFINE shown == ChunksOf(TopResults(q, MaxContextChunks))
           a == [conclusion |-> "listing", sources |-> shown, abstained |-> FALSE,
                 reason |-> NoValue, score |-> TopScore(q), used |-> 0]
<1>1. Respond(q, "gate", a) /\ UNCHANGED prompted /\ Passes(q)
  BY DEF Retrieve
<1>2. /\ Good(results[q]) /\ TopScore(q) = results[q][1].score /\ TopScore(q) \in Int
  BY <1>1, PassesIsGood
<1>3. MaxContextChunks \in Nat /\ MaxContextChunks >= 1
  BY ConstantsAssumption
<1>4. /\ shown \in Seq(Chunks) /\ Len(shown) = SmallerOf(Len(results[q]), MaxContextChunks)
      /\ \A i \in 1..Len(shown) : i \in 1..Len(results[q]) /\ shown[i] = results[q][i].chunk
  BY <1>3, ShownAre
<1> HIDE DEF shown
<1>5. /\ Len(shown) <= MaxContextChunks /\ Len(shown) >= 1 /\ Len(shown) \in Nat
      /\ DOMAIN shown = 1..Len(shown)
  BY <1>2, <1>3, <1>4, ResultsAre DEF SmallerOf, Good
<1>6. /\ \A i \in DOMAIN shown : shown[i] \in Chunks /\ rows[shown[i]] # NoValue
      /\ \A i, j \in DOMAIN shown : i # j => shown[i] # shown[j]
  <2>1. \A i \in DOMAIN shown : shown[i] \in Chunks /\ rows[shown[i]] # NoValue
    BY <1>4, <1>5, ResultsAre
  <2>2. ASSUME NEW i \in DOMAIN shown, NEW j \in DOMAIN shown, i # j
        PROVE  shown[i] # shown[j]
    <3>1. results[q][i].chunk # results[q][j].chunk
      BY <1>4, <1>5, <2>2, ResultsAre
    <3>2. QED BY <1>4, <1>5, <3>1
  <2>3. QED BY <2>1, <2>2
<1>7. shown \in Seq(Chunks \cup {NoValue}) /\ shown # <<>>
  BY <1>4, <1>5
<1>8. a \in Answers
  BY <1>2, <1>7 DEF Answers, Conclusions
<1>9. Fits(a, results[q], rows)
  BY <1>2, <1>5, <1>6, <1>7 DEF Fits, Good
<1> HIDE DEF a
<1>10. QED BY <1>1, <1>8, <1>9, RespondHolds

LEMMA CallLlmHolds ==
    ASSUME IInv, NEW q \in Requests, CallLlm(q)
    PROVE  IInv'
<1> DEFINE shown == Range(ChunksOf(TopResults(q, PromptSize(q))))
<1>1. /\ step[q] = "gate" /\ step' = [step EXCEPT ![q] = "llm"] /\ Passes(q)
      /\ prompted' = [prompted EXCEPT ![q] = shown]
      /\ UNCHANGED <<stores, asked, found, answer, audit>>
  BY DEF CallLlm, Advance
<1>2. Good(results[q])
  BY <1>1, PassesIsGood
<1>3. shown \in SUBSET Chunks
  <2>1. PromptSize(q) \in Nat
    BY ConstantsAssumption DEF PromptSize
  <2>2. ChunksOf(TopResults(q, PromptSize(q))) \in Seq(Chunks)
    BY <2>1, ShownAre
  <2>3. QED BY <2>2 DEF Range
<1> HIDE DEF shown
<1>4. prompted' \in [Requests -> SUBSET Chunks] /\ step' \in [Requests -> Steps]
  BY <1>1, <1>3 DEF IInv, TypeOK, Steps
<1>5. TypeOK'
  BY <1>1, <1>4 DEF IInv, TypeOK, stores, found
<1>6. \A p \in Requests : p # q => Same(p)
  BY <1>1 DEF Same, IInv, TypeOK, found
<1>7. /\ answer'[q] = answer[q] /\ step'[q] = "llm" /\ results'[q] = results[q]
      /\ asked'[q] = asked[q] /\ hits'[q] = hits[q]
      /\ ranked'[q] = ranked[q] /\ rows' = rows
  BY <1>1 DEF IInv, TypeOK, found, stores
<1>8. Held(q)
  BY DEF IInv
<1>9. OrderHeld(q)' /\ AnswerHeld(q)'
  BY <1>1, <1>2, <1>7, <1>8 DEF Held, OrderHeld, AnswerHeld, Early
<1>10. MineHeld(q)' /\ ListsHeld(q)'
  BY <1>7, <1>8 DEF Held, MineHeld, ListsHeld
<1>11. QED BY <1>1, <1>5, <1>6, <1>9, <1>10, OneRequest DEF Held

LEMMA QuoteHolds ==
    ASSUME IInv, NEW q \in Requests, NEW used \in 1..Len(results[q]), step[q] = "llm",
           Quote(q, used)
    PROVE  IInv'
<1> DEFINE cited == Cited(q, used)
           a == [conclusion |-> "quote", sources |-> cited, abstained |-> FALSE,
                 reason |-> NoValue, score |-> TopScore(q), used |-> used]
<1>1. Respond(q, "llm", a) /\ UNCHANGED prompted
  BY DEF Quote
<1>2. Good(results[q]) /\ TopScore(q) = results[q][1].score /\ TopScore(q) \in Int
  <2>1. Good(results[q])
    BY DEF IInv, Held, OrderHeld
  <2>2. QED BY <2>1, TopFirst DEF Good
<1>3. /\ cited \in Seq(Chunks) /\ cited # <<>> /\ Len(cited) <= ExtractMaxChunks + 1
      /\ \A i, j \in DOMAIN cited : i # j => cited[i] # cited[j]
      /\ \A i \in DOMAIN cited : cited[i] \in Chunks /\ rows[cited[i]] # NoValue
  BY CitedIs
<1> HIDE DEF cited
<1>4. cited \in Seq(Chunks \cup {NoValue}) /\ used \in Nat /\ used \in DOMAIN results[q]
  BY <1>3, ResultsAre
<1>5. a \in Answers
  BY <1>2, <1>4 DEF Answers, Conclusions
<1>6. Fits(a, results[q], rows)
  BY <1>2, <1>3 DEF Fits, Good
<1>7. Quotes(a, results[q])
  BY <1>4, <1>5, RecordsAssumption DEF Quotes
<1> HIDE DEF a
<1>8. QED BY <1>1, <1>5, <1>6, <1>7, RespondHolds

LEMMA ExtractHolds ==
    ASSUME IInv, NEW q \in Requests, step[q] = "llm",
           \/ \E i \in 1..(ExtractMaxChunks + 1) : ExtractQuotes(q, i)
           \/ ExtractFallsBack(q)
    PROVE  IInv'
<1>1. Len(results[q]) \in Nat /\ Len(results[q]) >= 1
  <2>1. Good(results[q])
    BY DEF IInv, Held, OrderHeld
  <2>2. QED BY <2>1, ResultsAre DEF Good
<1>2. ASSUME NEW i \in 1..(ExtractMaxChunks + 1), ExtractQuotes(q, i)
      PROVE  IInv'
  <2> DEFINE used == SmallerOf(i, Len(TopResults(q, ExtractMaxChunks)))
  <2>1. ExtractMaxChunks \in Nat /\ ExtractMaxChunks >= 1
    BY ConstantsAssumption
  <2>2. Len(TopResults(q, ExtractMaxChunks)) = SmallerOf(Len(results[q]), ExtractMaxChunks)
    <3>1. SmallerOf(Len(results[q]), ExtractMaxChunks) \in 0..Len(results[q])
      BY <1>1, <2>1 DEF SmallerOf
    <3>2. results[q] \in Seq(Results)
      BY ResultsAre
    <3>3. QED BY <3>1, <3>2 DEF TopResults
  <2>3. used \in 1..Len(results[q])
    BY <1>1, <2>1, <2>2 DEF SmallerOf
  <2>4. Quote(q, used)
    BY <1>2 DEF ExtractQuotes
  <2> HIDE DEF used
  <2>5. QED BY <2>3, <2>4, QuoteHolds
<1>3. CASE ExtractFallsBack(q)
  BY <1>3, QuoteHolds DEF ExtractFallsBack
<1>4. QED BY <1>2, <1>3

LEMMA SynthHolds ==
    ASSUME IInv, NEW q \in Requests, step[q] = "llm",
           NEW conclusion \in {"abstention", "claim"}, NEW abstained \in BOOLEAN,
           NEW reason \in Reasons \cup {NoValue}, NEW sources \in {<<>>, <<NoValue>>},
           SynthAnswers(q, conclusion, abstained, reason, sources)
    PROVE  IInv'
<1> DEFINE recovered == ~abstained /\ conclusion = "abstention"
           refused == abstained \/ recovered
           given == IF recovered THEN <<>>
                    ELSE IF ~refused /\ sources = <<>> THEN ChunksOf(results[q])
                    ELSE sources
           why == IF refused THEN "model_refused" ELSE reason
           a == [conclusion |-> conclusion, sources |-> given, abstained |-> refused,
                 reason |-> why, score |-> TopScore(q), used |-> 0]
<1>1. Respond(q, "llm", a) /\ UNCHANGED prompted /\ asked[q].mode = "synth"
  BY DEF SynthAnswers
<1>2. Good(results[q]) /\ TopScore(q) = results[q][1].score /\ TopScore(q) \in Int
  <2>1. Good(results[q])
    BY DEF IInv, Held, OrderHeld
  <2>2. QED BY <2>1, TopFirst DEF Good
<1>3. ChunksOf(results[q]) \in Seq(Chunks \cup {NoValue})
  <2>1. ChunksOf(results[q]) = [i \in 1..Len(results[q]) |-> results[q][i].chunk]
    BY ResultsAre DEF ChunksOf
  <2>2. \A i \in 1..Len(results[q]) : results[q][i].chunk \in Chunks \cup {NoValue}
    BY ResultsAre
  <2>3. Len(results[q]) \in Nat
    BY ResultsAre
  <2>4. QED BY <2>1, <2>2, <2>3
<1>4. sources \in Seq(Chunks \cup {NoValue}) /\ <<>> \in Seq(Chunks \cup {NoValue})
  <2>1. <<>> \in Seq(Chunks \cup {NoValue})
    OBVIOUS
  <2>2. <<NoValue>> \in Seq(Chunks \cup {NoValue})
    OBVIOUS
  <2>3. QED BY <2>1, <2>2
<1>5. given \in Seq(Chunks \cup {NoValue})
  BY <1>3, <1>4
<1>6. refused \in BOOLEAN /\ why \in Reasons \cup {NoValue}
      /\ (refused => why = "model_refused")
  BY DEF Reasons
<1> HIDE DEF given, refused, why, recovered
<1>7. a \in Answers
  BY <1>2, <1>5, <1>6 DEF Answers, Conclusions
<1>8. Fits(a, results[q], rows)
  BY <1>2, <1>6 DEF Fits, Good
<1> HIDE DEF a
<1>9. QED BY <1>1, <1>7, <1>8, RespondHolds

LEMMA SynthFailsHolds ==
    ASSUME IInv, NEW q \in Requests, SynthFails(q)
    PROVE  IInv'
<1>1. /\ step[q] = "llm" /\ step' = [step EXCEPT ![q] = "done"] /\ asked[q].mode = "synth"
      /\ UNCHANGED <<stores, asked, found, prompted, answer, audit>>
  BY DEF SynthFails, Advance
<1>2. TypeOK'
  BY <1>1 DEF IInv, TypeOK, Steps, stores, found
<1>3. \A p \in Requests : p # q => Same(p)
  BY <1>1 DEF Same, IInv, TypeOK, found
<1>4. step'[q] = "done" /\ Held(q)
  BY <1>1 DEF IInv, TypeOK
<1>5. Held(q)'
  BY <1>1, <1>4 DEF Held, OrderHeld, MineHeld, ListsHeld, AnswerHeld, Early, stores, found
<1>6. QED BY <1>1, <1>2, <1>3, <1>5, OneRequest

LEMMA RecordHolds ==
    ASSUME IInv, NEW q \in Requests, Record(q) \/ RecordFails(q)
    PROVE  IInv'
<1> DEFINE row == [tenant |-> asked[q].tenant, mode |-> asked[q].mode,
                   abstained |-> answer[q].abstained, sources |-> answer[q].sources]
<1>1. /\ step[q] = "record" /\ step' = [step EXCEPT ![q] = "done"]
      /\ UNCHANGED <<stores, asked, found, prompted, answer>>
      /\ audit' = audit \/ audit' = [audit EXCEPT ![q] = row]
  BY DEF Record, RecordFails, Advance
<1>2. answer[q] \in Answers /\ asked[q] \in Askings /\ Held(q)
  BY <1>1 DEF IInv, TypeOK, Held, OrderHeld
<1>3. row \in AuditRows
  BY <1>2 DEF Answers, Askings, AuditRows
<1> HIDE DEF row
<1>4. TypeOK'
  BY <1>1, <1>3 DEF IInv, TypeOK, Steps, stores, found
<1>5. \A p \in Requests : p # q => Same(p)
  BY <1>1 DEF Same, IInv, TypeOK, found
<1>6. step'[q] = "done"
  BY <1>1 DEF IInv, TypeOK
<1>7. Held(q)'
  BY <1>1, <1>2, <1>6 DEF Held, OrderHeld, MineHeld, ListsHeld, AnswerHeld, Early, stores, found
<1>8. QED BY <1>1, <1>4, <1>5, <1>7, OneRequest

LEMMA StutterHolds == IInv /\ UNCHANGED vars => IInv'
<1> SUFFICES ASSUME IInv, UNCHANGED vars PROVE IInv'
  OBVIOUS
<1>1. TypeOK' /\ StoresHeld' /\ rows' = rows
  BY DEF vars, IInv, TypeOK, StoresHeld
<1>2. ASSUME NEW p \in Requests PROVE Held(p)'
  BY <1>1, SameHeld DEF vars, Same
<1>3. QED BY <1>1, <1>2 DEF IInv

LEMMA StepHolds == IInv /\ [Next]_vars => IInv'
<1> SUFFICES ASSUME IInv, [Next]_vars PROVE IInv'
  OBVIOUS
<1>1. CASE Write
  BY <1>1, WriteHolds
<1>2. ASSUME NEW q \in Requests, NEW t \in Tenants, NEW mode \in Modes,
             NEW n \in 1..MaxVariants, Query(q, t, mode, n)
      PROVE  IInv'
  BY <1>2, QueryHolds
<1>3. ASSUME NEW q \in Requests, Handle(q)
      PROVE  IInv'
  <2>1. CASE SearchDense(q) \/ SearchSparse(q) \/ Rerank(q) \/ LoadFacts(q) \/ SearchFails(q)
    BY <2>1, SearchDenseHolds, SearchSparseHolds, RerankHolds, LoadFactsHolds, SearchFailsHolds
  <2>2. CASE Gate(q)
    BY <2>2, AbstainsHold, RetrieveHolds, CallLlmHolds DEF Gate
  <2>3. CASE Llm(q)
    BY <2>3, ExtractHolds, SynthHolds, SynthFailsHolds DEF Llm
  <2>4. CASE Record(q) \/ RecordFails(q)
    BY <2>4, RecordHolds
  <2>5. QED BY <1>3, <2>1, <2>2, <2>3, <2>4 DEF Handle
<1>4. CASE UNCHANGED vars
  BY <1>4, StutterHolds
<1>5. QED BY <1>1, <1>2, <1>3, <1>4 DEF Next

-----------------------------------------------------------------------------
\* The theorems.

(***************************************************************************)
(* The invariant holds in every reachable state.                           *)
(***************************************************************************)
THEOREM Invariant == Spec => []IInv
<1>1. Init => IInv
  BY InitHolds
<1>2. IInv /\ [Next]_vars => IInv'
  BY StepHolds
<1>3. QED BY <1>1, <1>2, PTL DEF Spec

(***************************************************************************)
(* Every store, request, answer and audit record is well formed, whatever  *)
(* the stores held at the start and however ingest and requests            *)
(* interleave.                                                             *)
(***************************************************************************)
THEOREM QueryTypeCorrect == Spec => []TypeOK
<1>1. IInv => TypeOK
  BY DEF IInv
<1>2. QED BY <1>1, Invariant, PTL

(***************************************************************************)
(* The LLM is called only over a result that reaches answer_min_score, and *)
(* the gate refuses exactly when there is none: for want of context when   *)
(* nothing was found, for the score otherwise (AnswerService._gate).       *)
(***************************************************************************)
THEOREM GateAlwaysHolds == Spec => []GateHolds
<1>1. ASSUME IInv, NEW q \in Requests
      PROVE  (\E i \in DOMAIN results[q] : results[q][i].score >= MinScore) <=> Good(results[q])
  <2>1. Good(results[q]) => \E i \in DOMAIN results[q] : results[q][i].score >= MinScore
    BY <1>1, ResultsAre DEF Good
  <2>2. ASSUME NEW i \in DOMAIN results[q], results[q][i].score >= MinScore
        PROVE  Good(results[q])
    <3>1. i = 1 \/ 1 < i
      BY <1>1, ResultsAre
    <3>2. 1 \in DOMAIN results[q] /\ results[q] # <<>>
      BY <1>1, ResultsAre
    <3>3. results[q][1].score >= results[q][i].score
      BY <1>1, <3>1, <3>2, ResultsAre DEF IInv, Held, ListsHeld, Sorted
    <3>4. results[q][1].score \in Int /\ results[q][i].score \in Int /\ MinScore \in Int
      BY <1>1, <3>2, ResultsAre, ConstantsAssumption
    <3>5. QED BY <2>2, <3>2, <3>3, <3>4 DEF Good
  <2>3. QED BY <2>1, <2>2
<1>2. ASSUME IInv PROVE GateHolds
  <2>1. ASSUME NEW q \in Requests PROVE AnswerHeld(q)
    BY <1>2 DEF IInv, Held
  <2>2. QED BY <1>1, <1>2, <2>1 DEF GateHolds, Refuses, AnswerHeld, Answered, Fits
<1>3. QED BY <1>2, Invariant, PTL

(***************************************************************************)
(* The chunks a quoting or listing answer cites are in the chunks table,   *)
(* each cited once, and no more of them than the mode shows.               *)
(***************************************************************************)
THEOREM CitationsAlwaysHold == Spec => []CitationsHold
<1>1. ASSUME IInv PROVE CitationsHold
  <2>1. ASSUME NEW q \in Requests, Answered(q),
               answer[q].conclusion \in {"quote", "listing"}
        PROVE  /\ answer[q].sources # <<>> /\ IsInjective(answer[q].sources)
               /\ \A c \in Range(answer[q].sources) : rows[c] # NoValue
               /\ Len(answer[q].sources) <= IF answer[q].conclusion = "listing"
                                            THEN MaxContextChunks ELSE ExtractMaxChunks + 1
    <3>1. Fits(answer[q], results[q], rows)
      BY <1>1, <2>1 DEF IInv, Held, AnswerHeld, Answered
    <3>2. QED BY <2>1, <3>1 DEF Fits, IsInjective, Range
  <2>2. QED BY <2>1 DEF CitationsHold
<1>2. QED BY <1>1, Invariant, PTL

(***************************************************************************)
(* Results are always best first, and an answer's score is the first       *)
(* one's, although the boost is read after the reranker has ordered them.  *)
(***************************************************************************)
THEOREM BestAlwaysFirst == Spec => []BestFirst
<1>1. ASSUME IInv PROVE BestFirst
  <2>1. ASSUME NEW q \in Requests PROVE Sorted(results[q]) /\ AnswerHeld(q)
    BY <1>1 DEF IInv, Held, ListsHeld
  <2>2. QED BY <2>1 DEF BestFirst, Sorted, AnswerHeld, Answered, Fits
<1>2. QED BY <1>1, Invariant, PTL

(***************************************************************************)
(* When no two tenants ingest the same PDF, a tenant's results are its     *)
(* own, though the two reads of the chunks table have no tenant condition. *)
(***************************************************************************)
THEOREM TenantsSeparate ==
    ASSUME ~SharedPdfs
    PROVE  Spec => []TenantSeparation
<1>1. ASSUME IInv PROVE TenantSeparation
  BY <1>1 DEF IInv, Held, MineHeld, TenantSeparation
<1>2. QED BY <1>1, Invariant, PTL

(***************************************************************************)
(* After the gate an extract request always gets an answer with a quote of *)
(* one of its results, whatever the LLM returns or raises.                 *)
(***************************************************************************)
THEOREM ExtractAnswers == Spec => []ExtractAlwaysAnswers
<1>1. ASSUME IInv PROVE ExtractAlwaysAnswers
  BY <1>1 DEF IInv, Held, AnswerHeld, Quotes, ExtractAlwaysAnswers, Answered
<1>2. QED BY <1>1, Invariant, PTL

=============================================================================
