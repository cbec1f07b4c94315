------------------------ MODULE TextFunctionsProofs ------------------------
(***************************************************************************)
(* Proofs about TextFunctions: what the pure functions promise of any      *)
(* document, question, rankings, results and reply, for any limits.        *)
(***************************************************************************)
EXTENDS TextFunctions, ChunkingProofs

-----------------------------------------------------------------------------
\* The variants of a question.

(***************************************************************************)
(* _dedup keeps each item once, the first one first.                       *)
(***************************************************************************)
LEMMA DedupIs ==
    ASSUME NEW S, NEW items \in Seq(S), Len(items) >= 1, Len(items) <= MaxRewrites
    PROVE  LET o == Dedup(items)
           IN  /\ o \in Seq(S) /\ Len(o) >= 1 /\ Len(o) <= MaxRewrites
               /\ o[1] = items[1] /\ IsInjective(o)
               /\ \A n \in 1..Len(o) : \E i \in 1..Len(items) : o[n] = items[i]
               /\ \A i \in 1..Len(items) : \E n \in 1..Len(o) : o[n] = items[i]
<1> DEFINE L == Len(items)
           kept == {i \in DOMAIN items : \A j \in 1..(i - 1) : items[j] # items[i]}
           order == Ascending(kept)
           N == Cardinality(kept)
           o == Dedup(items)
<1>1. L \in Nat /\ DOMAIN items = 1..L /\ 1 \in 1..L /\ L <= MaxRewrites /\ MaxRewrites \in Nat
      /\ \A i \in 1..L : items[i] \in S
  BY QueryAssumption
<1>2. kept \in SUBSET (1..L) /\ 1 \in kept
  BY <1>1
<1>3. kept \in SUBSET Nat /\ IsFiniteSet(kept) /\ N \in Nat /\ N <= L
  <2>1. IsFiniteSet(1..L) /\ Cardinality(1..L) = L
    BY <1>1, FS_Interval
  <2> HIDE DEF kept, L
  <2>2. IsFiniteSet(kept) /\ Cardinality(kept) <= L
    BY <1>2, <2>1, FS_Subset
  <2>3. QED BY <1>2, <2>2, FS_CardinalityType
<1>4. \A i, j \in kept : i # j => items[i] # items[j]
  BY <1>2
<1>5. ASSUME NEW i \in 1..L PROVE \E j \in kept : items[j] = items[i]
  <2> DEFINE same == {j \in 1..L : items[j] = items[i]}
  <2>1. same \in SUBSET Nat /\ same # {}
    OBVIOUS
  <2>2. PICK j \in same : \A m \in same : j <= m
    <3> HIDE DEF same
    <3>1. QED BY <2>1, LeastOf
  <2>3. \A m \in 1..(j - 1) : items[m] # items[j]
    <3> SUFFICES ASSUME NEW m \in 1..(j - 1), items[m] = items[j] PROVE FALSE
      OBVIOUS
    <3>1. m \in 1..L /\ m < j
      BY <1>1, <2>2
    <3>2. m \in same
      BY <2>2, <3>1
    <3>3. QED BY <1>1, <2>2, <3>1, <3>2
  <2>4. j \in kept
    BY <1>1, <2>2, <2>3
  <2>5. QED BY <2>2, <2>4
<1>6. o = [n \in 1..SmallerOf(Len(order), MaxRewrites) |-> items[order[n]]]
  BY DEF Dedup
<1> HIDE DEF kept, o, L, N
<1>7. /\ order \in [1..N -> kept]
      /\ \A k, m \in 1..N : k < m => order[k] < order[m]
      /\ \A i \in kept : \E k \in 1..N : order[k] = i
  BY <1>3, AscendingIs DEF N
<1> HIDE DEF order
<1>8. Len(order) = N
  BY <1>3, <1>7
<1>9. SmallerOf(Len(order), MaxRewrites) = N
  BY <1>1, <1>3, <1>8 DEF SmallerOf
<1>10. o \in [1..N -> S] /\ \A n \in 1..N : o[n] = items[order[n]] /\ order[n] \in kept
  <2>1. \A n \in 1..N : order[n] \in kept /\ items[order[n]] \in S
    BY <1>1, <1>2, <1>7
  <2>2. QED BY <1>6, <1>9, <2>1
<1>11. o \in Seq(S) /\ Len(o) = N /\ DOMAIN o = 1..N
  BY <1>3, <1>10
<1>12. 1 \in 1..N /\ order[1] = 1
  <2>1. PICK k \in 1..N : order[k] = 1
    BY <1>2, <1>7
  <2>2. 1 \in 1..N
    BY <1>3, <2>1
  <2>3. order[1] \in Nat /\ order[1] >= 1
    <3>1. order[1] \in kept
      BY <1>7, <2>2
    <3>2. order[1] \in 1..L
      BY <1>2, <3>1
    <3>3. QED BY <1>1, <3>2
  <2>4. ~(1 < k)
    <3> SUFFICES ASSUME 1 < k PROVE FALSE
      OBVIOUS
    <3>1. order[1] < 1
      BY <1>7, <2>1, <2>2
    <3>2. QED BY <2>3, <3>1
  <2>5. k = 1
    BY <1>3, <2>1, <2>4
  <2>6. QED BY <2>1, <2>2, <2>5
<1>13. ASSUME NEW k \in 1..N, NEW m \in 1..N, k # m PROVE o[k] # o[m]
  <2>1. k < m \/ m < k
    BY <1>3, <1>13
  <2>2. order[k] \in kept /\ order[m] \in kept /\ order[k] # order[m]
    <3>1. order[k] \in Nat /\ order[m] \in Nat
      BY <1>3, <1>7
    <3>2. order[k] < order[m] \/ order[m] < order[k]
      BY <1>7, <2>1
    <3>3. QED BY <1>10, <3>1, <3>2
  <2>3. QED BY <1>4, <1>10, <2>2
<1>14. IsInjective(o)
  BY <1>11, <1>13 DEF IsInjective
<1>15. \A n \in 1..N : \E i \in 1..L : o[n] = items[i]
  BY <1>2, <1>10
<1>16. ASSUME NEW i \in 1..L PROVE \E n \in 1..N : o[n] = items[i]
  <2>1. PICK j \in kept : items[j] = items[i]
    BY <1>5
  <2>2. PICK n \in 1..N : order[n] = j
    BY <1>7
  <2>3. QED BY <1>10, <2>1, <2>2
<1>17. N >= 1 /\ N <= MaxRewrites
  BY <1>1, <1>3, <1>12
<1>18. Len(o) >= 1 /\ Len(o) <= MaxRewrites /\ o[1] = items[1]
  BY <1>10, <1>11, <1>12, <1>17
<1>19. /\ \A n \in 1..Len(o) : \E i \in 1..L : o[n] = items[i]
       /\ \A i \in 1..L : \E n \in 1..Len(o) : o[n] = items[i]
  BY <1>11, <1>15, <1>16
<1>20. o \in Seq(S) /\ IsInjective(o)
  BY <1>11, <1>14
<1>21. QED BY <1>18, <1>19, <1>20, Zenon DEF o, L

(***************************************************************************)
(* A variant that is not the question with Lapua put before it is an end   *)
(* of the question.                                                        *)
(***************************************************************************)
Questions == [words : Seq(Words), mark : BOOLEAN]

EndsAs(query, v) ==
    query.words # <<>> => v.words # <<>> /\ Last(v.words) = Last(query.words)

\* The end of a sequence after its first n elements, element by element.
LEMMA TailIs ==
    ASSUME NEW S, NEW seq \in Seq(S), NEW n \in Nat, n < Len(seq)
    PROVE  /\ SubSeq(seq, n + 1, Len(seq)) \in Seq(S)
           /\ Len(SubSeq(seq, n + 1, Len(seq))) = Len(seq) - n
           /\ \A i \in 1..(Len(seq) - n) : SubSeq(seq, n + 1, Len(seq))[i] = seq[n + i]
<1>1. Len(seq) \in Nat /\ \A i \in (n + 1)..Len(seq) : seq[i] \in S
  OBVIOUS
<1>2. QED BY <1>1, SMTT(30)

LEMMA WithoutIs ==
    ASSUME NEW query \in Questions, NEW n \in Nat, n < Len(query.words)
    PROVE  Without(query, n) \in Questions /\ EndsAs(query, Without(query, n))
<1> DEFINE words == query.words
           v == Without(query, n)
<1>1. words \in Seq(Words) /\ Len(words) \in Nat
  BY DEF Questions
<1>2. v = [words |-> SubSeq(words, n + 1, Len(words)), mark |-> FALSE]
  BY DEF Without
<1>3. v.words \in Seq(Words) /\ v \in Questions
  BY <1>1, <1>2, TailIs DEF Questions
<1>4. Len(v.words) = Len(words) - n /\ \A i \in 1..(Len(words) - n) : v.words[i] = words[n + i]
  <2> HIDE DEF words
  <2>1. v.words = SubSeq(words, n + 1, Len(words)) /\ n < Len(words)
    BY <1>2 DEF words
  <2>2. QED BY <1>1, <2>1, TailIs
<1>5. Len(words) - n \in 1..(Len(words) - n) /\ n + (Len(words) - n) = Len(words)
  BY <1>1
<1> HIDE DEF v
<1>6. v.words # <<>> /\ Last(v.words) = Last(words)
  BY <1>3, <1>4, <1>5 DEF Last
<1>7. QED BY <1>3, <1>6 DEF v, EndsAs

LEMMA ShortIs ==
    ASSUME NEW query \in Questions
    PROVE  /\ WhoIs(query) # NoReply => WhoIs(query) \in Questions /\ EndsAs(query, WhoIs(query))
           /\ Stripped(query) # NoReply =>
                Stripped(query) \in Questions /\ EndsAs(query, Stripped(query))
<1>1. query.words \in Seq(Words) /\ Len(query.words) \in Nat
  BY DEF Questions
<1>2. ASSUME WhoIs(query) # NoReply
      PROVE  WhoIs(query) \in Questions /\ EndsAs(query, WhoIs(query))
  <2>1. WhoIs(query) = Without(query, 2) /\ Len(query.words) >= 3
    BY <1>2 DEF WhoIs
  <2>2. 2 \in Nat /\ 2 < Len(query.words)
    BY <1>1, <2>1
  <2>3. QED BY <2>1, <2>2, WithoutIs
<1>3. ASSUME Stripped(query) # NoReply
      PROVE  Stripped(query) \in Questions /\ EndsAs(query, Stripped(query))
  <2> DEFINE n == QuestionLength(query.words)
  <2>1. CASE query.words = <<>>
    <3>1. n = 0
      BY <2>1 DEF QuestionLength
    <3>2. Stripped(query) = Without(query, 0)
      BY <1>3, <3>1 DEF Stripped
    <3>3. Without(query, 0) = [words |-> SubSeq(query.words, 0 + 1, Len(query.words)), mark |-> FALSE]
      BY DEF Without
    <3>4. Len(query.words) = 0 /\ SubSeq(query.words, 0 + 1, Len(query.words)) = <<>>
      BY <1>1, <2>1
    <3>5. Stripped(query) = NoReply
      BY <3>1, <3>3, <3>4 DEF Stripped
    <3>6. QED BY <1>3, <3>5
  <2>2. CASE query.words # <<>>
    <3>1. Len(query.words) >= 1
      BY <1>1, <2>2
    <3>2. n \in Nat /\ n < Len(query.words)
      <4> DEFINE L == Len(query.words)
      <4>1. n \in {0, SmallerOf(1, L - 1), SmallerOf(2, L - 1)}
        BY DEF QuestionLength
      <4> HIDE DEF L, n
      <4>2. L \in Nat /\ L >= 1
        BY <1>1, <3>1 DEF L
      <4>3. QED BY <4>1, <4>2 DEF SmallerOf, L
    <3> HIDE DEF n
    <3>3. Stripped(query) = Without(query, n)
      BY <1>3 DEF Stripped, n
    <3>4. QED BY <3>2, <3>3, WithoutIs
  <2>3. QED BY <2>1, <2>2
<1>4. QED BY <1>2, <1>3

LEMMA TaggedIs ==
    ASSUME NEW query \in Questions
    PROVE  /\ Tagged(query) # NoReply =>
                /\ Tagged(query) \in Questions /\ EndsAs(query, Tagged(query))
                /\ MentionsLapua(Tagged(query))
           /\ MentionsLapua(query) \/ Tagged(query) # NoReply
<1> DEFINE words == query.words
           lapua == <<"lapua", "kaupunki">>
           both == lapua \o words
           v == [query EXCEPT !.words = lapua \o @]
<1>1. words \in Seq(Words) /\ Len(words) \in Nat /\ query.mark \in BOOLEAN
      /\ query = [words |-> words, mark |-> query.mark]
  BY DEF Questions
<1>2. lapua \in Seq(Words) /\ Len(lapua) = 2 /\ lapua[1] = "lapua"
  BY QueryAssumption
<1>3. v = [words |-> both, mark |-> query.mark]
  <2>1. DOMAIN query = {"words", "mark"}
    BY DEF Questions
  <2> HIDE DEF lapua
  <2>2. v = [n \in {"words", "mark"} |-> IF n = "words" THEN both ELSE query[n]]
    BY <2>1
  <2> HIDE DEF v, both
  <2>3. QED BY <2>2
<1>4. /\ both \in Seq(Words) /\ Len(both) = 2 + Len(words) /\ both[1] = "lapua"
      /\ \A i \in 1..Len(words) : both[2 + i] = words[i]
  <2>1. ASSUME NEW s \in Seq(Words), NEW t \in Seq(Words), Len(s) = 2
        PROVE  /\ s \o t \in Seq(Words) /\ Len(s \o t) = 2 + Len(t) /\ (s \o t)[1] = s[1]
               /\ \A i \in 1..Len(t) : (s \o t)[2 + i] = t[i]
    <3> DEFINE L == Len(s)
               all == s \o t
    <3>1. all \in Seq(Words) /\ Len(t) \in Nat /\ L \in Nat
      OBVIOUS
    <3>2. Len(all) = L + Len(t)
      BY <3>1
    <3>3. \A k \in 1..L : all[k] = s[k]
      BY <3>1
    <3>4. \A k \in (L + 1)..Len(all) : all[k] = t[k - L]
      BY <3>1
    <3> HIDE DEF all
    <3>5. 1 \in 1..L /\ L = 2
      BY <2>1
    <3>6. \A i \in 1..Len(t) : 2 + i \in (L + 1)..Len(all) /\ (2 + i) - L = i
      BY <3>1, <3>2, <3>5
    <3> HIDE DEF L
    <3>7. Len(all) = 2 + Len(t) /\ all[1] = s[1]
      BY <3>2, <3>3, <3>5
    <3>8. \A i \in 1..Len(t) : all[2 + i] = t[i]
      BY <3>4, <3>6
    <3>9. QED BY <3>1, <3>7, <3>8 DEF all
  <2> HIDE DEF lapua, words
  <2>2. QED BY <1>1, <1>2, <2>1
<1>5. Tagged(query) = IF MentionsLapua(query) THEN NoReply ELSE v
  BY DEF Tagged
<1> HIDE DEF v, both, lapua
<1>6. v.words = both /\ v \in Questions
  BY <1>1, <1>3, <1>4 DEF Questions
<1>7. v # NoReply
  BY <1>6, QueryAssumption DEF Questions
<1>8. MentionsLapua(v)
  <2>1. 1 \in DOMAIN v.words /\ v.words[1] = "lapua"
    BY <1>1, <1>4, <1>6
  <2>2. QED BY <2>1 DEF MentionsLapua
<1>9. EndsAs(query, v)
  <2> SUFFICES ASSUME words # <<>> PROVE v.words # <<>> /\ Last(v.words) = Last(words)
    BY DEF EndsAs
  <2>1. Len(words) \in 1..Len(words)
    BY <1>1
  <2>2. both[2 + Len(words)] = words[Len(words)]
    BY <1>4, <2>1
  <2> HIDE DEF words
  <2>3. QED BY <1>1, <1>4, <1>6, <2>1, <2>2 DEF Last
<1>10. QED BY <1>5, <1>6, <1>7, <1>8, <1>9

\* t is s and behind it the variant, if there is one.
Extends(S, s, t, variant) ==
    /\ t \in Seq(S) /\ t[1] = s[1]
    /\ Len(t) >= Len(s) /\ Len(t) <= Len(s) + 1
    /\ \A i \in 1..Len(t) :
         \/ i \in 1..Len(s) /\ t[i] = s[i]
         \/ variant # NoReply /\ t[i] = variant
    /\ variant # NoReply => t[Len(t)] = variant

(***************************************************************************)
(* A variant put behind the others, if there is one.                       *)
(***************************************************************************)
LEMMA IfAnyIs ==
    ASSUME NEW S, NEW s \in Seq(S), Len(s) >= 1,
           NEW variant, variant # NoReply => variant \in S
    PROVE  Extends(S, s, s \o IfAny(variant), variant)
<1> DEFINE t == s \o IfAny(variant)
           L == Len(s)
<1>1. L \in Nat /\ 1 \in 1..L
  OBVIOUS
<1>2. CASE variant = NoReply
  <2>1. IfAny(variant) = <<>>
    BY <1>2 DEF IfAny
  <2>2. t = s
    BY <2>1
  <2> HIDE DEF t
  <2>3. QED BY <1>1, <1>2, <2>2 DEF t, Extends
<1>3. CASE variant # NoReply
  <2> DEFINE last == <<variant>>
  <2>1. IfAny(variant) = last
    BY <1>3 DEF IfAny
  <2>2. last \in Seq(S) /\ Len(last) = 1 /\ last[1] = variant
    BY <1>3
  <2>3. t = s \o last
    BY <2>1
  <2>4. t \in Seq(S) /\ Len(t) = L + 1
    <3>1. t \in Seq(S)
      BY <2>2, <2>3
    <3>2. Len(t) = L + 1
      BY <2>2, <2>3
    <3>3. QED BY <3>1, <3>2
  <2>5. \A k \in 1..L : t[k] = s[k]
    BY <2>2, <2>3
  <2>6. t[L + 1] = variant
    BY <2>2, <2>3, <1>1
  <2> HIDE DEF t, L, last
  <2>7. \A i \in 1..(L + 1) : i \in 1..L \/ i = L + 1
    BY <1>1
  <2>8. L + 1 >= L /\ L + 1 <= L + 1
    BY <1>1
  <2>9. QED BY <1>1, <1>3, <2>4, <2>5, <2>6, <2>7, <2>8 DEF t, L, Extends
<1>4. QED BY <1>2, <1>3

(***************************************************************************)
(* rewrite_query: the question first, no more than _MAX_REWRITES, none     *)
(* twice, each an end of the question, one that mentions Lapua.            *)
(***************************************************************************)
LEMMA RewritesIs ==
    ASSUME NEW query \in Questions
    PROVE  LET o == Rewrites(query)
           IN  /\ o \in Seq(Questions) /\ Len(o) >= 1 /\ Len(o) <= MaxRewrites
               /\ o[1] = query /\ IsInjective(o)
               /\ \A n \in 1..Len(o) : EndsAs(query, o[n])
               /\ \E n \in 1..Len(o) : MentionsLapua(o[n])
<1> DEFINE short == IF WhoIs(query) # NoReply THEN WhoIs(query) ELSE Stripped(query)
           tagged == Tagged(query)
           one == <<query>>
           two == one \o IfAny(short)
           items == two \o IfAny(tagged)
           o == Rewrites(query)
<1>1. short # NoReply => short \in Questions /\ EndsAs(query, short)
  BY ShortIs
<1>2. /\ tagged # NoReply => /\ tagged \in Questions /\ EndsAs(query, tagged)
                             /\ MentionsLapua(tagged)
      /\ MentionsLapua(query) \/ tagged # NoReply
  BY TaggedIs
<1>3. one \in Seq(Questions) /\ Len(one) = 1 /\ one[1] = query
  OBVIOUS
<1>4. EndsAs(query, query)
  BY DEF EndsAs
<1>5. o = Dedup(items)
  BY DEF Rewrites
<1> HIDE DEF short, tagged, one
<1>6. Extends(Questions, one, two, short)
  <2>1. one \in Seq(Questions) /\ Len(one) >= 1 /\ (short # NoReply => short \in Questions)
    BY <1>1, <1>3
  <2>2. QED BY <2>1, IfAnyIs
<1> HIDE DEF two
<1>7. Len(two) >= 1 /\ two[1] = query /\ Len(two) \in Nat /\ Len(two) <= 2
  <2>1. Len(one) = 1 /\ one[1] = query
    BY <1>3
  <2>2. /\ Len(two) \in Nat /\ Len(two) >= Len(one) /\ Len(two) <= Len(one) + 1
        /\ two[1] = one[1]
    BY <1>6 DEF Extends
  <2>3. QED BY <2>1, <2>2
<1>8. Extends(Questions, two, items, tagged)
  <2>1. two \in Seq(Questions) /\ Len(two) >= 1 /\ (tagged # NoReply => tagged \in Questions)
    BY <1>2, <1>6, <1>7 DEF Extends
  <2>2. QED BY <2>1, IfAnyIs
<1> HIDE DEF items
<1>9. Len(items) \in Nat /\ Len(items) >= 1 /\ Len(items) <= MaxRewrites /\ items[1] = query
  <2>1. /\ Len(items) \in Nat /\ Len(items) >= Len(two) /\ Len(items) <= Len(two) + 1
        /\ items[1] = two[1]
    BY <1>8 DEF Extends
  <2>2. QED BY <1>7, <2>1, QueryAssumption
<1>10. ASSUME NEW i \in 1..Len(items) PROVE EndsAs(query, items[i])
  <2>1. CASE i \in 1..Len(two) /\ items[i] = two[i]
    <3>1. CASE two[i] = one[i] /\ i \in 1..Len(one)
      BY <1>3, <1>4, <2>1, <3>1
    <3>2. CASE short # NoReply /\ two[i] = short
      BY <1>1, <2>1, <3>2
    <3>3. QED BY <1>6, <2>1, <3>1, <3>2 DEF Extends
  <2>2. CASE tagged # NoReply /\ items[i] = tagged
    BY <1>2, <2>2
  <2>3. QED BY <1>8, <2>1, <2>2 DEF Extends
<1>11. \E i \in 1..Len(items) : MentionsLapua(items[i])
  <2>1. CASE MentionsLapua(query)
    <3>1. 1 \in 1..Len(items) /\ items[1] = query
      BY <1>9
    <3>2. QED BY <2>1, <3>1
  <2>2. CASE tagged # NoReply
    <3>1. Len(items) \in 1..Len(items)
      BY <1>9
    <3>2. QED BY <1>2, <1>8, <2>2, <3>1 DEF Extends
  <2>3. QED BY <1>2, <2>1, <2>2
<1>12. /\ o \in Seq(Questions) /\ Len(o) >= 1 /\ Len(o) <= MaxRewrites
       /\ o[1] = items[1] /\ IsInjective(o)
       /\ \A n \in 1..Len(o) : \E i \in 1..Len(items) : o[n] = items[i]
       /\ \A i \in 1..Len(items) : \E n \in 1..Len(o) : o[n] = items[i]
  <2> HIDE DEF o
  <2>1. items \in Seq(Questions)
    BY <1>8 DEF Extends
  <2>2. QED BY <1>5, <1>9, <2>1, DedupIs
<1> HIDE DEF o
<1>13. \A n \in 1..Len(o) : EndsAs(query, o[n])
  BY <1>10, <1>12
<1>14. \E n \in 1..Len(o) : MentionsLapua(o[n])
  BY <1>11, <1>12
<1>15. QED BY <1>9, <1>12, <1>13, <1>14 DEF o

-----------------------------------------------------------------------------
\* The fusion of the rankings.

LEMMA RankIs ==
    ASSUME NEW S, NEW ranking \in Seq(S), NEW chunk \in Range(ranking)
    PROVE  /\ RankIn(ranking, chunk) \in DOMAIN ranking
           /\ RankIn(ranking, chunk) \in Nat \ {0}
           /\ ranking[RankIn(ranking, chunk)] = chunk
<1>1. \E i \in DOMAIN ranking : ranking[i] = chunk
  BY DEF Range
<1>2. RankIn(ranking, chunk) \in DOMAIN ranking /\ ranking[RankIn(ranking, chunk)] = chunk
  BY <1>1 DEF RankIn
<1>3. \A i \in DOMAIN ranking : i \in Nat \ {0}
  OBVIOUS
<1>4. QED BY <1>2, <1>3

(***************************************************************************)
(* A lower rank adds more to a score.                                      *)
(***************************************************************************)
LEMMA LowerRankAddsMore ==
    ASSUME NEW a \in Nat \ {0}, NEW i \in Nat \ {0}, NEW j \in Nat \ {0}, i < j,
           a % i = 0, a % j = 0
    PROVE  a \div j \in Nat /\ a \div i \in Nat /\ a \div j < a \div i
<1> DEFINE p == a \div j
           q == a \div i
<1>1. p * j = a /\ p \in Nat \ {0} /\ q * i = a /\ q \in Nat \ {0}
  BY ExactDiv
<1> HIDE DEF p, q
<1>2. PICK e \in Nat \ {0} : j = i + e
  <2>1. j - i \in Nat \ {0} /\ j = i + (j - i)
    OBVIOUS
  <2>2. QED BY <2>1
<1>3. ASSUME ~(p < q) PROVE FALSE
  <2>1. PICK d \in Nat : p = q + d
    <3>1. p - q \in Nat /\ p = q + (p - q)
      BY <1>1, <1>3
    <3>2. QED BY <3>1
  <2>2. p * j = q * i + d * i + p * e
    <3>1. p * j = p * i + p * e
      BY <1>1, <1>2
    <3>2. p * i = q * i + d * i
      BY <1>1, <2>1
    <3>3. QED BY <3>1, <3>2
  <2>3. d * i \in Nat /\ p * e \in Nat \ {0}
    <3>1. d * i \in Nat
      OBVIOUS
    <3>2. p * e \in Nat \ {0}
      BY <1>1
    <3>3. QED BY <3>1, <3>2
  <2> DEFINE x == d * i
             y == p * e
  <2>4. a = a + x + y
    BY <1>1, <2>2
  <2> HIDE DEF x, y
  <2>5. x \in Nat /\ y \in Nat \ {0}
    BY <2>3 DEF x, y
  <2>6. QED BY <2>4, <2>5
<1>4. QED BY <1>1, <1>3 DEF p, q

(***************************************************************************)
(* A chunk before another in all its rankings has the better score.        *)
(***************************************************************************)
LEMMA ScoreIs ==
    ASSUME NEW rankings \in RankingLists, NEW c, NEW d, Ranking(rankings, d) # {},
           \A r \in Ranking(rankings, d) :
             /\ c \in Range(rankings[r])
             /\ RankIn(rankings[r], c) < RankIn(rankings[r], d)
    PROVE  /\ Score(rankings, d) \in Nat /\ Score(rankings, c) \in Nat
           /\ Score(rankings, d) < Score(rankings, c)
<1> DEFINE S == Ranking(rankings, c)
           T == Ranking(rankings, d)
           part(x, r) == Scale \div (RankOffset + RankIn(rankings[r], x))
           f == [r \in T |-> part(d, r)]
           g == [r \in S |-> part(c, r)]
<1>1. rankings \in Seq(Seq(ChunkIds)) /\ Scale \in Nat \ {0} /\ RankOffset \in Nat
      /\ \A r \in DOMAIN rankings, i \in Nat :
           i \in DOMAIN rankings[r] => Scale % (RankOffset + i) = 0
  BY RankingAssumption
<1>2. IsFiniteSet(DOMAIN rankings)
  <2>1. DOMAIN rankings = 1..Len(rankings) /\ Len(rankings) \in Nat
    BY <1>1
  <2>2. IsFiniteSet(1..Len(rankings))
    BY <2>1, FS_Interval
  <2>3. QED BY <2>1, <2>2
<1>3. IsFiniteSet(S) /\ IsFiniteSet(T) /\ T \in SUBSET S /\ T # {}
  <2>1. S \subseteq DOMAIN rankings /\ T \subseteq DOMAIN rankings
    BY DEF Ranking
  <2>2. T \subseteq S
    BY DEF Ranking
  <2>3. QED BY <1>2, <2>1, <2>2, FS_Subset
<1>4. ASSUME NEW x, NEW r \in Ranking(rankings, x)
      PROVE  /\ RankOffset + RankIn(rankings[r], x) \in Nat \ {0}
             /\ RankIn(rankings[r], x) \in Nat
             /\ Scale % (RankOffset + RankIn(rankings[r], x)) = 0
             /\ part(x, r) \in Nat
  <2>1. rankings[r] \in Seq(ChunkIds) /\ x \in Range(rankings[r]) /\ r \in DOMAIN rankings
    BY <1>1 DEF Ranking
  <2> DEFINE i == RankIn(rankings[r], x)
  <2>2. i \in DOMAIN rankings[r] /\ i \in Nat \ {0}
    BY <2>1, RankIs
  <2> HIDE DEF i
  <2>3. RankOffset + i \in Nat \ {0} /\ Scale % (RankOffset + i) = 0
    BY <1>1, <2>1, <2>2
  <2>4. Scale \div (RankOffset + i) \in Nat
    BY <1>1, <2>3, ExactDiv
  <2>5. QED BY <2>2, <2>3, <2>4 DEF i
<1>5. ASSUME NEW r \in T PROVE f[r] \in Nat /\ f[r] < g[r]
  <2>1. r \in S /\ f[r] = part(d, r) /\ g[r] = part(c, r)
    BY <1>3
  <2> DEFINE i == RankOffset + RankIn(rankings[r], c)
             j == RankOffset + RankIn(rankings[r], d)
  <2>2. i \in Nat \ {0} /\ j \in Nat \ {0} /\ Scale % i = 0 /\ Scale % j = 0
    BY <1>4, <2>1
  <2>3. i < j
    <3>1. RankIn(rankings[r], c) \in Nat /\ RankIn(rankings[r], d) \in Nat
          /\ RankIn(rankings[r], c) < RankIn(rankings[r], d)
      BY <1>4, <2>1
    <3>2. QED BY <1>1, <3>1
  <2> HIDE DEF i, j
  <2>4. Scale \div j \in Nat /\ Scale \div j < Scale \div i
    BY <1>1, <2>2, <2>3, LowerRankAddsMore
  <2>5. QED BY <2>1, <2>4 DEF i, j
<1>6. \A r \in S : g[r] \in Nat
  BY <1>4
<1>7. Score(rankings, d) = SumFunctionOnSet(f, T) /\ Score(rankings, c) = SumFunctionOnSet(g, S)
  BY DEF Score, SumFunction
<1> HIDE DEF f, g, S, T
<1>8. SumFunctionOnSet(f, T) < SumFunctionOnSet(g, S)
  BY <1>3, <1>5, <1>6, SumGrows
<1>9. SumFunctionOnSet(f, T) \in Nat /\ SumFunctionOnSet(g, S) \in Nat
  BY <1>3, <1>5, <1>6, SumType
<1>10. QED BY <1>7, <1>8, <1>9

(***************************************************************************)
(* rrf_fuse: every chunk of the rankings once, by their scores.            *)
(***************************************************************************)
LEMMA FusionIs ==
    ASSUME NEW rankings \in RankingLists, NEW order \in Fusions(rankings)
    PROVE  LET all == UNION {Range(rankings[r]) : r \in DOMAIN rankings} IN
           /\ IsInjective(order) /\ Range(order) = all
           /\ \A c, d \in all :
                /\ c # d
                /\ \A r \in Ranking(rankings, d) :
                     /\ c \in Range(rankings[r])
                     /\ RankIn(rankings[r], c) < RankIn(rankings[r], d)
                => RankIn(order, c) < RankIn(order, d)
<1> DEFINE all == UNION {Range(rankings[r]) : r \in DOMAIN rankings}
           N == Cardinality(all)
           score(x) == Score(rankings, x)
<1>1. rankings \in Seq(Seq(ChunkIds))
  BY RankingAssumption
<1>2. IsFiniteSet(all)
  <2> DEFINE f == [r \in DOMAIN rankings |-> Range(rankings[r])]
  <2>1. IsFiniteSet(DOMAIN rankings)
    <3>1. DOMAIN rankings = 1..Len(rankings) /\ Len(rankings) \in Nat
      BY <1>1
    <3>2. IsFiniteSet(1..Len(rankings))
      BY <3>1, FS_Interval
    <3>3. QED BY <3>1, <3>2
  <2>2. ASSUME NEW r \in DOMAIN rankings PROVE IsFiniteSet(Range(rankings[r]))
    <3> DEFINE q == rankings[r]
    <3>1. q \in Seq(ChunkIds)
      BY <1>1
    <3> HIDE DEF q
    <3>2. DOMAIN q = 1..Len(q) /\ Len(q) \in Nat /\ q = [i \in DOMAIN q |-> q[i]]
      BY <3>1
    <3>3. IsFiniteSet(DOMAIN q)
      <4>1. Len(q) \in Nat
        BY <3>2
      <4>2. IsFiniteSet(1..Len(q))
        BY <4>1, FS_Interval
      <4>3. QED BY <3>2, <4>2
    <3>4. IsFiniteSet(Range(q))
      BY <3>2, <3>3, RangeFinite
    <3>5. QED BY <3>4 DEF q
  <2>3. DOMAIN f = DOMAIN rankings /\ f = [r \in DOMAIN rankings |-> f[r]]
        /\ \A r \in DOMAIN rankings : IsFiniteSet(f[r])
    BY <2>2
  <2>4. all = UNION Range(f)
    BY DEF Range
  <2> HIDE DEF f, all
  <2>5. QED BY <2>1, <2>3, <2>4, UnionFinite
<1>3. /\ order \in [1..N -> all]
      /\ \A i, j \in 1..N : i # j => order[i] # order[j]
      /\ \A i, j \in DOMAIN order : i < j => score(order[i]) >= score(order[j])
  BY DEF Fusions, SetToSeqs
<1>4. \A x \in all : Ranking(rankings, x) # {}
  BY DEF Ranking
<1>5. ASSUME NEW c \in all, NEW d \in all, c # d,
             \A r \in Ranking(rankings, d) :
               /\ c \in Range(rankings[r])
               /\ RankIn(rankings[r], c) < RankIn(rankings[r], d)
      PROVE  score(c) \in Nat /\ score(d) \in Nat /\ score(d) < score(c)
  BY <1>4, <1>5, ScoreIs
<1>6. IsInjective(order)
  BY <1>3 DEF IsInjective
<1> HIDE DEF all, N, score
<1>7. N \in Nat /\ IsFiniteSet(1..N) /\ Cardinality(1..N) = Cardinality(all)
  <2>1. N \in Nat
    BY <1>2, FS_CardinalityType DEF N
  <2>2. QED BY <2>1, FS_Interval DEF N
<1>8. order \in Surjection(1..N, all)
  <2>1. order \in Injection(1..N, all)
    BY <1>3, <1>6 DEF Injection
  <2>2. QED BY <1>2, <1>7, <2>1, FS_Injection
<1>9. Range(order) = all
  BY <1>3, <1>8 DEF Surjection, Range
<1>10. ASSUME NEW x \in all
       PROVE  RankIn(order, x) \in 1..N /\ order[RankIn(order, x)] = x
  <2>1. \E i \in DOMAIN order : order[i] = x
    BY <1>9 DEF Range
  <2>2. QED BY <1>3, <2>1 DEF RankIn
<1>11. ASSUME NEW c \in all, NEW d \in all, c # d,
              \A r \in Ranking(rankings, d) :
                /\ c \in Range(rankings[r])
                /\ RankIn(rankings[r], c) < RankIn(rankings[r], d)
       PROVE  RankIn(order, c) < RankIn(order, d)
  <2> DEFINE i == RankIn(order, c)
             j == RankIn(order, d)
  <2>1. i \in 1..N /\ order[i] = c /\ j \in 1..N /\ order[j] = d
    BY <1>10
  <2>2. score(c) \in Nat /\ score(d) \in Nat /\ score(d) < score(c)
    BY <1>5, <1>11
  <2> HIDE DEF i, j
  <2>3. j < i => score(d) >= score(c)
    BY <1>3, <2>1
  <2>4. ~(j < i)
    BY <2>2, <2>3
  <2>5. i # j
    BY <1>11, <2>1
  <2>6. i < j
    BY <1>7, <2>1, <2>4, <2>5
  <2>7. QED BY <2>6 DEF i, j
<1>12. QED BY <1>6, <1>9, <1>11 DEF all

-----------------------------------------------------------------------------
\* The quote of extract mode.

Sentences == [score : Nat, size : Nat \ {0}]

Results == [sentences : Seq(Sentences), size : Nat]

LEMMA ResultListsAre ==
    ASSUME NEW results \in ResultLists
    PROVE  results \in Seq(Results) /\ Len(results) \in Nat \ {0}
<1>1. results \in Seq(Results) /\ results # <<>>
  BY ReplyAssumption DEF Results, Sentences
<1>2. QED BY <1>1

(***************************************************************************)
(* The sizes in another order are the sizes.                               *)
(***************************************************************************)
LEMMA SizesAre ==
    ASSUME NEW sentences \in Seq(Sentences)
    PROVE  /\ Sizes(sentences) \in [1..Len(sentences) -> Nat \ {0}]
           /\ Len(Sizes(sentences)) = Len(sentences)
<1> DEFINE all == DOMAIN sentences
           before == {p \in all \X all :
                        \/ sentences[p[1]].size < sentences[p[2]].size
                        \/ sentences[p[1]].size = sentences[p[2]].size /\ p[1] < p[2]}
           order == Ordered(all, before)
           L == Len(sentences)
<1>1. L \in Nat /\ all = 1..L /\ \A i \in all : i \in Nat /\ sentences[i].size \in Nat \ {0}
  <2>1. L \in Nat /\ all = 1..L /\ \A i \in all : i \in Nat /\ sentences[i] \in Sentences
    OBVIOUS
  <2>2. \A x \in Sentences : x.size \in Nat \ {0}
    BY DEF Sentences
  <2> HIDE DEF all, L
  <2>3. QED BY <2>1, <2>2
<1>2. \A i, j \in all : <<i, j>> \in before <=>
         \/ sentences[i].size < sentences[j].size
         \/ sentences[i].size = sentences[j].size /\ i < j
  OBVIOUS
<1>3. Sizes(sentences) = [k \in DOMAIN order |-> sentences[order[k]].size]
  BY DEF Sizes
<1> HIDE DEF before, all, L
<1>4. Total(all, before)
  <2>1. \A i \in all : <<i, i>> \notin before
    BY <1>1, <1>2
  <2>2. \A i, j, k \in all :
          <<i, j>> \in before /\ <<j, k>> \in before => <<i, k>> \in before
    <3> DEFINE size(i) == sentences[i].size
    <3>1. \A i \in all : i \in Nat /\ size(i) \in Nat
      BY <1>1
    <3>2. \A i, j \in all : <<i, j>> \in before <=>
             size(i) < size(j) \/ (size(i) = size(j) /\ i < j)
      BY <1>2
    <3> HIDE DEF size
    <3> SUFFICES ASSUME NEW i \in all, NEW j \in all, NEW k \in all,
                        <<i, j>> \in before, <<j, k>> \in before
                 PROVE  <<i, k>> \in before
      OBVIOUS
    <3>3. i \in Nat /\ j \in Nat /\ k \in Nat
          /\ size(i) \in Nat /\ size(j) \in Nat /\ size(k) \in Nat
      BY <3>1
    <3>4. (size(i) < size(j) \/ (size(i) = size(j) /\ i < j))
          /\ (size(j) < size(k) \/ (size(j) = size(k) /\ j < k))
      BY <3>2
    <3>5. size(i) < size(k) \/ (size(i) = size(k) /\ i < k)
      BY <3>3, <3>4
    <3>6. QED BY <3>2, <3>5
  <2>3. \A i, j \in all : i # j => <<i, j>> \in before \/ <<j, i>> \in before
    BY <1>1, <1>2
  <2>4. QED BY <2>1, <2>2, <2>3 DEF Total
<1>5. IsFiniteSet(all) /\ Cardinality(all) = L
  <2>1. IsFiniteSet(1..L) /\ Cardinality(1..L) = L
    BY <1>1, FS_Interval
  <2>2. QED BY <1>1, <2>1
<1>6. order \in [1..L -> all]
  BY <1>4, <1>5, OrderedIs
<1> HIDE DEF order
<1>7. Sizes(sentences) \in [1..L -> Nat \ {0}]
  BY <1>1, <1>3, <1>6
<1>8. Len(Sizes(sentences)) = L
  BY <1>1, <1>7
<1>9. QED BY <1>7, <1>8 DEF L

LEMMA SumOfPieces ==
    ASSUME NEW a \in Nat, NEW b \in Nat
    PROVE  PieceSum(<<a>>) = a /\ PieceSum(<<a, b>>) = a + b + 1
<1>1. PieceSum(<<a>>) = a
  <2> DEFINE f == <<a>>
  <2>1. f[1] = a /\ DOMAIN f = {1} /\ Len(f) = 1
    OBVIOUS
  <2>2. PieceSum(f) = SumFunctionOnSet(f, {1}) + 1 - 1
    BY <2>1 DEF PieceSum, SumFunction
  <2> HIDE DEF f
  <2>3. IsFiniteSet({1}) /\ {1} \ {1} = {} /\ \A x \in {1} : f[x] \in Nat
    BY <2>1, FS_Singleton
  <2>4. SumFunctionOnSet(f, {1}) = f[1] + SumFunctionOnSet(f, {1} \ {1})
    BY <2>3, 1 \in {1}, SumTakeOut
  <2>5. SumFunctionOnSet(f, {1}) = a + 0
    BY <2>1, <2>3, <2>4, SumEmpty
  <2>6. QED BY <2>2, <2>5 DEF f
<1>2. PieceSum(<<a, b>>) = a + b + 1
  <2> DEFINE f == <<a, b>>
  <2>1. f[1] = a /\ f[2] = b /\ DOMAIN f = {1, 2} /\ Len(f) = 2
    OBVIOUS
  <2>2. PieceSum(f) = SumFunctionOnSet(f, {1, 2}) + 2 - 1
    BY <2>1 DEF PieceSum, SumFunction
  <2> HIDE DEF f
  <2>3. /\ IsFiniteSet({1}) /\ {1} \ {1} = {} /\ IsFiniteSet({1, 2}) /\ {1, 2} \ {2} = {1}
        /\ \A x \in {1, 2} : f[x] \in Nat
        /\ \A x \in {1} : f[x] \in Nat
    <3>1. IsFiniteSet({1}) /\ IsFiniteSet({1} \cup {2})
      BY FS_Singleton, FS_AddElement
    <3>2. {1} \cup {2} = {1, 2}
      OBVIOUS
    <3>3. QED BY <2>1, <3>1, <3>2
  <2>4. SumFunctionOnSet(f, {1, 2}) = f[2] + SumFunctionOnSet(f, {1, 2} \ {2})
    BY <2>3, 2 \in {1, 2}, SumTakeOut
  <2>5. SumFunctionOnSet(f, {1}) = f[1] + SumFunctionOnSet(f, {1} \ {1})
    BY <2>3, 1 \in {1}, SumTakeOut
  <2>6. SumFunctionOnSet(f, {1, 2}) = b + (a + 0)
    BY <2>1, <2>3, <2>4, <2>5, SumEmpty
  <2>7. QED BY <2>2, <2>6 DEF f
<1>3. QED BY <1>1, <1>2

(***************************************************************************)
(* The quote of a chunk fits, and is not empty if the chunk is not.        *)
(***************************************************************************)
LEMMA FallbackQuoteFits ==
    ASSUME NEW chunk \in Results
    PROVE  LET o == FallbackQuote(chunk)
           IN  /\ PieceSum(o) <= MaxChars
               /\ chunk.size > 0 => \A i \in DOMAIN o : o[i] > 0
<1> DEFINE o == FallbackQuote(chunk)
           cut == SmallerOf(chunk.size, MaxChars)
           ranked == Sizes(chunk.sentences)
           first == SmallerOf(ranked[1], MaxChars)
           used == first + 1 + 1
           second == SmallerOf(ranked[2], MaxChars - used)
<1>1. chunk.size \in Nat /\ chunk.sentences \in Seq(Sentences)
      /\ MaxChars \in Nat /\ MinBudget \in Nat /\ MinBudget < MaxChars
  BY ReplyAssumption DEF Results
<1>2. ASSUME NEW a \in Nat, a <= MaxChars, o = <<a>>, chunk.size > 0 => a > 0
      PROVE  /\ PieceSum(o) <= MaxChars
             /\ chunk.size > 0 => \A i \in DOMAIN o : o[i] > 0
  <2>1. PieceSum(o) = a
    BY <1>2, SumOfPieces
  <2>2. \A i \in DOMAIN o : o[i] = a
    BY <1>2
  <2> HIDE DEF o
  <2>3. QED BY <1>2, <2>1, <2>2
<1>3. CASE chunk.sentences = <<>>
  <2>1. o = <<cut>>
    BY <1>3 DEF FallbackQuote
  <2>2. cut \in Nat /\ cut <= MaxChars /\ (chunk.size > 0 => cut > 0)
    BY <1>1 DEF SmallerOf
  <2> HIDE DEF o, cut
  <2>3. QED BY <1>2, <2>1, <2>2 DEF o
<1>4. CASE chunk.sentences # <<>>
  <2> DEFINE L == Len(chunk.sentences)
  <2>1. L \in Nat \ {0} /\ ranked \in [1..L -> Nat \ {0}] /\ Len(ranked) = L
    BY <1>1, <1>4, SizesAre
  <2>2. o = IF L = 1 \/ used + MinBudget >= MaxChars THEN <<first>> ELSE <<first, second>>
    BY <1>4, <2>1 DEF FallbackQuote
  <2> HIDE DEF o, ranked, L
  <2>3. first \in Nat \ {0} /\ first <= MaxChars
    <3>1. ranked[1] \in Nat \ {0}
      BY <2>1
    <3>2. QED BY <1>1, <3>1 DEF SmallerOf
  <2>4. CASE L = 1 \/ used + MinBudget >= MaxChars
    <3>1. o = <<first>>
      BY <2>2, <2>4
    <3> HIDE DEF first
    <3>2. QED BY <1>2, <2>3, <3>1 DEF o
  <2>5. CASE ~(L = 1 \/ used + MinBudget >= MaxChars)
    <3>1. o = <<first, second>>
      BY <2>2, <2>5
    <3>2. ranked[2] \in Nat \ {0}
      BY <2>1, <2>5
    <3> HIDE DEF first
    <3>3. second \in Nat \ {0} /\ first + second + 1 <= MaxChars
      BY <1>1, <2>3, <2>5, <3>2 DEF SmallerOf
    <3> HIDE DEF second
    <3>4. PieceSum(o) = first + second + 1
      BY <2>3, <3>1, <3>3, SumOfPieces
    <3>5. \A i \in DOMAIN o : o[i] = first \/ o[i] = second
      BY <3>1
    <3>6. QED BY <2>3, <3>3, <3>4, <3>5 DEF o
  <2>6. QED BY <2>4, <2>5
<1>5. QED BY <1>3, <1>4

(***************************************************************************)
(* If a sentence has any of the query's terms, one has the most of them.   *)
(***************************************************************************)
LEMMA PlacesAre ==
    ASSUME NEW results \in ResultLists
    PROVE  /\ IsFiniteSet(Places(results))
           /\ \A p \in Places(results) :
                /\ p[1] \in DOMAIN results /\ p[1] \in Nat
                /\ p[2] \in DOMAIN results[p[1]].sentences /\ p[2] \in Nat
                /\ p = <<p[1], p[2]>>
                /\ results[p[1]].sentences[p[2]].size \in Nat \ {0}
                /\ Overlap(results, p) \in Nat
<1> DEFINE in(r) == DOMAIN results[r].sentences
           f == [r \in DOMAIN results |-> {<<r, s>> : s \in in(r)}]
<1>1. results \in Seq(Results)
  BY ResultListsAre
<1>2. ASSUME NEW r \in DOMAIN results
      PROVE  /\ r \in Nat /\ results[r].sentences \in Seq(Sentences)
             /\ IsFiniteSet(in(r)) /\ \A s \in in(r) : s \in Nat
  <2>1. r \in Nat /\ results[r].sentences \in Seq(Sentences)
    <3>1. r \in Nat /\ results[r] \in Results
      BY <1>1
    <3>2. QED BY <3>1 DEF Results
  <2> DEFINE q == results[r].sentences
  <2> HIDE DEF q
  <2>2. DOMAIN q = 1..Len(q) /\ Len(q) \in Nat
    BY <2>1 DEF q
  <2>3. IsFiniteSet(1..Len(q))
    <3>1. Len(q) \in Nat
      BY <2>2
    <3>2. QED BY <3>1, FS_Interval
  <2>4. QED BY <2>1, <2>2, <2>3 DEF q
<1>3. ASSUME NEW r \in DOMAIN results PROVE IsFiniteSet(f[r])
  <2> DEFINE g == [s \in in(r) |-> <<r, s>>]
  <2>1. DOMAIN g = in(r) /\ g = [s \in DOMAIN g |-> g[s]] /\ Range(g) = f[r]
    BY DEF Range
  <2>2. IsFiniteSet(in(r))
    BY <1>2
  <2> HIDE DEF g, f, in
  <2>3. QED BY <2>1, <2>2, RangeFinite
<1>4. IsFiniteSet(DOMAIN results)
  <2>1. DOMAIN results = 1..Len(results) /\ Len(results) \in Nat
    BY <1>1
  <2>2. IsFiniteSet(1..Len(results))
    <3>1. Len(results) \in Nat
      BY <2>1
    <3>2. QED BY <3>1, FS_Interval
  <2>3. QED BY <2>1, <2>2
<1>5. Places(results) = UNION Range(f)
  BY DEF Places, Range
<1>6. IsFiniteSet(Places(results))
  <2>1. DOMAIN f = DOMAIN results /\ f = [r \in DOMAIN results |-> f[r]]
    OBVIOUS
  <2> HIDE DEF f
  <2>2. IsFiniteSet(UNION Range(f))
    BY <1>3, <1>4, <2>1, UnionFinite
  <2>3. QED BY <1>5, <2>2
<1>7. ASSUME NEW p \in Places(results)
      PROVE  /\ p[1] \in DOMAIN results /\ p[1] \in Nat
             /\ p[2] \in DOMAIN results[p[1]].sentences /\ p[2] \in Nat
             /\ p = <<p[1], p[2]>>
             /\ results[p[1]].sentences[p[2]].size \in Nat \ {0}
             /\ Overlap(results, p) \in Nat
  <2>1. PICK r \in DOMAIN results : \E s \in in(r) : p = <<r, s>>
    BY DEF Places
  <2>2. PICK s \in in(r) : p = <<r, s>>
    BY <2>1
  <2>3. r \in Nat /\ s \in Nat /\ results[r].sentences \in Seq(Sentences)
    BY <1>2
  <2>4. results[r].sentences[s] \in Sentences
    BY <2>3
  <2>5. QED BY <2>2, <2>3, <2>4 DEF Overlap, Sentences
<1>8. QED BY <1>6, <1>7

LEMMA BestIs ==
    ASSUME NEW results \in ResultLists,
           NEW p \in Places(results), Overlap(results, p) > 0
    PROVE  Best(results) # {}
<1> DEFINE all == Places(results)
           over(q) == Overlap(results, q)
           g == [q \in all |-> over(q)]
<1>1. IsFiniteSet(all) /\ \A q \in all : q[1] \in Nat /\ q[2] \in Nat /\ over(q) \in Nat
  BY PlacesAre
<1>2. PICK m \in Range(g) : \A k \in Range(g) : k <= m
  <2>1. DOMAIN g = all /\ g = [q \in DOMAIN g |-> g[q]]
    OBVIOUS
  <2>2. Range(g) \in SUBSET Nat /\ Range(g) # {}
    BY <1>1 DEF Range
  <2> HIDE DEF g, over, all
  <2>3. IsFiniteSet(Range(g))
    BY <1>1, <2>1, RangeFinite
  <2>4. QED BY <2>2, <2>3, GreatestOf
<1>3. m \in Nat /\ \A q \in all : over(q) <= m
  BY <1>1, <1>2 DEF Range
<1> DEFINE tops == {q \in all : over(q) = m}
           firsts == {q[1] : q \in tops}
<1>4. tops # {}
  BY <1>2 DEF Range
<1>5. PICK r \in firsts : \A k \in firsts : r <= k
  <2>1. firsts \in SUBSET Nat /\ firsts # {}
    BY <1>1, <1>4
  <2> HIDE DEF firsts
  <2>2. QED BY <2>1, LeastOf
<1> DEFINE here == {q \in tops : q[1] = r}
           seconds == {q[2] : q \in here}
<1>6. PICK s \in seconds : \A k \in seconds : s <= k
  <2>1. seconds \in SUBSET Nat /\ seconds # {}
    BY <1>1, <1>5
  <2> HIDE DEF seconds
  <2>2. QED BY <2>1, LeastOf
<1>7. PICK b \in here : b[2] = s
  BY <1>6
<1>8. b \in all /\ over(b) = m /\ b[1] = r /\ b[2] = s
  BY <1>7
<1>9. over(b) > 0
  BY <1>1, <1>3, <1>8
<1>10. ASSUME NEW o \in all
       PROVE  \/ over(o) < over(b)
              \/ over(o) = over(b) /\ (b[1] < o[1] \/ (b[1] = o[1] /\ b[2] <= o[2]))
  <2>1. over(o) \in Nat /\ over(o) <= m /\ o[1] \in Nat /\ o[2] \in Nat
        /\ b[1] \in Nat /\ b[2] \in Nat
    BY <1>1, <1>3, <1>8
  <2>2. CASE over(o) = m
    <3>1. o \in tops /\ o[1] \in firsts
      BY <2>2
    <3>2. r <= o[1]
      BY <1>5, <3>1
    <3>3. CASE o[1] = r
      <4>1. o[2] \in seconds
        BY <3>1, <3>3
      <4>2. s <= o[2]
        BY <1>6, <4>1
      <4> HIDE DEF over, all
      <4>3. QED BY <1>8, <2>2, <3>3, <4>2
    <3>4. CASE o[1] # r
      <4>1. r < o[1]
        BY <1>8, <2>1, <3>2, <3>4
      <4>2. QED BY <1>8, <2>2, <4>1
    <3>5. QED BY <3>3, <3>4
  <2>3. CASE over(o) # m
    BY <1>3, <1>8, <2>1, <2>3
  <2>4. QED BY <2>2, <2>3
<1>11. b \in Best(results)
  BY <1>8, <1>9, <1>10 DEF Best
<1>12. QED BY <1>11

(***************************************************************************)
(* _extract_quote: of one of the results, and what the deterministic layer *)
(* picks fits, is not empty, and has the most of the query's terms.        *)
(***************************************************************************)
LEMMA QuoteIs ==
    ASSUME NEW reply \in Replies \cup {NoReply}, NEW results \in ResultLists
    PROVE  LET o == ExtractQuote(reply, results,
                                 SmallerOf(Len(results), MaxPromptChunks))
               used == results[o.index]
           IN  /\ o.index \in DOMAIN results
               /\ o.picked =>
                    /\ PieceSum(o.pieces) <= MaxChars
                    /\ used.size > 0 => \A i \in DOMAIN o.pieces : o.pieces[i] > 0
                    /\ \A p \in Places(results) : Overlap(results, p) > 0 =>
                         \E i \in DOMAIN used.sentences :
                           used.sentences[i].score >= Overlap(results, p)
<1> DEFINE n == SmallerOf(Len(results), MaxPromptChunks)
           o == ExtractQuote(reply, results, n)
           used == results[o.index]
<1>1. results \in Seq(Results) /\ Len(results) \in Nat \ {0}
      /\ DOMAIN results = 1..Len(results)
  BY ResultListsAre
<1>2. n \in Nat \ {0} /\ n <= Len(results)
  BY <1>1, ReplyAssumption DEF SmallerOf
<1>3. CASE reply # NoReply /\ Parsed(reply) = "quote"
  <2> DEFINE index == SmallerOf(reply.chunk_index, n)
  <2>1. o = [index |-> index, pieces |-> <<reply.size>>, picked |-> FALSE]
    BY <1>3 DEF ExtractQuote
  <2>2. reply.chunk_index \in Nat \ {0}
    BY <1>3, ReplyAssumption
  <2> HIDE DEF o, n
  <2>3. index \in DOMAIN results
    BY <1>1, <1>2, <2>2 DEF SmallerOf
  <2> HIDE DEF index
  <2>4. o.index = index /\ o.picked = FALSE
    BY <2>1
  <2>5. QED BY <2>3, <2>4 DEF o, n
<1>4. CASE ~(reply # NoReply /\ Parsed(reply) = "quote")
  <2>1. o = FallbackAcross(results)
    BY <1>4 DEF ExtractQuote
  <2>2. CASE Best(results) = {}
    <3>1. o = [index |-> 1, pieces |-> FallbackQuote(results[1]), picked |-> TRUE]
      BY <2>1, <2>2 DEF FallbackAcross
    <3> HIDE DEF o, n
    <3>2. o.index = 1 /\ o.pieces = FallbackQuote(results[1])
      BY <3>1
    <3>3. 1 \in DOMAIN results /\ results[1] \in Results
      BY <1>1
    <3>4. \A p \in Places(results) : ~(Overlap(results, p) > 0)
      BY <2>2, BestIs
    <3>5. /\ PieceSum(o.pieces) <= MaxChars
          /\ results[1].size > 0 => \A i \in DOMAIN o.pieces : o.pieces[i] > 0
      BY <3>2, <3>3, FallbackQuoteFits
    <3>6. QED BY <3>2, <3>3, <3>4, <3>5 DEF o, n
  <2>3. CASE Best(results) # {}
    <3> DEFINE b == CHOOSE p \in Best(results) : TRUE
               size == SmallerOf(results[b[1]].sentences[b[2]].size, MaxChars)
    <3>1. o = [index |-> b[1], picked |-> TRUE, pieces |-> <<size>>]
      BY <2>1, <2>3 DEF FallbackAcross
    <3>2. b \in Best(results)
      BY <2>3
    <3> HIDE DEF o, n, b
    <3>3. b \in Places(results) /\ \A q \in Places(results) :
            Overlap(results, q) < Overlap(results, b)
            \/ Overlap(results, q) = Overlap(results, b)
      BY <3>2 DEF Best
    <3>4. /\ b[1] \in DOMAIN results /\ b[2] \in DOMAIN results[b[1]].sentences
          /\ results[b[1]].sentences[b[2]].size \in Nat \ {0}
          /\ \A q \in Places(results) : Overlap(results, q) \in Nat
      BY <3>3, PlacesAre
    <3>5. size \in Nat \ {0} /\ size <= MaxChars
      <4>1. MaxChars \in Nat \ {0}
        BY ReplyAssumption
      <4>2. QED BY <3>4, <4>1 DEF SmallerOf
    <3> HIDE DEF size
    <3>6. o.index = b[1] /\ o.pieces = <<size>>
      BY <3>1
    <3>7. PieceSum(o.pieces) <= MaxChars
      BY <3>5, <3>6, SumOfPieces
    <3>8. \A i \in DOMAIN o.pieces : o.pieces[i] > 0
      BY <3>5, <3>6
    <3>9. ASSUME NEW p \in Places(results)
          PROVE  used.sentences[b[2]].score >= Overlap(results, p)
      <4>1. used.sentences[b[2]].score = Overlap(results, b)
        BY <3>6 DEF Overlap
      <4> HIDE DEF used
      <4>2. Overlap(results, p) \in Nat /\ Overlap(results, b) \in Nat
        BY <3>3, <3>4
      <4>3. QED BY <3>3, <4>1, <4>2
    <3>10. b[2] \in DOMAIN used.sentences
      BY <3>4, <3>6
    <3> HIDE DEF used
    <3>11. \A p \in Places(results) : Overlap(results, p) > 0 =>
             \E i \in DOMAIN used.sentences :
               used.sentences[i].score >= Overlap(results, p)
      BY <3>9, <3>10
    <3>12. QED BY <3>4, <3>6, <3>7, <3>8, <3>11 DEF o, n, used
  <2>4. QED BY <2>2, <2>3
<1>5. QED BY <1>3, <1>4

-----------------------------------------------------------------------------
\* The calls.

(***************************************************************************)
(* The inductive invariant: what was returned is what the function gives   *)
(* of the call's input, which does not change.                             *)
(***************************************************************************)
ReturnsItsResult ==
    /\ call \in Calls
    /\ Returned("chunk") => output = ChunkDocument(Text, DetectDocType(call.hits))
    /\ Returned("rewrite") => output = Rewrites(call.query)
    /\ Returned("fuse") => output \in Fusions(call.rankings)
    /\ Returned("quote") =>
         output = ExtractQuote(call.reply, call.results,
                               SmallerOf(Len(call.results), MaxPromptChunks))

LEMMA InitReturns == Init => ReturnsItsResult
  BY DEF Init, ReturnsItsResult, Returned

(***************************************************************************)
(* Every function is called once, and leaves the call as it is.            *)
(***************************************************************************)
LEMMA NextReturns == ReturnsItsResult /\ [Next]_vars => ReturnsItsResult'
<1> SUFFICES ASSUME ReturnsItsResult, [Next]_vars PROVE ReturnsItsResult'
  OBVIOUS
<1>1. CASE Chunk
  BY <1>1 DEF Chunk, Calling, ReturnsItsResult, Returned, Text
<1>2. CASE Rewrite
  BY <1>2 DEF Rewrite, Calling, ReturnsItsResult, Returned
<1>3. CASE Fuse
  BY <1>3 DEF Fuse, Calling, ReturnsItsResult, Returned
<1>4. CASE Quote
  BY <1>4 DEF Quote, Calling, ReturnsItsResult, Returned
<1>5. CASE UNCHANGED vars
  BY <1>5 DEF vars, ReturnsItsResult, Returned, Text
<1>6. QED BY <1>1, <1>2, <1>3, <1>4, <1>5 DEF Next

LEMMA AlwaysReturns == Spec => []ReturnsItsResult
  BY InitReturns, NextReturns, PTL DEF Spec

(***************************************************************************)
(* What each function is called with.                                      *)
(***************************************************************************)
LEMMA CallsAre ==
    ASSUME call \in Calls
    PROVE  /\ call.function = "chunk" => call.pages \in ReadPages
           /\ call.function = "rewrite" => call.query \in Questions
           /\ call.function = "fuse" => call.rankings \in RankingLists
           /\ call.function = "quote" =>
                call.reply \in Replies \cup {NoReply} /\ call.results \in ResultLists
<1>1. ASSUME NEW pages \in [1..NumPages -> PageTexts \cup {Unread}] PROVE pages \in ReadPages
  <2>1. NumPages \in Nat /\ PageTexts \cup {Unread} \subseteq Seq(LineKinds) \cup {Unread}
    BY TextAssumption
  <2>2. pages \in [1..NumPages -> Seq(LineKinds) \cup {Unread}]
    BY <2>1
  <2> DEFINE S == Seq(LineKinds) \cup {Unread}
  <2> HIDE DEF S
  <2>3. pages \in Seq(S)
    BY <2>1, <2>2 DEF S
  <2>4. QED BY <2>3 DEF ReadPages, S
<1>2. Queries \subseteq Questions
  BY QueryAssumption DEF Questions
<1>3. QED BY <1>1, <1>2 DEF Calls

LEMMA PagedText ==
    ASSUME call \in Calls, call.function = "chunk"
    PROVE  Text \in Seq(Lines) /\ WellPaged(Text)
  BY CallsAre, ConsolidatedIs DEF Text

-----------------------------------------------------------------------------
\* Theorems.

(***************************************************************************)
(* chunking.py:120: whatever the pages, the windows' length and their      *)
(* overlap, no line after the first marker is lost between two chunks, and *)
(* every section begins chunks of its own.                                 *)
(***************************************************************************)
THEOREM TextIsAlwaysChunked == Spec => []TextIsChunked
<1>1. ReturnsItsResult => TextIsChunked
  <2> SUFFICES ASSUME ReturnsItsResult, Returned("chunk")
               PROVE  ChunksHoldText(Text, DetectDocType(call.hits), output)
    BY DEF TextIsChunked
  <2>1. Text \in Seq(Lines) /\ WellPaged(Text)
    BY PagedText DEF ReturnsItsResult, Returned
  <2>2. output = ChunkDocument(Text, DetectDocType(call.hits))
    BY DEF ReturnsItsResult
  <2>3. QED BY <2>1, <2>2, TextKept
<1>2. QED BY <1>1, AlwaysReturns, PTL

(***************************************************************************)
(* chunking.py:85: a chunk is cited with the pages its lines are from.     *)
(***************************************************************************)
THEOREM PagesAreAlwaysKnown == Spec => []PagesAreKnown
<1>1. ReturnsItsResult => PagesAreKnown
  <2> SUFFICES ASSUME ReturnsItsResult, Returned("chunk")
               PROVE  ChunksKnowTheirPages(Text, DetectDocType(call.hits), output)
    BY DEF PagesAreKnown
  <2>1. Text \in Seq(Lines) /\ WellPaged(Text)
    BY PagedText DEF ReturnsItsResult, Returned
  <2>2. output = ChunkDocument(Text, DetectDocType(call.hits))
    BY DEF ReturnsItsResult
  <2>3. QED BY <2>1, <2>2, PagesKept
<1>2. QED BY <1>1, AlwaysReturns, PTL

(***************************************************************************)
(* query_rewrite.py:97: the question first, no variant twice, none empty   *)
(* or without the question's end, and one that mentions Lapua.             *)
(***************************************************************************)
THEOREM RewritesAlwaysKeepQuestion == Spec => []RewritesKeepQuestion
<1>1. ReturnsItsResult => RewritesKeepQuestion
  <2> SUFFICES ASSUME ReturnsItsResult, Returned("rewrite")
               PROVE  RewritesKeepQuestion
    BY DEF RewritesKeepQuestion
  <2>1. call.query \in Questions
    BY CallsAre DEF ReturnsItsResult, Returned
  <2>2. output = Rewrites(call.query)
    BY DEF ReturnsItsResult
  <2>3. /\ output \in Seq(Questions) /\ Len(output) <= MaxRewrites
        /\ output[1] = call.query /\ IsInjective(output)
        /\ \A n \in 1..Len(output) : EndsAs(call.query, output[n])
        /\ \E n \in 1..Len(output) : MentionsLapua(output[n])
    BY <2>1, <2>2, RewritesIs
  <2>4. DOMAIN output = 1..Len(output)
    BY <2>3
  <2>5. QED BY <2>3, <2>4 DEF RewritesKeepQuestion, EndsAs
<1>2. QED BY <1>1, AlwaysReturns, PTL

(***************************************************************************)
(* hybrid.py:19: a chunk before another in each of its rankings is before  *)
(* it in the fusion, however many the rankings and the chunks.             *)
(***************************************************************************)
THEOREM FusionAlwaysFollowsRankings == Spec => []FusionFollowsRankings
<1>1. ReturnsItsResult => FusionFollowsRankings
  <2> SUFFICES ASSUME ReturnsItsResult, Returned("fuse")
               PROVE  FusionFollowsRankings
    BY DEF FusionFollowsRankings
  <2>1. call.rankings \in RankingLists
    BY CallsAre DEF ReturnsItsResult, Returned
  <2>2. output \in Fusions(call.rankings)
    BY DEF ReturnsItsResult
  <2>3. QED BY <2>1, <2>2, FusionIs DEF FusionFollowsRankings
<1>2. QED BY <1>1, AlwaysReturns, PTL

(***************************************************************************)
(* answer.py:301: the quote is of one of the results; one the model did    *)
(* not give fits max_chars, is not empty, and no sentence of the results   *)
(* has more of the query's terms.                                          *)
(***************************************************************************)
THEOREM QuoteAlwaysFits == Spec => []QuoteFits
<1>1. ReturnsItsResult => QuoteFits
  <2> SUFFICES ASSUME ReturnsItsResult, Returned("quote")
               PROVE  QuoteFits
    BY DEF QuoteFits
  <2>1. call.reply \in Replies \cup {NoReply} /\ call.results \in ResultLists
    BY CallsAre DEF ReturnsItsResult, Returned
  <2>2. output = ExtractQuote(call.reply, call.results,
                              SmallerOf(Len(call.results), MaxPromptChunks))
    BY DEF ReturnsItsResult
  <2>3. QED BY <2>1, <2>2, QuoteIs DEF QuoteFits
<1>2. QED BY <1>1, AlwaysReturns, PTL
=============================================================================
