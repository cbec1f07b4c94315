----------------------------- MODULE QueryText -----------------------------
(***************************************************************************)
(* What the query path computes without the stores: the variants of a      *)
(* question, the fusion of their rankings, and the quote that extract mode *)
(* takes from the model's reply or picks itself.  A question is a sequence *)
(* of words in lower case, with or without a question mark; a sentence is  *)
(* its length and the number of query terms in it.                         *)
(***************************************************************************)
EXTENDS Orders, Sequences, SequencesExt

CONSTANTS
    MaxRewrites,        \* _MAX_REWRITES
    RankOffset,         \* k of rrf_fuse
    Scale,              \* a multiple of every RankOffset + rank: scores are integers
    MaxChars,           \* max_chars of a quote
    MinBudget,          \* a second sentence needs more room than this
    NoReply             \* None: there is no text, or no variant

SmallerOf(m, n) == IF m < n THEN m ELSE n

-----------------------------------------------------------------------------
\* retrieve/query_rewrite.py.

QuestionWords == {"kuka", "keta", "mita", "missa", "milloin", "miten", "miksi"}

\* How many words _QUESTION_WORD_RE takes off: never all of them.
QuestionLength(words) ==
    IF words = <<>> THEN 0
    ELSE IF words[1] \in QuestionWords THEN SmallerOf(1, Len(words) - 1)
    ELSE IF words[1] = "kuinka" THEN SmallerOf(2, Len(words) - 1)
    ELSE 0

Without(query, n) == [words |-> SubSeq(query.words, n + 1, Len(query.words)),
                      mark |-> FALSE]

\* _strip_question_word; of a question without one, the mark goes.
Stripped(query) ==
    LET rest == Without(query, QuestionLength(query.words))
    IN  IF rest.words = <<>> \/ rest = query THEN NoReply ELSE rest

\* _extract_who_is.
WhoIs(query) ==
    IF /\ Len(query.words) >= 3
       /\ query.words[1] = "kuka" /\ query.words[2] = "on"
    THEN Without(query, 2) ELSE NoReply

MentionsLapua(query) == \E i \in DOMAIN query.words : query.words[i] = "lapua"

\* _add_domain_tag: "Lapuan kaupunki" counts as a mention.
Tagged(query) == IF MentionsLapua(query) THEN NoReply
                 ELSE [query EXCEPT !.words = <<"lapua", "kaupunki">> \o @]

\* Mutant: the loop ends one item early.
DedupEarly(items) ==
    LET kept == {i \in DOMAIN items : \A j \in 1..(i - 1) : items[j] # items[i]}
        order == Ascending(kept)
    IN  [n \in 1..SmallerOf(Len(order), MaxRewrites - 1) |-> items[order[n]]]

\* _dedup: each the first time it comes, and not too many.
Dedup(items) ==
    LET kept == {i \in DOMAIN items : \A j \in 1..(i - 1) : items[j] # items[i]}
        order == Ascending(kept)
    IN  [n \in 1..SmallerOf(Len(order), MaxRewrites) |-> items[order[n]]]

IfAny(variant) == IF variant = NoReply THEN <<>> ELSE <<variant>>

\* heuristic_rewrites, and rewrite_query, whose LLM layer is not there.
Rewrites(query) ==
    LET short == IF WhoIs(query) # NoReply THEN WhoIs(query) ELSE Stripped(query)
    IN  Dedup(<<query>> \o IfAny(short) \o IfAny(Tagged(query)))

-----------------------------------------------------------------------------
\* rrf_fuse of index/hybrid.py.  Floating point: chunks whose exact scores
\* are equal may come in either order.

RankIn(ranking, chunk) == CHOOSE i \in DOMAIN ranking : ranking[i] = chunk

Ranking(rankings, chunk) == {r \in DOMAIN rankings : chunk \in Range(rankings[r])}

\* Mutant: a later ranking replaces the score of an earlier one.
LastScore(rankings, chunk) ==
    LET r == Max(Ranking(rankings, chunk))
    IN  Scale \div (RankOffset + RankIn(rankings[r], chunk))

Score(rankings, chunk) ==
    SumFunction([r \in Ranking(rankings, chunk) |->
                    Scale \div (RankOffset + RankIn(rankings[r], chunk))])

\* The orders sorted() may give.
Fusions(rankings) ==
    LET all == UNION {Range(rankings[r]) : r \in DOMAIN rankings}
    IN  {order \in SetToSeqs(all) :
            \A i, j \in DOMAIN order : i < j =>
                Score(rankings, order[i]) >= Score(rankings, order[j])}

-----------------------------------------------------------------------------
\* rag/answer.py.  A reply holds up to two candidates, the whole of it and
\* the first {...}; each is what it parses to.

Parses == {"not_json", "bad", "no_match", "blank", "quote"}

\* _parse_extract_response: the first that is a valid object.
Parsed(reply) ==
    LET valid == SelectSeq(reply.candidates,
                           LAMBDA c : c \in {"no_match", "blank", "quote"})
    IN  IF valid = <<>> THEN NoReply ELSE valid[1]

\* The sizes of the sentences, the shortest first.
Sizes(sentences) ==
    LET all == DOMAIN sentences
        order == Ordered(all, {p \in all \X all :
                     \/ sentences[p[1]].size < sentences[p[2]].size
                     \/ sentences[p[1]].size = sentences[p[2]].size /\ p[1] < p[2]})
    IN  [k \in DOMAIN order |-> sentences[order[k]].size]

\* Mutant: what is chosen already is not taken off the budget.
QuoteOfEach(chunk) ==
    IF chunk.sentences = <<>> THEN <<SmallerOf(chunk.size, MaxChars)>>
    ELSE LET ranked == Sizes(chunk.sentences)
         IN  [i \in 1..SmallerOf(2, Len(ranked)) |-> SmallerOf(ranked[i], MaxChars)]

\* _python_fallback_quote of a chunk without any of the query's terms: the
\* two shortest sentences, the second cut to what is left, joined by a space.
\* The sizes of the pieces.
FallbackQuote(chunk) ==
    IF chunk.sentences = <<>> THEN <<SmallerOf(chunk.size, MaxChars)>>
    ELSE LET ranked == Sizes(chunk.sentences)
             first == SmallerOf(ranked[1], MaxChars)
             used == first + 1 + 1
         IN  IF Len(ranked) = 1 \/ used + MinBudget >= MaxChars THEN <<first>>
             ELSE <<first, SmallerOf(ranked[2], MaxChars - used)>>

\* Every sentence of every result, as <<result, sentence>>.
Places(results) ==
    UNION {{<<r, s>> : s \in DOMAIN results[r].sentences} : r \in DOMAIN results}

Overlap(results, p) == results[p[1]].sentences[p[2]].score

\* Mutant: the first sentence with any overlap is taken.
FirstOverlap(results) ==
    {p \in Places(results) :
        /\ Overlap(results, p) > 0
        /\ \A o \in Places(results) : Overlap(results, o) > 0 =>
             p[1] < o[1] \/ (p[1] = o[1] /\ p[2] <= o[2])}

\* The first of the sentences with the most of the query's terms, if any has.
Best(results) ==
    {p \in Places(results) :
        /\ Overlap(results, p) > 0
        /\ \A o \in Places(results) :
             \/ Overlap(results, o) < Overlap(results, p)
             \/ /\ Overlap(results, o) = Overlap(results, p)
                /\ p[1] < o[1] \/ (p[1] = o[1] /\ p[2] <= o[2])}

\* _python_fallback_across_chunks.
FallbackAcross(results) ==
    IF Best(results) = {}
    THEN [index |-> 1, pieces |-> FallbackQuote(results[1]), picked |-> TRUE]
    ELSE LET p == CHOOSE p \in Best(results) : TRUE
         IN  [index |-> p[1], picked |-> TRUE,
              pieces |-> <<SmallerOf(results[p[1]].sentences[p[2]].size, MaxChars)>>]

\* _extract_quote: the model's quote is not compared with any chunk, its
\* index is clamped to the prompt's n chunks.
ExtractQuote(reply, results, n) ==
    IF reply # NoReply /\ Parsed(reply) = "quote"
    THEN [index |-> SmallerOf(reply.chunk_index, n), pieces |-> <<reply.size>>,
          picked |-> FALSE]
    ELSE FallbackAcross(results)
=============================================================================
