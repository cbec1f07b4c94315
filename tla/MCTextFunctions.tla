-------------------------- MODULE MCTextFunctions --------------------------
\* Instances of TextFunctions: every page of up to three lines, every
\* question of up to four words, every three rankings of three chunks, and
\* results with sentences of the lengths at the edges of the budget.
EXTENDS TextFunctions

CONSTANTS none, unread

MCPageTexts == UNION {[1..n -> LineKinds] : n \in 0..3}

MCHits == {[k \in 1..6 |-> IF k = n THEN 1 ELSE 0] : n \in {3, 5}}
          \cup {[k \in 1..6 |-> IF k \in {1, 3} THEN 2 ELSE 1]}

MCWords == {"kuka", "on", "kuinka", "moni", "lapua", "kaupunki"}

MCQueries == [words : UNION {[1..n -> MCWords \ {"kaupunki"}] : n \in 0..4},
              mark : BOOLEAN]

MCRankings == {r \in UNION {[1..n -> {"c1", "c2", "c3"}] : n \in 0..3} : IsInjective(r)}

MCRankingLists == [1..3 -> MCRankings]

MCReplies == [candidates : UNION {[1..n -> Parses] : n \in 0..2},
              chunk_index : {1, 4}, size : {700}]

Sentences == [score : {0, 1, 2}, size : {20, 300, 577, 578, 579, 600, 700}]

MCChunks == {[sentences |-> s, size |-> 1500] : s \in UNION {[1..n -> Sentences] : n \in 1..2}}
            \cup {[sentences |-> <<>>, size |-> n] : n \in {0, 12, 601}}

MCResultLists ==
    {<<c>> : c \in MCChunks}
    \cup {<<c, [sentences |-> <<[score |-> 1, size |-> 40], [score |-> n, size |-> 30]>>,
                size |-> 80]>> : c \in MCChunks, n \in {0, 2}}
=============================================================================
