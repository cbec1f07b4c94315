--------------------------- MODULE MCBatchIngest ---------------------------
\* Instances of BatchIngest.
EXTENDS BatchIngest

CONSTANTS d1, d2, none, unread

Hits(n) == [k \in 1..6 |-> IF k = n THEN 1 ELSE 0]

\* Minutes with a section of two windows and, behind a page that could not be
\* read, a bare section that takes in the next; a report with headings.
MCReadings ==
    {[pages |-> << <<"body", "section", "body", "body">>, unread, <<"bare", "section">> >>,
      hits |-> Hits(1)],
     [pages |-> << <<"heading", "body">> >>, hits |-> Hits(3)]}

MCTrees == {<<>>, <<d1, d2>>, <<d1, d1>>}
=============================================================================
