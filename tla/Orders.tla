------------------------------- MODULE Orders -------------------------------
(***************************************************************************)
(* Lists in a given order, as sorted() and a loop over a list make them.   *)
(***************************************************************************)
EXTENDS Naturals, FiniteSets

\* The members of ids, each behind the ones that before puts before it.
Ordered(ids, before) ==
    [k \in 1..Cardinality(ids) |->
        CHOOSE i \in ids : Cardinality({j \in ids : <<j, i>> \in before}) = k - 1]

\* The same of numbers, the least first.
Ascending(ids) ==
    [k \in 1..Cardinality(ids) |->
        CHOOSE i \in ids : Cardinality({j \in ids : j < i}) = k - 1]
=============================================================================
