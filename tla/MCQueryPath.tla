----------------------------- MODULE MCQueryPath -----------------------------
\* Instances of QueryPath.  Scores are in steps of 0.05: the threshold is
\* 0.10, a decision gains 0.20 and an attendance list loses 0.15.
EXTENDS QueryPath

CONSTANTS q1, lapua, kauhava, c1, c2, c3, decision, attendance, plain, none

\* All chunks are the first tenant's: whatever the second one is shown is not
\* its own.
MCOwner == [c \in Chunks |-> lapua]

MCBoost == [t \in Texts |-> IF t = decision THEN 4 ELSE IF t = attendance THEN -3 ELSE 0]
=============================================================================
