------------------------------- MODULE Ranking -------------------------------
(* sort_by of the standard library, as the tools use it.                     *)
EXTENDS Integers, Sequences, FiniteSets

\* What it leaves of a set, for an order given by its pairs: at place k the one
\* with k - 1 before it.
Ranked(S, order) ==
    [k \in 1..Cardinality(S) |->
        CHOOSE i \in S : Cardinality({j \in S : <<j, i>> \in order}) = k - 1]

\* Numbers in ascending order; equal ones keep theirs.
Ascends(values) ==
    {p \in (DOMAIN values) \X (DOMAIN values) :
        \/ values[p[1]] < values[p[2]]
        \/ values[p[1]] = values[p[2]] /\ p[1] < p[2]}
Ascending(values) ==
    LET places == Ranked(DOMAIN values, Ascends(values))
    IN  [k \in DOMAIN places |-> values[places[k]]]
=============================================================================
