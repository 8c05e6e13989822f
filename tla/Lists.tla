-------------------------------- MODULE Lists --------------------------------
(***************************************************************************)
(* Sorting, filtering and adding up, as question answering does it.  The   *)
(* definitions say what the result is, or count along it, so that the      *)
(* provers can work with them.                                             *)
(***************************************************************************)
EXTENDS Integers, Sequences, FiniteSets

Larger(a, b) == IF a > b THEN a ELSE b
Smaller(a, b) == IF a < b THEN a ELSE b

\* sorted: k - 1 members come before the one at place k.
InOrder(S, Before(_, _)) ==
    [k \in 1..Cardinality(S) |->
        CHOOSE p \in S : Cardinality({r \in S : Before(r, p)}) = k - 1]

\* [x for x in s if ...]: the elements of s at some of its places, in order.
At(s, places) ==
    LET order == InOrder(places, <)
    IN  [k \in 1..Cardinality(places) |-> s[order[k]]]

\* sum.
TotalOf(s) ==
    LET sum[i \in 0..Len(s)] == IF i = 0 THEN 0 ELSE sum[i - 1] + s[i]
    IN  sum[Len(s)]
=============================================================================
