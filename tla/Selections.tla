------------------------------ MODULE Selections ------------------------------
(***************************************************************************)
(* What SelectSeq and SortSeq return, with the positions or their order    *)
(* given as a set: operators of the first order, which can be proved about.*)
(***************************************************************************)
EXTENDS Naturals, FiniteSets

\* The k-th number of K in ascending order.
Nth(K, k) == CHOOSE i \in K : Cardinality({j \in K : j <= i}) = k

\* The elements of s at the positions in K, in the order they have in s.
Picked(s, K) == [k \in 1..Cardinality(K) |-> s[Nth(K, k)]]

\* The elements of s in the order R of its positions: what a stable sort returns.
Arranged(s, R) ==
    LET D == DOMAIN s
        place == [i \in D |-> Cardinality({j \in D : <<j, i>> \in R}) + 1]
    IN  [k \in 1..Cardinality(D) |-> s[CHOOSE i \in D : place[i] = k]]
=============================================================================
