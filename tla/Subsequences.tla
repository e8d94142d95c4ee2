---------------------------- MODULE Subsequences ----------------------------
(***************************************************************************)
(* The elements of a sequence at some of its positions, in order: what a   *)
(* loop that appends the elements it keeps to a new slice ends up with.    *)
(***************************************************************************)
EXTENDS Naturals, FiniteSets

\* The k-th position in K, in increasing order.
PositionIn(K, k) ==
    CHOOSE i \in K : Cardinality({j \in K : j <= i}) = k

\* The elements of s at the positions in K.
ElementsAt(s, K) == [k \in 1..Cardinality(K) |-> s[PositionIn(K, k)]]

\* The elements of s that are in T.
ElementsIn(s, T) == ElementsAt(s, {i \in DOMAIN s : s[i] \in T})
=============================================================================
