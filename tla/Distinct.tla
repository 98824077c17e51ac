------------------------------ MODULE Distinct ------------------------------
(***************************************************************************)
(* The values of a sequence of instances, each at its first place only.    *)
(***************************************************************************)
EXTENDS Integers, FiniteSets

\* The members of S, a finite set of integers, from the least to the greatest:
\* the n-th has n members that are not above it.
Ascending(S) ==
  [n \in 1 .. Cardinality(S) |->
     CHOOSE i \in S : Cardinality({j \in S : j <= i}) = n]

\* The places among 1 .. n where val has a value for the first time.
Firsts(val, n) == {i \in 1 .. n : \A j \in 1 .. i - 1 : val[j] # val[i]}

\* The values of val[1], ..., val[n], in order, each of them once.
DistinctValues(val, n) ==
  LET places == Ascending(Firsts(val, n))
  IN  [k \in DOMAIN places |-> val[places[k]]]

=============================================================================
