------------------------------- MODULE Browser -------------------------------
(* What the pages of the web application share. *)
EXTENDS Naturals, Sequences, FiniteSets

CONSTANT None   \* nothing: no form, no request, no answer, no choice

\* Numbers in ascending order, and what a sequence has at some of its places
Ascending(S)   == [k \in 1..Cardinality(S) |-> CHOOSE i \in S : Cardinality({j \in S : j <= i}) = k]
AtPlaces(s, K) == LET places == Ascending(K) IN [n \in DOMAIN places |-> s[places[n]]]
=============================================================================
