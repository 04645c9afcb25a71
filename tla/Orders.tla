--------------------------------- MODULE Orders ---------------------------------
(***************************************************************************)
(* What came before what: the order of rows in which a statement with        *)
(* ORDER BY and LIMIT takes the first of them.  An order is a set of pairs;   *)
(* rows are numbered by their ids, which decide between equal times.         *)
(***************************************************************************)
EXTENDS Integers, FiniteSets

\* Of any two rows one is before the other.
Ordered(order, rows) ==
  /\ order \subseteq rows \X rows
  /\ \A j, k \in rows : j /= k => (<<j, k>> \in order <=> <<k, j>> \notin order)
  /\ \A i, j, k \in rows : <<i, j>> \in order /\ <<j, k>> \in order => <<i, k>> \in order
  /\ \A j \in rows : <<j, j>> \notin order

ById(rows) == {a \in rows \X rows : a[1] < a[2]}

\* New rows come after those there are.
Joined(order, rows, new) == order \cup (rows \X new) \cup ById(new)

Among(order, rows) == order \cap (rows \X rows)

FirstOf(rows, order, limit) == {j \in rows : Cardinality({k \in rows : <<k, j>> \in order}) < limit}
=============================================================================
