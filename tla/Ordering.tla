------------------------------ MODULE Ordering ------------------------------
(***************************************************************************)
(* Python's sorted and its comprehensions with an if, and SQL's ORDER BY,  *)
(* by what they return.  SortSeq and SelectSeq are the same for TLC, but   *)
(* have no definition that a proof can expand.                             *)
(***************************************************************************)
EXTENDS Naturals, Sequences, FiniteSets

\* the elements of a finite set in a strict total order, a set of pairs
Arranged(S, before) ==
  [n \in 1 .. Cardinality(S) |->
     CHOOSE x \in S : Cardinality({y \in S : <<y, x>> \in before}) = n - 1]

\* the items of some places of a list, and those for which Test holds
Taken(list, places) ==
  LET at == Arranged(places, {p \in places \X places : p[1] < p[2]})
  IN  [n \in DOMAIN at |-> list[at[n]]]

Filtered(list, Test(_)) == Taken(list, {i \in DOMAIN list : Test(list[i])})

\* stable: of two items of which neither is less, the one in front stays in front
Stably(list, less) ==
  LET places == DOMAIN list
      before == {p \in places \X places : p \in less \/ (<<p[2], p[1]>> \notin less /\ p[1] < p[2])}
      at == Arranged(places, before)
  IN  [n \in places |-> list[at[n]]]

Sorted(list, Less(_, _)) ==
  LET places == DOMAIN list
  IN  Stably(list, {p \in places \X places : Less(list[p[1]], list[p[2]])})
=============================================================================
