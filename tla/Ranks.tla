------------------------------- MODULE Ranks -------------------------------
(***************************************************************************)
(* Finite sets in an order, and the items of a sequence that a filter      *)
(* keeps.  A set and its order determine both, so that what the console    *)
(* does with its lists can be stated without recursion over them.          *)
(***************************************************************************)
EXTENDS Naturals, Sequences, FiniteSets

\* The members of a finite set in the order of Before.
Ranked(S, Before(_, _)) ==
  [n \in 1 .. Cardinality(S) |->
     CHOOSE a \in S : Cardinality({b \in S : Before(b, a)}) = n - 1]

\* The items at the places S, in their order (filter).
Picked(items, S) ==
  LET places == Ranked(S, <) IN [n \in DOMAIN places |-> items[places[n]]]
=============================================================================
