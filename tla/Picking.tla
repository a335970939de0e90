------------------------------- MODULE Picking -------------------------------
(***************************************************************************)
(* What is left of a list that code filters.  SelectSeq of the standard    *)
(* module says the same; it is recursive, and nothing can be proved of it  *)
(* here, but what this definition selects can be (PickingProofs).          *)
(***************************************************************************)
EXTENDS Naturals, Sequences, FiniteSets

\* The elements of s at these places, in their order.
Picked(s, places) ==
  [j \in 1 .. Cardinality(places) |->
     s[CHOOSE i \in places : Cardinality({h \in places : h <= i}) = j]]
=============================================================================
