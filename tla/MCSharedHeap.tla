----------------------------- MODULE MCSharedHeap ----------------------------
(***************************************************************************)
(* A heap with a single card, for TLC.                                     *)
(***************************************************************************)
EXTENDS SharedHeap, TLC

CardOfMC == [a \in Addr |-> 1]

\* Slots of tasks are interchangeable.
Symmetric == Permutations(Vm)
=============================================================================
