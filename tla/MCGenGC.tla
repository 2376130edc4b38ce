------------------------------- MODULE MCGenGC -------------------------------
(***************************************************************************)
(* A small heap for TLC: two cards are enough for objects that share one   *)
(* and objects that do not.                                                *)
(***************************************************************************)
EXTENDS GenGC, TLC

CardOfMC == [a \in Addr |-> IF a % 3 = 0 THEN 2 ELSE 1]

\* Tasks and identities are interchangeable.
Symmetric == {p @@ q : p \in Permutations(Task \ Shared), q \in Permutations(Object)}
=============================================================================
