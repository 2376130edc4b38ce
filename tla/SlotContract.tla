----------------------------- MODULE SlotContract ----------------------------
(***************************************************************************)
(* What the nursery promises: an allocation gets a slot of its own, which  *)
(* keeps its object until a collection clears them all.                    *)
(***************************************************************************)
CONSTANTS Owner, Slot   \* who allocates, and where

VARIABLE objects        \* the objects: their slots and who wrote them

SInit == objects = {}

Take ==
    \E o \in Owner, s \in Slot :
        /\ \A p \in Owner : <<s, p>> \notin objects
        /\ objects' = objects \union {<<s, o>>}

Reset == objects' = {}

SSpec == SInit /\ [][Take \/ Reset]_objects
=============================================================================
