---------------------------- MODULE HeapContract ----------------------------
(***************************************************************************)
(* What the BEX heap promises to the tasks and the hosts that use it: a    *)
(* graph of objects that only their owners change.  Objects have no        *)
(* address here.  A collection forgets objects, but none that a task, a    *)
(* handle or a remembered object refers to: what can be reached stays, as  *)
(* it was.                                                                 *)
(***************************************************************************)
CONSTANTS
    Task,       \* tasks with a VM
    Key,        \* keys of the handle table
    Object      \* identities of objects

VARIABLES
    exists,     \* the objects that were created and not forgotten
    edge,       \* the objects each of them refers to
    stack,      \* the objects each task refers to
    handle      \* the object each handle refers to, {} once released

vars == <<exists, edge, stack, handle>>

Init ==
    /\ exists = {}
    /\ edge = [o \in Object |-> {}]
    /\ stack = [t \in Task |-> {}]
    /\ handle = [k \in Key |-> {}]

New(t) ==
    \E o \in Object \ exists :
        /\ exists' = exists \union {o}
        /\ stack' = [stack EXCEPT ![t] = @ \union {o}]
        /\ UNCHANGED <<edge, handle>>

Read(t) ==
    \E o \in stack[t] : \E p \in edge[o] :
        /\ stack' = [stack EXCEPT ![t] = @ \union {p}]
        /\ UNCHANGED <<exists, edge, handle>>

\* What a task does not refer to any more: one object, or all when it ends.
Drop(t) ==
    \E gone \in SUBSET stack[t] :
        /\ stack' = [stack EXCEPT ![t] = @ \ gone]
        /\ UNCHANGED <<exists, edge, handle>>

\* A slot of an object is assigned: what the slot referred to may go.
Write(t) ==
    \E o, p \in stack[t] : \E old \in SUBSET edge[o] :
        /\ \A x, y \in old : x = y
        /\ edge' = [edge EXCEPT ![o] = (@ \ old) \union {p}]
        /\ UNCHANGED <<exists, stack, handle>>

\* A task gives an object to another, which it spawns or to which it reports.
Hand(t) ==
    \E o \in stack[t], u \in Task :
        /\ stack' = [stack EXCEPT ![u] = @ \union {o}]
        /\ UNCHANGED <<exists, edge, handle>>

Export(t) ==
    \E o \in stack[t], k \in Key :
        /\ handle[k] = {}
        /\ handle' = [handle EXCEPT ![k] = {o}]
        /\ UNCHANGED <<exists, edge, stack>>

Import(t) ==
    \E k \in Key :
        /\ stack' = [stack EXCEPT ![t] = @ \union handle[k]]
        /\ UNCHANGED <<exists, edge, handle>>

Release ==
    \E k \in Key :
        /\ handle' = [handle EXCEPT ![k] = {}]
        /\ UNCHANGED <<exists, edge, stack>>

Rooted ==
    (UNION {stack[t] : t \in Task}) \union (UNION {handle[k] : k \in Key})

Collect ==
    /\ UNCHANGED <<stack, handle>>
    /\ exists' \subseteq exists
    /\ Rooted \subseteq exists'
    /\ \A o \in exists' : edge[o] \subseteq exists'
    /\ edge' = [o \in Object |-> IF o \in exists' THEN edge[o] ELSE {}]

Next ==
    \/ \E t \in Task : \/ New(t) \/ Read(t) \/ Drop(t) \/ Write(t)
                       \/ Hand(t) \/ Export(t) \/ Import(t)
    \/ Release
    \/ Collect

Spec == Init /\ [][Next]_vars
=============================================================================
