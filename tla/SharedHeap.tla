------------------------------ MODULE SharedHeap -----------------------------
(***************************************************************************)
(* The heap of module GenGC under the permits of module HeapPermits, as    *)
(* BexEngine puts them together.  Nothing here keeps a task from its heap  *)
(* while a collection runs, or makes a collection wait for the tasks, but  *)
(* the permits; and a collection reads and forwards the roots of those     *)
(* tasks whose cell it finds in the holders list, and of nobody else.      *)
(***************************************************************************)
EXTENDS HeapPermits

CONSTANTS Shared, Key, Addr, Object, Card, CardOf, NoObject, MaxFields  \* see GenGC

ASSUME HeapAssumption ==
    /\ Vm \cap Shared = {}
    /\ Addr \subseteq Nat
    /\ CardOf \in [Addr -> Card]
    /\ NoObject \notin Object

VARIABLES
    space, obj, ref, dirty, stack, handles, store, gc, roots, fwd, \* see GenGC
    busy        \* whether a running VM is in the middle of a store

graph == <<space, obj, ref, dirty, handles, store>>
heap  == <<graph, stack, gc, roots, fwd>>

\* What has a cell of its own: tasks, and the two tables of the engine.
Cell == Vm \union Shared

\* A task works on its heap when it has a permit.
HeapPc ==
    [t \in Cell |-> IF t \in Vm /\ pc[t] \in Active THEN busy[t] ELSE "parked"]

H == INSTANCE GenGC WITH Task <- Cell, pc <- HeapPc

SharedInit ==
    /\ Init
    /\ busy = [v \in Vm |-> "running"]
    /\ H!Init

-----------------------------------------------------------------------------
(* Tasks.                                                                  *)

\* An instruction, or half of one that stores.
Execute(v) ==
    /\ pc[v] = "running"
    /\ UNCHANGED vars
    /\ \E p \in {"running", "writing", "marking"} : busy' = [busy EXCEPT ![v] = p]
    /\ H!Mutate(v)

\* Bug: the VM may yield between a write and its barrier.
YieldMidStore(v) ==
    /\ \/ NewRoot(v) \/ Suspend(v) \/ Event(v) \/ Safepoint(v)
       \/ Enqueue(v) \/ Granted(v)
    /\ UNCHANGED <<heap, busy>>

\* The VM yields to the event loop between instructions only; what happens
\* there leaves the heap alone, ...
Yield(v) ==
    /\ busy[v] = "running"
    /\ \/ NewRoot(v) \/ Suspend(v) \/ Event(v) \/ Safepoint(v)
       \/ Enqueue(v) \/ Granted(v)
       \/ \E c \in Vm : StartSpawn(v, c)
    /\ UNCHANGED <<heap, busy>>

\* ... but for a failed task, which puts its future into the queue of its
\* parent, whatever that one does, and for what goes through the registry, ...
Report(v) ==
    /\ pc[v] = "running" /\ busy[v] = "running"
    /\ UNCHANGED <<vars, busy>>
    /\ \E a \in Addr :
          \/ \E u \in Live \union Shared : H!Hand(v, u, a)
          \/ \E s \in Shared : H!Fetch(v, s, a) \/ H!Forget(v, s, a)

\* ... a spawn, for the child's VM has the closure on its stack when its cell is
\* listed (unless the closure is a compile-time object, which stays where it is),
SpawnTask(v) ==
    /\ NewChild(v)
    /\ \E A \in {{}} \union {{a} : a \in stack[v]} :
          stack' = [stack EXCEPT ![child[v]] = A]
    /\ UNCHANGED <<graph, gc, roots, fwd, busy>>

\* ... and the end of a task, whose VM goes with its cell.
EndTask(v) ==
    /\ busy[v] = "running"
    /\ Finish(v)
    /\ stack' = [stack EXCEPT ![v] = {}]
    /\ UNCHANGED <<graph, gc, roots, fwd, busy>>

-----------------------------------------------------------------------------
(* Collections.                                                            *)

\* Whose roots HeapGuard reads and forwards; the engine keeps its tables' cells.
Listed == (holders \cap Live) \union Shared

\* On the way to the permits and back.
Approach(c) ==
    /\ \/ RequestPark(c) \/ EnqueueAll(c) \/ Drained(c) \/ LockHolders(c)
       \/ ClearPark(c) \/ DropGuard(c)
    /\ UNCHANGED <<heap, busy>>

\* collect_handle_roots and HeapGuard::collect_roots
ReadRoots(c) ==
    /\ CollectRoots(c)
    /\ roots' = (UNION {stack[t] : t \in Listed})
                    \union (UNION {handles[k] : k \in Key})
    /\ gc' = "copy"
    /\ UNCHANGED <<graph, stack, fwd, busy>>

\* collect_garbage_generational
Relocate(c) ==
    /\ pc[c] = "gc_forward"
    /\ UNCHANGED <<vars, busy>>
    /\ H!Minor \/ H!Major \/ H!UpdateHandles

\* HeapGuard::forward_roots
Forward(c) ==
    /\ gc = "forward"
    /\ ForwardRoots(c)
    /\ stack' = [t \in Cell |-> IF t \in Listed THEN H!Fixup(stack[t], fwd)
                                                ELSE stack[t]]
    /\ fwd' = [a \in {} |-> a]
    /\ gc' = "idle"
    /\ UNCHANGED <<graph, roots, busy>>

SharedNext ==
    \/ \E v \in Vm : \/ Execute(v) \/ Yield(v) \/ Report(v)
                     \/ SpawnTask(v) \/ EndTask(v)
    \/ \E h \in Host : HostCollects(h) /\ UNCHANGED <<heap, busy>>
    \/ \E c \in Actor : Approach(c) \/ ReadRoots(c) \/ Relocate(c) \/ Forward(c)
    \/ UNCHANGED <<vars, busy>> /\ \E k \in Key : H!ReleaseHandle(k)

svars == <<vars, heap, busy>>

SharedSpec == SharedInit /\ [][SharedNext]_svars

-----------------------------------------------------------------------------
\* The permits give the heap what GenGC takes for granted: collections start
\* with every task parked and none resumes before they end, and the listed
\* tasks are all those that have roots.
PermitsProtectHeap == H!Spec
=============================================================================
