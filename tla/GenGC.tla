-------------------------------- MODULE GenGC --------------------------------
(***************************************************************************)
(* The generational copying collector of bex_heap (gc.rs, card_table.rs,   *)
(* the write barrier and the handle table of heap.rs) and the tasks that   *)
(* mutate the heap between collections (bex_vm/src/vm.rs).                 *)
(*                                                                         *)
(* Objects are created in Gen0.  A minor collection moves the survivors of *)
(* Gen0 to Gen1 and those of Gen1 to Gen2, and finds the young objects     *)
(* that only old ones refer to through the dirty cards of Gen2.  A major   *)
(* collection moves all survivors to Gen2.  A collection runs while every  *)
(* task is parked (module HeapPermits).                                    *)
(***************************************************************************)
EXTENDS Integers, FiniteSets

CONSTANTS
    Task,       \* whose roots collections read: tasks with a VM, and Shared,
    Shared,     \* the registry of futures and the globals, which run nothing
    Key,        \* keys of the handle table
    Addr,       \* addresses of runtime objects, in whatever space; numbers
    Object,     \* identities of objects, what a copy preserves
    Card,       \* cards of Gen2's card table
    CardOf,     \* the card an address lies on while its space is Gen2
    NoObject,   \* what lies in a slot that holds no object
    MaxFields   \* how many objects an object refers to

ASSUME HeapAssumption ==
    /\ Shared \subseteq Task
    /\ Addr \subseteq Nat
    /\ CardOf \in [Addr -> Card]
    /\ NoObject \notin Object

VARIABLES
    space,      \* Gen0, Gen1 or Gen2, and "free" for an address not in use
    obj,        \* the object at each address
    ref,        \* the addresses it refers to
    dirty,      \* the dirty cards of BexHeap.gen2_cards
    stack,      \* the addresses a task's VM, or a shared table, refers to
    handles,    \* BexHeap.handles: a key's address, {} once released
    pc,         \* what each task does
    store,      \* the container and the value of its store under way
    gc,         \* what the collector does
    roots,      \* the roots it has read
    fwd         \* its forwarding map, on the addresses it reached

vars == <<space, obj, ref, dirty, stack, handles, pc, store, gc, roots, fwd>>
collector == <<gc, roots, fwd>>

Young == {a \in Addr : space[a] \in {"gen0", "gen1"}}
Old   == {a \in Addr : space[a] = "gen2"}
Used  == Young \union Old
Free  == Addr \ Used

\* Bound: unused addresses are taken in order.  They differ in their card only.
InOrder(A) == \A a \in A, b \in Free \ A : a < b

Init ==
    /\ space = [a \in Addr |-> "free"]
    /\ obj = [a \in Addr |-> NoObject]
    /\ ref = [a \in Addr |-> {}]
    /\ dirty = {}
    /\ stack = [t \in Task |-> {}]
    /\ handles = [k \in Key |-> {}]
    /\ pc = [t \in Task |-> "parked"]
    /\ store = [t \in Task |-> <<>>]
    /\ gc = "idle"
    /\ roots = {}
    /\ fwd = [a \in {} |-> a]

-----------------------------------------------------------------------------
(* Tasks.  One that runs holds a heap permit.                              *)

Goto(t, p) == pc' = [pc EXCEPT ![t] = p]

Push(t, a) == stack' = [stack EXCEPT ![t] = @ \union {a}]

\* Tlab::alloc, which always writes to Gen0 (module Tlab).
Alloc(t, a, o) ==
    /\ pc[t] = "running"
    /\ a \in Free /\ InOrder({a})
    /\ o \notin {obj[b] : b \in Addr}
    /\ space' = [space EXCEPT ![a] = "gen0"]
    /\ obj' = [obj EXCEPT ![a] = o]
    /\ ref' = [ref EXCEPT ![a] = {}]
    /\ Push(t, a)
    /\ UNCHANGED <<dirty, handles, pc, store, collector>>

\* An instruction that loads a field, an element or a cell.
Load(t, a, b) ==
    /\ pc[t] = "running"
    /\ a \in stack[t] /\ b \in ref[a] \ stack[t]
    /\ Push(t, b)
    /\ UNCHANGED <<space, obj, ref, dirty, handles, pc, store, collector>>

Pop(t, a) ==
    /\ pc[t] = "running"
    /\ a \in stack[t]
    /\ stack' = [stack EXCEPT ![t] = @ \ {a}]
    /\ UNCHANGED <<space, obj, ref, dirty, handles, pc, store, collector>>

\* write_barrier: only containers in Gen2 have cards.
MarkCard(a, b) ==
    dirty' = IF a \in Old /\ b \in Young THEN dirty \union {CardOf[a]} ELSE dirty

\* StoreField, StoreDeref, copy_fields, settle_ready and settle_error call the
\* write barrier and then write the slot.
BarrierThenWrite(t, a, b) ==
    /\ pc[t] = "running"
    /\ {a, b} \subseteq stack[t]
    /\ store' = [store EXCEPT ![t] = <<a, b>>]
    /\ MarkCard(a, b)
    /\ Goto(t, "writing")
    /\ UNCHANGED <<space, obj, ref, stack, handles, collector>>

\* as_array_mut and as_map_mut, for builtins that mutate a container: the value
\* is not known yet, so the card is marked in any case.
BuiltinMut(t, a, b) ==
    /\ pc[t] = "running"
    /\ {a, b} \subseteq stack[t]
    /\ store' = [store EXCEPT ![t] = <<a, b>>]
    /\ dirty' = IF a \in Old THEN dirty \union {CardOf[a]} ELSE dirty
    /\ Goto(t, "writing")
    /\ UNCHANGED <<space, obj, ref, stack, handles, collector>>

\* The slot's former value, old, stays if another slot refers to it as well.
Put(a, b, old) ==
    /\ old \subseteq ref[a] /\ \A x, y \in old : x = y
    /\ Cardinality((ref[a] \ old) \union {b}) <= MaxFields
    /\ ref' = [ref EXCEPT ![a] = (@ \ old) \union {b}]

Write(t, old) ==
    /\ pc[t] = "writing"
    /\ Put(store[t][1], store[t][2], old)
    /\ store' = [store EXCEPT ![t] = <<>>]
    /\ Goto(t, "running")
    /\ UNCHANGED <<space, obj, dirty, stack, handles, collector>>

\* StoreArrayElement and StoreMapElement write under the container's lock and
\* call the write barrier afterwards.
WriteThenBarrier(t, a, b, old) ==
    /\ pc[t] = "running"
    /\ {a, b} \subseteq stack[t]
    /\ Put(a, b, old)
    /\ store' = [store EXCEPT ![t] = <<a, b>>]
    /\ Goto(t, "marking")
    /\ UNCHANGED <<space, obj, dirty, stack, handles, collector>>

Barrier(t) ==
    /\ pc[t] = "marking"
    /\ MarkCard(store[t][1], store[t][2])
    /\ store' = [store EXCEPT ![t] = <<>>]
    /\ Goto(t, "running")
    /\ UNCHANGED <<space, obj, ref, stack, handles, collector>>

\* create_handle, for a value returned to the host.
CreateHandle(t, a, k) ==
    /\ pc[t] = "running"
    /\ a \in stack[t] /\ handles[k] = {}
    /\ handles' = [handles EXCEPT ![k] = {a}]
    /\ UNCHANGED <<space, obj, ref, dirty, stack, pc, store, collector>>

\* resolve_handle, whose caller proves that it holds a permit.
ResolveHandle(t, k) ==
    /\ pc[t] = "running"
    /\ handles[k] # {} /\ ~(handles[k] \subseteq stack[t])
    /\ stack' = [stack EXCEPT ![t] = @ \union handles[k]]
    /\ UNCHANGED <<space, obj, ref, dirty, handles, pc, store, collector>>

\* release_handle: a host drops its handle whenever it likes, also while a
\* collection runs.
ReleaseHandle(k) ==
    /\ handles[k] # {}
    /\ handles' = [handles EXCEPT ![k] = {}]
    /\ UNCHANGED <<space, obj, ref, dirty, stack, pc, store, collector>>

\* The task gives up its permit, and takes it again once no collection runs.
Park(t) ==
    /\ pc[t] = "running"
    /\ Goto(t, "parked")
    /\ UNCHANGED <<space, obj, ref, dirty, stack, handles, store, collector>>

\* Bug: the task does not wait for the collector.
ResumeEarly(t) ==
    /\ pc[t] = "parked"
    /\ Goto(t, "running")
    /\ UNCHANGED <<space, obj, ref, dirty, stack, handles, store, collector>>

Resume(t) ==
    /\ pc[t] = "parked"
    /\ gc = "idle"
    /\ Goto(t, "running")
    /\ UNCHANGED <<space, obj, ref, dirty, stack, handles, store, collector>>

\* A task gives an object away: the closure to a task it spawns, before that
\* one's VM is registered; its failed future to its parent's queue; a future or
\* a parked error to the registry.
Hand(t, u, a) ==
    /\ pc[t] = "running" /\ a \in stack[t] \ stack[u]
    /\ Push(u, a)
    /\ UNCHANGED <<space, obj, ref, dirty, handles, pc, store, collector>>

\* What it finds in the registry (take_deferred_error) or in the globals, ...
Fetch(t, s, a) ==
    /\ pc[t] = "running" /\ a \in stack[s] \ stack[t]
    /\ Push(t, a)
    /\ UNCHANGED <<space, obj, ref, dirty, handles, pc, store, collector>>

\* ... and an entry it removes there (take_pending).
Forget(t, s, a) ==
    /\ pc[t] = "running" /\ a \in stack[s]
    /\ stack' = [stack EXCEPT ![s] = @ \ {a}]
    /\ UNCHANGED <<space, obj, ref, dirty, handles, pc, store, collector>>

\* The task ends, and its VM and its permit go.
Finish(t) ==
    /\ pc[t] = "running"
    /\ stack' = [stack EXCEPT ![t] = {}]
    /\ Goto(t, "parked")
    /\ UNCHANGED <<space, obj, ref, dirty, handles, store, collector>>

-----------------------------------------------------------------------------
(* The collector.                                                          *)

\* What the worklist reaches from S when it follows the references of T.
Trace(S, T) ==
    {a \in Used : \A C \in SUBSET Used :
                      S \subseteq C /\ (\A c \in C \cap T : ref[c] \subseteq C)
                          => a \in C}

\* Bug: the handles are not among the roots.
StackRootsOnly == UNION {stack[t] : t \in Task}

\* collect_handle_roots and HeapGuard::collect_roots.
AllRoots ==
    (UNION {stack[t] : t \in Task}) \union (UNION {handles[k] : k \in Key})

CollectRoots ==
    /\ gc = "idle"
    /\ \A t \in Task : pc[t] = "parked"
    /\ gc' = "copy"
    /\ roots' = AllRoots
    /\ UNCHANGED <<space, obj, ref, dirty, stack, handles, pc, store, fwd>>

Source(m, b) == CHOOSE a \in DOMAIN m : m[a] = b

Image(m) == {m[a] : a \in DOMAIN m}

\* The copies of the objects in S go to unused addresses.
Moves(S) == {m \in [S -> Free] : /\ \A a, b \in S : m[a] = m[b] => a = b
                                 /\ InOrder(Image(m))}

Forwarding(reached, m) ==
    [a \in reached |-> IF a \in DOMAIN m THEN m[a] ELSE a]

\* fixup_object_references, on the references A of an object.
Fixup(A, f) == {IF a \in DOMAIN f THEN f[a] ELSE a : a \in A}

\* The heap after a collection that moves by m the objects it does not keep in
\* place, and fixes up the copies and, of the objects kept, those in fixed.
Relocate(m, target, kept, fixed, f) ==
    /\ space' = [b \in Addr |-> IF b \in kept THEN space[b]
                                ELSE IF b \in Image(m) THEN target[Source(m, b)]
                                ELSE "free"]
    /\ obj' = [b \in Addr |-> IF b \in kept THEN obj[b]
                              ELSE IF b \in Image(m) THEN obj[Source(m, b)]
                              ELSE NoObject]
    /\ ref' = [b \in Addr |->
                 IF b \in kept
                 THEN IF b \in fixed THEN Fixup(ref[b], f) ELSE ref[b]
                 ELSE IF b \in Image(m) THEN Fixup(ref[Source(m, b)], f)
                 ELSE {}]
    /\ fwd' = f
    /\ roots' = {}
    /\ gc' = "handles"
    /\ UNCHANGED <<stack, handles, pc, store>>

OnDirtyCards == {a \in Old : CardOf[a] \in dirty}

\* scan_dirty_cards_for_young_roots
YoungRoots == Young \cap (UNION {ref[a] : a \in OnDirtyCards})

\* Bug: the objects just promoted are taken for clean.
MarkNone(m) == dirty

\* The card of every promoted object is marked, young references or not, and
\* no card is cleaned.
MarkPromoted(m) ==
    dirty \union {CardOf[m[a]] : a \in {a \in DOMAIN m : space[a] = "gen1"}}

\* Bug: the references of old objects to what has moved are left alone.
NoneFixed == {}

AllDirtyFixed == OnDirtyCards

\* collect_garbage_minor
Minor ==
    /\ gc = "copy"
    /\ LET reached == Trace(roots \union YoungRoots, Young) IN
       \E m \in Moves(reached \cap Young) :
          /\ Relocate(m, [a \in DOMAIN m |->
                            IF space[a] = "gen0" THEN "gen1" ELSE "gen2"],
                      Old, AllDirtyFixed, Forwarding(reached, m))
          /\ dirty' = MarkPromoted(m)

\* collect_garbage: copy_collection
Major ==
    /\ gc = "copy"
    /\ LET reached == Trace(roots, Used) IN
       \E m \in Moves(reached) :
          /\ Relocate(m, [a \in DOMAIN m |-> "gen2"], {}, {},
                      Forwarding(reached, m))
          /\ dirty' = {}

\* update_handles, which panics on a handle that was not forwarded.
UpdateHandles ==
    /\ gc = "handles"
    /\ \A k \in Key : handles[k] \subseteq DOMAIN fwd
    /\ handles' = [k \in Key |-> {fwd[a] : a \in handles[k]}]
    /\ gc' = "forward"
    /\ UNCHANGED <<space, obj, ref, dirty, stack, pc, store, roots, fwd>>

\* HeapGuard::forward_roots; then the guard is dropped.
ForwardRoots ==
    /\ gc = "forward"
    /\ stack' = [t \in Task |-> Fixup(stack[t], fwd)]
    /\ gc' = "idle"
    /\ fwd' = [a \in {} |-> a]
    /\ UNCHANGED <<space, obj, ref, dirty, handles, pc, store, roots>>

-----------------------------------------------------------------------------
\* What the VM of a task with a permit does to the heap, ...
Mutate(t) ==
    \/ \E a \in Addr, o \in Object : Alloc(t, a, o)
    \/ \E a \in Addr : Pop(t, a) \/ \E k \in Key : CreateHandle(t, a, k)
    \/ \E a, b \in Addr : \/ Load(t, a, b) \/ BuiltinMut(t, a, b)
                          \/ BarrierThenWrite(t, a, b)
                          \/ \E old \in SUBSET ref[a] :
                                WriteThenBarrier(t, a, b, old)
    \/ \E old \in SUBSET Addr : Write(t, old)
    \/ Barrier(t)
    \/ \E k \in Key : ResolveHandle(t, k)

\* ... and how tasks come by their permits.
Schedule(t) ==
    \/ Park(t) \/ Resume(t) \/ Finish(t)
    \/ \E u \in Task, a \in Addr : Hand(t, u, a)
    \/ \E s \in Shared, a \in Addr : Fetch(t, s, a) \/ Forget(t, s, a)

Next ==
    \/ \E t \in Task \ Shared : Mutate(t) \/ Schedule(t)
    \/ \E k \in Key : ReleaseHandle(k)
    \/ CollectRoots \/ Minor \/ Major \/ UpdateHandles \/ ForwardRoots

Spec == Init /\ [][Next]_vars

-----------------------------------------------------------------------------
(* Correctness.                                                            *)

\* The shape of the state; a slot that is not in use holds nothing.
TypeOK ==
    /\ space \in [Addr -> {"free", "gen0", "gen1", "gen2"}]
    /\ obj \in [Addr -> Object \union {NoObject}]
    /\ ref \in [Addr -> SUBSET Addr]
    /\ dirty \subseteq Card
    /\ stack \in [Task -> SUBSET Addr]
    /\ handles \in [Key -> SUBSET Addr]
    /\ pc \in [Task -> {"running", "writing", "marking", "parked"}]
    /\ store \in [Task -> (Addr \X Addr) \union {<<>>}]
    /\ \A t \in Task : pc[t] \in {"writing", "marking"} <=> store[t] # <<>>
    /\ gc \in {"idle", "copy", "handles", "forward"}
    /\ roots \subseteq Addr
    /\ DOMAIN fwd \subseteq Addr /\ \A a \in DOMAIN fwd : fwd[a] \in Addr

HeapClosed == \A a \in Used : ref[a] \subseteq Used

\* Stacks are stale between the copy and forward_roots, ...
StacksValid == gc \in {"idle", "copy"} => \A t \in Task : stack[t] \subseteq Used

\* ... and handles until update_handles.
HandlesValid == gc # "handles" => \A k \in Key : handles[k] \subseteq Used

\* Nothing that a task, a handle or an object refers to has been reclaimed:
\* every reference that can be followed leads to an object in use.
NoDangling == HeapClosed /\ StacksValid /\ HandlesValid

\* An old object that refers to a young one lies on a dirty card, unless a task
\* that wrote the reference is about to mark it.
CardsCoverYoung ==
    \A a \in Old : \A b \in ref[a] \cap Young :
        \/ CardOf[a] \in dirty
        \/ \E t \in Task : pc[t] = "marking" /\ store[t] = <<a, b>>

\* The assertion of update_handles holds, whatever the hosts released since the
\* roots were read.
HandlesForwarded ==
    gc = "handles" => \A k \in Key : handles[k] \subseteq DOMAIN fwd

-----------------------------------------------------------------------------
(* Collections are invisible: addresses change, what the tasks and the     *)
(* hosts see of the graph of objects does not.                             *)

\* What a stack and a handle refer to, in the addresses of the moment.
StackNow(t) ==
    IF gc \in {"handles", "forward"} THEN Fixup(stack[t], fwd) ELSE stack[t]

HandleNow(k) == IF gc = "handles" THEN Fixup(handles[k], fwd) ELSE handles[k]

Objects(A) == {obj[a] : a \in A}

Edges ==
    [o \in Object |-> UNION {Objects(ref[a]) : a \in {a \in Used : obj[a] = o}}]

Exists == Objects(Used)
Stacks == [t \in Task |-> Objects(StackNow(t))]
Handles == [k \in Key |-> Objects(HandleNow(k))]

Contract == INSTANCE HeapContract WITH
                exists <- Exists, edge <- Edges, stack <- Stacks, handle <- Handles

\* The collector implements the heap's contract: no object that a task, a host
\* or another object refers to is lost, doubled, exchanged or cut off from what
\* it refers to, whatever the collections between the steps of the tasks.
HeapAsPromised == Contract!Spec
=============================================================================
