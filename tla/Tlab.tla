-------------------------------- MODULE Tlab ---------------------------------
(***************************************************************************)
(* Allocation in Gen0: the thread-local buffers of the permit holders      *)
(* (bex_heap/src/tlab.rs), the shared cursor they refill from (alloc_tlab_ *)
(* chunk in heap.rs), the growth of the space below (module ChunkedVec)    *)
(* and what a collection resets.  A refill is not one step: the cursor is  *)
(* advanced before the growth lock is taken, so that buffers are handed    *)
(* out in one order and the space grows in another.                        *)
(*                                                                         *)
(* Indices are global, as in the code: the compile-time objects come       *)
(* first.  With the heap's debug mode a canary follows every buffer.       *)
(***************************************************************************)
EXTENDS ChunkedVec, FiniteSets

CONSTANTS
    TlabSize,       \* BexHeap.tlab_size
    Canary,         \* canary slots after each buffer: 1 in debug mode, else 0
    CtLen,          \* how many compile-time objects there are
    NoHolder,       \* holds growth_lock when nobody does
    MaxNext         \* bound on the cursor

ASSUME TlabAssumption ==
    /\ TlabSize \in Nat \ {0} /\ Canary \in {0, 1} /\ CtLen \in Nat
    /\ NoHolder \notin Thread
    /\ MaxNext \in Nat

Holder == Thread

VARIABLES
    next,           \* BexHeap.gen0_next_chunk
    growth,         \* who holds growth_lock
    pc,             \* what a holder does
    ptr, limit,     \* its buffer: Tlab.alloc_ptr and .alloc_limit
    reserved,       \* the runtime index a refill under way has reserved
    objects,        \* the slots written since the last collection, and by whom
    canaries,       \* the slots that hold a canary
    gc              \* "idle", or "cleared" until the holders are told

vars == <<cvars, next, growth, pc, ptr, limit, reserved, objects, canaries, gc>>

Init ==
    /\ CInit
    /\ next = 0
    /\ growth = NoHolder
    /\ pc = [h \in Holder |-> "absent"]
    /\ ptr = [h \in Holder |-> 0]
    /\ limit = [h \in Holder |-> 0]
    /\ reserved = [h \in Holder |-> 0]
    /\ objects = {}
    /\ canaries = {}
    /\ gc = "idle"

Goto(h, p) == pc' = [pc EXCEPT ![h] = p]

Active(h) == pc[h] \in {"running", "refill", "growing"}

-----------------------------------------------------------------------------
\* Bug: Tlab::new, which reserves a buffer while its owner has no permit and
\* is not known to the collector.
CreateEagerly(h) ==
    /\ pc[h] = "absent" /\ growth = NoHolder
    /\ next + TlabSize <= MaxNext
    /\ next' = next + TlabSize
    /\ len' = next' /\ granted' = next' /\ chunks' = Needed(next')
    /\ ptr' = [ptr EXCEPT ![h] = CtLen + next]
    /\ limit' = [limit EXCEPT ![h] = CtLen + next']
    /\ Goto(h, "unknown")
    /\ UNCHANGED <<call, growth, reserved, objects, canaries, gc>>

\* Tlab::new_empty
Create(h) ==
    /\ pc[h] = "absent"
    /\ ptr' = [ptr EXCEPT ![h] = 0]
    /\ limit' = [limit EXCEPT ![h] = 0]
    /\ Goto(h, "unknown")
    /\ UNCHANGED <<cvars, next, growth, reserved, objects, canaries, gc>>

\* HeapPermitManager::new_permit: the collector knows the holder from now on.
Register(h) ==
    /\ pc[h] = "unknown"
    /\ Goto(h, "parked")
    /\ UNCHANGED <<cvars, next, growth, ptr, limit, reserved, objects, canaries, gc>>

Acquire(h) ==
    /\ pc[h] = "parked" /\ gc = "idle"
    /\ Goto(h, "running")
    /\ UNCHANGED <<cvars, next, growth, ptr, limit, reserved, objects, canaries, gc>>

Park(h) ==
    /\ pc[h] = "running"
    /\ Goto(h, "parked")
    /\ UNCHANGED <<cvars, next, growth, ptr, limit, reserved, objects, canaries, gc>>

\* The holder is dropped, with what is left of its buffer.
Leave(h) ==
    /\ pc[h] \in {"running", "parked", "unknown"}
    /\ Goto(h, "absent")
    /\ UNCHANGED <<cvars, next, growth, ptr, limit, reserved, objects, canaries, gc>>

-----------------------------------------------------------------------------
(* Refills and allocations, under a permit.                                *)

ReserveEnd(h) == reserved[h] + TlabSize + Canary

\* Bug: a buffer in debug mode leaves no room for its canary.
ReserveTight(h) ==
    /\ pc[h] = "running" /\ ptr[h] >= limit[h]
    /\ next + TlabSize <= MaxNext
    /\ reserved' = [reserved EXCEPT ![h] = next]
    /\ next' = next + TlabSize
    /\ Goto(h, "refill")
    /\ UNCHANGED <<cvars, growth, ptr, limit, objects, canaries, gc>>

\* Tlab::refill: fetch_add on the cursor.
Reserve(h) ==
    /\ pc[h] = "running" /\ ptr[h] >= limit[h]
    /\ next + TlabSize + Canary <= MaxNext
    /\ reserved' = [reserved EXCEPT ![h] = next]
    /\ next' = next + TlabSize + Canary
    /\ Goto(h, "refill")
    /\ UNCHANGED <<cvars, growth, ptr, limit, objects, canaries, gc>>

\* Bug: there is no growth lock, as if the vector's own were enough.
GrowUnlocked(h) ==
    /\ pc[h] = "refill"
    /\ Goto(h, "growing")
    /\ IF len < ReserveEnd(h) THEN ResizeBegin(h, ReserveEnd(h))
                              ELSE UNCHANGED cvars
    /\ UNCHANGED <<next, growth, ptr, limit, reserved, objects, canaries, gc>>

\* The growth lock is taken, and the length compared with what is needed.
LockGrowth(h) ==
    /\ pc[h] = "refill" /\ growth = NoHolder
    /\ growth' = h
    /\ Goto(h, "growing")
    /\ IF len < ReserveEnd(h) THEN ResizeBegin(h, ReserveEnd(h))
                              ELSE UNCHANGED cvars
    /\ UNCHANGED <<next, ptr, limit, reserved, objects, canaries, gc>>

Grow(h) ==
    /\ pc[h] = "growing"
    /\ ResizeEnd(h)
    /\ UNCHANGED <<next, growth, pc, ptr, limit, reserved, objects, canaries, gc>>

\* The canary is written, the lock released and the buffer handed out.
HandOut(h) ==
    /\ pc[h] = "growing" /\ call[h] = <<>>
    /\ LET end == reserved[h] + TlabSize IN
       /\ canaries' = IF Canary = 1 THEN canaries \union {end} ELSE canaries
       /\ ptr' = [ptr EXCEPT ![h] = CtLen + reserved[h]]
       /\ limit' = [limit EXCEPT ![h] = CtLen + end]
    /\ growth' = NoHolder
    /\ Goto(h, "running")
    /\ UNCHANGED <<cvars, next, reserved, objects, gc>>

\* Tlab::alloc: the slot takes the object, whatever lay in it.
Alloc(h) ==
    /\ pc[h] = "running" /\ ptr[h] < limit[h]
    /\ LET slot == ptr[h] - CtLen IN
       /\ objects' = {o \in objects : o[1] # slot} \union {<<slot, h>>}
       /\ canaries' = canaries \ {slot}
    /\ ptr' = [ptr EXCEPT ![h] = @ + 1]
    /\ UNCHANGED <<cvars, next, growth, pc, limit, reserved, gc>>

-----------------------------------------------------------------------------
(* A collection holds every permit.  It empties Gen0 and resets the cursor *)
(* first, and tells the holders in forward_roots.                          *)

ClearGen0 ==
    /\ gc = "idle" /\ \A h \in Holder : ~Active(h)
    /\ gc' = "cleared"
    /\ Clear
    /\ next' = 0
    /\ objects' = {} /\ canaries' = {}
    /\ UNCHANGED <<growth, pc, ptr, limit, reserved>>

\* Bug: alloc_ptr is reset and alloc_limit is not.
InvalidateHalf ==
    /\ gc = "cleared"
    /\ gc' = "idle"
    /\ ptr' = [h \in Holder |-> IF pc[h] = "parked" THEN 0 ELSE ptr[h]]
    /\ UNCHANGED <<cvars, next, growth, pc, limit, reserved, objects, canaries>>

\* Tlab::invalidate of every holder that is registered.
Invalidate ==
    /\ gc = "cleared"
    /\ gc' = "idle"
    /\ ptr' = [h \in Holder |-> IF pc[h] = "parked" THEN 0 ELSE ptr[h]]
    /\ limit' = [h \in Holder |-> IF pc[h] = "parked" THEN 0 ELSE limit[h]]
    /\ UNCHANGED <<cvars, next, growth, pc, reserved, objects, canaries>>

-----------------------------------------------------------------------------
Next ==
    \/ \E h \in Holder :
          \/ Create(h) \/ Register(h) \/ Acquire(h) \/ Park(h) \/ Leave(h)
          \/ Reserve(h) \/ LockGrowth(h) \/ Grow(h) \/ HandOut(h) \/ Alloc(h)
    \/ ClearGen0 \/ Invalidate

Spec == Init /\ [][Next]_vars

-----------------------------------------------------------------------------
(* Correctness.                                                            *)

\* The shape of the state; whoever grows the space holds the growth lock.
TypeOK ==
    /\ len \in Nat /\ chunks \in Nat /\ granted \in Nat /\ next \in Nat
    /\ call \in [Holder -> {<<>>} \union ({"resize"} \X Nat)]
    /\ growth \in Holder \union {NoHolder}
    /\ \A h \in Holder : pc[h] = "growing" <=> growth = h
    /\ pc \in [Holder -> {"absent", "unknown", "parked", "running", "refill",
                          "growing"}]
    /\ ptr \in [Holder -> Nat] /\ limit \in [Holder -> Nat]
    /\ reserved \in [Holder -> Nat]
    /\ objects \subseteq Nat \X Holder
    /\ canaries \subseteq Nat
    /\ gc \in {"idle", "cleared"}

\* What a holder may still write: the rest of its buffer, or what its refill
\* has reserved, canary included.
Mine(h) ==
    CASE pc[h] = "running" -> {s \in 0..(next - 1) : ptr[h] <= CtLen + s
                                                     /\ CtLen + s < limit[h]}
      [] pc[h] \in {"refill", "growing"} -> reserved[h]..(ReserveEnd(h) - 1)
      [] OTHER -> {}

\* No assertion of ChunkedVec::set fails, and none that passes leads outside the
\* chunks, although refills grow the space in another order than they reserved
\* it: buffers that were handed out lie below the length.
BuffersInBounds ==
    /\ Backed
    /\ \A h \in Holder : pc[h] = "running" /\ ptr[h] < limit[h] =>
            CtLen <= ptr[h] /\ limit[h] <= CtLen + len
    /\ \A h \in Holder : pc[h] = "growing" /\ call[h] = <<>> => ReserveEnd(h) <= len

\* Running holders never write to the same slot, whatever collections came
\* between the refills.
BuffersDisjoint ==
    \A h, k \in Holder : h # k => Mine(h) \cap Mine(k) = {}

\* What debug_verify_tlab_canaries asserts: no canary has been overwritten,
\* neither by an object nor by the buffer of somebody else.
CanariesIntact ==
    \A h \in Holder : pc[h] = "running" => canaries \cap Mine(h) = {}

\* The nursery implements the contract: an allocation never lands on an object
\* that no collection has cleared.
Contract == INSTANCE SlotContract WITH Owner <- Holder, Slot <- 0..MaxNext

AllocatesAsPromised == Contract!SSpec
=============================================================================
