---------------------------- MODULE HeapPermits -----------------------------
(***************************************************************************)
(* How BEX tasks share the heap with the garbage collector: the            *)
(* HeapPermitManager (bex_heap/src/heap_guard.rs), the engine's GC         *)
(* safepoints and collect_garbage (bex_engine/src/lib.rs), and the         *)
(* early-yield flag a running VM polls (bex_vm_types/src/lib.rs).          *)
(*                                                                         *)
(* A VM task holds one permit while it runs.  A collector, which is a VM   *)
(* task at a safepoint or a caller of collect_garbage, takes them all.     *)
(* tokio's semaphore is fair: it serves its queue in order, and a waiter   *)
(* at the head keeps whatever is returned until its request is complete.   *)
(***************************************************************************)
EXTENDS Integers, Sequences, FiniteSets

CONSTANTS
    Vm,         \* slots for tasks: a task that ends leaves its slot to another
    Host,       \* callers of collect_garbage outside the event loop
    MaxPermits  \* MAX_PERMITS

ASSUME PermitsAssumption ==
    /\ IsFiniteSet(Vm) /\ Vm \cap Host = {}
    /\ MaxPermits \in Nat /\ Cardinality(Vm) <= MaxPermits /\ 0 < MaxPermits

VARIABLES
    avail,      \* permits left in HeapPermitManager.active
    queue,      \* its waiters, first come first served
    lock,       \* who holds the HeapPermitManager.holders mutex: {} or {c}
    holders,    \* the tasks whose cell the holders list refers to
    checking,   \* BexEngine.checking_gc
    park,       \* BexEngine.park_requested
    scanned,    \* the tasks whose roots the current collection has read
    child,      \* the task that a spawning task creates, else itself
    back,       \* the safepoint a collecting task returns to
    pc

vars == <<avail, queue, lock, holders, checking, park, scanned, child, back,
          pc>>

Actor == Vm \union Host

Goto(a, p) == pc' = [pc EXCEPT ![a] = p]

Active     == {"running", "safepoint", "deciding", "spawning", "clearing"}
Exclusive  == {"gc_lock", "gc_clear", "gc_scan", "gc_forward", "gc_end"}
Collecting == Exclusive \union {"gc_flag", "gc_enqueue", "gc_drain"}

Live == {v \in Vm : pc[v] # "unborn"}

Init ==
    /\ avail = MaxPermits
    /\ queue = <<>>
    /\ lock = {}
    /\ holders = {}
    /\ checking = FALSE
    /\ park = FALSE
    /\ scanned = {}
    /\ child = [v \in Vm |-> v]
    /\ back = [v \in Vm |-> "none"]
    /\ pc = [a \in Actor |-> IF a \in Vm THEN "unborn" ELSE "idle"]

-----------------------------------------------------------------------------
(* Registering and running.                                                *)

\* Bug: a cell is listed without taking the holders mutex.
LockIgnored == TRUE

LockFree == lock = {}

\* new_permit for the root task of a call.
NewRoot(v) ==
    /\ pc[v] = "unborn"
    /\ \A u \in Vm : pc[u] = "spawning" => child[u] # v
    /\ LockFree
    /\ holders' = holders \union {v}
    /\ Goto(v, "inactive")
    /\ UNCHANGED <<avail, queue, lock, checking, park, scanned, child, back>>

\* A running task spawns a child: new_permit while it holds its own permit.
StartSpawn(v, c) ==
    /\ pc[v] = "running" /\ pc[c] = "unborn"
    /\ \A u \in Vm : pc[u] = "spawning" => child[u] # c
    /\ child' = [child EXCEPT ![v] = c]
    /\ Goto(v, "spawning")
    /\ UNCHANGED <<avail, queue, lock, holders, checking, park, scanned, back>>

NewChild(v) ==
    /\ pc[v] = "spawning"
    /\ LockFree
    /\ holders' = holders \union {child[v]}
    /\ child' = [child EXCEPT ![v] = v]
    /\ pc' = [pc EXCEPT ![v] = "running", ![child[v]] = "inactive"]
    /\ UNCHANGED <<avail, queue, lock, checking, park, scanned, back>>

\* InactiveHeapPermit::acquire
Enqueue(v) ==
    /\ pc[v] = "inactive"
    /\ queue' = Append(queue, v)
    /\ Goto(v, "acquiring")
    /\ UNCHANGED <<avail, lock, holders, checking, park, scanned, child, back>>

Granted(v) ==
    /\ pc[v] = "acquiring"
    /\ queue # <<>> /\ Head(queue) = v
    /\ avail >= 1
    /\ avail' = avail - 1
    /\ queue' = Tail(queue)
    /\ Goto(v, IF back[v] = "safepoint" THEN "clearing" ELSE "running")
    /\ UNCHANGED <<lock, holders, checking, park, scanned, child, back>>

\* The task ends: the permit and the only strong reference to its cell go.
Finish(v) ==
    /\ pc[v] = "running"
    /\ avail' = avail + 1
    /\ Goto(v, "unborn")
    /\ UNCHANGED <<queue, lock, holders, checking, park, scanned, child, back>>

-----------------------------------------------------------------------------
(* Safepoints.                                                             *)

\* EarlyYieldCheck: a VM that does not suspend otherwise sees the flag.
EarlyYield(v) ==
    /\ pc[v] = "running"
    /\ park
    /\ Goto(v, "safepoint")
    /\ UNCHANGED <<avail, queue, lock, holders, checking, park, scanned, child,
                   back>>

\* gc_safepoint: the CAS on checking_gc, ...
SafepointWins(v) ==
    /\ pc[v] = "safepoint"
    /\ ~checking
    /\ checking' = TRUE
    /\ back' = [back EXCEPT ![v] = "safepoint"]
    /\ Goto(v, "deciding")
    /\ UNCHANGED <<avail, queue, lock, holders, park, scanned, child>>

\* ... whose winner collects, ...
SafepointCollects(v) ==
    /\ pc[v] = "deciding"
    /\ avail' = avail + 1
    /\ Goto(v, "gc_flag")
    /\ UNCHANGED <<queue, lock, holders, checking, park, scanned, child, back>>

\* ... or is told by should_collect that there is no need, and keeps its
\* permit; checking_gc is cleared either way, with the permit held.
ClearChecking(v) ==
    /\ pc[v] \in {"deciding", "clearing"}
    /\ checking' = FALSE
    /\ back' = [back EXCEPT ![v] = "none"]
    /\ Goto(v, "running")
    /\ UNCHANGED <<avail, queue, lock, holders, park, scanned, child>>

\* Bug: a loser of the CAS goes on without renewing its permit.
SafepointIgnores(v) ==
    /\ pc[v] = "safepoint"
    /\ checking
    /\ Goto(v, "running")
    /\ UNCHANGED <<avail, queue, lock, holders, checking, park, scanned, child,
                   back>>

\* A loser renews: it releases its permit and queues for it again.
SafepointRenews(v) ==
    /\ pc[v] = "safepoint"
    /\ checking
    /\ avail' = avail + 1
    /\ Goto(v, "inactive")
    /\ UNCHANGED <<queue, lock, holders, checking, park, scanned, child, back>>

\* The await and sys-op arms release the permit, ...
Suspend(v) ==
    /\ pc[v] = "running"
    /\ avail' = avail + 1
    /\ Goto(v, "released")
    /\ UNCHANGED <<queue, lock, holders, checking, park, scanned, child, back>>

\* Bug: every suspended task looks whether the heap is full.
MaybeCollectUnchecked(v) ==
    /\ pc[v] = "released"
    /\ checking' = TRUE
    /\ back' = [back EXCEPT ![v] = "await"]
    /\ Goto(v, "judging")
    /\ UNCHANGED <<avail, queue, lock, holders, park, scanned, child>>

\* ... run maybe_collect_garbage without one, ...
MaybeCollect(v) ==
    /\ pc[v] = "released"
    /\ IF checking
       THEN Goto(v, "waiting") /\ UNCHANGED <<checking, back>>
       ELSE /\ checking' = TRUE
            /\ back' = [back EXCEPT ![v] = "await"]
            /\ Goto(v, "judging")
    /\ UNCHANGED <<avail, queue, lock, holders, park, scanned, child>>

JudgeCollects(v) ==
    /\ pc[v] = "judging"
    /\ Goto(v, "gc_flag")
    /\ UNCHANGED <<avail, queue, lock, holders, checking, park, scanned, child,
                   back>>

JudgeDeclines(v) ==
    /\ pc[v] = "judging"
    /\ checking' = FALSE
    /\ back' = [back EXCEPT ![v] = "none"]
    /\ Goto(v, "waiting")
    /\ UNCHANGED <<avail, queue, lock, holders, park, scanned, child>>

\* ... and wait for their event.
Event(v) ==
    /\ pc[v] = "waiting"
    /\ Goto(v, "inactive")
    /\ UNCHANGED <<avail, queue, lock, holders, checking, park, scanned, child,
                   back>>

-----------------------------------------------------------------------------
(* collect_garbage, by a VM task or by a host.                             *)

HostCollects(h) ==
    /\ pc[h] = "idle"
    /\ Goto(h, "gc_flag")
    /\ UNCHANGED <<avail, queue, lock, holders, checking, park, scanned, child,
                   back>>

\* Bug: the flag is raised only once all permits are there.
RequestParkLate(c) ==
    /\ pc[c] = "gc_flag"
    /\ Goto(c, "gc_enqueue")
    /\ UNCHANGED <<avail, queue, lock, holders, checking, park, scanned, child,
                   back>>

\* park_requested.store(true)
RequestPark(c) ==
    /\ pc[c] = "gc_flag"
    /\ park' = TRUE
    /\ Goto(c, "gc_enqueue")
    /\ UNCHANGED <<avail, queue, lock, holders, checking, scanned, child, back>>

\* Bug: request_park takes the holders mutex before the permits.
LocksFirst(c) ==
    /\ pc[c] = "gc_enqueue"
    /\ LockFree
    /\ lock' = {c}
    /\ queue' = Append(queue, c)
    /\ Goto(c, "gc_drain")
    /\ UNCHANGED <<avail, holders, checking, park, scanned, child, back>>

\* request_park: acquire_many(MAX_PERMITS), then the holders mutex.
EnqueueAll(c) ==
    /\ pc[c] = "gc_enqueue"
    /\ queue' = Append(queue, c)
    /\ Goto(c, "gc_drain")
    /\ UNCHANGED <<avail, lock, holders, checking, park, scanned, child, back>>

\* Bug: collecting starts with one permit, as for a VM.
NeedsOnePermit == 1

NeedsAllPermits == MaxPermits

Drained(c) ==
    /\ pc[c] = "gc_drain"
    /\ queue # <<>> /\ Head(queue) = c
    /\ avail >= NeedsAllPermits
    /\ avail' = avail - NeedsAllPermits
    /\ queue' = Tail(queue)
    /\ Goto(c, "gc_lock")
    /\ UNCHANGED <<lock, holders, checking, park, scanned, child, back>>

\* The list is pruned of the cells that no task owns any more.
LockHolders(c) ==
    /\ pc[c] = "gc_lock"
    /\ lock = {}
    /\ lock' = {c}
    /\ holders' = holders \cap Live
    /\ Goto(c, "gc_clear")
    /\ UNCHANGED <<avail, queue, checking, park, scanned, child, back>>

\* park_requested.store(false)
ClearPark(c) ==
    /\ pc[c] = "gc_clear"
    /\ park' = FALSE
    /\ Goto(c, "gc_scan")
    /\ UNCHANGED <<avail, queue, lock, holders, checking, scanned, child, back>>

\* HeapGuard::collect_roots, over the cells that are still owned.
CollectRoots(c) ==
    /\ pc[c] = "gc_scan"
    /\ scanned' = holders \cap Live
    /\ Goto(c, "gc_forward")
    /\ UNCHANGED <<avail, queue, lock, holders, checking, park, child, back>>

\* The objects have moved: HeapGuard::forward_roots.
ForwardRoots(c) ==
    /\ pc[c] = "gc_forward"
    /\ Goto(c, "gc_end")
    /\ UNCHANGED <<avail, queue, lock, holders, checking, park, scanned, child,
                   back>>

\* Dropping the HeapGuard; the collector then returns where it came from.
DropGuard(c) ==
    /\ pc[c] = "gc_end"
    /\ avail' = avail + MaxPermits
    /\ lock' = {}
    /\ scanned' = {}
    /\ CASE c \in Host ->
                Goto(c, "idle") /\ UNCHANGED <<checking, back>>
         [] c \in Vm /\ back[c] = "safepoint" ->
                Goto(c, "inactive") /\ UNCHANGED <<checking, back>>
         [] OTHER ->
                /\ checking' = FALSE
                /\ back' = [back EXCEPT ![c] = "none"]
                /\ Goto(c, "waiting")
    /\ UNCHANGED <<queue, holders, park, child>>

-----------------------------------------------------------------------------
Collect(c) ==
    \/ RequestPark(c) \/ EnqueueAll(c) \/ Drained(c) \/ LockHolders(c)
    \/ ClearPark(c) \/ CollectRoots(c) \/ ForwardRoots(c) \/ DropGuard(c)

Permit(v) == NewChild(v) \/ Enqueue(v) \/ Granted(v)

Safepoint(v) ==
    \/ EarlyYield(v) \/ SafepointWins(v) \/ SafepointCollects(v)
    \/ SafepointRenews(v) \/ ClearChecking(v)
    \/ MaybeCollect(v) \/ JudgeCollects(v) \/ JudgeDeclines(v)

Next ==
    \/ \E v \in Vm : \/ NewRoot(v) \/ Finish(v) \/ Suspend(v) \/ Event(v)
                     \/ Permit(v) \/ Safepoint(v)
                     \/ \E c \in Vm : StartSpawn(v, c)
    \/ \E h \in Host : HostCollects(h)
    \/ \E c \in Actor : Collect(c)

Spec == Init /\ [][Next]_vars

\* Every task that can go on is polled, and a running VM polls the early-yield
\* flag.  It need not end or suspend otherwise, and no event need arrive.
FairSpec ==
    /\ Spec
    /\ \A v \in Vm : WF_vars(Permit(v)) /\ WF_vars(Safepoint(v))
    /\ \A c \in Actor : WF_vars(Collect(c))

-----------------------------------------------------------------------------
(* Correctness.                                                            *)

\* The shape of the state; there are never more than MaxPermits permits.
TypeOK ==
    /\ avail \in 0..MaxPermits
    /\ queue \in Seq(Actor)
    /\ lock \in SUBSET Actor
    /\ holders \subseteq Vm
    /\ checking \in BOOLEAN
    /\ park \in BOOLEAN
    /\ scanned \subseteq Vm
    /\ child \in [Vm -> Vm]
    /\ back \in [Vm -> {"none", "safepoint", "await"}]
    /\ pc \in [Actor -> Active \union Collecting \union
                    {"idle", "unborn", "inactive", "acquiring", "released",
                     "judging", "waiting"}]

\* Stop the world: while a collector works no task holds a permit and no other
\* collector works, so objects move under nobody.
CollectsAlone ==
    \A c \in Actor : pc[c] \in Exclusive =>
        \A a \in Actor \ {c} : pc[a] \notin Active \union Exclusive

\* Every task alive when objects have been moved had its roots read and gets
\* them forwarded: none appears between the two passes.
RootsComplete ==
    (\E c \in Actor : pc[c] \in {"gc_forward", "gc_end"}) => Live \subseteq scanned

\* The event loop never runs two collections at a time, and its guard is up
\* exactly while one is on its way.
OneAutomaticCollection ==
    /\ \A u, v \in Vm : back[u] # "none" /\ back[v] # "none" => u = v
    /\ checking <=> \E v \in Vm : back[v] # "none"

\* While a collector waits for the permits, running VMs are asked to yield.
WaitingCollectorIsFlagged ==
    (\E c \in Actor : pc[c] = "gc_drain") => park

\* Nobody waits in a circle (the comments in request_park and at VmExecState::
\* Spawn say why).  Those who wait for permits are in the queue; if its head is
\* not served, somebody else holds permits; and whoever holds permits never finds
\* the holders mutex taken.
NoWaitCycle ==
    /\ \A a \in Actor :
          pc[a] \in {"acquiring", "gc_drain"} <=> \E i \in DOMAIN queue : queue[i] = a
    /\ queue # <<>> =>
          \/ avail >= IF pc[Head(queue)] = "acquiring" THEN 1 ELSE MaxPermits
          \/ \E a \in Actor : pc[a] \in Active \union Exclusive
    /\ \A a \in Actor : pc[a] \in {"spawning", "gc_lock"} => LockFree

\* A collection that was asked for takes place, even though the VMs that run
\* may never suspend by themselves.
CollectionStarts ==
    \A c \in Actor : pc[c] = "gc_drain" ~> pc[c] = "gc_lock"

\* What follows is promised when nobody but the event loop collects: explicit
\* collections erase each other's requests, and VMs may decline theirs.
HostsIdle == \A h \in Host : pc[h] = "idle"
OnlyAutomatic == []HostsIdle

\* A request to yield stands for as long as a collector waits: a collection that
\* lowers the flag never erases the request of the next one.
RequestStands == OnlyAutomatic => []WaitingCollectorIsFlagged

\* The collections of the event loop take place, although VMs may run for ever.
AutomaticCollectionStarts == OnlyAutomatic => CollectionStarts

\* A task that wants to run gets its permit: neither a collection nor the
\* holders mutex keeps it waiting for ever.
TaskResumes ==
    OnlyAutomatic =>
        \A v \in Vm : pc[v] \in {"inactive", "spawning"} ~> pc[v] = "running"
=============================================================================
