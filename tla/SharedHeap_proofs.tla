-------------------------- MODULE SharedHeap_proofs --------------------------
(***************************************************************************)
(* The permits protect the heap, for any number of tasks, collectors,      *)
(* permits, objects and addresses: what GenGC takes for granted about the  *)
(* scheduling of tasks and collections is what the protocol of HeapPermits *)
(* guarantees.  What Heap_proofs shows of the heap then holds of the two   *)
(* together.                                                               *)
(***************************************************************************)
EXTENDS SharedHeap, HeapPermits_proofs

HP == INSTANCE Heap_proofs WITH Task <- Cell, pc <- HeapPc

-----------------------------------------------------------------------------
(* The inductive invariant: what links the two states.                     *)

\* A VM is left alone in the middle of a store: its task runs.
StoresHoldPermits ==
    /\ busy \in [Vm -> {"running", "writing", "marking"}]
    /\ \A v \in Vm : busy[v] # "running" => pc[v] = "running"

\* A task that has not been registered has no roots to read.
UnbornHaveNoRoots ==
    /\ stack = [t \in Cell |-> stack[t]]
    /\ \A v \in Vm : pc[v] = "unborn" => stack[v] = {}

\* Between reading the roots and forwarding them, some collector is at work.
CollectorAtWork ==
    gc # "idle" => \E c \in Actor : pc[c] = "gc_forward"

Linked == StoresHoldPermits /\ UnbornHaveNoRoots /\ CollectorAtWork

SInv == IInv /\ Linked

-----------------------------------------------------------------------------
(* What the invariant says of the heap.                                    *)

LEMMA VmsAreTasks == Vm = Cell \ Shared
BY HeapAssumption DEF Cell

\* While a collector works, every task is parked and no other collector works.
LEMMA WorldStopped ==
    ASSUME IInv, NEW c \in Actor, pc[c] \in Exclusive
    PROVE  /\ HeapPc = [t \in Cell |-> "parked"]
           /\ avail = 0
           /\ \A d \in Actor : pc[d] \in Exclusive => d = c
           /\ \A v \in Vm : pc[v] \notin Active
<1>1. c \in Stopping
  BY DEF Stopping
<1>2. Running = {} /\ avail = 0 /\ Stopping = {c}
  BY <1>1 DEF IInv, PermitsAddUp, AddUp
<1>. QED
  BY <1>2 DEF Running, Stopping, HeapPc

\* The cells that are still owned belong to all tasks that have roots.
LEMMA ListedHaveAllRoots ==
    ASSUME SInv
    PROVE  /\ Listed \subseteq Cell
           /\ \A t \in Cell \ Listed : stack[t] = {}
BY DEF SInv, Linked, IInv, TasksListed, UnbornHaveNoRoots, Listed, Live, Cell

-----------------------------------------------------------------------------
(* Tasks: every step is one of the heap's, or none of its business.        *)

\* An instruction is a step of the heap, and the task keeps its permit.
LEMMA ExecuteStep ==
    ASSUME SInv, NEW v \in Vm, Execute(v)
    PROVE  Linked' /\ H!Next
<1>1. H!Next
  BY VmsAreTasks DEF Execute, H!Next
<1>2. StoresHoldPermits'
  BY DEF Execute, SInv, Linked, StoresHoldPermits, vars
<1>3. UnbornHaveNoRoots'
  <2>1. stack' = [stack EXCEPT ![v] = stack'[v]]
    BY DEF Execute, SInv, Linked, UnbornHaveNoRoots, H!Mutate, H!Alloc, H!Pop,
           H!CreateHandle, H!Load, H!BuiltinMut, H!BarrierThenWrite,
           H!WriteThenBarrier, H!Write, H!Barrier, H!ResolveHandle, H!Push
  <2>2. QED
    BY <2>1 DEF Execute, SInv, Linked, UnbornHaveNoRoots, vars, Cell
<1>4. gc' = gc
  BY DEF Execute, H!Mutate, H!Alloc, H!Pop, H!CreateHandle, H!Load,
         H!BuiltinMut, H!BarrierThenWrite, H!WriteThenBarrier, H!Write,
         H!Barrier, H!ResolveHandle, H!collector
<1>5. QED
  BY <1>1, <1>2, <1>3, <1>4 DEF Linked, Execute, SInv, CollectorAtWork, vars

\* A step of the permits that moves one task parks it, or lets it run on while
\* nobody collects, or leaves it as it is.
LEMMA YieldStep ==
    ASSUME SInv, NEW v \in Vm, Yield(v)
    PROVE  Linked' /\ (H!Park(v) \/ H!Resume(v) \/ UNCHANGED H!vars)
<1> USE Actors DEF SInv, Linked
<1>1. /\ pc' = [pc EXCEPT ![v] = pc'[v]]
      /\ pc[v] # "gc_forward" /\ pc'[v] # "unborn"
      /\ pc[v] \notin Active /\ pc'[v] \in Active => Granted(v)
  BY DEF Yield, NewRoot, Suspend, Event, Enqueue, Granted, StartSpawn, Safepoint,
         EarlyYield, SafepointWins, SafepointCollects, SafepointRenews,
         ClearChecking, MaybeCollect, JudgeCollects, JudgeDeclines, Goto, IInv,
         TypeOK, Active
<1>2. busy[v] = "running" /\ UNCHANGED <<heap, busy>>
  BY DEF Yield
<1>3. Granted(v) => gc = "idle"
  <2> SUFFICES ASSUME Granted(v), gc # "idle"
               PROVE  FALSE
    OBVIOUS
  <2>1. PICK c \in Actor : pc[c] = "gc_forward"
    BY DEF CollectorAtWork
  <2>2. avail = 0
    BY <2>1, WorldStopped DEF Exclusive
  <2>3. QED
    BY <2>2 DEF Granted
<1>4. Linked'
  <2>1. StoresHoldPermits'
    BY <1>1, <1>2 DEF StoresHoldPermits, IInv, TypeOK
  <2>2. UnbornHaveNoRoots'
    BY <1>1, <1>2 DEF UnbornHaveNoRoots, IInv, TypeOK, heap
  <2>3. CollectorAtWork'
    BY <1>1, <1>2 DEF CollectorAtWork, IInv, TypeOK, heap
  <2>4. QED
    BY <2>1, <2>2, <2>3 DEF Linked
<1>5. \A u \in Vm \ {v} : pc'[u] = pc[u]
  BY <1>1 DEF IInv, TypeOK
<1>6. CASE pc[v] \in Active /\ pc'[v] \notin Active
  <2>1. HeapPc[v] = "running" /\ HeapPc' = [HeapPc EXCEPT ![v] = "parked"]
    BY <1>2, <1>5, <1>6 DEF HeapPc, Cell
  <2>2. H!Park(v)
    BY <1>2, <2>1 DEF H!Park, H!Goto, heap, graph, H!collector
  <2>3. QED
    BY <1>4, <2>2
<1>7. CASE pc[v] \notin Active /\ pc'[v] \in Active
  <2>1. HeapPc[v] = "parked" /\ HeapPc' = [HeapPc EXCEPT ![v] = "running"]
    BY <1>2, <1>5, <1>7 DEF HeapPc, Cell
  <2>2. H!Resume(v)
    BY <1>1, <1>2, <1>3, <1>7, <2>1 DEF H!Resume, H!Goto, heap, graph, H!collector
  <2>3. QED
    BY <1>4, <2>2
<1>8. CASE pc[v] \in Active <=> pc'[v] \in Active
  <2>1. HeapPc' = HeapPc
    BY <1>2, <1>5, <1>8 DEF HeapPc
  <2>2. QED
    BY <1>2, <1>4, <2>1 DEF H!vars, heap, graph
<1>9. QED
  BY <1>6, <1>7, <1>8

\* A failed task leaves its future with a task that lives; the registry has a
\* cell in any case.
LEMMA ReportStep ==
    ASSUME SInv, NEW v \in Vm, Report(v)
    PROVE  Linked' /\ H!Schedule(v)
<1> USE DEF SInv, Linked
<1>1. UNCHANGED <<vars, busy>> /\ H!Schedule(v)
  BY DEF Report, H!Schedule, Live, Cell
<1>2. PICK u \in Live \union Shared \union {v} :
          stack' = [stack EXCEPT ![u] = stack'[u]] /\ gc' = gc
  BY DEF Report, H!Hand, H!Fetch, H!Forget, H!Push, H!collector,
         UnbornHaveNoRoots, Cell, Live
<1>3. u \in Cell /\ (u \in Vm => pc[u] # "unborn")
  BY HeapAssumption DEF Report, Live, Cell
<1>4. UnbornHaveNoRoots'
  BY <1>1, <1>2, <1>3 DEF UnbornHaveNoRoots, vars, Cell
<1>5. QED
  BY <1>1, <1>2, <1>4
     DEF Linked, StoresHoldPermits, CollectorAtWork, vars

\* The closure that a child runs is handed to it before anybody can collect.
LEMMA SpawnTaskStep ==
    ASSUME SInv, NEW v \in Vm, SpawnTask(v), stack[v] \subseteq Addr
    PROVE  /\ Linked'
           /\ \/ \E u \in Cell, a \in Addr : H!Hand(v, u, a)
              \/ UNCHANGED H!vars
<1> USE Actors DEF SInv, Linked
<1> DEFINE c == child[v]
<1>1. c \in Vm /\ pc[v] = "spawning" /\ pc[c] = "unborn" /\ c # v
  BY DEF SpawnTask, NewChild, IInv, TypeOK, ChildrenUnborn
<1>2. pc' = [pc EXCEPT ![v] = "running", ![c] = "inactive"]
  BY DEF SpawnTask, NewChild
<1>3. /\ stack[c] = {} /\ busy[v] = "running"
      /\ UNCHANGED <<graph, gc, roots, fwd, busy>>
  BY <1>1 DEF SpawnTask, UnbornHaveNoRoots, StoresHoldPermits
<1>4. HeapPc' = HeapPc /\ HeapPc[v] = "running"
  <2>1. /\ pc'[v] \in Active /\ pc[v] \in Active
        /\ pc'[c] \notin Active /\ pc[c] \notin Active
        /\ \A u \in Vm \ {v, c} : pc'[u] = pc[u]
    BY <1>1, <1>2 DEF IInv, TypeOK, Active
  <2>2. QED
    BY <1>1, <1>3, <2>1 DEF HeapPc, Cell
<1>5. PICK A \in {{}} \union {{a} : a \in stack[v]} :
          stack' = [stack EXCEPT ![c] = A]
  BY DEF SpawnTask
<1>6. Linked'
  <2>1. StoresHoldPermits'
    BY <1>1, <1>2, <1>3 DEF StoresHoldPermits, IInv, TypeOK
  <2>2. UnbornHaveNoRoots'
    <3>1. \A u \in Vm : pc'[u] = "unborn" => u # c /\ pc[u] = "unborn"
      BY <1>1, <1>2 DEF IInv, TypeOK
    <3>2. stack' = [u \in Cell |-> stack'[u]] /\ \A u \in Cell \ {c} : stack'[u] = stack[u]
      BY <1>1, <1>5 DEF UnbornHaveNoRoots
    <3>3. QED
      BY <3>1, <3>2 DEF UnbornHaveNoRoots, Cell
  <2>3. CollectorAtWork'
    <3>1. \A d \in Actor : pc[d] = "gc_forward" => pc'[d] = "gc_forward"
      BY <1>1, <1>2 DEF IInv, TypeOK
    <3>2. QED
      BY <1>3, <3>1 DEF CollectorAtWork
  <2>4. QED
    BY <2>1, <2>2, <2>3 DEF Linked
<1>7. CASE A = {}
  <2>1. stack' = stack
    BY <1>1, <1>3, <1>5, <1>7 DEF UnbornHaveNoRoots
  <2>2. QED
    BY <1>3, <1>4, <1>6, <2>1 DEF H!vars, graph
<1>8. CASE \E a \in stack[v] : A = {a}
  <2>1. PICK a \in stack[v] : A = {a}
    BY <1>8
  <2>2. H!Push(c, a)
    BY <1>1, <1>3, <1>5, <2>1 DEF H!Push
  <2>3. H!Hand(v, c, a)
    BY <1>3, <1>4, <2>1, <2>2 DEF H!Hand, graph, H!collector
  <2>4. QED
    BY <1>1, <1>6, <2>1, <2>3 DEF Cell
<1>9. QED
  BY <1>5, <1>7, <1>8

\* A task that ends takes its roots with it.
LEMMA EndTaskStep ==
    ASSUME SInv, NEW v \in Vm, EndTask(v)
    PROVE  Linked' /\ H!Finish(v)
<1> USE Actors DEF SInv, Linked
<1>1. /\ pc[v] = "running" /\ pc' = [pc EXCEPT ![v] = "unborn"]
      /\ busy[v] = "running" /\ stack' = [stack EXCEPT ![v] = {}]
      /\ UNCHANGED <<graph, gc, roots, fwd, busy>>
  BY DEF EndTask, Finish, Goto
<1>2. \A u \in Actor \ {v} : pc'[u] = pc[u]
  BY <1>1 DEF IInv, TypeOK
<1>3. HeapPc[v] = "running" /\ HeapPc' = [HeapPc EXCEPT ![v] = "parked"]
  BY <1>1, <1>2 DEF HeapPc, Active, IInv, TypeOK, Cell
<1>4. StoresHoldPermits' /\ CollectorAtWork'
  BY <1>1, <1>2 DEF StoresHoldPermits, CollectorAtWork
<1>5. UnbornHaveNoRoots'
  BY <1>1, <1>2 DEF UnbornHaveNoRoots, Cell
<1>6. QED
  BY <1>1, <1>3, <1>4, <1>5 DEF Linked, H!Finish, H!Goto, graph, H!collector

\* Another caller asks for a collection.
LEMMA HostStep ==
    ASSUME SInv, NEW h \in Host, HostCollects(h), UNCHANGED <<heap, busy>>
    PROVE  Linked' /\ UNCHANGED H!vars
<1> USE Actors DEF SInv, Linked
<1>1. pc' = [pc EXCEPT ![h] = "gc_flag"] /\ pc[h] = "idle"
  BY DEF HostCollects, Goto
<1>2. /\ \A v \in Vm : pc'[v] = pc[v]
      /\ \A c \in Actor : pc[c] = "gc_forward" => pc'[c] = "gc_forward"
  BY <1>1 DEF IInv, TypeOK
<1>3. HeapPc' = HeapPc
  BY <1>2 DEF HeapPc
<1>4. QED
  BY <1>2, <1>3 DEF Linked, StoresHoldPermits, UnbornHaveNoRoots, CollectorAtWork,
                    H!vars, heap, graph

-----------------------------------------------------------------------------
(* Collections.                                                            *)

\* Taking the permits and giving them back does nothing to the heap.
LEMMA ApproachStep ==
    ASSUME SInv, NEW c \in Actor, Approach(c)
    PROVE  Linked' /\ UNCHANGED H!vars
<1> USE Actors DEF SInv, Linked
<1>1. /\ pc' = [pc EXCEPT ![c] = pc'[c]]
      /\ pc[c] \notin Active \union {"unborn", "gc_forward"}
      /\ pc'[c] \notin Active \union {"unborn"}
      /\ UNCHANGED <<heap, busy>>
  BY DEF Approach, RequestPark, EnqueueAll, Drained, LockHolders, ClearPark,
         DropGuard, Goto, IInv, TypeOK, Active
<1>2. \A d \in Actor \ {c} : pc'[d] = pc[d]
  BY <1>1 DEF IInv, TypeOK
<1>3. HeapPc' = HeapPc
  BY <1>1, <1>2 DEF HeapPc
<1>4. StoresHoldPermits'
  BY <1>1, <1>2 DEF StoresHoldPermits, Active
<1>5. UnbornHaveNoRoots' /\ CollectorAtWork'
  BY <1>1, <1>2 DEF UnbornHaveNoRoots, CollectorAtWork, heap
<1>6. QED
  BY <1>1, <1>3, <1>4, <1>5 DEF Linked, H!vars, heap, graph

\* The roots of the listed tasks and the handles are all roots there are, no
\* task runs, and no collection was left half done.
LEMMA ReadRootsStep ==
    ASSUME SInv, NEW c \in Actor, ReadRoots(c)
    PROVE  Linked' /\ H!CollectRoots
<1> USE Actors DEF SInv, Linked
<1>1. /\ pc[c] = "gc_scan" /\ pc' = [pc EXCEPT ![c] = "gc_forward"]
      /\ gc' = "copy" /\ UNCHANGED <<graph, stack, fwd, busy>>
  BY DEF ReadRoots, CollectRoots, Goto
<1>2. /\ HeapPc = [t \in Cell |-> "parked"]
      /\ \A d \in Actor : pc[d] \in Exclusive => d = c
      /\ \A v \in Vm : pc[v] \notin Active
  BY <1>1, WorldStopped DEF Exclusive
<1>3. gc = "idle"
  BY <1>1, <1>2 DEF CollectorAtWork, Exclusive
<1>4. /\ pc'[c] = "gc_forward"
      /\ \A d \in Actor \ {c} : pc'[d] = pc[d]
  BY <1>1 DEF IInv, TypeOK
<1>5. HeapPc' = HeapPc
  BY <1>1, <1>2, <1>4 DEF HeapPc, Active
<1>6. roots' = H!AllRoots
  BY ListedHaveAllRoots DEF ReadRoots, H!AllRoots
<1>7. H!CollectRoots
  BY <1>1, <1>2, <1>3, <1>5, <1>6 DEF H!CollectRoots, graph
<1>8. QED
  BY <1>1, <1>4, <1>7 DEF Linked, StoresHoldPermits, UnbornHaveNoRoots,
                          CollectorAtWork

\* Copying and updating the handles are steps of GenGC as they stand.
LEMMA RelocateStep ==
    ASSUME SInv, NEW c \in Actor, Relocate(c)
    PROVE  Linked' /\ H!Next
<1>1. H!Next
  BY DEF Relocate, H!Next
<1>2. UNCHANGED <<stack, pc, busy>> /\ pc[c] = "gc_forward"
  BY DEF Relocate, H!Minor, H!Major, H!Relocate, H!UpdateHandles, vars
<1>3. QED
  BY <1>1, <1>2 DEF SInv, Linked, StoresHoldPermits, UnbornHaveNoRoots,
                    CollectorAtWork

\* A task that is not listed has nothing to forward.
LEMMA ForwardStep ==
    ASSUME SInv, NEW c \in Actor, Forward(c)
    PROVE  Linked' /\ H!ForwardRoots
<1> USE Actors DEF SInv, Linked
<1>1. /\ pc[c] = "gc_forward" /\ pc' = [pc EXCEPT ![c] = "gc_end"]
      /\ gc = "forward" /\ gc' = "idle" /\ fwd' = [a \in {} |-> a]
      /\ UNCHANGED <<graph, roots, busy>>
  BY DEF Forward, ForwardRoots, Goto
<1>2. \A d \in Actor \ {c} : pc'[d] = pc[d]
  BY <1>1 DEF IInv, TypeOK
<1>3. HeapPc' = HeapPc
  BY <1>1, <1>2 DEF HeapPc, IInv, TypeOK, Active
<1>4. \A t \in Cell \ Listed : stack[t] = {} /\ H!Fixup(stack[t], fwd) = {}
  BY ListedHaveAllRoots DEF H!Fixup
<1>5. stack' = [t \in Cell |-> H!Fixup(stack[t], fwd)]
  BY <1>4 DEF Forward
<1>6. H!ForwardRoots
  BY <1>1, <1>3, <1>5 DEF H!ForwardRoots, graph
<1>7. UnbornHaveNoRoots'
  BY <1>1, <1>2, <1>5 DEF UnbornHaveNoRoots, H!Fixup, IInv, TypeOK, Cell
<1>8. QED
  BY <1>1, <1>2, <1>6, <1>7 DEF Linked, StoresHoldPermits, CollectorAtWork, IInv,
                                TypeOK

-----------------------------------------------------------------------------
(* The composition implements both of its parts.                           *)

\* Heap_proofs speaks of the heap that SharedHeap refers to.
LEMMA SameHeap ==
    /\ H!Init <=> HP!Init
    /\ H!Next <=> HP!Next
    /\ H!vars = HP!vars
<1>1. H!vars = HP!vars
  BY DEF H!vars, HP!vars
<1>2. H!Init <=> HP!Init
  BY DEF H!Init, HP!Init
<1>3. \A t \in Cell : H!Mutate(t) <=> HP!Mutate(t)
  BY DEF H!Mutate, H!Alloc, H!Pop, H!CreateHandle, H!Load, H!BuiltinMut,
         H!BarrierThenWrite, H!WriteThenBarrier, H!Write, H!Barrier, H!Put,
         H!ResolveHandle, H!Push, H!Goto, H!MarkCard, H!InOrder, H!Free, H!Used,
         H!Young, H!Old, H!collector, H!Cardinality,
         HP!Mutate, HP!Alloc, HP!Pop, HP!CreateHandle, HP!Load, HP!BuiltinMut,
         HP!BarrierThenWrite, HP!WriteThenBarrier, HP!Write, HP!Barrier, HP!Put,
         HP!ResolveHandle, HP!Push, HP!Goto, HP!MarkCard, HP!InOrder, HP!Free,
         HP!Used, HP!Young, HP!Old, HP!collector, HP!Cardinality
<1>4. \A t \in Cell : H!Schedule(t) <=> HP!Schedule(t)
  BY DEF H!Schedule, H!Park, H!Resume, H!Finish, H!Hand, H!Fetch, H!Forget,
         H!Push, H!Goto, H!collector,
         HP!Schedule, HP!Park, HP!Resume, HP!Finish, HP!Hand, HP!Fetch, HP!Forget,
         HP!Push, HP!Goto, HP!collector
<1>5. H!Minor <=> HP!Minor
  BY DEF H!Minor, H!Trace, H!YoungRoots, H!OnDirtyCards, H!Moves, H!Image,
         H!InOrder, H!Relocate, H!AllDirtyFixed, H!Forwarding, H!MarkPromoted,
         H!Source, H!Fixup, H!Free, H!Used, H!Young, H!Old,
         HP!Minor, HP!Trace, HP!YoungRoots, HP!OnDirtyCards, HP!Moves, HP!Image,
         HP!InOrder, HP!Relocate, HP!AllDirtyFixed, HP!Forwarding,
         HP!MarkPromoted, HP!Source, HP!Fixup, HP!Free, HP!Used, HP!Young, HP!Old
<1>6. H!Major <=> HP!Major
  BY DEF H!Major, H!Trace, H!Moves, H!Image, H!InOrder, H!Relocate,
         H!Forwarding, H!Source, H!Fixup, H!Free, H!Used, H!Young, H!Old,
         HP!Major, HP!Trace, HP!Moves, HP!Image, HP!InOrder, HP!Relocate,
         HP!Forwarding, HP!Source, HP!Fixup, HP!Free, HP!Used, HP!Young, HP!Old
<1>7. /\ H!CollectRoots <=> HP!CollectRoots
      /\ H!UpdateHandles <=> HP!UpdateHandles
      /\ H!ForwardRoots <=> HP!ForwardRoots
      /\ \A k \in Key : H!ReleaseHandle(k) <=> HP!ReleaseHandle(k)
  BY DEF H!CollectRoots, H!AllRoots, H!UpdateHandles, H!ForwardRoots, H!Fixup,
         H!ReleaseHandle, H!collector,
         HP!CollectRoots, HP!AllRoots, HP!UpdateHandles, HP!ForwardRoots,
         HP!Fixup, HP!ReleaseHandle, HP!collector
<1>8. QED
  BY <1>1, <1>2, <1>3, <1>4, <1>5, <1>6, <1>7 DEF H!Next, HP!Next

\* Every step of the composition is one of the permits' protocol ...
LEMMA IsPermitStep == [SharedNext]_svars => [Next]_vars
BY DEF SharedNext, svars, Execute, Yield, Report, SpawnTask, EndTask, Approach,
       ReadRoots, Relocate, Forward, Next, Permit, Safepoint, Collect

\* ... and one of the heap that GenGC describes.
LEMMA IsHeapStep ==
    ASSUME SInv, HP!IInv, [SharedNext]_svars
    PROVE  Linked' /\ [H!Next]_(H!vars)
<1>1. stack \in [Cell -> SUBSET Addr]
  BY DEF HP!IInv, HP!TypeOK
<1>2. CASE \E v \in Vm : Execute(v)
  BY <1>2, ExecuteStep
<1>3. CASE \E v \in Vm : Yield(v)
  BY <1>3, YieldStep, VmsAreTasks DEF H!Next, H!Schedule
<1>4. CASE \E v \in Vm : Report(v)
  BY <1>4, ReportStep, VmsAreTasks DEF H!Next
<1>5. CASE \E v \in Vm : SpawnTask(v)
  BY <1>1, <1>5, SpawnTaskStep, VmsAreTasks DEF H!Next, H!Schedule
<1>6. CASE \E v \in Vm : EndTask(v)
  BY <1>6, EndTaskStep, VmsAreTasks DEF H!Next, H!Schedule
<1>7. CASE \E h \in Host : HostCollects(h) /\ UNCHANGED <<heap, busy>>
  BY <1>7, HostStep
<1>8. CASE \E c \in Actor : Approach(c)
  BY <1>8, ApproachStep
<1>9. CASE \E c \in Actor : ReadRoots(c) \/ Relocate(c) \/ Forward(c)
  BY <1>9, ReadRootsStep, RelocateStep, ForwardStep DEF H!Next
<1>10. CASE UNCHANGED <<vars, busy>> /\ \E k \in Key : H!ReleaseHandle(k)
  <2>1. H!Next
    BY <1>10 DEF H!Next
  <2>2. UNCHANGED <<stack, gc, pc, busy>>
    BY <1>10 DEF H!ReleaseHandle, H!collector, vars
  <2>3. QED
    BY <2>1, <2>2 DEF SInv, Linked, StoresHoldPermits, UnbornHaveNoRoots,
                      CollectorAtWork
<1>11. CASE UNCHANGED svars
  BY <1>11 DEF svars, vars, heap, graph, H!vars, HeapPc, SInv, Linked,
               StoresHoldPermits, UnbornHaveNoRoots, CollectorAtWork
<1>12. QED
  BY <1>2, <1>3, <1>4, <1>5, <1>6, <1>7, <1>8, <1>9, <1>10, <1>11 DEF SharedNext

\* The state of the permits, of the heap and of what links them.
Joint == SInv /\ HP!IInv

LEMMA JointStarts == SharedInit => Joint
<1> SUFFICES ASSUME SharedInit PROVE Joint
  OBVIOUS
<1>1. IInv
  BY InitIInv DEF SharedInit
<1>2. HP!IInv
  BY SameHeap, HP!InitIInv, HeapAssumption DEF SharedInit, Cell
<1>3. Linked
  BY DEF SharedInit, H!Init, Linked, StoresHoldPermits, UnbornHaveNoRoots,
         CollectorAtWork, Cell
<1>4. QED
  BY <1>1, <1>2, <1>3 DEF Joint, SInv

LEMMA JointStep == Joint /\ [SharedNext]_svars => Joint'
<1> SUFFICES ASSUME Joint, [SharedNext]_svars PROVE Joint'
  OBVIOUS
<1>1. IInv'
  BY IsPermitStep, NextIInv DEF Joint, SInv
<1>2. Linked' /\ [H!Next]_(H!vars)
  BY IsHeapStep DEF Joint
<1>3. [HP!Next]_(HP!vars)
  BY <1>2, SameHeap DEF H!vars, HP!vars
<1>4. HP!Inert
  BY HeapAssumption DEF HP!Inert, HeapPc, Cell
<1>5. HP!IInv'
  BY <1>3, <1>4, HP!NextIInv, HeapAssumption DEF Joint, Cell
<1>6. QED
  BY <1>1, <1>2, <1>5 DEF Joint, SInv

\* In every reachable state the permits account for what the heap relies on.
LEMMA JointInvariance == SharedSpec => []Joint
BY JointStarts, JointStep, PTL DEF SharedSpec

\* The permits give the heap what GenGC takes for granted: a collection starts
\* with every task parked, none resumes before it ends, and the cells in the
\* holders list are those of all tasks that have roots.
THEOREM HeapIsProtected == SharedSpec => PermitsProtectHeap
<1>1. SharedInit => H!Init
  BY DEF SharedInit
<1>2. Joint /\ [SharedNext]_svars => [H!Next]_(H!vars)
  BY IsHeapStep DEF Joint
<1>3. QED
  BY <1>1, <1>2, JointInvariance, PTL DEF SharedSpec, PermitsProtectHeap, H!Spec

\* Under the permits no collection leaves anything dangling: every reference
\* that a task, a handle or an object holds leads to an object in use.
THEOREM NothingDanglesUnderPermits == SharedSpec => []H!NoDangling
<1>1. Joint => H!NoDangling
  BY DEF Joint, HP!IInv, HP!NoDangling, HP!HeapClosed, HP!StacksValid,
         HP!HandlesValid, HP!Used, HP!Young, HP!Old,
         H!NoDangling, H!HeapClosed, H!StacksValid, H!HandlesValid, H!Used,
         H!Young, H!Old
<1>2. QED
  BY <1>1, JointInvariance, PTL

\* Under the permits collections are invisible: the engine gives its tasks and
\* hosts the graph of objects that HeapContract promises them.
THEOREM PermitsKeepHeapContract == SharedSpec => H!HeapAsPromised
<1>1. SharedInit => HP!Init
  BY SameHeap DEF SharedInit
<1>2. Joint /\ [SharedNext]_svars => [HP!Next]_(HP!vars)
  BY IsHeapStep, SameHeap DEF Joint, H!vars, HP!vars
<1>3. SharedSpec => HP!Spec
  BY <1>1, <1>2, JointInvariance, PTL DEF SharedSpec, HP!Spec
<1>4. HP!Spec => HP!HeapAsPromised
  BY HP!Refinement, HeapAssumption DEF Cell
<1>5. HP!HeapAsPromised <=> H!HeapAsPromised
  BY DEF H!HeapAsPromised, H!Contract!Spec, H!Contract!Init,
         H!Contract!Next, H!Contract!vars, H!Contract!New,
         H!Contract!Read, H!Contract!Drop, H!Contract!Write,
         H!Contract!Hand, H!Contract!Export, H!Contract!Import,
         H!Contract!Release, H!Contract!Collect, H!Contract!Rooted,
         H!Exists, H!Edges, H!Stacks, H!Handles, H!StackNow,
         H!HandleNow, H!Objects, H!Fixup, H!Used, H!Young, H!Old,
         HP!HeapAsPromised, HP!Contract!Spec, HP!Contract!Init,
         HP!Contract!Next, HP!Contract!vars, HP!Contract!New,
         HP!Contract!Read, HP!Contract!Drop, HP!Contract!Write,
         HP!Contract!Hand, HP!Contract!Export, HP!Contract!Import,
         HP!Contract!Release, HP!Contract!Collect, HP!Contract!Rooted,
         HP!Exists, HP!Edges, HP!Stacks, HP!Handles, HP!StackNow,
         HP!HandleNow, HP!Objects, HP!Fixup, HP!Used, HP!Young, HP!Old
<1>6. QED
  BY <1>3, <1>4, <1>5
=============================================================================
