------------------------- MODULE HeapPermits_proofs -------------------------
(***************************************************************************)
(* Proofs about HeapPermits, for any number of tasks, collectors and       *)
(* permits.  The invariant counts permits: while nobody collects, those    *)
(* that are out belong to the tasks in Active; a collector has them all.   *)
(***************************************************************************)
EXTENDS HeapPermits, FiniteSetTheorems, TLAPS

-----------------------------------------------------------------------------
(* The inductive invariant.                                                *)

Running  == {v \in Vm : pc[v] \in Active}
Stopping == {c \in Actor : pc[c] \in Exclusive}

\* av permits are left when the tasks R run and the collectors S exclude them.
AddUp(av, R, S) ==
    \/ S = {} /\ av = MaxPermits - Cardinality(R)
    \/ R = {} /\ av = 0 /\ \E c \in Actor : S = {c}

\* No permit is lost, and none is invented.
PermitsAddUp == AddUp(avail, Running, Stopping)

\* A host never holds a single permit.
HostsOnlyCollect == \A h \in Host : pc[h] \in Collecting \union {"idle"}

\* A collector has the holders mutex from request_park to the end.
LockOwner == lock = {c \in Actor : pc[c] \in Exclusive \ {"gc_lock"}}

\* Pruning never drops the cell of a live task.
TasksListed == Live \subseteq holders

\* A spawning task is alone in creating its child.
ChildrenUnborn ==
    \A u \in Vm : pc[u] = "spawning" =>
        /\ pc[child[u]] = "unborn"
        /\ \A v \in Vm : pc[v] = "spawning" /\ child[v] = child[u] => v = u

\* Whoever is about to clear checking_gc has won it before.
GuardHeld ==
    \A v \in Vm : pc[v] \in Collecting \union {"deciding", "clearing", "judging"}
                    => back[v] # "none"

IInv ==
    /\ TypeOK
    /\ PermitsAddUp
    /\ HostsOnlyCollect
    /\ LockOwner
    /\ TasksListed
    /\ RootsComplete
    /\ ChildrenUnborn
    /\ GuardHeld
    /\ OneAutomaticCollection

-----------------------------------------------------------------------------
(* Counting permits.                                                       *)

\* The number of running tasks is a number, and zero only without any.
LEMMA Counting ==
    ASSUME NEW R \in SUBSET Vm
    PROVE  /\ IsFiniteSet(R)
           /\ Cardinality(R) \in 0..MaxPermits
           /\ Cardinality(R) = 0 <=> R = {}
<1>1. IsFiniteSet(Vm) /\ Cardinality(Vm) \in Nat /\ Cardinality(Vm) <= MaxPermits
  BY PermitsAssumption, FS_CardinalityType
<1>2. IsFiniteSet(R) /\ Cardinality(R) <= Cardinality(Vm)
  BY <1>1, FS_Subset
<1>3. Cardinality(R) \in Nat
  BY <1>2, FS_CardinalityType
<1>4. Cardinality(R) = 0 <=> R = {}
  BY <1>2, FS_EmptySet
<1>. QED
  BY <1>1, <1>2, <1>3, <1>4, PermitsAssumption

\* A task that gets a permit: one was left, so nobody is collecting.
LEMMA Enter ==
    ASSUME NEW R \in SUBSET Vm, NEW S, NEW av \in Nat, AddUp(av, R, S),
           NEW v \in Vm, v \notin R, av >= 1
    PROVE  AddUp(av - 1, R \union {v}, S)
<1>1. S = {} /\ av = MaxPermits - Cardinality(R)
  BY DEF AddUp
<1>2. Cardinality(R \union {v}) = Cardinality(R) + 1
  BY Counting, FS_AddElement
<1>. QED
  BY <1>1, <1>2, Counting, PermitsAssumption DEF AddUp

\* A task that returns its permit: it had one, so nobody is collecting.
LEMMA Leave ==
    ASSUME NEW R \in SUBSET Vm, NEW S, NEW av \in Nat, AddUp(av, R, S),
           NEW v \in R
    PROVE  AddUp(av + 1, R \ {v}, S) /\ av + 1 \in 0..MaxPermits
<1>1. S = {} /\ av = MaxPermits - Cardinality(R)
  BY DEF AddUp
<1>2. Cardinality(R \ {v}) = Cardinality(R) - 1
  BY Counting, FS_RemoveElement
<1>. QED
  BY <1>1, <1>2, Counting, PermitsAssumption DEF AddUp

\* A collector that gets all permits: no task had any.
LEMMA TakeAll ==
    ASSUME NEW R \in SUBSET Vm, NEW S, NEW av \in Nat, AddUp(av, R, S),
           NEW c \in Actor, av >= MaxPermits
    PROVE  /\ S = {} /\ R = {} /\ av = MaxPermits
           /\ AddUp(av - MaxPermits, R, S \union {c})
<1>1. S = {} /\ av = MaxPermits - Cardinality(R)
  BY PermitsAssumption DEF AddUp
<1>2. R = {} /\ av = MaxPermits
  BY <1>1, Counting, PermitsAssumption
<1>. QED
  BY <1>1, <1>2 DEF AddUp

\* A collector that returns them: it was alone.
LEMMA ReturnAll ==
    ASSUME NEW R \in SUBSET Vm, NEW S, NEW av, AddUp(av, R, S), NEW c \in S
    PROVE  /\ R = {} /\ av = 0 /\ S = {c}
           /\ AddUp(av + MaxPermits, R, S \ {c})
<1>1. R = {} /\ av = 0 /\ S = {c}
  BY DEF AddUp
<1>2. Cardinality(R) = 0
  BY <1>1, FS_EmptySet
<1>. QED
  BY <1>1, <1>2, PermitsAssumption DEF AddUp

-----------------------------------------------------------------------------
(* One lemma per kind of step.                                             *)

\* Tasks and hosts are different actors.
LEMMA Actors == /\ Vm \subseteq Actor /\ Host \subseteq Actor
                /\ \A c \in Actor : c \in Vm \/ c \in Host
                /\ \A v \in Vm : v \notin Host
                /\ MaxPermits \in Nat /\ MaxPermits > 0
BY PermitsAssumption DEF Actor

\* Nobody runs and nobody holds a permit at first.
LEMMA InitIInv == Init => IInv
<1> SUFFICES ASSUME Init PROVE IInv
  OBVIOUS
<1> USE Actors
<1>1. Running = {} /\ Stopping = {}
  BY DEF Init, Running, Stopping, Active, Exclusive
<1>2. PermitsAddUp
  BY <1>1, FS_EmptySet DEF Init, PermitsAddUp, AddUp
<1>3. TypeOK
  <2>1. pc \in [Actor -> {"unborn", "idle"}]
    BY DEF Init
  <2>2. queue \in Seq(Actor) /\ avail \in 0..MaxPermits
    BY DEF Init
  <2>3. checking \in BOOLEAN /\ park \in BOOLEAN
    BY DEF Init
  <2>4. child \in [Vm -> Vm] /\ back \in [Vm -> {"none"}]
    BY DEF Init
  <2>. QED
    BY <2>1, <2>2, <2>3, <2>4 DEF Init, TypeOK
<1>4. HostsOnlyCollect /\ LockOwner /\ TasksListed /\ RootsComplete
  BY DEF Init, HostsOnlyCollect, LockOwner, TasksListed, RootsComplete, Live,
         Exclusive
<1>5. ChildrenUnborn /\ GuardHeld /\ OneAutomaticCollection
  BY DEF Init, ChildrenUnborn, GuardHeld, OneAutomaticCollection, Collecting,
         Exclusive
<1>. QED
  BY <1>2, <1>3, <1>4, <1>5 DEF IInv

\* A step that moves one actor between positions that hold the same permits.
LEMMA SamePermits ==
    ASSUME PermitsAddUp, Running' = Running, Stopping' = Stopping,
           UNCHANGED avail
    PROVE  PermitsAddUp'
BY DEF PermitsAddUp

\* A task is registered by a new call.
LEMMA NewRootStep ==
    ASSUME IInv, NEW v \in Vm, NewRoot(v)
    PROVE  IInv'
<1> USE Actors DEF NewRoot, Goto, IInv, LockFree
<1>1. TypeOK'
  BY DEF TypeOK, Active, Collecting, Exclusive
<1>2. Running' = Running /\ Stopping' = Stopping
  BY DEF TypeOK, Running, Stopping, Active, Exclusive
<1>3. PermitsAddUp'
  BY <1>2, SamePermits
<1>4. HostsOnlyCollect' /\ LockOwner' /\ TasksListed'
  BY DEF TypeOK, HostsOnlyCollect, LockOwner, TasksListed, Live, Exclusive
<1>5. RootsComplete'
  BY DEF TypeOK, LockOwner, RootsComplete, Live, Exclusive
<1>6. ChildrenUnborn' /\ GuardHeld' /\ OneAutomaticCollection'
  BY DEF TypeOK, ChildrenUnborn, GuardHeld, OneAutomaticCollection, Collecting,
         Exclusive
<1>. QED
  BY <1>1, <1>3, <1>4, <1>5, <1>6

\* A running task begins to spawn.
LEMMA StartSpawnStep ==
    ASSUME IInv, NEW v \in Vm, NEW c \in Vm, StartSpawn(v, c)
    PROVE  IInv'
<1> USE Actors DEF StartSpawn, Goto, IInv
<1>1. TypeOK'
  BY DEF TypeOK, Active, Collecting, Exclusive
<1>2. Running' = Running /\ Stopping' = Stopping
  BY DEF TypeOK, Running, Stopping, Active, Exclusive
<1>3. PermitsAddUp'
  BY <1>2, SamePermits
<1>4. HostsOnlyCollect' /\ LockOwner' /\ TasksListed' /\ RootsComplete'
  BY DEF TypeOK, HostsOnlyCollect, LockOwner, TasksListed, RootsComplete, Live,
         Exclusive
<1>5. ChildrenUnborn'
  BY DEF TypeOK, ChildrenUnborn
<1>6. GuardHeld' /\ OneAutomaticCollection'
  BY DEF TypeOK, GuardHeld, OneAutomaticCollection, Collecting, Exclusive
<1>. QED
  BY <1>1, <1>3, <1>4, <1>5, <1>6

\* The child is registered: the holders mutex keeps every collection away.
LEMMA NewChildStep ==
    ASSUME IInv, NEW v \in Vm, NewChild(v)
    PROVE  IInv'
<1> USE Actors DEF NewChild, Goto, IInv, LockFree
<1>1. /\ child[v] \in Vm /\ pc[child[v]] = "unborn" /\ child[v] # v
      /\ \A u \in Vm : pc[u] = "spawning" /\ child[u] = child[v] => u = v
  BY DEF TypeOK, ChildrenUnborn
<1>2. TypeOK'
  BY <1>1 DEF TypeOK, Active, Collecting, Exclusive
<1>3. Running' = Running /\ Stopping' = Stopping
  BY <1>1 DEF TypeOK, Running, Stopping, Active, Exclusive
<1>4. PermitsAddUp'
  BY <1>3, SamePermits
<1>5. HostsOnlyCollect' /\ LockOwner' /\ TasksListed'
  BY <1>1 DEF TypeOK, HostsOnlyCollect, LockOwner, TasksListed, Live, Exclusive
<1>6. RootsComplete'
  BY <1>1 DEF TypeOK, LockOwner, RootsComplete, Live, Exclusive
<1>7. ChildrenUnborn'
  BY <1>1 DEF TypeOK, ChildrenUnborn
<1>8. GuardHeld' /\ OneAutomaticCollection'
  BY <1>1 DEF TypeOK, GuardHeld, OneAutomaticCollection, Collecting, Exclusive
<1>. QED
  BY <1>2, <1>4, <1>5, <1>6, <1>7, <1>8

\* A task takes the permit it waited for.
LEMMA GrantedStep ==
    ASSUME IInv, NEW v \in Vm, Granted(v)
    PROVE  IInv'
<1> USE Actors DEF Granted, Goto, IInv
<1>1. TypeOK'
  BY DEF TypeOK, Active, Collecting, Exclusive
<1>2. /\ Running' = Running \union {v} /\ v \notin Running
      /\ Stopping' = Stopping
  BY DEF TypeOK, Running, Stopping, Active, Exclusive
<1>3. PermitsAddUp'
  <2>1. avail \in Nat /\ Running \subseteq Vm /\ AddUp(avail, Running, Stopping)
    BY DEF TypeOK, Running, PermitsAddUp
  <2>2. AddUp(avail - 1, Running \union {v}, Stopping)
    BY <2>1, <1>2, Enter
  <2>. QED
    BY <2>2, <1>2 DEF PermitsAddUp
<1>4. HostsOnlyCollect' /\ LockOwner' /\ TasksListed' /\ RootsComplete'
  BY DEF TypeOK, HostsOnlyCollect, LockOwner, TasksListed, RootsComplete, Live,
         Exclusive
<1>5. ChildrenUnborn' /\ GuardHeld' /\ OneAutomaticCollection'
  BY DEF TypeOK, ChildrenUnborn, GuardHeld, OneAutomaticCollection, Collecting,
         Exclusive
<1>. QED
  BY <1>1, <1>3, <1>4, <1>5

\* A running task returns its permit: it ends, suspends, renews or collects.
LEMMA ReturnStep ==
    ASSUME IInv, NEW v \in Vm,
           Finish(v) \/ Suspend(v) \/ SafepointRenews(v) \/ SafepointCollects(v)
    PROVE  IInv'
<1> USE Actors
        DEF Finish, Suspend, SafepointRenews, SafepointCollects, Goto, IInv
<1>1. /\ Running' = Running \ {v} /\ v \in Running
      /\ Stopping' = Stopping
      /\ avail' = avail + 1
  BY DEF TypeOK, Running, Stopping, Active, Exclusive
<1>2. PermitsAddUp' /\ avail' \in 0..MaxPermits
  <2>1. avail \in Nat /\ Running \subseteq Vm /\ AddUp(avail, Running, Stopping)
    BY DEF TypeOK, Running, PermitsAddUp
  <2>. QED
    BY <2>1, <1>1, Leave DEF PermitsAddUp
<1>3. TypeOK'
  BY <1>2 DEF TypeOK, Active, Collecting, Exclusive
<1>4. HostsOnlyCollect' /\ LockOwner' /\ TasksListed' /\ RootsComplete'
  BY DEF TypeOK, HostsOnlyCollect, LockOwner, TasksListed, RootsComplete, Live,
         Exclusive
<1>5. ChildrenUnborn' /\ GuardHeld' /\ OneAutomaticCollection'
  BY DEF TypeOK, ChildrenUnborn, GuardHeld, OneAutomaticCollection, Collecting,
         Exclusive
<1>. QED
  BY <1>2, <1>3, <1>4, <1>5

\* A collector takes all permits: nobody runs and nobody else collects.
LEMMA DrainedStep ==
    ASSUME IInv, NEW c \in Actor, Drained(c)
    PROVE  IInv'
<1> USE Actors DEF Drained, Goto, IInv, NeedsAllPermits
<1>1. /\ Stopping = {} /\ Running = {} /\ avail = MaxPermits
      /\ AddUp(avail - MaxPermits, Running, Stopping \union {c})
  <2>1. avail \in Nat /\ Running \subseteq Vm /\ AddUp(avail, Running, Stopping)
    BY DEF TypeOK, Running, PermitsAddUp
  <2>. QED
    BY <2>1, TakeAll DEF TypeOK
<1>2. Running' = Running /\ Stopping' = Stopping \union {c}
  BY DEF TypeOK, Running, Stopping, Active, Exclusive
<1>3. PermitsAddUp'
  BY <1>1, <1>2 DEF PermitsAddUp
<1>4. TypeOK'
  BY <1>1 DEF TypeOK, Active, Collecting, Exclusive
<1>5. HostsOnlyCollect' /\ LockOwner' /\ TasksListed' /\ RootsComplete'
  BY DEF TypeOK, HostsOnlyCollect, LockOwner, TasksListed, RootsComplete, Live,
         Collecting, Exclusive
<1>6. ChildrenUnborn' /\ GuardHeld' /\ OneAutomaticCollection'
  BY DEF TypeOK, ChildrenUnborn, GuardHeld, OneAutomaticCollection, Collecting,
         Exclusive
<1>. QED
  BY <1>3, <1>4, <1>5, <1>6

\* The collector takes the holders mutex and prunes the list of dead cells.
LEMMA LockHoldersStep ==
    ASSUME IInv, NEW c \in Actor, LockHolders(c)
    PROVE  IInv'
<1> USE Actors DEF LockHolders, Goto, IInv
<1>1. TypeOK'
  BY DEF TypeOK, Active, Collecting, Exclusive
<1>2. Running' = Running /\ Stopping' = Stopping
  BY DEF TypeOK, Running, Stopping, Active, Exclusive
<1>3. PermitsAddUp'
  BY <1>2, SamePermits
<1>4. HostsOnlyCollect' /\ LockOwner' /\ TasksListed' /\ RootsComplete'
  BY DEF TypeOK, HostsOnlyCollect, LockOwner, TasksListed, RootsComplete, Live,
         Collecting, Exclusive
<1>5. ChildrenUnborn' /\ GuardHeld' /\ OneAutomaticCollection'
  BY DEF TypeOK, ChildrenUnborn, GuardHeld, OneAutomaticCollection, Collecting,
         Exclusive
<1>. QED
  BY <1>1, <1>3, <1>4, <1>5

\* The collector reads the roots of every live task: each one is listed.
LEMMA CollectRootsStep ==
    ASSUME IInv, NEW c \in Actor, CollectRoots(c)
    PROVE  IInv'
<1> USE Actors DEF CollectRoots, Goto, IInv
<1>1. TypeOK'
  BY DEF TypeOK, Active, Collecting, Exclusive
<1>2. Running' = Running /\ Stopping' = Stopping
  BY DEF TypeOK, Running, Stopping, Active, Exclusive
<1>3. PermitsAddUp'
  BY <1>2, SamePermits
<1>4. HostsOnlyCollect' /\ LockOwner' /\ TasksListed' /\ RootsComplete'
  BY DEF TypeOK, HostsOnlyCollect, LockOwner, TasksListed, RootsComplete, Live,
         Collecting, Exclusive
<1>5. ChildrenUnborn' /\ GuardHeld' /\ OneAutomaticCollection'
  BY DEF TypeOK, ChildrenUnborn, GuardHeld, OneAutomaticCollection, Collecting,
         Exclusive
<1>. QED
  BY <1>1, <1>3, <1>4, <1>5

\* The collection ends; the mutex and the permits go back together.
LEMMA DropGuardStep ==
    ASSUME IInv, NEW c \in Actor, DropGuard(c)
    PROVE  IInv'
<1> USE Actors DEF DropGuard, Goto, IInv
<1>1. /\ Stopping = {c} /\ Running = {} /\ avail = 0
      /\ AddUp(avail + MaxPermits, Running, Stopping \ {c})
  <2>1. c \in Stopping
    BY DEF Stopping, Exclusive
  <2>2. Running \subseteq Vm /\ AddUp(avail, Running, Stopping)
    BY DEF Running, PermitsAddUp
  <2>. QED
    BY <2>1, <2>2, ReturnAll
<1>2. /\ pc' = [pc EXCEPT ![c] = pc'[c]]
      /\ pc'[c] \in {"idle", "inactive", "waiting"}
      /\ c \in Host <=> pc'[c] = "idle"
  BY DEF TypeOK
<1>3. Running' = Running /\ Stopping' = Stopping \ {c}
  BY <1>2 DEF TypeOK, Running, Stopping, Active, Exclusive
<1>4. PermitsAddUp'
  BY <1>1, <1>3 DEF PermitsAddUp
<1>5. TypeOK'
  <2>1. back' \in [Vm -> {"none", "safepoint", "await"}] /\ checking' \in BOOLEAN
    BY DEF TypeOK
  <2>2. avail' \in 0..MaxPermits
    BY <1>1
  <2>. QED
    BY <1>2, <2>1, <2>2 DEF TypeOK, Active, Collecting, Exclusive
<1>6. HostsOnlyCollect' /\ TasksListed'
  BY <1>2 DEF TypeOK, HostsOnlyCollect, TasksListed, Live
<1>7. LockOwner' /\ RootsComplete'
  BY <1>1, <1>2 DEF TypeOK, Stopping, LockOwner, RootsComplete, Exclusive
<1>8. ChildrenUnborn'
  BY <1>2 DEF TypeOK, ChildrenUnborn
<1>9. GuardHeld' /\ OneAutomaticCollection'
  BY <1>2 DEF TypeOK, GuardHeld, OneAutomaticCollection, Collecting, Exclusive
<1>. QED
  BY <1>4, <1>5, <1>6, <1>7, <1>8, <1>9

\* The other steps move one actor, which keeps the permits it has.
LEMMA VmQuietStep ==
    ASSUME IInv, NEW v \in Vm,
           \/ Enqueue(v) \/ EarlyYield(v) \/ SafepointWins(v)
           \/ ClearChecking(v) \/ MaybeCollect(v) \/ JudgeCollects(v)
           \/ JudgeDeclines(v) \/ Event(v)
    PROVE  IInv'
<1> USE Actors
        DEF Enqueue, EarlyYield, SafepointWins, ClearChecking, MaybeCollect,
            JudgeCollects, JudgeDeclines, Event, Goto, IInv
<1>1. /\ pc' = [pc EXCEPT ![v] = pc'[v]]
      /\ pc[v] \notin Exclusive \union {"unborn"}
      /\ pc'[v] \in {"inactive", "acquiring", "running", "safepoint", "deciding",
                     "waiting", "judging", "gc_flag"}
      /\ pc[v] \in Active <=> pc'[v] \in Active
      /\ UNCHANGED <<avail, lock, holders, scanned, child>>
  BY DEF TypeOK, Active, Exclusive
<1>2. TypeOK'
  <2>1. queue' \in Seq(Actor)
    BY DEF TypeOK
  <2>2. back' \in [Vm -> {"none", "safepoint", "await"}] /\ checking' \in BOOLEAN
    BY DEF TypeOK
  <2>3. pc' \in [Actor -> Active \union Collecting \union
                    {"idle", "unborn", "inactive", "acquiring", "released",
                     "judging", "waiting"}]
    BY <1>1 DEF TypeOK, Active, Collecting, Exclusive
  <2>4. park' = park
    OBVIOUS
  <2>. QED
    BY <1>1, <2>1, <2>2, <2>3, <2>4 DEF TypeOK
<1>3. Running' = Running /\ Stopping' = Stopping
  BY <1>1 DEF TypeOK, Running, Stopping, Active, Exclusive
<1>4. PermitsAddUp'
  BY <1>1, <1>3, SamePermits
<1>5. HostsOnlyCollect' /\ LockOwner' /\ TasksListed' /\ RootsComplete'
  BY <1>1 DEF TypeOK, HostsOnlyCollect, LockOwner, TasksListed, RootsComplete,
         Live, Exclusive
<1>6. ChildrenUnborn'
  BY <1>1 DEF TypeOK, ChildrenUnborn
<1>7. GuardHeld' /\ OneAutomaticCollection'
  BY DEF TypeOK, GuardHeld, OneAutomaticCollection, Collecting, Exclusive
<1>. QED
  BY <1>2, <1>4, <1>5, <1>6, <1>7

\* The same for the steps of a collection.
LEMMA CollectorQuietStep ==
    ASSUME IInv, NEW c \in Actor,
           \/ c \in Host /\ HostCollects(c)
           \/ RequestPark(c) \/ EnqueueAll(c) \/ ClearPark(c) \/ ForwardRoots(c)
    PROVE  IInv'
<1> USE Actors
        DEF HostCollects, RequestPark, EnqueueAll, ClearPark, ForwardRoots, Goto,
            IInv
<1>1. /\ pc' = [pc EXCEPT ![c] = pc'[c]]
      /\ pc'[c] \in Collecting
      /\ pc[c] \in Exclusive \ {"gc_lock"} <=> pc'[c] \in Exclusive \ {"gc_lock"}
      /\ pc'[c] # "gc_lock" /\ pc[c] # "gc_lock"
      /\ pc[c] \notin Active /\ pc[c] # "unborn"
      /\ pc'[c] \in {"gc_forward", "gc_end"} <=> pc[c] \in {"gc_forward", "gc_end"}
      /\ UNCHANGED <<avail, lock, holders, scanned, child, back, checking>>
  BY DEF TypeOK, Active, Collecting, Exclusive
<1>2. TypeOK'
  <2>1. queue' \in Seq(Actor)
    BY DEF TypeOK
  <2>2. park' \in BOOLEAN
    <3>1. CASE UNCHANGED park
      BY <3>1 DEF TypeOK
    <3>2. CASE park' = TRUE \/ park' = FALSE
      BY <3>2
    <3>. QED
      BY <3>1, <3>2
  <2>. QED
    BY <1>1, <2>1, <2>2 DEF TypeOK, Active, Collecting, Exclusive
<1>3. Running' = Running /\ Stopping' = Stopping
  BY <1>1 DEF TypeOK, Running, Stopping, Active, Collecting, Exclusive
<1>4. PermitsAddUp'
  BY <1>1, <1>3, SamePermits
<1>5. HostsOnlyCollect' /\ LockOwner' /\ TasksListed' /\ RootsComplete'
  BY <1>1 DEF TypeOK, HostsOnlyCollect, LockOwner, TasksListed, RootsComplete,
         Live, Collecting, Exclusive
<1>6. ChildrenUnborn'
  BY <1>1 DEF TypeOK, ChildrenUnborn, Collecting, Exclusive
<1>7. GuardHeld' /\ OneAutomaticCollection'
  BY DEF TypeOK, GuardHeld, OneAutomaticCollection, Collecting, Exclusive
<1>. QED
  BY <1>2, <1>4, <1>5, <1>6, <1>7

-----------------------------------------------------------------------------
(* The invariants, for every reachable state.                              *)

\* Every step keeps the invariant.
LEMMA NextIInv == IInv /\ [Next]_vars => IInv'
<1> SUFFICES ASSUME IInv, [Next]_vars PROVE IInv'
  OBVIOUS
<1> USE Actors
<1>1. ASSUME NEW v \in Vm,
             NewRoot(v) \/ Finish(v) \/ Suspend(v) \/ Event(v)
      PROVE  IInv'
  BY <1>1, NewRootStep, ReturnStep, VmQuietStep
<1>2. ASSUME NEW v \in Vm, Permit(v)
      PROVE  IInv'
  BY <1>2, NewChildStep, VmQuietStep, GrantedStep DEF Permit
<1>3. ASSUME NEW v \in Vm, Safepoint(v)
      PROVE  IInv'
  BY <1>3, ReturnStep, VmQuietStep DEF Safepoint
<1>4. ASSUME NEW v \in Vm, NEW c \in Vm, StartSpawn(v, c)
      PROVE  IInv'
  BY <1>4, StartSpawnStep
<1>5. ASSUME NEW h \in Host, HostCollects(h)
      PROVE  IInv'
  BY <1>5, CollectorQuietStep
<1>6. ASSUME NEW c \in Actor, Collect(c)
      PROVE  IInv'
  BY <1>6, CollectorQuietStep, DrainedStep, LockHoldersStep, CollectRootsStep,
     DropGuardStep DEF Collect
<1>7. CASE UNCHANGED vars
  BY <1>7 DEF vars, IInv, TypeOK, PermitsAddUp, Running, Stopping,
              HostsOnlyCollect, LockOwner, TasksListed, RootsComplete, Live,
              ChildrenUnborn, GuardHeld, OneAutomaticCollection
<1>. QED
  BY <1>1, <1>2, <1>3, <1>4, <1>5, <1>6, <1>7 DEF Next

\* The inductive invariant holds in every reachable state.
LEMMA Invariance == Spec => []IInv
BY InitIInv, NextIInv, PTL DEF Spec

\* The state keeps its shape; in particular permits are neither lost nor
\* invented by release, renew, request_park and the guard's drop.
THEOREM PermitsConserved == Spec => []TypeOK
<1>1. IInv => TypeOK
  BY DEF IInv
<1>. QED
  BY <1>1, Invariance, PTL

\* request_park stops the world: while a collector has the heap, no task holds
\* a permit and no second collector has it.
THEOREM StopsTheWorld == Spec => []CollectsAlone
<1>1. IInv => CollectsAlone
  <2> SUFFICES ASSUME IInv, NEW c \in Actor, pc[c] \in Exclusive,
                      NEW a \in Actor \ {c}
               PROVE  pc[a] \notin Active \union Exclusive
    BY DEF CollectsAlone
  <2>1. c \in Stopping
    BY DEF Stopping
  <2>2. Running = {} /\ Stopping = {c}
    BY <2>1 DEF IInv, PermitsAddUp, AddUp
  <2>3. pc[a] \notin Exclusive
    BY <2>2 DEF Stopping
  <2>4. CASE a \in Vm
    BY <2>2, <2>3, <2>4 DEF Running
  <2>5. CASE a \in Host
    BY <2>3, <2>5 DEF IInv, HostsOnlyCollect, Collecting, Active, Exclusive
  <2>. QED
    BY <2>4, <2>5, Actors
<1>. QED
  BY <1>1, Invariance, PTL

\* collect_roots sees every live task, and none appears before forward_roots.
THEOREM SeesAllRoots == Spec => []RootsComplete
<1>1. IInv => RootsComplete
  BY DEF IInv
<1>. QED
  BY <1>1, Invariance, PTL

\* The CAS on checking_gc admits one automatic collection at a time, and the
\* guard is down again when it is over.
THEOREM OneAtATime == Spec => []OneAutomaticCollection
<1>1. IInv => OneAutomaticCollection
  BY DEF IInv
<1>. QED
  BY <1>1, Invariance, PTL

\* A collector that waits, or is about to, has its request still up.
Requested == \A c \in Actor : pc[c] \in {"gc_enqueue", "gc_drain"} => park

\* When only the event loop collects, whoever lowers the flag is the only
\* collector there is: nobody else's request is erased.
LEMMA RequestedStep ==
    ASSUME HostsIdle, IInv, Requested, [Next]_vars
    PROVE  Requested'
<1> USE Actors DEF IInv
<1>1. \A c, d \in Actor : pc[c] \in Collecting /\ pc[d] \in Collecting => c = d
  <2>1. \A c \in Actor : pc[c] \in Collecting => c \in Vm
    BY DEF HostsIdle, Actor, Collecting, Exclusive
  <2>2. QED
    BY <2>1 DEF GuardHeld, OneAutomaticCollection
<1>2. ASSUME NEW c \in Actor, ClearPark(c)
      PROVE  Requested'
  <2>1. \A d \in Actor : pc[d] \notin {"gc_enqueue", "gc_drain"}
    BY <1>1, <1>2 DEF ClearPark, Collecting, Exclusive
  <2> QED
    BY <1>2, <2>1 DEF ClearPark, Goto, Requested, TypeOK
<1>3. ASSUME NEW c \in Actor, RequestPark(c)
      PROVE  Requested'
  BY <1>3 DEF RequestPark, Goto, Requested, TypeOK
<1>4. ASSUME NEW c \in Actor,
             \/ EnqueueAll(c) \/ Drained(c) \/ LockHolders(c) \/ CollectRoots(c)
             \/ ForwardRoots(c)
      PROVE  Requested'
  BY <1>4 DEF EnqueueAll, Drained, LockHolders, CollectRoots, ForwardRoots, Goto,
              Requested, TypeOK
<1>5. ASSUME NEW c \in Actor, DropGuard(c)
      PROVE  Requested'
  BY <1>5 DEF DropGuard, Goto, Requested, TypeOK
<1>6. ASSUME NEW v \in Vm,
             \/ NewRoot(v) \/ Finish(v) \/ Suspend(v) \/ Event(v)
             \/ \E c \in Vm : StartSpawn(v, c)
      PROVE  Requested'
  BY <1>6 DEF NewRoot, Finish, Suspend, Event, StartSpawn, Goto, Requested, TypeOK
<1>7. ASSUME NEW v \in Vm, Permit(v)
      PROVE  Requested'
  <2>1. CASE NewChild(v)
    BY <2>1 DEF NewChild, Requested, TypeOK
  <2>2. CASE Enqueue(v)
    BY <2>2 DEF Enqueue, Goto, Requested, TypeOK
  <2>3. CASE Granted(v)
    BY <2>3 DEF Granted, Goto, Requested, TypeOK
  <2> QED
    BY <1>7, <2>1, <2>2, <2>3 DEF Permit
<1>8. ASSUME NEW v \in Vm, Safepoint(v)
      PROVE  Requested'
  BY <1>8 DEF Safepoint, EarlyYield, SafepointWins, SafepointCollects,
              SafepointRenews, ClearChecking, MaybeCollect, JudgeCollects,
              JudgeDeclines, Goto, Requested, TypeOK
<1>9. ASSUME NEW h \in Host, HostCollects(h)
      PROVE  Requested'
  BY <1>9 DEF HostCollects, Goto, Requested, TypeOK
<1>10. CASE UNCHANGED vars
  BY <1>10 DEF vars, Requested
<1> QED
  BY <1>2, <1>3, <1>4, <1>5, <1>6, <1>7, <1>8, <1>9, <1>10 DEF Next, Collect

\* Without explicit collections, VMs are asked to yield for as long as a
\* collector waits: gc_clear of one never erases the request of another.
THEOREM WaitIsAnnounced == Spec => RequestStands
<1>1. Init => Requested
  BY Actors DEF Init, Requested
<1>2. IInv /\ HostsIdle /\ Requested /\ [Next]_vars => Requested'
  BY RequestedStep
<1>3. Requested => WaitingCollectorIsFlagged
  BY DEF Requested, WaitingCollectorIsFlagged
<1> QED
  BY <1>1, <1>2, <1>3, Invariance, PTL DEF Spec, RequestStands, OnlyAutomatic

-----------------------------------------------------------------------------
(* Nobody waits in a circle.                                               *)

Waits == {"acquiring", "gc_drain"}

\* An actor that waits for permits is in the queue, once.
QueueExact ==
    /\ \A a \in Actor : pc[a] \in Waits <=> \E i \in DOMAIN queue : queue[i] = a
    /\ \A i, j \in DOMAIN queue : queue[i] = queue[j] => i = j

\* A step that lets others wait as they did, and does not touch the queue.
LEMMA SameQueue ==
    ASSUME TypeOK, QueueExact, UNCHANGED queue,
           \A a \in Actor : pc'[a] = pc[a] \/ {pc[a], pc'[a]} \cap Waits = {}
    PROVE  QueueExact'
BY DEF QueueExact

\* Somebody begins to wait.
LEMMA Joins ==
    ASSUME TypeOK, QueueExact, NEW a \in Actor, pc[a] \notin Waits,
           NEW p \in Waits, pc' = [pc EXCEPT ![a] = p], queue' = Append(queue, a)
    PROVE  QueueExact'
<1> USE DEF QueueExact
<1>1. /\ queue \in Seq(Actor) /\ Len(queue) \in Nat
      /\ DOMAIN queue = 1..Len(queue) /\ DOMAIN queue' = 1..(Len(queue) + 1)
      /\ queue'[Len(queue) + 1] = a
      /\ \A i \in DOMAIN queue : queue'[i] = queue[i] /\ queue[i] # a
  BY DEF TypeOK
<1>2. \A i, j \in DOMAIN queue' : queue'[i] = queue'[j] => i = j
  <2> SUFFICES ASSUME NEW i \in DOMAIN queue', NEW j \in DOMAIN queue',
                      queue'[i] = queue'[j]
               PROVE  i = j
    OBVIOUS
  <2>1. /\ i \in DOMAIN queue \/ i = Len(queue) + 1
        /\ j \in DOMAIN queue \/ j = Len(queue) + 1
    BY <1>1
  <2>2. QED
    BY <1>1, <2>1
<1>3. ASSUME NEW b \in Actor
      PROVE  pc'[b] \in Waits <=> \E i \in DOMAIN queue' : queue'[i] = b
  <2>1. \A i \in DOMAIN queue' : i \in DOMAIN queue \/ i = Len(queue) + 1
    BY <1>1
  <2>2. DOMAIN queue \subseteq DOMAIN queue' /\ Len(queue) + 1 \in DOMAIN queue'
    BY <1>1
  <2>3. CASE b = a
    BY <1>1, <2>2, <2>3 DEF TypeOK
  <2>4. CASE b # a
    BY <1>1, <2>1, <2>2, <2>4 DEF TypeOK
  <2>5. QED
    BY <2>3, <2>4
<1>4. QED
  BY <1>2, <1>3

\* The head of the queue is served.
LEMMA Served ==
    ASSUME TypeOK, QueueExact, NEW a \in Actor, queue # <<>>, Head(queue) = a,
           NEW p, p \notin Waits, pc' = [pc EXCEPT ![a] = p], queue' = Tail(queue)
    PROVE  QueueExact'
<1> USE DEF QueueExact
<1>1. /\ queue \in Seq(Actor) /\ Len(queue) \in Nat \ {0}
      /\ DOMAIN queue = 1..Len(queue) /\ DOMAIN queue' = 1..(Len(queue) - 1)
      /\ queue[1] = a
      /\ \A i \in DOMAIN queue' : queue'[i] = queue[i + 1]
  BY DEF TypeOK
<1>2. \A i, j \in DOMAIN queue' : queue'[i] = queue'[j] => i = j
  BY <1>1
<1>3. ASSUME NEW b \in Actor
      PROVE  pc'[b] \in Waits <=> \E i \in DOMAIN queue' : queue'[i] = b
  <2>1. CASE b = a
    <3>1. \A i \in DOMAIN queue' : queue'[i] # a
      BY <1>1
    <3>2. QED
      BY <2>1, <3>1 DEF TypeOK
  <2>2. CASE b # a
    <3>1. pc'[b] = pc[b]
      BY <2>2 DEF TypeOK
    <3>2. ASSUME NEW i \in DOMAIN queue, queue[i] = b
          PROVE  i - 1 \in DOMAIN queue' /\ queue'[i - 1] = b
      BY <1>1, <2>2, <3>2
    <3>3. ASSUME NEW i \in DOMAIN queue', queue'[i] = b
          PROVE  i + 1 \in DOMAIN queue /\ queue[i + 1] = b
      BY <1>1, <3>3
    <3>4. QED
      BY <3>1, <3>2, <3>3
  <2>3. QED
    BY <2>1, <2>2
<1>4. QED
  BY <1>2, <1>3

LEMMA QueueStep == IInv /\ QueueExact /\ [Next]_vars => QueueExact'
<1> SUFFICES ASSUME IInv, QueueExact, [Next]_vars PROVE QueueExact'
  OBVIOUS
<1> USE Actors
<1>1. TypeOK
  BY DEF IInv
<1>2. ASSUME NEW v \in Vm, NewRoot(v) \/ Finish(v) \/ Suspend(v) \/ Event(v)
      PROVE  QueueExact'
  BY <1>1, <1>2, SameQueue DEF NewRoot, Finish, Suspend, Event, Goto, TypeOK, Waits
<1>3. ASSUME NEW v \in Vm, NEW c \in Vm, StartSpawn(v, c)
      PROVE  QueueExact'
  BY <1>1, <1>3, SameQueue DEF StartSpawn, Goto, TypeOK, Waits
<1>4. ASSUME NEW v \in Vm, NewChild(v)
      PROVE  QueueExact'
  <2>1. child[v] \in Vm /\ pc[child[v]] = "unborn" /\ child[v] # v
    BY <1>4 DEF IInv, TypeOK, NewChild, ChildrenUnborn
  <2>2. QED
    BY <1>1, <1>4, <2>1, SameQueue DEF NewChild, TypeOK, Waits
<1>5. ASSUME NEW v \in Vm, Enqueue(v)
      PROVE  QueueExact'
  BY <1>1, <1>5, Joins DEF Enqueue, Goto, Waits
<1>6. ASSUME NEW v \in Vm, Granted(v)
      PROVE  QueueExact'
  <2>1. PICK p \in {"clearing", "running"} : pc' = [pc EXCEPT ![v] = p]
    BY <1>6 DEF Granted, Goto
  <2>2. QED
    BY <1>1, <1>6, <2>1, Served DEF Granted, Waits
<1>7. ASSUME NEW v \in Vm, Safepoint(v)
      PROVE  QueueExact'
  BY <1>1, <1>7, SameQueue
     DEF Safepoint, EarlyYield, SafepointWins, SafepointCollects, SafepointRenews,
         ClearChecking, MaybeCollect, JudgeCollects, JudgeDeclines, Goto, TypeOK,
         Waits
<1>8. ASSUME NEW h \in Host, HostCollects(h)
      PROVE  QueueExact'
  BY <1>1, <1>8, SameQueue DEF HostCollects, Goto, TypeOK, Waits
<1>9. ASSUME NEW c \in Actor, EnqueueAll(c)
      PROVE  QueueExact'
  BY <1>1, <1>9, Joins DEF EnqueueAll, Goto, Waits
<1>10. ASSUME NEW c \in Actor, Drained(c)
       PROVE  QueueExact'
  BY <1>1, <1>10, Served DEF Drained, Goto, Waits
<1>11. ASSUME NEW c \in Actor,
              \/ RequestPark(c) \/ LockHolders(c) \/ ClearPark(c)
              \/ CollectRoots(c) \/ ForwardRoots(c)
       PROVE  QueueExact'
  BY <1>1, <1>11, SameQueue
     DEF RequestPark, LockHolders, ClearPark, CollectRoots, ForwardRoots, Goto,
         TypeOK, Waits
<1>12. ASSUME NEW c \in Actor, DropGuard(c)
       PROVE  QueueExact'
  <2>1. PICK p \in {"idle", "inactive", "waiting"} : pc' = [pc EXCEPT ![c] = p]
    BY <1>12 DEF DropGuard, Goto
  <2>2. QED
    BY <1>1, <1>12, <2>1, SameQueue DEF DropGuard, TypeOK, Waits
<1>13. CASE UNCHANGED vars
  BY <1>1, <1>13, SameQueue DEF vars
<1>14. QED
  BY <1>2, <1>3, <1>4, <1>5, <1>6, <1>7, <1>8, <1>9, <1>10, <1>11, <1>12, <1>13
     DEF Next, Permit, Collect

\* The protocol never deadlocks: permits that the queue waits for are held by
\* somebody, who never waits for the holders mutex in turn.
THEOREM NoDeadlock == Spec => []NoWaitCycle
<1>1. Init => QueueExact
  BY Actors DEF Init, QueueExact, Waits
<1>2. IInv /\ QueueExact => NoWaitCycle
  <2> SUFFICES ASSUME IInv, QueueExact PROVE NoWaitCycle
    OBVIOUS
  <2>1. ASSUME queue # <<>>, \A a \in Actor : pc[a] \notin Active \union Exclusive
        PROVE  avail >= 1 /\ avail >= MaxPermits
    <3>1. Running = {} /\ Stopping = {}
      BY <2>1, Actors DEF Running, Stopping
    <3>2. avail = MaxPermits - Cardinality({})
      BY <3>1 DEF IInv, PermitsAddUp, AddUp
    <3>3. QED
      BY <3>2, FS_EmptySet, Actors
  <2>2. ASSUME NEW a \in Actor, pc[a] \in {"spawning", "gc_lock"}
        PROVE  LockFree
    <3>1. CASE pc[a] = "gc_lock"
      <4>1. Stopping = {a}
        BY <3>1 DEF IInv, PermitsAddUp, AddUp, Stopping, Exclusive
      <4>2. QED
        BY <3>1, <4>1 DEF IInv, LockOwner, LockFree, Stopping
    <3>2. CASE pc[a] = "spawning"
      <4>1. a \in Running
        BY <3>2, Actors DEF IInv, HostsOnlyCollect, Running, Active, Collecting,
                            Exclusive
      <4>2. Stopping = {}
        BY <4>1 DEF IInv, PermitsAddUp, AddUp
      <4>3. QED
        BY <4>2 DEF IInv, LockOwner, LockFree, Stopping
    <3>3. QED
      BY <2>2, <3>1, <3>2
  <2>3. QED
    BY <2>1, <2>2 DEF NoWaitCycle, QueueExact, Waits
<1>3. QED
  BY <1>1, <1>2, QueueStep, Invariance, PTL DEF Spec
=============================================================================
