--------------------------- MODULE Futures_proofs ---------------------------
(***************************************************************************)
(* Proofs about Futures, for any number of tasks, of operations per task   *)
(* and for every program: the futures' registry, their heap states, their  *)
(* wake signals and the parked errors always agree, every future keeps the *)
(* promise of FutureContract, a failure cancels everything below it, and   *)
(* no error is lost on its way to a task that still runs.                  *)
(***************************************************************************)
EXTENDS Futures, FiniteSetTheorems, TLAPS

-----------------------------------------------------------------------------
(* The inductive invariant.                                                *)

\* A future that f.cancel() did not settle is settled by its own task, on the
\* task's way out: until then it is Pending or Cancelled.
BodyOwnsFuture ==
    \A f \in Fut :
        heap[f] \in {"Ready", "Error", "ErrorPending", "InternalError"}
            => pc[f] \in {"cascade", "notify", "internal", "done"}

\* Only the winner of the CAS in f.cancel() goes on to fire the signals.
OneCanceller ==
    \A t, u \in Task, f \in Fut :
        /\ pc[t] = "firing" /\ f \in aw[t] => heap[f] = "Cancelled"
        /\ pc[t] = "firing" /\ f \in aw[t] /\ pc[u] = "firing" /\ f \in aw[u]
            => t = u

\* The root task settles no future.
RootSettlesNothing == pc[Root] \notin {"queued", "erring", "cascade", "notify", "internal"}

Registry == /\ StashMatchesHeap
            /\ UnsettledIsRooted
            /\ WakeMatchesHeap
            /\ BodyOwnsFuture
            /\ OneCanceller
            /\ RootSettlesNothing

IInv == TypeOK /\ Registry

-----------------------------------------------------------------------------
(* Type correctness.                                                       *)

\* The sets of tasks and futures, from the assumption on N.
LEMMA Numbers == /\ N \in Nat /\ MaxOps \in Nat
                 /\ Fut \subseteq Task
                 /\ Root \in Task /\ Root \notin Fut
                 /\ \A t \in Task : t # Root => t \in Fut
                 /\ \A f \in Fut : f \in Nat
BY NAssumption, OpsAssumption DEF Fut, Task, Root

\* A call starts in a well-shaped state: no future exists and only the root runs.
LEMMA InitTypeOK == Init => TypeOK
<1> SUFFICES ASSUME Init PROVE TypeOK
  OBVIOUS
<1>1. next \in 1..(N + 1) /\ \A f \in Fut : f >= next
  BY Numbers DEF Init, Fut
<1>2. /\ heap \in [Fut -> States]
      /\ wake \in [Fut -> {"unset", "ok", "err"}]
      /\ \A f \in Fut : heap[f] = "Unborn"
  BY DEF Init, States
<1>3. /\ active \subseteq Fut /\ deferred \subseteq Fut
      /\ fired \subseteq Task /\ linked \subseteq Fut /\ userFired \in BOOLEAN
  BY DEF Init
<1>4. anc \in [Task -> SUBSET Task] /\ errq \in [Task -> SUBSET Fut]
  BY Numbers DEF Init
<1>5. home \in [Fut -> Task] /\ aw \in [Task -> SUBSET Fut]
  BY Numbers DEF Init
<1>6. ops \in [Task -> 0..MaxOps]
  BY Numbers DEF Init
<1>7. pc \in [Task -> Pcs] /\ \A f \in Fut : pc[f] = "unborn"
  BY Numbers DEF Init, Pcs
<1>. QED
  BY <1>1, <1>2, <1>3, <1>4, <1>5, <1>6, <1>7 DEF TypeOK

\* What a task may do next is a task state again.
LEMMA StepTypeOK ==
    ASSUME IInv, NEW t \in Task, Step(t)
    PROVE  TypeOK'
<1> USE Numbers DEF IInv, TypeOK, Registry, Goto, Pcs, States, Terminal, fm, tokens
<1>1. ASSUME NEW d \in BOOLEAN, NEW l \in BOOLEAN, NEW g \in BOOLEAN,
             Spawn(t, d, l, g)
      PROVE  TypeOK'
  <2>1. next \in Fut /\ next \in Task /\ next' = next + 1 /\ next' \in 1..(N + 1)
    BY <1>1 DEF Spawn, NewFuture, Fut
  <2>2. ChildToken(t, d) \subseteq Task
    BY DEF ChildToken
  <2>. QED
    BY <1>1, <2>1, <2>2, SMTT(30) DEF Spawn, NewFuture, Op, Fut
<1>2. CASE LeaveQueue(t)
  BY <1>2 DEF LeaveQueue
<1>3. ASSUME NEW f \in Fut, VmCancel(t, f)
      PROVE  TypeOK'
  BY <1>3 DEF VmCancel, Op, Pending
<1>4. CASE FireCancel(t)
  BY <1>4 DEF FireCancel
<1>5. CASE VmFireUserToken(t)
  BY <1>5 DEF VmFireUserToken, Op
<1>6. ASSUME NEW S \in SUBSET Fut, StartAwait(t, S)
      PROVE  TypeOK'
  BY <1>6 DEF StartAwait, Op
<1>7. CASE StartSysOp(t)
  BY <1>7 DEF StartSysOp, Op
<1>8. CASE Throw(t)
  BY <1>8 DEF Throw, Unwind
<1>9. CASE Complete(t)
  BY <1>9 DEF Complete, FulfillFuture, SettleTo, Settleable, Pending
<1>10. CASE VmInternalError(t)
  BY <1>10 DEF VmInternalError, InternalErrorFuture, SettleTo, Settleable, Pending
<1>11. CASE ExecAwait(t)
  BY <1>11 DEF ExecAwait, Unwind
<1>12. CASE ExecAwaitAny(t)
  BY <1>12 DEF ExecAwaitAny
<1>13. CASE \/ CheckAwait(t, "check", "parked", "ready")
            \/ CheckAwait(t, "checkAny", "parkedAny", "readyAny")
  BY <1>13 DEF CheckAwait, TakeDeferred, StashMatchesHeap
<1>14. CASE WakeAwait(t)
  BY <1>14 DEF WakeAwait, Woken
<1>15. CASE WakeAwaitAny(t)
  BY <1>15 DEF WakeAwaitAny, Woken
<1>16. CASE WakeSysOp(t)
  BY <1>16 DEF WakeSysOp
<1>17. CASE Consume(t)
  BY <1>17 DEF Consume
<1>18. CASE Drain(t)
  BY <1>18 DEF Drain, TakeDeferred, StashMatchesHeap
<1>19. CASE Drained(t)
  BY <1>19 DEF Drained
<1>20. CASE SettleCancelled(t)
  BY <1>20 DEF SettleCancelled, CancelFuture, SettleTo, Settleable, Pending
<1>21. CASE SettleErrored(t)
  BY <1>21 DEF SettleErrored, DeferError, SettleTo, Settleable, Pending
<1>22. CASE Cascade(t)
  BY <1>22 DEF Cascade
<1>23. CASE NotifyParent(t)
  <2>1. t \in Fut
    BY <1>23, Zenon DEF NotifyParent, RootSettlesNothing
  <2>2. home[t] \in Task
    BY <2>1
  <2>. QED
    BY <1>23, <2>1, <2>2 DEF NotifyParent
<1>24. CASE CascadeInternal(t)
  BY <1>24 DEF CascadeInternal
<1>. QED
  BY <1>1, <1>2, <1>3, <1>4, <1>5, <1>6, <1>7, <1>8, <1>9, <1>10, <1>11,
     <1>12, <1>13, <1>14, <1>15, <1>16, <1>17, <1>18, <1>19, <1>20, <1>21,
     <1>22, <1>23, <1>24 DEF Step

\* The steps that are not a task's own.
LEMMA NextTypeOK == IInv /\ [Next]_vars => TypeOK'
<1> SUFFICES ASSUME IInv, [Next]_vars PROVE TypeOK'
  OBVIOUS
<1> USE Numbers DEF IInv, TypeOK, Registry, Goto, Pcs, fm, tokens
<1>1. ASSUME NEW t \in Task, Step(t) PROVE TypeOK'
  BY <1>1, StepTypeOK DEF IInv
<1>2. ASSUME NEW t \in Task, SysOpReturns(t) PROVE TypeOK'
  BY <1>2 DEF SysOpReturns
<1>3. ASSUME NEW t \in Task, Admitted(t) PROVE TypeOK'
  BY <1>3 DEF Admitted
<1>4. ASSUME NEW f \in Fut, Watcher(f) PROVE TypeOK'
  BY <1>4 DEF Watcher
<1>5. CASE HostCancel
  BY <1>5 DEF HostCancel
<1>6. CASE UNCHANGED vars
  BY <1>6 DEF vars
<1>. QED
  BY <1>1, <1>2, <1>3, <1>4, <1>5, <1>6 DEF Next

-----------------------------------------------------------------------------
(* The registry, the heap states, the stash and the wake signals agree.    *)

\* A step of t that leaves the FutureManager alone, and is neither the start
\* nor the end of a cancellation, keeps the registry consistent.
LEMMA QuietStep ==
    ASSUME IInv, UNCHANGED fm, NEW t \in Task,
           pc[t] # "firing",
           NEW q \in Pcs \ {"firing"},
           pc' = [pc EXCEPT ![t] = q],
           t = Root => q \notin {"queued", "erring", "cascade", "notify", "internal"},
           \A u \in Task : u # t => aw'[u] = aw[u],
           pc[t] \in {"cascade", "notify", "internal", "done"} =>
              q \in {"cascade", "notify", "internal", "done"}
    PROVE  Registry'
<1> USE Numbers DEF IInv, TypeOK, Registry, fm
<1>1. StashMatchesHeap' /\ UnsettledIsRooted'
  BY DEF StashMatchesHeap, UnsettledIsRooted
<1>2. \A u \in Task : pc'[u] = "firing" <=> pc[u] = "firing"
  OBVIOUS
<1>3. \A f \in Fut : BeingCancelled(f)' <=> BeingCancelled(f)
  BY <1>2 DEF BeingCancelled
<1>4. WakeMatchesHeap'
  BY <1>3 DEF WakeMatchesHeap
<1>5. BodyOwnsFuture'
  BY DEF BodyOwnsFuture
<1>6. OneCanceller'
  BY <1>2 DEF OneCanceller
<1>7. RootSettlesNothing'
  BY DEF RootSettlesNothing
<1>. QED
  BY <1>1, <1>4, <1>5, <1>6, <1>7

\* TakeDeferred(S), on t's way from an await: every taken future was parked.
LEMMA TakeStep ==
    ASSUME IInv, NEW t \in Task, NEW S \in SUBSET Fut, TakeDeferred(S),
           pc[t] \in {"check", "checkAny", "draining"},
           NEW q \in {"parked", "parkedAny", "ready", "readyAny", "draining",
                   "aborted", "erring"},
           t = Root => q # "erring",
           pc' = [pc EXCEPT ![t] = q],
           UNCHANGED aw
    PROVE  Registry'
<1> USE Numbers DEF IInv, TypeOK, Registry, TakeDeferred
<1>1. \A f \in Fut : heap'[f] = IF f \in S \cap deferred THEN "Error" ELSE heap[f]
  OBVIOUS
<1>2. \A f \in S \cap deferred : heap[f] = "ErrorPending"
  BY DEF StashMatchesHeap
<1>3. \A u \in Task : pc'[u] = "firing" <=> pc[u] = "firing"
  OBVIOUS
<1>4. \A f \in Fut : BeingCancelled(f)' <=> BeingCancelled(f)
  BY <1>3 DEF BeingCancelled
<1>5. StashMatchesHeap'
  BY <1>1 DEF StashMatchesHeap
<1>6. UnsettledIsRooted'
  BY <1>1 DEF UnsettledIsRooted
<1>7. WakeMatchesHeap'
  BY <1>1, <1>2, <1>4 DEF WakeMatchesHeap
<1>8. BodyOwnsFuture'
  <2> SUFFICES ASSUME NEW f \in Fut,
                      heap'[f] \in {"Ready", "Error", "ErrorPending", "InternalError"}
               PROVE  pc'[f] \in {"cascade", "notify", "internal", "done"}
    BY DEF BodyOwnsFuture
  <2>1. pc[f] \in {"cascade", "notify", "internal", "done"}
    BY <1>1, <1>2 DEF BodyOwnsFuture
  <2>. QED
    BY <2>1
<1>9. OneCanceller'
  BY <1>1, <1>2, <1>3 DEF OneCanceller
<1>10. RootSettlesNothing'
  BY DEF RootSettlesNothing
<1>. QED
  BY <1>5, <1>6, <1>7, <1>8, <1>9, <1>10

\* The task f settles its own future on its way out, with an outcome s whose
\* wake signal is w; the entry and the stash follow the outcome.
LEMMA SettleStep ==
    ASSUME IInv, NEW f \in Fut,
           pc[f] \notin {"unborn", "firing", "cascade", "notify", "internal", "done"},
           NEW s \in {"Ready", "Cancelled", "ErrorPending", "InternalError"},
           NEW w \in {"ok", "err"}, w = "err" <=> s = "InternalError",
           SettleTo(f, s, w),
           deferred' = deferred \union
                          (IF s = "ErrorPending" /\ Settleable(f) THEN {f} ELSE {}),
           active' = active \/ (active' = active \ {f} /\ s \in {"Ready", "Cancelled"}),
           NEW q \in {"done", "cascade", "internal"},
           pc' = [pc EXCEPT ![f] = q],
           UNCHANGED aw
    PROVE  Registry'
<1> USE Numbers DEF IInv, TypeOK, Registry, SettleTo, Settleable, Pending
<1>1. \A u \in Task : pc'[u] = "firing" <=> pc[u] = "firing"
  OBVIOUS
<1>2. \A g \in Fut : BeingCancelled(g)' <=> BeingCancelled(g)
  BY <1>1 DEF BeingCancelled
<1>3. heap[f] \in {"Pending", "Cancelled"}
  BY DEF BodyOwnsFuture, States, Terminal
<1>4. heap[f] = "Pending" => f \in active /\ ~BeingCancelled(f)
  BY DEF UnsettledIsRooted, OneCanceller, BeingCancelled
<1>5. /\ heap' = IF heap[f] = "Pending" THEN [heap EXCEPT ![f] = s] ELSE heap
      /\ wake' = IF heap[f] = "Pending" THEN [wake EXCEPT ![f] = w] ELSE wake
  BY <1>4
<1>6. StashMatchesHeap'
  BY <1>3, <1>4, <1>5 DEF StashMatchesHeap
<1>7. UnsettledIsRooted'
  BY <1>3, <1>4, <1>5 DEF UnsettledIsRooted
<1>8. WakeMatchesHeap'
  BY <1>2, <1>4, <1>5 DEF WakeMatchesHeap
<1>9. BodyOwnsFuture'
  BY <1>5 DEF BodyOwnsFuture
<1>10. OneCanceller'
  BY <1>1, <1>4, <1>5 DEF OneCanceller
<1>11. RootSettlesNothing'
  BY DEF RootSettlesNothing
<1>. QED
  BY <1>6, <1>7, <1>8, <1>9, <1>10, <1>11

\* A new future is Pending and registered before its task can run.
LEMMA SpawnStep ==
    ASSUME IInv, NEW t \in Task, NEW d \in BOOLEAN, NEW l \in BOOLEAN,
           NEW g \in BOOLEAN, Spawn(t, d, l, g)
    PROVE  Registry'
<1> USE Numbers DEF IInv, TypeOK, Registry, Spawn, NewFuture, Goto
<1>1. next \in Fut /\ heap[next] = "Unborn" /\ pc[next] = "unborn"
  OBVIOUS
<1>2. \A u \in Task : pc'[u] = "firing" <=> pc[u] = "firing"
  BY <1>1
<1>3. \A f \in Fut : BeingCancelled(f)' <=> BeingCancelled(f)
  BY <1>2 DEF BeingCancelled
<1>4. StashMatchesHeap'
  BY <1>1 DEF StashMatchesHeap
<1>5. UnsettledIsRooted'
  BY <1>1 DEF UnsettledIsRooted
<1>6. WakeMatchesHeap'
  BY <1>1, <1>3 DEF WakeMatchesHeap
<1>7. BodyOwnsFuture'
  BY <1>1 DEF BodyOwnsFuture
<1>8. OneCanceller'
  BY <1>1, <1>2 DEF OneCanceller
<1>9. RootSettlesNothing'
  BY <1>1 DEF RootSettlesNothing
<1>. QED
  BY <1>4, <1>5, <1>6, <1>7, <1>8, <1>9

\* f.cancel(): the CAS, ...
LEMMA CancelStep ==
    ASSUME IInv, NEW t \in Task, NEW f \in Fut, VmCancel(t, f), Pending(f)
    PROVE  Registry'
<1> USE Numbers DEF IInv, TypeOK, Registry, VmCancel, Goto, Op, Pending
<1>1. heap[f] = "Pending" /\ ~BeingCancelled(f)
  BY DEF OneCanceller, BeingCancelled
<1>2. \A u \in Task : pc'[u] = "firing" <=> (u = t \/ pc[u] = "firing")
  OBVIOUS
<1>3. \A g \in Fut : BeingCancelled(g)' <=> (g = f \/ BeingCancelled(g))
  BY <1>2 DEF BeingCancelled
<1>4. StashMatchesHeap' /\ UnsettledIsRooted' /\ BodyOwnsFuture' /\ RootSettlesNothing'
  BY <1>1 DEF StashMatchesHeap, UnsettledIsRooted, BodyOwnsFuture,
              RootSettlesNothing
<1>5. WakeMatchesHeap'
  BY <1>1, <1>3 DEF WakeMatchesHeap
<1>6. OneCanceller'
  <2>1. \A u \in Task : u # t => aw'[u] = aw[u]
    OBVIOUS
  <2>2. aw'[t] = {f} /\ heap'[f] = "Cancelled"
    OBVIOUS
  <2>3. \A u \in Task : pc[u] = "firing" => f \notin aw[u]
    BY <1>1 DEF BeingCancelled
  <2>4. \A g \in Fut : heap[g] = "Cancelled" => heap'[g] = "Cancelled"
    OBVIOUS
  <2>5. ASSUME NEW u \in Task, NEW g \in Fut, pc'[u] = "firing", g \in aw'[u]
        PROVE  IF u = t THEN g = f ELSE g # f /\ pc[u] = "firing" /\ g \in aw[u]
    BY <1>2, <2>1, <2>2, <2>3, <2>5
  <2>6. ASSUME NEW u \in Task, NEW g \in Fut, pc'[u] = "firing", g \in aw'[u]
        PROVE  heap'[g] = "Cancelled"
    BY <2>2, <2>4, <2>5, <2>6 DEF OneCanceller
  <2>7. ASSUME NEW u \in Task, NEW v \in Task, NEW g \in Fut,
               pc'[u] = "firing", g \in aw'[u], pc'[v] = "firing", g \in aw'[v]
        PROVE  u = v
    BY <2>5, <2>7 DEF OneCanceller
  <2>. QED
    BY <2>6, <2>7, Zenon DEF OneCanceller
<1>. QED
  BY <1>4, <1>5, <1>6

\* ... and the signals.
LEMMA FireStep ==
    ASSUME IInv, NEW t \in Task, FireCancel(t)
    PROVE  Registry'
<1> USE Numbers DEF IInv, TypeOK, Registry, FireCancel, Goto
<1>1. \A f \in aw[t] : f \in Fut /\ heap[f] = "Cancelled"
  BY DEF OneCanceller
<1>2. \A u \in Task : pc'[u] = "firing" <=> (u # t /\ pc[u] = "firing")
  OBVIOUS
<1>3. \A f \in Fut : BeingCancelled(f)' <=> (f \notin aw[t] /\ BeingCancelled(f))
  BY <1>2 DEF BeingCancelled, OneCanceller
<1>4. StashMatchesHeap' /\ UnsettledIsRooted' /\ BodyOwnsFuture' /\ RootSettlesNothing'
  BY DEF StashMatchesHeap, UnsettledIsRooted, BodyOwnsFuture, RootSettlesNothing
<1>5. WakeMatchesHeap'
  BY <1>1, <1>3 DEF WakeMatchesHeap
<1>6. OneCanceller'
  BY <1>2 DEF OneCanceller
<1>. QED
  BY <1>4, <1>5, <1>6

\* Every step of a task keeps the registry consistent.
LEMMA StepRegistry ==
    ASSUME IInv, NEW t \in Task, Step(t)
    PROVE  Registry'
<1> USE Numbers DEF Goto, Pcs
<1>t. TypeOK /\ RootSettlesNothing
  BY DEF IInv, Registry
<1>1. ASSUME NEW d \in BOOLEAN, NEW l \in BOOLEAN, NEW g \in BOOLEAN,
             Spawn(t, d, l, g)
      PROVE  Registry'
  BY <1>1, SpawnStep
<1>2. CASE LeaveQueue(t)
  BY <1>2, <1>t, QuietStep DEF LeaveQueue
<1>3. ASSUME NEW f \in Fut, VmCancel(t, f)
      PROVE  Registry'
  <2>1. CASE Pending(f)
    BY <1>3, <2>1, CancelStep
  <2>2. CASE ~Pending(f)
    <3>1. UNCHANGED fm /\ pc[t] = "vm" /\ pc' = [pc EXCEPT ![t] = "vm"] /\ aw' = aw
      BY <1>3, <1>t, <2>2 DEF VmCancel, Op, fm, TypeOK
    <3>. QED
      BY <3>1, QuietStep
  <2>. QED
    BY <2>1, <2>2
<1>4. CASE FireCancel(t)
  BY <1>4, FireStep
<1>5. CASE VmFireUserToken(t)
  <2>1. UNCHANGED fm /\ pc[t] = "vm" /\ pc' = [pc EXCEPT ![t] = "vm"] /\ aw' = aw
    BY <1>5, <1>t DEF VmFireUserToken, Op, TypeOK
  <2>. QED
    BY <2>1, QuietStep
<1>6. ASSUME NEW S \in SUBSET Fut, StartAwait(t, S)
      PROVE  Registry'
  <2>1. \A u \in Task : u # t => aw'[u] = aw[u]
    BY <1>6, <1>t DEF StartAwait, TypeOK
  <2>2. UNCHANGED fm /\ pc[t] = "vm" /\ \/ pc' = [pc EXCEPT ![t] = "exec"]
                                        \/ pc' = [pc EXCEPT ![t] = "execAny"]
    BY <1>6 DEF StartAwait, Op
  <2>. QED
    BY <2>1, <2>2, QuietStep
<1>7. CASE StartSysOp(t)
  BY <1>7, QuietStep DEF StartSysOp, Op
<1>8. CASE Throw(t)
  BY <1>8, QuietStep DEF Throw, Unwind
<1>9. CASE Complete(t)
  <2>1. CASE t = Root
    BY <1>9, <2>1, QuietStep DEF Complete
  <2>2. CASE t # Root
    BY <1>9, <2>2, SettleStep DEF Complete, FulfillFuture
  <2>. QED
    BY <2>1, <2>2
<1>10. CASE VmInternalError(t)
  <2>1. CASE UNCHANGED fm /\ pc' = [pc EXCEPT ![t] = "aborted"]
    BY <1>10, <2>1, QuietStep DEF VmInternalError
  <2>2. CASE t \in active /\ InternalErrorFuture(t) /\ pc' = [pc EXCEPT ![t] = "internal"]
    BY <1>10, <1>t, <2>2, SettleStep DEF VmInternalError, InternalErrorFuture, TypeOK
  <2>. QED
    BY <1>10, <2>1, <2>2 DEF VmInternalError
<1>11. CASE ExecAwait(t)
  BY <1>11, QuietStep DEF ExecAwait, Unwind
<1>12. CASE ExecAwaitAny(t)
  BY <1>12, QuietStep DEF ExecAwaitAny
<1>13. ASSUME NEW from \in {"check", "checkAny"},
              NEW parked \in {"parked", "parkedAny"},
              NEW ready \in {"ready", "readyAny"},
              CheckAwait(t, from, parked, ready)
       PROVE  Registry'
  <2>1. CASE IsCancelled(t)
    BY <1>13, <2>1, QuietStep DEF CheckAwait
  <2>2. CASE ~IsCancelled(t)
    <3>1. aw[t] \in SUBSET Fut
      BY <1>t DEF TypeOK
    <3>. QED
      BY <1>13, <2>2, <3>1, TakeStep DEF CheckAwait
  <2>. QED
    BY <2>1, <2>2
<1>14. CASE WakeAwait(t)
  BY <1>14, QuietStep DEF WakeAwait, Woken
<1>15. CASE WakeAwaitAny(t)
  BY <1>15, QuietStep DEF WakeAwaitAny, Woken
<1>16. CASE WakeSysOp(t)
  BY <1>16, QuietStep DEF WakeSysOp
<1>17. CASE Consume(t)
  BY <1>17, QuietStep DEF Consume
<1>18. CASE Drain(t)
  <2>1. PICK f \in errq[t] :
           /\ TakeDeferred({f})
           /\ Goto(t, CASE f \notin deferred -> "draining"
                        [] f \in deferred /\ t = Root -> "aborted"
                        [] OTHER -> "erring")
    BY <1>18 DEF Drain
  <2>2. {f} \in SUBSET Fut
    BY <1>t DEF TypeOK
  <2>. QED
    BY <1>18, <2>1, <2>2, TakeStep DEF Drain
<1>19. CASE Drained(t)
  BY <1>19, QuietStep DEF Drained
<1>20. CASE SettleCancelled(t)
  <2>1. CASE t = Root
    BY <1>20, <2>1, QuietStep DEF SettleCancelled
  <2>2. CASE t # Root
    BY <1>20, <2>2, SettleStep DEF SettleCancelled, CancelFuture
  <2>. QED
    BY <2>1, <2>2
<1>21. CASE SettleErrored(t)
  <2>1. t \in Fut
    BY <1>21, <1>t, Zenon DEF SettleErrored, RootSettlesNothing
  <2>. QED
    BY <1>21, <2>1, SettleStep DEF SettleErrored, DeferError
<1>22. CASE Cascade(t)
  BY <1>22, <1>t, QuietStep DEF Cascade, RootSettlesNothing
<1>23. CASE NotifyParent(t)
  BY <1>23, QuietStep DEF NotifyParent
<1>24. CASE CascadeInternal(t)
  BY <1>24, <1>t, QuietStep DEF CascadeInternal, RootSettlesNothing
<1>. QED
  BY <1>1, <1>2, <1>3, <1>4, <1>5, <1>6, <1>7, <1>8, <1>9, <1>10, <1>11,
     <1>12, <1>13, <1>14, <1>15, <1>16, <1>17, <1>18, <1>19, <1>20, <1>21,
     <1>22, <1>23, <1>24 DEF Step

\* Every step of the call keeps the registry consistent: those of
\* StepRegistry, and the steps that change neither a future nor a task's path.
LEMMA NextRegistry == IInv /\ [Next]_vars => Registry'
<1> SUFFICES ASSUME IInv, [Next]_vars PROVE Registry'
  OBVIOUS
<1> USE Numbers DEF Goto, Pcs
<1>t. TypeOK
  BY DEF IInv
<1>1. ASSUME NEW t \in Task, Step(t) PROVE Registry'
  BY <1>1, StepRegistry
<1>2. ASSUME NEW t \in Task, SysOpReturns(t) PROVE Registry'
  BY <1>2, QuietStep DEF SysOpReturns
<1>3. ASSUME NEW t \in Task, Admitted(t) PROVE Registry'
  BY <1>3, QuietStep DEF Admitted
<1>4. CASE UNCHANGED <<fm, pc, aw>>
  BY <1>4 DEF IInv, Registry, fm, StashMatchesHeap, UnsettledIsRooted,
              WakeMatchesHeap, BeingCancelled, BodyOwnsFuture, OneCanceller,
              RootSettlesNothing
<1>5. ASSUME NEW f \in Fut, Watcher(f) PROVE Registry'
  BY <1>4, <1>5 DEF Watcher
<1>6. CASE HostCancel
  BY <1>4, <1>6 DEF HostCancel
<1>7. CASE UNCHANGED vars
  BY <1>4, <1>7 DEF vars, fm
<1>. QED
  BY <1>1, <1>2, <1>3, <1>5, <1>6, <1>7 DEF Next

\* The registry of a new call is empty, and so consistent.
LEMMA InitRegistry == Init => Registry
BY Numbers DEF Init, Registry, StashMatchesHeap, UnsettledIsRooted,
               WakeMatchesHeap, BeingCancelled, BodyOwnsFuture, OneCanceller,
               RootSettlesNothing

-----------------------------------------------------------------------------
(* The invariants, for every reachable state.                              *)

\* The inductive invariant holds in every reachable state.
LEMMA Invariance == Spec => []IInv
<1>1. Init => IInv
  BY InitTypeOK, InitRegistry DEF IInv
<1>2. IInv /\ [Next]_vars => IInv'
  BY NextTypeOK, NextRegistry DEF IInv
<1>. QED
  BY <1>1, <1>2, PTL DEF Spec

\* The state has its shape, and a future is unborn exactly when its task is.
THEOREM TypeCorrect == Spec => []TypeOK
<1>1. IInv => TypeOK
  BY DEF IInv
<1>. QED
  BY <1>1, Invariance, PTL

\* defer_error, take_deferred_error and f.cancel() never disagree: an error is
\* parked exactly while its future reads as ErrorPending, whoever races.
THEOREM StashConsistent == Spec => []StashMatchesHeap
<1>1. IInv => StashMatchesHeap
  BY DEF IInv, Registry
<1>. QED
  BY <1>1, Invariance, PTL

\* What is unsettled, untold or broken stays reachable for the collector.
THEOREM Rooted == Spec => []UnsettledIsRooted
<1>1. IInv => UnsettledIsRooted
  BY DEF IInv, Registry
<1>. QED
  BY <1>1, Invariance, PTL

\* No wake-up is lost and none is premature.
THEOREM WakeConsistent == Spec => []WakeMatchesHeap
<1>1. IInv => WakeMatchesHeap
  BY DEF IInv, Registry
<1>. QED
  BY <1>1, Invariance, PTL

-----------------------------------------------------------------------------
(* Futures implements FutureContract.                                      *)

\* What one step of the call may do to the futures: nothing, issue the next
\* one, settle one that is Pending, or claim errors that are parked.
HeapStep ==
    \/ heap' = heap
    \/ next \in Fut /\ heap' = [heap EXCEPT ![next] = "Pending"]
    \/ \E f \in Fut, s \in {"Ready", "Cancelled", "ErrorPending", "InternalError"} :
          heap[f] = "Pending" /\ heap' = [heap EXCEPT ![f] = s]
    \/ \E S \in SUBSET Fut :
          /\ \A f \in S : heap[f] = "ErrorPending"
          /\ heap' = [f \in Fut |-> IF f \in S THEN "Error" ELSE heap[f]]

\* A settling helper of the FutureManager changes at most one Pending future.
LEMMA SettleIsHeapStep ==
    ASSUME IInv, NEW f \in Task, NEW w,
           NEW s \in {"Ready", "Cancelled", "ErrorPending", "InternalError"},
           SettleTo(f, s, w)
    PROVE  HeapStep
BY DEF IInv, TypeOK, SettleTo, Settleable, Pending, HeapStep

\* take_deferred_error, for all futures of an await, only claims parked errors.
LEMMA TakeIsHeapStep ==
    ASSUME IInv, NEW S, TakeDeferred(S)
    PROVE  HeapStep
<1>1. S \cap deferred \in SUBSET Fut /\ \A f \in S \cap deferred : heap[f] = "ErrorPending"
  BY DEF IInv, TypeOK, Registry, StashMatchesHeap
<1>. QED
  BY <1>1 DEF TakeDeferred, HeapStep

\* No step of a task does more to the futures than HeapStep allows.
LEMMA StepIsHeapStep ==
    ASSUME IInv, NEW t \in Task, Step(t)
    PROVE  HeapStep
<1> USE DEF fm
<1>1. CASE heap' = heap
  BY <1>1 DEF HeapStep
<1>2. ASSUME NEW d \in BOOLEAN, NEW l \in BOOLEAN, NEW g \in BOOLEAN,
             Spawn(t, d, l, g)
      PROVE  HeapStep
  BY <1>2 DEF Spawn, NewFuture, HeapStep
<1>3. ASSUME NEW f \in Fut, VmCancel(t, f)
      PROVE  HeapStep
  BY <1>3 DEF VmCancel, Pending, HeapStep
<1>4. CASE Complete(t)
  BY <1>1, <1>4, SettleIsHeapStep DEF Complete, FulfillFuture
<1>5. CASE VmInternalError(t)
  BY <1>1, <1>5, SettleIsHeapStep DEF VmInternalError, InternalErrorFuture
<1>6. CASE \/ CheckAwait(t, "check", "parked", "ready")
            \/ CheckAwait(t, "checkAny", "parkedAny", "readyAny")
  BY <1>1, <1>6, TakeIsHeapStep DEF CheckAwait
<1>7. CASE Drain(t)
  BY <1>7, TakeIsHeapStep DEF Drain
<1>8. CASE SettleCancelled(t)
  BY <1>1, <1>8, SettleIsHeapStep DEF SettleCancelled, CancelFuture
<1>9. CASE SettleErrored(t)
  BY <1>9, SettleIsHeapStep DEF SettleErrored, DeferError
<1>. QED
  BY <1>1, <1>2, <1>3, <1>4, <1>5, <1>6, <1>7, <1>8, <1>9
     DEF Step, LeaveQueue, FireCancel, VmFireUserToken, StartAwait, StartSysOp,
         Throw, ExecAwait, ExecAwaitAny, WakeAwait, WakeAwaitAny, Woken, WakeSysOp,
         Consume, Drained, Cascade, NotifyParent, CascadeInternal

\* Nor does any other step of the call.
LEMMA NextIsHeapStep == IInv /\ [Next]_vars => HeapStep
<1> SUFFICES ASSUME IInv, [Next]_vars PROVE HeapStep
  OBVIOUS
<1>1. ASSUME NEW t \in Task, Step(t) PROVE HeapStep
  BY <1>1, StepIsHeapStep
<1>2. CASE heap' = heap
  BY <1>2 DEF HeapStep
<1>. QED
  BY <1>1, <1>2 DEF Next, vars, fm, SysOpReturns, Admitted, Watcher, HostCancel

\* At the start no future is issued and none is claimed.
LEMMA RefinesInit == Init => Contract!CInit
BY DEF Init, Contract!CInit, Outcome, Claimed, Contract!Fut, Fut

\* Each of the four things a step may do to the futures is a step of the
\* contract, or leaves what the contract sees unchanged.
LEMMA RefinesStep ==
    ASSUME TypeOK, HeapStep
    PROVE  [Contract!CNext]_(Contract!cvars)
<1> USE Numbers DEF TypeOK, Contract!cvars, Contract!Fut, Fut, Outcome, Claimed,
                    States, Terminal
<1>1. CASE heap' = heap
  BY <1>1
<1>2. CASE next \in Fut /\ heap' = [heap EXCEPT ![next] = "Pending"]
  <2>1. \A g \in Fut : g < next <=> Outcome[g] # "none"
    OBVIOUS
  <2>2. Outcome' = [Outcome EXCEPT ![next] = "open"]
    BY <1>2
  <2>3. Claimed' = Claimed
    BY <1>2
  <2>. QED
    BY <1>2, <2>1, <2>2, <2>3 DEF Contract!CNext, Contract!Issue
<1>3. ASSUME NEW f \in Fut,
             NEW s \in {"Ready", "Cancelled", "ErrorPending", "InternalError"},
             heap[f] = "Pending", heap' = [heap EXCEPT ![f] = s]
      PROVE  Contract!CNext
  <2> DEFINE o == CASE s = "Ready" -> "value"
                    [] s = "Cancelled" -> "cancelled"
                    [] s = "ErrorPending" -> "failed"
                    [] OTHER -> "internal"
  <2>1. o \in Contract!Settled
    BY DEF Contract!Settled
  <2>2. Outcome[f] = "open" /\ Outcome' = [Outcome EXCEPT ![f] = o]
    BY <1>3
  <2>3. Claimed' = Claimed
    BY <1>3
  <2>. HIDE DEF o
  <2>. QED
    BY <2>1, <2>2, <2>3 DEF Contract!CNext, Contract!Settle
<1>4. ASSUME NEW S \in SUBSET Fut, S # {},
             \A f \in S : heap[f] = "ErrorPending",
             heap' = [f \in Fut |-> IF f \in S THEN "Error" ELSE heap[f]]
      PROVE  Contract!CNext
  <2>1. \A f \in S : Outcome[f] = "failed" /\ f \notin Claimed
    BY <1>4
  <2>2. Outcome' = Outcome
    BY <1>4
  <2>3. Claimed' = Claimed \union S
    BY <1>4
  <2>. QED
    BY <1>4, <2>1, <2>2, <2>3 DEF Contract!CNext, Contract!Claim
<1>. QED
  <2>1. ASSUME heap' = [f \in Fut |-> IF f \in {} THEN "Error" ELSE heap[f]]
        PROVE  heap' = heap
    BY <2>1
  <2>. QED
    BY <1>1, <1>2, <1>3, <1>4, <2>1 DEF HeapStep

\* Whatever the tasks, awaiters and cancellers do, each future is issued once,
\* settles once, and its error is handed over at most once.
THEOREM Refinement == Spec => KeepsContract
<1>1. IInv /\ [Next]_vars => [Contract!CNext]_(Contract!cvars)
  BY NextIsHeapStep, RefinesStep DEF IInv
<1>. QED
  BY <1>1, RefinesInit, Invariance, PTL DEF Spec, KeepsContract, Contract!CSpec

-----------------------------------------------------------------------------
(* Failures cascade.                                                       *)

FailedStates == {"Error", "ErrorPending", "Cancelled", "InternalError"}

\* The tokens form a tree over the tasks that exist.
TokenTree ==
    /\ \A u \in Task : u < next => u \in anc[u]
    /\ \A u, t \in Task : t \in anc[u] => t < next /\ anc[t] \subseteq anc[u]

CInv == IInv /\ TokenTree /\ FailureCascades

\* What the task f, or a canceller of its future, still has to do.
Announced(f) == f \in fired \/ pc[f] \in {"cascade", "internal"} \/ BeingCancelled(f)

\* A step that fails a future fires its token or leaves somebody who will.
FailsLoudly ==
    \A f \in Fut :
        /\ heap'[f] \in FailedStates => heap[f] \in FailedStates \/ Announced(f)'
        /\ pc[f] \in {"cascade", "internal"} => pc'[f] = pc[f] \/ f \in fired'
        /\ BeingCancelled(f) => BeingCancelled(f)' \/ f \in fired'


\* Every step of a task announces the failures it makes.
LEMMA StepFailsLoudly ==
    ASSUME IInv, NEW t \in Task, Step(t)
    PROVE  FailsLoudly
<1> USE Numbers DEF IInv, TypeOK, Registry, StashMatchesHeap, FailsLoudly,
                    Announced, BeingCancelled, FailedStates, Goto, fm, tokens
<1>1. ASSUME NEW d \in BOOLEAN, NEW l \in BOOLEAN, NEW g \in BOOLEAN,
             Spawn(t, d, l, g)
      PROVE  FailsLoudly
  BY <1>1 DEF Spawn, NewFuture, Op
<1>2. ASSUME NEW f \in Fut, VmCancel(t, f)
      PROVE  FailsLoudly
  BY <1>2 DEF VmCancel, Op, Pending
<1>3. ASSUME NEW S \in SUBSET Fut, StartAwait(t, S)
      PROVE  FailsLoudly
  BY <1>3 DEF StartAwait, Op
<1>4. CASE \/ CheckAwait(t, "check", "parked", "ready")
           \/ CheckAwait(t, "checkAny", "parkedAny", "readyAny")
  BY <1>4 DEF CheckAwait, TakeDeferred
<1>5. CASE LeaveQueue(t)
  BY <1>5 DEF LeaveQueue
<1>6. CASE FireCancel(t)
  BY <1>6 DEF FireCancel
<1>7. CASE VmFireUserToken(t)
  BY <1>7 DEF VmFireUserToken, Op
<1>8. CASE StartSysOp(t)
  BY <1>8 DEF StartSysOp, Op
<1>9. CASE Throw(t)
  BY <1>9 DEF Throw, Unwind
<1>10. CASE Complete(t)
  BY <1>10 DEF Complete, FulfillFuture, SettleTo, Settleable, Pending
<1>11. CASE VmInternalError(t)
  BY <1>11 DEF VmInternalError, InternalErrorFuture, SettleTo, Settleable, Pending
<1>12. CASE ExecAwait(t)
  BY <1>12 DEF ExecAwait, Unwind
<1>13. CASE ExecAwaitAny(t)
  BY <1>13 DEF ExecAwaitAny
<1>14. CASE WakeAwait(t)
  BY <1>14 DEF WakeAwait, Woken
<1>15. CASE WakeAwaitAny(t)
  BY <1>15 DEF WakeAwaitAny, Woken
<1>16. CASE WakeSysOp(t)
  BY <1>16 DEF WakeSysOp
<1>17. CASE Consume(t)
  BY <1>17 DEF Consume
<1>18. CASE Drain(t)
  BY <1>18 DEF Drain, TakeDeferred
<1>19. CASE Drained(t)
  BY <1>19 DEF Drained
<1>20. CASE SettleCancelled(t)
  BY <1>20 DEF SettleCancelled, CancelFuture, SettleTo, Settleable, Pending
<1>21. CASE SettleErrored(t)
  BY <1>21 DEF SettleErrored, DeferError, SettleTo, Settleable, Pending
<1>22. CASE Cascade(t)
  BY <1>22 DEF Cascade
<1>23. CASE NotifyParent(t)
  BY <1>23 DEF NotifyParent
<1>24. CASE CascadeInternal(t)
  BY <1>24 DEF CascadeInternal
<1>. QED
  BY <1>1, <1>2, <1>3, <1>4, <1>5, <1>6, <1>7, <1>8, <1>9, <1>10, <1>11, <1>12, <1>13, <1>14, <1>15, <1>16, <1>17, <1>18, <1>19, <1>20, <1>21, <1>22, <1>23, <1>24 DEF Step

\* Nor does any other step fail a future in silence.
LEMMA NextFailsLoudly == IInv /\ [Next]_vars => FailsLoudly
<1> SUFFICES ASSUME IInv, [Next]_vars PROVE FailsLoudly
  OBVIOUS
<1> USE Numbers DEF IInv, TypeOK, FailsLoudly, Announced, BeingCancelled,
                    FailedStates, Goto, fm
<1>1. ASSUME NEW t \in Task, Step(t) PROVE FailsLoudly
  BY <1>1, StepFailsLoudly
<1>2. ASSUME NEW t \in Task, SysOpReturns(t) \/ Admitted(t) PROVE FailsLoudly
  BY <1>2 DEF SysOpReturns, Admitted
<1>3. CASE UNCHANGED <<fm, pc, aw>>
  BY <1>3
<1>. QED
  BY <1>1, <1>2, <1>3 DEF Next, Watcher, HostCancel, vars

\* How a step may change the tokens: firing some, and adding one leaf.
TokensStep ==
    /\ fired \subseteq fired'
    /\ \/ UNCHANGED <<anc, next>>
       \/ \E t \in Task, d \in BOOLEAN :
             /\ next \in Fut /\ t < next /\ next' = next + 1
             /\ anc' = [anc EXCEPT ![next] = {next} \union ChildToken(t, d)]

\* Every step does.
LEMMA NextTokensStep == IInv /\ [Next]_vars => TokensStep
<1> SUFFICES ASSUME IInv, [Next]_vars PROVE TokensStep
  OBVIOUS
<1> USE DEF TokensStep
<1>1. ASSUME NEW t \in Task, NEW d \in BOOLEAN, NEW l \in BOOLEAN,
             NEW g \in BOOLEAN, Spawn(t, d, l, g)
      PROVE  TokensStep
  <2>1. t < next
    <3>1. CASE t = Root
      BY <3>1, Numbers DEF IInv, TypeOK, Root
    <3>2. CASE t # Root
      BY <1>1, <3>2, Numbers DEF IInv, TypeOK, Spawn, Op, Fut
    <3>. QED
      BY <3>1, <3>2
  <2>. QED
    BY <1>1, <2>1 DEF Spawn, NewFuture, Op
<1>2. CASE UNCHANGED <<anc, next>> /\ fired \subseteq fired'
  BY <1>2
<1>3. ASSUME NEW t \in Task, Step(t) PROVE TokensStep
  BY <1>1, <1>2, <1>3 DEF Step, LeaveQueue, VmCancel, FireCancel, VmFireUserToken,
     StartAwait, StartSysOp, Throw, Complete, VmInternalError, ExecAwait,
     ExecAwaitAny, CheckAwait, WakeAwait, WakeAwaitAny, WakeSysOp, Consume, Drain,
     Drained, SettleCancelled, SettleErrored, Cascade, NotifyParent, CascadeInternal,
     tokens, fm, FulfillFuture, InternalErrorFuture, TakeDeferred, CancelFuture, DeferError
<1>. QED
  BY <1>2, <1>3 DEF Next, SysOpReturns, Admitted, Watcher, HostCancel, vars, tokens,
     fm

\* A new leaf keeps the tree a tree.
LEMMA KeepsTree ==
    ASSUME IInv, TokenTree, TokensStep
    PROVE  TokenTree'
<1> USE Numbers DEF IInv, TypeOK, TokenTree, TokensStep
<1>1. CASE UNCHANGED <<anc, next>>
  BY <1>1
<1>2. ASSUME NEW t \in Task, NEW d \in BOOLEAN,
             next \in Fut, t < next, next' = next + 1,
             anc' = [anc EXCEPT ![next] = {next} \union ChildToken(t, d)]
      PROVE  TokenTree'
  <2>1. next \in Task /\ next \in Nat /\ \A u \in Task : u \in Nat
    BY <1>2 DEF Task
  <2>2. \A u \in Task : u # next => anc'[u] = anc[u]
    BY <1>2
  <2>3. /\ anc'[next] \subseteq {next} \union anc[t]
        /\ anc[t] \subseteq anc'[next] \/ anc'[next] = {next}
        /\ next \in anc'[next]
    BY <1>2, <2>1 DEF ChildToken
  <2>4. \A u \in Task : u < next' => u \in anc'[u]
    BY <1>2, <2>1, <2>2, <2>3
  <2>5. ASSUME NEW u \in Task, NEW x \in Task, x \in anc'[u]
        PROVE  x < next' /\ anc'[x] \subseteq anc'[u]
    <3>1. CASE u # next
      BY <1>2, <2>1, <2>2, <2>5, <3>1
    <3>2. CASE u = next /\ x = next
      BY <1>2, <2>1, <3>2
    <3>3. CASE u = next /\ x # next
      BY <1>2, <2>1, <2>2, <2>3, <2>5, <3>3
    <3>. QED
      BY <3>1, <3>2, <3>3
  <2>. QED
    BY <2>4, <2>5
<1>. QED
  BY <1>1, <1>2

\* Whoever has failed is cancelled, and so is everything below.
LEMMA NextCInv == CInv /\ [Next]_vars => CInv'
<1> SUFFICES ASSUME CInv, [Next]_vars PROVE CInv'
  OBVIOUS
<1>1. IInv /\ IInv'
  BY NextTypeOK, NextRegistry DEF CInv, IInv
<1>2. FailsLoudly /\ TokensStep
  BY NextFailsLoudly, NextTokensStep DEF CInv
<1>3. TokenTree'
  BY <1>2, KeepsTree DEF CInv
<1>4. ASSUME NEW f \in Fut, Failed(f)' PROVE IsCancelled(f)'
  <2>1. heap'[f] \in FailedStates /\ pc'[f] \notin {"cascade", "internal"} /\ ~BeingCancelled(f)'
    BY <1>4 DEF Failed, FailedStates
  <2>2. CASE f \in fired'
    <3>1. f \in Task /\ f < next'
      BY <1>1, <2>1, Numbers DEF IInv, TypeOK, FailedStates
    <3>. QED
      BY <1>3, <2>2, <3>1 DEF TokenTree, IsCancelled
  <2>3. CASE f \notin fired'
    <3>1. Failed(f)
      BY <1>2, <2>1, <2>3 DEF FailsLoudly, Announced, Failed, FailedStates
    <3>2. IsCancelled(f)
      BY <3>1 DEF CInv, FailureCascades
    <3>3. f \in Task /\ f < next /\ f # next
      BY <1>1, <3>1, Numbers DEF IInv, TypeOK, Failed
    <3>4. anc'[f] = anc[f]
      BY <1>1, <1>2, <3>3 DEF TokensStep, IInv, TypeOK
    <3>. QED
      BY <1>2, <3>2, <3>4 DEF TokensStep, IsCancelled
  <2>. QED
    BY <2>2, <2>3
<1>5. ASSUME NEW t \in Task, NEW u \in Task, t \in anc'[u], IsCancelled(t)'
      PROVE  IsCancelled(u)'
  BY <1>3, <1>5 DEF TokenTree, IsCancelled
<1>. QED
  BY <1>1, <1>3, <1>4, <1>5 DEF CInv, FailureCascades

\* Once a task has failed or was cancelled, every task spawned below it and not
\* detached is cancelled, those spawned while it was failing included.
THEOREM FailuresCascade == Spec => []FailureCascades
<1>1. Init => CInv
  <2> SUFFICES ASSUME Init PROVE CInv
    OBVIOUS
  <2>1. IInv
    BY InitTypeOK, InitRegistry DEF IInv
  <2>2. TokenTree
    BY Numbers DEF Init, TokenTree, Root, Task
  <2>3. FailureCascades
    BY Numbers DEF Init, FailureCascades, Failed, IsCancelled
  <2>. QED
    BY <2>1, <2>2, <2>3 DEF CInv
<1>2. CInv => FailureCascades
  BY DEF CInv
<1>. QED
  BY <1>1, <1>2, NextCInv, PTL DEF Spec

-----------------------------------------------------------------------------
(* No error is lost.                                                       *)

\* At an Await, unlike an AwaitAny, a task waits for one future.
AwaitsOne ==
    \A t \in Task : pc[t] \in {"exec", "check", "parked", "ready", "resumed", "draining"}
                        => \E f \in Fut : aw[t] = {f}

\* The error of f, addressed to h, is on its way, or h is past taking it.
Delivered(f, h) ==
    \/ pc[f] \in {"cascade", "notify"}
    \/ f \in errq[h]
    \/ f \in aw[h] /\ pc[h] \in {"draining", "exec", "check"}
    \/ pc[h] \in {"cancelling", "erring", "cascade", "notify", "internal", "done", "aborted"}

\* Every parked error is.
AllDelivered == \A f \in deferred : Delivered(f, home[f])

EInv == IInv /\ AwaitsOne /\ AllDelivered

\* A task that takes a step loses no error.
LEMMA StepDelivers ==
    ASSUME EInv, NEW t \in Task, Step(t)
    PROVE  AllDelivered'
<1> USE Numbers DEF EInv, IInv, TypeOK, Registry, StashMatchesHeap, AwaitsOne,
                    AllDelivered, Delivered, Goto, fm, tokens
<1>1. ASSUME NEW d \in BOOLEAN, NEW l \in BOOLEAN, NEW g \in BOOLEAN,
             Spawn(t, d, l, g)
      PROVE  AllDelivered'
  BY <1>1 DEF Spawn, NewFuture, Op
<1>2. ASSUME NEW f \in Fut, VmCancel(t, f)
      PROVE  AllDelivered'
  BY <1>2 DEF VmCancel, Op, Pending
<1>3. ASSUME NEW S \in SUBSET Fut, StartAwait(t, S)
      PROVE  AllDelivered'
  BY <1>3 DEF StartAwait, Op
<1>4. CASE \/ CheckAwait(t, "check", "parked", "ready")
           \/ CheckAwait(t, "checkAny", "parkedAny", "readyAny")
  BY <1>4 DEF CheckAwait, TakeDeferred
<1>5. CASE LeaveQueue(t)
  BY <1>5 DEF LeaveQueue
<1>6. CASE FireCancel(t)
  BY <1>6 DEF FireCancel
<1>7. CASE VmFireUserToken(t)
  BY <1>7 DEF VmFireUserToken, Op
<1>8. CASE StartSysOp(t)
  BY <1>8 DEF StartSysOp, Op
<1>9. CASE Throw(t)
  BY <1>9 DEF Throw, Unwind
<1>10. CASE Complete(t)
  BY <1>10 DEF Complete, FulfillFuture, SettleTo, Settleable, Pending
<1>11. CASE VmInternalError(t)
  BY <1>11 DEF VmInternalError, InternalErrorFuture, SettleTo, Settleable, Pending
<1>12. CASE ExecAwait(t)
  BY <1>12 DEF ExecAwait, Unwind
<1>13. CASE ExecAwaitAny(t)
  BY <1>13 DEF ExecAwaitAny
<1>14. CASE WakeAwait(t)
  BY <1>14 DEF WakeAwait, Woken
<1>15. CASE WakeAwaitAny(t)
  BY <1>15 DEF WakeAwaitAny, Woken
<1>16. CASE WakeSysOp(t)
  BY <1>16 DEF WakeSysOp
<1>17. CASE Consume(t)
  BY <1>17 DEF Consume
<1>18. CASE Drain(t)
  BY <1>18 DEF Drain, TakeDeferred
<1>19. CASE Drained(t)
  BY <1>19 DEF Drained
<1>20. CASE SettleCancelled(t)
  BY <1>20 DEF SettleCancelled, CancelFuture, SettleTo, Settleable, Pending
<1>21. CASE SettleErrored(t)
  BY <1>21 DEF SettleErrored, DeferError, SettleTo, Settleable, Pending
<1>22. CASE Cascade(t)
  BY <1>22 DEF Cascade
<1>23. CASE NotifyParent(t)
  BY <1>23 DEF NotifyParent
<1>24. CASE CascadeInternal(t)
  BY <1>24 DEF CascadeInternal
<1>. QED
  BY <1>1, <1>2, <1>3, <1>4, <1>5, <1>6, <1>7, <1>8, <1>9, <1>10, <1>11, <1>12, <1>13, <1>14, <1>15, <1>16, <1>17, <1>18, <1>19, <1>20, <1>21, <1>22, <1>23, <1>24 DEF Step


\* A set of futures is finite.
LEMMA FutFinite == \A S \in SUBSET Fut : IsFiniteSet(S)
  BY NAssumption, FS_Interval, FS_Subset, 1 \in Int, N \in Int DEF Fut

\* A task that takes a step still awaits one future at an Await.
LEMMA StepAwaitsOne ==
    ASSUME EInv, NEW t \in Task, Step(t)
    PROVE  AwaitsOne'
<1> USE Numbers DEF EInv, IInv, TypeOK, Registry, AwaitsOne, Goto
<1>1. ASSUME NEW d \in BOOLEAN, NEW l \in BOOLEAN, NEW g \in BOOLEAN,
             Spawn(t, d, l, g)
      PROVE  AwaitsOne'
  BY <1>1 DEF Spawn, NewFuture, Op
<1>2. ASSUME NEW f \in Fut, VmCancel(t, f)
      PROVE  AwaitsOne'
  BY <1>2 DEF VmCancel, Op, Pending
<1>3. ASSUME NEW S \in SUBSET Fut, StartAwait(t, S)
      PROVE  AwaitsOne'
  <2>1. IsFiniteSet(S)
    BY FutFinite
  <2>2. Cardinality(S) = 1 => \E f \in Fut : S = {f}
    BY <2>1, FS_Singleton
  <2>. QED
    BY <1>3, <2>2 DEF StartAwait, Op
<1>4. CASE \/ CheckAwait(t, "check", "parked", "ready")
           \/ CheckAwait(t, "checkAny", "parkedAny", "readyAny")
  BY <1>4 DEF CheckAwait, TakeDeferred
<1>5. CASE LeaveQueue(t)
  BY <1>5 DEF LeaveQueue
<1>6. CASE FireCancel(t)
  BY <1>6 DEF FireCancel
<1>7. CASE VmFireUserToken(t)
  BY <1>7 DEF VmFireUserToken, Op
<1>8. CASE StartSysOp(t)
  BY <1>8 DEF StartSysOp, Op
<1>9. CASE Throw(t)
  BY <1>9 DEF Throw, Unwind
<1>10. CASE Complete(t)
  BY <1>10 DEF Complete, FulfillFuture, SettleTo, Settleable, Pending
<1>11. CASE VmInternalError(t)
  BY <1>11 DEF VmInternalError, InternalErrorFuture, SettleTo, Settleable, Pending
<1>12. CASE ExecAwait(t)
  BY <1>12 DEF ExecAwait, Unwind
<1>13. CASE ExecAwaitAny(t)
  BY <1>13 DEF ExecAwaitAny
<1>14. CASE WakeAwait(t)
  BY <1>14 DEF WakeAwait, Woken
<1>15. CASE WakeAwaitAny(t)
  BY <1>15 DEF WakeAwaitAny, Woken
<1>16. CASE WakeSysOp(t)
  BY <1>16 DEF WakeSysOp
<1>17. CASE Consume(t)
  BY <1>17 DEF Consume
<1>18. CASE Drain(t)
  BY <1>18 DEF Drain, TakeDeferred
<1>19. CASE Drained(t)
  BY <1>19 DEF Drained
<1>20. CASE SettleCancelled(t)
  BY <1>20 DEF SettleCancelled, CancelFuture, SettleTo, Settleable, Pending
<1>21. CASE SettleErrored(t)
  BY <1>21 DEF SettleErrored, DeferError, SettleTo, Settleable, Pending
<1>22. CASE Cascade(t)
  BY <1>22 DEF Cascade
<1>23. CASE NotifyParent(t)
  BY <1>23 DEF NotifyParent
<1>24. CASE CascadeInternal(t)
  BY <1>24 DEF CascadeInternal
<1>. QED
  BY <1>1, <1>2, <1>3, <1>4, <1>5, <1>6, <1>7, <1>8, <1>9, <1>10, <1>11, <1>12, <1>13, <1>14, <1>15, <1>16, <1>17, <1>18, <1>19, <1>20, <1>21, <1>22, <1>23, <1>24 DEF Step

\* The steps that are not a task's own lose no error either.
LEMMA NextEInv == EInv /\ [Next]_vars => EInv'
<1> SUFFICES ASSUME EInv, [Next]_vars PROVE EInv'
  OBVIOUS
<1>1. IInv'
  BY NextTypeOK, NextRegistry DEF EInv, IInv
<1>2. AwaitsOne' /\ AllDelivered'
  <2> USE Numbers DEF EInv, IInv, TypeOK, AwaitsOne, AllDelivered, Delivered, Goto, fm
  <2>1. ASSUME NEW t \in Task, Step(t)
        PROVE  AwaitsOne' /\ AllDelivered'
    BY <2>1, StepAwaitsOne, StepDelivers
  <2>2. ASSUME NEW t \in Task, SysOpReturns(t) \/ Admitted(t)
        PROVE  AwaitsOne' /\ AllDelivered'
    BY <2>2 DEF SysOpReturns, Admitted
  <2>3. CASE UNCHANGED <<fm, errq, home, pc, aw>>
    BY <2>3
  <2>. QED
    BY <2>1, <2>2, <2>3 DEF Next, Watcher, HostCancel, vars
<1>. QED
  BY <1>1, <1>2 DEF EInv

\* While the task that an error is addressed to still runs and awaits, the
\* error is on its way to that task, in its queue, or about to be read by it.
THEOREM ErrorsDelivered == Spec => []NoErrorLost
<1>1. Init => EInv
  BY InitTypeOK, InitRegistry, Numbers DEF Init, EInv, IInv, AwaitsOne, AllDelivered
<1>2. EInv => NoErrorLost
  BY DEF EInv, AllDelivered, Delivered, NoErrorLost, Ended
<1>. QED
  BY <1>1, <1>2, NextEInv, PTL DEF Spec
=============================================================================
