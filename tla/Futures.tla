------------------------------ MODULE Futures -------------------------------
(***************************************************************************)
(* One engine call: a root task and the tasks it spawns, the futures they  *)
(* settle, the FutureManager's registry, the cancellation-token tree and   *)
(* the fire-and-forget error queues (bex_engine lib.rs, future.rs,         *)
(* thread.rs; bex_vm_types Future).                                        *)
(*                                                                         *)
(* Task 0 is the root; task f > 0 is the body that settles future f, so a  *)
(* future and its producer share a number.  A critical section of the      *)
(* FutureManager's mutex contains no await and is one step here; a step of *)
(* the VM that touches a future without the mutex (f.cancel, reading an    *)
(* awaited future) is a step of its own.  Heap permits and garbage         *)
(* collection, between the steps, are the subject of HeapPermits.          *)
(***************************************************************************)
EXTENDS Naturals, FiniteSets

CONSTANTS
    N,          \* how many futures the call may spawn
    MaxOps,     \* how many VM operations each task may perform
    Ops,        \* which optional operations the programs of this model use
    Holds       \* <<t, f>> \in Holds: task t may come to hold future f

AllOps == {"detach", "link", "group", "fcancel", "await", "any", "sysop",
           "throw", "internal", "hostcancel"}

ASSUME NAssumption == N \in Nat
ASSUME OpsAssumption == MaxOps \in Nat /\ Ops \subseteq AllOps

Root == 0
Task == 0..N
Fut  == 1..N

ASSUME HoldsAssumption == Holds \subseteq Task \X Fut

VARIABLES
    next,       \* FutureManagerInner.next_future_id
    heap,       \* Future.state of each heap future
    wake,       \* Future.ready: the SetOnce every awaiter clones
    active,     \* FutureManagerInner.active_futures
    deferred,   \* FutureManagerInner.deferred_errors
    anc,        \* the tokens whose firing cancels this task's token
    fired,      \* the tasks whose own token was fired
    linked,     \* the live watchers of the user's CancelToken
    userFired,  \* the user's CancelToken has fired
    errq,       \* BexThread.pending_child_errors of each task
    home,       \* the owner of BexThread.parent_pending_errors
    pc,         \* where each task is in run_thread_event_loop
    aw,         \* the futures a task awaits, or is cancelling
    ops         \* operations a task has left

fm     == <<next, heap, wake, active, deferred>>
tokens == <<anc, fired, linked, userFired>>
vars   == <<next, heap, wake, active, deferred, anc, fired, linked,
            userFired, errq, home, pc, aw, ops>>

Terminal == {"Ready", "Error", "Cancelled", "InternalError"}

Goto(t, p) == pc' = [pc EXCEPT ![t] = p]

IsCancelled(t) == anc[t] \cap fired # {}

Init ==
    /\ next = 1
    /\ heap = [f \in Fut |-> "Unborn"]
    /\ wake = [f \in Fut |-> "unset"]
    /\ active = {}
    /\ deferred = {}
    /\ anc = [t \in Task |-> IF t = Root THEN {Root} ELSE {}]
    /\ fired = {}
    /\ linked = {}
    /\ userFired = FALSE
    /\ errq = [t \in Task |-> {}]
    /\ home = [f \in Fut |-> Root]
    /\ pc = [t \in Task |-> IF t = Root THEN "vm" ELSE "unborn"]
    /\ aw = [t \in Task |-> {}]
    /\ ops = [t \in Task |-> MaxOps]

-----------------------------------------------------------------------------
(* The FutureManager: each operator is the body of one critical section.   *)

Pending(f)    == heap[f] = "Pending"
Settleable(f) == f \in active /\ Pending(f)

\* The future is registered and the CAS Pending -> s wins: it then fires the
\* wake signal with w.
SettleTo(f, s, w) ==
    IF Settleable(f)
    THEN /\ heap' = [heap EXCEPT ![f] = s]
         /\ wake' = [wake EXCEPT ![f] = w]
    ELSE UNCHANGED <<heap, wake>>

\* fulfill_future: take_pending drops the entry whether or not f.cancel won.
FulfillFuture(f) ==
    /\ SettleTo(f, "Ready", "ok")
    /\ active' = active \ {f}
    /\ UNCHANGED <<next, deferred>>

\* cancel_future: as above, and settle_cancelled fires the future's token.
CancelFuture(f) ==
    /\ SettleTo(f, "Cancelled", "ok")
    /\ active' = active \ {f}
    /\ UNCHANGED <<next, deferred>>

\* Plausible bugs, each a variant of the definition that follows it, show that
\* the properties notice them.
\* Bug: the error is parked although f.cancel won the CAS.
DeferErrorAlways(f) ==
    /\ SettleTo(f, "ErrorPending", "ok")
    /\ deferred' = deferred \union {f}
    /\ UNCHANGED <<next, active>>

\* Bug: the entry is dropped, as the other settling helpers do.
DeferErrorUnrooted(f) ==
    /\ SettleTo(f, "ErrorPending", "ok")
    /\ deferred' = deferred \union (IF Settleable(f) THEN {f} ELSE {})
    /\ active' = active \ {f}
    /\ UNCHANGED next

\* defer_error: park the error; a future settled meanwhile keeps its state,
\* and its entry.
DeferError(f) ==
    /\ SettleTo(f, "ErrorPending", "ok")
    /\ deferred' = deferred \union (IF Settleable(f) THEN {f} ELSE {})
    /\ UNCHANGED <<next, active>>

\* Bug: the engine error does not reach the wake signal.
InternalErrorFutureOk(f) ==
    /\ SettleTo(f, "InternalError", "ok")
    /\ UNCHANGED <<next, active, deferred>>

\* internal_error_future: the entry stays, as a GC root.
InternalErrorFuture(f) ==
    /\ SettleTo(f, "InternalError", "err")
    /\ UNCHANGED <<next, active, deferred>>

\* Bug: settles the future without looking for a parked error.
TakeDeferredUnchecked(S) ==
    /\ deferred' = deferred \ S
    /\ active'   = active \ S
    /\ heap'     = [f \in Fut |-> IF f \in S /\ heap[f] # "Unborn"
                                  THEN "Error" ELSE heap[f]]
    /\ UNCHANGED <<next, wake>>

\* take_deferred_error for every f in S: ErrorPending -> Error, entry dropped.
TakeDeferred(S) ==
    LET taken == S \cap deferred IN
    /\ deferred' = deferred \ taken
    /\ active'   = active \ taken
    /\ heap'     = [f \in Fut |-> IF f \in taken THEN "Error" ELSE heap[f]]
    /\ UNCHANGED <<next, wake>>

\* new_future: a fresh id, a Pending heap object and its registry entry.
NewFuture ==
    /\ heap'   = [heap EXCEPT ![next] = "Pending"]
    /\ active' = active \union {next}
    /\ next'   = next + 1
    /\ UNCHANGED <<wake, deferred>>

-----------------------------------------------------------------------------
(* The VM of task t runs until it yields.                                  *)

\* The next instruction of t is an operation of kind o.
Op(t, o) ==
    /\ o \in Ops \union {"spawn"}
    /\ pc[t] = "vm"
    /\ ops[t] > 0
    /\ ops' = [ops EXCEPT ![t] = @ - 1]

\* Bug: the child's token is linked to its spawner's alone.
ShallowChildToken(t, detach) == IF detach THEN {} ELSE {t}

\* The ancestors of a child's token: cancel.child_token(), or a fresh token.
ChildToken(t, detach) == IF detach THEN {} ELSE anc[t]

\* VmExecState::Spawn and spawn_thread: the child's token is a child of t's
\* token, or fresh when detached; detached errors go to the root's queue; a
\* child in a TaskGroup first waits for its slot (see TaskGroup.tla).
Spawn(t, detach, link, group) ==
    /\ Op(t, "spawn")
    /\ detach => "detach" \in Ops
    /\ link => "link" \in Ops
    /\ group => "group" \in Ops
    /\ next \in Fut
    /\ NewFuture
    /\ anc' = [anc EXCEPT ![next] = {next} \union ChildToken(t, detach)]
    /\ home' = [home EXCEPT ![next] = IF detach THEN Root ELSE t]
    /\ linked' = IF link THEN linked \union {next} ELSE linked
    /\ Goto(next, IF group THEN "queued" ELSE "vm")
    /\ UNCHANGED <<fired, userFired, errq, aw>>

\* TaskGroupTicket::acquire grants the slot, or sees the cancellation.
Admitted(f) ==
    /\ pc[f] = "queued"
    /\ Goto(f, "vm")
    /\ UNCHANGED <<fm, tokens, errq, home, aw, ops>>

LeaveQueue(f) ==
    /\ pc[f] = "queued"
    /\ IsCancelled(f)
    /\ Goto(f, "cancelling")
    /\ UNCHANGED <<fm, tokens, errq, home, aw, ops>>

\* f.cancel() in BAML: the heap CAS, without the FutureManager's mutex, ...
VmCancel(t, f) ==
    /\ Op(t, "fcancel")
    /\ <<t, f>> \in Holds /\ f < next
    /\ IF Pending(f)
       THEN /\ heap' = [heap EXCEPT ![f] = "Cancelled"]
            /\ aw' = [aw EXCEPT ![t] = {f}]
            /\ Goto(t, "firing")
       ELSE UNCHANGED <<heap, aw, pc>>
    /\ UNCHANGED <<next, wake, active, deferred, tokens, errq, home>>

\* Bug: f.cancel() fires only the token.
FireCancelQuietly(t) ==
    /\ pc[t] = "firing"
    /\ fired' = fired \union aw[t]
    /\ Goto(t, "vm")
    /\ UNCHANGED <<fm, anc, linked, userFired, errq, home, aw, ops>>

\* ... and then, when it won, the future's token and its wake signal.
FireCancel(t) ==
    /\ pc[t] = "firing"
    /\ fired' = fired \union aw[t]
    /\ wake' = [f \in Fut |-> IF f \in aw[t] THEN "ok" ELSE wake[f]]
    /\ Goto(t, "vm")
    /\ UNCHANGED <<next, heap, active, deferred, anc, linked, userFired, errq,
                   home, aw, ops>>

\* token.cancel() on the CancelToken that linked spawns were given.
VmFireUserToken(t) ==
    /\ Op(t, "link")
    /\ ~userFired
    /\ userFired' = TRUE
    /\ UNCHANGED <<fm, anc, fired, linked, errq, home, pc, aw>>

\* t reaches an Await, or an AwaitAny, of futures it holds.
StartAwait(t, S) ==
    /\ S # {} /\ \A f \in S : <<t, f>> \in Holds /\ f < next
    /\ \/ Op(t, "await") /\ Cardinality(S) = 1 /\ Goto(t, "exec")
       \/ Op(t, "any") /\ Goto(t, "execAny")
    /\ aw' = [aw EXCEPT ![t] = S]
    /\ UNCHANGED <<fm, tokens, errq, home>>

\* The throw of an awaited future, or of the body itself, is caught or not.
\* An uncaught one ends the task: route_unhandled_vm_throw.  A panic is the
\* Cancelled panic of an awaited future.
Unwind(t, panic) ==
    IF t = Root THEN Goto(t, "aborted")
    ELSE IF IsCancelled(t) /\ panic THEN Goto(t, "cancelling")
    ELSE Goto(t, "erring")

\* OpCode::Await: continue with the value, throw, or yield to the engine.
ExecAwait(t) ==
    /\ pc[t] = "exec"
    /\ \E f \in aw[t] :
          \/ /\ heap[f] \in {"Ready", "Error", "Cancelled"}
             /\ Goto(t, "vm")
          \/ /\ heap[f] \in {"Error", "Cancelled"}
             /\ Unwind(t, heap[f] = "Cancelled")
          \/ /\ heap[f] \in {"Pending", "ErrorPending", "InternalError"}
             /\ Goto(t, "check")
    /\ UNCHANGED <<fm, tokens, errq, home, aw, ops>>

\* OpCode::AwaitAny: the first future that is not Pending wins.
ExecAwaitAny(t) ==
    /\ pc[t] = "execAny"
    /\ Goto(t, IF \E f \in aw[t] : ~Pending(f) THEN "vm" ELSE "checkAny")
    /\ UNCHANGED <<fm, tokens, errq, home, aw, ops>>

\* VmExecState::SysOp: a system operation that does not answer at once.
StartSysOp(t) ==
    /\ Op(t, "sysop")
    /\ Goto(t, IF IsCancelled(t) THEN "cancelling" ELSE "sysop")
    /\ UNCHANGED <<fm, tokens, errq, home, aw>>

\* The body throws, or rethrows a panic it caught, and nothing in it catches.
Throw(t) ==
    /\ "throw" \in Ops
    /\ pc[t] = "vm"
    /\ \E panic \in BOOLEAN : Unwind(t, panic)
    /\ UNCHANGED <<fm, tokens, errq, home, aw, ops>>

\* The body returns: a child fulfils its future (its token is not fired); at
\* the root a cancellation that raced with the return wins.
Complete(t) ==
    /\ pc[t] = "vm"
    /\ IF t = Root
       THEN /\ Goto(t, IF IsCancelled(t) THEN "aborted" ELSE "done")
            /\ UNCHANGED fm
       ELSE FulfillFuture(t) /\ Goto(t, "done")
    /\ UNCHANGED <<tokens, errq, home, aw, ops>>

\* VmError::InternalError, unless f.cancel settled the future before
\* internal_error_future's check: then that fails, and the loop returns without
\* firing the token.  A cancellation between the check and the CAS only makes
\* the CAS lose.
VmInternalError(t) ==
    /\ "internal" \in Ops
    /\ pc[t] = "vm"
    /\ \/ /\ t \in Fut => ~Settleable(t)
          /\ Goto(t, "aborted")
          /\ UNCHANGED fm
       \/ /\ t \in active
          /\ InternalErrorFuture(t)
          /\ Goto(t, "internal")
    /\ UNCHANGED <<tokens, errq, home, aw, ops>>

\* The arm has dropped the manager's guard, and cancels the descendants.
CascadeInternal(f) ==
    /\ pc[f] = "internal"
    /\ fired' = fired \union {f}
    /\ Goto(f, "done")
    /\ UNCHANGED <<fm, anc, linked, userFired, errq, home, aw, ops>>

-----------------------------------------------------------------------------
(* The engine's arms of run_thread_event_loop.                             *)

\* The arm's cancellation check, then future_ready on every awaited future: a
\* waiter on its SetOnce, or one that is ready if the entry has been dropped.
CheckAwait(t, from, parked, ready) ==
    /\ pc[t] = from
    /\ IF IsCancelled(t)
       THEN Goto(t, "cancelling") /\ UNCHANGED fm
       ELSE /\ TakeDeferred(aw[t])
            /\ Goto(t, IF aw[t] \subseteq active' THEN parked ELSE ready)
    /\ UNCHANGED <<tokens, errq, home, aw, ops>>

\* One of t's waiters is done.  An internal error leaves the loop at once,
\* without settling t's future.
Woken(t, ready, to) ==
    \/ pc[t] = ready /\ Goto(t, to)
    \/ \E f \in aw[t] :
          /\ wake[f] # "unset"
          /\ Goto(t, IF wake[f] = "err" THEN "aborted" ELSE to)

\* Bug: the wait is not raced against the task's own token.
WakeAwaitUncancelled(t) ==
    /\ pc[t] \in {"parked", "ready"}
    /\ Woken(t, "ready", "resumed")
    /\ UNCHANGED <<fm, tokens, errq, home, aw, ops>>

\* The biased select of the Await arm: cancellation first, then the waiter.
WakeAwait(t) ==
    /\ pc[t] \in {"parked", "ready"}
    /\ \/ IsCancelled(t) /\ Goto(t, "cancelling")
       \/ ~IsCancelled(t) /\ Woken(t, "ready", "resumed")
    /\ UNCHANGED <<fm, tokens, errq, home, aw, ops>>

\* The same for AwaitAny, which resumes the VM without draining.
WakeAwaitAny(t) ==
    /\ pc[t] \in {"parkedAny", "readyAny"}
    /\ \/ IsCancelled(t) /\ Goto(t, "cancelling")
       \/ ~IsCancelled(t) /\ Woken(t, "readyAny", "execAny")
    /\ UNCHANGED <<fm, tokens, errq, home, aw, ops>>

\* The biased select of the SysOp arm: cancellation first, ...
WakeSysOp(t) ==
    /\ pc[t] = "sysop"
    /\ IsCancelled(t) /\ Goto(t, "cancelling")
    /\ UNCHANGED <<fm, tokens, errq, home, aw, ops>>

\* ... then the answer: the body goes on with a value, or with an error that it
\* catches or not (Throw), or the engine cannot convert the value.
SysOpReturns(t) ==
    /\ pc[t] = "sysop"
    /\ ~IsCancelled(t)
    /\ \/ Goto(t, "vm")
       \/ "internal" \in Ops /\ Goto(t, "aborted")
    /\ UNCHANGED <<fm, tokens, errq, home, aw, ops>>

\* After the wait: vm_thread_consume_pending_child_error_for.
Consume(t) ==
    /\ pc[t] = "resumed"
    /\ errq' = [errq EXCEPT ![t] = @ \ aw[t]]
    /\ Goto(t, "draining")
    /\ UNCHANGED <<fm, tokens, home, aw, ops>>

\* drain_one_pending_child_error, one entry per step: an entry whose error an
\* awaiter took is skipped, any other ends t with that error.
Drain(t) ==
    /\ pc[t] = "draining"
    /\ \E f \in errq[t] :
          /\ errq' = [errq EXCEPT ![t] = @ \ {f}]
          /\ TakeDeferred({f})
          /\ Goto(t, CASE f \notin deferred -> "draining"
                       [] f \in deferred /\ t = Root -> "aborted"
                       [] OTHER -> "erring")
    /\ UNCHANGED <<tokens, home, aw, ops>>

Drained(t) ==
    /\ pc[t] = "draining"
    /\ errq[t] = {}
    /\ Goto(t, "exec")
    /\ UNCHANGED <<fm, tokens, errq, home, aw, ops>>

\* The cancelled arms: settle_child_cancelled, or the root's Cancelled error.
SettleCancelled(t) ==
    /\ pc[t] = "cancelling"
    /\ IF t = Root
       THEN Goto(t, "aborted") /\ UNCHANGED <<fm, fired>>
       ELSE /\ CancelFuture(t)
            /\ fired' = fired \union {t}
            /\ Goto(t, "done")
    /\ UNCHANGED <<anc, linked, userFired, errq, home, aw, ops>>

\* Bug: a failed task ends without telling its parent.
NotifyNobody(f) ==
    /\ pc[f] = "notify"
    /\ Goto(f, "done")
    /\ UNCHANGED <<fm, tokens, errq, home, aw, ops>>

\* settle_child_errored: park the error, cancel the descendants, and queue
\* the future (its entry is still there) at the parent, in this order and not
\* atomically.
SettleErrored(f) ==
    /\ pc[f] = "erring"
    /\ DeferError(f)
    /\ Goto(f, "cascade")
    /\ UNCHANGED <<tokens, errq, home, aw, ops>>

Cascade(f) ==
    /\ pc[f] = "cascade"
    /\ fired' = fired \union {f}
    /\ Goto(f, "notify")
    /\ UNCHANGED <<fm, anc, linked, userFired, errq, home, aw, ops>>

NotifyParent(f) ==
    /\ pc[f] = "notify"
    /\ errq' = [errq EXCEPT ![home[f]] = @ \union {f}]
    /\ Goto(f, "done")
    /\ UNCHANGED <<fm, tokens, home, aw, ops>>

\* The watcher of a linked spawn, and the host cancelling the call.
Watcher(f) ==
    /\ f \in linked
    /\ \/ userFired /\ fired' = fired \union {f}
       \/ ~userFired /\ IsCancelled(f) /\ UNCHANGED fired
    /\ linked' = linked \ {f}
    /\ UNCHANGED <<fm, anc, userFired, errq, home, pc, aw, ops>>

HostCancel ==
    /\ "hostcancel" \in Ops
    /\ Root \notin fired
    /\ fired' = fired \union {Root}
    /\ UNCHANGED <<fm, anc, linked, userFired, errq, home, pc, aw, ops>>

-----------------------------------------------------------------------------
Step(t) ==
    \/ \E d, l, g \in BOOLEAN : Spawn(t, d, l, g)
    \/ LeaveQueue(t)
    \/ \E f \in Fut : VmCancel(t, f)
    \/ FireCancel(t)
    \/ VmFireUserToken(t)
    \/ \E S \in SUBSET Fut : StartAwait(t, S)
    \/ StartSysOp(t)
    \/ Throw(t)
    \/ Complete(t)
    \/ VmInternalError(t)
    \/ CascadeInternal(t)
    \/ ExecAwait(t)
    \/ ExecAwaitAny(t)
    \/ CheckAwait(t, "check", "parked", "ready")
    \/ CheckAwait(t, "checkAny", "parkedAny", "readyAny")
    \/ WakeAwait(t)
    \/ WakeAwaitAny(t)
    \/ WakeSysOp(t)
    \/ Consume(t)
    \/ Drain(t)
    \/ Drained(t)
    \/ SettleCancelled(t)
    \/ SettleErrored(t)
    \/ Cascade(t)
    \/ NotifyParent(t)

Next ==
    \/ \E t \in Task : Step(t)
    \/ \E t \in Task : SysOpReturns(t) \/ Admitted(t)
    \/ \E f \in Fut : Watcher(f)
    \/ HostCancel

Spec == Init /\ [][Next]_vars

\* tokio polls every task that is ready, and the body of a task is a program
\* that does not run forever between two yields (MaxOps bounds it).  Nothing
\* obliges a system operation to answer or a TaskGroup to grant a slot.
FairSpec ==
    /\ Spec
    /\ \A t \in Task : WF_vars(Step(t))
    /\ \A f \in Fut : WF_vars(Watcher(f))

-----------------------------------------------------------------------------
(* Correctness.                                                            *)

States == {"Unborn", "Pending", "ErrorPending"} \union Terminal

Pcs == {"unborn", "queued", "vm", "firing", "exec", "execAny", "check",
        "checkAny", "parked", "parkedAny", "ready", "readyAny", "resumed",
        "draining", "sysop", "cancelling", "erring", "cascade", "notify",
        "internal", "done", "aborted"}

Ended(t) == pc[t] \in {"done", "aborted"}

\* The shape of the state; a future is unborn exactly when its task is.
TypeOK ==
    /\ next \in 1..(N + 1)
    /\ heap \in [Fut -> States]
    /\ wake \in [Fut -> {"unset", "ok", "err"}]
    /\ active \subseteq Fut
    /\ deferred \subseteq Fut
    /\ anc \in [Task -> SUBSET Task]
    /\ fired \subseteq Task
    /\ linked \subseteq Fut
    /\ userFired \in BOOLEAN
    /\ errq \in [Task -> SUBSET Fut]
    /\ home \in [Fut -> Task]
    /\ pc \in [Task -> Pcs]
    /\ aw \in [Task -> SUBSET Fut]
    /\ ops \in [Task -> 0..MaxOps]
    /\ \A f \in Fut : (heap[f] = "Unborn" <=> f >= next)
                    /\ (pc[f] = "unborn" <=> f >= next)

\* A parked error exists exactly while its future reads as ErrorPending, so
\* an awaiter that is sent back to the engine always finds it (no livelock).
StashMatchesHeap ==
    deferred = {f \in Fut : heap[f] = "ErrorPending"}

\* A future that someone may still settle, or whose error is still to be
\* told, is a GC root of the FutureManager.
UnsettledIsRooted ==
    \A f \in Fut :
        heap[f] \in {"Pending", "ErrorPending", "InternalError"}
            => f \in active

\* No wake-up is lost and none is premature: the wake signal is set exactly
\* when the future has left Pending (or an f.cancel is about to set it), and
\* carries an error exactly when the future is an InternalError.
BeingCancelled(f) == \E t \in Task : pc[t] = "firing" /\ f \in aw[t]

WakeMatchesHeap ==
    \A f \in Fut :
        /\ wake[f] = "unset" <=>
                heap[f] \in {"Unborn", "Pending"} \/ BeingCancelled(f)
        /\ wake[f] = "err"   <=> heap[f] = "InternalError"

\* While the task that an error is addressed to still runs, the error is on
\* its way to that task's queue, in the queue, or about to be read by that
\* task's own await of the future.
NoErrorLost ==
    \A f \in deferred :
        \/ pc[f] \in {"cascade", "notify"}
        \/ f \in errq[home[f]]
        \/ /\ f \in aw[home[f]]
           /\ pc[home[f]] \in {"draining", "exec", "check"}
        \/ Ended(home[f])
        \/ pc[home[f]] \in {"cancelling", "erring", "cascade", "notify", "internal"}

\* Structured concurrency: once a task has failed or was cancelled, every
\* task spawned below it (and not detached) is cancelled too, including
\* those spawned while the failure was being reported.  (A future reads as
\* failed a step before its token fires: while its body has settled it and not
\* yet fired, or a canceller has won and not yet fired.)
Failed(f) == /\ heap[f] \in {"Error", "ErrorPending", "Cancelled",
                              "InternalError"}
             /\ pc[f] \notin {"cascade", "internal"} /\ ~BeingCancelled(f)

FailureCascades ==
    /\ \A f \in Fut : Failed(f) => IsCancelled(f)
    /\ \A t, u \in Task : t \in anc[u] /\ IsCancelled(t) => IsCancelled(u)

\* Every future keeps the promise of FutureContract.
Outcome ==
    [f \in Fut |-> CASE heap[f] = "Unborn" -> "none"
                     [] heap[f] = "Pending" -> "open"
                     [] heap[f] = "Ready" -> "value"
                     [] heap[f] \in {"Error", "ErrorPending"} -> "failed"
                     [] heap[f] = "Cancelled" -> "cancelled"
                     [] OTHER -> "internal"]

Claimed == {f \in Fut : heap[f] = "Error"}

Contract == INSTANCE FutureContract WITH outcome <- Outcome,
                                         claimed <- Claimed

KeepsContract == Contract!CSpec

\* A task whose token fires stops, whatever it waits for: a system operation
\* that never answers, a cycle of awaits, a future nobody will settle.
CancelledTaskEnds ==
    \A t \in Task : (pc[t] # "unborn" /\ IsCancelled(t)) ~> Ended(t)

\* t waits for what only others can bring: a group's slot, the answer of a
\* system operation, or futures of tasks that are blocked too (a cycle).
Blocked(t) ==
    \E S \in SUBSET Task :
        /\ t \in S
        /\ \A u \in S :
              \/ pc[u] \in {"queued", "sysop"}
              \/ /\ pc[u] \in {"parked", "parkedAny"}
                 /\ \A f \in aw[u] : wake[f] = "unset" /\ f \in S

\* Where no engine error occurs every future settles, or its task is blocked:
\* whatever throws, is cancelled or is awaited by several tasks, no wake-up is
\* missed and no task waits for a future that nobody will settle.
EveryFutureSettles ==
    \A f \in Fut : Pending(f) ~> ~Pending(f) \/ Blocked(f)

(* What comments and assertions of the source say, and the code does not do *)

\* "the error is never silently dropped": a task that an internal error ends
\* leaves no future that its awaiters wait for forever.
InternalErrorReported ==
    \A f \in Fut : Ended(f) => heap[f] # "Pending"

\* "the entry for the future we are awaiting must not be drained here".
AwaitedErrorNotDrained ==
    [][\A t \in Task, f \in Fut :
          /\ pc[t] = "draining" /\ pc'[t] \in {"erring", "aborted"}
          /\ f \in aw[t] /\ f \in deferred
          => f \in deferred']_vars
=============================================================================
