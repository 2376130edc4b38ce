----------------------------- MODULE TaskGroup ------------------------------
(***************************************************************************)
(* Rate limiting of spawns: the admission state behind a                   *)
(* baml.spawn.TaskGroup value (bex_vm_types/src/task_group.rs), the ticket *)
(* a spawn registers and the permit its body holds while it runs.          *)
(*                                                                         *)
(* Members are numbered by registration (State.next_id).  One step is one  *)
(* critical section of the state mutex, or the poll of one branch of a     *)
(* ticket's select, which looks at its token first and then at its channel.*)
(***************************************************************************)
EXTENDS Integers, Sequences, SequencesExt, FiniteSets

CONSTANTS
    M,          \* how many members may register
    Limits,     \* the limits a program gives the group
    MaxResize   \* how often it changes the limit

ASSUME MAssumption == M \in Nat /\ Limits \subseteq Nat /\ Limits # {}
                      /\ MaxResize \in Nat

Member == 1..M

VARIABLES
    limit, active, waiters,   \* State.limit, .active, .waiters
    members,    \* State.members: "absent", "parked" (grant present), "active"
    nextId,     \* State.next_id
    rx,         \* a ticket's channel: "none", "open", "sent", "closed"
    cancelled,  \* members whose cancel token has fired
    toFire,     \* tokens group.cancel has collected and not yet fired
    pc,         \* each member's body task
    resizes     \* changes of the limit so far

vars == <<limit, active, waiters, members, nextId, rx, cancelled, toFire, pc,
          resizes>>

Init ==
    /\ limit \in Limits
    /\ active = 0
    /\ waiters = <<>>
    /\ members = [m \in Member |-> "absent"]
    /\ nextId = 1
    /\ rx = [m \in Member |-> "none"]
    /\ cancelled = {}
    /\ toFire = {}
    /\ pc = [m \in Member |-> "unborn"]
    /\ resizes = 0

Goto(m, p) == pc' = [pc EXCEPT ![m] = p]

Elements(q) == {q[i] : i \in DOMAIN q}

\* promote, called with the lock held on a state whose limit, active count,
\* queue and members are lim, act, ws, ms.  It pops k waiters: as many as it
\* takes to use up the capacity, or all.  One whose receiver is gone is removed
\* and takes no slot.
Promote(lim, act, ws, ms) ==
    LET Popped(i)  == {ws[j] : j \in 1..i}
        Granted(i) == {m \in Popped(i) : rx[m] = "open"}
        Stops(i)   == act + Cardinality(Granted(i)) >= lim \/ i = Len(ws)
    IN \E k \in 0..Len(ws) :
       /\ Stops(k) /\ \A i \in 0..(k - 1) : ~Stops(i)
       /\ limit' = lim
       /\ active' = act + Cardinality(Granted(k))
       /\ waiters' = SubSeq(ws, k + 1, Len(ws))
       /\ members' = [m \in Member |->
                        IF m \notin Popped(k) THEN ms[m]
                        ELSE IF m \in Granted(k) THEN "active" ELSE "absent"]
       /\ rx' = [m \in Member |-> IF m \in Granted(k) THEN "sent" ELSE rx[m]]

-----------------------------------------------------------------------------
\* Bug: the group is full only once it is over its limit.
HasSlotLoosely == active <= limit

HasSlot == active < limit

\* Bug: a newcomer joins the front of the queue.
PushFront(m) == <<m>> \o waiters

PushBack(m) == Append(waiters, m)

\* Bug: a member that leaves stays in the queue.
StayQueued(m) == waiters

\* The queue holds a member once.
Unqueue(m) ==
    IF m \in Elements(waiters)
    THEN RemoveAt(waiters, CHOOSE i \in DOMAIN waiters : waiters[i] = m)
    ELSE waiters

Without(m) == [members EXCEPT ![m] = "absent"]

\* register, called by the spawner before the body task is first polled.
Register ==
    LET m == nextId IN
    /\ m \in Member
    /\ nextId' = nextId + 1
    /\ IF HasSlot
       THEN /\ active' = active + 1
            /\ members' = [members EXCEPT ![m] = "active"]
            /\ Goto(m, "admitted")
            /\ UNCHANGED <<waiters, rx>>
       ELSE /\ members' = [members EXCEPT ![m] = "parked"]
            /\ waiters' = PushBack(m)
            /\ rx' = [rx EXCEPT ![m] = "open"]
            /\ Goto(m, "parked")
            /\ UNCHANGED active
    /\ UNCHANGED <<limit, cancelled, toFire, resizes>>

\* Bug: raising the limit admits nobody.
SetLimitOnly(l) ==
    /\ resizes < MaxResize /\ l \in Limits
    /\ resizes' = resizes + 1
    /\ limit' = l
    /\ UNCHANGED <<active, waiters, members, nextId, rx, cancelled, toFire, pc>>

\* set_limit
SetLimit(l) ==
    /\ resizes < MaxResize /\ l \in Limits
    /\ resizes' = resizes + 1
    /\ Promote(l, active, waiters, members)
    /\ UNCHANGED <<nextId, cancelled, toFire, pc>>

\* cancel(pending, active): the tokens are collected under the lock and fired
\* one by one after it is released.
Cancel(pending, running) ==
    /\ toFire = {}
    /\ toFire' = {m \in Member : \/ members[m] = "active" /\ running
                                 \/ members[m] = "parked" /\ pending}
    /\ UNCHANGED <<limit, active, waiters, members, nextId, rx, cancelled, pc,
                   resizes>>

Fire(m) ==
    /\ m \in toFire
    /\ toFire' = toFire \ {m}
    /\ cancelled' = cancelled \union {m}
    /\ UNCHANGED <<limit, active, waiters, members, nextId, rx, pc, resizes>>

\* The member's token fires for another reason: its parent, f.cancel() or a
\* linked CancelToken.
CancelledFromOutside(m) ==
    /\ m < nextId /\ m \notin cancelled
    /\ cancelled' = cancelled \union {m}
    /\ UNCHANGED <<limit, active, waiters, members, nextId, rx, toFire, pc,
                   resizes>>

\* TaskGroupTicket::acquire of a member admitted at registration.
AcquireAdmitted(m) ==
    /\ pc[m] = "admitted"
    /\ Goto(m, "running")
    /\ UNCHANGED <<limit, active, waiters, members, nextId, rx, cancelled,
                   toFire, resizes>>

\* The biased select of acquire polls the cancel token first.  It has not
\* fired, and the select goes on to the channel: ...
PollToken(m) ==
    /\ pc[m] = "parked"
    /\ m \notin cancelled
    /\ Goto(m, "polled")
    /\ UNCHANGED <<limit, active, waiters, members, nextId, rx, cancelled,
                   toFire, resizes>>

\* Bug: the select is not biased, and may poll the channel first.
AcquireUnbiased(m) ==
    /\ pc[m] \in {"parked", "polled"}
    /\ rx[m] = "sent"
    /\ Goto(m, "running")
    /\ UNCHANGED <<limit, active, waiters, members, nextId, rx, cancelled,
                   toFire, resizes>>

\* ... a grant admits the member, a token that fired meanwhile or not, ...
AcquireGranted(m) ==
    /\ pc[m] = "polled"
    /\ rx[m] = "sent"
    /\ Goto(m, "running")
    /\ UNCHANGED <<limit, active, waiters, members, nextId, rx, cancelled,
                   toFire, resizes>>

\* ... and without one the poll ends: the task sleeps until either wakes it.
PollPending(m) ==
    /\ pc[m] = "polled"
    /\ rx[m] # "sent"
    /\ Goto(m, "parked")
    /\ UNCHANGED <<limit, active, waiters, members, nextId, rx, cancelled,
                   toFire, resizes>>

\* A poll finds that the token has fired: the select drops the receiver, and
\* its handler has not taken the lock yet.  A grant already in the channel stays in members.
AcquireCancelled(m) ==
    /\ pc[m] = "parked"
    /\ m \in cancelled
    /\ rx' = [rx EXCEPT ![m] = IF @ = "open" THEN "closed" ELSE @]
    /\ Goto(m, "leaving")
    /\ UNCHANGED <<limit, active, waiters, members, nextId, cancelled, toFire,
                   resizes>>

\* Bug: leaving always gives a slot back, held or not.
CancelParkedFrees(m) ==
    /\ pc[m] = "leaving"
    /\ Goto(m, "gone")
    /\ Promote(limit, active - 1, Unqueue(m), Without(m))
    /\ UNCHANGED <<nextId, cancelled, toFire, resizes>>

\* cancel_parked: return a slot that was granted, or leave the queue.  A member
\* that promote has removed already is in neither.
CancelParked(m) ==
    /\ pc[m] = "leaving"
    /\ Goto(m, "gone")
    /\ IF members[m] = "active"
       THEN Promote(limit, active - 1, waiters, Without(m))
       ELSE /\ members' = Without(m)
            /\ waiters' = Unqueue(m)
            /\ UNCHANGED <<limit, active, rx>>
    /\ UNCHANGED <<nextId, cancelled, toFire, resizes>>

\* Bug: the slot is freed and nobody is woken.
ReleaseQuietly(m) ==
    /\ pc[m] = "running"
    /\ Goto(m, "done")
    /\ members' = Without(m)
    /\ active' = active - 1
    /\ UNCHANGED <<limit, waiters, rx, nextId, cancelled, toFire, resizes>>

\* The body ends and its TaskGroupPermit is dropped.
Release(m) ==
    /\ pc[m] = "running"
    /\ Goto(m, "done")
    /\ Promote(limit, IF members[m] = "active" THEN active - 1 ELSE active,
               waiters, Without(m))
    /\ UNCHANGED <<nextId, cancelled, toFire, resizes>>

-----------------------------------------------------------------------------
Next ==
    \/ Register
    \/ \E l \in Limits : SetLimit(l)
    \/ \E p, a \in BOOLEAN : Cancel(p, a)
    \/ \E m \in Member : \/ Fire(m)
                         \/ CancelledFromOutside(m)
                         \/ AcquireAdmitted(m)
                         \/ PollToken(m)
                         \/ AcquireGranted(m)
                         \/ PollPending(m)
                         \/ AcquireCancelled(m)
                         \/ CancelParked(m)
                         \/ Release(m)

Spec == Init /\ [][Next]_vars

\* A body task that is ready is polled, and a running body ends.
FairSpec ==
    /\ Spec
    /\ \A m \in Member : WF_vars(\/ AcquireAdmitted(m) \/ PollToken(m)
                                 \/ AcquireGranted(m) \/ PollPending(m)
                                 \/ AcquireCancelled(m) \/ CancelParked(m)
                                 \/ Release(m))

-----------------------------------------------------------------------------
(* Correctness.                                                            *)

\* The shape of the state; the count of slots in use never goes below zero.
TypeOK ==
    /\ limit \in Limits
    /\ active \in 0..M
    /\ waiters \in Seq(Member)
    /\ members \in [Member -> {"absent", "parked", "active"}]
    /\ nextId \in 1..(M + 1)
    /\ rx \in [Member -> {"none", "open", "sent", "closed"}]
    /\ cancelled \subseteq Member
    /\ toFire \subseteq Member
    /\ pc \in [Member -> {"unborn", "admitted", "parked", "polled",
                          "running", "leaving", "done", "gone"}]
    /\ resizes \in 0..MaxResize

\* Tasks that hold, or were handed and will use or return, a slot.
SlotHolders ==
    {m \in Member : \/ pc[m] \in {"admitted", "running"}
                    \/ pc[m] \in {"parked", "polled", "leaving"} /\ rx[m] = "sent"}

\* Every slot counted in State.active belongs to a task that runs, is about to
\* run or is about to give it back: none leaks when a grant races a
\* cancellation, and none is given twice.
SlotsAccounted ==
    /\ active = Cardinality(SlotHolders)
    /\ \A m \in Member : members[m] = "active" <=> m \in SlotHolders

\* The queue is work-conserving: nobody waits while a slot is free, except on
\* behalf of the group's own lock.
NoIdleSlot == active < limit => waiters = <<>>

\* The queue holds exactly the members that still wait, each once; a parked
\* ticket is in the queue or has its grant, so its channel is never dropped.
QueueIsParked ==
    /\ IsInjective(waiters)
    /\ Elements(waiters) =
            {m \in Member : members[m] = "parked"}
    /\ \A m \in Member : pc[m] \in {"parked", "polled"} =>
            members[m] = IF rx[m] = "sent" THEN "active" ELSE "parked"

\* Nobody overtakes: when a parked member is admitted, every member that
\* registered earlier has been admitted too or has left.
AdmitsInOrder ==
    [][\A m, n \in Member :
          /\ m < n
          /\ members[m] = "parked" /\ members[n] = "parked"
          /\ members'[n] = "active"
          => members'[m] # "parked"]_vars

\* The group never exceeds its limit by an admission; only lowering the limit
\* leaves more members running than it allows.
AdmitsWithinLimit ==
    [][active' > active => active' <= limit']_vars

\* A member that was cancelled before its select is polled never runs its body,
\* not even when a slot was granted to it before that poll: it leaves and gives
\* the slot back.  (A token that fires between the two looks of one poll, with
\* a grant, comes too late for the select; the body starts with its token
\* fired.)
CancelledWaiterLeaves ==
    \A m \in Member : (pc[m] = "parked" /\ m \in cancelled) ~> pc[m] = "gone"

\* When bodies end, every waiter gets its turn, unless the group is paused.
WaiterServed ==
    \A m \in Member : pc[m] = "parked"
                        ~> pc[m] \in {"running", "gone"} \/ limit = 0
=============================================================================
