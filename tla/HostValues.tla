------------------------------ MODULE HostValues -----------------------------
(***************************************************************************)
(* Values that live in the host language (bex_resource_types/src/          *)
(* host_value.rs).  The host keeps an object under a key; the runtime      *)
(* keeps reference-counted stubs for the key, found again through a        *)
(* process-wide interner of weak references.  The drop of the last clone   *)
(* of a stub queues its key, and a drain tells the host to release the     *)
(* keys that no live stub has.  One lock guards the interner; the step of  *)
(* a thread below is what it does between two points where others can run. *)
(***************************************************************************)
EXTENDS Integers, Sequences

CONSTANTS
    Key,            \* keys of host objects
    Stub,           \* allocations of HostValueArc
    Thread,         \* threads of the process
    NoStub,
    MaxClones,      \* bound: clones of one stub
    MaxQueue        \* bound: no key is decoded while so many are queued

ASSUME StubAssumption == NoStub \notin Stub
ASSUME KeyAssumption == Key # {}

VARIABLES
    host,           \* the host's registry: has the key an entry?
    wire,           \* who knows the key: only its registrant, the runtime,
                    \* or also the host because it came back to it
    keyOf,          \* HostValueArc.key
    clones,         \* strong references held by values and heap objects
    interner,       \* INTERNER: the stub that a key's Weak refers to
    queue,          \* PENDING_RELEASES
    at,             \* what each thread does
    reborn          \* history: keys decoded too late, when a drain had them
                    \* condemned or the host had released them

hvars == <<host, wire, keyOf, clones, interner, queue, at, reborn>>

Idle == [in |-> "idle"]

Elements(seq) == {seq[i] : i \in 1..Len(seq)}

\* The clone that Weak::upgrade makes under the lock, to ask whether it can.
Upgraded(t) ==
    IF at[t].in \in {"drop.locked", "drain.locked"} THEN at[t].temp ELSE NoStub

Live(s) == clones[s] > 0 \/ \E t \in Thread : Upgraded(t) = s

\* A Weak keeps the allocation, so that no other stub gets its address.
Unallocated(s) ==
    /\ ~Live(s)
    /\ \A k \in Key : interner[k] # s
    /\ \A t \in Thread : at[t].in \in {"drop", "stuck"} => at[t].stub # s

\* Who holds the interner's lock.
Locks(t) == at[t].in \in {"drop.locked", "drain.locked", "stuck"}
LockFree == \A t \in Thread : ~Locks(t)

\* A drain has decided to release the key and has not done so yet.
Condemned(k) == \E t \in Thread : at[t].in = "release" /\ k \in at[t].keys

HostInit ==
    /\ host = [k \in Key |-> "unused"]
    /\ wire = [k \in Key |-> "registrant"]
    /\ keyOf = [s \in Stub |-> CHOOSE k \in Key : TRUE]
    /\ clones = [s \in Stub |-> 0]
    /\ interner = [k \in Key |-> NoStub]
    /\ queue = << >>
    /\ at = [t \in Thread |-> Idle]
    /\ reborn = {}

-----------------------------------------------------------------------------
\* The bridge's registry in the host (external to the runtime).

RegisterObject(k) ==
    /\ host[k] = "unused"
    /\ host' = [host EXCEPT ![k] = "entry"]
    /\ UNCHANGED <<wire, keyOf, clones, interner, queue, at, reborn>>

\* The encoder could not encode a later argument: the key is never sent.
Rollback(k) ==
    /\ host[k] = "entry"
    /\ wire[k] = "registrant"
    /\ host' = [host EXCEPT ![k] = "released"]
    /\ UNCHANGED <<wire, keyOf, clones, interner, queue, at, reborn>>

\* A value with the key is encoded for the host, which may send it again at any
\* time from then on: nobody tells it when the key is no longer good.
HandBack(k) ==
    /\ wire[k] = "runtime"
    /\ \E s \in Stub : clones[s] > 0 /\ keyOf[s] = k
    /\ wire' = [wire EXCEPT ![k] = "both"]
    /\ UNCHANGED <<host, keyOf, clones, interner, queue, at, reborn>>

-----------------------------------------------------------------------------
\* Stubs.

Known(k) == interner[k] # NoStub /\ Live(interner[k])

\* Bug: every decode makes a stub of its own.
InternAlwaysNew(k) ==
    \E s \in Stub :
        /\ Unallocated(s)
        /\ keyOf' = [keyOf EXCEPT ![s] = k]
        /\ clones' = [clones EXCEPT ![s] = 1]
        /\ interner' = [interner EXCEPT ![k] = s]

Intern(k) ==
    \/ /\ Known(k)
       /\ clones[interner[k]] < MaxClones
       /\ clones' = [clones EXCEPT ![interner[k]] = @ + 1]
       /\ UNCHANGED <<keyOf, interner>>
    \/ /\ ~Known(k)
       /\ \E s \in Stub :
            /\ Unallocated(s)
            /\ keyOf' = [keyOf EXCEPT ![s] = k]
            /\ clones' = [clones EXCEPT ![s] = 1]
            /\ interner' = [interner EXCEPT ![k] = s]

\* The host has the key: it has registered the object and not sent the key yet,
\* or the key came back to it, maybe long ago.
HasKey(k) ==
    \/ wire[k] = "registrant" /\ host[k] = "entry"
    \/ wire[k] = "both"

\* A value from the host is decoded: an argument or an answer.  Nothing asks
\* whether the host still has the object, then or later.
Decode(t, k) ==
    /\ at[t] = Idle /\ LockFree
    /\ Len(queue) < MaxQueue
    /\ HasKey(k)
    /\ wire' = [wire EXCEPT ![k] = IF @ = "registrant" THEN "runtime" ELSE @]
    /\ Intern(k)
    /\ reborn' = IF Condemned(k) \/ host[k] = "released"
                 THEN reborn \union {k} ELSE reborn
    /\ UNCHANGED <<host, queue, at>>

Clone(s) ==
    /\ clones[s] \in 1..(MaxClones - 1)
    /\ clones' = [clones EXCEPT ![s] = @ + 1]
    /\ UNCHANGED <<host, wire, keyOf, interner, queue, at, reborn>>

\* A thread, the collector's included, drops a clone; if no other strong
\* reference is left it goes on with the drop of the stub.
DropClone(t, s) ==
    /\ at[t] = Idle
    /\ clones[s] > 0
    /\ clones' = [clones EXCEPT ![s] = @ - 1]
    /\ at' = IF clones[s] = 1 /\ \A u \in Thread : Upgraded(u) # s
             THEN [at EXCEPT ![t] = [in |-> "drop", stub |-> s]]
             ELSE at
    /\ UNCHANGED <<host, wire, keyOf, interner, queue, reborn>>

\* Bug: the entry of the key is removed, whoever it refers to.
DropEvicts(t) ==
    /\ at[t].in = "drop" /\ LockFree
    /\ LET k == keyOf[at[t].stub] IN
       /\ interner' = [interner EXCEPT ![k] = NoStub]
       /\ at' = [at EXCEPT ![t] = [in |-> "enqueue", key |-> k]]
    /\ UNCHANGED <<host, wire, keyOf, clones, queue, reborn>>

\* HostValueArc::drop locks the interner and removes the key's entry unless
\* it refers to a newer stub; to know, it upgrades the entry.
DropLocks(t) ==
    /\ at[t].in = "drop" /\ LockFree
    /\ LET k == keyOf[at[t].stub] IN
       \/ /\ ~Known(k)
          /\ interner' = [interner EXCEPT ![k] = NoStub]
          /\ at' = [at EXCEPT ![t] = [in |-> "enqueue", key |-> k]]
       \/ /\ Known(k)
          /\ at' = [at EXCEPT ![t] = [in |-> "drop.locked", key |-> k,
                                      temp |-> interner[k]]]
          /\ UNCHANGED interner
    /\ UNCHANGED <<host, wire, keyOf, clones, queue, reborn>>

\* The upgraded clone is dropped, still under the lock.  If the others went
\* meanwhile it was the last: the drop of the stub locks the interner again.
DropUnlocks(t) ==
    /\ at[t].in = "drop.locked"
    /\ at' = [at EXCEPT ![t] =
                IF clones[at[t].temp] = 0
                THEN [in |-> "stuck", stub |-> at[t].temp, keys |-> {at[t].key}]
                ELSE [in |-> "enqueue", key |-> at[t].key]]
    /\ UNCHANGED <<host, wire, keyOf, clones, interner, queue, reborn>>

\* host_release_dispatch::fire
Enqueue(t) ==
    /\ at[t].in = "enqueue"
    /\ queue' = Append(queue, at[t].key)
    /\ at' = [at EXCEPT ![t] = Idle]
    /\ UNCHANGED <<host, wire, keyOf, clones, interner, reborn>>

-----------------------------------------------------------------------------
\* host_release_dispatch::drain, at a safepoint.

DrainTakes(t) ==
    /\ at[t] = Idle
    /\ queue # << >>
    /\ queue' = << >>
    /\ at' = [at EXCEPT ![t] = [in |-> "drain", pending |-> queue]]
    /\ UNCHANGED <<host, wire, keyOf, clones, interner, reborn>>

\* A drain under the lock: the keys that it has still to look at, those it
\* has condemned, and the clone it has made.
Filtering(pending, keys, temp) ==
    [in |-> "drain.locked", pending |-> pending, keys |-> keys, temp |-> temp]

DrainLocks(t) ==
    /\ at[t].in = "drain" /\ LockFree
    /\ at' = [at EXCEPT ![t] = Filtering(at[t].pending, {}, NoStub)]
    /\ UNCHANGED <<host, wire, keyOf, clones, interner, queue, reborn>>

\* Bug: a key that was queued is released, alive again or not.
FilterNothing(t) ==
    /\ at[t].in = "drain.locked"
    /\ at[t].pending # << >>
    /\ LET pending == at[t].pending IN
       at' = [at EXCEPT ![t] =
                Filtering(Tail(pending), at[t].keys \union {Head(pending)}, NoStub)]
    /\ UNCHANGED <<host, wire, keyOf, clones, interner, queue, reborn>>

\* The next key is looked up: it is condemned, once, unless its stub can be
\* upgraded, which makes a clone.
Filter(t) ==
    /\ at[t].in = "drain.locked"
    /\ at[t].pending # << >>
    /\ at[t].temp = NoStub
    /\ LET pending == at[t].pending
           k == Head(pending)
       IN  at' = [at EXCEPT ![t] =
                    IF Known(k)
                    THEN Filtering(pending, at[t].keys, interner[k])
                    ELSE Filtering(Tail(pending), at[t].keys \union {k}, NoStub)]
    /\ UNCHANGED <<host, wire, keyOf, clones, interner, queue, reborn>>

\* The key is kept, and the clone dropped under the lock, as in DropUnlocks.
FilterKeeps(t) ==
    /\ at[t].in = "drain.locked"
    /\ at[t].temp # NoStub
    /\ LET pending == at[t].pending IN
       at' = [at EXCEPT ![t] =
                IF clones[at[t].temp] = 0
                THEN [in |-> "stuck", stub |-> at[t].temp,
                      keys |-> at[t].keys \union Elements(pending)]
                ELSE Filtering(Tail(pending), at[t].keys, NoStub)]
    /\ UNCHANGED <<host, wire, keyOf, clones, interner, queue, reborn>>

DrainUnlocks(t) ==
    /\ at[t].in = "drain.locked"
    /\ at[t].pending = << >>
    /\ at' = [at EXCEPT ![t] = [in |-> "release", keys |-> at[t].keys]]
    /\ UNCHANGED <<host, wire, keyOf, clones, interner, queue, reborn>>

\* The host's release callback, with no lock held.
Release(t, k) ==
    /\ at[t].in = "release"
    /\ k \in at[t].keys
    /\ host' = [host EXCEPT ![k] = "released"]
    /\ at' = [at EXCEPT ![t] = [in |-> "release", keys |-> at[t].keys \ {k}]]
    /\ UNCHANGED <<wire, keyOf, clones, interner, queue, reborn>>

\* Bug: the queue is cleared after the releases instead of before.
DrainClears(t) ==
    /\ at[t].in = "release"
    /\ at[t].keys = {}
    /\ queue' = << >>
    /\ at' = [at EXCEPT ![t] = Idle]
    /\ UNCHANGED <<host, wire, keyOf, clones, interner, reborn>>

DrainReturns(t) ==
    /\ at[t].in = "release"
    /\ at[t].keys = {}
    /\ at' = [at EXCEPT ![t] = Idle]
    /\ UNCHANGED <<host, wire, keyOf, clones, interner, queue, reborn>>

HostNext ==
    \/ \E k \in Key : RegisterObject(k) \/ Rollback(k) \/ HandBack(k)
    \/ \E s \in Stub : Clone(s)
    \/ \E t \in Thread :
        \/ \E k \in Key : Decode(t, k) \/ Release(t, k)
        \/ \E s \in Stub : DropClone(t, s)
        \/ DropLocks(t) \/ DropUnlocks(t) \/ Enqueue(t)
        \/ DrainTakes(t) \/ DrainLocks(t) \/ Filter(t) \/ FilterKeeps(t)
        \/ DrainUnlocks(t) \/ DrainReturns(t)

HostSpec == HostInit /\ [][HostNext]_hvars

-----------------------------------------------------------------------------
ThreadState ==
    {Idle}
        \union [in : {"drop"}, stub : Stub]
        \union [in : {"drop.locked"}, key : Key, temp : Stub]
        \union [in : {"enqueue"}, key : Key]
        \union [in : {"drain"}, pending : Seq(Key)]
        \union [in : {"drain.locked"}, pending : Seq(Key), keys : SUBSET Key,
                temp : Stub \union {NoStub}]
        \union [in : {"release"}, keys : SUBSET Key]
        \union [in : {"stuck"}, stub : Stub, keys : SUBSET Key]

HostTypeOK ==
    /\ host \in [Key -> {"unused", "entry", "released"}]
    /\ wire \in [Key -> {"registrant", "runtime", "both"}]
    /\ keyOf \in [Stub -> Key]
    /\ clones \in [Stub -> Nat]
    /\ interner \in [Key -> Stub \union {NoStub}]
    /\ queue \in Seq(Key)
    /\ at \in [Thread -> ThreadState]
    /\ reborn \subseteq Key

\* A key has one live stub, the one a decode of the key finds: two of them
\* would have counts of their own, and the first to go would have the host
\* release what the other refers to.
OneLiveStub == \A s \in Stub : Live(s) => interner[keyOf[s]] = s

\* A thread is on its way to have the key released, or to find it alive.
Carries(t, k) ==
    \/ at[t].in = "drop" /\ keyOf[at[t].stub] = k
    \/ at[t].in \in {"drop.locked", "enqueue"} /\ at[t].key = k
    \/ at[t].in \in {"drain", "drain.locked"}
       /\ k \in Elements(at[t].pending)
    \/ at[t].in \in {"drain.locked", "release", "stuck"} /\ k \in at[t].keys

\* A host object that the runtime was given and has no stub for any more is
\* still going to be released: no interleaving of drops, decodes and drains
\* leaves it in the host's registry for ever.
NoReleaseLost ==
    \A k \in Key :
        (host[k] = "entry" /\ wire[k] # "registrant" /\ ~Known(k)) =>
            \/ k \in Elements(queue)
            \/ \E t \in Thread : Carries(t, k)

\* The host keeps its object as long as there is a stub for it, unless the key
\* was decoded too late: sent again by a host that it had come back to, when the
\* release of the earlier stub was decided or carried out.
EntryOutlivesStub ==
    \A s \in Stub : Live(s) => (host[keyOf[s]] = "entry" \/ keyOf[s] \in reborn)

\* No stub is dropped by a thread that holds the interner's lock, which it
\* would wait for.
NeverStuck == \A t \in Thread : at[t].in # "stuck"
=============================================================================
