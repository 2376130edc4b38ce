-------------------------- MODULE HostBridge_proofs ---------------------------
(***************************************************************************)
(* Host values and host calls, for every number of keys, stubs, threads    *)
(* and calls and however few ids there are.                                *)
(***************************************************************************)
EXTENDS HostBridge, TLAPS

-----------------------------------------------------------------------------
\* The inductive invariant of the host values.

\* An entry of the interner refers to a stub of its key.
EntriesMatch == \A k \in Key : interner[k] # NoStub => keyOf[interner[k]] = k

\* A stub whose drop has begun has no clone and gets none.
DroppedIsDead ==
    \A t \in Thread : at[t].in \in {"drop", "stuck"} => ~Live(at[t].stub)

\* The clone that a thread has made under the lock is of the key's stub.
UpgradeMatches ==
    /\ \A t \in Thread : at[t].in = "drop.locked" => keyOf[at[t].temp] = at[t].key
    /\ \A t \in Thread : (at[t].in = "drain.locked" /\ at[t].temp # NoStub) =>
            at[t].pending # << >> /\ keyOf[at[t].temp] = Head(at[t].pending)

OneLock == \A t, u \in Thread : Locks(t) /\ Locks(u) => t = u

\* What a drain has condemned is dead as long as the drain has the lock, and
\* afterwards until the key is decoded again.
CondemnedIsDead ==
    /\ \A t \in Thread, k \in Key :
         (at[t].in = "drain.locked" /\ k \in at[t].keys) => ~Known(k)
    /\ \A k \in Key : Condemned(k) /\ k \notin reborn => ~Known(k)

\* A key is registered before it is sent, and sent before it has a stub.
SentFirst ==
    /\ \A k \in Key : host[k] = "unused" => wire[k] = "registrant"
    /\ \A s \in Stub : Live(s) => wire[keyOf[s]] # "registrant"

HostInv ==
    /\ HostTypeOK /\ OneLiveStub /\ EntriesMatch /\ DroppedIsDead
    /\ UpgradeMatches /\ OneLock /\ CondemnedIsDead /\ SentFirst
    /\ EntryOutlivesStub /\ NoReleaseLost

-----------------------------------------------------------------------------
\* The inductive invariant of the calls.

\* The entry of a call is there while the call is, and a cancellation that
\* comes before it is kept.
ActiveMatches ==
    \A c \in Call :
        /\ phase[c] \in {"starting", "running", "waiting"} => active[c] = "entered"
        /\ phase[c] = "new" => active[c] # "entered"
        /\ phase[c] = "new" /\ c \in asked => active[c] = "reserved"

\* Only a call that waits has a guard or an outcome.
OnlyWaitersHave == \A c \in Call : phase[c] # "waiting" => id[c] = 0 /\ result[c] = None

\* The id has been minted, if none was minted twice.  At 0 all of them were.
Used(i) == next = 0 \/ i < next

\* Until an id is minted a second time, each of them was minted for one call.
MintedOnce ==
    ~wrapped =>
        /\ \A i \in Id : table[i] # NoCall => Used(i)
        /\ \A i \in Id, c \in Call : <<i, c>> \in tasks =>
             /\ Used(i)
             /\ \A d \in Call : table[i] = HandleOf(d) => d = c

CallsInv ==
    /\ CallsTypeOK /\ CancelIsSeen /\ NoEntryLeaks /\ NobodyStranded
    /\ AnswersItsOwn /\ ActiveMatches /\ OnlyWaitersHave /\ MintedOnce

IInv == HostInv /\ CallsInv /\ callee \in [Call -> Key] /\ FindsCallable

USE StubAssumption, KeyAssumption, IdsAssumption

-----------------------------------------------------------------------------
(* Sequences.                                                              *)

\* What is in a queue to which a key is added, or whose head is taken.
LEMMA Members ==
    ASSUME NEW S, NEW q \in Seq(S)
    PROVE  /\ Elements(<< >>) = {}
           /\ \A x \in S : Append(q, x) \in Seq(S) /\ Elements(Append(q, x)) = Elements(q) \union {x}
           /\ q # << >> => /\ Head(q) \in S /\ Tail(q) \in Seq(S)
                           /\ Elements(q) = Elements(Tail(q)) \union {Head(q)}
<1>1. Elements(<< >>) = {}
  BY DEF Elements
<1>2. ASSUME NEW x \in S
      PROVE Append(q, x) \in Seq(S) /\ Elements(Append(q, x)) = Elements(q) \union {x}
  <2>1. Append(q, x) \in Seq(S) /\ Len(Append(q, x)) = Len(q) + 1
    OBVIOUS
  <2>2. \A i \in 1..Len(q) : Append(q, x)[i] = q[i]
    OBVIOUS
  <2>3. Append(q, x)[Len(q) + 1] = x
    OBVIOUS
  <2>4. 1..(Len(q) + 1) = 1..Len(q) \union {Len(q) + 1}
    OBVIOUS
  <2>5. QED
    BY <2>1, <2>2, <2>3, <2>4 DEF Elements
<1>3. ASSUME q # << >>
      PROVE  /\ Head(q) \in S /\ Tail(q) \in Seq(S)
             /\ Elements(q) = Elements(Tail(q)) \union {Head(q)}
  <2>1. Tail(q) \in Seq(S) /\ Len(Tail(q)) = Len(q) - 1 /\ Len(q) \in Nat \ {0}
    BY <1>3
  <2>2. \A i \in 1..Len(Tail(q)) : Tail(q)[i] = q[i + 1]
    BY <1>3
  <2>3. Head(q) = q[1]
    BY <1>3
  <2>4. ASSUME NEW i \in 1..Len(q)  PROVE i = 1 \/ (i - 1 \in 1..Len(Tail(q)) /\ q[i] = Tail(q)[i - 1])
    BY <2>1, <2>2
  <2>5. \A i \in 1..Len(Tail(q)) : i + 1 \in 1..Len(q) /\ q[i + 1] = Tail(q)[i]
    BY <2>1, <2>2
  <2>6. 1 \in 1..Len(q)
    BY <2>1
  <2>7. Elements(q) \subseteq Elements(Tail(q)) \union {Head(q)}
    BY <2>3, <2>4 DEF Elements
  <2>8. Elements(Tail(q)) \union {Head(q)} \subseteq Elements(q)
    BY <2>3, <2>5, <2>6 DEF Elements
  <2>9. QED
    BY <2>1, <2>3, <2>6, <2>7, <2>8
<1>4. QED
  BY <1>1, <1>2, <1>3

-----------------------------------------------------------------------------
(* Host values.                                                            *)

\* What the state of a thread has.
LEMMA Shapes ==
    ASSUME HostTypeOK, NEW t \in Thread
    PROVE  /\ at[t].in \in {"idle", "drop", "drop.locked", "enqueue", "drain",
                           "drain.locked", "release", "stuck"}
           /\ at[t].in = "idle" => at[t] = Idle
           /\ at[t].in \in {"drop", "stuck"} => at[t].stub \in Stub
           /\ at[t].in \in {"drop.locked", "enqueue"} => at[t].key \in Key
           /\ at[t].in = "drop.locked" => at[t].temp \in Stub
           /\ at[t].in \in {"drain", "drain.locked"} => at[t].pending \in Seq(Key)
           /\ at[t].in = "drain.locked" => at[t].temp \in Stub \union {NoStub}
           /\ at[t].in \in {"drain.locked", "release", "stuck"} => at[t].keys \subseteq Key
<1>1. at[t] \in ThreadState
  BY DEF HostTypeOK
<1>2. QED
  BY <1>1 DEF ThreadState, Idle

\* The states that a thread can be put in.
LEMMA States ==
    /\ Idle \in ThreadState
    /\ \A s \in Stub : [in |-> "drop", stub |-> s] \in ThreadState
    /\ \A k \in Key, s \in Stub :
         [in |-> "drop.locked", key |-> k, temp |-> s] \in ThreadState
    /\ \A k \in Key : [in |-> "enqueue", key |-> k] \in ThreadState
    /\ \A q \in Seq(Key) : [in |-> "drain", pending |-> q] \in ThreadState
    /\ \A q \in Seq(Key), K \in SUBSET Key, s \in Stub \union {NoStub} :
         Filtering(q, K, s) \in ThreadState
    /\ \A K \in SUBSET Key : [in |-> "release", keys |-> K] \in ThreadState
    /\ \A s \in Stub, K \in SUBSET Key :
         [in |-> "stuck", stub |-> s, keys |-> K] \in ThreadState
  BY DEF ThreadState, Filtering

\* The host registers an object: nothing refers to its key yet.
LEMMA RegisterObjectStep ==
    ASSUME HostInv, NEW k \in Key, RegisterObject(k)
    PROVE  HostInv'
<1> USE DEF HostInv
<1>1. HostTypeOK'
  BY DEF RegisterObject, HostTypeOK
<1>2. OneLiveStub'
  BY DEF RegisterObject, OneLiveStub, Live, Upgraded, HostTypeOK
<1>3. EntriesMatch'
  BY DEF RegisterObject, EntriesMatch, HostTypeOK
<1>4. DroppedIsDead'
  BY DEF RegisterObject, DroppedIsDead, Live, Upgraded, HostTypeOK
<1>5. UpgradeMatches'
  BY DEF RegisterObject, UpgradeMatches, HostTypeOK
<1>6. OneLock'
  BY DEF RegisterObject, OneLock, Locks, HostTypeOK
<1>7. CondemnedIsDead'
  BY DEF RegisterObject, CondemnedIsDead, Condemned, Known, Live, Upgraded, HostTypeOK
<1>8. SentFirst'
  BY DEF RegisterObject, SentFirst, Live, Upgraded, HostTypeOK
<1>9. EntryOutlivesStub'
  BY DEF RegisterObject, EntryOutlivesStub, Live, Upgraded, HostTypeOK
<1>10. NoReleaseLost'
  <2>1. \A k0 \in Key : Known(k0)' = Known(k0) /\ \A t \in Thread : Carries(t, k0)' = Carries(t, k0)
    BY DEF RegisterObject, Known, Live, Upgraded, Carries
  <2>2. QED
    BY <2>1 DEF RegisterObject, SentFirst, NoReleaseLost, HostTypeOK
<1>11. QED
  BY <1>1, <1>2, <1>3, <1>4, <1>5, <1>6, <1>7, <1>8, <1>9, <1>10

\* An unsent key is given up.
LEMMA RollbackStep ==
    ASSUME HostInv, NEW k \in Key, Rollback(k)
    PROVE  HostInv'
<1> USE DEF HostInv
<1>1. HostTypeOK'
  BY DEF Rollback, HostTypeOK
<1>2. OneLiveStub'
  BY DEF Rollback, OneLiveStub, Live, Upgraded, HostTypeOK
<1>3. EntriesMatch'
  BY DEF Rollback, EntriesMatch, HostTypeOK
<1>4. DroppedIsDead'
  BY DEF Rollback, DroppedIsDead, Live, Upgraded, HostTypeOK
<1>5. UpgradeMatches'
  BY DEF Rollback, UpgradeMatches, HostTypeOK
<1>6. OneLock'
  BY DEF Rollback, OneLock, Locks, HostTypeOK
<1>7. CondemnedIsDead'
  <2>1. \A k0 \in Key : Known(k0)' = Known(k0) /\ Condemned(k0)' = Condemned(k0)
    BY DEF Rollback, Known, Live, Upgraded, Condemned
  <2>2. QED
    BY <2>1 DEF Rollback, CondemnedIsDead
<1>8. SentFirst'
  BY DEF Rollback, SentFirst, Live, Upgraded, HostTypeOK
<1>9. EntryOutlivesStub'
  BY DEF Rollback, EntryOutlivesStub, SentFirst, Live, Upgraded, HostTypeOK
<1>10. NoReleaseLost'
  BY DEF Rollback, NoReleaseLost, Carries, Known, Live, Upgraded, HostTypeOK
<1>11. QED
  BY <1>1, <1>2, <1>3, <1>4, <1>5, <1>6, <1>7, <1>8, <1>9, <1>10

\* A key comes back to the host.
LEMMA HandBackStep ==
    ASSUME HostInv, NEW k \in Key, HandBack(k)
    PROVE  HostInv'
<1> USE DEF HostInv
<1>1. HostTypeOK'
  BY DEF HandBack, HostTypeOK
<1>2. OneLiveStub'
  BY DEF HandBack, OneLiveStub, Live, Upgraded, HostTypeOK
<1>3. EntriesMatch'
  BY DEF HandBack, EntriesMatch, HostTypeOK
<1>4. DroppedIsDead'
  BY DEF HandBack, DroppedIsDead, Live, Upgraded, HostTypeOK
<1>5. UpgradeMatches'
  BY DEF HandBack, UpgradeMatches, HostTypeOK
<1>6. OneLock'
  BY DEF HandBack, OneLock, Locks, HostTypeOK
<1>7. CondemnedIsDead'
  BY DEF HandBack, CondemnedIsDead, Condemned, Known, Live, Upgraded, HostTypeOK
<1>8. SentFirst'
  BY DEF HandBack, SentFirst, Live, Upgraded, HostTypeOK
<1>9. EntryOutlivesStub'
  BY DEF HandBack, EntryOutlivesStub, Live, Upgraded, HostTypeOK
<1>10. NoReleaseLost'
  BY DEF HandBack, NoReleaseLost, Carries, Known, Live, Upgraded, HostTypeOK
<1>11. QED
  BY <1>1, <1>2, <1>3, <1>4, <1>5, <1>6, <1>7, <1>8, <1>9, <1>10

\* A live stub is cloned.
LEMMA CloneStep ==
    ASSUME HostInv, NEW s \in Stub, Clone(s)
    PROVE  HostInv'
<1> USE DEF HostInv
<1>1. HostTypeOK'
  BY DEF Clone, HostTypeOK
<1>2. OneLiveStub'
  BY DEF Clone, OneLiveStub, Live, Upgraded, HostTypeOK
<1>3. EntriesMatch'
  BY DEF Clone, EntriesMatch, HostTypeOK
<1>4. DroppedIsDead'
  BY DEF Clone, DroppedIsDead, Live, Upgraded, HostTypeOK
<1>5. UpgradeMatches'
  <2>1. at' = at /\ keyOf' = keyOf
    BY DEF Clone
  <2>2. QED
    BY <2>1 DEF UpgradeMatches
<1>6. OneLock'
  BY DEF Clone, OneLock, Locks, HostTypeOK
<1>7. CondemnedIsDead'
  <2>1. \A k \in Key : Known(k)' = Known(k) /\ Condemned(k)' = Condemned(k)
    BY DEF Clone, Known, Live, Upgraded, Condemned, HostTypeOK
  <2>2. QED
    BY <2>1 DEF Clone, CondemnedIsDead
<1>8. SentFirst'
  BY DEF Clone, SentFirst, Live, Upgraded, HostTypeOK
<1>9. EntryOutlivesStub'
  BY DEF Clone, EntryOutlivesStub, Live, Upgraded, HostTypeOK
<1>10. NoReleaseLost'
  BY DEF Clone, NoReleaseLost, Carries, Known, Live, Upgraded, HostTypeOK
<1>11. QED
  BY <1>1, <1>2, <1>3, <1>4, <1>5, <1>6, <1>7, <1>8, <1>9, <1>10

\* A decode finds the live stub of the key, or makes one when there is none.
LEMMA DecodeStep ==
    ASSUME HostInv, NEW t \in Thread, NEW k \in Key, Decode(t, k)
    PROVE  HostInv'
<1> USE DEF HostInv
<1>1. \A u \in Thread : ~Locks(u) /\ Upgraded(u) = NoStub
  BY DEF Decode, LockFree, Locks, Upgraded
<1>2. /\ at' = at /\ host' = host /\ queue' = queue
      /\ wire' = [wire EXCEPT ![k] = IF @ = "registrant" THEN "runtime" ELSE @]
      /\ wire' \in [Key -> {"registrant", "runtime", "both"}] /\ wire'[k] # "registrant"
      /\ \A q \in Key : wire[q] # "registrant" => wire'[q] # "registrant"
      /\ \A q \in Key \ {k} : wire'[q] = wire[q]
  BY DEF Decode, HostTypeOK
<1>3. \A s \in Stub : Live(s) = (clones[s] > 0) /\ Live(s)' = (clones'[s] > 0)
  BY <1>1, <1>2 DEF Live, Upgraded
<1>4. /\ reborn' \subseteq Key /\ reborn \subseteq reborn' /\ reborn' \subseteq reborn \union {k}
      /\ Condemned(k) => k \in reborn'
      /\ host[k] # "unused" /\ (host[k] = "entry" \/ k \in reborn')
  <2>1. /\ reborn' = IF Condemned(k) \/ host[k] = "released"
                     THEN reborn \union {k} ELSE reborn
        /\ HasKey(k)
    BY DEF Decode
  <2>2. host[k] \in {"entry", "released"}
    BY <2>1 DEF HasKey, SentFirst, HostTypeOK
  <2>3. QED
    BY <2>1, <2>2 DEF HostTypeOK
<1>5. \A q \in Key : Condemned(q)' = Condemned(q)
  BY <1>2 DEF Condemned
<1>6. CASE Known(k)
  <2>1. /\ interner[k] \in Stub /\ clones' = [clones EXCEPT ![interner[k]] = @ + 1]
        /\ clones[interner[k]] > 0 /\ keyOf' = keyOf /\ interner' = interner
    BY <1>3, <1>6 DEF Decode, Intern, Known, HostTypeOK
  <2>2. \A s \in Stub : Live(s)' = Live(s)
    BY <1>3, <2>1 DEF HostTypeOK
  <2>3. \A q \in Key : Known(q)' = Known(q)
    BY <2>1, <2>2 DEF Known, HostTypeOK
  <2>4. HostTypeOK' /\ EntriesMatch'
    BY <1>2, <1>4, <2>1 DEF HostTypeOK, EntriesMatch
  <2>5. OneLiveStub' /\ DroppedIsDead' /\ UpgradeMatches' /\ OneLock'
    BY <1>2, <2>1, <2>2, Shapes
    DEF OneLiveStub, DroppedIsDead, UpgradeMatches, OneLock, Locks
  <2>6. CondemnedIsDead'
    BY <1>2, <1>4, <1>5, <2>3 DEF CondemnedIsDead
  <2>7. SentFirst' /\ EntryOutlivesStub'
    BY <1>2, <1>4, <2>1, <2>2 DEF SentFirst, EntryOutlivesStub, HostTypeOK
  <2>8. \A q \in Key : \A u \in Thread : Carries(u, q)' = Carries(u, q)
    BY <1>2, <2>1 DEF Carries
  <2>9. NoReleaseLost'
    BY <1>2, <1>6, <2>3, <2>8 DEF NoReleaseLost
  <2>10. QED
    BY <2>4, <2>5, <2>6, <2>7, <2>9
<1>7. CASE ~Known(k)
  <2>1. PICK s0 \in Stub :
          /\ Unallocated(s0)
          /\ keyOf' = [keyOf EXCEPT ![s0] = k]
          /\ clones' = [clones EXCEPT ![s0] = 1]
          /\ interner' = [interner EXCEPT ![k] = s0]
    BY <1>7 DEF Decode, Intern
  <2>2. /\ ~Live(s0) /\ \A q \in Key : interner[q] # s0
        /\ \A u \in Thread : at[u].in \in {"drop", "stuck"} => at[u].stub # s0
    BY <2>1 DEF Unallocated
  <2>3. HostTypeOK'
    BY <1>2, <1>4, <2>1 DEF HostTypeOK
  <2>4. /\ Live(s0)' /\ keyOf'[s0] = k /\ interner'[k] = s0
        /\ \A s \in Stub \ {s0} : Live(s)' = Live(s) /\ keyOf'[s] = keyOf[s]
        /\ \A q \in Key \ {k} : interner'[q] = interner[q]
    <3>1. /\ clones'[s0] = 1 /\ keyOf'[s0] = k /\ interner'[k] = s0
          /\ \A s \in Stub \ {s0} : clones'[s] = clones[s] /\ keyOf'[s] = keyOf[s]
          /\ \A q \in Key \ {k} : interner'[q] = interner[q]
      BY <2>1 DEF HostTypeOK
    <3>2. Live(s0)'
      BY <3>1 DEF Live
    <3>3. \A s \in Stub \ {s0} : Live(s)' = Live(s)
      BY <1>3, <3>1
    <3>4. QED
      BY <3>1, <3>2, <3>3
  <2>5. \A q \in Key \ {k} : Known(q)' = Known(q)
    BY <2>2, <2>4 DEF Known, HostTypeOK
  <2>6. Known(k)'
    BY <2>4 DEF Known
  <2>7. \A s \in Stub : Live(s) => keyOf[s] # k
    BY <1>7 DEF OneLiveStub, Known
  <2>8. OneLiveStub' /\ EntriesMatch'
    <3>1. ASSUME NEW s \in Stub, Live(s)'
          PROVE  interner'[keyOf'[s]] = s
      <4>1. CASE s = s0
        BY <2>4, <4>1
      <4>2. CASE s # s0
        <5>1. Live(s) /\ keyOf'[s] = keyOf[s] /\ keyOf[s] \in Key \ {k}
          BY <2>4, <2>7, <3>1, <4>2 DEF HostTypeOK
        <5>2. QED
          BY <2>4, <5>1 DEF OneLiveStub
      <4>3. QED
        BY <4>1, <4>2
    <3>2. ASSUME NEW q \in Key, interner'[q] # NoStub
          PROVE  keyOf'[interner'[q]] = q
      BY <2>2, <2>4, <3>2 DEF EntriesMatch, HostTypeOK
    <3>3. QED
      BY <3>1, <3>2 DEF OneLiveStub, EntriesMatch
  <2>9. DroppedIsDead' /\ UpgradeMatches' /\ OneLock'
    BY <1>1, <1>2, <2>2, <2>4, Shapes DEF DroppedIsDead, UpgradeMatches, OneLock, Locks
  <2>10. CondemnedIsDead'
    BY <1>1, <1>2, <1>4, <1>5, <2>5 DEF CondemnedIsDead, Locks
  <2>11. SentFirst' /\ EntryOutlivesStub'
    <3>1. ASSUME NEW s \in Stub, Live(s)'
          PROVE  \/ keyOf'[s] = k
                 \/ s # s0 /\ Live(s) /\ keyOf'[s] = keyOf[s] /\ keyOf[s] \in Key
      BY <2>4, <3>1 DEF HostTypeOK
    <3>2. SentFirst'
      BY <1>2, <1>4, <3>1 DEF SentFirst
    <3>3. EntryOutlivesStub'
      BY <1>2, <1>4, <3>1 DEF EntryOutlivesStub
    <3>4. QED
      BY <3>2, <3>3
  <2>12. \A q \in Key : \A u \in Thread : Carries(u, q)' = Carries(u, q)
    BY <1>2, <2>2, <2>4, Shapes DEF Carries
  <2>13. NoReleaseLost'
    BY <1>2, <2>5, <2>6, <2>12 DEF NoReleaseLost
  <2>14. QED
    BY <2>3, <2>8, <2>9, <2>10, <2>11, <2>13
<1>8. QED
  BY <1>6, <1>7

\* A drain releases a key that it has condemned.
LEMMA ReleaseStep ==
    ASSUME HostInv, NEW t \in Thread, NEW k \in Key, Release(t, k)
    PROVE  HostInv'
<1> USE DEF HostInv
<1>1. HostTypeOK'
  BY Shapes, States DEF Release, HostTypeOK
<1>2. OneLiveStub'
  BY DEF Release, OneLiveStub, Live, Upgraded, HostTypeOK
<1>3. EntriesMatch'
  BY DEF Release, EntriesMatch, HostTypeOK
<1>4. DroppedIsDead'
  BY DEF Release, DroppedIsDead, Live, Upgraded, HostTypeOK
<1>5. UpgradeMatches'
  BY DEF Release, UpgradeMatches, HostTypeOK
<1>6. OneLock'
  BY DEF Release, OneLock, Locks, HostTypeOK
<1>7. CondemnedIsDead'
  BY DEF Release, CondemnedIsDead, Condemned, Known, Live, Upgraded, HostTypeOK
<1>8. SentFirst'
  BY DEF Release, SentFirst, Live, Upgraded, HostTypeOK
<1>9. EntryOutlivesStub'
  BY Shapes
  DEF Release, EntryOutlivesStub, SentFirst, OneLiveStub, CondemnedIsDead, Known,
      Condemned, Live, Upgraded, HostTypeOK
<1>10. NoReleaseLost'
  <2> SUFFICES ASSUME NEW k0 \in Key, host'[k0] = "entry", wire'[k0] # "registrant", ~Known(k0)'
               PROVE  k0 \in Elements(queue') \/ \E u \in Thread : Carries(u, k0)'
    BY DEF NoReleaseLost
  <2>1. \A u \in Thread \ {t} : Carries(u, k0) => Carries(u, k0)'
    BY Shapes DEF Release, Carries, HostTypeOK
  <2>2. Known(k0)' = Known(k0) /\ k0 # k /\ host[k0] = "entry"
    BY DEF Release, Known, Live, Upgraded, HostTypeOK
  <2>3. Carries(t, k0) => Carries(t, k0)'
    BY <2>2 DEF Release, Carries, HostTypeOK
  <2>4. QED
    BY <2>1, <2>2, <2>3 DEF Release, NoReleaseLost
<1>11. QED
  BY <1>1, <1>2, <1>3, <1>4, <1>5, <1>6, <1>7, <1>8, <1>9, <1>10

\* The last clone takes the thread on to the drop of the stub, which carries the key.
LEMMA DropCloneStep ==
    ASSUME HostInv, NEW t \in Thread, NEW s \in Stub, DropClone(t, s)
    PROVE  HostInv'
<1> USE DEF HostInv
<1>1. HostTypeOK'
  BY States DEF DropClone, HostTypeOK
<1>2. OneLiveStub'
  BY DEF DropClone, OneLiveStub, Live, Upgraded, Idle, HostTypeOK
<1>3. EntriesMatch'
  BY DEF DropClone, EntriesMatch, Idle, HostTypeOK
<1>4. DroppedIsDead'
  BY DEF DropClone, DroppedIsDead, Live, Upgraded, Idle, HostTypeOK
<1>5. UpgradeMatches'
  BY DEF DropClone, UpgradeMatches, Idle, HostTypeOK
<1>6. OneLock'
  BY DEF DropClone, OneLock, Locks, Idle, HostTypeOK
<1>7. CondemnedIsDead'
  BY DEF DropClone, CondemnedIsDead, Condemned, Known, Live, Upgraded, Idle, HostTypeOK
<1>8. SentFirst'
  BY DEF DropClone, SentFirst, Live, Upgraded, Idle, HostTypeOK
<1>9. EntryOutlivesStub'
  BY DEF DropClone, EntryOutlivesStub, Live, Upgraded, Idle, HostTypeOK
<1>10. NoReleaseLost'
  <2> SUFFICES ASSUME NEW k0 \in Key, host'[k0] = "entry", wire'[k0] # "registrant", ~Known(k0)'
               PROVE  k0 \in Elements(queue') \/ \E u \in Thread : Carries(u, k0)'
    BY DEF NoReleaseLost
  <2>1. \A u \in Thread \ {t} : Carries(u, k0) => Carries(u, k0)'
    BY Shapes DEF DropClone, Carries, HostTypeOK
  <2>2. ~Carries(t, k0)
    BY DEF DropClone, Carries, Idle
  <2>3. CASE Known(k0)
    <3>1. s = interner[k0] /\ clones[s] = 1 /\ \A u \in Thread : Upgraded(u) # s
      BY <2>3, Shapes DEF DropClone, Known, Live, Upgraded, HostTypeOK, Idle
    <3>2. Carries(t, k0)'
      BY <2>3, <3>1 DEF DropClone, Carries, Known, EntriesMatch, HostTypeOK
    <3>3. QED
      BY <3>2
  <2>4. CASE ~Known(k0)
    BY <2>1, <2>2, <2>4 DEF DropClone, NoReleaseLost
  <2>5. QED
    BY <2>3, <2>4
<1>11. QED
  BY <1>1, <1>2, <1>3, <1>4, <1>5, <1>6, <1>7, <1>8, <1>9, <1>10

\* The drop of a stub removes its own entry or finds a newer one.
LEMMA DropLocksStep ==
    ASSUME HostInv, NEW t \in Thread, DropLocks(t)
    PROVE  HostInv'
<1> USE DEF HostInv
<1> DEFINE s0 == at[t].stub
           k == keyOf[s0]
<1>1. /\ s0 \in Stub /\ k \in Key /\ ~Live(s0)
      /\ \A u \in Thread : ~Locks(u) /\ Upgraded(u) = NoStub
      /\ host' = host /\ wire' = wire /\ keyOf' = keyOf /\ clones' = clones
      /\ queue' = queue /\ reborn' = reborn
  BY Shapes DEF DropLocks, LockFree, Locks, Upgraded, DroppedIsDead, HostTypeOK
<1>2. CASE ~Known(k)
  <2>1. /\ interner' = [interner EXCEPT ![k] = NoStub]
        /\ at' = [at EXCEPT ![t] = [in |-> "enqueue", key |-> k]]
    BY <1>2 DEF DropLocks, Known
  <2>2. HostTypeOK'
    BY <1>1, <2>1, States DEF HostTypeOK
  <2>3. /\ at'[t] = [in |-> "enqueue", key |-> k]
        /\ \A u \in Thread \ {t} : at'[u] = at[u]
        /\ interner'[k] = NoStub /\ \A q \in Key \ {k} : interner'[q] = interner[q]
    BY <1>1, <2>1 DEF HostTypeOK
  <2>4. \A s \in Stub : Live(s)' = Live(s)
    BY <1>1, <2>3 DEF Live, Upgraded
  <2>5. \A q \in Key : Known(q)' = Known(q)
    BY <1>2, <2>3, <2>4 DEF Known, HostTypeOK
  <2>6. \A s \in Stub : Live(s) => keyOf[s] # k
    BY <1>2, StubAssumption DEF OneLiveStub, Known
  <2>7. OneLiveStub' /\ EntriesMatch' /\ SentFirst' /\ EntryOutlivesStub'
    BY <1>1, <2>3, <2>4, <2>6
    DEF OneLiveStub, EntriesMatch, SentFirst, EntryOutlivesStub, HostTypeOK
  <2>8. DroppedIsDead' /\ UpgradeMatches' /\ OneLock'
    BY <1>1, <2>3, <2>4, Shapes DEF DroppedIsDead, UpgradeMatches, OneLock, Locks
  <2>9. CondemnedIsDead'
    BY <1>1, <2>3, <2>5 DEF CondemnedIsDead, Condemned, Locks
  <2>10. \A q \in Key : \A u \in Thread : Carries(u, q) => Carries(u, q)'
    BY <1>1, <2>3 DEF Carries, DropLocks
  <2>11. NoReleaseLost'
    BY <1>1, <2>5, <2>10 DEF NoReleaseLost
  <2>12. QED
    BY <2>2, <2>7, <2>8, <2>9, <2>11
<1>3. CASE Known(k)
  <2>1. /\ interner' = interner
        /\ at' = [at EXCEPT ![t] = [in |-> "drop.locked", key |-> k, temp |-> interner[k]]]
    BY <1>3 DEF DropLocks
  <2>2. interner[k] \in Stub /\ Live(interner[k]) /\ keyOf[interner[k]] = k
    BY <1>1, <1>3 DEF Known, HostTypeOK, EntriesMatch
  <2>3. HostTypeOK'
    BY <1>1, <2>1, <2>2, States DEF HostTypeOK
  <2>4. /\ at'[t] = [in |-> "drop.locked", key |-> k, temp |-> interner[k]]
        /\ \A u \in Thread \ {t} : at'[u] = at[u]
    BY <2>1 DEF HostTypeOK
  <2>5. /\ Upgraded(t)' = interner[k]
        /\ \A u \in Thread \ {t} : Upgraded(u)' = Upgraded(u)
    BY <2>4 DEF Upgraded
  <2>6. \A s \in Stub : Live(s)' = Live(s)
    BY <1>1, <2>2, <2>5 DEF Live
  <2>7. \A q \in Key : Known(q)' = Known(q)
    BY <2>1, <2>6 DEF Known, HostTypeOK
  <2>8. OneLiveStub' /\ EntriesMatch' /\ SentFirst' /\ EntryOutlivesStub'
    BY <1>1, <2>1, <2>6
    DEF OneLiveStub, EntriesMatch, SentFirst, EntryOutlivesStub, HostTypeOK
  <2>9. DroppedIsDead' /\ UpgradeMatches' /\ OneLock'
    BY <1>1, <2>2, <2>4, <2>6, Shapes DEF DroppedIsDead, UpgradeMatches, OneLock, Locks
  <2>10. CondemnedIsDead'
    BY <1>1, <2>4, <2>7 DEF CondemnedIsDead, Condemned, Locks
  <2>11. \A q \in Key : \A u \in Thread : Carries(u, q) => Carries(u, q)'
    BY <1>1, <2>4 DEF Carries, DropLocks
  <2>12. NoReleaseLost'
    BY <1>1, <2>7, <2>11 DEF NoReleaseLost
  <2>13. QED
    BY <2>3, <2>8, <2>9, <2>10, <2>12
<1>4. QED
  BY <1>2, <1>3

\* The upgraded clone goes; if it was the last the thread is stuck with the key.
LEMMA DropUnlocksStep ==
    ASSUME HostInv, NEW t \in Thread, DropUnlocks(t)
    PROVE  HostInv'
<1> USE DEF HostInv
<1>1. HostTypeOK'
  BY Shapes, States DEF DropUnlocks, HostTypeOK
<1>2. OneLiveStub'
  BY DEF DropUnlocks, OneLiveStub, Live, Upgraded, HostTypeOK
<1>3. EntriesMatch'
  BY DEF DropUnlocks, EntriesMatch, HostTypeOK
<1>4. DroppedIsDead'
  BY Shapes DEF DropUnlocks, DroppedIsDead, OneLock, Locks, Live, Upgraded, HostTypeOK
<1>5. UpgradeMatches'
  BY DEF DropUnlocks, UpgradeMatches, HostTypeOK
<1>6. OneLock'
  BY DEF DropUnlocks, OneLock, Locks, HostTypeOK
<1>7. CondemnedIsDead'
  BY DEF DropUnlocks, CondemnedIsDead, Condemned, Known, Live, Upgraded, HostTypeOK
<1>8. SentFirst'
  BY DEF DropUnlocks, SentFirst, Live, Upgraded, HostTypeOK
<1>9. EntryOutlivesStub'
  BY DEF DropUnlocks, EntryOutlivesStub, Live, Upgraded, HostTypeOK
<1>10. NoReleaseLost'
  <2> SUFFICES ASSUME NEW k0 \in Key, host'[k0] = "entry", wire'[k0] # "registrant", ~Known(k0)'
               PROVE  k0 \in Elements(queue') \/ \E u \in Thread : Carries(u, k0)'
    BY DEF NoReleaseLost
  <2>1. \A u \in Thread \ {t} : Carries(u, k0) => Carries(u, k0)'
    BY Shapes DEF DropUnlocks, Carries, HostTypeOK
  <2>2. Carries(t, k0) => Carries(t, k0)'
    BY DEF DropUnlocks, Carries, HostTypeOK
  <2>3. CASE Known(k0)
    <3>1. at[t].temp = interner[k0] /\ clones[at[t].temp] = 0
      <4>1. \A u \in Thread \ {t} : Upgraded(u)' = Upgraded(u)
        BY DEF DropUnlocks, Upgraded
      <4>2. clones' = clones /\ interner' = interner /\ Upgraded(t) = at[t].temp
        BY DEF DropUnlocks, Upgraded
      <4>3. QED
        BY <2>3, <4>1, <4>2 DEF Known, Live, HostTypeOK
    <3>2. at[t].key = k0
      BY <2>3, <3>1 DEF DropUnlocks, Known, EntriesMatch, UpgradeMatches
    <3>3. QED
      BY <2>2, <3>2 DEF DropUnlocks, Carries
  <2>4. CASE ~Known(k0)
    BY <2>1, <2>2, <2>4 DEF DropUnlocks, NoReleaseLost
  <2>5. QED
    BY <2>3, <2>4
<1>11. QED
  BY <1>1, <1>2, <1>3, <1>4, <1>5, <1>6, <1>7, <1>8, <1>9, <1>10

\* The key is queued.
LEMMA EnqueueStep ==
    ASSUME HostInv, NEW t \in Thread, Enqueue(t)
    PROVE  HostInv'
<1> USE DEF HostInv
<1>1. HostTypeOK'
  BY Shapes, States, Members DEF Enqueue, HostTypeOK
<1>2. OneLiveStub'
  BY DEF Enqueue, OneLiveStub, Live, Upgraded, Idle, HostTypeOK
<1>3. EntriesMatch'
  BY DEF Enqueue, EntriesMatch, Idle, HostTypeOK
<1>4. DroppedIsDead'
  BY DEF Enqueue, DroppedIsDead, Live, Upgraded, Idle, HostTypeOK
<1>5. UpgradeMatches'
  BY DEF Enqueue, UpgradeMatches, Idle, HostTypeOK
<1>6. OneLock'
  BY DEF Enqueue, OneLock, Locks, Idle, HostTypeOK
<1>7. CondemnedIsDead'
  <2>1. \A k0 \in Key : Known(k0)' = Known(k0) /\ Condemned(k0)' = Condemned(k0)
    BY DEF Enqueue, Known, Live, Upgraded, Condemned, HostTypeOK, Idle
  <2>2. QED
    BY <2>1 DEF Enqueue, CondemnedIsDead, HostTypeOK, Idle
<1>8. SentFirst'
  BY DEF Enqueue, SentFirst, Live, Upgraded, Idle, HostTypeOK
<1>9. EntryOutlivesStub'
  BY DEF Enqueue, EntryOutlivesStub, Live, Upgraded, Idle, HostTypeOK
<1>10. NoReleaseLost'
  <2> SUFFICES ASSUME NEW k0 \in Key, host'[k0] = "entry", wire'[k0] # "registrant", ~Known(k0)'
               PROVE  k0 \in Elements(queue') \/ \E u \in Thread : Carries(u, k0)'
    BY DEF NoReleaseLost
  <2>1. \A u \in Thread \ {t} : Carries(u, k0) => Carries(u, k0)'
    BY Shapes DEF Enqueue, Carries, HostTypeOK
  <2>2. Known(k0)' = Known(k0)
    BY DEF Enqueue, Known, Live, Upgraded, HostTypeOK, Idle
  <2>3. at[t].key \in Key /\ Elements(queue') = Elements(queue) \union {at[t].key}
    BY Shapes, Members DEF Enqueue, HostTypeOK
  <2>4. Carries(t, k0) => k0 \in Elements(queue')
    BY <2>3 DEF Enqueue, Carries
  <2>5. QED
    BY <2>1, <2>2, <2>3, <2>4 DEF Enqueue, NoReleaseLost
<1>11. QED
  BY <1>1, <1>2, <1>3, <1>4, <1>5, <1>6, <1>7, <1>8, <1>9, <1>10

\* A drain takes the queue.
LEMMA DrainTakesStep ==
    ASSUME HostInv, NEW t \in Thread, DrainTakes(t)
    PROVE  HostInv'
<1> USE DEF HostInv
<1>1. HostTypeOK'
  BY States DEF DrainTakes, HostTypeOK
<1>2. OneLiveStub'
  BY DEF DrainTakes, OneLiveStub, Live, Upgraded, Idle, HostTypeOK
<1>3. EntriesMatch'
  BY DEF DrainTakes, EntriesMatch, Idle, HostTypeOK
<1>4. DroppedIsDead'
  BY DEF DrainTakes, DroppedIsDead, Live, Upgraded, Idle, HostTypeOK
<1>5. UpgradeMatches'
  BY DEF DrainTakes, UpgradeMatches, Idle, HostTypeOK
<1>6. OneLock'
  BY DEF DrainTakes, OneLock, Locks, Idle, HostTypeOK
<1>7. CondemnedIsDead'
  BY DEF DrainTakes, CondemnedIsDead, Condemned, Known, Live, Upgraded, Idle, HostTypeOK
<1>8. SentFirst'
  BY DEF DrainTakes, SentFirst, Live, Upgraded, Idle, HostTypeOK
<1>9. EntryOutlivesStub'
  BY DEF DrainTakes, EntryOutlivesStub, Live, Upgraded, Idle, HostTypeOK
<1>10. NoReleaseLost'
  <2> SUFFICES ASSUME NEW k0 \in Key, host'[k0] = "entry", wire'[k0] # "registrant", ~Known(k0)'
               PROVE  k0 \in Elements(queue') \/ \E u \in Thread : Carries(u, k0)'
    BY DEF NoReleaseLost
  <2>1. \A u \in Thread \ {t} : Carries(u, k0) => Carries(u, k0)'
    BY Shapes DEF DrainTakes, Carries, HostTypeOK
  <2>2. Known(k0)' = Known(k0)
    BY DEF DrainTakes, Known, Live, Upgraded, HostTypeOK, Idle
  <2>3. ~Carries(t, k0) /\ (k0 \in Elements(queue) => Carries(t, k0)')
    BY DEF DrainTakes, Carries, Idle, HostTypeOK
  <2>4. QED
    BY <2>1, <2>2, <2>3 DEF DrainTakes, NoReleaseLost
<1>11. QED
  BY <1>1, <1>2, <1>3, <1>4, <1>5, <1>6, <1>7, <1>8, <1>9, <1>10

\* A drain gets the lock.
LEMMA DrainLocksStep ==
    ASSUME HostInv, NEW t \in Thread, DrainLocks(t)
    PROVE  HostInv'
<1> USE DEF HostInv
<1>1. HostTypeOK'
  BY Shapes, States DEF DrainLocks, HostTypeOK
<1>2. OneLiveStub'
  BY DEF DrainLocks, OneLiveStub, Live, Upgraded, Filtering, LockFree, Locks, HostTypeOK
<1>3. EntriesMatch'
  BY DEF DrainLocks, EntriesMatch, Filtering, LockFree, Locks, HostTypeOK
<1>4. DroppedIsDead'
  BY DEF DrainLocks, DroppedIsDead, Live, Upgraded, Filtering, LockFree, Locks, HostTypeOK
<1>5. UpgradeMatches'
  BY DEF DrainLocks, UpgradeMatches, Filtering, LockFree, Locks, HostTypeOK
<1>6. OneLock'
  BY DEF DrainLocks, OneLock, Locks, Filtering, LockFree, HostTypeOK
<1>7. CondemnedIsDead'
  BY DEF DrainLocks, CondemnedIsDead, Condemned, Known, Live, Upgraded, Filtering,
         LockFree, Locks, HostTypeOK
<1>8. SentFirst'
  BY DEF DrainLocks, SentFirst, Live, Upgraded, Filtering, LockFree, Locks, HostTypeOK
<1>9. EntryOutlivesStub'
  BY DEF DrainLocks, EntryOutlivesStub, Live, Upgraded, Filtering, LockFree, Locks,
         HostTypeOK
<1>10. NoReleaseLost'
  BY DEF DrainLocks, NoReleaseLost, Carries, Known, Live, Upgraded, Filtering,
         LockFree, Locks, HostTypeOK
<1>11. QED
  BY <1>1, <1>2, <1>3, <1>4, <1>5, <1>6, <1>7, <1>8, <1>9, <1>10

\* A drain condemns the next key, or makes a clone of its stub.
LEMMA FilterStep ==
    ASSUME HostInv, NEW t \in Thread, Filter(t)
    PROVE  HostInv'
<1> USE DEF HostInv
<1>1. HostTypeOK'
  <2> DEFINE pending == at[t].pending
  <2>1. /\ pending \in Seq(Key) /\ Head(pending) \in Key /\ Tail(pending) \in Seq(Key)
        /\ at[t].keys \subseteq Key
    BY Shapes, Members DEF Filter
  <2>2. Known(Head(pending)) => interner[Head(pending)] \in Stub
    BY <2>1 DEF Known, HostTypeOK
  <2>3. /\ Known(Head(pending)) => Filtering(pending, at[t].keys, interner[Head(pending)]) \in ThreadState
        /\ Filtering(Tail(pending), at[t].keys \union {Head(pending)}, NoStub) \in ThreadState
    BY <2>1, <2>2, States
  <2>4. QED
    BY <2>3 DEF Filter, HostTypeOK
<1>2. OneLiveStub'
  BY DEF Filter, OneLiveStub, Live, Upgraded, Filtering, Known, HostTypeOK
<1>3. EntriesMatch'
  BY DEF Filter, EntriesMatch, Filtering, Known, Live, Upgraded, HostTypeOK
<1>4. DroppedIsDead'
  BY DEF Filter, DroppedIsDead, Live, Upgraded, Filtering, Known, HostTypeOK
<1>5. UpgradeMatches'
  <2>1. keyOf' = keyOf /\ \A u \in Thread \ {t} : at'[u] = at[u]
    BY DEF Filter
  <2>2. \/ at'[t].temp = NoStub
        \/ /\ Known(Head(at[t].pending)) /\ at'[t].temp = interner[Head(at[t].pending)]
           /\ at'[t].pending = at[t].pending /\ at[t].pending # << >>
    BY DEF Filter, Filtering, HostTypeOK
  <2>3. Head(at[t].pending) \in Key /\ at'[t].in = "drain.locked"
    BY Shapes, Members DEF Filter, Filtering, HostTypeOK
  <2>4. QED
    BY <2>1, <2>2, <2>3 DEF UpgradeMatches, EntriesMatch, Known
<1>6. OneLock'
  BY DEF Filter, OneLock, Locks, Filtering, Known, Live, Upgraded, HostTypeOK
<1>7. CondemnedIsDead'
  BY DEF Filter, CondemnedIsDead, Condemned, Known, Live, Upgraded, Filtering, HostTypeOK
<1>8. SentFirst'
  BY DEF Filter, SentFirst, Live, Upgraded, Filtering, Known, HostTypeOK
<1>9. EntryOutlivesStub'
  BY DEF Filter, EntryOutlivesStub, Live, Upgraded, Filtering, Known, HostTypeOK
<1>10. NoReleaseLost'
  <2> SUFFICES ASSUME NEW k0 \in Key, host'[k0] = "entry", wire'[k0] # "registrant", ~Known(k0)'
               PROVE  k0 \in Elements(queue') \/ \E u \in Thread : Carries(u, k0)'
    BY DEF NoReleaseLost
  <2>1. \A u \in Thread \ {t} : Carries(u, k0) => Carries(u, k0)'
    BY Shapes DEF Filter, Filtering, Carries, HostTypeOK
  <2>2. Known(k0) => Known(k0)'
    BY Shapes DEF Filter, Known, Live, Upgraded, HostTypeOK, Filtering
  <2>3. Elements(at[t].pending) = Elements(Tail(at[t].pending)) \union {Head(at[t].pending)}
    BY Shapes, Members DEF Filter
  <2>4. Carries(t, k0) => Carries(t, k0)'
    BY <2>3 DEF Filter, Carries, HostTypeOK, Filtering
  <2>5. QED
    BY <2>1, <2>2, <2>4 DEF Filter, NoReleaseLost
<1>11. QED
  BY <1>1, <1>2, <1>3, <1>4, <1>5, <1>6, <1>7, <1>8, <1>9, <1>10

\* The clone of a drain goes; the key is alive, or the thread is stuck with what it had.
LEMMA FilterKeepsStep ==
    ASSUME HostInv, NEW t \in Thread, FilterKeeps(t)
    PROVE  HostInv'
<1> USE DEF HostInv
<1>1. HostTypeOK'
  <2> DEFINE pending == at[t].pending
  <2>1. /\ pending \in Seq(Key) /\ Tail(pending) \in Seq(Key)
        /\ Elements(pending) \subseteq Key
        /\ at[t].temp \in Stub /\ at[t].keys \subseteq Key
    BY Shapes, Members DEF FilterKeeps, UpgradeMatches, Elements
  <2>2. /\ Filtering(Tail(pending), at[t].keys, NoStub) \in ThreadState
        /\ [in |-> "stuck", stub |-> at[t].temp, keys |-> at[t].keys \union Elements(pending)]
              \in ThreadState
    BY <2>1, States
  <2>3. QED
    BY <2>2 DEF FilterKeeps, HostTypeOK
<1>2. OneLiveStub'
  BY DEF FilterKeeps, OneLiveStub, Live, Upgraded, Filtering, HostTypeOK
<1>3. EntriesMatch'
  BY DEF FilterKeeps, EntriesMatch, Filtering, HostTypeOK
<1>4. DroppedIsDead'
  BY DEF FilterKeeps, DroppedIsDead, OneLock, Locks, Live, Upgraded, Filtering, HostTypeOK
<1>5. UpgradeMatches'
  BY DEF FilterKeeps, UpgradeMatches, Filtering, HostTypeOK
<1>6. OneLock'
  BY DEF FilterKeeps, OneLock, Locks, Filtering, HostTypeOK
<1>7. CondemnedIsDead'
  BY DEF FilterKeeps, CondemnedIsDead, Condemned, Known, Live, Upgraded, Filtering,
         HostTypeOK
<1>8. SentFirst'
  BY DEF FilterKeeps, SentFirst, Live, Upgraded, Filtering, HostTypeOK
<1>9. EntryOutlivesStub'
  BY DEF FilterKeeps, EntryOutlivesStub, Live, Upgraded, Filtering, HostTypeOK
<1>10. NoReleaseLost'
  <2> SUFFICES ASSUME NEW k0 \in Key, host'[k0] = "entry", wire'[k0] # "registrant", ~Known(k0)'
               PROVE  k0 \in Elements(queue') \/ \E u \in Thread : Carries(u, k0)'
    BY DEF NoReleaseLost
  <2>1. \A u \in Thread \ {t} : Carries(u, k0) => Carries(u, k0)'
    BY Shapes DEF FilterKeeps, Filtering, Carries, HostTypeOK
  <2> DEFINE pending == at[t].pending
             temp == at[t].temp
  <2>2. /\ Elements(pending) = Elements(Tail(pending)) \union {Head(pending)}
        /\ temp \in Stub /\ keyOf[temp] = Head(pending)
    BY Shapes, Members DEF FilterKeeps, UpgradeMatches
  <2>3. CASE clones[temp] = 0
    <3>1. Known(k0) => temp = interner[k0]
      BY <2>2, <2>3, Shapes DEF FilterKeeps, Known, Live, Upgraded, HostTypeOK, Filtering
    <3>2. Known(k0) => Carries(t, k0)'
      BY <2>2, <2>3, <3>1 DEF FilterKeeps, Carries, Known, EntriesMatch, HostTypeOK
    <3>3. Carries(t, k0) => Carries(t, k0)'
      BY <2>3 DEF FilterKeeps, Carries, HostTypeOK
    <3>4. QED
      BY <2>1, <3>2, <3>3 DEF FilterKeeps, NoReleaseLost
  <2>4. CASE clones[temp] # 0
    <3>1. Known(k0) => Known(k0)'
      BY <2>2, <2>4, Shapes DEF FilterKeeps, Known, Live, Upgraded, HostTypeOK, Filtering
    <3>2. Live(temp)
      BY <2>2 DEF FilterKeeps, Live, Upgraded
    <3>3. k0 # Head(pending)
      BY <2>2, <3>1, <3>2 DEF OneLiveStub, Known, HostTypeOK
    <3>4. Carries(t, k0) => Carries(t, k0)'
      BY <2>2, <2>4, <3>3 DEF FilterKeeps, Carries, HostTypeOK, Filtering
    <3>5. QED
      BY <2>1, <3>1, <3>4 DEF FilterKeeps, NoReleaseLost
  <2>5. QED
    BY <2>3, <2>4
<1>11. QED
  BY <1>1, <1>2, <1>3, <1>4, <1>5, <1>6, <1>7, <1>8, <1>9, <1>10

\* A drain has looked at every key.
LEMMA DrainUnlocksStep ==
    ASSUME HostInv, NEW t \in Thread, DrainUnlocks(t)
    PROVE  HostInv'
<1> USE DEF HostInv
<1>1. HostTypeOK'
  BY Shapes, States DEF DrainUnlocks, HostTypeOK
<1>2. OneLiveStub'
  BY DEF DrainUnlocks, OneLiveStub, Live, Upgraded, HostTypeOK
<1>3. EntriesMatch'
  BY DEF DrainUnlocks, EntriesMatch, HostTypeOK
<1>4. DroppedIsDead'
  BY DEF DrainUnlocks, DroppedIsDead, Live, Upgraded, HostTypeOK
<1>5. UpgradeMatches'
  BY DEF DrainUnlocks, UpgradeMatches, HostTypeOK
<1>6. OneLock'
  BY DEF DrainUnlocks, OneLock, Locks, HostTypeOK
<1>7. CondemnedIsDead'
  BY DEF DrainUnlocks, CondemnedIsDead, Condemned, Known, Live, Upgraded, HostTypeOK
<1>8. SentFirst'
  BY DEF DrainUnlocks, SentFirst, Live, Upgraded, HostTypeOK
<1>9. EntryOutlivesStub'
  BY DEF DrainUnlocks, EntryOutlivesStub, Live, Upgraded, HostTypeOK
<1>10. NoReleaseLost'
  <2> SUFFICES ASSUME NEW k0 \in Key, host'[k0] = "entry", wire'[k0] # "registrant", ~Known(k0)'
               PROVE  k0 \in Elements(queue') \/ \E u \in Thread : Carries(u, k0)'
    BY DEF NoReleaseLost
  <2>1. \A u \in Thread \ {t} : Carries(u, k0) => Carries(u, k0)'
    BY Shapes DEF DrainUnlocks, Carries, HostTypeOK
  <2>2. Known(k0)' = Known(k0)
    BY Shapes DEF DrainUnlocks, Known, Live, Upgraded, HostTypeOK, UpgradeMatches
  <2>3. Carries(t, k0) => Carries(t, k0)'
    BY Members DEF DrainUnlocks, Carries, HostTypeOK
  <2>4. QED
    BY <2>1, <2>2, <2>3 DEF DrainUnlocks, NoReleaseLost
<1>11. QED
  BY <1>1, <1>2, <1>3, <1>4, <1>5, <1>6, <1>7, <1>8, <1>9, <1>10

\* A drain has released every key.
LEMMA DrainReturnsStep ==
    ASSUME HostInv, NEW t \in Thread, DrainReturns(t)
    PROVE  HostInv'
<1> USE DEF HostInv
<1>1. HostTypeOK'
  BY States DEF DrainReturns, HostTypeOK
<1>2. OneLiveStub'
  BY DEF DrainReturns, OneLiveStub, Live, Upgraded, Idle, HostTypeOK
<1>3. EntriesMatch'
  BY DEF DrainReturns, EntriesMatch, Idle, HostTypeOK
<1>4. DroppedIsDead'
  BY DEF DrainReturns, DroppedIsDead, Live, Upgraded, Idle, HostTypeOK
<1>5. UpgradeMatches'
  BY DEF DrainReturns, UpgradeMatches, Idle, HostTypeOK
<1>6. OneLock'
  BY DEF DrainReturns, OneLock, Locks, Idle, HostTypeOK
<1>7. CondemnedIsDead'
  BY DEF DrainReturns, CondemnedIsDead, Condemned, Known, Live, Upgraded, Idle, HostTypeOK
<1>8. SentFirst'
  BY DEF DrainReturns, SentFirst, Live, Upgraded, Idle, HostTypeOK
<1>9. EntryOutlivesStub'
  BY DEF DrainReturns, EntryOutlivesStub, Live, Upgraded, Idle, HostTypeOK
<1>10. NoReleaseLost'
  BY DEF DrainReturns, NoReleaseLost, Carries, Known, Live, Upgraded, Idle, HostTypeOK
<1>11. QED
  BY <1>1, <1>2, <1>3, <1>4, <1>5, <1>6, <1>7, <1>8, <1>9, <1>10

\* Every step, and every step of the rest of the bridge, keeps the invariant.
LEMMA HostPreserves ==
    ASSUME HostInv, [HostNext]_hvars
    PROVE  HostInv'
<1>1. CASE HostNext
  BY <1>1, RegisterObjectStep, RollbackStep, HandBackStep, CloneStep, DecodeStep, ReleaseStep,
     DropCloneStep, DropLocksStep, DropUnlocksStep, EnqueueStep, DrainTakesStep,
     DrainLocksStep, FilterStep, FilterKeepsStep, DrainUnlocksStep, DrainReturnsStep
  DEF HostNext
<1>2. CASE UNCHANGED hvars
  BY <1>2 DEF hvars, HostInv, HostTypeOK, OneLiveStub, EntriesMatch, DroppedIsDead,
              UpgradeMatches, OneLock, CondemnedIsDead, SentFirst, EntryOutlivesStub,
              NoReleaseLost, Live, Upgraded, Known, Locks, Condemned, Carries
<1>3. QED
  BY <1>1, <1>2

\* At first there is no stub, and nothing is known.
LEMMA HostStarts == HostInit => HostInv
<1> SUFFICES ASSUME HostInit PROVE HostInv
  OBVIOUS
<1>1. HostTypeOK
  <2>1. (CHOOSE k \in Key : TRUE) \in Key
    BY KeyAssumption
  <2>2. << >> \in Seq(Key)
    OBVIOUS
  <2>3. QED
    BY <2>1, <2>2, States DEF HostInit, HostTypeOK
<1>2. \A t \in Thread : at[t] = Idle /\ at[t].in = "idle"
  BY DEF HostInit, Idle
<1>3. \A s \in Stub : ~Live(s)
  BY <1>2, StubAssumption DEF HostInit, Live, Upgraded
<1>4. OneLiveStub /\ EntriesMatch /\ SentFirst /\ EntryOutlivesStub /\ NoReleaseLost
  BY <1>3 DEF HostInit, OneLiveStub, EntriesMatch, SentFirst, EntryOutlivesStub, NoReleaseLost
<1>5. DroppedIsDead /\ UpgradeMatches /\ OneLock /\ CondemnedIsDead
  BY <1>2 DEF DroppedIsDead, UpgradeMatches, OneLock, Locks, CondemnedIsDead, Condemned
<1>6. QED
  BY <1>1, <1>4, <1>5 DEF HostInv

-----------------------------------------------------------------------------
(* Host calls.                                                             *)

\* A cancellation fires the token, or leaves one that has fired.
LEMMA CancelCallStep ==
    ASSUME CallsInv, NEW c \in Call, CancelCall(c)
    PROVE  CallsInv'
<1> USE DEF CallsInv
<1>1. CallsTypeOK'
  BY DEF CancelCall, wireVars, CallsTypeOK
<1>2. CancelIsSeen' /\ ActiveMatches'
  BY DEF CancelCall, CallsTypeOK, CancelIsSeen, ActiveMatches
<1>3. NoEntryLeaks'
  BY DEF CancelCall, wireVars, CallsTypeOK, NoEntryLeaks
<1>4. NobodyStranded' /\ OnlyWaitersHave'
  BY DEF CancelCall, wireVars, CallsTypeOK, NobodyStranded, OnlyWaitersHave
<1>5. AnswersItsOwn' /\ MintedOnce'
  BY DEF CancelCall, wireVars, AnswersItsOwn, MintedOnce, Used
<1>6. QED
  BY <1>1, <1>2, <1>3, <1>4, <1>5

\* A call takes over the token of its reservation.
LEMMA RegisterStep ==
    ASSUME CallsInv, NEW c \in Call, Register(c)
    PROVE  CallsInv'
<1> USE DEF CallsInv
<1>1. CallsTypeOK'
  BY DEF Register, wireVars, CallsTypeOK
<1>2. CancelIsSeen' /\ ActiveMatches'
  BY DEF Register, CallsTypeOK, CancelIsSeen, ActiveMatches
<1>3. NoEntryLeaks'
  BY DEF Register, wireVars, CallsTypeOK, NoEntryLeaks
<1>4. NobodyStranded' /\ OnlyWaitersHave'
  BY DEF Register, wireVars, CallsTypeOK, NobodyStranded, OnlyWaitersHave
<1>5. AnswersItsOwn' /\ MintedOnce'
  BY DEF Register, wireVars, AnswersItsOwn, MintedOnce, Used
<1>6. QED
  BY <1>1, <1>2, <1>3, <1>4, <1>5

\* A call that is cancelled before it starts ends.
LEMMA BeginStep ==
    ASSUME CallsInv, NEW c \in Call, Begin(c)
    PROVE  CallsInv'
<1> USE DEF CallsInv
<1>1. CallsTypeOK'
  BY DEF Begin, End, wireVars, CallsTypeOK
<1>2. CancelIsSeen' /\ ActiveMatches'
  BY DEF Begin, End, CallsTypeOK, CancelIsSeen, ActiveMatches
<1>3. NoEntryLeaks'
  BY DEF Begin, End, wireVars, CallsTypeOK, NoEntryLeaks
<1>4. NobodyStranded' /\ OnlyWaitersHave'
  BY DEF Begin, End, wireVars, CallsTypeOK, NobodyStranded, OnlyWaitersHave
<1>5. AnswersItsOwn' /\ MintedOnce'
  BY DEF Begin, End, wireVars, AnswersItsOwn, MintedOnce, Used
<1>6. QED
  BY <1>1, <1>2, <1>3, <1>4, <1>5

\* A call that returns has no guard.
LEMMA ReturnStep ==
    ASSUME CallsInv, NEW c \in Call, Return(c)
    PROVE  CallsInv'
<1> USE DEF CallsInv
<1>1. CallsTypeOK'
  BY DEF Return, End, wireVars, CallsTypeOK
<1>2. CancelIsSeen' /\ ActiveMatches'
  BY DEF Return, End, CallsTypeOK, CancelIsSeen, ActiveMatches
<1>3. NoEntryLeaks'
  BY DEF Return, End, wireVars, CallsTypeOK, NoEntryLeaks
<1>4. NobodyStranded' /\ OnlyWaitersHave'
  BY DEF Return, End, wireVars, CallsTypeOK, NobodyStranded, OnlyWaitersHave
<1>5. AnswersItsOwn' /\ MintedOnce'
  BY DEF Return, End, wireVars, AnswersItsOwn, MintedOnce, Used
<1>6. QED
  BY <1>1, <1>2, <1>3, <1>4, <1>5

\* A cancelled call ends where it would yield.
LEMMA YieldCancelledStep ==
    ASSUME CallsInv, NEW c \in Call, YieldCancelled(c)
    PROVE  CallsInv'
<1> USE DEF CallsInv
<1>1. CallsTypeOK'
  BY DEF YieldCancelled, End, wireVars, CallsTypeOK
<1>2. CancelIsSeen' /\ ActiveMatches'
  BY DEF YieldCancelled, End, CallsTypeOK, CancelIsSeen, ActiveMatches
<1>3. NoEntryLeaks'
  BY DEF YieldCancelled, End, wireVars, CallsTypeOK, NoEntryLeaks
<1>4. NobodyStranded' /\ OnlyWaitersHave'
  BY DEF YieldCancelled, End, wireVars, CallsTypeOK, NobodyStranded, OnlyWaitersHave
<1>5. AnswersItsOwn' /\ MintedOnce'
  BY DEF YieldCancelled, End, wireVars, AnswersItsOwn, MintedOnce, Used
<1>6. QED
  BY <1>1, <1>2, <1>3, <1>4, <1>5

\* Handles and outcomes are told apart.
LEMMA Handles ==
    /\ \A c \in Call : HandleOf(c) # NoCall /\ HandleOf(c) \in [is : {"call"}, call : Call]
    /\ \A c, d \in Call : HandleOf(c) = HandleOf(d) => c = d
<1>1. \A c \in Call : HandleOf(c).is = "call" /\ HandleOf(c).call = c
  BY DEF HandleOf
<1>2. NoCall.is = "no call"
  BY DEF NoCall
<1>3. \A c \in Call : HandleOf(c) \in [is : {"call"}, call : Call]
  BY DEF HandleOf
<1>4. QED
  BY <1>1, <1>2, <1>3

\* What can arrive differs from nothing, and an answer from the rest.
LEMMA Outcomes ==
    /\ None \in Outcome /\ None.is = "none"
    /\ \A w \in {"collision", "not found", "closed"} :
         [is |-> w] \in Outcome /\ [is |-> w] # None /\ [is |-> w].is = w
    /\ \A c \in Call : [is |-> "answer", from |-> c] \in Outcome
                       /\ [is |-> "answer", from |-> c] # None
                       /\ [is |-> "answer", from |-> c].from = c
<1>1. \A w \in {"collision", "not found", "closed"} : [is |-> w].is = w /\ [is |-> w] \in Outcome
  BY DEF Outcome
<1>2. \A c \in Call : /\ [is |-> "answer", from |-> c].is = "answer"
                      /\ [is |-> "answer", from |-> c].from = c
                      /\ [is |-> "answer", from |-> c] \in Outcome
  BY DEF Outcome
<1>3. None \in Outcome /\ None.is = "none"
  BY DEF Outcome, None
<1>4. QED
  BY <1>1, <1>2, <1>3

\* What the drop of a future leaves: the entry under its id is gone, and with
\* it the channel of whoever it belonged to.
LEMMA Dropped ==
    ASSUME CallsInv, NEW c \in Call, DropFuture(c)
    PROVE  /\ table' \in [Id -> {NoCall} \union [is : {"call"}, call : Call]]
           /\ \A i \in Id : table'[i] = IF i = id[c] THEN NoCall ELSE table[i]
           /\ result' \in [Call -> Outcome] /\ result'[c] = None
           /\ \A d \in Call \ {c} :
                \/ result'[d] = result[d]
                \/ /\ result'[d] = [is |-> "closed"]
                   /\ id[c] # 0 /\ table[id[c]] = HandleOf(d)
           /\ \A d \in Call \ {c} :
                (id[c] # 0 /\ table[id[c]] = HandleOf(d)) => result'[d] = [is |-> "closed"]
           /\ id' \in [Call -> 0..(Ids - 1)] /\ id'[c] = 0
           /\ \A d \in Call \ {c} : id'[d] = id[d]
           /\ next' = next /\ wrapped' = wrapped /\ tasks' = tasks
<1> USE DEF CallsInv, CallsTypeOK
<1>1. /\ table' = [i \in Id |-> IF i = id[c] THEN NoCall ELSE table[i]]
      /\ id' = [id EXCEPT ![c] = 0]
      /\ next' = next /\ wrapped' = wrapped /\ tasks' = tasks
  BY DEF DropFuture
<1>2. result' = [d \in Call |-> IF d = c THEN None
                                ELSE IF id[c] # 0 /\ table[id[c]] = HandleOf(d)
                                THEN [is |-> "closed"] ELSE result[d]]
  BY DEF DropFuture
<1>3. 0 \in 0..(Ids - 1)
  OBVIOUS
<1>4. result' \in [Call -> Outcome]
  BY <1>2, Outcomes
<1>5. QED
  BY <1>1, <1>2, <1>3, <1>4

\* A wait that ends leaves the other calls as they were, except that one of
\* them may find its channel closed.
LEMMA Unwaits ==
    ASSUME CallsInv, NEW c \in Call, DropFuture(c), phase[c] = "waiting",
           asked' = asked, fired' = fired,
           phase' \in [Call -> {"new", "starting", "running", "waiting", "done"}],
           active' \in [Call -> {"none", "reserved", "entered"}],
           \A d \in Call \ {c} : phase'[d] = phase[d] /\ active'[d] = active[d],
           \/ phase'[c] = "running" /\ active'[c] = active[c] /\ c \notin fired
           \/ phase'[c] = "done" /\ active'[c] = "none"
    PROVE  CallsInv'
<1> USE DEF CallsInv
<1>1. CallsTypeOK'
  BY Dropped DEF CallsTypeOK
<1>2. CancelIsSeen'
  <2>1. ASSUME NEW d \in asked', phase'[d] \in {"starting", "running", "waiting"}
        PROVE  d \in fired'
    <3>1. d \in Call /\ d \in asked
      BY DEF CallsTypeOK
    <3>2. CASE d = c
      BY <3>1, <3>2 DEF CancelIsSeen
    <3>3. CASE d # c
      BY <2>1, <3>1, <3>3 DEF CancelIsSeen
    <3>4. QED
      BY <3>2, <3>3
  <2>2. QED
    BY <2>1 DEF CancelIsSeen
<1>3. NoEntryLeaks'
  <2>1. ASSUME NEW i \in Id, NEW d \in Call, table'[i] = HandleOf(d)
        PROVE  phase'[d] = "waiting" /\ id'[d] = i /\ result'[d] = None
    <3>1. i # id[c] /\ table[i] = HandleOf(d)
      BY <2>1, Dropped, Handles
    <3>2. phase[d] = "waiting" /\ id[d] = i /\ result[d] = None
      BY <3>1 DEF NoEntryLeaks
    <3>3. d # c
      BY <3>1, <3>2
    <3>4. result'[d] = result[d]
      BY <3>1, <3>2, <3>3, Dropped DEF NoEntryLeaks, CallsTypeOK, Id
    <3>5. QED
      BY <3>2, <3>3, <3>4, Dropped
  <2>2. QED
    BY <2>1 DEF NoEntryLeaks
<1>4. NobodyStranded'
  <2>1. ASSUME NEW d \in Call, phase'[d] = "waiting", result'[d] = None
        PROVE  id'[d] \in Id /\ table'[id'[d]] = HandleOf(d) /\ <<id'[d], d>> \in tasks'
    <3>1. d # c /\ phase[d] = "waiting" /\ result[d] = None
      <4>1. d # c
        BY <2>1
      <4>2. result'[d] # [is |-> "closed"]
        BY <2>1, Outcomes
      <4>3. QED
        BY <2>1, <4>1, <4>2, Dropped
    <3>2. id[d] \in Id /\ table[id[d]] = HandleOf(d) /\ <<id[d], d>> \in tasks
      BY <3>1 DEF NobodyStranded
    <3>3. ASSUME id[d] = id[c]  PROVE FALSE
      <4>1. id[c] # 0 /\ table[id[c]] = HandleOf(d)
        BY <3>2, <3>3 DEF Id
      <4>2. result'[d] = [is |-> "closed"]
        BY <3>1, <4>1, Dropped
      <4>3. QED
        BY <2>1, <4>2, Outcomes
    <3>4. QED
      BY <3>1, <3>2, <3>3, Dropped
  <2>2. QED
    BY <2>1 DEF NobodyStranded
<1>5. AnswersItsOwn'
  <2>1. ASSUME NEW d \in Call, result'[d].is = "answer"  PROVE  result'[d] = result[d]
    <3>1. result'[d] # None /\ result'[d] # [is |-> "closed"]
      BY <2>1, Outcomes
    <3>2. QED
      BY <3>1, Dropped
  <2>2. QED
    BY <2>1, Dropped DEF AnswersItsOwn
<1>6. ActiveMatches'
  BY DEF ActiveMatches
<1>7. OnlyWaitersHave'
  <2>1. ASSUME NEW d \in Call, phase'[d] # "waiting"  PROVE  id'[d] = 0 /\ result'[d] = None
    <3>1. CASE d = c
      BY <3>1, Dropped
    <3>2. CASE d # c
      <4>1. id[d] = 0 /\ result[d] = None /\ phase[d] # "waiting"
        BY <2>1, <3>2 DEF OnlyWaitersHave
      <4>2. id[c] # 0 => table[id[c]] # HandleOf(d)
        BY <4>1 DEF NoEntryLeaks, CallsTypeOK, Id
      <4>3. QED
        BY <3>2, <4>1, <4>2, Dropped
    <3>3. QED
      BY <3>1, <3>2
  <2>2. QED
    BY <2>1 DEF OnlyWaitersHave
<1>8. MintedOnce'
  <2>1. \A i \in Id : table'[i] # NoCall => table'[i] = table[i]
    BY Dropped
  <2>2. \A i \in Id, d \in Call : table'[i] = HandleOf(d) => table[i] = HandleOf(d)
    BY <2>1, Handles
  <2>3. next' = next /\ wrapped' = wrapped /\ tasks' = tasks
    BY Dropped
  <2>4. QED
    BY <2>1, <2>2, <2>3 DEF MintedOnce, Used
<1>9. QED
  BY <1>1, <1>2, <1>3, <1>4, <1>5, <1>6, <1>7, <1>8

\* The wait ends with what arrived.
LEMMA ResumeStep ==
    ASSUME CallsInv, NEW c \in Call, Resume(c)
    PROVE  CallsInv'
<1>1. phase' = [phase EXCEPT ![c] = "running"] /\ active' = active
  BY DEF Resume
<1>2. /\ phase' \in [Call -> {"new", "starting", "running", "waiting", "done"}]
      /\ active' \in [Call -> {"none", "reserved", "entered"}]
      /\ phase'[c] = "running" /\ \A d \in Call \ {c} : phase'[d] = phase[d]
  BY <1>1 DEF CallsInv, CallsTypeOK
<1>3. QED
  BY <1>1, <1>2, Unwaits DEF Resume

\* The wait ends with the call.
LEMMA WaitCancelledStep ==
    ASSUME CallsInv, NEW c \in Call, WaitCancelled(c)
    PROVE  CallsInv'
<1>1. /\ phase' = [phase EXCEPT ![c] = "done"] /\ active' = [active EXCEPT ![c] = "none"]
      /\ asked' = asked /\ fired' = fired
  BY DEF WaitCancelled, End
<1>2. /\ phase' \in [Call -> {"new", "starting", "running", "waiting", "done"}]
      /\ active' \in [Call -> {"none", "reserved", "entered"}]
      /\ phase'[c] = "done" /\ active'[c] = "none"
      /\ \A d \in Call \ {c} : phase'[d] = phase[d] /\ active'[d] = active[d]
  BY <1>1 DEF CallsInv, CallsTypeOK
<1>3. QED
  BY <1>1, <1>2, Unwaits DEF WaitCancelled

\* A host call takes an id that the table does not have, or fails.
LEMMA HostCallStep ==
    ASSUME CallsInv, NEW c \in Call, NEW found \in BOOLEAN, HostCall(c, found)
    PROVE  CallsInv'
<1> USE DEF CallsInv
<1>1. /\ Minted \in Id /\ next' \in 0..(Ids - 1) /\ wrapped' \in BOOLEAN
      /\ ~wrapped' => /\ ~wrapped /\ ~Used(Minted)
                      /\ \A j \in Id : Used(j) \/ j = Minted => Used(j)'
  <2>1. next \in 0..(Ids - 1) /\ wrapped \in BOOLEAN
    BY DEF CallsTypeOK
  <2>2. Minted \in 1..(Ids - 1) /\ (next # 0 => Minted = next)
    BY <2>1 DEF Minted
  <2>3. /\ next' = IF Minted + 1 = Ids THEN 0 ELSE Minted + 1
        /\ wrapped' = (wrapped \/ next = 0)
    BY DEF HostCall, Advance
  <2>4. next' \in 0..(Ids - 1) /\ wrapped' \in BOOLEAN
    BY <2>1, <2>2, <2>3
  <2>5. ASSUME ~wrapped'
        PROVE  /\ ~wrapped /\ ~Used(Minted)
               /\ \A j \in Id : Used(j) \/ j = Minted => Used(j)'
    <3>1. ~wrapped /\ next # 0 /\ Minted = next
      BY <2>2, <2>3, <2>5
    <3>2. next' = 0 \/ next' = next + 1
      BY <2>3, <3>1
    <3>3. ~Used(Minted)
      BY <2>1, <3>1 DEF Used
    <3>4. \A j \in Id : Used(j) \/ j = Minted => Used(j)'
      BY <2>1, <3>1, <3>2 DEF Used, Id
    <3>5. QED
      BY <3>1, <3>3, <3>4
  <2>6. QED
    BY <2>2, <2>4, <2>5 DEF Id
<1>2. /\ phase[c] = "running" /\ c \notin fired
      /\ phase' = [phase EXCEPT ![c] = "waiting"]
      /\ active' = active /\ fired' = fired /\ asked' = asked
      /\ id[c] = 0 /\ result[c] = None
  BY DEF HostCall, OnlyWaitersHave
<1>3. /\ phase' \in [Call -> {"new", "starting", "running", "waiting", "done"}]
      /\ phase'[c] = "waiting" /\ \A d \in Call \ {c} : phase'[d] = phase[d]
  BY <1>2 DEF CallsTypeOK
<1>4. CancelIsSeen' /\ ActiveMatches'
  BY <1>2, <1>3 DEF CancelIsSeen, ActiveMatches
<1>5. ASSUME NEW out \in Outcome, out # None, out.is # "answer", NEW i \in 0..(Ids - 1),
             result' = [result EXCEPT ![c] = out], id' = [id EXCEPT ![c] = i],
             table' = table, tasks' = tasks
      PROVE  CallsInv'
  <2>1. /\ result' \in [Call -> Outcome] /\ result'[c] # None /\ result'[c].is # "answer"
        /\ \A d \in Call \ {c} : result'[d] = result[d]
        /\ id' \in [Call -> 0..(Ids - 1)] /\ \A d \in Call \ {c} : id'[d] = id[d]
    BY <1>5 DEF CallsTypeOK
  <2>2. CallsTypeOK'
    BY <1>1, <1>2, <1>3, <1>5, <2>1 DEF CallsTypeOK
  <2>3. NoEntryLeaks'
    <3>1. \A j \in Id : table[j] # HandleOf(c)
      BY <1>2 DEF NoEntryLeaks
    <3>2. ASSUME NEW j \in Id, NEW d \in Call, table'[j] = HandleOf(d)
          PROVE  phase'[d] = "waiting" /\ id'[d] = j /\ result'[d] = None
      <4>1. d # c
        BY <1>5, <3>1, <3>2
      <4>2. phase[d] = "waiting" /\ id[d] = j /\ result[d] = None
        BY <1>5, <3>2 DEF NoEntryLeaks
      <4>3. QED
        BY <1>3, <2>1, <4>1, <4>2
    <3>3. QED
      BY <3>2 DEF NoEntryLeaks
  <2>8. NobodyStranded' /\ OnlyWaitersHave'
    BY <1>3, <1>5, <2>1 DEF NobodyStranded, OnlyWaitersHave
  <2>4. AnswersItsOwn'
    BY <1>1, <2>1 DEF AnswersItsOwn
  <2>5. MintedOnce'
    BY <1>1, <1>5 DEF MintedOnce
  <2>6. QED
    BY <1>4, <2>2, <2>3, <2>4, <2>5, <2>8
<1>6. ASSUME table[Minted] = NoCall,
             table' = [table EXCEPT ![Minted] = HandleOf(c)],
             tasks' = tasks \union {<<Minted, c>>},
             result' = result, id' = [id EXCEPT ![c] = Minted]
      PROVE  CallsInv'
  <2>1. /\ id' \in [Call -> 0..(Ids - 1)] /\ id'[c] = Minted
        /\ \A d \in Call \ {c} : id'[d] = id[d]
        /\ table'[Minted] = HandleOf(c)
        /\ \A i \in Id \ {Minted} : table'[i] = table[i]
    BY <1>1, <1>6 DEF CallsTypeOK, Id
  <2>2. CallsTypeOK'
    BY <1>1, <1>2, <1>3, <1>6, <2>1, Handles DEF CallsTypeOK
  <2>3. NoEntryLeaks'
    BY <1>1, <1>2, <1>3, <1>6, <2>1, Handles DEF NoEntryLeaks
  <2>4. NobodyStranded'
    <3>1. ASSUME NEW d \in Call, phase'[d] = "waiting", result'[d] = None
          PROVE  id'[d] \in Id /\ table'[id'[d]] = HandleOf(d) /\ <<id'[d], d>> \in tasks'
      <4>1. CASE d = c
        BY <1>1, <1>6, <2>1, <4>1
      <4>2. CASE d # c
        <5>1. id[d] \in Id /\ table[id[d]] = HandleOf(d) /\ <<id[d], d>> \in tasks
          BY <1>3, <1>6, <3>1, <4>2 DEF NobodyStranded
        <5>2. id[d] # Minted
          BY <1>6, <5>1, Handles
        <5>3. QED
          BY <1>6, <2>1, <4>2, <5>1, <5>2
      <4>3. QED
        BY <4>1, <4>2
    <3>2. QED
      BY <3>1 DEF NobodyStranded
  <2>5. AnswersItsOwn' /\ OnlyWaitersHave'
    BY <1>1, <1>2, <1>3, <1>6, <2>1 DEF AnswersItsOwn, OnlyWaitersHave
  <2>6. MintedOnce'
    <3>1. ASSUME ~wrapped'
          PROVE  /\ \A i \in Id : table'[i] # NoCall => Used(i)'
                 /\ \A i \in Id, e \in Call : <<i, e>> \in tasks' =>
                      Used(i)' /\ \A d \in Call : table'[i] = HandleOf(d) => d = e
      <4>1. /\ ~wrapped /\ Minted \in Id /\ ~Used(Minted)
            /\ \A j \in Id : Used(j) \/ j = Minted => Used(j)'
        BY <1>1, <3>1
      <4>2. ASSUME NEW i \in Id, NEW e \in Call, <<i, e>> \in tasks'
            PROVE  Used(i)' /\ \A d \in Call : table'[i] = HandleOf(d) => d = e
        <5>1. CASE <<i, e>> \in tasks
          <6>1. Used(i) /\ \A d \in Call : table[i] = HandleOf(d) => d = e
            BY <4>1, <5>1 DEF MintedOnce
          <6>2. i # Minted
            BY <4>1, <6>1
          <6>3. QED
            BY <2>1, <4>1, <6>1, <6>2
        <5>2. CASE i = Minted /\ e = c
          BY <2>1, <4>1, <5>2, Handles
        <5>3. QED
          BY <1>6, <4>2, <5>1, <5>2
      <4>3. \A i \in Id : table'[i] # NoCall => Used(i)'
        BY <2>1, <4>1 DEF MintedOnce
      <4>4. QED
        BY <4>2, <4>3
    <3>2. QED
      BY <3>1 DEF MintedOnce
  <2>7. QED
    BY <1>4, <2>2, <2>3, <2>4, <2>5, <2>6
<1>7. CASE table[Minted] = NoCall /\ Dispatch(c, Minted, found) /\ id' = [id EXCEPT ![c] = Minted]
  <2>1. Minted \in 0..(Ids - 1)
    BY <1>1 DEF Id
  <2>2. CASE found
    BY <1>6, <1>7, <2>2 DEF Dispatch
  <2>3. CASE ~found
    <3>1. result' = [result EXCEPT ![c] = [is |-> "not found"]] /\ table' = table /\ tasks' = tasks
      BY <1>7, <2>3 DEF Dispatch
    <3>2. QED
      BY <1>5, <1>7, <2>1, <3>1, Outcomes
  <2>4. QED
    BY <2>2, <2>3
<1>8. CASE /\ result' = [result EXCEPT ![c] = [is |-> "collision"]]
           /\ UNCHANGED <<id, table, tasks>>
  <2>1. id' = [id EXCEPT ![c] = 0]
    BY <1>2, <1>8 DEF CallsTypeOK
  <2>2. 0 \in 0..(Ids - 1)
    OBVIOUS
  <2>3. QED
    BY <1>5, <1>8, <2>1, <2>2, Outcomes
<1>9. QED
  BY <1>7, <1>8 DEF HostCall

\* An answer goes to the call whose handle is under the id.
LEMMA AnswerStep ==
    ASSUME CallsInv, NEW i \in Id, NEW c \in Call, Answer(i, c)
    PROVE  CallsInv'
<1> USE DEF CallsInv
<1>1. /\ active' = active /\ phase' = phase /\ fired' = fired /\ asked' = asked
      /\ next' = next /\ wrapped' = wrapped /\ id' = id
      /\ <<i, c>> \in tasks /\ tasks' = tasks \ {<<i, c>>}
      /\ table' = [table EXCEPT ![i] = NoCall]
  BY DEF Answer, activeVars
<1>2. /\ \A d \in Call : table[i] = HandleOf(d) =>
           result'[d] = [is |-> "answer", from |-> c]
      /\ \A d \in Call : table[i] # HandleOf(d) => result'[d] = result[d]
      /\ result' \in [Call -> Outcome]
    BY Outcomes DEF Answer, CallsTypeOK
<1>3. table'[i] = NoCall /\ \A j \in Id \ {i} : table'[j] = table[j]
  BY <1>1 DEF CallsTypeOK
<1>4. CallsTypeOK'
  BY <1>1, <1>2 DEF CallsTypeOK
<1>5. CancelIsSeen' /\ ActiveMatches'
  BY <1>1 DEF CancelIsSeen, ActiveMatches
<1>6. NoEntryLeaks'
  <2>1. ASSUME NEW j \in Id, NEW d \in Call, table'[j] = HandleOf(d)
        PROVE  phase'[d] = "waiting" /\ id'[d] = j /\ result'[d] = None
    <3>1. j # i /\ table[j] = HandleOf(d)
      BY <1>3, <2>1, Handles
    <3>2. table[i] # HandleOf(d)
      BY <3>1 DEF NoEntryLeaks
    <3>3. QED
      BY <1>1, <1>2, <3>1, <3>2 DEF NoEntryLeaks
  <2>2. QED
    BY <2>1 DEF NoEntryLeaks
<1>7. NobodyStranded'
  <2>1. ASSUME NEW d \in Call, phase'[d] = "waiting", result'[d] = None
        PROVE  id'[d] \in Id /\ table'[id'[d]] = HandleOf(d) /\ <<id'[d], d>> \in tasks'
    <3>1. table[i] # HandleOf(d) /\ result[d] = None
      BY <1>2, <2>1, Outcomes
    <3>2. id[d] \in Id /\ table[id[d]] = HandleOf(d) /\ <<id[d], d>> \in tasks
      BY <1>1, <2>1, <3>1 DEF NobodyStranded
    <3>3. id[d] # i
      BY <3>1, <3>2
    <3>4. QED
      BY <1>1, <1>3, <3>2, <3>3
  <2>2. QED
    BY <2>1 DEF NobodyStranded
<1>8. AnswersItsOwn'
  <2>1. ASSUME NEW d \in Call, result'[d].is = "answer", ~wrapped'
        PROVE  result'[d].from = d
    <3>1. CASE table[i] = HandleOf(d)
      BY <1>1, <1>2, <2>1, <3>1 DEF MintedOnce
    <3>2. CASE table[i] # HandleOf(d)
      BY <1>1, <1>2, <2>1, <3>2 DEF AnswersItsOwn
    <3>3. QED
      BY <3>1, <3>2
  <2>2. QED
    BY <2>1 DEF AnswersItsOwn
<1>9. OnlyWaitersHave'
  BY <1>1, <1>2 DEF OnlyWaitersHave, NoEntryLeaks
<1>10. MintedOnce'
  <2>1. \A j \in Id, d \in Call : table'[j] = HandleOf(d) => table[j] = HandleOf(d)
    BY <1>3, Handles
  <2>2. QED
    BY <1>1, <1>3, <2>1 DEF MintedOnce, Used
<1>11. QED
  BY <1>4, <1>5, <1>6, <1>7, <1>8, <1>9, <1>10

\* The calls keep their invariant, whatever the host values do.
LEMMA CallsPreserves ==
    ASSUME CallsInv, [CallsNext]_kvars
    PROVE  CallsInv'
<1>1. CASE CallsNext
  BY <1>1, CancelCallStep, RegisterStep, BeginStep, ReturnStep, YieldCancelledStep,
     ResumeStep, WaitCancelledStep, HostCallStep, AnswerStep
  DEF CallsNext, CallRuns
<1>2. CASE UNCHANGED kvars
  BY <1>2 DEF kvars, CallsInv, CallsTypeOK, CancelIsSeen, NoEntryLeaks, NobodyStranded,
              AnswersItsOwn, ActiveMatches, OnlyWaitersHave, MintedOnce, Used
<1>3. QED
  BY <1>1, <1>2

\* At first no call is known.
LEMMA CallsStart == CallsInit => CallsInv
<1> SUFFICES ASSUME CallsInit PROVE CallsInv
  OBVIOUS
<1>1. /\ 1 \in 0..(Ids - 1) /\ 0 \in 0..(Ids - 1) /\ Ids - 1 \in Nat
      /\ \A c \in Call : result[c].is # "answer"
  BY DEF CallsInit, None
<1>2. CallsTypeOK
  BY <1>1, Outcomes DEF CallsInit, CallsTypeOK
<1>3. CancelIsSeen /\ NoEntryLeaks /\ NobodyStranded /\ AnswersItsOwn
  BY <1>1, Handles DEF CallsInit, CancelIsSeen, NoEntryLeaks, NobodyStranded, AnswersItsOwn
<1>4. ActiveMatches /\ OnlyWaitersHave /\ MintedOnce
  BY DEF CallsInit, ActiveMatches, OnlyWaitersHave, MintedOnce
<1>5. QED
  BY <1>2, <1>3, <1>4 DEF CallsInv

-----------------------------------------------------------------------------
(* The bridge.                                                             *)

\* Every step of the bridge is one of the host values' or of the calls', or
\* one of each.
LEMMA Parts ==
    ASSUME [Next]_vars
    PROVE  [HostNext]_hvars /\ [CallsNext]_kvars
<1>1. CASE HostNext /\ UNCHANGED <<kvars, callee>>
  BY <1>1
<1>2. ASSUME NEW c \in Call, CancelCall(c) \/ CallRuns(c), UNCHANGED <<hvars, callee>>
      PROVE  [HostNext]_hvars /\ [CallsNext]_kvars
  BY <1>2 DEF CallsNext
<1>3. ASSUME NEW c \in Call, CallHost(c)
      PROVE  [HostNext]_hvars /\ [CallsNext]_kvars
  <2>1. UNCHANGED hvars /\ \E found \in BOOLEAN : HostCall(c, found)
    BY <1>3 DEF CallHost
  <2>2. QED
    BY <2>1 DEF CallsNext
<1>4. ASSUME NEW c \in Call, NEW i \in Id, CompleteHostCall(i, c)
      PROVE  [HostNext]_hvars /\ [CallsNext]_kvars
  BY <1>4 DEF CompleteHostCall, CallsNext, HostNext
<1>5. CASE UNCHANGED vars
  BY <1>5 DEF vars
<1>6. QED
  BY <1>1, <1>2, <1>3, <1>4, <1>5 DEF Next

\* A key that was decoded while condemned stays in the history.
LEMMA RebornStays ==
    ASSUME HostInv, [HostNext]_hvars
    PROVE  reborn \subseteq reborn'
  BY DEF HostNext, hvars, RegisterObject, Rollback, HandBack, Clone, Decode, Release,
         DropClone, DropLocks, DropUnlocks, Enqueue, DrainTakes, DrainLocks, Filter,
         FilterKeeps, DrainUnlocks, DrainReturns

\* A call finds no object only when it is dispatched.
LEMMA OldMiss ==
    ASSUME CallsInv, NEW c \in Call, CancelCall(c) \/ CallRuns(c) \/ \E i \in Id : Answer(i, c),
           NEW d \in Call, result'[d].is = "not found"
    PROVE  result'[d] = result[d]
<1>1. CASE CancelCall(c) \/ Register(c) \/ Begin(c) \/ Return(c) \/ YieldCancelled(c)
  BY <1>1 DEF CancelCall, Register, Begin, Return, YieldCancelled, wireVars
<1>2. CASE Resume(c) \/ WaitCancelled(c)
  <2>1. result'[d] # None /\ result'[d] # [is |-> "closed"]
    BY Outcomes
  <2>2. QED
    BY <1>2, <2>1, Dropped DEF Resume, WaitCancelled
<1>3. ASSUME NEW i \in Id, Answer(i, c)
      PROVE  result'[d] = result[d]
  BY <1>3 DEF Answer
<1>4. QED
  BY <1>1, <1>2, <1>3 DEF CallRuns

\* What is dispatched is looked up under a key that has a stub.
LEMMA CallableStep ==
    ASSUME IInv, [Next]_vars
    PROVE  callee' \in [Call -> Key] /\ FindsCallable'
<1> USE DEF IInv
<1>1. reborn \subseteq reborn'
  BY Parts, RebornStays
<1>2. ASSUME UNCHANGED callee,
             \A d \in Call : result'[d].is = "not found" => result'[d] = result[d]
      PROVE  callee' \in [Call -> Key] /\ FindsCallable'
  BY <1>1, <1>2 DEF FindsCallable
<1>3. CASE UNCHANGED <<kvars, callee>>
  BY <1>2, <1>3 DEF kvars
<1>4. ASSUME NEW c \in Call, CancelCall(c) \/ CallRuns(c), UNCHANGED callee
      PROVE  callee' \in [Call -> Key] /\ FindsCallable'
  BY <1>2, <1>4, OldMiss
<1>5. ASSUME NEW c \in Call, NEW i \in Id, CompleteHostCall(i, c)
      PROVE  callee' \in [Call -> Key] /\ FindsCallable'
  BY <1>2, <1>5, OldMiss DEF CompleteHostCall
<1>6. ASSUME NEW c \in Call, CallHost(c)
      PROVE  callee' \in [Call -> Key] /\ FindsCallable'
  <2>1. PICK k \in Key :
          /\ \E s \in Stub : clones[s] > 0 /\ keyOf[s] = k
          /\ callee' = [callee EXCEPT ![c] = k]
          /\ HostCall(c, host[k] = "entry")
    BY <1>6 DEF CallHost
  <2>2. host[k] = "entry" \/ k \in reborn
    BY <2>1 DEF HostInv, EntryOutlivesStub, Live
  <2>3. ASSUME NEW d \in Call, result'[d].is = "not found"
        PROVE  callee'[d] \in reborn'
    <3>1. CASE d # c
      <4>1. result'[d] = result[d]
        <5>1. \A out : result' = [result EXCEPT ![c] = out] => result'[d] = result[d]
          BY <3>1 DEF CallsInv, CallsTypeOK
        <5>2. result' = result \/ \E out : result' = [result EXCEPT ![c] = out]
          BY <2>1 DEF HostCall, Dispatch
        <5>3. QED
          BY <5>1, <5>2
      <4>2. QED
        BY <1>1, <2>1, <2>3, <3>1, <4>1 DEF FindsCallable
    <3>2. CASE d = c
      <4>1. result[c] = None
        BY <2>1 DEF HostCall, CallsInv, OnlyWaitersHave
      <4>2. result' = result => result'[c].is = "none"
        BY <4>1, Outcomes
      <4>3. result' = [result EXCEPT ![c] = [is |-> "collision"]] => result'[c].is = "collision"
        BY DEF CallsInv, CallsTypeOK
      <4>4. host[k] # "entry"
        BY <2>1, <2>3, <3>2, <4>2, <4>3 DEF HostCall, Dispatch
      <4>5. QED
        BY <1>1, <2>1, <2>2, <3>2, <4>4
    <3>3. QED
      BY <3>1, <3>2
  <2>4. QED
    BY <2>1, <2>3 DEF FindsCallable
<1>7. CASE UNCHANGED vars
  BY <1>3, <1>7 DEF vars
<1>8. QED
  BY <1>3, <1>4, <1>5, <1>6, <1>7 DEF Next

\* The inductive invariant of the bridge.
THEOREM Invariance == Spec => []IInv
<1>1. Init => IInv
  <2>1. Init => FindsCallable
    <3>1. CallsInit => \A c \in Call : result[c].is = "none"
      BY Outcomes DEF CallsInit
    <3>2. QED
      BY <3>1 DEF Init, FindsCallable
  <2>2. QED
    BY <2>1, HostStarts, CallsStart DEF Init, IInv
<1>2. IInv /\ [Next]_vars => IInv'
  BY Parts, HostPreserves, CallsPreserves, CallableStep DEF IInv
<1>3. QED
  BY <1>1, <1>2, PTL DEF Spec

\* Types, for every number of keys, stubs, threads and calls.
THEOREM TypeCorrect == Spec => []BridgeTypeOK
<1>1. IInv => BridgeTypeOK
  BY DEF IInv, HostInv, CallsInv, BridgeTypeOK
<1>2. QED
  BY <1>1, Invariance, PTL

\* However drops, decodes and drains interleave, a key has one live stub, the
\* one that the next decode finds.
THEOREM OneStub == Spec => []OneLiveStub
<1>1. IInv => OneLiveStub
  BY DEF IInv, HostInv
<1>2. QED
  BY <1>1, Invariance, PTL

\* No key whose last stub has gone is forgotten on its way to the host.
THEOREM ReleaseKept == Spec => []NoReleaseLost
<1>1. IInv => NoReleaseLost
  BY DEF IInv, HostInv
<1>2. QED
  BY <1>1, Invariance, PTL

\* The host keeps the object of a live stub, but for keys decoded while a
\* drain had condemned them.
THEOREM EntryStays == Spec => []EntryOutlivesStub
<1>1. IInv => EntryOutlivesStub
  BY DEF IInv, HostInv
<1>2. QED
  BY <1>1, Invariance, PTL

\* A cancellation is never lost, whenever it comes before the call's end.
THEOREM CancelSeen == Spec => []CancelIsSeen
<1>1. IInv => CancelIsSeen
  BY DEF IInv, CallsInv
<1>2. QED
  BY <1>1, Invariance, PTL

\* The dispatch table holds the handles of waiting calls only.
THEOREM TableExact == Spec => []NoEntryLeaks
<1>1. IInv => NoEntryLeaks
  BY DEF IInv, CallsInv
<1>2. QED
  BY <1>1, Invariance, PTL

\* A waiting call has its handle in the table and a task that will answer it,
\* even after the ids have started again.
THEOREM Answerable == Spec => []NobodyStranded
<1>1. IInv => NobodyStranded
  BY DEF IInv, CallsInv
<1>2. QED
  BY <1>1, Invariance, PTL

\* Before the ids start again, a call gets the answer computed for it.
THEOREM OwnAnswer == Spec => []AnswersItsOwn
<1>1. IInv => AnswersItsOwn
  BY DEF IInv, CallsInv
<1>2. QED
  BY <1>1, Invariance, PTL

\* A closure that is called is found in the host's registry, with the same
\* exception as EntryStays.
THEOREM Callable == Spec => []FindsCallable
<1>1. IInv => FindsCallable
  BY DEF IInv
<1>2. QED
  BY <1>1, Invariance, PTL
=============================================================================
