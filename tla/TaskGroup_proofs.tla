-------------------------- MODULE TaskGroup_proofs --------------------------
(***************************************************************************)
(* Proofs about TaskGroup, for any number of members and any limits.  The  *)
(* heart of it is promote: whoever frees or adds capacity hands it, under  *)
(* the same lock, to the head of the queue, and to a waiter that can still *)
(* receive it.                                                             *)
(***************************************************************************)
EXTENDS TaskGroup, FiniteSetTheorems, SequenceTheorems, TLAPS

-----------------------------------------------------------------------------
(* The inductive invariant.                                                *)

Ordered(q) == \A i, j \in DOMAIN q : i < j => q[i] < q[j]

\* How far the bodies are, p, tells the states of their tickets' channels and
\* their places in the group, ms: only a parked ticket keeps its receiver, it
\* waits unless a grant is in its channel, and who leaves without a grant has
\* dropped the receiver.
TicketsOf(ms, p) ==
    \A m \in Member :
        /\ m >= nextId <=> p[m] = "unborn"
        /\ p[m] = "unborn" => ms[m] = "absent" /\ rx[m] = "none"
        /\ p[m] \in {"parked", "polled"} =>
              \/ rx[m] = "open" /\ ms[m] = "parked"
              \/ rx[m] = "sent" /\ ms[m] = "active"
        /\ rx[m] = "open" => p[m] \in {"parked", "polled"}
        /\ ms[m] = "parked" => /\ rx[m] \in {"open", "closed"}
                               /\ p[m] \in {"parked", "polled", "leaving"}

Tickets == TicketsOf(members, pc)

\* SlotHolders when the bodies are at p.
HoldersAt(p) == {m \in Member : \/ p[m] \in {"admitted", "running"}
                                \/ p[m] \in {"parked", "polled", "leaving"} /\ rx[m] = "sent"}

IInv ==
    /\ TypeOK
    /\ Tickets
    /\ SlotsAccounted
    /\ QueueIsParked
    /\ NoIdleSlot
    /\ Ordered(waiters)

-----------------------------------------------------------------------------
(* Members and queues.                                                     *)

\* Sets of members are finite and their sizes are numbers up to M.
LEMMA Counting ==
    ASSUME NEW S \in SUBSET Member
    PROVE  /\ IsFiniteSet(S)
           /\ Cardinality(S) \in 0..M
           /\ \A m \in Member : Cardinality(S \union {m}) =
                 IF m \in S THEN Cardinality(S) ELSE Cardinality(S) + 1
           /\ \A m \in S : Cardinality(S \ {m}) = Cardinality(S) - 1
<1>1. IsFiniteSet(Member) /\ Cardinality(Member) = M
  BY FS_Interval, MAssumption DEF Member
<1>2. IsFiniteSet(S) /\ Cardinality(S) <= M
  BY <1>1, FS_Subset
<1>3. Cardinality(S) \in Nat
  BY <1>2, FS_CardinalityType
<1> QED
  BY <1>2, <1>3, FS_AddElement, FS_RemoveElement, MAssumption

\* The sizes of disjoint sets of members add up.
LEMMA Disjoint ==
    ASSUME NEW S \in SUBSET Member, NEW G \in SUBSET Member, S \intersect G = {}
    PROVE  Cardinality(S \union G) = Cardinality(S) + Cardinality(G)
<1>1. IsFiniteSet(S) /\ IsFiniteSet(G)
  BY Counting
<1>2. Cardinality(S) \in Nat /\ Cardinality(G) \in Nat
  BY <1>1, FS_CardinalityType
<1>3. Cardinality(S \intersect G) = 0
  BY FS_EmptySet
<1>4. Cardinality(S \union G) =
        Cardinality(S) + Cardinality(G) - Cardinality(S \intersect G)
  BY <1>1, FS_Union, Zenon
<1> QED
  BY <1>2, <1>3, <1>4

\* What is left of an ordered queue when its head part is taken is ordered,
\* and the two parts have no member in common.
LEMMA Tails ==
    ASSUME NEW q \in Seq(Member), Ordered(q), NEW k \in 0..Len(q)
    PROVE  LET tail == SubSeq(q, k + 1, Len(q)) IN
           /\ tail \in Seq(Member) /\ Len(tail) = Len(q) - k
           /\ \A i \in 1..(Len(q) - k) : tail[i] = q[k + i]
           /\ Ordered(tail)
           /\ Elements(tail) = Elements(q) \ {q[i] : i \in 1..k}
           /\ k = Len(q) => tail = <<>>
<1> DEFINE tail == SubSeq(q, k + 1, Len(q))
<1>1. /\ tail \in Seq(Member) /\ Len(tail) = Len(q) - k
      /\ DOMAIN tail = 1..(Len(q) - k) /\ DOMAIN q = 1..Len(q)
  OBVIOUS
<1>2. \A i \in 1..(Len(q) - k) : tail[i] = q[k + i]
  OBVIOUS
<1>3. Ordered(tail)
  <2> SUFFICES ASSUME NEW i \in 1..(Len(q) - k), NEW j \in 1..(Len(q) - k), i < j
               PROVE  tail[i] < tail[j]
    BY <1>1 DEF Ordered
  <2>1. k + i \in 1..Len(q) /\ k + j \in 1..Len(q) /\ k + i < k + j
    OBVIOUS
  <2>2. q[k + i] < q[k + j]
    BY <1>1, <2>1 DEF Ordered
  <2> QED
    BY <1>2, <2>2
<1>4. Elements(tail) = {q[i] : i \in (k + 1)..Len(q)}
  <2>1. ASSUME NEW i \in 1..(Len(q) - k)  PROVE tail[i] \in {q[j] : j \in (k + 1)..Len(q)}
    <3>1. k + i \in (k + 1)..Len(q) /\ tail[i] = q[k + i]
      BY <1>2
    <3> QED
      BY <3>1
  <2>2. ASSUME NEW j \in (k + 1)..Len(q)  PROVE q[j] \in {tail[i] : i \in 1..(Len(q) - k)}
    <3>1. j - k \in 1..(Len(q) - k) /\ tail[j - k] = q[j]
      BY <1>2
    <3> QED
      BY <3>1
  <2> QED
    BY <2>1, <2>2, <1>1 DEF Elements
<1>5. ASSUME NEW i \in 1..k, NEW j \in (k + 1)..Len(q)  PROVE q[i] # q[j]
  <2>1. q[i] < q[j] /\ q[i] \in Member /\ q[j] \in Member
    BY DEF Ordered
  <2> QED
    BY <2>1, MAssumption DEF Member
<1>6. Elements(tail) = Elements(q) \ {q[i] : i \in 1..k}
  <2>1. 1..Len(q) = 1..k \union (k + 1)..Len(q)
    OBVIOUS
  <2>2. Elements(q) = {q[i] : i \in 1..k} \union {q[i] : i \in (k + 1)..Len(q)}
    BY <1>1, <2>1 DEF Elements
  <2> QED
    BY <1>4, <1>5, <2>2
<1>7. k = Len(q) => tail = <<>>
  BY <1>1
<1> QED
  BY <1>1, <1>2, <1>3, <1>6, <1>7

\* An ordered queue holds each of its members once.
LEMMA OrderedOnce ==
    ASSUME NEW q \in Seq(Member), Ordered(q)
    PROVE  IsInjective(q)
<1>1. \A i \in DOMAIN q : q[i] \in Int
  BY MAssumption DEF Member
<1> QED
  BY <1>1 DEF Ordered, IsInjective

\* Leaving the queue keeps its order and takes out one member.
LEMMA Unqueuing ==
    ASSUME TypeOK, Ordered(waiters), NEW m \in Member
    PROVE  /\ Unqueue(m) \in Seq(Member)
           /\ Ordered(Unqueue(m))
           /\ Elements(Unqueue(m)) = Elements(waiters) \ {m}
<1>1. CASE m \notin Elements(waiters)
  BY <1>1 DEF Unqueue, TypeOK
<1>2. CASE m \in Elements(waiters)
  <2> DEFINE w == waiters
             i == CHOOSE j \in DOMAIN waiters : waiters[j] = m
             q == Unqueue(m)
  <2>1. w \in Seq(Member) /\ i \in 1..Len(w) /\ w[i] = m
    BY <1>2 DEF Elements, TypeOK
  <2> HIDE DEF i
  <2>2. q = SubSeq(w, 1, i - 1) \o SubSeq(w, i + 1, Len(w))
    BY <1>2 DEF Unqueue, RemoveAt, i
  <2> HIDE DEF q
  <2>3. /\ q \in Seq(Member) /\ Len(q) = Len(w) - 1
        /\ \A j \in 1..Len(q) : q[j] = IF j < i THEN w[j] ELSE w[j + 1]
    <3> DEFINE a == SubSeq(w, 1, i - 1)
               b == SubSeq(w, i + 1, Len(w))
    <3>1. /\ a \in Seq(Member) /\ Len(a) = i - 1
          /\ \A j \in 1..(i - 1) : a[j] = w[j]
      BY <2>1
    <3>2. /\ b \in Seq(Member) /\ Len(b) = Len(w) - i
          /\ \A j \in 1..(Len(w) - i) : b[j] = w[i + j]
      BY <2>1
    <3> HIDE DEF a, b
    <3>3. /\ a \o b \in Seq(Member) /\ Len(a \o b) = Len(w) - 1
          /\ \A j \in 1..(Len(w) - 1) :
                (a \o b)[j] = IF j <= i - 1 THEN a[j] ELSE b[j - (i - 1)]
      <4>1. Len(a) + Len(b) = Len(w) - 1
        BY <2>1, <3>1, <3>2
      <4> QED
        BY <3>1, <3>2, <4>1, ConcatProperties
    <3>4. \A j \in 1..(Len(w) - 1) : j >= i =>
            j - (i - 1) \in 1..(Len(w) - i) /\ i + (j - (i - 1)) = j + 1
      BY <2>1
    <3>5. q = a \o b
      BY <2>2 DEF a, b
    <3>6. ASSUME NEW j \in 1..(Len(w) - 1)
          PROVE  (a \o b)[j] = IF j < i THEN w[j] ELSE w[j + 1]
      BY <2>1, <3>1, <3>2, <3>3, <3>4
    <3> QED
      BY <3>3, <3>5, <3>6
  <2>4. Ordered(q)
    <3> SUFFICES ASSUME NEW a \in 1..Len(q), NEW b \in 1..Len(q), a < b
                 PROVE  q[a] < q[b]
      BY <2>3 DEF Ordered
    <3> QED
      BY <2>1, <2>3 DEF Ordered
  <2>5. ASSUME NEW j \in 1..Len(w)  PROVE w[j] = m <=> j = i
    <3>1. w[j] \in Int /\ w[i] \in Int
      BY <2>1, MAssumption DEF Member
    <3> QED
      BY <2>1, <3>1 DEF Ordered
  <2>6. ASSUME NEW j \in 1..Len(q)  PROVE q[j] \in Elements(w) \ {m}
    BY <2>1, <2>3, <2>5 DEF Elements
  <2>7. ASSUME NEW j \in 1..Len(w), j # i  PROVE w[j] \in Elements(q)
    <3>1. CASE j < i
      <4>1. j \in 1..Len(q) /\ q[j] = w[j]
        BY <2>1, <2>3, <3>1
      <4> QED
        BY <2>3, <4>1 DEF Elements
    <3>2. CASE j > i
      <4>1. j - 1 \in 1..Len(q) /\ q[j - 1] = w[j]
        BY <2>1, <2>3, <3>2
      <4> QED
        BY <2>3, <4>1 DEF Elements
    <3> QED
      BY <2>1, <2>7, <3>1, <3>2
  <2>8. Elements(q) = Elements(w) \ {m}
    BY <2>1, <2>3, <2>5, <2>6, <2>7 DEF Elements
  <2> QED
    BY <2>3, <2>4, <2>8 DEF q
<1> QED
  BY <1>1, <1>2

-----------------------------------------------------------------------------
(* promote.                                                                *)

\* What promote does to a state in which the members S hold the act slots in
\* use, and ms and the ordered queue agree on who waits: it hands slots to some
\* who wait, G, whose receivers are still there.
HandsTo(G, S, ms) ==
    /\ active' = Cardinality(S \union G)
    /\ \A m \in G : /\ ms[m] = "parked" /\ rx[m] = "open"
                    /\ members'[m] = "active" /\ rx'[m] = "sent"
    /\ \A m \in Member \ G :
          /\ rx'[m] = rx[m]
          /\ \/ members'[m] = ms[m]
             \/ ms[m] = "parked" /\ rx[m] = "closed" /\ members'[m] = "absent"

\* As many as the limit admits, the earliest first, and no slot is left over
\* while somebody waits.
Hands(lim, act, S, ms) ==
    /\ limit' = lim
    /\ members' \in [Member -> {"absent", "parked", "active"}]
    /\ rx' \in [Member -> {"none", "open", "sent", "closed"}]
    /\ waiters' \in Seq(Member) /\ Ordered(waiters')
    /\ Elements(waiters') = {m \in Member : members'[m] = "parked"}
    /\ active' < limit' => waiters' = <<>>
    /\ active' > act => active' <= limit'
    /\ \A m, n \in Member :
          m < n /\ ms[m] = "parked" /\ ms[n] = "parked" /\ members'[n] = "active"
            => members'[m] # "parked"
    /\ \E G \in SUBSET Member : HandsTo(G, S, ms)

Agree(act, S, ms) ==
    /\ S \in SUBSET Member /\ act = Cardinality(S)
    /\ ms \in [Member -> {"absent", "parked", "active"}]
    /\ Ordered(waiters) /\ Elements(waiters) = {m \in Member : ms[m] = "parked"}
    /\ \A m \in Member : /\ ms[m] = "active" <=> m \in S
                         /\ ms[m] = "parked" => rx[m] \in {"open", "closed"}

\* promote does so.
LEMMA Promotion ==
    ASSUME TypeOK, NEW lim \in Limits, NEW act, NEW S, NEW ms,
           Agree(act, S, ms), Promote(lim, act, waiters, ms)
    PROVE  Hands(lim, act, S, ms)
<1> USE DEF Agree
<1> DEFINE Popped(i)  == {waiters[j] : j \in 1..i}
           Granted(i) == {m \in Popped(i) : rx[m] = "open"}
           Stops(i)   == act + Cardinality(Granted(i)) >= lim \/ i = Len(waiters)
<1>1. PICK k \in 0..Len(waiters) :
        /\ Stops(k) /\ \A i \in 0..(k - 1) : ~Stops(i)
        /\ limit' = lim
        /\ active' = act + Cardinality(Granted(k))
        /\ waiters' = SubSeq(waiters, k + 1, Len(waiters))
        /\ members' = [m \in Member |->
                         IF m \notin Popped(k) THEN ms[m]
                         ELSE IF m \in Granted(k) THEN "active" ELSE "absent"]
        /\ rx' = [m \in Member |-> IF m \in Granted(k) THEN "sent" ELSE rx[m]]
  BY Zenon DEF Promote
<1>2. waiters \in Seq(Member) /\ DOMAIN waiters = 1..Len(waiters) /\ Len(waiters) \in Nat
  BY DEF TypeOK
<1>3. \A i \in 0..Len(waiters) :
        /\ Popped(i) \in SUBSET Member /\ Granted(i) \in SUBSET Member
        /\ \A m \in Popped(i) : ms[m] = "parked"
  BY <1>2 DEF Elements
<1>4. /\ limit' = lim /\ limit' \in Nat /\ act \in Nat
      /\ \A i \in 0..Len(waiters) : Cardinality(Granted(i)) \in Nat
  BY <1>1, <1>3, Counting, MAssumption
<1> DEFINE Size == [i \in 0..Len(waiters) |-> Cardinality(Granted(i))]
<1>5. /\ Size \in [0..Len(waiters) -> Nat]
      /\ active' = act + Size[k]
      /\ k # Len(waiters) => active' >= lim
      /\ \A i \in 0..(k - 1) : act + Size[i] < lim
  <2>1. Size \in [0..Len(waiters) -> Nat] /\ active' = act + Size[k]
    BY <1>1, <1>4
  <2>2. k # Len(waiters) => active' >= lim
    BY <1>1
  <2>3. ASSUME NEW i \in 0..(k - 1)  PROVE act + Size[i] < lim
    <3>1. i \in 0..Len(waiters)
      BY <1>2
    <3>2. ~Stops(i)
      BY <1>1
    <3>3. Size[i] = Cardinality(Granted(i))
      BY <3>1
    <3>4. ~(act + Size[i] >= lim) /\ i \in 0..Len(waiters)
      BY <3>1, <3>2, <3>3
    <3> HIDE DEF Size
    <3>5. Size[i] \in Nat
      BY <2>1, <3>4
    <3> QED
      BY <1>4, <3>4, <3>5
  <2> QED
    BY <2>1, <2>2, <2>3
<1>6. /\ Size[0] = 0
      /\ \A i \in 1..k : Size[i] <= Size[i - 1] + 1
  <2>1. Granted(0) = {}
    OBVIOUS
  <2>2. Size[0] = 0
    <3>1. 0 \in 0..Len(waiters)
      BY <1>2
    <3>2. Size[0] = Cardinality(Granted(0))
      BY <3>1
    <3> QED
      BY <2>1, <3>2, FS_EmptySet
  <2>3. ASSUME NEW i \in 1..k  PROVE Size[i] <= Size[i - 1] + 1
    <3>1. i \in 0..Len(waiters) /\ i - 1 \in 0..Len(waiters) /\ waiters[i] \in Member
      BY <1>2
    <3>2. 1..i = 1..(i - 1) \union {i}
      OBVIOUS
    <3>3. Popped(i) = Popped(i - 1) \union {waiters[i]}
      BY <3>2
    <3>4. Granted(i) = Granted(i - 1) \/ Granted(i) = Granted(i - 1) \union {waiters[i]}
      BY <3>3
    <3>5. Size[i] = Cardinality(Granted(i)) /\ Size[i - 1] = Cardinality(Granted(i - 1))
      BY <3>1
    <3>6. Granted(i - 1) \in SUBSET Member
      BY <1>3, <3>1
    <3> HIDE DEF Size, Granted
    <3>7. Size[i - 1] \in Nat
      BY <1>5, <3>1
    <3>8. CASE Granted(i) = Granted(i - 1)
      BY <3>5, <3>7, <3>8
    <3>9. CASE Granted(i) = Granted(i - 1) \union {waiters[i]}
      BY <3>1, <3>5, <3>6, <3>7, <3>9, Counting
    <3> QED
      BY <3>4, <3>8, <3>9
  <2> QED
    BY <2>2, <2>3
<1>7. /\ members' \in [Member -> {"absent", "parked", "active"}]
      /\ rx' \in [Member -> {"none", "open", "sent", "closed"}]
  BY <1>1 DEF TypeOK
<1>8. /\ waiters' \in Seq(Member) /\ Ordered(waiters')
      /\ Elements(waiters') = Elements(waiters) \ Popped(k)
      /\ k = Len(waiters) => waiters' = <<>>
  BY <1>1, <1>2, Tails
<1>9. Elements(waiters') = {m \in Member : members'[m] = "parked"}
  BY <1>1, <1>8
<1>10. active' < limit' => waiters' = <<>>
  BY <1>4, <1>8, <1>5
<1>11. ASSUME active' > act  PROVE active' <= limit'
  <2> HIDE DEF Size
  <2>1. k # 0
    BY <1>4, <1>11, <1>5, <1>6
  <2>2. k \in 1..k /\ k - 1 \in 0..(k - 1) /\ k - 1 \in 0..Len(waiters)
    BY <2>1, <1>2
  <2>3. /\ act + Size[k - 1] < lim /\ Size[k] <= Size[k - 1] + 1
        /\ Size[k] \in Nat /\ Size[k - 1] \in Nat
    BY <1>5, <1>6, <2>2
  <2> QED
    BY <1>4, <1>5, <2>3
<1>12. ASSUME NEW m \in Member, NEW n \in Member, m < n,
              ms[m] = "parked", ms[n] = "parked", members'[n] = "active"
       PROVE  members'[m] # "parked"
  <2>1. n \in Popped(k)
    BY <1>1, <1>12
  <2>2. PICK j \in 1..k : n = waiters[j]
    BY <2>1
  <2>3. PICK i \in 1..Len(waiters) : m = waiters[i]
    BY <1>2, <1>12 DEF Elements
  <2>4. i < j
    <3>1. i \in DOMAIN waiters /\ j \in DOMAIN waiters
      BY <1>2
    <3>2. j < i => waiters[j] < waiters[i]
      BY <3>1 DEF Ordered
    <3>3. waiters[i] < waiters[j] /\ waiters[i] \in Int /\ waiters[j] \in Int
      BY <1>12, <2>2, <2>3, MAssumption DEF Member
    <3> QED
      BY <1>2, <3>2, <3>3
  <2>5. m \in Popped(k)
    BY <2>2, <2>3, <2>4
  <2> QED
    BY <1>1, <2>5
<1>13. \E G \in SUBSET Member : HandsTo(G, S, ms)
  <2> DEFINE G == Granted(k)
  <2>1. G \in SUBSET Member /\ \A m \in G : ms[m] = "parked" /\ rx[m] = "open"
    BY <1>3
  <2>2. S \intersect G = {}
    BY <2>1
  <2>3. active' = Cardinality(S \union G)
    BY <1>1, <2>1, <2>2, Disjoint
  <2>4. \A m \in G : members'[m] = "active" /\ rx'[m] = "sent"
    BY <1>1, <2>1
  <2>5. ASSUME NEW m \in Member \ G
        PROVE  /\ rx'[m] = rx[m]
               /\ \/ members'[m] = ms[m]
                  \/ ms[m] = "parked" /\ rx[m] = "closed" /\ members'[m] = "absent"
    BY <1>1, <1>3
  <2> QED
    BY <2>1, <2>3, <2>4, <2>5 DEF HandsTo
<1> QED
  BY <1>4, <1>7, <1>8, <1>9, <1>10, <1>11, <1>12, <1>13 DEF Hands

\* So promote, called for bodies that are about to be at pc', turns a state
\* that accounts for their slots, but for spare capacity, into one that is
\* right in every respect.
LEMMA Promoted ==
    ASSUME TypeOK, Ordered(waiters),
           NEW lim \in Limits, NEW act, act = Cardinality(HoldersAt(pc')),
           NEW ms \in [Member -> {"absent", "parked", "active"}],
           \A m \in Member : ms[m] = "active" <=> m \in HoldersAt(pc'),
           Elements(waiters) = {m \in Member : ms[m] = "parked"},
           TicketsOf(ms, pc'),
           pc' \in [Member -> {"unborn", "admitted", "parked", "polled",
                               "running", "leaving", "done", "gone"}],
           nextId' = nextId /\ cancelled' = cancelled /\ toFire' = toFire,
           resizes' \in 0..MaxResize,
           Promote(lim, act, waiters, ms)
    PROVE  IInv'
<1> DEFINE S == HoldersAt(pc')
<1>1. Agree(act, S, ms)
  BY DEF HoldersAt, TicketsOf, Agree
<1>2. Hands(lim, act, S, ms)
  BY <1>1, Promotion
<1>3. PICK G \in SUBSET Member : HandsTo(G, S, ms)
  BY <1>2 DEF Hands
<1> USE DEF Agree, HandsTo, Hands
<1>4. \A m \in G : pc'[m] \in {"parked", "polled"}
  BY <1>3 DEF TicketsOf
<1>5. Tickets'
  BY <1>2, <1>3, <1>4 DEF Tickets, TicketsOf
<1>6. SlotHolders' = S \union G
  BY <1>3, <1>4 DEF SlotHolders, HoldersAt
<1>7. \A m \in Member : members'[m] = "active" <=> m \in S \union G
  BY <1>1, <1>3
<1>8. active' \in 0..M
  BY <1>1, <1>3, Counting
<1>9. SlotsAccounted'
  BY <1>3, <1>6, <1>7 DEF SlotsAccounted
<1>10. QueueIsParked'
  <2>1. \A m \in Member : pc'[m] \in {"parked", "polled"} =>
            members'[m] = IF rx'[m] = "sent" THEN "active" ELSE "parked"
    BY <1>5 DEF Tickets, TicketsOf
  <2>2. IsInjective(waiters')
    BY <1>2, OrderedOnce
  <2> QED
    BY <1>2, <2>1, <2>2 DEF QueueIsParked, Elements
<1>11. NoIdleSlot'
  BY <1>2 DEF NoIdleSlot
<1>12. TypeOK'
  BY <1>2, <1>8 DEF TypeOK
<1> QED
  BY <1>2, <1>5, <1>9, <1>10, <1>11, <1>12 DEF IInv, Ordered

-----------------------------------------------------------------------------
(* The steps.                                                              *)

\* A fresh group is as it should be.
LEMMA Start == Init => IInv
<1> SUFFICES ASSUME Init  PROVE IInv
  OBVIOUS
<1> USE DEF Init
<1>1. TypeOK
  BY MAssumption DEF TypeOK, Member
<1>2. Tickets
  BY MAssumption DEF Tickets, TicketsOf, Member
<1>3. SlotHolders = {} /\ SlotsAccounted
  BY FS_EmptySet DEF SlotHolders, SlotsAccounted
<1>4. waiters \in Seq(Member) /\ Ordered(waiters) /\ Elements(waiters) = {}
  BY DEF Ordered, Elements
<1>5. QueueIsParked
  BY <1>4, OrderedOnce DEF QueueIsParked
<1>6. NoIdleSlot
  BY DEF NoIdleSlot
<1> QED
  BY <1>1, <1>2, <1>3, <1>4, <1>5, <1>6 DEF IInv

\* A member registers behind all others, or with a slot.
LEMMA RegisterStep == IInv /\ Register => IInv'
<1> SUFFICES ASSUME IInv, Register  PROVE IInv'
  OBVIOUS
<1> DEFINE m == nextId
<1> USE DEF IInv
<1>1. /\ m = nextId /\ m \in Member /\ nextId' = m + 1 /\ m \in Int /\ pc[m] = "unborn"
      /\ members[m] = "absent" /\ rx[m] = "none" /\ m \notin SlotHolders
      /\ \A n \in Member : n \in Int /\ (n >= m + 1 <=> (n >= m /\ n # m))
      /\ m + 1 \in 1..(M + 1)
  BY MAssumption DEF Register, Tickets, TicketsOf, SlotHolders, Member, TypeOK
<1>2. \A n \in Elements(waiters) : n < m
  BY <1>1, MAssumption DEF QueueIsParked, Tickets, TicketsOf, Member, TypeOK
<1> HIDE DEF m
<1>3. CASE HasSlot
  <2>1. /\ active' = active + 1 /\ members' = [members EXCEPT ![m] = "active"]
        /\ pc' = [pc EXCEPT ![m] = "admitted"]
        /\ UNCHANGED <<waiters, rx, limit, cancelled, toFire, resizes>>
    BY <1>3 DEF Register, Goto, m
  <2>2. SlotHolders' = SlotHolders \union {m}
    BY <1>1, <2>1 DEF SlotHolders, TypeOK
  <2>3. active' = Cardinality(SlotHolders')
    BY <1>1, <2>1, <2>2, Counting DEF SlotsAccounted, SlotHolders
  <2>4. SlotHolders' \in SUBSET Member /\ active' \in 0..M
    BY <2>3, Counting DEF SlotHolders
  <2>5. TypeOK'
    BY <1>1, <2>1, <2>4 DEF TypeOK
  <2>6. Tickets'
    BY <1>1, <2>1 DEF Tickets, TicketsOf, TypeOK
  <2>7. SlotsAccounted'
    BY <1>1, <2>1, <2>2, <2>3 DEF SlotsAccounted, TypeOK
  <2>8. QueueIsParked'
    BY <1>1, <2>1 DEF QueueIsParked, Elements, TypeOK
  <2>9. NoIdleSlot'
    BY <1>3, <2>1 DEF HasSlot, NoIdleSlot
  <2> QED
    BY <2>1, <2>5, <2>6, <2>7, <2>8, <2>9 DEF Ordered
<1>4. CASE ~HasSlot
  <2>1. /\ members' = [members EXCEPT ![m] = "parked"]
        /\ waiters' = Append(waiters, m) /\ rx' = [rx EXCEPT ![m] = "open"]
        /\ pc' = [pc EXCEPT ![m] = "parked"]
        /\ UNCHANGED <<active, limit, cancelled, toFire, resizes>>
    BY <1>4 DEF Register, Goto, PushBack, m
  <2>2. /\ waiters' \in Seq(Member) /\ Len(waiters') = Len(waiters) + 1
        /\ Len(waiters) \in Nat /\ DOMAIN waiters = 1..Len(waiters)
        /\ DOMAIN waiters' = 1..(Len(waiters) + 1)
        /\ \A i \in 1..Len(waiters) : waiters'[i] = waiters[i]
        /\ waiters'[Len(waiters) + 1] = m
    BY <1>1, <2>1, AppendProperties DEF TypeOK
  <2>3. Elements(waiters') = Elements(waiters) \union {m}
    <3>1. 1..(Len(waiters) + 1) = 1..Len(waiters) \union {Len(waiters) + 1}
      BY <2>2
    <3> QED
      BY <2>2, <3>1 DEF Elements
  <2>4. Ordered(waiters')
    <3> SUFFICES ASSUME NEW i \in 1..(Len(waiters) + 1),
                        NEW j \in 1..(Len(waiters) + 1), i < j
                 PROVE  waiters'[i] < waiters'[j]
      BY <2>2 DEF Ordered
    <3>1. i \in 1..Len(waiters) /\ waiters'[i] = waiters[i]
      BY <2>2
    <3>2. waiters[i] < m
      BY <1>2, <2>2, <3>1 DEF Elements
    <3>3. CASE j = Len(waiters) + 1
      BY <2>2, <3>1, <3>2, <3>3
    <3>4. CASE j # Len(waiters) + 1
      <4>1. j \in 1..Len(waiters)
        BY <2>2, <3>4
      <4> QED
        BY <2>2, <3>1, <4>1 DEF Ordered
    <3> QED
      BY <3>3, <3>4
  <2>5. TypeOK'
    BY <1>1, <2>1, <2>2 DEF TypeOK
  <2>6. Tickets'
    BY <1>1, <2>1 DEF Tickets, TicketsOf, TypeOK
  <2>7. SlotHolders' = SlotHolders
    BY <1>1, <2>1 DEF SlotHolders, TypeOK
  <2>8. SlotsAccounted'
    BY <1>1, <2>1, <2>7 DEF SlotsAccounted, TypeOK
  <2>9. Elements(waiters') = {n \in Member : members'[n] = "parked"}
    BY <1>1, <2>1, <2>3 DEF QueueIsParked, TypeOK
  <2>10. QueueIsParked'
    <3>1. IsInjective(waiters')
      BY <2>2, <2>4, OrderedOnce
    <3>2. \A n \in Member : pc'[n] \in {"parked", "polled"} =>
              members'[n] = IF rx'[n] = "sent" THEN "active" ELSE "parked"
      BY <2>6 DEF Tickets, TicketsOf
    <3> QED
      BY <2>9, <3>1, <3>2 DEF QueueIsParked, Elements
  <2>11. NoIdleSlot'
    BY <1>4, <2>1 DEF HasSlot, NoIdleSlot, TypeOK
  <2> QED
    BY <2>4, <2>5, <2>6, <2>8, <2>10, <2>11 DEF Ordered
<1> QED
  BY <1>3, <1>4

\* A new limit admits from the queue.
LEMMA SetLimitStep ==
    ASSUME IInv, NEW l \in Limits, SetLimit(l)  PROVE IInv'
<1>1. HoldersAt(pc') = SlotHolders /\ TicketsOf(members, pc')
  BY DEF SetLimit, HoldersAt, SlotHolders, IInv, Tickets, TicketsOf
<1>2. /\ pc' = pc /\ nextId' = nextId /\ cancelled' = cancelled /\ toFire' = toFire
      /\ resizes' \in 0..MaxResize /\ Promote(l, active, waiters, members)
  BY MAssumption DEF SetLimit, IInv, TypeOK
<1> QED
  BY <1>1, <1>2, Promoted DEF IInv, TypeOK, SlotsAccounted, QueueIsParked

\* Tokens fire without touching the group.
LEMMA FiringStep ==
    ASSUME IInv,
           \/ \E p, a \in BOOLEAN : Cancel(p, a)
           \/ \E m \in Member : Fire(m) \/ CancelledFromOutside(m)
    PROVE  IInv'
<1>1. /\ UNCHANGED <<limit, active, waiters, members, nextId, rx, pc, resizes>>
      /\ toFire' \subseteq Member /\ cancelled' \subseteq Member
  BY DEF IInv, TypeOK, Cancel, Fire, CancelledFromOutside
<1> QED
  BY <1>1 DEF IInv, TypeOK, Tickets, TicketsOf, SlotsAccounted, SlotHolders,
              QueueIsParked, Elements, NoIdleSlot, Ordered

\* A member that has its slot starts to run.
LEMMA AcquireStep ==
    ASSUME IInv, NEW m \in Member, AcquireAdmitted(m) \/ AcquireGranted(m)
    PROVE  IInv'
<1>1. /\ UNCHANGED <<limit, active, waiters, members, nextId, rx, cancelled, toFire,
                     resizes>>
      /\ pc' = [pc EXCEPT ![m] = "running"]
      /\ pc[m] = "admitted" \/ (pc[m] = "polled" /\ rx[m] = "sent")
  BY DEF AcquireAdmitted, AcquireGranted, Goto
<1>2. TypeOK'
  BY <1>1 DEF IInv, TypeOK
<1>3. Tickets'
  BY <1>1 DEF IInv, TypeOK, Tickets, TicketsOf
<1>4. SlotHolders' = SlotHolders
  BY <1>1 DEF IInv, TypeOK, SlotHolders
<1>5. SlotsAccounted' /\ NoIdleSlot' /\ Ordered(waiters)'
  BY <1>1, <1>4 DEF IInv, SlotsAccounted, NoIdleSlot, Ordered
<1>6. QueueIsParked'
  BY <1>1 DEF IInv, TypeOK, QueueIsParked, Elements
<1> QED
  BY <1>2, <1>3, <1>5, <1>6 DEF IInv

\* A poll that finds nothing leaves the ticket as it was.
LEMMA PollStep ==
    ASSUME IInv, NEW m \in Member, PollToken(m) \/ PollPending(m)
    PROVE  IInv'
<1>1. /\ UNCHANGED <<limit, active, waiters, members, nextId, rx, cancelled, toFire,
                     resizes>>
      /\ pc[m] \in {"parked", "polled"}
      /\ \E p \in {"parked", "polled"} : pc' = [pc EXCEPT ![m] = p]
  BY DEF PollToken, PollPending, Goto
<1>2. TypeOK'
  BY <1>1 DEF IInv, TypeOK
<1>3. Tickets'
  BY <1>1 DEF IInv, TypeOK, Tickets, TicketsOf
<1>4. SlotHolders' = SlotHolders
  BY <1>1 DEF IInv, TypeOK, SlotHolders
<1>5. SlotsAccounted' /\ NoIdleSlot' /\ Ordered(waiters)'
  BY <1>1, <1>4 DEF IInv, SlotsAccounted, NoIdleSlot, Ordered
<1>6. QueueIsParked'
  BY <1>1 DEF IInv, TypeOK, QueueIsParked, Elements
<1> QED
  BY <1>2, <1>3, <1>5, <1>6 DEF IInv

\* A cancelled waiter drops its receiver and keeps a grant it has.
LEMMA CancelledStep ==
    ASSUME IInv, NEW m \in Member, AcquireCancelled(m)
    PROVE  IInv'
<1>1. /\ UNCHANGED <<limit, active, waiters, members, nextId, cancelled, toFire, resizes>>
      /\ pc' = [pc EXCEPT ![m] = "leaving"] /\ pc[m] = "parked"
      /\ rx' = [rx EXCEPT ![m] = IF @ = "open" THEN "closed" ELSE @]
  BY DEF AcquireCancelled, Goto
<1>2. TypeOK'
  BY <1>1 DEF IInv, TypeOK
<1>3. Tickets'
  BY <1>1 DEF IInv, TypeOK, Tickets, TicketsOf
<1>4. SlotHolders' = SlotHolders
  BY <1>1 DEF IInv, TypeOK, SlotHolders
<1>5. SlotsAccounted' /\ NoIdleSlot' /\ Ordered(waiters)'
  BY <1>1, <1>4 DEF IInv, SlotsAccounted, NoIdleSlot, Ordered
<1>6. QueueIsParked'
  BY <1>1 DEF IInv, TypeOK, QueueIsParked, Elements
<1> QED
  BY <1>2, <1>3, <1>5, <1>6 DEF IInv

\* Whoever gives a slot back leaves a state that promote can work on.
LEMMA GivesBack ==
    ASSUME IInv, NEW m \in Member, members[m] = "active", rx[m] # "open",
           NEW p \in {"gone", "done"}, pc' = [pc EXCEPT ![m] = p], m < nextId
    PROVE  /\ HoldersAt(pc') = SlotHolders \ {m}
           /\ active - 1 = Cardinality(HoldersAt(pc'))
           /\ TicketsOf(Without(m), pc')
           /\ Agree(active - 1, HoldersAt(pc'), Without(m))
<1>1. m \in SlotHolders /\ SlotHolders \in SUBSET Member
  BY DEF IInv, SlotsAccounted, SlotHolders
<1>2. HoldersAt(pc') = SlotHolders \ {m}
  BY DEF IInv, TypeOK, SlotHolders, HoldersAt
<1>3. active - 1 = Cardinality(HoldersAt(pc'))
  BY <1>1, <1>2, Counting DEF IInv, SlotsAccounted
<1>4. TicketsOf(Without(m), pc')
  BY MAssumption DEF IInv, TypeOK, Tickets, TicketsOf, Without, Member
<1>5. \A n \in Member : Without(m)[n] = "active" <=> n \in HoldersAt(pc')
  BY <1>2 DEF IInv, TypeOK, SlotsAccounted, Without
<1>6. Without(m) \in [Member -> {"absent", "parked", "active"}]
  BY DEF IInv, TypeOK, Without
<1>7. Elements(waiters) = {n \in Member : Without(m)[n] = "parked"}
  BY DEF IInv, TypeOK, QueueIsParked, Without
<1> QED
  BY <1>1, <1>2, <1>3, <1>4, <1>5, <1>6, <1>7 DEF Agree, IInv, TicketsOf

\* A task that is past its select is registered and has no open channel.
LEMMA PastSelect ==
    ASSUME IInv, NEW m \in Member, pc[m] \in {"leaving", "running"}
    PROVE  rx[m] # "open" /\ m < nextId
<1>1. rx[m] # "open" /\ ~(m >= nextId)
  BY DEF IInv, Tickets, TicketsOf
<1>2. m \in Int /\ nextId \in Int
  BY MAssumption DEF IInv, TypeOK, Member
<1> QED
  BY <1>1, <1>2

\* Leaving: the slot of a grant goes back, a place in the queue is given up.
LEMMA CancelParkedStep ==
    ASSUME IInv, NEW m \in Member, CancelParked(m)
    PROVE  IInv'
<1>1. /\ UNCHANGED <<nextId, cancelled, toFire, resizes>>
      /\ pc' = [pc EXCEPT ![m] = "gone"] /\ pc[m] = "leaving" /\ rx[m] # "open"
      /\ m < nextId
  BY PastSelect DEF CancelParked, Goto
<1>2. CASE members[m] = "active"
  <2>1. Promote(limit, active - 1, waiters, Without(m))
    BY <1>2 DEF CancelParked
  <2> QED
    BY <1>1, <1>2, <2>1, GivesBack, Promoted DEF IInv, TypeOK, Agree
<1>3. CASE members[m] # "active"
  <2>1. /\ members' = Without(m) /\ waiters' = Unqueue(m)
        /\ UNCHANGED <<limit, active, rx>>
    BY <1>3 DEF CancelParked
  <2>2. /\ waiters' \in Seq(Member) /\ Ordered(waiters')
        /\ Elements(waiters') = Elements(waiters) \ {m}
    BY <2>1, Unqueuing DEF IInv
  <2>3. TypeOK'
    BY <1>1, <2>1, <2>2 DEF IInv, TypeOK, Without
  <2>4. Tickets'
    BY <1>1, <2>1, MAssumption DEF IInv, TypeOK, Tickets, TicketsOf, Without, Member
  <2>5. m \notin SlotHolders
    BY <1>3 DEF IInv, SlotsAccounted
  <2>6. SlotHolders' = SlotHolders
    BY <1>1, <2>1, <2>5 DEF IInv, TypeOK, SlotHolders
  <2>7. SlotsAccounted'
    BY <1>3, <2>1, <2>5, <2>6 DEF IInv, TypeOK, SlotsAccounted, Without
  <2>8. Elements(waiters') = {n \in Member : members'[n] = "parked"}
    BY <2>1, <2>2 DEF IInv, TypeOK, QueueIsParked, Without
  <2>9. QueueIsParked'
    BY <1>1, <2>2, <2>4, <2>8, OrderedOnce
    DEF QueueIsParked, Tickets, TicketsOf, Elements
  <2>10. NoIdleSlot'
    <3>1. waiters = <<>> => waiters' = <<>>
      BY <2>1, <2>2 DEF Unqueue, Elements
    <3> QED
      BY <2>1, <3>1 DEF IInv, NoIdleSlot
  <2> QED
    BY <2>2, <2>3, <2>4, <2>7, <2>9, <2>10 DEF IInv, Ordered
<1> QED
  BY <1>2, <1>3

\* The end of a body passes its slot on; it always has one to pass on.
LEMMA ReleaseStep ==
    ASSUME IInv, NEW m \in Member, Release(m)
    PROVE  IInv' /\ members[m] = "active"
<1>1. /\ UNCHANGED <<nextId, cancelled, toFire, resizes>>
      /\ pc' = [pc EXCEPT ![m] = "done"] /\ pc[m] = "running" /\ rx[m] # "open"
      /\ m < nextId
  BY PastSelect DEF Release, Goto
<1>2. members[m] = "active"
  BY <1>1 DEF IInv, SlotsAccounted, SlotHolders
<1>3. Promote(limit, active - 1, waiters, Without(m))
  BY <1>2 DEF Release
<1> QED
  BY <1>1, <1>2, <1>3, GivesBack, Promoted DEF IInv, TypeOK, Agree

-----------------------------------------------------------------------------
(* The theorems.                                                           *)

\* Every step keeps the invariant.
LEMMA Step == IInv /\ [Next]_vars => IInv'
<1> SUFFICES ASSUME IInv, [Next]_vars  PROVE IInv'
  OBVIOUS
<1>1. CASE Register
  BY <1>1, RegisterStep
<1>2. ASSUME NEW l \in Limits, SetLimit(l)  PROVE IInv'
  BY <1>2, SetLimitStep
<1>3. CASE \/ \E p, a \in BOOLEAN : Cancel(p, a)
           \/ \E m \in Member : Fire(m) \/ CancelledFromOutside(m)
  BY <1>3, FiringStep
<1>4. ASSUME NEW m \in Member, AcquireAdmitted(m) \/ AcquireGranted(m)  PROVE IInv'
  BY <1>4, AcquireStep
<1>5. ASSUME NEW m \in Member, AcquireCancelled(m)  PROVE IInv'
  BY <1>5, CancelledStep
<1>6. ASSUME NEW m \in Member, CancelParked(m)  PROVE IInv'
  BY <1>6, CancelParkedStep
<1>7. ASSUME NEW m \in Member, Release(m)  PROVE IInv'
  BY <1>7, ReleaseStep
<1>8. ASSUME NEW m \in Member, PollToken(m) \/ PollPending(m)  PROVE IInv'
  BY <1>8, PollStep
<1>9. CASE UNCHANGED vars
  BY <1>9 DEF vars, IInv, TypeOK, Tickets, TicketsOf, SlotsAccounted, SlotHolders,
              QueueIsParked, Elements, NoIdleSlot, Ordered
<1> QED
  BY <1>1, <1>2, <1>3, <1>4, <1>5, <1>6, <1>7, <1>8, <1>9 DEF Next

\* The invariant holds for any number of members, limits and changes of them.
THEOREM Invariance == Spec => []IInv
<1>1. Init => IInv
  BY Start
<1>2. IInv /\ [Next]_vars => IInv'
  BY Step
<1> QED
  BY <1>1, <1>2, PTL DEF Spec

\* The state keeps its shape; the count of slots stays between 0 and the
\* number of members.
THEOREM TypeCorrect == Spec => []TypeOK
<1>1. IInv => TypeOK
  BY DEF IInv
<1> QED
  BY <1>1, Invariance, PTL

\* No slot leaks or is handed out twice, however grants, cancellations and
\* changes of the limit race.
THEOREM SlotsAddUp == Spec => []SlotsAccounted
<1>1. IInv => SlotsAccounted
  BY DEF IInv
<1> QED
  BY <1>1, Invariance, PTL

\* Nobody waits while a slot is free.
THEOREM WorkConserving == Spec => []NoIdleSlot
<1>1. IInv => NoIdleSlot
  BY DEF IInv
<1> QED
  BY <1>1, Invariance, PTL

\* The queue holds exactly those that wait, and a parked ticket never finds
\* its channel dropped.
THEOREM QueueExact == Spec => []QueueIsParked
<1>1. IInv => QueueIsParked
  BY DEF IInv
<1> QED
  BY <1>1, Invariance, PTL

\* A step in which promote is called, and in which promote alone admits, keeps
\* to the order of registration and to the limit.
LEMMA PromotionIsFair ==
    ASSUME IInv, NEW lim \in Limits, NEW act, act <= active, act \in Nat, NEW S, NEW ms,
           Agree(act, S, ms), Promote(lim, act, waiters, ms),
           \A m \in Member : ms[m] = "parked" <=> members[m] = "parked"
    PROVE  /\ active' > active => active' <= limit'
           /\ \A m, n \in Member :
                 m < n /\ members[m] = "parked" /\ members[n] = "parked" /\ members'[n] = "active"
                   => members'[m] # "parked"
<1>1. Hands(lim, act, S, ms)
  BY Promotion DEF IInv
<1>2. active' \in Nat /\ limit' \in Nat /\ active \in Nat
  <2>1. PICK G \in SUBSET Member : active' = Cardinality(S \union G)
    BY <1>1 DEF Hands, HandsTo
  <2>2. S \union G \in SUBSET Member
    BY DEF Agree
  <2> QED
    BY <1>1, <2>1, <2>2, Counting, MAssumption DEF Hands, IInv, TypeOK
<1> QED
  BY <1>1, <1>2 DEF Hands

\* What the two action properties say of one step.
LEMMA FairStep ==
    ASSUME IInv, [Next]_vars
    PROVE  /\ active' > active => active' <= limit'
           /\ \A m, n \in Member :
                 m < n /\ members[m] = "parked" /\ members[n] = "parked" /\ members'[n] = "active"
                   => members'[m] # "parked"
<1> DEFINE Fair == /\ active' > active => active' <= limit'
                   /\ \A m, n \in Member :
                         /\ m < n /\ members[m] = "parked" /\ members[n] = "parked"
                         /\ members'[n] = "active"
                         => members'[m] # "parked"
<1>1. CASE Register
  <2>1. members[nextId] = "absent" /\ nextId \in Member /\ active \in Nat /\ limit \in Nat
    BY <1>1, MAssumption DEF Register, IInv, Tickets, TicketsOf, TypeOK, Member
  <2>2. \A n \in Member : members[n] = "parked" => members'[n] = "parked"
    BY <1>1, <2>1 DEF Register, IInv, TypeOK
  <2>3. active' > active => active' <= limit'
    BY <1>1, <2>1 DEF Register, HasSlot
  <2> QED
    BY <2>2, <2>3
<1>2. ASSUME NEW l \in Limits, SetLimit(l)  PROVE Fair
  <2>1. Agree(active, SlotHolders, members) /\ Promote(l, active, waiters, members)
    BY <1>2 DEF SetLimit, Agree, IInv, TypeOK, Tickets, TicketsOf, SlotsAccounted,
                SlotHolders, QueueIsParked
  <2>2. active \in Nat /\ active <= active
    BY MAssumption DEF IInv, TypeOK
  <2> QED
    BY <2>1, <2>2, PromotionIsFair
<1>3. CASE \/ \E p, a \in BOOLEAN : Cancel(p, a)
           \/ \E m \in Member : \/ Fire(m) \/ CancelledFromOutside(m) \/ AcquireAdmitted(m)
                                \/ PollToken(m) \/ AcquireGranted(m) \/ PollPending(m)
                                \/ AcquireCancelled(m)
           \/ UNCHANGED vars
  BY <1>3 DEF Cancel, Fire, CancelledFromOutside, AcquireAdmitted, PollToken,
              AcquireGranted, PollPending, AcquireCancelled, vars, IInv, TypeOK
<1>4. ASSUME NEW m \in Member, members[m] = "active", rx[m] # "open", m < nextId,
             NEW p \in {"gone", "done"}, pc' = [pc EXCEPT ![m] = p],
             Promote(limit, active - 1, waiters, Without(m))
      PROVE  Fair
  <2>1. Agree(active - 1, HoldersAt(pc'), Without(m))
    BY <1>4, GivesBack
  <2>2. active - 1 \in Nat /\ active - 1 <= active
    <3>1. HoldersAt(pc') \in SUBSET Member /\ active - 1 = Cardinality(HoldersAt(pc'))
      BY <2>1 DEF Agree
    <3> QED
      BY <3>1, Counting DEF IInv, TypeOK
  <2>3. \A n \in Member : Without(m)[n] = "parked" <=> members[n] = "parked"
    BY <1>4 DEF Without, IInv, TypeOK
  <2> QED
    BY <1>4, <2>1, <2>2, <2>3, PromotionIsFair DEF IInv, TypeOK
<1>5. ASSUME NEW m \in Member, CancelParked(m)  PROVE Fair
  <2>1. /\ pc' = [pc EXCEPT ![m] = "gone"] /\ rx[m] # "open" /\ m < nextId
    BY <1>5, PastSelect DEF CancelParked, Goto
  <2>2. CASE members[m] = "active"
    BY <1>4, <1>5, <2>1, <2>2 DEF CancelParked
  <2>3. CASE members[m] # "active"
    BY <1>5, <2>3 DEF CancelParked, Without, IInv, TypeOK
  <2> QED
    BY <2>2, <2>3
<1>6. ASSUME NEW m \in Member, Release(m)  PROVE Fair
  <2>1. /\ pc' = [pc EXCEPT ![m] = "done"] /\ rx[m] # "open" /\ m < nextId
    BY <1>6, PastSelect DEF Release, Goto
  <2>2. members[m] = "active"
    BY <1>6, ReleaseStep
  <2> QED
    BY <1>4, <1>6, <2>1, <2>2 DEF Release
<1> QED
  BY <1>1, <1>2, <1>3, <1>5, <1>6 DEF Next

\* Admission is first come, first served.
THEOREM FirstComeFirstServed == Spec => AdmitsInOrder
<1>1. IInv /\ [Next]_vars =>
        [\A m, n \in Member : /\ m < n
                              /\ members[m] = "parked" /\ members[n] = "parked"
                              /\ members'[n] = "active"
                              => members'[m] # "parked"]_vars
  BY FairStep
<1> QED
  BY <1>1, Invariance, PTL DEF Spec, AdmitsInOrder

\* No admission exceeds the limit.
THEOREM LimitKept == Spec => AdmitsWithinLimit
<1>1. IInv /\ [Next]_vars => [active' > active => active' <= limit']_vars
  BY FairStep
<1> QED
  BY <1>1, Invariance, PTL DEF Spec, AdmitsWithinLimit

=============================================================================
