----------------------------- MODULE Tlab_proofs ------------------------------
(***************************************************************************)
(* Allocation in Gen0, for every number of holders and whatever the sizes  *)
(* of buffers and chunks: the buffers in use are disjoint intervals below  *)
(* the cursor and, once handed out, below the length of the space.         *)
(***************************************************************************)
EXTENDS Tlab, TLAPS

\* Who may still write where: a buffer survives its holder's parking, until a
\* collection clears the space.
Refilling(h) == pc[h] \in {"refill", "growing"}

HasBuffer(h) ==
    /\ pc[h] = "running" \/ (pc[h] = "parked" /\ gc = "idle")
    /\ ptr[h] < limit[h]

Claims(h) == Refilling(h) \/ HasBuffer(h)

Lo(h) == IF Refilling(h) THEN reserved[h] ELSE ptr[h] - CtLen
Hi(h) == IF Refilling(h) THEN ReserveEnd(h) ELSE limit[h] - CtLen

Apart(h, k) == Hi(h) <= Lo(k) \/ Hi(k) <= Lo(h)

Off(s, h) == s < Lo(h) \/ Hi(h) <= s

Intervals ==
    /\ next <= MaxNext
    /\ \A h \in Holder : Claims(h) => 0 <= Lo(h) /\ Hi(h) <= next
    /\ \A h \in Holder : HasBuffer(h) => Hi(h) <= len
    /\ \A h, k \in Holder : h # k /\ Claims(h) /\ Claims(k) => Apart(h, k)

Contents ==
    /\ \A o \in objects : o[1] < next
                          /\ \A h \in Holder : Claims(h) => Off(o[1], h)
    /\ \A c \in canaries : c < next
                           /\ \A h \in Holder : Claims(h) => Off(c, h)

\* The growth that a refill under the growth lock has found to be missing.
Growth ==
    /\ Backed /\ RangeIncreases
    /\ \A h \in Holder : call[h] # <<>> =>
            pc[h] = "growing" /\ call[h] = <<"resize", ReserveEnd(h)>>
            /\ len < ReserveEnd(h)
    /\ \A h \in Holder : pc[h] = "growing" /\ call[h] = <<>> => ReserveEnd(h) <= len

Outsiders ==
    /\ \A h \in Holder : pc[h] = "unknown" => ptr[h] = 0 /\ limit[h] = 0
    /\ gc = "cleared" => \A h \in Holder : ~Active(h)

IInv == TypeOK /\ Intervals /\ Contents /\ Growth /\ Outsiders

USE ChunkAssumption, TlabAssumption

-----------------------------------------------------------------------------
(* The arithmetic of chunks.                                               *)

\* Enough chunks are allocated for a length.
LEMMA Rounds ==
    ASSUME NEW n \in Nat
    PROVE  Needed(n) \in Nat /\ n <= Needed(n) * ChunkSize
  BY DEF Needed

\* Bounds of intervals are numbers.
LEMMA Bounds ==
    ASSUME TypeOK, NEW h \in Holder
    PROVE  Lo(h) \in Int /\ Hi(h) \in Int /\ ReserveEnd(h) \in Nat
<1>1. ptr[h] \in Nat /\ limit[h] \in Nat /\ reserved[h] \in Nat
  BY DEF TypeOK
<1>2. TlabSize \in Nat /\ Canary \in Nat /\ CtLen \in Nat
  OBVIOUS
<1>3. QED
  BY <1>1, <1>2 DEF Lo, Hi, ReserveEnd

\* More chunks hold no less.
LEMMA Larger ==
    ASSUME NEW a \in Nat, NEW b \in Nat, NEW n \in Nat, n <= b * ChunkSize
    PROVE  AtLeast(a, b) \in Nat /\ n <= AtLeast(a, b) * ChunkSize
  BY DEF AtLeast

-----------------------------------------------------------------------------
(* Each step preserves the invariant.                                      *)

\* At first nobody has a buffer.
LEMMA InitIInv == Init => IInv
  BY DEF Init, CInit, IInv, TypeOK, Intervals, Contents, Growth, Outsiders, Backed,
      RangeIncreases,
         Claims, HasBuffer, Refilling, Active, Holder

\* A step of one holder: it keeps part of what it had, or takes what lies above
\* the cursor, and writes within what it had.
Keeps(h) ==
    /\ gc' = gc /\ next <= next' /\ next' <= MaxNext /\ len <= len'
    /\ \A k \in Holder \ {h} : /\ pc'[k] = pc[k] /\ ptr'[k] = ptr[k]
                               /\ limit'[k] = limit[k] /\ reserved'[k] = reserved[k]
    /\ Claims(h)' => /\ 0 <= Lo(h)' /\ Hi(h)' <= next'
                     /\ \/ next <= Lo(h)'
                        \/ Claims(h) /\ Lo(h) <= Lo(h)' /\ Hi(h)' <= Hi(h)
    /\ HasBuffer(h)' => Hi(h)' <= len'

Writes(h, s) ==
    /\ Claims(h) /\ Lo(h) <= s /\ s < Hi(h)
    /\ Claims(h)' => Off(s, h)'

\* Such a step keeps the intervals apart.
LEMMA Frame ==
    ASSUME IInv, TypeOK', NEW h \in Holder, Keeps(h),
           \A o \in objects' \ objects : Writes(h, o[1]),
           \A c \in canaries' \ canaries : Writes(h, c)
    PROVE  Intervals' /\ Contents'
<1> USE DEF IInv, Keeps
<1>1. \A k \in Holder \ {h} : /\ Claims(k)' = Claims(k) /\ HasBuffer(k)' = HasBuffer(k)
                              /\ Lo(k)' = Lo(k) /\ Hi(k)' = Hi(k)
  BY DEF Claims, HasBuffer, Refilling, Lo, Hi, ReserveEnd
<1>2. \A k \in Holder : Lo(k) \in Int /\ Hi(k) \in Int
  BY Bounds
<1>3. Lo(h)' \in Int /\ Hi(h)' \in Int
  BY DEF TypeOK, Lo, Hi, Refilling, ReserveEnd
<1>4. next \in Int /\ next' \in Int /\ len \in Int /\ len' \in Int /\ MaxNext \in Int
  BY DEF TypeOK
<1>5. ASSUME NEW k \in Holder \ {h}, Claims(h)', Claims(k)
      PROVE  Hi(h)' <= Lo(k) \/ Hi(k) <= Lo(h)'
  <2>1. 0 <= Lo(k) /\ Hi(k) <= next /\ (Claims(h) => Apart(h, k))
    BY <1>5 DEF Intervals
  <2>2. QED
    BY <1>2, <1>3, <1>4, <1>5, <2>1 DEF Apart
<1>6. Intervals'
  <2>1. ASSUME NEW k \in Holder, Claims(k)'
        PROVE  0 <= Lo(k)' /\ Hi(k)' <= next'
    BY <1>1, <1>2, <1>4, <2>1 DEF Intervals
  <2>2. ASSUME NEW k \in Holder, HasBuffer(k)'
        PROVE  Hi(k)' <= len'
    BY <1>1, <1>2, <1>4, <2>2 DEF Intervals
  <2>3. ASSUME NEW j \in Holder, NEW k \in Holder, j # k, Claims(j)', Claims(k)'
        PROVE  Apart(j, k)'
    <3>1. CASE j # h /\ k # h
      BY <1>1, <2>3, <3>1 DEF Intervals, Apart
    <3>2. CASE j = h
      BY <1>1, <1>5, <2>3, <3>2 DEF Apart
    <3>3. CASE k = h
      BY <1>1, <1>5, <2>3, <3>3 DEF Apart
    <3>4. QED
      BY <3>1, <3>2, <3>3
  <2>4. QED
    BY <2>1, <2>2, <2>3 DEF Intervals
<1>7. ASSUME NEW s \in Int,
             \/ s < next /\ \A k \in Holder : Claims(k) => Off(s, k)
             \/ Writes(h, s)
      PROVE  s < next' /\ \A k \in Holder : Claims(k)' => Off(s, k)'
  <2>1. CASE Writes(h, s)
    <3>1. s < next'
      BY <1>2, <1>4, <2>1 DEF Writes, Intervals
    <3>2. ASSUME NEW k \in Holder \ {h}, Claims(k)
          PROVE  Off(s, k)
      <4>1. Apart(h, k)
        BY <2>1, <3>2 DEF Writes, Intervals
      <4>2. QED
        BY <1>2, <2>1, <4>1 DEF Writes, Apart, Off
    <3>3. QED
      BY <1>1, <2>1, <3>1, <3>2 DEF Writes, Off
  <2>2. CASE s < next /\ \A k \in Holder : Claims(k) => Off(s, k)
    <3>1. Claims(h)' => Off(s, h)'
      BY <1>2, <1>3, <1>4, <2>2 DEF Off
    <3>2. QED
      BY <1>1, <1>4, <2>2, <3>1 DEF Off
  <2>3. QED
    BY <1>7, <2>1, <2>2
<1>8. Contents'
  <2>1. \A o \in objects' : o[1] \in Int
    BY DEF TypeOK
  <2>2. \A c \in canaries' : c \in Int
    BY DEF TypeOK
  <2>3. QED
    BY <1>7, <2>1, <2>2 DEF Contents
<1>9. QED
  BY <1>6, <1>8

\* Steps outside the growth lock that give no new buffer.
LEMMA LifeStep ==
    ASSUME IInv, NEW h \in Holder,
           Create(h) \/ Register(h) \/ Acquire(h) \/ Park(h) \/ Leave(h)
    PROVE  IInv'
<1>1. TypeOK /\ UNCHANGED <<cvars, next, growth, reserved, objects, canaries, gc>>
  BY DEF IInv, Create, Register, Acquire, Park, Leave
<1>2. /\ ptr \in [Holder -> Nat] /\ limit \in [Holder -> Nat]
      /\ pc \in [Holder -> {"absent", "unknown", "parked", "running", "refill",
                            "growing"}]
  BY <1>1 DEF TypeOK
<1>3. /\ pc[h] \notin {"refill", "growing"} /\ pc'[h] \notin {"refill", "growing"}
      /\ \A k \in Holder \ {h} : /\ pc'[k] = pc[k] /\ ptr'[k] = ptr[k]
                                 /\ limit'[k] = limit[k]
      /\ ptr' \in [Holder -> Nat] /\ limit' \in [Holder -> Nat]
      /\ pc' \in [Holder -> {"absent", "unknown", "parked", "running", "refill",
                             "growing"}]
  BY <1>2 DEF Create, Register, Acquire, Park, Leave, Goto
<1> USE DEF Create, Register, Acquire, Park, Leave, Goto, IInv
<1>0. TypeOK'
  BY <1>1, <1>2, <1>3 DEF TypeOK, cvars
<1>4. HasBuffer(h)' => /\ HasBuffer(h) /\ ptr'[h] = ptr[h] /\ limit'[h] = limit[h]
  BY <1>1, <1>3 DEF HasBuffer, TypeOK, Outsiders
<1>5. Claims(h)' => Claims(h) /\ Lo(h)' = Lo(h) /\ Hi(h)' = Hi(h)
  BY <1>1, <1>3, <1>4 DEF Claims, Refilling, Lo, Hi
<1>6. next \in Int /\ len \in Int /\ Lo(h) \in Int /\ Hi(h) \in Int
  <2>1. TypeOK
    BY <1>1
  <2> HIDE DEF IInv
  <2>2. Lo(h) \in Int /\ Hi(h) \in Int
    BY <2>1, Bounds
  <2>3. QED
    BY <2>1, <2>2 DEF TypeOK
<1>7. Keeps(h)
  BY <1>1, <1>3, <1>4, <1>5, <1>6 DEF Keeps, Intervals, cvars, Claims
<1>8. Intervals' /\ Contents'
  BY <1>0, <1>1, <1>7, Frame
<1>9. Growth' /\ Outsiders'
  BY <1>1, <1>3 DEF Growth, Outsiders, Backed, RangeIncreases, ReserveEnd, cvars, Active,
      TypeOK
<1>10. QED
  BY <1>0, <1>8, <1>9

\* A refill reserves what lies above the cursor.
LEMMA ReserveStep ==
    ASSUME IInv, NEW h \in Holder, Reserve(h)
    PROVE  IInv'
<1> USE DEF Reserve, Goto, IInv
<1>1. TypeOK /\ UNCHANGED <<cvars, growth, ptr, limit, objects, canaries, gc>>
  OBVIOUS
<1>2. TypeOK'
  BY <1>1 DEF TypeOK, cvars
<1>3. /\ pc'[h] = "refill" /\ reserved'[h] = next
      /\ \A k \in Holder \ {h} : pc'[k] = pc[k] /\ reserved'[k] = reserved[k]
  BY <1>1 DEF TypeOK
<1>4. Lo(h)' = next /\ Hi(h)' = next' /\ ~HasBuffer(h)'
  BY <1>3 DEF Lo, Hi, Refilling, ReserveEnd, HasBuffer
<1>5. Keeps(h)
  BY <1>1, <1>3, <1>4 DEF Keeps, cvars, TypeOK
<1>6. Intervals' /\ Contents'
  BY <1>1, <1>2, <1>5, Frame
<1>7. Growth' /\ Outsiders'
  BY <1>1, <1>3 DEF Growth, Outsiders, Backed, RangeIncreases, ReserveEnd, cvars, Active
<1>8. QED
  BY <1>2, <1>6, <1>7

\* What taking the growth lock and growing the space have in common.
Grows(h) ==
    /\ UNCHANGED <<next, ptr, limit, reserved, objects, canaries, gc>>
    /\ pc[h] \in {"refill", "growing"} /\ pc'[h] = "growing"
    /\ \A k \in Holder \ {h} : pc'[k] = pc[k]
    /\ pc' \in [Holder -> {"absent", "unknown", "parked", "running", "refill",
                           "growing"}]
    /\ growth \in {h, NoHolder} /\ growth' = h
    /\ len <= len' /\ len' \in Nat /\ chunks' \in Nat /\ granted' \in Nat
    /\ Backed' /\ RangeIncreases'
    /\ call' \in [Holder -> {<<>>} \union ({"resize"} \X Nat)]
    /\ \A k \in Holder \ {h} : call'[k] = call[k]
    /\ call'[h] # <<>> => call'[h] = <<"resize", ReserveEnd(h)>> /\ len' < ReserveEnd(h)
    /\ call'[h] = <<>> => ReserveEnd(h) <= len'

\* One holder at a time grows the space, up to the end of what it has reserved.
LEMMA GrowsStep ==
    ASSUME IInv, NEW h \in Holder, Grows(h)
    PROVE  IInv'
<1> USE DEF IInv
<1>1. /\ \A k \in Holder \ {h} : pc'[k] = pc[k] /\ pc[k] # "growing"
      /\ pc'[h] = "growing" /\ pc[h] \in {"refill", "growing"}
      /\ \A k \in Holder : pc'[k] = "growing" <=> growth' = k
      /\ pc' \in [Holder -> {"absent", "unknown", "parked", "running", "refill",
                             "growing"}]
  <2>1. growth \in {h, NoHolder} /\ NoHolder \notin Holder /\ growth' = h
        /\ \A k \in Holder : pc[k] = "growing" <=> growth = k
    BY DEF Grows, TypeOK, Holder
  <2>2. QED
    BY <2>1 DEF Grows
<1>2. TypeOK'
  BY <1>1 DEF Grows, TypeOK
<1>3. /\ \A k \in Holder : /\ Refilling(k)' = Refilling(k)
                           /\ HasBuffer(k)' = HasBuffer(k)
                           /\ Lo(k)' = Lo(k) /\ Hi(k)' = Hi(k)
      /\ Claims(h) /\ ~HasBuffer(h) /\ ReserveEnd(h)' = ReserveEnd(h)
  BY <1>1 DEF Grows, Refilling, HasBuffer, Claims, Lo, Hi, ReserveEnd
<1>4. next \in Nat /\ Lo(h) \in Int /\ Hi(h) \in Int
  <2>1. TypeOK
    OBVIOUS
  <2> HIDE DEF IInv
  <2>2. Lo(h) \in Int /\ Hi(h) \in Int
    BY <2>1, Bounds
  <2>3. QED
    BY <2>1, <2>2 DEF TypeOK
<1>5. Keeps(h)
  BY <1>1, <1>3, <1>4 DEF Grows, Keeps, Intervals
<1>6. Intervals' /\ Contents'
  BY <1>2, <1>5, Frame DEF Grows
<1>7. Growth'
  BY <1>1, <1>3 DEF Grows, Growth, ReserveEnd
<1>8. Outsiders'
  BY <1>1 DEF Grows, Outsiders, Active
<1>9. QED
  BY <1>2, <1>6, <1>7, <1>8

\* The growth lock is taken by one holder, which finds out what is missing.
LEMMA LockStep ==
    ASSUME IInv, NEW h \in Holder, LockGrowth(h)
    PROVE  IInv'
<1>1. TypeOK /\ Growth
  BY DEF IInv
<1>2. ReserveEnd(h) \in Nat /\ len \in Nat /\ chunks \in Nat /\ granted \in Nat
  BY <1>1, Bounds DEF TypeOK
<1>3. /\ UNCHANGED <<next, ptr, limit, reserved, objects, canaries, gc>>
      /\ pc[h] = "refill" /\ pc'[h] = "growing"
      /\ \A k \in Holder \ {h} : pc'[k] = pc[k]
      /\ pc' \in [Holder -> {"absent", "unknown", "parked", "running", "refill",
                             "growing"}]
      /\ growth = NoHolder /\ growth' = h
      /\ call[h] = <<>>
      /\ Backed /\ RangeIncreases
  BY <1>1 DEF LockGrowth, Goto, Growth, TypeOK
<1>4. CASE len < ReserveEnd(h)
  <2>1. call' = [call EXCEPT ![h] = <<"resize", ReserveEnd(h)>>]
        /\ len' = len /\ chunks' = chunks /\ granted' = granted
    BY <1>4 DEF LockGrowth, ResizeBegin
  <2>2. /\ call' \in [Holder -> {<<>>} \union ({"resize"} \X Nat)]
        /\ \A k \in Holder \ {h} : call'[k] = call[k]
        /\ call'[h] = <<"resize", ReserveEnd(h)>> /\ call'[h] # <<>>
    BY <1>1, <1>2, <2>1 DEF TypeOK
  <2>3. Grows(h)
    BY <1>2, <1>3, <1>4, <2>1, <2>2 DEF Grows, Backed, RangeIncreases
  <2>4. QED
    BY <2>3, GrowsStep
<1>5. CASE ~(len < ReserveEnd(h))
  <2>1. call' = call /\ len' = len /\ chunks' = chunks /\ granted' = granted
    BY <1>5 DEF LockGrowth, cvars
  <2>2. Grows(h)
    BY <1>1, <1>2, <1>3, <1>5, <2>1 DEF Grows, Backed, RangeIncreases, TypeOK
  <2>3. QED
    BY <2>2, GrowsStep
<1>6. QED
  BY <1>4, <1>5

\* The space grows to the end of what was reserved, never below what it was.
LEMMA GrowStep ==
    ASSUME IInv, NEW h \in Holder, Grow(h)
    PROVE  IInv'
<1>1. TypeOK /\ Growth
  BY DEF IInv
<1>2. ReserveEnd(h) \in Nat /\ len \in Nat /\ chunks \in Nat /\ granted \in Nat
  BY <1>1, Bounds DEF TypeOK
<1>3. /\ UNCHANGED <<next, growth, pc, ptr, limit, reserved, objects, canaries, gc>>
      /\ pc[h] = "growing" /\ growth = h
      /\ call[h] = <<"resize", ReserveEnd(h)>> /\ len < ReserveEnd(h)
  BY <1>1 DEF Grow, ResizeEnd, Growth, TypeOK
<1>4. /\ len' = ReserveEnd(h) /\ chunks' = AtLeast(chunks, Needed(ReserveEnd(h)))
      /\ granted' = AtLeast(granted, ReserveEnd(h))
      /\ call' = [call EXCEPT ![h] = <<>>]
  BY <1>3 DEF Grow, ResizeEnd
<1>5. Needed(ReserveEnd(h)) \in Nat
      /\ ReserveEnd(h) <= Needed(ReserveEnd(h)) * ChunkSize
  BY <1>2, Rounds
<1>6. ReserveEnd(h) <= chunks' * ChunkSize /\ chunks' \in Nat
  BY <1>2, <1>4, <1>5, Larger
<1>7. granted' \in Nat /\ granted' <= len'
  <2>1. granted <= len
    BY <1>1 DEF Growth, RangeIncreases
  <2>2. QED
    BY <1>2, <1>3, <1>4, <2>1 DEF AtLeast
<1>8. /\ call' \in [Holder -> {<<>>} \union ({"resize"} \X Nat)]
      /\ \A k \in Holder \ {h} : call'[k] = call[k]
      /\ call'[h] = <<>>
  BY <1>1, <1>4 DEF TypeOK
<1>9. pc \in [Holder -> {"absent", "unknown", "parked", "running", "refill",
                          "growing"}]
  BY <1>1 DEF TypeOK
<1>10. Grows(h)
  BY <1>2, <1>3, <1>4, <1>6, <1>7, <1>8, <1>9 DEF Grows, Backed, RangeIncreases
<1>11. QED
  BY <1>10, GrowsStep

\* The buffer that is handed out lies within what was reserved, and its canary
\* behind it.
LEMMA HandOutStep ==
    ASSUME IInv, NEW h \in Holder, HandOut(h)
    PROVE  IInv'
<1>1. TypeOK /\ Growth /\ Intervals
  BY DEF IInv
<1>2. /\ pc[h] = "growing" /\ call[h] = <<>> /\ growth = h /\ growth' = NoHolder
      /\ UNCHANGED <<cvars, next, reserved, objects, gc>>
      /\ ReserveEnd(h) <= len
      /\ reserved[h] \in Nat /\ len \in Nat /\ next \in Nat /\ MaxNext \in Nat
      /\ TlabSize \in Nat /\ CtLen \in Nat /\ Canary \in {0, 1}
  BY <1>1 DEF HandOut, TypeOK, Growth
<1> DEFINE end == reserved[h] + TlabSize
<1>3. /\ pc'[h] = "running" /\ ptr'[h] = CtLen + reserved[h] /\ limit'[h] = CtLen + end
      /\ \A k \in Holder \ {h} : pc'[k] = pc[k] /\ ptr'[k] = ptr[k] /\ limit'[k] = limit[k]
      /\ pc' \in [Holder -> {"absent", "unknown", "parked", "running", "refill",
                             "growing"}]
      /\ ptr' \in [Holder -> Nat] /\ limit' \in [Holder -> Nat]
  BY <1>1, <1>2 DEF HandOut, Goto, TypeOK
<1>4. canaries' = IF Canary = 1 THEN canaries \union {end} ELSE canaries
  BY DEF HandOut
<1>5. TypeOK'
  <2>1. \A k \in Holder : pc'[k] = "growing" <=> growth' = k
    BY <1>1, <1>2, <1>3 DEF TypeOK, Holder
  <2>2. canaries' \subseteq Nat
    BY <1>1, <1>2, <1>4 DEF TypeOK
  <2>3. QED
    BY <1>1, <1>2, <1>3, <2>1, <2>2 DEF TypeOK, cvars
<1>6. /\ Lo(h) = reserved[h] /\ Hi(h) = ReserveEnd(h) /\ Claims(h)
      /\ Lo(h)' = reserved[h] /\ Hi(h)' = end
  BY <1>2, <1>3 DEF Lo, Hi, Refilling, Claims
<1>7. Hi(h) <= next
  BY <1>1, <1>6 DEF Intervals
<1>8. Keeps(h)
  BY <1>1, <1>2, <1>3, <1>6, <1>7 DEF Keeps, Intervals, ReserveEnd, cvars
<1>9. \A c \in canaries' \ canaries : Writes(h, c)
  <2>1. ASSUME NEW c \in canaries' \ canaries
        PROVE  c = end /\ Canary = 1
    BY <1>4, <2>1
  <2>2. QED
    BY <1>2, <1>6, <2>1 DEF Writes, Off, ReserveEnd
<1>10. Intervals' /\ Contents'
  BY <1>2, <1>5, <1>8, <1>9, Frame
<1>11. Growth' /\ Outsiders'
  BY <1>2, <1>3 DEF IInv, Growth, Outsiders, Backed, RangeIncreases, ReserveEnd, cvars,
      Active
<1>12. QED
  BY <1>5, <1>10, <1>11 DEF IInv

\* An allocation takes the first slot of what is left of the buffer.
LEMMA AllocStep ==
    ASSUME IInv, NEW h \in Holder, Alloc(h)
    PROVE  /\ IInv'
           /\ \E s \in 0..MaxNext : /\ \A p \in Holder : <<s, p>> \notin objects
                                    /\ objects' = objects \union {<<s, h>>}
<1> DEFINE s == ptr[h] - CtLen
<1>1. TypeOK /\ Intervals /\ Contents
  BY DEF IInv
<1>2. /\ pc[h] = "running" /\ ptr[h] < limit[h]
      /\ UNCHANGED <<cvars, next, growth, pc, limit, reserved, gc>>
      /\ ptr[h] \in Nat /\ limit[h] \in Nat /\ len \in Nat /\ next \in Nat
      /\ CtLen \in Nat /\ MaxNext \in Nat
  BY <1>1 DEF Alloc, TypeOK
<1>3. Claims(h) /\ HasBuffer(h) /\ Lo(h) = s /\ Hi(h) = limit[h] - CtLen
  BY <1>2 DEF Claims, HasBuffer, Lo, Hi, Refilling
<1>4. 0 <= s /\ s < next /\ limit[h] - CtLen <= next /\ limit[h] - CtLen <= len
      /\ next <= MaxNext
  BY <1>1, <1>2, <1>3 DEF Intervals
<1>5. /\ \A o \in objects : o[1] # s
      /\ s \notin canaries
  BY <1>1, <1>2, <1>3 DEF Contents, Off
<1>6. objects' = objects \union {<<s, h>>} /\ canaries' = canaries
  BY <1>5 DEF Alloc
<1>7. ptr' = [ptr EXCEPT ![h] = @ + 1]
  BY DEF Alloc
<1>8. TypeOK'
  <2>1. s \in Nat
    BY <1>2, <1>4
  <2>2. objects' \subseteq Nat \X Holder
    BY <1>1, <1>6, <2>1 DEF TypeOK
  <2>3. QED
    BY <1>1, <1>2, <1>6, <1>7, <2>2 DEF TypeOK, cvars
<1>9. /\ ptr'[h] = ptr[h] + 1
      /\ \A k \in Holder \ {h} : ptr'[k] = ptr[k]
  BY <1>1, <1>7 DEF TypeOK
<1>10. Lo(h)' = s + 1 /\ Hi(h)' = Hi(h)
  BY <1>2, <1>9 DEF Lo, Hi, Refilling
<1>11. Keeps(h)
  BY <1>2, <1>3, <1>4, <1>9, <1>10 DEF Keeps, cvars
<1>12. \A o \in objects' \ objects : Writes(h, o[1])
  BY <1>2, <1>3, <1>6, <1>10 DEF Writes, Off
<1>13. Intervals' /\ Contents'
  BY <1>6, <1>8, <1>11, <1>12, Frame
<1>14. Growth' /\ Outsiders'
  BY <1>2, <1>9 DEF IInv, Growth, Outsiders, Backed, RangeIncreases, ReserveEnd, cvars,
      Active
<1>15. s \in 0..MaxNext /\ \A p \in Holder : <<s, p>> \notin objects
  BY <1>2, <1>4, <1>5
<1>16. QED
  BY <1>6, <1>8, <1>13, <1>14, <1>15 DEF IInv

\* A collection clears the space while nobody allocates.
LEMMA ClearStep == IInv /\ ClearGen0 => IInv'
<1> SUFFICES ASSUME IInv, ClearGen0 PROVE IInv'
  OBVIOUS
<1>1. TypeOK /\ Outsiders
  BY DEF IInv
<1>2. /\ len' = 0 /\ chunks' = 0 /\ granted' = 0 /\ call' = call /\ next' = 0
      /\ objects' = {} /\ canaries' = {} /\ gc' = "cleared"
      /\ UNCHANGED <<growth, pc, ptr, limit, reserved>>
      /\ \A h \in Holder : call[h] = <<>> /\ ~Active(h)
  BY DEF ClearGen0, Clear, Holder
<1>3. TypeOK'
  BY <1>1, <1>2 DEF TypeOK
<1>4. \A h \in Holder : ~Claims(h)' /\ ~HasBuffer(h)'
  BY <1>2 DEF Claims, HasBuffer, Refilling, Active
<1>5. Intervals' /\ Contents'
  BY <1>2, <1>4 DEF Intervals, Contents
<1>6. Growth' /\ Outsiders'
  BY <1>1, <1>2 DEF Growth, Outsiders, Backed, RangeIncreases, Active
<1>7. QED
  BY <1>3, <1>5, <1>6 DEF IInv

\* The holders that might still have a buffer of the old space lose it.
LEMMA InvalidateStep == IInv /\ Invalidate => IInv'
<1> SUFFICES ASSUME IInv, Invalidate PROVE IInv'
  OBVIOUS
<1>1. TypeOK /\ Outsiders /\ Intervals /\ Contents /\ Growth
  BY DEF IInv
<1>2. /\ UNCHANGED <<cvars, next, growth, pc, reserved, objects, canaries>>
      /\ gc = "cleared" /\ gc' = "idle"
      /\ \A h \in Holder : ~Active(h)
      /\ \A h \in Holder : pc[h] = "parked" => ptr'[h] = 0 /\ limit'[h] = 0
      /\ \A h \in Holder : pc[h] # "parked" => ptr'[h] = ptr[h] /\ limit'[h] = limit[h]
      /\ ptr' \in [Holder -> Nat] /\ limit' \in [Holder -> Nat]
  BY <1>1 DEF Invalidate, Outsiders, TypeOK
<1>3. TypeOK'
  BY <1>1, <1>2 DEF TypeOK, cvars
<1>4. \A h \in Holder : ~Claims(h) /\ ~Claims(h)' /\ ~HasBuffer(h)'
  BY <1>2 DEF Claims, HasBuffer, Refilling, Active
<1>5. Intervals' /\ Contents'
  BY <1>1, <1>2, <1>4 DEF Intervals, Contents
<1>6. Growth' /\ Outsiders'
  BY <1>1, <1>2 DEF Growth, Outsiders, Backed, RangeIncreases, Active, cvars, ReserveEnd
<1>7. QED
  BY <1>3, <1>5, <1>6 DEF IInv

\* Every step preserves the invariant.
LEMMA NextIInv == IInv /\ [Next]_vars => IInv'
<1> SUFFICES ASSUME IInv, [Next]_vars PROVE IInv'
  OBVIOUS
<1>1. CASE UNCHANGED vars
  BY <1>1 DEF vars, cvars, IInv, TypeOK, Intervals, Contents, Growth, Outsiders,
              Backed, RangeIncreases, Claims, HasBuffer, Refilling, Lo, Hi, ReserveEnd,
              Apart, Off, Active
<1>2. ASSUME NEW h \in Holder,
             \/ Create(h) \/ Register(h) \/ Acquire(h) \/ Park(h) \/ Leave(h)
             \/ Reserve(h) \/ LockGrowth(h) \/ Grow(h) \/ HandOut(h) \/ Alloc(h)
      PROVE  IInv'
  BY <1>2, LifeStep, ReserveStep, LockStep, GrowStep, HandOutStep, AllocStep
<1>3. QED
  BY <1>1, <1>2, ClearStep, InvalidateStep DEF Next

-----------------------------------------------------------------------------
(* The theorems.                                                           *)

\* The invariant holds in every reachable state of the nursery.
THEOREM Invariance == Spec => []IInv
<1>1. Init => IInv
  BY InitIInv
<1>2. IInv /\ [Next]_vars => IInv'
  BY NextIInv
<1>3. QED
  BY <1>1, <1>2, PTL DEF Spec

\* Whoever grows the space holds the growth lock.
THEOREM TypeCorrect == Spec => []TypeOK
<1>1. IInv => TypeOK
  BY DEF IInv
<1>2. QED
  BY <1>1, Invariance, PTL

\* Buffers lie below the length of the space, whatever order it grew in.
THEOREM InBounds == Spec => []BuffersInBounds
<1>1. IInv => BuffersInBounds
  <2> SUFFICES ASSUME IInv PROVE BuffersInBounds
    OBVIOUS
  <2>1. TypeOK /\ Intervals /\ Growth
    BY DEF IInv
  <2>2. ASSUME NEW h \in Holder, pc[h] = "running", ptr[h] < limit[h]
        PROVE  CtLen <= ptr[h] /\ limit[h] <= CtLen + len
    <3>1. HasBuffer(h) /\ Claims(h) /\ Lo(h) = ptr[h] - CtLen /\ Hi(h) = limit[h] - CtLen
      BY <2>2 DEF HasBuffer, Claims, Lo, Hi, Refilling
    <3>2. 0 <= ptr[h] - CtLen /\ limit[h] - CtLen <= len
      BY <2>1, <3>1 DEF Intervals
    <3>3. ptr[h] \in Nat /\ limit[h] \in Nat /\ len \in Nat /\ CtLen \in Nat
      BY <2>1 DEF TypeOK
    <3>4. QED
      BY <3>2, <3>3
  <2>3. QED
    BY <2>1, <2>2 DEF BuffersInBounds, Growth
<1>2. QED
  BY <1>1, Invariance, PTL

\* What a holder may write lies in its interval.
LEMMA MineIsClaimed ==
    ASSUME IInv, NEW h \in Holder, NEW s \in Mine(h)
    PROVE  s \in Int /\ Claims(h) /\ Lo(h) <= s /\ s < Hi(h)
<1>1. TypeOK
  BY DEF IInv
<1>2. /\ ptr[h] \in Nat /\ limit[h] \in Nat /\ reserved[h] \in Nat /\ next \in Nat
      /\ CtLen \in Nat /\ TlabSize \in Nat /\ Canary \in Nat
  BY <1>1 DEF TypeOK
<1>3. CASE pc[h] = "running"
  <2>1. s \in 0..(next - 1) /\ ptr[h] <= CtLen + s /\ CtLen + s < limit[h]
    BY <1>3 DEF Mine
  <2>2. Lo(h) = ptr[h] - CtLen /\ Hi(h) = limit[h] - CtLen
    BY <1>3 DEF Lo, Hi, Refilling
  <2>3. Claims(h)
    BY <1>2, <1>3, <2>1 DEF Claims, HasBuffer
  <2>4. QED
    BY <1>2, <2>1, <2>2, <2>3
<1>4. CASE pc[h] \in {"refill", "growing"}
  <2>1. s \in reserved[h]..(ReserveEnd(h) - 1)
    BY <1>4 DEF Mine
  <2>2. Lo(h) = reserved[h] /\ Hi(h) = ReserveEnd(h) /\ Claims(h)
    BY <1>4 DEF Lo, Hi, Refilling, Claims
  <2>3. QED
    BY <1>2, <2>1, <2>2 DEF ReserveEnd
<1>5. QED
  BY <1>3, <1>4 DEF Mine

\* No two holders ever write to the same slot.
THEOREM Disjoint == Spec => []BuffersDisjoint
<1>1. IInv => BuffersDisjoint
  <2> SUFFICES ASSUME IInv, NEW h \in Holder, NEW k \in Holder, h # k,
                      NEW s \in Mine(h), s \in Mine(k)
               PROVE  FALSE
    BY DEF BuffersDisjoint
  <2>1. /\ s \in Int /\ Claims(h) /\ Lo(h) <= s /\ s < Hi(h)
        /\ Claims(k) /\ Lo(k) <= s /\ s < Hi(k)
    BY MineIsClaimed
  <2>2. Apart(h, k)
    BY <2>1 DEF IInv, Intervals
  <2>3. Lo(h) \in Int /\ Hi(h) \in Int /\ Lo(k) \in Int /\ Hi(k) \in Int
    BY Bounds DEF IInv
  <2>4. QED
    BY <2>1, <2>2, <2>3 DEF Apart
<1>2. QED
  BY <1>1, Invariance, PTL

\* The length of the space never falls below what a refill was granted.
THEOREM RangeGrows == Spec => []RangeIncreases
<1>1. IInv => RangeIncreases
  BY DEF IInv, Growth
<1>2. QED
  BY <1>1, Invariance, PTL

\* In debug mode no canary is ever overwritten.
THEOREM CanariesStay == Spec => []CanariesIntact
<1>1. IInv => CanariesIntact
  <2> SUFFICES ASSUME IInv, NEW h \in Holder, NEW c \in canaries, c \in Mine(h)
               PROVE  FALSE
    BY DEF CanariesIntact
  <2>1. c \in Int /\ Claims(h) /\ Lo(h) <= c /\ c < Hi(h)
    BY MineIsClaimed
  <2>2. Off(c, h)
    BY <2>1 DEF IInv, Contents
  <2>3. Lo(h) \in Int /\ Hi(h) \in Int
    BY Bounds DEF IInv
  <2>4. QED
    BY <2>1, <2>2, <2>3 DEF Off
<1>2. QED
  BY <1>1, Invariance, PTL

\* The nursery implements the contract of slots.
THEOREM Refinement == Spec => AllocatesAsPromised
<1>1. Init => Contract!SInit
  BY DEF Init, Contract!SInit
<1>2. IInv /\ [Next]_vars => [Contract!Take \/ Contract!Reset]_objects
  <2> SUFFICES ASSUME IInv, [Next]_vars
               PROVE  Contract!Take \/ Contract!Reset \/ objects' = objects
    OBVIOUS
  <2>1. CASE \E h \in Holder : Alloc(h)
    BY <2>1, AllocStep DEF Contract!Take
  <2>2. CASE ClearGen0
    BY <2>2 DEF ClearGen0, Contract!Reset
  <2>3. QED
    BY <2>1, <2>2 DEF Next, vars, Create, Register, Acquire, Park, Leave, Reserve,
                      LockGrowth, Grow, HandOut, Invalidate
<1>3. QED
  BY <1>1, <1>2, Invariance, PTL DEF Spec, AllocatesAsPromised, Contract!SSpec
=============================================================================
