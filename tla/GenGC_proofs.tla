----------------------------- MODULE GenGC_proofs -----------------------------
(***************************************************************************)
(* The heap's invariants, for every number of tasks, handles, objects,     *)
(* addresses and cards, and whatever card an address lies on.              *)
(***************************************************************************)
EXTENDS GenGC, TLAPS

\* A task in the middle of a store refers to both objects, and the barrier
\* that comes first has marked the card by then.
StoreUnderWay ==
    \A t \in Task : pc[t] \in {"writing", "marking"} =>
        /\ store[t] \in Addr \X Addr
        /\ {store[t][1], store[t][2]} \subseteq stack[t]
        /\ pc[t] = "writing" /\ store[t][1] \in Old /\ store[t][2] \in Young
              => CardOf[store[t][1]] \in dirty

\* What the collector knows at each of its steps.
CollectorKnows ==
    /\ gc # "idle" => \A t \in Task : pc[t] = "parked"
    /\ gc = "copy" =>
          /\ \A t \in Task : stack[t] \subseteq roots
          /\ \A k \in Key : handles[k] \subseteq roots
          /\ roots \subseteq Used
    /\ gc \in {"handles", "forward"} =>
          /\ \A t \in Task : stack[t] \subseteq DOMAIN fwd
          /\ \A a \in DOMAIN fwd : fwd[a] \in Used

IInv ==
    /\ TypeOK
    /\ NoDangling
    /\ CardsCoverYoung
    /\ HandlesForwarded
    /\ StoreUnderWay
    /\ CollectorKnows

-----------------------------------------------------------------------------
(* The collector's operators.                                              *)

\* What is traced contains the roots, lies in the heap and is closed.
LEMMA TraceClosed ==
    ASSUME TypeOK, HeapClosed, NEW S \in SUBSET Used, NEW T \in SUBSET Used
    PROVE  /\ S \subseteq Trace(S, T)
           /\ Trace(S, T) \subseteq Used
           /\ \A c \in Trace(S, T) \cap T : ref[c] \subseteq Trace(S, T)
<1>1. S \subseteq Trace(S, T) /\ Trace(S, T) \subseteq Used
  BY DEF Trace
<1>2. ASSUME NEW c \in Trace(S, T) \cap T, NEW b \in ref[c]
      PROVE  b \in Trace(S, T)
  <2>1. b \in Used
    BY <1>2 DEF HeapClosed
  <2>2. ASSUME NEW C \in SUBSET Used,
               S \subseteq C, \A x \in C \cap T : ref[x] \subseteq C
        PROVE  b \in C
    <3>1. c \in C
      BY <1>2, <2>2 DEF Trace
    <3>2. QED
      BY <1>2, <2>2, <3>1
  <2>3. QED
    BY <2>1, <2>2 DEF Trace
<1>3. QED
  BY <1>1, <1>2

\* Every copy has a source, and only one.
LEMMA SourceOfCopy ==
    ASSUME NEW S \in SUBSET Addr, NEW m \in Moves(S)
    PROVE  /\ m \in [S -> Free]
           /\ Image(m) \subseteq Free
           /\ \A b \in Image(m) : Source(m, b) \in S /\ m[Source(m, b)] = b
           /\ \A a \in S : m[a] \in Image(m) /\ Source(m, m[a]) = a
<1>1. /\ m \in [S -> Free] /\ DOMAIN m = S
      /\ \A a, b \in S : m[a] = m[b] => a = b
  BY DEF Moves
<1>2. Image(m) \subseteq Free
  BY <1>1 DEF Image
<1>3. ASSUME NEW b \in Image(m)
      PROVE  Source(m, b) \in S /\ m[Source(m, b)] = b
  <2>1. \E a \in DOMAIN m : m[a] = b
    BY <1>3 DEF Image
  <2>2. QED
    BY <1>1, <2>1 DEF Source
<1>4. ASSUME NEW a \in S
      PROVE  m[a] \in Image(m) /\ Source(m, m[a]) = a
  <2>1. m[a] \in Image(m)
    BY <1>1, <1>4 DEF Image
  <2>2. QED
    BY <1>1, <1>3, <1>4, <2>1
<1>5. QED
  BY <1>1, <1>2, <1>3, <1>4

\* The collection that Relocate describes keeps in place old objects only, and
\* has traced whatever the objects that it moves or fixes up refer to.
TracedEnough(kept, fixed, reached, moved, m, target) ==
    /\ kept \in SUBSET Old /\ fixed \in SUBSET kept
    /\ reached \in SUBSET Used /\ moved = reached \ kept
    /\ m \in Moves(moved) /\ target \in [moved -> {"gen1", "gen2"}]
    /\ \A a \in moved : ref[a] \subseteq reached
    /\ \A a \in fixed : ref[a] \subseteq reached \union kept
    /\ \A a \in kept \ fixed : ref[a] \subseteq kept
    /\ Relocate(m, target, kept, fixed, Forwarding(reached, m))

\* It leaves the objects kept and the copies, which refer to each other only.
Compacted(kept, reached, m, target) ==
    /\ Used' = kept \union Image(m)
    /\ \A b \in kept : space'[b] = space[b]
    /\ \A b \in Image(m) : b \notin Used /\ space'[b] = target[Source(m, b)]
    /\ HeapClosed'
    /\ DOMAIN fwd' = reached
    /\ \A a \in reached : fwd'[a] \in Used'
    /\ space' \in [Addr -> {"free", "gen0", "gen1", "gen2"}]
    /\ obj' \in [Addr -> Object \union {NoObject}]
    /\ ref' \in [Addr -> SUBSET Addr]

\* Both collections compact the heap.
LEMMA Relocated ==
    ASSUME TypeOK, HeapClosed,
           NEW kept, NEW fixed, NEW reached, NEW moved, NEW m, NEW target,
           TracedEnough(kept, fixed, reached, moved, m, target)
    PROVE  Compacted(kept, reached, m, target)
<1> USE DEF TracedEnough
<1> DEFINE f == Forwarding(reached, m)
<1>1. moved \subseteq Addr /\ kept \subseteq Addr /\ reached \subseteq Addr
      /\ Free \subseteq Addr
  BY DEF Used, Old, Young, Free
<1>2. /\ m \in [moved -> Free]
      /\ Image(m) \subseteq Free
      /\ \A b \in Image(m) : Source(m, b) \in moved /\ m[Source(m, b)] = b
      /\ \A a \in moved : m[a] \in Image(m) /\ Source(m, m[a]) = a
  BY <1>1, SourceOfCopy
<1>3. Image(m) \cap kept = {}
  BY <1>2 DEF Free, Used
<1>4. /\ \A b \in kept : space'[b] = space[b] /\ space[b] = "gen2"
      /\ \A b \in Image(m) : space'[b] = target[Source(m, b)]
      /\ \A b \in Addr \ (kept \union Image(m)) : space'[b] = "free"
  BY <1>1, <1>2, <1>3 DEF Relocate, Old
<1>5. Used' = kept \union Image(m)
  BY <1>1, <1>2, <1>4 DEF Used, Old, Young
<1>6. DOMAIN f = reached /\ \A a \in reached : f[a] \in kept \union Image(m)
  BY <1>1, <1>2 DEF Forwarding
<1>7. ASSUME NEW A \in SUBSET (reached \union kept)
      PROVE  Fixup(A, f) \subseteq kept \union Image(m)
  BY <1>6 DEF Fixup
<1>8. \A b \in kept : ref'[b] \subseteq kept \union Image(m)
  <2>1. TAKE b \in kept
  <2>2. CASE b \in fixed
    BY <1>1, <1>7, <2>2 DEF Relocate
  <2>3. CASE b \notin fixed
    BY <1>1, <2>3 DEF Relocate
  <2>4. QED
    BY <2>2, <2>3
<1>9. \A b \in Image(m) : ref'[b] \subseteq kept \union Image(m)
  <2>1. TAKE b \in Image(m)
  <2>2. b \in Addr /\ b \notin kept
    BY <1>1, <1>2, <1>3
  <2>3. ref'[b] = Fixup(ref[Source(m, b)], f)
    BY <2>2 DEF Relocate
  <2>4. QED
    BY <1>2, <1>7, <2>3
<1>10. HeapClosed'
  BY <1>5, <1>8, <1>9 DEF HeapClosed
<1>11. fwd' = f
  BY DEF Relocate
<1>12. space' \in [Addr -> {"free", "gen0", "gen1", "gen2"}]
  <2>1. \A b \in Addr : space'[b] \in {"free", "gen0", "gen1", "gen2"}
    BY <1>2, <1>4
  <2>2. QED
    BY <2>1 DEF Relocate
<1>13. obj' \in [Addr -> Object \union {NoObject}]
  <2>1. \A a \in Addr : obj[a] \in Object \union {NoObject}
    BY DEF TypeOK
  <2>2. \A b \in Image(m) : Source(m, b) \in Addr
    BY <1>1, <1>2
  <2>3. QED
    BY <1>1, <2>1, <2>2 DEF Relocate
<1>14. ref' \in [Addr -> SUBSET Addr]
  <2>1. kept \union Image(m) \subseteq Addr
    BY <1>1, <1>2
  <2>2. \A b \in Addr : ref'[b] \subseteq Addr
    BY <1>8, <1>9, <2>1 DEF Relocate
  <2>3. QED
    BY <2>2 DEF Relocate
<1>15. QED
  BY <1>2, <1>4, <1>5, <1>6, <1>10, <1>11, <1>12, <1>13, <1>14
     DEF Free, Compacted

-----------------------------------------------------------------------------
(* Each step preserves the invariant.                                      *)

\* The empty heap satisfies it.
LEMMA InitIInv == Init => IInv
  BY DEF Init, IInv, TypeOK, NoDangling, HeapClosed, StacksValid, HandlesValid,
         CardsCoverYoung, HandlesForwarded, StoreUnderWay, CollectorKnows,
         Used, Young, Old

\* A minor collection keeps old objects in place: those off the dirty cards
\* refer to old objects only, so that nothing they refer to moves.
LEMMA MinorStep == IInv /\ Minor => IInv'
<1> SUFFICES ASSUME IInv, Minor PROVE IInv'
  OBVIOUS
<1> USE DEF IInv
<1> DEFINE start == roots \union YoungRoots
           reached == Trace(start, Young)
           moved == reached \cap Young
<1>1. PICK m \in Moves(moved) :
        /\ Relocate(m, [a \in DOMAIN m |->
                          IF space[a] = "gen0" THEN "gen1" ELSE "gen2"],
                    Old, OnDirtyCards, Forwarding(reached, m))
        /\ dirty' = MarkPromoted(m)
  BY DEF Minor, AllDirtyFixed
<1> DEFINE target == [a \in moved |-> IF space[a] = "gen0" THEN "gen1" ELSE "gen2"]
<1>2. gc = "copy" /\ gc' = "handles" /\ roots' = {}
      /\ UNCHANGED <<stack, handles, pc, store>>
  BY <1>1 DEF Minor, Relocate
<1>3. TypeOK /\ HeapClosed
  BY DEF NoDangling
<1>4. start \subseteq Used
  BY <1>2 DEF CollectorKnows, YoungRoots, Used
<1>5. /\ start \subseteq reached /\ reached \subseteq Used
      /\ \A c \in reached \cap Young : ref[c] \subseteq reached
  <2>1. Young \subseteq Used
    BY DEF Used
  <2>2. QED
    BY <1>3, <1>4, <2>1, TraceClosed
<1>6. moved = reached \ Old
  BY <1>5 DEF Used, Young, Old
<1>7. DOMAIN m = moved
  BY DEF Moves
<1>8. \A a \in OnDirtyCards : ref[a] \subseteq reached \union Old
  BY <1>3, <1>5 DEF OnDirtyCards, HeapClosed, YoungRoots, Used
<1>9. \A a \in Old \ OnDirtyCards : ref[a] \subseteq Old
  <2>1. \A t \in Task : pc[t] # "marking"
    BY <1>2 DEF CollectorKnows
  <2>2. \A a \in Old \ OnDirtyCards : ref[a] \cap Young = {}
    BY <2>1 DEF CardsCoverYoung, OnDirtyCards
  <2>3. QED
    BY <1>3, <2>2 DEF HeapClosed, Used
<1>10. target \in [moved -> {"gen1", "gen2"}]
  OBVIOUS
<1>11. Compacted(Old, reached, m, target)
  <2> HIDE DEF reached, target, moved
  <2>1. Relocate(m, target, Old, OnDirtyCards, Forwarding(reached, m))
    BY <1>1, <1>7 DEF target
  <2>2. \A a \in moved : ref[a] \subseteq reached
    BY <1>5 DEF moved
  <2>3. TracedEnough(Old, OnDirtyCards, reached, moved, m, target)
    BY <1>5, <1>6, <1>8, <1>9, <1>10, <2>1, <2>2
       DEF TracedEnough, OnDirtyCards
  <2>4. QED
    BY <1>3, <2>3, Relocated
<1> USE DEF Compacted
<1> HIDE DEF reached, start
<1>12. CardsCoverYoung'
  <2>1. SUFFICES ASSUME NEW a \in Old', NEW b \in ref'[a] \cap Young'
                 PROVE  CardOf[a] \in dirty'
    BY DEF CardsCoverYoung
  <2>2. a \in Addr /\ a \in Used' /\ space'[a] = "gen2"
    BY <2>1 DEF Old, Used
  <2>3. CASE a \in Image(m)
    <3>1. Source(m, a) \in moved /\ m[Source(m, a)] = a
      BY <1>5, <2>3, SourceOfCopy DEF Used, Young, Old
    <3>2. space[Source(m, a)] = "gen1"
      <4>1. target[Source(m, a)] = "gen2"
        BY <1>11, <2>2, <2>3
      <4>2. space[Source(m, a)] # "gen0"
        BY <3>1, <4>1
      <4>3. Source(m, a) \in Young
        BY <3>1
      <4>4. QED
        BY <4>2, <4>3 DEF Young
    <3>3. QED
      BY <1>1, <1>7, <3>1, <3>2 DEF MarkPromoted
  <2>4. CASE a \in Old
    <3>1. CASE CardOf[a] \in dirty
      BY <1>1, <3>1 DEF MarkPromoted
    <3>2. CASE CardOf[a] \notin dirty
      <4>1. ref'[a] = ref[a]
        BY <1>1, <2>2, <2>4, <3>2 DEF Relocate, OnDirtyCards
      <4>2. b \in Old
        BY <1>9, <2>1, <2>4, <3>2, <4>1 DEF OnDirtyCards
      <4>3. space'[b] = "gen2"
        BY <1>11, <4>2 DEF Old
      <4>4. QED
        BY <2>1, <4>3 DEF Young
    <3>3. QED
      BY <3>1, <3>2
  <2>5. QED
    BY <1>11, <2>2, <2>3, <2>4
<1>13. dirty' \subseteq Card
  <2>1. \A a \in moved : m[a] \in Addr
    BY DEF Moves, Free
  <2>2. QED
    BY <1>1, <1>3, <1>7, <2>1, HeapAssumption DEF MarkPromoted, TypeOK
<1>14. TypeOK'
  <2>1. DOMAIN fwd' \subseteq Addr /\ \A a \in DOMAIN fwd' : fwd'[a] \in Addr
    BY <1>5, <1>11 DEF Used, Young, Old
  <2>2. stack' \in [Task -> SUBSET Addr] /\ handles' \in [Key -> SUBSET Addr]
        /\ pc' \in [Task -> {"running", "writing", "marking", "parked"}]
        /\ store' \in [Task -> (Addr \X Addr) \union {<<>>}]
        /\ \A t \in Task : pc'[t] \in {"writing", "marking"} <=> store'[t] # <<>>
    BY <1>2, <1>3 DEF TypeOK
  <2>3. gc' \in {"idle", "copy", "handles", "forward"} /\ roots' \subseteq Addr
    BY <1>2
  <2>4. QED
    BY <1>11, <1>13, <2>1, <2>2, <2>3 DEF TypeOK
<1>15. NoDangling'
  BY <1>2, <1>11 DEF NoDangling, StacksValid, HandlesValid
<1>16. /\ \A t \in Task : pc[t] = "parked" /\ stack[t] \subseteq reached
       /\ \A k \in Key : handles[k] \subseteq reached
  BY <1>2, <1>5 DEF CollectorKnows, start
<1>17. StoreUnderWay' /\ CollectorKnows' /\ HandlesForwarded'
  BY <1>2, <1>11, <1>16 DEF StoreUnderWay, CollectorKnows, HandlesForwarded
<1>18. QED
  BY <1>12, <1>14, <1>15, <1>17

\* A major collection leaves no young object, so it may clean every card.
LEMMA MajorStep == IInv /\ Major => IInv'
<1> SUFFICES ASSUME IInv, Major PROVE IInv'
  OBVIOUS
<1> USE DEF IInv
<1> DEFINE reached == Trace(roots, Used)
<1>1. PICK m \in Moves(reached) :
        /\ Relocate(m, [a \in DOMAIN m |-> "gen2"], {}, {},
                    Forwarding(reached, m))
        /\ dirty' = {}
  BY DEF Major
<1> DEFINE target == [a \in reached |-> "gen2"]
<1>2. gc = "copy" /\ gc' = "handles" /\ roots' = {}
      /\ UNCHANGED <<stack, handles, pc, store>>
  BY <1>1 DEF Major, Relocate
<1>3. TypeOK /\ HeapClosed
  BY DEF NoDangling
<1>4. /\ roots \subseteq reached /\ reached \subseteq Used
      /\ \A c \in reached \cap Used : ref[c] \subseteq reached
  BY <1>2, <1>3, TraceClosed DEF CollectorKnows
<1>5. DOMAIN m = reached
  BY DEF Moves
<1> HIDE DEF reached
<1>6. Compacted({}, reached, m, target)
  <2>1. Relocate(m, target, {}, {}, Forwarding(reached, m))
    BY <1>1, <1>5 DEF target
  <2>2. target \in [reached -> {"gen1", "gen2"}]
    OBVIOUS
  <2> HIDE DEF target
  <2>3. TracedEnough({}, {}, reached, reached, m, target)
    BY <1>1, <1>4, <2>1, <2>2 DEF TracedEnough
  <2>4. QED
    BY <1>3, <2>3, Relocated
<1> USE DEF Compacted
<1>7. CardsCoverYoung'
  <2>1. \A b \in Used' : space'[b] = "gen2"
    BY <1>4, <1>6, SourceOfCopy DEF Used, Young, Old
  <2>2. Young' = {}
    BY <2>1 DEF Used, Young
  <2>3. QED
    BY <2>2 DEF CardsCoverYoung
<1>8. TypeOK'
  <2>1. DOMAIN fwd' \subseteq Addr /\ \A a \in DOMAIN fwd' : fwd'[a] \in Addr
    BY <1>4, <1>6 DEF Used, Young, Old
  <2>2. stack' \in [Task -> SUBSET Addr] /\ handles' \in [Key -> SUBSET Addr]
        /\ pc' \in [Task -> {"running", "writing", "marking", "parked"}]
        /\ store' \in [Task -> (Addr \X Addr) \union {<<>>}]
        /\ \A t \in Task : pc'[t] \in {"writing", "marking"} <=> store'[t] # <<>>
    BY <1>2, <1>3 DEF TypeOK
  <2>3. gc' \in {"idle", "copy", "handles", "forward"} /\ roots' \subseteq Addr
        /\ dirty' \subseteq Card
    BY <1>1, <1>2
  <2>4. QED
    BY <1>6, <2>1, <2>2, <2>3 DEF TypeOK
<1>9. NoDangling'
  BY <1>2, <1>6 DEF NoDangling, StacksValid, HandlesValid
<1>10. /\ \A t \in Task : pc[t] = "parked" /\ stack[t] \subseteq reached
       /\ \A k \in Key : handles[k] \subseteq reached
  BY <1>2, <1>4 DEF CollectorKnows
<1>11. StoreUnderWay' /\ CollectorKnows' /\ HandlesForwarded'
  BY <1>2, <1>6, <1>10 DEF StoreUnderWay, CollectorKnows, HandlesForwarded
<1>12. QED
  BY <1>7, <1>8, <1>9, <1>11

\* A step of the collector that moves no object.
LEMMA CollectorStep ==
    IInv /\ (CollectRoots \/ UpdateHandles \/ ForwardRoots) => IInv'
<1> SUFFICES ASSUME IInv, CollectRoots \/ UpdateHandles \/ ForwardRoots
             PROVE  IInv'
  OBVIOUS
<1> USE DEF IInv
<1>1. UNCHANGED <<space, obj, ref, dirty, pc, store>>
  BY DEF CollectRoots, UpdateHandles, ForwardRoots
<1>2. Used' = Used /\ Young' = Young /\ Old' = Old
  BY <1>1 DEF Used, Young, Old
<1>3. HeapClosed' /\ CardsCoverYoung'
  BY <1>1, <1>2 DEF NoDangling, HeapClosed, CardsCoverYoung
<1>4. CASE CollectRoots
  <2>1. AllRoots \subseteq Used
    BY <1>4 DEF CollectRoots, AllRoots, NoDangling, StacksValid, HandlesValid
  <2>2. TypeOK'
    BY <1>1, <1>4, <2>1 DEF CollectRoots, TypeOK, Used, Young, Old
  <2>3. /\ \A t \in Task : stack[t] \subseteq AllRoots
        /\ \A k \in Key : handles[k] \subseteq AllRoots
    BY DEF AllRoots
  <2>4. QED
    BY <1>1, <1>2, <1>3, <1>4, <2>1, <2>2, <2>3
       DEF CollectRoots, NoDangling, StacksValid, HandlesValid, StoreUnderWay,
           CollectorKnows, HandlesForwarded
<1>5. CASE UpdateHandles
  <2>1. \A k \in Key : handles'[k] \subseteq Used
    BY <1>5 DEF UpdateHandles, CollectorKnows
  <2>2. TypeOK'
    BY <1>1, <1>5, <2>1 DEF UpdateHandles, TypeOK, Used, Young, Old
  <2>3. QED
    BY <1>1, <1>2, <1>3, <1>5, <2>1, <2>2
       DEF UpdateHandles, NoDangling, StacksValid, HandlesValid, StoreUnderWay,
           CollectorKnows, HandlesForwarded
<1>6. CASE ForwardRoots
  <2>1. \A t \in Task : stack'[t] \subseteq Used
    BY <1>6 DEF ForwardRoots, CollectorKnows, Fixup
  <2>2. TypeOK'
    BY <1>1, <1>6, <2>1 DEF ForwardRoots, TypeOK, Used, Young, Old
  <2>3. \A t \in Task : pc[t] = "parked"
    BY <1>6 DEF ForwardRoots, CollectorKnows
  <2>4. QED
    BY <1>1, <1>2, <1>3, <1>6, <2>1, <2>2, <2>3
       DEF ForwardRoots, NoDangling, StacksValid, HandlesValid, StoreUnderWay,
           CollectorKnows, HandlesForwarded
<1>7. QED
  BY <1>4, <1>5, <1>6

\* While a task runs no collection does.
LEMMA RunsAlone ==
    ASSUME IInv, NEW t \in Task, pc[t] # "parked"
    PROVE  gc = "idle"
  BY DEF IInv, TypeOK, CollectorKnows

\* A new object is young, and nothing but its task's stack refers to it.
LEMMA AllocStep ==
    ASSUME IInv, NEW t \in Task, NEW a \in Addr, NEW o \in Object, Alloc(t, a, o)
    PROVE  IInv'
<1> USE DEF IInv
<1>1. gc = "idle" /\ gc' = "idle" /\ UNCHANGED <<dirty, handles, pc, store, roots, fwd>>
  BY RunsAlone DEF Alloc, collector
<1>2. a \in Addr \ Used /\ TypeOK
  BY DEF Alloc, Free
<1>3. TypeOK'
  <2>1. stack' \in [Task -> SUBSET Addr]
    BY <1>2 DEF Alloc, Push, TypeOK
  <2>2. QED
    BY <1>1, <1>2, <2>1 DEF Alloc, TypeOK
<1>4. /\ Old' = Old /\ Young' = Young \union {a} /\ Used' = Used \union {a}
      /\ \A b \in Used : ref'[b] = ref[b]
      /\ ref'[a] = {}
  BY <1>2 DEF Alloc, TypeOK, Used, Old, Young
<1>5. /\ \A u \in Task : stack[u] \subseteq stack'[u]
      /\ \A u \in Task : stack'[u] \subseteq stack[u] \union {a}
  BY <1>2 DEF Alloc, Push, TypeOK
<1>6. \A u \in Task : stack[u] \subseteq Used
  BY <1>1 DEF NoDangling, StacksValid
<1>7. NoDangling'
  BY <1>1, <1>4, <1>5, <1>6
     DEF NoDangling, HeapClosed, StacksValid, HandlesValid
<1>8. CardsCoverYoung'
  <2>1. \A b \in Old : ref'[b] \cap Young' = ref[b] \cap Young
    BY <1>2, <1>4 DEF NoDangling, HeapClosed, Used
  <2>2. QED
    BY <1>1, <1>4, <2>1 DEF CardsCoverYoung
<1>9. StoreUnderWay'
  <2>1. SUFFICES ASSUME NEW u \in Task, pc[u] \in {"writing", "marking"}
                 PROVE  /\ store[u] \in Addr \X Addr
                        /\ {store[u][1], store[u][2]} \subseteq stack'[u]
                        /\ pc[u] = "writing" /\ store[u][1] \in Old
                              /\ store[u][2] \in Young' => CardOf[store[u][1]] \in dirty
    BY <1>1, <1>4 DEF StoreUnderWay
  <2>2. store[u][2] # a
    BY <1>2, <1>6, <2>1 DEF StoreUnderWay
  <2>3. QED
    BY <1>4, <1>5, <2>1, <2>2 DEF StoreUnderWay
<1>10. CollectorKnows' /\ HandlesForwarded'
  BY <1>1 DEF CollectorKnows, HandlesForwarded
<1>11. QED
  BY <1>3, <1>7, <1>8, <1>9, <1>10

\* A step that changes what a task or the hosts refer to, and no object.
LEMMA RootStep ==
    ASSUME IInv, NEW t \in Task,
           \/ \E a \in Addr : \/ Pop(t, a)
                             \/ \E b \in Addr : Load(t, a, b)
                             \/ \E k \in Key : CreateHandle(t, a, k)
           \/ \E k \in Key : ResolveHandle(t, k)
           \/ \E u \in Task, a \in Addr : Hand(t, u, a) \/ Fetch(t, u, a)
    PROVE  IInv'
<1> USE DEF IInv
<1>1. /\ pc[t] = "running"
      /\ UNCHANGED <<space, obj, ref, dirty, pc, store, gc, roots, fwd>>
  BY DEF Load, Pop, CreateHandle, ResolveHandle, Hand, Fetch, collector
<1>2. gc = "idle"
  BY <1>1, RunsAlone
<1>3. Used' = Used /\ Young' = Young /\ Old' = Old
  BY <1>1 DEF Used, Young, Old
<1>4. /\ stack' \in [Task -> SUBSET Addr] /\ handles' \in [Key -> SUBSET Addr]
      /\ \A u \in Task : stack'[u] \subseteq Used
      /\ \A j \in Key : handles'[j] \subseteq Used
      /\ \A u \in Task : u # t => stack[u] \subseteq stack'[u]
  BY <1>2 DEF Load, Push, Pop, CreateHandle, ResolveHandle, Hand, Fetch, NoDangling,
              HeapClosed, StacksValid, HandlesValid, TypeOK
<1>5. TypeOK'
  BY <1>1, <1>4 DEF TypeOK
<1>6. NoDangling' /\ CardsCoverYoung'
  BY <1>1, <1>3, <1>4 DEF NoDangling, HeapClosed, StacksValid, HandlesValid,
                          CardsCoverYoung
<1>7. StoreUnderWay'
  <2>1. \A u \in Task : pc[u] \in {"writing", "marking"} => stack[u] \subseteq stack'[u]
    BY <1>1, <1>4
  <2>2. QED
    BY <1>1, <1>3, <2>1 DEF StoreUnderWay
<1>8. CollectorKnows' /\ HandlesForwarded'
  BY <1>1, <1>2 DEF CollectorKnows, HandlesForwarded
<1>9. QED
  BY <1>5, <1>6, <1>7, <1>8

\* The registry and the globals run nothing.
Inert == \A s \in Shared : pc[s] = "parked"

\* An entry of the registry goes: no store under way relies on it.
LEMMA ForgetStep ==
    ASSUME IInv, Inert, NEW t \in Task, NEW s \in Shared, NEW a \in Addr,
           Forget(t, s, a)
    PROVE  IInv'
<1> USE HeapAssumption DEF IInv
<1>1. /\ pc[t] = "running" /\ pc[s] = "parked" /\ s \in Task
      /\ UNCHANGED <<space, obj, ref, dirty, handles, pc, store, gc, roots, fwd>>
  BY DEF Forget, Inert, collector
<1>2. gc = "idle"
  BY <1>1, RunsAlone
<1>3. Used' = Used /\ Young' = Young /\ Old' = Old
  BY <1>1 DEF Used, Young, Old
<1>4. /\ stack' \in [Task -> SUBSET Addr]
      /\ \A u \in Task : stack'[u] \subseteq stack[u]
      /\ \A u \in Task : u # s => stack'[u] = stack[u]
  BY <1>1 DEF Forget, TypeOK
<1>5. TypeOK'
  BY <1>1, <1>4 DEF TypeOK
<1>6. NoDangling' /\ CardsCoverYoung'
  BY <1>1, <1>2, <1>3, <1>4 DEF NoDangling, HeapClosed, StacksValid, HandlesValid,
                               CardsCoverYoung
<1>7. StoreUnderWay'
  BY <1>1, <1>3, <1>4 DEF StoreUnderWay
<1>8. CollectorKnows' /\ HandlesForwarded'
  BY <1>1, <1>2 DEF CollectorKnows, HandlesForwarded
<1>9. QED
  BY <1>5, <1>6, <1>7, <1>8

\* A host may release a handle in the middle of a collection; a task parks,
\* resumes and ends between collections.
LEMMA OutsideStep ==
    ASSUME IInv,
           \/ \E k \in Key : ReleaseHandle(k)
           \/ \E t \in Task : Park(t) \/ Resume(t) \/ Finish(t)
    PROVE  IInv'
<1> USE DEF IInv
<1>1. UNCHANGED <<space, obj, ref, dirty, store, gc, roots, fwd>>
  BY DEF ReleaseHandle, Park, Resume, Finish, collector
<1>2. Used' = Used /\ Young' = Young /\ Old' = Old
  BY <1>1 DEF Used, Young, Old
<1>3. /\ handles' \in [Key -> SUBSET Addr]
      /\ \A j \in Key : handles'[j] \subseteq handles[j]
  BY DEF ReleaseHandle, Park, Resume, Finish, TypeOK
<1>4. /\ pc' \in [Task -> {"running", "writing", "marking", "parked"}]
      /\ \A u \in Task : pc'[u] \in {"writing", "marking"} => pc'[u] = pc[u]
      /\ \A u \in Task : pc[u] \in {"writing", "marking"} => pc'[u] = pc[u]
      /\ gc # "idle" => \A u \in Task : pc'[u] = "parked"
  BY DEF ReleaseHandle, Park, Resume, Finish, Goto, TypeOK, CollectorKnows
<1>5. /\ stack' \in [Task -> SUBSET Addr]
      /\ \A u \in Task : stack'[u] \subseteq stack[u]
      /\ \A u \in Task : pc[u] \in {"writing", "marking"} => stack'[u] = stack[u]
  BY DEF ReleaseHandle, Park, Resume, Finish, TypeOK
<1>6. TypeOK'
  BY <1>1, <1>3, <1>4, <1>5 DEF TypeOK
<1>7. NoDangling'
  BY <1>1, <1>2, <1>3, <1>5 DEF NoDangling, HeapClosed, StacksValid, HandlesValid
<1>8. CardsCoverYoung' /\ StoreUnderWay'
  BY <1>1, <1>2, <1>4, <1>5 DEF CardsCoverYoung, StoreUnderWay
<1>9. CollectorKnows' /\ HandlesForwarded'
  BY <1>1, <1>2, <1>3, <1>4, <1>5 DEF CollectorKnows, HandlesForwarded
<1>10. QED
  BY <1>6, <1>7, <1>8, <1>9

\* A store marks the card and writes the slot, in one order or the other, with
\* the task on its permit in between: no collection sees the half of it.
LEMMA StoreStep ==
    ASSUME IInv, NEW t \in Task,
           \/ \E a, b \in Addr : \/ BarrierThenWrite(t, a, b)
                                \/ BuiltinMut(t, a, b)
                                \/ \E old \in SUBSET ref[a] :
                                      WriteThenBarrier(t, a, b, old)
           \/ \E old \in SUBSET Addr : Write(t, old)
           \/ Barrier(t)
    PROVE  IInv'
<1> USE DEF IInv
<1>1. /\ pc[t] \in {"running", "writing", "marking"}
      /\ UNCHANGED <<space, obj, stack, handles, gc, roots, fwd>>
  BY DEF BarrierThenWrite, BuiltinMut, WriteThenBarrier, Write, Barrier, collector
<1>2. gc = "idle" /\ TypeOK
  BY <1>1, RunsAlone
<1>3. Used' = Used /\ Young' = Young /\ Old' = Old
  BY <1>1 DEF Used, Young, Old
<1>4. \A u \in Task : stack[u] \subseteq Used /\ stack[u] \subseteq Addr
  BY <1>2 DEF NoDangling, StacksValid, TypeOK
<1>5. Young \cap Old = {} /\ Used \subseteq Addr
  BY DEF Young, Old, Used
<1>6. ASSUME NEW a \in Addr, NEW b \in Addr, {a, b} \subseteq stack[t],
             pc[t] = "running", store' = [store EXCEPT ![t] = <<a, b>>],
             Goto(t, "writing"), ref' = ref, dirty \subseteq dirty',
             dirty' \subseteq Card, a \in Old /\ b \in Young => CardOf[a] \in dirty'
      PROVE  IInv'
  <2>1. TypeOK'
    BY <1>1, <1>2, <1>6 DEF TypeOK, Goto
  <2>2. NoDangling'
    BY <1>1, <1>3, <1>6 DEF NoDangling, HeapClosed, StacksValid, HandlesValid
  <2>3. \A u \in Task \ {t} : pc'[u] = pc[u] /\ store'[u] = store[u]
    BY <1>2, <1>6 DEF TypeOK, Goto
  <2>4. pc'[t] = "writing" /\ store'[t] = <<a, b>>
    BY <1>2, <1>6 DEF TypeOK, Goto
  <2>5. CardsCoverYoung'
    BY <1>3, <1>6, <2>3, <2>4 DEF CardsCoverYoung
  <2>6. StoreUnderWay'
    <3>1. SUFFICES ASSUME NEW u \in Task, pc'[u] \in {"writing", "marking"}
                   PROVE  /\ store'[u] \in Addr \X Addr
                          /\ {store'[u][1], store'[u][2]} \subseteq stack'[u]
                          /\ pc'[u] = "writing" /\ store'[u][1] \in Old'
                                /\ store'[u][2] \in Young'
                             => CardOf[store'[u][1]] \in dirty'
      BY DEF StoreUnderWay
    <3>2. CASE u = t
      BY <1>1, <1>3, <1>6, <2>4, <3>2
    <3>3. CASE u # t
      BY <1>1, <1>3, <1>6, <2>3, <3>1, <3>3 DEF StoreUnderWay
    <3>4. QED
      BY <3>2, <3>3
  <2>7. CollectorKnows' /\ HandlesForwarded'
    BY <1>1, <1>2 DEF CollectorKnows, HandlesForwarded
  <2>8. QED
    BY <2>1, <2>2, <2>5, <2>6, <2>7
<1>7. CASE \E a, b \in Addr : BarrierThenWrite(t, a, b) \/ BuiltinMut(t, a, b)
  <2>1. PICK a \in Addr, b \in Addr : BarrierThenWrite(t, a, b) \/ BuiltinMut(t, a, b)
    BY <1>7
  <2>2. CardOf[a] \in Card
    BY HeapAssumption
  <2>3. dirty \subseteq dirty' /\ dirty' \subseteq Card
        /\ (a \in Old /\ b \in Young => CardOf[a] \in dirty')
    BY <1>2, <2>1, <2>2 DEF BarrierThenWrite, BuiltinMut, MarkCard, TypeOK
  <2>4. QED
    BY <1>6, <2>1, <2>3 DEF BarrierThenWrite, BuiltinMut
<1>8. ASSUME NEW a \in Addr, NEW b \in Addr, NEW old,
             {a, b} \subseteq stack[t], Put(a, b, old)
      PROVE  /\ ref' \in [Addr -> SUBSET Addr]
             /\ \A c \in Addr \ {a} : ref'[c] = ref[c]
             /\ ref'[a] \subseteq ref[a] \union {b}
             /\ a \in Used /\ b \in Used
             /\ NoDangling'
  <2>1. /\ ref' \in [Addr -> SUBSET Addr]
        /\ \A c \in Addr \ {a} : ref'[c] = ref[c]
        /\ ref'[a] \subseteq ref[a] \union {b}
    BY <1>2, <1>8 DEF Put, TypeOK
  <2>2. a \in Used /\ b \in Used
    BY <1>4, <1>8
  <2>3. HeapClosed'
    BY <1>3, <1>5, <2>1, <2>2 DEF NoDangling, HeapClosed
  <2>4. QED
    BY <1>1, <1>3, <2>1, <2>2, <2>3 DEF NoDangling, StacksValid, HandlesValid
<1>9. CASE \E a, b \in Addr : \E old \in SUBSET ref[a] : WriteThenBarrier(t, a, b, old)
  <2>1. PICK a \in Addr, b \in Addr :
                \E old \in SUBSET ref[a] : WriteThenBarrier(t, a, b, old)
    BY <1>9
  <2>2. /\ {a, b} \subseteq stack[t] /\ pc[t] = "running"
        /\ \E old : Put(a, b, old)
        /\ pc' = [pc EXCEPT ![t] = "marking"]
        /\ store' = [store EXCEPT ![t] = <<a, b>>] /\ dirty' = dirty
    BY <2>1 DEF WriteThenBarrier, Goto
  <2>3. /\ ref' \in [Addr -> SUBSET Addr]
        /\ \A c \in Addr \ {a} : ref'[c] = ref[c]
        /\ ref'[a] \subseteq ref[a] \union {b}
        /\ NoDangling'
    BY <1>8, <2>2
  <2>4. \A u \in Task \ {t} : pc'[u] = pc[u] /\ store'[u] = store[u]
    BY <1>2, <2>2 DEF TypeOK
  <2>5. pc'[t] = "marking" /\ store'[t] = <<a, b>>
    BY <1>2, <2>2 DEF TypeOK
  <2>6. TypeOK'
    BY <1>1, <1>2, <2>2, <2>3 DEF TypeOK
  <2>7. CardsCoverYoung'
    <3>1. SUFFICES ASSUME NEW c \in Old, NEW d \in ref'[c] \cap Young,
                          CardOf[c] \notin dirty
                   PROVE  \E u \in Task : pc'[u] = "marking" /\ store'[u] = <<c, d>>
      BY <1>3, <2>2 DEF CardsCoverYoung
    <3>2. CASE c = a /\ d = b
      BY <2>5, <3>2
    <3>3. CASE ~(c = a /\ d = b)
      <4>1. d \in ref[c] \cap Young
        BY <2>3, <3>1, <3>3 DEF Old
      <4>2. PICK u \in Task : pc[u] = "marking" /\ store[u] = <<c, d>>
        BY <3>1, <4>1 DEF CardsCoverYoung
      <4>3. QED
        BY <2>2, <2>4, <4>2
    <3>4. QED
      BY <3>2, <3>3
  <2>8. StoreUnderWay'
    <3>1. SUFFICES ASSUME NEW u \in Task, pc'[u] \in {"writing", "marking"}
                   PROVE  /\ store'[u] \in Addr \X Addr
                          /\ {store'[u][1], store'[u][2]} \subseteq stack'[u]
                          /\ pc'[u] = "writing" /\ store'[u][1] \in Old'
                                /\ store'[u][2] \in Young'
                             => CardOf[store'[u][1]] \in dirty'
      BY DEF StoreUnderWay
    <3>2. CASE u = t
      BY <1>1, <2>2, <2>5, <3>2
    <3>3. CASE u # t
      BY <1>1, <1>3, <2>2, <2>4, <3>1, <3>3 DEF StoreUnderWay
    <3>4. QED
      BY <3>2, <3>3
  <2>9. CollectorKnows' /\ HandlesForwarded'
    BY <1>1, <1>2 DEF CollectorKnows, HandlesForwarded
  <2>10. QED
    BY <2>3, <2>6, <2>7, <2>8, <2>9
<1>10. CASE \E old \in SUBSET Addr : Write(t, old)
  <2>1. PICK old \in SUBSET Addr : Write(t, old)
    BY <1>10
  <2> DEFINE a == store[t][1]
             b == store[t][2]
  <2>2. /\ pc[t] = "writing" /\ Put(a, b, old) /\ dirty' = dirty
        /\ pc' = [pc EXCEPT ![t] = "running"]
        /\ store' = [store EXCEPT ![t] = <<>>]
    BY <2>1 DEF Write, Goto
  <2>3. /\ a \in Addr /\ b \in Addr /\ {a, b} \subseteq stack[t]
        /\ (a \in Old /\ b \in Young => CardOf[a] \in dirty)
    BY <2>2 DEF StoreUnderWay
  <2> HIDE DEF a, b
  <2>4. /\ ref' \in [Addr -> SUBSET Addr]
        /\ \A c \in Addr \ {a} : ref'[c] = ref[c]
        /\ ref'[a] \subseteq ref[a] \union {b}
        /\ NoDangling'
    BY <1>8, <2>2, <2>3
  <2>5. \A u \in Task \ {t} : pc'[u] = pc[u] /\ store'[u] = store[u]
    BY <1>2, <2>2 DEF TypeOK
  <2>6. pc'[t] = "running" /\ store'[t] = <<>>
    BY <1>2, <2>2 DEF TypeOK
  <2>7. TypeOK'
    BY <1>1, <1>2, <2>2, <2>4, <2>5, <2>6 DEF TypeOK
  <2>8. CardsCoverYoung'
    <3>1. SUFFICES ASSUME NEW c \in Old, NEW d \in ref'[c] \cap Young,
                          CardOf[c] \notin dirty
                   PROVE  \E u \in Task : pc'[u] = "marking" /\ store'[u] = <<c, d>>
      BY <1>3, <2>2 DEF CardsCoverYoung
    <3>2. d \in ref[c] \cap Young
      BY <2>3, <2>4, <3>1 DEF Old
    <3>3. PICK u \in Task : pc[u] = "marking" /\ store[u] = <<c, d>>
      BY <3>1, <3>2 DEF CardsCoverYoung
    <3>4. QED
      BY <2>2, <2>5, <3>3
  <2>9. StoreUnderWay'
    BY <1>1, <1>3, <2>2, <2>5, <2>6 DEF StoreUnderWay
  <2>10. CollectorKnows' /\ HandlesForwarded'
    BY <1>1, <1>2 DEF CollectorKnows, HandlesForwarded
  <2>11. QED
    BY <2>4, <2>7, <2>8, <2>9, <2>10
<1>11. CASE Barrier(t)
  <2> DEFINE a == store[t][1]
             b == store[t][2]
  <2>1. /\ pc[t] = "marking" /\ MarkCard(a, b) /\ ref' = ref
        /\ pc' = [pc EXCEPT ![t] = "running"]
        /\ store' = [store EXCEPT ![t] = <<>>]
    BY <1>11 DEF Barrier, Goto
  <2>2. a \in Addr /\ b \in Addr /\ store[t] = <<a, b>>
    BY <2>1 DEF StoreUnderWay
  <2> HIDE DEF a, b
  <2>3. CardOf[a] \in Card
    BY <2>2, HeapAssumption
  <2>4. /\ dirty \subseteq dirty' /\ dirty' \subseteq Card
        /\ (a \in Old /\ b \in Young => CardOf[a] \in dirty')
    BY <1>2, <2>1, <2>3 DEF MarkCard, TypeOK
  <2>5. \A u \in Task \ {t} : pc'[u] = pc[u] /\ store'[u] = store[u]
    BY <1>2, <2>1 DEF TypeOK
  <2>6. pc'[t] = "running" /\ store'[t] = <<>>
    BY <1>2, <2>1 DEF TypeOK
  <2>7. TypeOK'
    BY <1>1, <1>2, <2>1, <2>4, <2>5, <2>6 DEF TypeOK
  <2>8. NoDangling'
    BY <1>1, <1>3, <2>1 DEF NoDangling, HeapClosed, StacksValid, HandlesValid
  <2>9. CardsCoverYoung'
    <3>1. SUFFICES ASSUME NEW c \in Old, NEW d \in ref[c] \cap Young,
                          CardOf[c] \notin dirty'
                   PROVE  \E u \in Task : pc'[u] = "marking" /\ store'[u] = <<c, d>>
      BY <1>3, <2>1 DEF CardsCoverYoung
    <3>2. PICK u \in Task : pc[u] = "marking" /\ store[u] = <<c, d>>
      BY <2>4, <3>1 DEF CardsCoverYoung
    <3>3. u # t
      BY <2>2, <2>4, <3>1, <3>2
    <3>4. QED
      BY <2>5, <3>2, <3>3
  <2>10. StoreUnderWay'
    BY <1>1, <1>3, <2>4, <2>5, <2>6 DEF StoreUnderWay
  <2>11. CollectorKnows' /\ HandlesForwarded'
    BY <1>1, <1>2 DEF CollectorKnows, HandlesForwarded
  <2>12. QED
    BY <2>7, <2>8, <2>9, <2>10, <2>11
<1>12. QED
  BY <1>7, <1>9, <1>10, <1>11

-----------------------------------------------------------------------------
(* The theorems.                                                           *)

\* Every step preserves the invariant.
LEMMA NextIInv == IInv /\ Inert /\ [Next]_vars => IInv'
<1> SUFFICES ASSUME IInv, Inert, [Next]_vars PROVE IInv'
  OBVIOUS
<1>1. CASE UNCHANGED vars
  BY <1>1 DEF vars, IInv, TypeOK, NoDangling, HeapClosed, StacksValid,
              HandlesValid, CardsCoverYoung, HandlesForwarded, StoreUnderWay,
              CollectorKnows, Used, Young, Old
<1>2. CASE \E k \in Key : ReleaseHandle(k)
  BY <1>2, OutsideStep
<1>3. CASE CollectRoots \/ UpdateHandles \/ ForwardRoots
  BY <1>3, CollectorStep
<1>4. CASE Minor \/ Major
  BY <1>4, MinorStep, MajorStep
<1>5. ASSUME NEW t \in Task, Mutate(t)
      PROVE  IInv'
  <2>1. CASE \E a \in Addr, o \in Object : Alloc(t, a, o)
    BY <2>1, AllocStep
  <2>2. CASE \/ \E a \in Addr : \/ Pop(t, a)
                              \/ \E b \in Addr : Load(t, a, b)
                              \/ \E k \in Key : CreateHandle(t, a, k)
             \/ \E k \in Key : ResolveHandle(t, k)
    BY <2>2, RootStep
  <2>3. CASE \/ \E a, b \in Addr : \/ BarrierThenWrite(t, a, b)
                                  \/ BuiltinMut(t, a, b)
                                  \/ \E old \in SUBSET ref[a] :
                                        WriteThenBarrier(t, a, b, old)
             \/ \E old \in SUBSET Addr : Write(t, old)
             \/ Barrier(t)
    BY <2>3, StoreStep
  <2>4. QED
    BY <1>5, <2>1, <2>2, <2>3 DEF Mutate
<1>6. ASSUME NEW t \in Task, Schedule(t)
      PROVE  IInv'
  <2>1. CASE Park(t) \/ Resume(t) \/ Finish(t)
    BY <2>1, OutsideStep
  <2>2. CASE \E u \in Task, a \in Addr : Hand(t, u, a)
    BY <2>2, RootStep
  <2>3. CASE \E s \in Shared, a \in Addr : Fetch(t, s, a)
    BY <2>3, RootStep, HeapAssumption
  <2>4. CASE \E s \in Shared, a \in Addr : Forget(t, s, a)
    BY <2>4, ForgetStep
  <2>5. QED
    BY <1>6, <2>1, <2>2, <2>3, <2>4 DEF Schedule
<1>7. QED
  BY <1>1, <1>2, <1>3, <1>4, <1>5, <1>6 DEF Next

\* Whoever runs is a task with a VM.
LEMMA InertStep == IInv /\ Inert /\ [Next]_vars => Inert'
<1> SUFFICES ASSUME IInv, Inert, [Next]_vars PROVE Inert'
  OBVIOUS
<1>1. pc' = pc \/ \E t \in Task \ Shared : pc' = [pc EXCEPT ![t] = pc'[t]]
  <2>1. ASSUME NEW t \in Task \ Shared, Mutate(t)
        PROVE  pc' = pc \/ pc' = [pc EXCEPT ![t] = pc'[t]]
    BY <2>1 DEF Mutate, Alloc, Pop, CreateHandle, Load, BuiltinMut,
                BarrierThenWrite, WriteThenBarrier, Write, Barrier, ResolveHandle,
                Goto, IInv, TypeOK
  <2>2. ASSUME NEW t \in Task \ Shared, Schedule(t)
        PROVE  pc' = pc \/ pc' = [pc EXCEPT ![t] = pc'[t]]
    BY <2>2 DEF Schedule, Park, Resume, Finish, Hand, Fetch, Forget, Goto, IInv,
                TypeOK
  <2>3. CASE \/ \E k \in Key : ReleaseHandle(k)
             \/ CollectRoots \/ UpdateHandles \/ ForwardRoots
    BY <2>3 DEF ReleaseHandle, CollectRoots, UpdateHandles, ForwardRoots
  <2>4. CASE Minor \/ Major \/ UNCHANGED vars
    BY <2>4 DEF Minor, Major, Relocate, vars
  <2>5. QED
    BY <2>1, <2>2, <2>3, <2>4 DEF Next
<1>2. QED
  BY <1>1, HeapAssumption DEF Inert, IInv, TypeOK

\* The invariant holds in every reachable state of the heap.
THEOREM Invariance == Spec => []IInv
<1>1. Init => IInv /\ Inert
  BY InitIInv, HeapAssumption DEF Init, Inert
<1>2. IInv /\ Inert /\ [Next]_vars => IInv' /\ Inert'
  BY NextIInv, InertStep
<1>3. QED
  BY <1>1, <1>2, PTL DEF Spec

\* The state keeps its shape, and a store under way its operands.
THEOREM TypeCorrect == Spec => []TypeOK
<1>1. IInv => TypeOK
  BY DEF IInv
<1>2. QED
  BY <1>1, Invariance, PTL

\* No collection reclaims what a task, a handle or an object refers to.
THEOREM NothingDangles == Spec => []NoDangling
<1>1. IInv => NoDangling
  BY DEF IInv
<1>2. QED
  BY <1>1, Invariance, PTL

\* The dirty cards cover every reference of an old object to a young one.
THEOREM CardsCover == Spec => []CardsCoverYoung
<1>1. IInv => CardsCoverYoung
  BY DEF IInv
<1>2. QED
  BY <1>1, Invariance, PTL

\* update_handles never meets a handle that the collection did not forward.
THEOREM HandlesAreForwarded == Spec => []HandlesForwarded
<1>1. IInv => HandlesForwarded
  BY DEF IInv
<1>2. QED
  BY <1>1, Invariance, PTL
=============================================================================
