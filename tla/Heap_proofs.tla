----------------------------- MODULE Heap_proofs ------------------------------
(***************************************************************************)
(* GenGC implements HeapContract: whatever collections do to addresses,    *)
(* the graph of objects that tasks and hosts see is changed by its owners  *)
(* only, and loses no object that can be reached.                          *)
(***************************************************************************)
EXTENDS GenGC_proofs

\* An object is in one place: a copy replaces its source.
Identified ==
    /\ \A a \in Used : obj[a] \in Object
    /\ \A a, b \in Used : obj[a] = obj[b] => a = b

-----------------------------------------------------------------------------
(* What is seen of the heap.                                               *)

\* The edges of an object are the objects that its one copy refers to.
LEMMA EdgesOf ==
    ASSUME Identified, NEW a \in Used
    PROVE  obj[a] \in Object /\ Edges[obj[a]] = Objects(ref[a])
<1>1. obj[a] \in Object
  BY DEF Identified
<1>2. \A b \in Used : obj[b] = obj[a] <=> b = a
  BY DEF Identified
<1>3. {b \in Used : obj[b] = obj[a]} = {a}
  BY <1>2
<1>4. Edges[obj[a]] = UNION {Objects(ref[b]) : b \in {b \in Used : obj[b] = obj[a]}}
  BY <1>1 DEF Edges
<1>5. UNION {Objects(ref[b]) : b \in {a}} = Objects(ref[a])
  OBVIOUS
<1>6. QED
  BY <1>1, <1>3, <1>4, <1>5

\* An object that does not exist has no edges.
LEMMA NoEdges ==
    ASSUME NEW o \in Object, o \notin Exists
    PROVE  Edges[o] = {}
<1>1. {a \in Used : obj[a] = o} = {}
  BY DEF Exists, Objects
<1>2. QED
  BY <1>1 DEF Edges

\* Between collections stacks and handles are what they seem.
LEMMA Seen ==
    ASSUME gc = "idle" \/ gc = "copy"
    PROVE  /\ Stacks = [t \in Task |-> Objects(stack[t])]
           /\ Handles = [k \in Key |-> Objects(handles[k])]
  BY DEF Stacks, Handles, StackNow, HandleNow

\* Objects of a set with one address more, or one less.
LEMMA Pointwise ==
    ASSUME Identified, NEW A \in SUBSET Used
    PROVE  /\ \A B \in SUBSET Used : Objects(A \union B) = Objects(A) \union Objects(B)
           /\ \A B \in SUBSET Used : Objects(A \ B) = Objects(A) \ Objects(B)
           /\ \A b \in Used : Objects({b}) = {obj[b]}
           /\ \A b \in A : obj[b] \in Objects(A)
           /\ Objects(A) \subseteq Exists
  BY DEF Objects, Identified, Exists

\* A step that leaves the objects alone leaves their graph alone.
LEMMA SameGraph ==
    ASSUME UNCHANGED <<space, obj, ref>>
    PROVE  /\ Used' = Used /\ Exists' = Exists /\ Edges' = Edges
           /\ Identified => Identified'
<1>1. Used' = Used
  BY DEF Used, Young, Old
<1>2. Exists' = Exists
  BY <1>1 DEF Exists, Objects
<1>3. Edges' = Edges
  BY <1>1 DEF Edges, Objects
<1>4. Identified => Identified'
  BY <1>1 DEF Identified
<1>5. QED
  BY <1>1, <1>2, <1>3, <1>4

-----------------------------------------------------------------------------
(* The tasks and the hosts.                                                *)

\* A new object.
LEMMA AllocRefines ==
    ASSUME IInv, Identified, NEW t \in Task, NEW a \in Addr, NEW o \in Object,
           Alloc(t, a, o)
    PROVE  Identified' /\ Contract!New(t)
<1>1. gc = "idle" /\ gc' = "idle" /\ UNCHANGED handles
  BY RunsAlone DEF Alloc, collector, IInv
<1>2. TypeOK /\ a \in Addr \ Used
  BY DEF Alloc, Free, IInv
<1>3. Used' = Used \union {a}
  BY <1>2 DEF Alloc, TypeOK, Used, Young, Old
<1>4. /\ \A b \in Used : obj'[b] = obj[b] /\ ref'[b] = ref[b] /\ obj[b] # o
      /\ obj'[a] = o /\ ref'[a] = {}
  BY <1>2 DEF Alloc, TypeOK, Used, Young, Old
<1>5. Identified'
  BY <1>3, <1>4 DEF Identified
<1>6. o \in Object \ Exists /\ Exists' = Exists \union {o}
  <2>1. o \notin Exists
    BY <1>4 DEF Exists, Objects
  <2>2. Exists' = {obj'[b] : b \in Used \union {a}}
    BY <1>3 DEF Exists, Objects
  <2>3. QED
    BY <1>4, <2>1, <2>2 DEF Exists, Objects
<1>7. \A A \in SUBSET Used : {obj'[b] : b \in A} = Objects(A)
  BY <1>4 DEF Objects
<1>8. HeapClosed /\ (\A u \in Task : stack[u] \subseteq Used)
      /\ \A k \in Key : handles[k] \subseteq Used
  BY <1>1 DEF IInv, NoDangling, StacksValid, HandlesValid
<1>9. Edges' = Edges
  <2>1. SUFFICES ASSUME NEW p \in Object
                 PROVE  Edges'[p] = Edges[p]
    BY DEF Edges
  <2>2. Edges'[p] = UNION {{obj'[c] : c \in ref'[b]} : b \in {b \in Used' : obj'[b] = p}}
    BY DEF Edges, Objects
  <2>3. CASE p = o
    <3>1. {b \in Used' : obj'[b] = p} = {a}
      BY <1>3, <1>4, <2>3
    <3>2. Edges'[p] = {}
      BY <1>4, <2>2, <3>1
    <3>3. Edges[p] = {}
      BY <1>6, <2>3, NoEdges
    <3>4. QED
      BY <3>2, <3>3
  <2>4. CASE p # o
    <3>1. {b \in Used' : obj'[b] = p} = {b \in Used : obj[b] = p}
      BY <1>3, <1>4, <2>4
    <3>2. \A b \in Used : {obj'[c] : c \in ref'[b]} = Objects(ref[b])
      BY <1>4, <1>7, <1>8 DEF HeapClosed
    <3>3. Edges[p] = UNION {Objects(ref[b]) : b \in {b \in Used : obj[b] = p}}
      BY DEF Edges
    <3>4. Edges'[p] = UNION {{obj'[c] : c \in ref'[b]} : b \in {b \in Used : obj[b] = p}}
      BY <2>2, <3>1
    <3>5. QED
      BY <3>2, <3>3, <3>4
  <2>5. QED
    BY <2>3, <2>4
<1>10. Handles' = Handles
  <2>1. Handles' = [k \in Key |-> {obj'[b] : b \in handles[k]}]
    BY <1>1 DEF Handles, HandleNow, Objects
  <2>2. QED
    BY <1>1, <1>7, <1>8, <2>1, Seen
<1>11. Stacks' = [Stacks EXCEPT ![t] = @ \union {o}]
  <2>1. Stacks' = [u \in Task |-> {obj'[b] : b \in stack'[u]}]
    BY <1>1 DEF Stacks, StackNow, Objects
  <2>2. \A u \in Task : stack'[u] = IF u = t THEN stack[u] \union {a} ELSE stack[u]
    BY <1>2 DEF Alloc, Push, TypeOK
  <2>3. \A u \in Task : {obj'[b] : b \in stack[u]} = Objects(stack[u])
    BY <1>7, <1>8
  <2>4. {obj'[b] : b \in stack[t] \union {a}} = Objects(stack[t]) \union {o}
    BY <1>4, <2>3
  <2>5. QED
    BY <1>1, <2>1, <2>2, <2>3, <2>4, Seen
<1>12. QED
  BY <1>5, <1>6, <1>9, <1>10, <1>11 DEF Contract!New

\* A stack that loses an address loses the object there.
LEMMA Unpushed ==
    ASSUME Identified, NEW S \in SUBSET Used, NEW a \in S
    PROVE  /\ Objects(S \ {a}) = Objects(S) \ {obj[a]}
           /\ obj[a] \in Objects(S)
<1>1. {a} \in SUBSET Used
  OBVIOUS
<1>2. /\ \A B \in SUBSET Used : Objects(S \ B) = Objects(S) \ Objects(B)
      /\ Objects({a}) = {obj[a]} /\ obj[a] \in Objects(S)
  BY <1>1, Pointwise
<1>3. Objects(S \ {a}) = Objects(S) \ Objects({a})
  BY <1>1, <1>2
<1>4. QED
  BY <1>2, <1>3

\* A load, a pop, a handle created or resolved: the objects stay as they are.
LEMMA RootsRefine ==
    ASSUME IInv, Identified, NEW t \in Task,
           \/ \E a \in Addr : \/ Pop(t, a)
                             \/ \E b \in Addr : Load(t, a, b)
                             \/ \E k \in Key : CreateHandle(t, a, k)
           \/ \E k \in Key : ResolveHandle(t, k)
           \/ \E u \in Task, a \in Addr : \/ Hand(t, u, a) \/ Fetch(t, u, a)
                                        \/ Forget(t, u, a)
           \/ Finish(t)
    PROVE  Identified' /\ Contract!Next
<1>1. /\ gc = "idle" /\ gc' = "idle"
      /\ UNCHANGED <<space, obj, ref>>
  <2>1. pc[t] = "running"
    BY DEF Pop, Load, CreateHandle, ResolveHandle, Hand, Fetch, Forget, Finish
  <2>2. gc = "idle"
    BY <2>1, RunsAlone
  <2>3. QED
    BY <2>2 DEF Pop, Load, CreateHandle, ResolveHandle, Hand, Fetch, Forget, Finish,
                collector
<1>2. Identified' /\ Exists' = Exists /\ Edges' = Edges
  BY <1>1, SameGraph
<1>3. /\ Stacks = [u \in Task |-> Objects(stack[u])]
      /\ Handles = [k \in Key |-> Objects(handles[k])]
  BY <1>1, Seen
<1>4. /\ Stacks' = [u \in Task |-> Objects(stack'[u])]
      /\ Handles' = [k \in Key |-> Objects(handles'[k])]
  BY <1>1 DEF Stacks, Handles, StackNow, HandleNow, Objects
<1>5. TypeOK /\ HeapClosed /\ (\A u \in Task : stack[u] \subseteq Used)
      /\ \A k \in Key : handles[k] \subseteq Used
  BY <1>1 DEF IInv, NoDangling, StacksValid, HandlesValid
<1>6. ASSUME NEW a \in Addr, Pop(t, a)
      PROVE  Contract!Drop(t)
  <2>1. a \in stack[t] /\ a \in Used /\ UNCHANGED handles
    BY <1>5, <1>6 DEF Pop
  <2>2. \A u \in Task : stack'[u] = IF u = t THEN stack[u] \ {a} ELSE stack[u]
    BY <1>5, <1>6 DEF Pop, TypeOK
  <2>3. Objects(stack[t] \ {a}) = Objects(stack[t]) \ {obj[a]}
        /\ obj[a] \in Objects(stack[t])
    BY <1>5, <2>1, Unpushed
  <2>4. Stacks' = [Stacks EXCEPT ![t] = @ \ {obj[a]}] /\ {obj[a]} \in SUBSET Stacks[t]
        /\ Handles' = Handles
    BY <1>3, <1>4, <2>1, <2>2, <2>3
  <2>5. QED
    BY <1>2, <2>4 DEF Contract!Drop
<1>7. ASSUME NEW a \in Addr, NEW b \in Addr, Load(t, a, b)
      PROVE  Contract!Read(t)
  <2>1. a \in stack[t] /\ b \in ref[a] /\ UNCHANGED handles
    BY <1>7 DEF Load
  <2>2. a \in Used /\ b \in Used /\ ref[a] \subseteq Used
    BY <1>5, <2>1 DEF HeapClosed
  <2>3. \A u \in Task : stack'[u] = IF u = t THEN stack[u] \union {b} ELSE stack[u]
    BY <1>5, <1>7 DEF Load, Push, TypeOK
  <2>4. Objects(stack[t] \union {b}) = Objects(stack[t]) \union {obj[b]}
        /\ obj[a] \in Objects(stack[t])
    <3>1. {b} \in SUBSET Used /\ stack[t] \in SUBSET Used
      BY <1>5, <2>2
    <3>2. /\ \A B \in SUBSET Used : Objects(stack[t] \union B) = Objects(stack[t]) \union Objects(B)
          /\ Objects({b}) = {obj[b]} /\ obj[a] \in Objects(stack[t])
      BY <2>1, <2>2, <3>1, Pointwise
    <3>3. Objects(stack[t] \union {b}) = Objects(stack[t]) \union Objects({b})
      BY <3>1, <3>2
    <3>4. QED
      BY <3>2, <3>3
  <2>5. obj[b] \in Edges[obj[a]]
    BY <2>1, <2>2, EdgesOf, Pointwise
  <2>6. Stacks' = [Stacks EXCEPT ![t] = @ \union {obj[b]}] /\ obj[a] \in Stacks[t]
        /\ Handles' = Handles
    BY <1>3, <1>4, <2>1, <2>3, <2>4
  <2>7. QED
    BY <1>2, <2>5, <2>6 DEF Contract!Read
<1>8. ASSUME NEW a \in Addr, NEW k \in Key, CreateHandle(t, a, k)
      PROVE  Contract!Export(t)
  <2>1. a \in stack[t] /\ a \in Used /\ handles[k] = {} /\ UNCHANGED stack
    BY <1>5, <1>8 DEF CreateHandle
  <2>2. \A j \in Key : handles'[j] = IF j = k THEN {a} ELSE handles[j]
    BY <1>5, <1>8 DEF CreateHandle, TypeOK
  <2>3. Objects({a}) = {obj[a]} /\ Objects({}) = {} /\ obj[a] \in Objects(stack[t])
    BY <1>5, <2>1 DEF Objects
  <2>4. Handles' = [Handles EXCEPT ![k] = {obj[a]}] /\ Handles[k] = {}
        /\ obj[a] \in Stacks[t] /\ Stacks' = Stacks
    BY <1>3, <1>4, <2>1, <2>2, <2>3
  <2>5. QED
    BY <1>2, <2>4 DEF Contract!Export
<1>9. ASSUME NEW k \in Key, ResolveHandle(t, k)
      PROVE  Contract!Import(t)
  <2>1. UNCHANGED handles
    BY <1>9 DEF ResolveHandle
  <2>2. \A u \in Task : stack'[u] = IF u = t THEN stack[u] \union handles[k] ELSE stack[u]
    BY <1>5, <1>9 DEF ResolveHandle, TypeOK
  <2>3. Objects(stack[t] \union handles[k]) = Objects(stack[t]) \union Objects(handles[k])
    BY <1>5, Pointwise
  <2>4. Stacks' = [Stacks EXCEPT ![t] = @ \union Handles[k]] /\ Handles' = Handles
    BY <1>3, <1>4, <2>1, <2>2, <2>3
  <2>5. QED
    BY <1>2, <2>4 DEF Contract!Import
<1>10. ASSUME NEW u \in Task, NEW a \in Addr, Hand(t, u, a)
       PROVE  Contract!Hand(t)
  <2>1. a \in stack[t] /\ a \in Used /\ UNCHANGED handles
    BY <1>5, <1>10 DEF Hand
  <2>2. \A w \in Task : stack'[w] = IF w = u THEN stack[u] \union {a} ELSE stack[w]
    BY <1>5, <1>10 DEF Hand, Push, TypeOK
  <2>3. Objects(stack[u] \union {a}) = Objects(stack[u]) \union {obj[a]}
        /\ obj[a] \in Objects(stack[t])
    BY <2>1 DEF Objects
  <2>4. Stacks' = [Stacks EXCEPT ![u] = @ \union {obj[a]}]
        /\ obj[a] \in Stacks[t] /\ Handles' = Handles
    BY <1>3, <1>4, <2>1, <2>2, <2>3
  <2>5. QED
    BY <1>2, <2>4 DEF Contract!Hand
<1>11. ASSUME Finish(t)
       PROVE  Contract!Drop(t)
  <2>1. UNCHANGED handles
    BY <1>11 DEF Finish
  <2>2. \A w \in Task : stack'[w] = IF w = t THEN {} ELSE stack[w]
    BY <1>5, <1>11 DEF Finish, TypeOK
  <2>3. Objects({}) = {}
    BY DEF Objects
  <2>4. Stacks' = [Stacks EXCEPT ![t] = @ \ Stacks[t]] /\ Handles' = Handles
    BY <1>3, <1>4, <2>1, <2>2, <2>3
  <2>5. QED
    BY <1>2, <2>4 DEF Contract!Drop
<1>12. ASSUME NEW u \in Task, NEW a \in Addr, Fetch(t, u, a)
       PROVE  Contract!Hand(u)
  <2>1. a \in stack[u] /\ a \in Used /\ UNCHANGED handles
    BY <1>5, <1>12 DEF Fetch
  <2>2. \A w \in Task : stack'[w] = IF w = t THEN stack[t] \union {a} ELSE stack[w]
    BY <1>5, <1>12 DEF Fetch, Push, TypeOK
  <2>3. Objects(stack[t] \union {a}) = Objects(stack[t]) \union {obj[a]}
        /\ obj[a] \in Objects(stack[u])
    BY <2>1 DEF Objects
  <2>4. Stacks' = [Stacks EXCEPT ![t] = @ \union {obj[a]}]
        /\ obj[a] \in Stacks[u] /\ Handles' = Handles
    BY <1>3, <1>4, <2>1, <2>2, <2>3
  <2>5. QED
    BY <1>2, <2>4 DEF Contract!Hand
<1>13. ASSUME NEW u \in Task, NEW a \in Addr, Forget(t, u, a)
       PROVE  Contract!Drop(u)
  <2>1. a \in stack[u] /\ a \in Used /\ UNCHANGED handles
    BY <1>5, <1>13 DEF Forget
  <2>2. \A w \in Task : stack'[w] = IF w = u THEN stack[u] \ {a} ELSE stack[w]
    BY <1>5, <1>13 DEF Forget, TypeOK
  <2>3. Objects(stack[u] \ {a}) = Objects(stack[u]) \ {obj[a]}
        /\ obj[a] \in Objects(stack[u])
    BY <1>5, <2>1, Unpushed
  <2>4. Stacks' = [Stacks EXCEPT ![u] = @ \ {obj[a]}] /\ {obj[a]} \in SUBSET Stacks[u]
        /\ Handles' = Handles
    BY <1>3, <1>4, <2>1, <2>2, <2>3
  <2>5. QED
    BY <1>2, <2>4 DEF Contract!Drop
<1>14. QED
  BY <1>2, <1>6, <1>7, <1>8, <1>9, <1>10, <1>11, <1>12, <1>13 DEF Contract!Next

\* A store of b into a, in place of what old holds.
LEMMA PutRefines ==
    ASSUME IInv, Identified, gc = "idle", NEW t \in Task,
           NEW a \in stack[t], NEW b \in stack[t], NEW old, Put(a, b, old),
           UNCHANGED <<space, obj, stack, handles, gc>>
    PROVE  Identified' /\ Contract!Write(t)
<1>1. TypeOK /\ HeapClosed /\ a \in Used /\ b \in Used /\ stack[t] \subseteq Used
  BY DEF IInv, NoDangling, StacksValid
<1>2. Used' = Used
  BY DEF Used, Young, Old
<1>3. Identified'
  BY <1>2 DEF Identified
<1>4. Exists' = Exists /\ Stacks' = Stacks /\ Handles' = Handles
  BY <1>2 DEF Exists, Stacks, StackNow, Handles, HandleNow, Objects
<1>5. /\ old \subseteq ref[a] /\ ref[a] \subseteq Used
      /\ \A x, y \in old : x = y
      /\ ref'[a] = (ref[a] \ old) \union {b}
      /\ \A x \in Used : x # a => ref'[x] = ref[x]
  BY <1>1 DEF Put, TypeOK, HeapClosed, Used, Young, Old
<1>6. obj[a] \in Object /\ Edges[obj[a]] = Objects(ref[a])
  BY <1>1, EdgesOf
<1>7. Objects(ref'[a]) = (Objects(ref[a]) \ Objects(old)) \union {obj[b]}
  BY <1>1, <1>5 DEF Objects, Identified
<1>8. Edges' = [o \in Object |-> UNION {Objects(ref'[x]) : x \in {x \in Used : obj[x] = o}}]
  BY <1>2 DEF Edges, Objects
<1>9. Edges'[obj[a]] = Objects(ref'[a])
  <2>1. \A x \in Used : obj[x] = obj[a] <=> x = a
    BY <1>1 DEF Identified
  <2>2. {x \in Used : obj[x] = obj[a]} = {a}
    BY <1>1, <2>1
  <2>3. Edges'[obj[a]] = UNION {Objects(ref'[x]) : x \in {a}}
    BY <1>6, <1>8, <2>2
  <2>4. QED
    BY <2>3
<1>10. ASSUME NEW o \in Object, o # obj[a]
       PROVE  Edges'[o] = Edges[o]
  <2>1. \A x \in {x \in Used : obj[x] = o} : Objects(ref'[x]) = Objects(ref[x])
    BY <1>5, <1>10
  <2>2. Edges[o] = UNION {Objects(ref[x]) : x \in {x \in Used : obj[x] = o}}
    BY DEF Edges
  <2>3. Edges'[o] = UNION {Objects(ref'[x]) : x \in {x \in Used : obj[x] = o}}
    BY <1>8
  <2>4. QED
    BY <2>1, <2>2, <2>3
<1>11. Edges' = [Edges EXCEPT ![obj[a]] = (@ \ Objects(old)) \union {obj[b]}]
  <2>1. Edges = [o \in Object |-> Edges[o]] /\ Edges' = [o \in Object |-> Edges'[o]]
    BY DEF Edges
  <2>2. QED
    BY <1>6, <1>7, <1>9, <1>10, <2>1
<1>12. /\ Objects(old) \in SUBSET Edges[obj[a]]
       /\ \A x, y \in Objects(old) : x = y
  BY <1>5, <1>6 DEF Objects
<1>13. obj[a] \in Stacks[t] /\ obj[b] \in Stacks[t]
  BY Seen DEF Objects
<1>14. QED
  BY <1>3, <1>4, <1>11, <1>12, <1>13 DEF Contract!Write

\* Only the half of a store that writes is seen.
LEMMA StoresRefine ==
    ASSUME IInv, Identified, NEW t \in Task,
           \/ \E a, b \in Addr : \E old \in SUBSET ref[a] : WriteThenBarrier(t, a, b, old)
           \/ \E old \in SUBSET Addr : Write(t, old)
    PROVE  Identified' /\ Contract!Write(t)
<1>1. CASE \E a, b \in Addr : \E old \in SUBSET ref[a] : WriteThenBarrier(t, a, b, old)
  <2>1. PICK a \in Addr, b \in Addr : \E old \in SUBSET ref[a] : WriteThenBarrier(t, a, b, old)
    BY <1>1
  <2>2. PICK old \in SUBSET ref[a] : WriteThenBarrier(t, a, b, old)
    BY <2>1
  <2>3. /\ pc[t] = "running" /\ a \in stack[t] /\ b \in stack[t]
        /\ Put(a, b, old) /\ UNCHANGED <<space, obj, stack, handles, gc>>
    BY <2>2 DEF WriteThenBarrier, collector
  <2>4. QED
    BY <2>3, RunsAlone, PutRefines
<1>2. CASE \E old \in SUBSET Addr : Write(t, old)
  <2>1. PICK old \in SUBSET Addr : Write(t, old)
    BY <1>2
  <2>2. /\ pc[t] = "writing"
        /\ Put(store[t][1], store[t][2], old)
        /\ UNCHANGED <<space, obj, stack, handles, gc>>
    BY <2>1 DEF Write, collector
  <2>3. store[t][1] \in stack[t] /\ store[t][2] \in stack[t]
    BY <2>2 DEF IInv, StoreUnderWay
  <2>4. QED
    BY <2>2, <2>3, RunsAlone, PutRefines
<1>3. QED
  BY <1>1, <1>2

\* Marking a card, parking and resuming are not seen at all.
LEMMA QuietSteps ==
    ASSUME IInv, Identified,
           \/ \E t \in Task : \/ Barrier(t) \/ Park(t) \/ Resume(t)
                              \/ \E a, b \in Addr : \/ BarrierThenWrite(t, a, b)
                                                   \/ BuiltinMut(t, a, b)
           \/ CollectRoots
           \/ UNCHANGED vars
    PROVE  Identified' /\ UNCHANGED Contract!vars
<1>1. /\ UNCHANGED <<space, obj, ref, stack, handles, fwd>>
      /\ gc' = gc \/ (gc \in {"idle", "copy"} /\ gc' \in {"idle", "copy"})
  BY DEF Barrier, Park, Resume, BarrierThenWrite, BuiltinMut, CollectRoots, vars, collector
<1>2. Identified' /\ Exists' = Exists /\ Edges' = Edges
  BY <1>1, SameGraph
<1>3. \A t \in Task : Objects(StackNow(t))' = Objects(StackNow(t))
  BY <1>1 DEF StackNow, Objects, Fixup
<1>4. \A k \in Key : Objects(HandleNow(k))' = Objects(HandleNow(k))
  BY <1>1 DEF HandleNow, Objects, Fixup
<1>5. Stacks' = Stacks /\ Handles' = Handles
  BY <1>3, <1>4 DEF Stacks, Handles
<1>6. QED
  BY <1>2, <1>5 DEF Contract!vars

\* A host drops a handle, in the middle of a collection or not.
LEMMA ReleaseRefines ==
    ASSUME IInv, Identified, NEW k \in Key, ReleaseHandle(k)
    PROVE  Identified' /\ Contract!Release
<1>1. UNCHANGED <<space, obj, ref, stack, gc, fwd>>
  BY DEF ReleaseHandle, collector
<1>2. Identified' /\ Exists' = Exists /\ Edges' = Edges
  BY <1>1, SameGraph
<1>3. Stacks' = Stacks
  BY <1>1 DEF Stacks, StackNow, Objects, Fixup
<1>4. \A j \in Key : handles'[j] = IF j = k THEN {} ELSE handles[j]
  BY DEF ReleaseHandle, IInv, TypeOK
<1>5. Objects(HandleNow(k))' = {}
  BY <1>4 DEF HandleNow, Objects, Fixup
<1>6. \A j \in Key : j # k => Objects(HandleNow(j))' = Objects(HandleNow(j))
  BY <1>1, <1>4 DEF HandleNow, Objects, Fixup
<1>7. Handles' = [Handles EXCEPT ![k] = {}]
  <2>1. Handles' = [j \in Key |-> Objects(HandleNow(j))']
    BY DEF Handles
  <2>2. QED
    BY <1>5, <1>6, <2>1 DEF Handles
<1>8. QED
  BY <1>2, <1>3, <1>7 DEF Contract!Release

-----------------------------------------------------------------------------
(* Collections.                                                            *)

\* Where an object that the collection keeps or moves lies afterwards.
Lands(a, m) == IF a \in DOMAIN m THEN m[a] ELSE a

\* The objects kept and reached are the ones left, each of them once.
LEMMA Landing ==
    ASSUME TypeOK, HeapClosed, Identified,
           NEW kept, NEW fixed, NEW reached, NEW moved, NEW m, NEW target,
           TracedEnough(kept, fixed, reached, moved, m, target)
    PROVE  /\ kept \union reached \subseteq Used
           /\ Used' = {Lands(a, m) : a \in kept \union reached}
           /\ \A a \in kept \union reached : obj'[Lands(a, m)] = obj[a]
           /\ \A a \in reached : fwd'[a] = Lands(a, m)
           /\ DOMAIN fwd' = reached
           /\ \A a \in kept \ reached : Lands(a, m) = a
           /\ Identified'
<1> USE DEF TracedEnough
<1>1. /\ kept \subseteq Addr /\ reached \subseteq Addr /\ moved \subseteq Addr
      /\ kept \union reached \subseteq Used /\ Free \cap Used = {} /\ Free \subseteq Addr
  BY DEF Used, Old, Young, Free
<1>2. /\ m \in [moved -> Free] /\ DOMAIN m = moved
      /\ Image(m) \subseteq Free
      /\ \A b \in Image(m) : Source(m, b) \in moved /\ m[Source(m, b)] = b
      /\ \A a \in moved : m[a] \in Image(m) /\ Source(m, m[a]) = a
  BY <1>1, SourceOfCopy
<1>3. Compacted(kept, reached, m, target)
  BY Relocated
<1>4. Used' = {Lands(a, m) : a \in kept \union reached}
  <2>1. Used' = kept \union Image(m)
    BY <1>3 DEF Compacted
  <2>2. \A a \in kept : Lands(a, m) = a
    BY <1>2 DEF Lands
  <2>3. \A a \in moved : Lands(a, m) = m[a] /\ m[a] \in Image(m)
    BY <1>2 DEF Lands
  <2>4. \A b \in Image(m) : Source(m, b) \in moved /\ Lands(Source(m, b), m) = b
    BY <1>2 DEF Lands
  <2>5. kept \union reached = kept \union moved
    OBVIOUS
  <2>6. QED
    BY <2>1, <2>2, <2>3, <2>4, <2>5
<1>5. ASSUME NEW a \in kept \union reached
      PROVE  obj'[Lands(a, m)] = obj[a]
  <2>1. CASE a \in kept
    BY <1>1, <1>2, <2>1 DEF Lands, Relocate
  <2>2. CASE a \notin kept
    <3>1. a \in moved /\ Lands(a, m) = m[a] /\ m[a] \in Image(m) /\ Source(m, m[a]) = a
      BY <1>2, <2>2 DEF Lands
    <3>2. m[a] \in Addr /\ m[a] \notin kept
      BY <1>1, <1>2, <3>1
    <3>3. QED
      BY <3>1, <3>2 DEF Relocate
  <2>3. QED
    BY <2>1, <2>2
<1>6. DOMAIN fwd' = reached /\ \A a \in reached : fwd'[a] = Lands(a, m)
  BY DEF Relocate, Forwarding, Lands
<1>7. \A a \in kept \ reached : Lands(a, m) = a
  BY <1>2 DEF Lands
<1>8. Identified'
  <2>1. ASSUME NEW x \in Used'
        PROVE  \E a \in kept \union reached : x = Lands(a, m) /\ obj'[x] = obj[a]
    BY <1>4, <1>5
  <2>2. \A x \in Used' : obj'[x] \in Object
    BY <1>1, <2>1 DEF Identified
  <2>3. ASSUME NEW x \in Used', NEW y \in Used', obj'[x] = obj'[y]
        PROVE  x = y
    <3>1. PICK a \in kept \union reached : x = Lands(a, m) /\ obj'[x] = obj[a]
      BY <2>1
    <3>2. PICK b \in kept \union reached : y = Lands(b, m) /\ obj'[y] = obj[b]
      BY <2>1
    <3>3. a = b
      BY <1>1, <2>3, <3>1, <3>2 DEF Identified
    <3>4. QED
      BY <3>1, <3>2, <3>3
  <2>4. QED
    BY <2>2, <2>3 DEF Identified
<1>9. QED
  BY <1>1, <1>4, <1>5, <1>6, <1>7, <1>8

\* A collection whose roots are traced forgets objects and nothing else.
LEMMA CollectionRefines ==
    ASSUME IInv, Identified, gc = "copy",
           NEW kept, NEW fixed, NEW reached, NEW moved, NEW m, NEW target,
           TracedEnough(kept, fixed, reached, moved, m, target), roots \subseteq reached
    PROVE  Identified' /\ Contract!Collect
<1> USE DEF TracedEnough
<1> DEFINE S == kept \union reached
<1>1. TypeOK /\ HeapClosed
  BY DEF IInv, NoDangling
<1>2. /\ S \subseteq Used
      /\ Used' = {Lands(a, m) : a \in S}
      /\ \A a \in S : obj'[Lands(a, m)] = obj[a]
      /\ \A a \in reached : fwd'[a] = Lands(a, m)
      /\ DOMAIN fwd' = reached
      /\ \A a \in kept \ reached : Lands(a, m) = a
      /\ Identified'
  BY <1>1, Landing
<1>3. \A a \in S : Lands(a, m) = IF a \in DOMAIN fwd' THEN fwd'[a] ELSE a
  BY <1>2
<1>4. ASSUME NEW A \in SUBSET S
      PROVE  {obj'[b] : b \in Fixup(A, fwd')} = Objects(A)
  <2>1. Fixup(A, fwd') = {Lands(a, m) : a \in A}
    BY <1>3 DEF Fixup
  <2>2. {obj'[b] : b \in {Lands(a, m) : a \in A}} = {obj[a] : a \in A}
    BY <1>2
  <2>3. QED
    BY <2>1, <2>2 DEF Objects
<1>5. gc' = "handles" /\ UNCHANGED <<stack, handles>>
  BY DEF Relocate
<1>6. /\ \A t \in Task : stack[t] \subseteq reached
      /\ \A k \in Key : handles[k] \subseteq reached
  BY DEF IInv, CollectorKnows
<1>7. /\ Stacks = [t \in Task |-> Objects(stack[t])]
      /\ Handles = [k \in Key |-> Objects(handles[k])]
  BY Seen
<1>8. Stacks' = Stacks
  <2>1. Stacks' = [t \in Task |-> {obj'[b] : b \in Fixup(stack[t], fwd')}]
    BY <1>5 DEF Stacks, StackNow, Objects, Fixup
  <2>2. \A t \in Task : {obj'[b] : b \in Fixup(stack[t], fwd')} = Objects(stack[t])
    BY <1>4, <1>6
  <2>3. QED
    BY <1>7, <2>1, <2>2
<1>9. Handles' = Handles
  <2>1. Handles' = [k \in Key |-> {obj'[b] : b \in Fixup(handles[k], fwd')}]
    BY <1>5 DEF Handles, HandleNow, Objects, Fixup
  <2>2. \A k \in Key : {obj'[b] : b \in Fixup(handles[k], fwd')} = Objects(handles[k])
    BY <1>4, <1>6
  <2>3. QED
    BY <1>7, <2>1, <2>2
<1>10. Exists' = Objects(S)
  <2>1. Exists' = {obj'[b] : b \in Used'}
    BY DEF Exists, Objects
  <2>2. {obj'[b] : b \in {Lands(a, m) : a \in S}} = {obj[a] : a \in S}
    BY <1>2
  <2>3. QED
    BY <1>2, <2>1, <2>2 DEF Objects
<1>11. ASSUME NEW a \in S
       PROVE  ref[a] \subseteq S
  BY <1>11, <1>1, <1>2 DEF HeapClosed
<1>12. ASSUME NEW a \in S
       PROVE  {obj'[c] : c \in ref'[Lands(a, m)]} = Objects(ref[a])
  <2>1. a \in Addr /\ kept \subseteq Used /\ Used \subseteq Addr /\ Free \cap Used = {}
        /\ Free \subseteq Addr /\ moved \subseteq Addr
    BY <1>2, <1>12 DEF Used, Young, Old, Free
  <2>2. /\ DOMAIN m = moved /\ Image(m) \subseteq Free
        /\ \A x \in moved : m[x] \in Image(m) /\ Source(m, m[x]) = x
    <3>1. m \in [moved -> Free]
      BY DEF Moves
    <3>2. QED
      BY <2>1, <3>1, SourceOfCopy
  <2>3. fwd' = Forwarding(reached, m)
    BY DEF Relocate
  <2>4. CASE a \in kept \ fixed
    <3>1. Lands(a, m) = a /\ ref'[a] = ref[a] /\ ref[a] \subseteq kept
      BY <2>1, <2>2, <2>4 DEF Relocate, Lands
    <3>2. \A c \in ref[a] : obj'[c] = obj[c]
      <4>1. \A c \in kept : Lands(c, m) = c
        BY <2>2 DEF Lands
      <4>2. QED
        BY <1>2, <3>1, <4>1
    <3>3. QED
      BY <3>1, <3>2 DEF Objects
  <2>5. CASE a \in fixed
    <3>1. Lands(a, m) = a /\ ref'[a] = Fixup(ref[a], fwd')
      BY <2>1, <2>2, <2>3, <2>5 DEF Relocate, Lands
    <3>2. QED
      BY <1>4, <1>11, <3>1
  <2>6. CASE a \in moved
    <3>1. Lands(a, m) = m[a] /\ m[a] \in Image(m) /\ m[a] \notin kept /\ m[a] \in Addr
          /\ Source(m, m[a]) = a
      BY <2>1, <2>2, <2>6 DEF Lands
    <3>2. ref'[m[a]] = Fixup(ref[a], fwd')
      BY <2>3, <3>1 DEF Relocate
    <3>3. QED
      BY <1>4, <1>11, <3>1, <3>2
  <2>7. QED
    BY <2>4, <2>5, <2>6
<1>13. ASSUME NEW a \in S
       PROVE  /\ obj[a] \in Object /\ Edges[obj[a]] = Objects(ref[a])
              /\ Edges'[obj[a]] = Objects(ref[a])
              /\ Objects(ref[a]) \subseteq Exists'
  <2>1. a \in Used
    BY <1>2
  <2>2. obj[a] \in Object /\ Edges[obj[a]] = Objects(ref[a])
    BY <2>1, EdgesOf
  <2>3. {b \in Used' : obj'[b] = obj[a]} = {Lands(a, m)}
    <3>1. Lands(a, m) \in Used' /\ obj'[Lands(a, m)] = obj[a]
      BY <1>2
    <3>2. \A b \in Used' : obj'[b] = obj[a] => b = Lands(a, m)
      BY <1>2, <3>1 DEF Identified
    <3>3. QED
      BY <3>1, <3>2
  <2>4. Edges'[obj[a]]
          = UNION {{obj'[c] : c \in ref'[b]} : b \in {b \in Used' : obj'[b] = obj[a]}}
    BY <2>2 DEF Edges, Objects
  <2>5. Edges'[obj[a]] = {obj'[c] : c \in ref'[Lands(a, m)]}
    BY <2>3, <2>4
  <2>6. Objects(ref[a]) \subseteq Exists'
    BY <1>10, <1>11 DEF Objects
  <2>7. QED
    BY <1>12, <2>2, <2>5, <2>6
<1>14. ASSUME NEW o \in Object, o \notin Exists'
       PROVE  Edges'[o] = {}
  <2>1. {b \in Used' : obj'[b] = o} = {}
    BY <1>14 DEF Exists, Objects
  <2>2. Edges'[o] = UNION {{obj'[c] : c \in ref'[b]} : b \in {b \in Used' : obj'[b] = o}}
    BY DEF Edges, Objects
  <2>3. QED
    BY <2>1, <2>2
<1>15. \A o \in Exists' : \E a \in S : o = obj[a]
  BY <1>10 DEF Objects
<1>16. Edges' = [o \in Object |-> IF o \in Exists' THEN Edges[o] ELSE {}]
  <2>1. ASSUME NEW o \in Object
        PROVE  Edges'[o] = IF o \in Exists' THEN Edges[o] ELSE {}
    <3>1. CASE o \in Exists'
      <4>1. PICK a \in S : o = obj[a]
        BY <1>15, <3>1
      <4>2. QED
        BY <1>13, <3>1, <4>1
    <3>2. CASE o \notin Exists'
      BY <1>14, <3>2
    <3>3. QED
      BY <3>1, <3>2
  <2>2. Edges' = [o \in Object |-> Edges'[o]]
    BY DEF Edges
  <2>3. QED
    BY <2>1, <2>2
<1>17. \A o \in Exists' : Edges[o] \subseteq Exists'
  BY <1>13, <1>15
<1>18. Exists' \subseteq Exists
  BY <1>2, <1>10 DEF Exists, Objects
<1>19. Contract!Rooted \subseteq Exists'
  <2>1. \A t \in Task : Stacks[t] \subseteq Exists'
    BY <1>6, <1>7, <1>10 DEF Objects
  <2>2. \A k \in Key : Handles[k] \subseteq Exists'
    BY <1>6, <1>7, <1>10 DEF Objects
  <2>3. QED
    BY <2>1, <2>2 DEF Contract!Rooted
<1>20. QED
  BY <1>2, <1>8, <1>9, <1>16, <1>17, <1>18, <1>19 DEF Contract!Collect

\* A minor collection traces enough.
LEMMA MinorRefines ==
    ASSUME IInv, Identified, Minor
    PROVE  Identified' /\ Contract!Collect
<1> DEFINE start == roots \union YoungRoots
           reached == Trace(start, Young)
           moved == reached \cap Young
           target == [a \in moved |-> IF space[a] = "gen0" THEN "gen1" ELSE "gen2"]
<1>1. PICK m \in Moves(moved) :
        Relocate(m, [a \in DOMAIN m |-> IF space[a] = "gen0" THEN "gen1" ELSE "gen2"],
                 Old, OnDirtyCards, Forwarding(reached, m))
  BY DEF Minor, AllDirtyFixed
<1>2. gc = "copy" /\ TypeOK /\ HeapClosed
  BY DEF Minor, IInv, NoDangling
<1>3. start \subseteq Used
  BY <1>2 DEF IInv, CollectorKnows, YoungRoots, Used
<1>4. /\ start \subseteq reached /\ reached \subseteq Used
      /\ \A c \in reached \cap Young : ref[c] \subseteq reached
  <2>1. Young \subseteq Used
    BY DEF Used
  <2>2. QED
    BY <1>2, <1>3, <2>1, TraceClosed
<1>5. moved = reached \ Old
  BY <1>4 DEF Used, Young, Old
<1>6. \A a \in OnDirtyCards : ref[a] \subseteq reached \union Old
  BY <1>2, <1>4 DEF OnDirtyCards, HeapClosed, YoungRoots, Used
<1>7. \A a \in Old \ OnDirtyCards : ref[a] \subseteq Old
  <2>1. \A t \in Task : pc[t] # "marking"
    BY <1>2 DEF IInv, CollectorKnows
  <2>2. \A a \in Old \ OnDirtyCards : ref[a] \cap Young = {}
    BY <2>1 DEF IInv, CardsCoverYoung, OnDirtyCards
  <2>3. QED
    BY <1>2, <2>2 DEF HeapClosed, Used
<1>8. target \in [moved -> {"gen1", "gen2"}] /\ DOMAIN m = moved
  BY DEF Moves
<1>9. Relocate(m, target, Old, OnDirtyCards, Forwarding(reached, m))
  BY <1>1, <1>8
<1>10. /\ \A a \in moved : ref[a] \subseteq reached
       /\ roots \subseteq reached
  BY <1>4
<1> HIDE DEF reached, moved, target, start
<1>11. TracedEnough(Old, OnDirtyCards, reached, moved, m, target)
  BY <1>4, <1>5, <1>6, <1>7, <1>8, <1>9, <1>10 DEF TracedEnough, OnDirtyCards
<1>12. QED
  BY <1>2, <1>10, <1>11, CollectionRefines

\* So does a major one, which keeps nothing in place.
LEMMA MajorRefines ==
    ASSUME IInv, Identified, Major
    PROVE  Identified' /\ Contract!Collect
<1> DEFINE reached == Trace(roots, Used)
           target == [a \in reached |-> "gen2"]
<1>1. PICK m \in Moves(reached) :
        Relocate(m, [a \in DOMAIN m |-> "gen2"], {}, {}, Forwarding(reached, m))
  BY DEF Major
<1>2. gc = "copy" /\ TypeOK /\ HeapClosed
  BY DEF Major, IInv, NoDangling
<1>3. /\ roots \subseteq reached /\ reached \subseteq Used
      /\ \A c \in reached \cap Used : ref[c] \subseteq reached
  BY <1>2, TraceClosed DEF IInv, CollectorKnows
<1>4. target \in [reached -> {"gen1", "gen2"}] /\ DOMAIN m = reached
  BY DEF Moves
<1>5. Relocate(m, target, {}, {}, Forwarding(reached, m))
  BY <1>1, <1>4
<1> HIDE DEF reached, target
<1>6. TracedEnough({}, {}, reached, reached, m, target)
  BY <1>1, <1>3, <1>4, <1>5 DEF TracedEnough
<1>7. QED
  BY <1>2, <1>3, <1>6, CollectionRefines

\* The forwarding of handles and stacks changes what they say, not what they
\* mean.
LEMMA ForwardingIsUnseen ==
    ASSUME IInv, Identified, UpdateHandles \/ ForwardRoots
    PROVE  Identified' /\ UNCHANGED Contract!vars
<1>1. UNCHANGED <<space, obj, ref>>
  BY DEF UpdateHandles, ForwardRoots
<1>2. Identified' /\ Exists' = Exists /\ Edges' = Edges
  BY <1>1, SameGraph
<1>3. CASE UpdateHandles
  <2>1. gc = "handles" /\ gc' = "forward" /\ UNCHANGED <<stack, fwd>>
        /\ \A k \in Key : /\ handles[k] \subseteq DOMAIN fwd
                          /\ handles'[k] = {fwd[a] : a \in handles[k]}
    BY <1>3 DEF UpdateHandles
  <2>2. Stacks' = Stacks
    BY <1>1, <2>1 DEF Stacks, StackNow, Objects, Fixup
  <2>3. \A k \in Key : Fixup(handles[k], fwd) = handles'[k]
    BY <2>1 DEF Fixup
  <2>4. Handles' = [k \in Key |-> {obj[a] : a \in handles'[k]}]
    BY <1>1, <2>1 DEF Handles, HandleNow, Objects
  <2>5. Handles = [k \in Key |-> {obj[a] : a \in handles'[k]}]
    BY <2>1, <2>3 DEF Handles, HandleNow, Objects
  <2>6. QED
    BY <1>2, <2>2, <2>4, <2>5 DEF Contract!vars
<1>4. CASE ForwardRoots
  <2>1. gc = "forward" /\ gc' = "idle" /\ UNCHANGED handles
        /\ \A t \in Task : stack'[t] = Fixup(stack[t], fwd)
    BY <1>4 DEF ForwardRoots
  <2>2. Handles' = Handles
    BY <1>1, <2>1 DEF Handles, HandleNow, Objects
  <2>3. Stacks' = [t \in Task |-> {obj[a] : a \in stack'[t]}]
    BY <1>1, <2>1 DEF Stacks, StackNow, Objects
  <2>4. Stacks = [t \in Task |-> {obj[a] : a \in stack'[t]}]
    BY <2>1 DEF Stacks, StackNow, Objects
  <2>5. QED
    BY <1>2, <2>2, <2>3, <2>4 DEF Contract!vars
<1>5. QED
  BY <1>3, <1>4

-----------------------------------------------------------------------------
\* GenGC implements HeapContract: whichever collections come between the steps
\* of the tasks, no reachable object is lost, doubled, exchanged or cut off.
THEOREM Refinement == Spec => HeapAsPromised
<1>1. Init => Identified /\ Contract!Init
  <2> SUFFICES ASSUME Init PROVE Identified /\ Contract!Init
    OBVIOUS
  <2>2. Used = {} /\ gc = "idle"
    <3>1. gc = "idle" /\ \A a \in Addr : space[a] = "free"
      BY DEF Init
    <3>2. QED
      BY <3>1 DEF Used, Young, Old
  <2>3. Identified /\ Exists = {}
    BY <2>2 DEF Identified, Exists, Objects
  <2>4. Edges = [o \in Object |-> {}]
    <3>1. \A o \in Object : Edges[o] = {}
      BY <2>3, NoEdges
    <3>2. Edges = [o \in Object |-> Edges[o]]
      BY DEF Edges
    <3>3. QED
      BY <3>1, <3>2
  <2>5. Stacks = [t \in Task |-> {}] /\ Handles = [k \in Key |-> {}]
    BY <2>2 DEF Init, Stacks, StackNow, Handles, HandleNow, Objects
  <2>6. QED
    BY <2>3, <2>4, <2>5 DEF Contract!Init
<1>2. IInv /\ Identified /\ [Next]_vars
        => Identified' /\ [Contract!Next]_(Contract!vars)
  <2>1. SUFFICES ASSUME IInv, Identified, [Next]_vars
                 PROVE  Identified' /\ (Contract!Next \/ UNCHANGED Contract!vars)
    OBVIOUS
  <2>2. ASSUME NEW t \in Task, Mutate(t)
        PROVE  Identified' /\ (Contract!Next \/ UNCHANGED Contract!vars)
    <3>1. CASE \E a \in Addr, o \in Object : Alloc(t, a, o)
      BY <2>1, <3>1, AllocRefines DEF Contract!Next
    <3>2. CASE \/ \E a \in Addr : \/ Pop(t, a)
                                  \/ \E b \in Addr : Load(t, a, b)
                                  \/ \E k \in Key : CreateHandle(t, a, k)
               \/ \E k \in Key : ResolveHandle(t, k)
      BY <2>1, <3>2, RootsRefine
    <3>3. CASE \/ \E a, b \in Addr : \E old \in SUBSET ref[a] : WriteThenBarrier(t, a, b, old)
               \/ \E old \in SUBSET Addr : Write(t, old)
      BY <2>1, <3>3, StoresRefine DEF Contract!Next
    <3>4. CASE \/ Barrier(t)
               \/ \E a, b \in Addr : BarrierThenWrite(t, a, b) \/ BuiltinMut(t, a, b)
      BY <2>1, <3>4, QuietSteps
    <3>5. QED
      BY <2>2, <3>1, <3>2, <3>3, <3>4 DEF Mutate
  <2>3. ASSUME NEW t \in Task, Schedule(t)
        PROVE  Identified' /\ (Contract!Next \/ UNCHANGED Contract!vars)
    <3>1. CASE Park(t) \/ Resume(t)
      BY <2>1, <3>1, QuietSteps
    <3>2. CASE Finish(t) \/ \E u \in Task, a \in Addr : Hand(t, u, a)
      BY <2>1, <3>2, RootsRefine
    <3>3. CASE \E s \in Shared, a \in Addr : Fetch(t, s, a) \/ Forget(t, s, a)
      BY <2>1, <3>3, RootsRefine, HeapAssumption
    <3>4. QED
      BY <2>3, <3>1, <3>2, <3>3 DEF Schedule
  <2>4. CASE \E k \in Key : ReleaseHandle(k)
    BY <2>1, <2>4, ReleaseRefines DEF Contract!Next
  <2>5. CASE Minor \/ Major
    BY <2>1, <2>5, MinorRefines, MajorRefines DEF Contract!Next
  <2>6. CASE UpdateHandles \/ ForwardRoots
    BY <2>1, <2>6, ForwardingIsUnseen
  <2>7. CASE CollectRoots \/ UNCHANGED vars
    BY <2>1, <2>7, QuietSteps
  <2>8. QED
    BY <2>1, <2>2, <2>3, <2>4, <2>5, <2>6, <2>7 DEF Next
<1>3. QED
  BY <1>1, <1>2, Invariance, PTL DEF Spec, HeapAsPromised, Contract!Spec

=============================================================================
