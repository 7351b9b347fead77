---------------------------- MODULE ArenaProofs -----------------------------
(***************************************************************************)
(* For any number and any sizes of elements: an arena keeps what the       *)
(* program stores, but for the words that the nodes of small elements      *)
(* reach; one whose elements have room for a node raises no false alarm    *)
(* and implements the pool.  The invariant says that the free list, read   *)
(* through the memory of the freed elements, is then a stack of just those *)
(* elements that were given out and are not held.                          *)
(***************************************************************************)
EXTENDS Arena, TLAPS

\* A node in element e with its guard bits and this successor.
NodeAt(e, next) == Guarded(e) /\ mem[Word(e, 2)] = next

\* The free list is a stack s of height t.
FreeStack(t, s) ==
    /\ free_list = IF t = 0 THEN Null ELSE s[t]
    /\ \A i \in 1..t : s[i] \in Elements
    /\ \A i \in 1..t : NodeAt(s[i], IF i = 1 THEN Null ELSE s[i - 1])
    /\ \A i, j \in 1..t : s[i] = s[j] => i = j
    /\ \A e \in Elements : (e < bufstart /\ e \notin out) <=> \E i \in 1..t : s[i] = e

Stacks == [Nat -> Int]

\* What holds whatever the size of the elements.
Kept ==
    /\ TypeOK
    /\ DataKept
    /\ arena = "none" => out = {}
    /\ arena = "ready" /\ ~lazy_init => bufstart = Count

\* What the free list is where nodes fit.
Listed ==
    /\ \A e \in out : e < bufstart
    /\ \E t \in Nat : \E s \in Stacks : FreeStack(t, s)

ArenaInv ==
    /\ Kept
    /\ NoFalseAlarm
    /\ arena = "ready" /\ NodeFits => Listed

-----------------------------------------------------------------------------

\* Elements have one word at least.
LEMMA SizePositive == \A n \in ElementSizes : n \in Nat /\ n >= 1
BY ArenaAssumption DEF ElementSizes, ElementSize

\* A node lies in the buffer or right behind it.
LEMMA NodeInMemory ==
    ASSUME size \in ElementSizes, NEW e \in Elements, NEW k \in 0..2
    PROVE  Word(e, k) \in Words
<1>. DEFINE Offsets == UNION {0..(n - 1) : n \in ElementSizes}
<1>1. size \in Nat /\ size >= 1
  BY SizePositive
<1>2. \A j \in 0..(size - 1) : j \in Offsets
  OBVIOUS
<1>3. e \in 0..(Count + 1) /\ e + 1 \in 0..(Count + 1) /\ e + 2 \in 0..(Count + 1)
  BY ArenaAssumption DEF Elements
<1>. HIDE DEF Offsets
<1>4. CASE k < size
  <2>1. Word(e, k) = <<e, k>> /\ k \in Offsets
    BY <1>1, <1>2, <1>4 DEF Word
  <2>. QED BY <1>3, <2>1 DEF Words, Offsets
<1>5. CASE ~(k < size) /\ k < 2 * size
  <2>1. Word(e, k) = <<e + 1, k - size>> /\ k - size \in Offsets
    BY <1>1, <1>2, <1>5 DEF Word
  <2>. QED BY <1>3, <2>1 DEF Words, Offsets
<1>6. CASE ~(k < size) /\ ~(k < 2 * size)
  <2>1. Word(e, k) = <<e + 2, k - 2 * size>> /\ k - 2 * size \in Offsets
    BY <1>1, <1>2, <1>6 DEF Word
  <2>. QED BY <1>3, <2>1 DEF Words, Offsets
<1>. QED BY <1>4, <1>5, <1>6

\* A node lies in the first three words of its element, where they are three.
LEMMA NodeWords ==
    ASSUME NodeFits, size \in ElementSizes, NEW e \in Elements
    PROVE  /\ size \in Nat /\ size >= 3
           /\ Word(e, 0) = <<e, 0>> /\ Word(e, 1) = <<e, 1>> /\ Word(e, 2) = <<e, 2>>
<1>1. size \in Nat /\ size >= 3
  BY SizePositive DEF NodeFits
<1>. QED BY <1>1 DEF Word

\* Which words nodes of other elements reach depends on the size only.
LEMMA OverlaidSame == ASSUME UNCHANGED size PROVE \A w : Overlaid(w)' = Overlaid(w)
BY DEF Overlaid, Word

\* The initial states.
LEMMA ArenaInit == ASSUME Init PROVE ArenaInv
<1>1. TypeOK
  <2>1. bufstart \in 0..Count
    BY ArenaAssumption DEF Init
  <2>2. lazy_init \in BOOLEAN
    BY Zenon DEF Init
  <2>. QED BY <2>1, <2>2 DEF Init, TypeOK, Values
<1>. QED BY <1>1 DEF Init, ArenaInv, Kept, DataKept, NoFalseAlarm

\* Creation, reset and destruction leave nothing stored.
LEMMA WholeKept == ASSUME Kept, Create \/ Reset \/ Destroy PROVE Kept'
<1>. USE ArenaAssumption
<1>1. CASE Create
  <2>1. bufstart' \in 0..Count /\ mem' \in [Words -> Values] /\ free_list' \in Values
    BY <1>1 DEF Create, Values
  <2>2. lazy_init' \in BOOLEAN /\ lazy_init'
    BY <1>1, Zenon DEF Create
  <2>3. size' \in ElementSizes
    BY <1>1 DEF Create, ElementSizes
  <2>4. out = {} /\ UNCHANGED <<out, result, written>> /\ arena' = "ready"
    BY <1>1 DEF Create, Kept
  <2>. QED BY <2>1, <2>2, <2>3, <2>4 DEF Kept, TypeOK, DataKept
<1>2. CASE Reset
  <2>1. lazy_init' \in BOOLEAN /\ lazy_init'
    BY <1>2, Zenon DEF Reset
  <2>2. bufstart' \in 0..Count /\ free_list' \in Values /\ UNCHANGED <<arena, size, mem, written>>
        /\ arena' = "ready" /\ out' = {} /\ result' = None
    BY <1>2 DEF Reset, Values
  <2>. QED BY <2>1, <2>2 DEF Kept, TypeOK, DataKept
<1>3. CASE Destroy
  BY <1>3 DEF Destroy, Kept, TypeOK, DataKept
<1>. QED BY <1>1, <1>2, <1>3

\* An allocation hands out an element with nothing stored in it.
LEMMA AllocKept ==
    ASSUME Kept, LazyAlloc \/ Recycle \/ RecycleNothing
    PROVE  Kept'
<1>. USE ArenaAssumption
<1>1. CASE LazyAlloc
  <2>1. /\ bufstart \in Elements /\ bufstart' = bufstart + 1 /\ bufstart' \in 0..Count
        /\ out' = out \cup {bufstart} /\ result' = bufstart
        /\ written' = [written EXCEPT ![bufstart] = None]
        /\ lazy_init /\ UNCHANGED <<arena, size, lazy_init, free_list, mem>>
    BY <1>1 DEF LazyAlloc, Return, Kept, TypeOK, Elements
  <2>2. TypeOK'
    BY <2>1 DEF Kept, TypeOK
  <2>3. DataKept'
    <3>1. \A e \in out' : written'[e] # None => e \in out /\ written'[e] = written[e]
      BY <2>1 DEF Kept, TypeOK
    <3>. QED BY <2>1, <3>1, OverlaidSame DEF Kept, DataKept
  <2>. QED BY <2>1, <2>2, <2>3, <1>1 DEF Kept, LazyAlloc
<1>2. CASE Recycle
  <2>1. arena = "ready" /\ bufstart = Count /\ UNCHANGED <<size, bufstart, mem>>
    BY <1>2 DEF Recycle, Recycles, Kept
  <2>2. lazy_init' \in BOOLEAN
    BY <1>2, Zenon DEF Recycle, Recycles
  <2>3. CASE free_list \in Elements /\ Guarded(free_list)
    <3>1. Return(free_list) /\ free_list' = mem[Word(free_list, 2)] /\ UNCHANGED arena
      BY <1>2, <2>3 DEF Recycle
    <3>2. /\ result' = free_list /\ out' = out \cup {free_list}
          /\ written' = [written EXCEPT ![free_list] = None]
      BY <3>1 DEF Return
    <3>3. free_list' \in Values
      BY <2>3, <3>1, NodeInMemory DEF Kept, TypeOK
    <3>4. TypeOK'
      BY <2>1, <2>2, <2>3, <3>1, <3>2, <3>3 DEF Kept, TypeOK
    <3>5. DataKept'
      <4>1. \A e \in out' : written'[e] # None => e \in out /\ written'[e] = written[e]
        BY <2>3, <3>2 DEF Kept, TypeOK
      <4>. QED BY <2>1, <4>1, OverlaidSame DEF Kept, DataKept
    <3>. QED BY <2>1, <3>1, <3>4, <3>5 DEF Kept
  <2>4. CASE ~(free_list \in Elements /\ Guarded(free_list))
    <3>1. arena' = "exited" /\ UNCHANGED <<free_list, out, result, written>>
      BY <1>2, <2>4 DEF Recycle
    <3>2. TypeOK'
      BY <2>1, <2>2, <3>1 DEF Kept, TypeOK
    <3>3. DataKept'
      BY <2>1, <3>1, OverlaidSame DEF Kept, DataKept
    <3>. QED BY <3>1, <3>2, <3>3 DEF Kept
  <2>. QED BY <2>3, <2>4
<1>3. CASE RecycleNothing
  <2>1. /\ arena = "ready" /\ bufstart = Count /\ result' = Null
        /\ UNCHANGED <<arena, size, bufstart, free_list, mem, out, written>>
    BY <1>3 DEF RecycleNothing, Recycles, Kept
  <2>2. lazy_init' \in BOOLEAN
    BY <1>3, Zenon DEF RecycleNothing, Recycles
  <2>3. TypeOK'
    BY <2>1, <2>2 DEF Kept, TypeOK
  <2>4. DataKept'
    BY <2>1, OverlaidSame DEF Kept, DataKept
  <2>. QED BY <2>1, <2>3, <2>4 DEF Kept
<1>. QED BY <1>1, <1>2, <1>3

\* A node is written in the element that is freed, and in words that it
\* reaches.
LEMMA FreeKept == ASSUME Kept, NEW e \in Elements, Free(e) PROVE Kept'
<1>. USE ArenaAssumption
<1>1. /\ arena = "ready" /\ e \in out /\ free_list' = e /\ out' = out \ {e} /\ result' = None
      /\ UNCHANGED <<arena, size, lazy_init, bufstart, written>>
  BY DEF Free
<1>2. Word(e, 0) \in Words /\ Word(e, 1) \in Words /\ Word(e, 2) \in Words
  BY NodeInMemory DEF Kept, TypeOK
<1>3. mem' = [mem EXCEPT ![Word(e, 0)] = GuardBits, ![Word(e, 1)] = GuardBits,
                         ![Word(e, 2)] = free_list]
  BY DEF Free
<1>4. mem' \in [Words -> Values]
  BY <1>2, <1>3 DEF Kept, TypeOK, Values
<1>5. TypeOK'
  BY <1>1, <1>4 DEF Kept, TypeOK, Values
<1>6. ASSUME NEW f \in out', written'[f] # None, NEW k \in 0..(size - 1)
      PROVE  mem'[<<f, k>>] = written'[f] \/ Overlaid(<<f, k>>)
  <2>1. f \in Elements /\ f # e /\ f \in out /\ written'[f] = written[f]
    BY <1>1, <1>6 DEF Kept, TypeOK
  <2>2. CASE \E j \in 0..2 : Word(e, j) = <<f, k>>
    BY <2>1, <2>2 DEF Overlaid
  <2>3. CASE ~\E j \in 0..2 : Word(e, j) = <<f, k>>
    <3>1. <<f, k>> # Word(e, 0) /\ <<f, k>> # Word(e, 1) /\ <<f, k>> # Word(e, 2)
      BY <2>3
    <3>2. <<f, k>> \in Words
      <4>1. f \in 0..(Count + 1)
        BY <2>1 DEF Elements
      <4>2. k \in UNION {0..(n - 1) : n \in ElementSizes}
        BY DEF Kept, TypeOK
      <4>. QED BY <4>1, <4>2 DEF Words
    <3>3. mem'[<<f, k>>] = mem[<<f, k>>]
      BY <1>3, <3>1, <3>2 DEF Kept, TypeOK
    <3>4. mem[<<f, k>>] = written[f] \/ Overlaid(<<f, k>>)
      BY <1>6, <2>1 DEF Kept, DataKept
    <3>. QED BY <2>1, <3>3, <3>4
  <2>. QED BY <2>2, <2>3
<1>7. \A w : Overlaid(w)' = Overlaid(w)
  BY <1>1, OverlaidSame
<1>8. DataKept'
  BY <1>1, <1>6, <1>7 DEF DataKept
<1>. QED BY <1>1, <1>5, <1>8 DEF Kept

\* The program fills an element, and the words in it only.
LEMMA StoreKept == ASSUME Kept, NEW e \in Elements, NEW d \in Data, Store(e, d) PROVE Kept'
<1>. USE ArenaAssumption
<1>1. /\ arena = "ready" /\ e \in out
      /\ mem' = [w \in Words |-> IF w[1] = e THEN d ELSE mem[w]]
      /\ written' = [written EXCEPT ![e] = d]
      /\ UNCHANGED <<arena, size, lazy_init, bufstart, free_list, out, result>>
  BY DEF Store
<1>2. mem' \in [Words -> Values]
  BY <1>1 DEF Kept, TypeOK, Values
<1>3. TypeOK'
  BY <1>1, <1>2 DEF Kept, TypeOK
<1>4. ASSUME NEW f \in out', written'[f] # None, NEW k \in 0..(size - 1)
      PROVE  mem'[<<f, k>>] = written'[f] \/ Overlaid(<<f, k>>)
  <2>1. f \in out /\ f \in Elements
    BY <1>1 DEF Kept, TypeOK
  <2>2. <<f, k>> \in Words
    <3>1. f \in 0..(Count + 1)
      BY <2>1 DEF Elements
    <3>2. k \in UNION {0..(n - 1) : n \in ElementSizes}
      BY DEF Kept, TypeOK
    <3>. QED BY <3>1, <3>2 DEF Words
  <2>3. mem'[<<f, k>>] = IF f = e THEN d ELSE mem[<<f, k>>]
    BY <1>1, <2>2
  <2>4. written'[f] = IF f = e THEN d ELSE written[f]
    BY <1>1, <2>1 DEF Kept, TypeOK
  <2>. QED BY <1>4, <2>1, <2>3, <2>4 DEF Kept, DataKept
<1>5. \A w : Overlaid(w)' = Overlaid(w)
  BY <1>1, OverlaidSame
<1>6. DataKept'
  BY <1>1, <1>4, <1>5 DEF DataKept
<1>. QED BY <1>1, <1>3, <1>6 DEF Kept

\* What holds for any size is kept by every step.
LEMMA KeptStep == ASSUME Kept, [Next]_vars PROVE Kept'
<1>1. CASE UNCHANGED vars
  BY <1>1, OverlaidSame DEF vars, Kept, TypeOK, DataKept
<1>. QED BY <1>1, WholeKept, AllocKept, FreeKept, StoreKept DEF Next

-----------------------------------------------------------------------------
(* The free list, where nodes fit. *)

\* An arena of which nothing was given out has an empty stack.
LEMMA EmptyStack ==
    ASSUME free_list' = Null, bufstart' = 0, out' = {}
    PROVE  Listed'
<1>. DEFINE s == [i \in Nat |-> 0]
<1>1. s \in Stacks
  BY DEF Stacks
<1>2. FreeStack(0, s)'
  BY DEF FreeStack, Elements
<1>. QED BY <1>1, <1>2 DEF Listed

\* The next element of the buffer: it is nobody's, and not in the free list.
LEMMA LazyAllocKeeps ==
    ASSUME ArenaInv, NodeFits, LazyAlloc
    PROVE  Listed' /\ bufstart \in Elements \ out
<1>. USE ArenaAssumption
<1>1. /\ bufstart \in Elements /\ bufstart' = bufstart + 1 /\ arena = "ready"
      /\ out' = out \cup {bufstart} /\ UNCHANGED <<size, free_list, mem>>
  BY DEF LazyAlloc, Return, ArenaInv, Kept, TypeOK, Elements
<1>2. Listed
  BY <1>1 DEF ArenaInv
<1>3. out \in SUBSET Elements
  BY DEF ArenaInv, Kept, TypeOK
<1>4. bufstart \notin out /\ \A e \in out' : e < bufstart'
  BY <1>1, <1>2, <1>3 DEF Listed, Elements
<1>5. PICK t \in Nat : \E s \in Stacks : FreeStack(t, s)
  BY <1>2 DEF Listed
<1>6. PICK s \in Stacks : FreeStack(t, s)
  BY <1>5
<1>7. FreeStack(t, s)'
  <2>1. \A e \in Elements : (e < bufstart' /\ e \notin out') <=> (e < bufstart /\ e \notin out)
    BY <1>1 DEF Elements
  <2>. QED BY <1>1, <1>6, <2>1 DEF FreeStack, NodeAt, Guarded, Word
<1>. QED BY <1>1, <1>4, <1>7 DEF Listed

\* The top of the stack is free, is guarded and holds the element below it.
LEMMA Top ==
    ASSUME NEW t \in Nat, NEW s \in Stacks, FreeStack(t, s), free_list # Null
    PROVE  /\ t \in Nat \ {0} /\ free_list = s[t] /\ free_list \in Elements
           /\ free_list \notin out /\ free_list < bufstart
           /\ NodeAt(free_list, IF t = 1 THEN Null ELSE s[t - 1])
           /\ IF t = 1 THEN TRUE ELSE s[t - 1] \in Elements
<1>1. t # 0
  BY DEF FreeStack
<1>2. free_list = s[t] /\ t \in 1..t
  BY <1>1 DEF FreeStack
<1>3. free_list \in Elements /\ free_list \notin out /\ free_list < bufstart
  BY <1>2 DEF FreeStack
<1>4. NodeAt(free_list, IF t = 1 THEN Null ELSE s[t - 1])
  BY <1>2 DEF FreeStack
<1>5. t # 1 => s[t - 1] \in Elements
  BY <1>1 DEF FreeStack
<1>. QED BY <1>1, <1>2, <1>3, <1>4, <1>5

\* The first free element, which still has its guard bits.
LEMMA RecycleKeeps ==
    ASSUME ArenaInv, NodeFits, Recycle
    PROVE  /\ Listed' /\ free_list \in Elements \ out /\ Return(free_list)
           /\ arena = "ready" /\ UNCHANGED <<arena, size>>
<1>. USE ArenaAssumption
<1>1. arena = "ready" /\ free_list # Null /\ bufstart = Count /\ UNCHANGED <<size, bufstart, mem>>
  BY DEF Recycle, Recycles, ArenaInv, Kept
<1>2. Listed
  BY <1>1 DEF ArenaInv
<1>3. PICK t \in Nat : \E s \in Stacks : FreeStack(t, s)
  BY <1>2 DEF Listed
<1>4. PICK s \in Stacks : FreeStack(t, s)
  BY <1>3
<1>. DEFINE next == IF t = 1 THEN Null ELSE s[t - 1]
<1>5. /\ t \in Nat \ {0} /\ free_list = s[t] /\ free_list \in Elements
      /\ free_list \notin out /\ free_list < bufstart
      /\ NodeAt(free_list, next)
  BY <1>1, <1>4, Top
<1>6. Return(free_list) /\ free_list' = next /\ UNCHANGED arena
  BY <1>5 DEF Recycle, NodeAt
<1>7. out' = out \cup {free_list}
  BY <1>6 DEF Return
<1>8. \A e \in out' : e < bufstart'
  BY <1>1, <1>2, <1>5, <1>7 DEF Listed
<1>9. FreeStack(t - 1, s)'
  <2>1. t - 1 \in Nat /\ (t - 1 = 0 <=> t = 1)
    BY <1>5
  <2>2. \A i \in 1..(t - 1) : i \in 1..t /\ i # t
    BY <1>5
  <2>3. \A i \in 1..t : i = t \/ i \in 1..(t - 1)
    BY <1>5
  <2>4. free_list' = IF t - 1 = 0 THEN Null ELSE s[t - 1]
    BY <1>6, <2>1
  <2>5. \A i \in 1..(t - 1) : NodeAt(s[i], IF i = 1 THEN Null ELSE s[i - 1])'
    BY <1>1, <1>4, <2>2 DEF FreeStack, NodeAt, Guarded, Word
  <2>6. \A i, j \in 1..(t - 1) : s[i] = s[j] => i = j
    BY <1>4, <2>2 DEF FreeStack
  <2>7. ASSUME NEW e \in Elements
        PROVE  (e < bufstart' /\ e \notin out') <=> \E i \in 1..(t - 1) : s[i] = e
    <3>1. (e < bufstart /\ e \notin out) <=> \E i \in 1..t : s[i] = e
      BY <1>4, <2>7 DEF FreeStack
    <3>2. s[t] = free_list /\ t \in 1..t
      BY <1>5
    <3>3. \A i \in 1..(t - 1) : s[i] # free_list
      BY <1>4, <2>2, <3>2 DEF FreeStack
    <3>. QED BY <1>1, <1>7, <2>2, <2>3, <3>1, <3>2, <3>3
  <2>8. \A i \in 1..(t - 1) : s[i] \in Elements
    BY <1>4, <2>2 DEF FreeStack
  <2>. QED BY <2>4, <2>5, <2>6, <2>7, <2>8 DEF FreeStack
<1>10. t - 1 \in Nat
  BY <1>5
<1>11. Listed'
  BY <1>8, <1>9, <1>10 DEF Listed
<1>. QED BY <1>1, <1>5, <1>6, <1>11

\* With an empty stack all elements are held.
LEMMA NothingFree ==
    ASSUME ArenaInv, NodeFits, RecycleNothing
    PROVE  Listed' /\ out = Elements
<1>. USE ArenaAssumption
<1>1. /\ arena = "ready" /\ free_list = Null /\ bufstart = Count
      /\ UNCHANGED <<size, bufstart, free_list, mem, out>>
  BY DEF RecycleNothing, Recycles, ArenaInv, Kept
<1>2. Listed
  BY <1>1 DEF ArenaInv
<1>3. PICK t \in Nat : \E s \in Stacks : FreeStack(t, s)
  BY <1>2 DEF Listed
<1>4. PICK s \in Stacks : FreeStack(t, s)
  BY <1>3
<1>5. t = 0
  <2>1. ASSUME t # 0 PROVE FALSE
    <3>1. t \in 1..t /\ s[t] \in Elements
      BY <1>4, <2>1 DEF FreeStack
    <3>. QED BY <1>1, <1>4, <2>1, <3>1 DEF FreeStack
  <2>. QED BY <2>1
<1>6. \A e \in Elements : e \in out
  <2>1. \A e \in Elements : e < bufstart
    BY <1>1 DEF Elements
  <2>. QED BY <1>4, <1>5, <2>1 DEF FreeStack
<1>7. out = Elements
  BY <1>6 DEF ArenaInv, Kept, TypeOK
<1>8. FreeStack(t, s)'
  BY <1>1, <1>4 DEF FreeStack, NodeAt, Guarded, Word
<1>. QED BY <1>1, <1>2, <1>7, <1>8 DEF Listed

\* A freed element becomes the top of the stack; its node stays within it.
LEMMA FreeKeeps ==
    ASSUME ArenaInv, NodeFits, NEW e \in Elements, Free(e)
    PROVE  Listed'
<1>. USE ArenaAssumption
<1>1. /\ arena = "ready" /\ e \in out /\ free_list' = e /\ out' = out \ {e}
      /\ UNCHANGED <<size, bufstart>>
  BY DEF Free
<1>2. size \in ElementSizes /\ mem \in [Words -> Values]
  BY DEF ArenaInv, Kept, TypeOK
<1>3. Listed
  BY <1>1 DEF ArenaInv
<1>4. \A f \in Elements : /\ Word(f, 0) = <<f, 0>> /\ Word(f, 0) \in Words
                         /\ Word(f, 1) = <<f, 1>> /\ Word(f, 1) \in Words
                         /\ Word(f, 2) = <<f, 2>> /\ Word(f, 2) \in Words
  BY <1>2, NodeWords, NodeInMemory
<1>5. mem' = [mem EXCEPT ![<<e, 0>>] = GuardBits, ![<<e, 1>>] = GuardBits,
                         ![<<e, 2>>] = free_list]
  BY <1>4 DEF Free
<1>6. <<e, 0>> \in Words /\ <<e, 1>> \in Words /\ <<e, 2>> \in Words
  BY <1>4
<1>7. mem'[<<e, 0>>] = GuardBits /\ mem'[<<e, 1>>] = GuardBits /\ mem'[<<e, 2>>] = free_list
  BY <1>2, <1>5, <1>6
<1>8. \A w \in Words : w[1] # e => mem'[w] = mem[w]
  BY <1>2, <1>5
<1>9. \A f \in Elements : \A k \in 0..2 : Word(f, k)' = Word(f, k)
  BY <1>1 DEF Word
<1>10. PICK t \in Nat : \E s \in Stacks : FreeStack(t, s)
  BY <1>3 DEF Listed
<1>11. PICK s \in Stacks : FreeStack(t, s)
  BY <1>10
<1>. DEFINE r == [s EXCEPT ![t + 1] = e]
<1>12. r \in Stacks /\ r[t + 1] = e /\ \A i \in 1..t : r[i] = s[i] /\ i # t + 1
  BY DEF Stacks, Elements
<1>13. \A i \in 1..t : s[i] # e
  BY <1>1, <1>11 DEF FreeStack
<1>14. FreeStack(t + 1, r)'
  <2>1. \A i \in 1..(t + 1) : i = t + 1 \/ i \in 1..t
    OBVIOUS
  <2>2. \A i \in 1..t : NodeAt(r[i], IF i = 1 THEN Null ELSE r[i - 1])'
    <3>1. ASSUME NEW i \in 1..t PROVE NodeAt(r[i], IF i = 1 THEN Null ELSE r[i - 1])'
      <4>1. s[i] \in Elements /\ s[i] # e /\ NodeAt(s[i], IF i = 1 THEN Null ELSE s[i - 1])
        BY <1>11, <1>13 DEF FreeStack
      <4>2. i # 1 => i - 1 \in 1..t
        OBVIOUS
      <4>3. r[i] = s[i] /\ (i # 1 => r[i - 1] = s[i - 1])
        BY <1>12, <4>2
      <4>4. /\ Word(s[i], 0) = <<s[i], 0>> /\ Word(s[i], 0) \in Words
            /\ Word(s[i], 1) = <<s[i], 1>> /\ Word(s[i], 1) \in Words
            /\ Word(s[i], 2) = <<s[i], 2>> /\ Word(s[i], 2) \in Words
        BY <1>4, <4>1
      <4>5. mem'[<<s[i], 0>>] = mem[<<s[i], 0>>] /\ mem'[<<s[i], 1>>] = mem[<<s[i], 1>>]
            /\ mem'[<<s[i], 2>>] = mem[<<s[i], 2>>]
        BY <1>8, <4>1, <4>4
      <4>6. /\ Word(s[i], 0)' = <<s[i], 0>> /\ Word(s[i], 1)' = <<s[i], 1>>
            /\ Word(s[i], 2)' = <<s[i], 2>>
        BY <1>9, <4>1, <4>4
      <4>. QED BY <4>1, <4>3, <4>4, <4>5, <4>6 DEF NodeAt, Guarded
    <3>. QED BY <3>1
  <2>3. NodeAt(r[t + 1], IF t + 1 = 1 THEN Null ELSE r[t])'
    <3>1. free_list = IF t = 0 THEN Null ELSE s[t]
      BY <1>11 DEF FreeStack
    <3>2. t # 0 => r[t] = s[t]
      BY <1>12
    <3>3. Word(e, 0)' = <<e, 0>> /\ Word(e, 1)' = <<e, 1>> /\ Word(e, 2)' = <<e, 2>>
      BY <1>4, <1>9
    <3>. QED BY <1>7, <1>12, <3>1, <3>2, <3>3 DEF NodeAt, Guarded
  <2>4. \A i \in 1..(t + 1) : NodeAt(r[i], IF i = 1 THEN Null ELSE r[i - 1])'
    BY <2>1, <2>2, <2>3
  <2>5. \A i \in 1..(t + 1) : r[i] \in Elements
    BY <1>11, <1>12, <2>1 DEF FreeStack
  <2>6. \A i, j \in 1..(t + 1) : r[i] = r[j] => i = j
    BY <1>11, <1>12, <1>13, <2>1 DEF FreeStack
  <2>7. ASSUME NEW f \in Elements
        PROVE  (f < bufstart' /\ f \notin out') <=> \E i \in 1..(t + 1) : r[i] = f
    <3>1. (f < bufstart /\ f \notin out) <=> \E i \in 1..t : s[i] = f
      BY <1>11 DEF FreeStack
    <3>2. t + 1 \in 1..(t + 1) /\ \A i \in 1..t : i \in 1..(t + 1)
      OBVIOUS
    <3>3. (\E i \in 1..(t + 1) : r[i] = f) <=> f = e \/ \E i \in 1..t : s[i] = f
      BY <1>12, <2>1, <3>2
    <3>4. e < bufstart
      BY <1>1, <1>3 DEF Listed
    <3>. QED BY <1>1, <3>1, <3>3, <3>4
  <2>8. free_list' = IF t + 1 = 0 THEN Null ELSE r[t + 1]
    BY <1>1, <1>12
  <2>. QED BY <2>4, <2>5, <2>6, <2>7, <2>8 DEF FreeStack
<1>15. \A f \in out' : f < bufstart'
  BY <1>1, <1>3 DEF Listed
<1>. QED BY <1>12, <1>14, <1>15 DEF Listed

\* The program writes what it holds, and no node.
LEMMA StoreKeeps ==
    ASSUME ArenaInv, NodeFits, NEW e \in Elements, NEW d \in Data, Store(e, d)
    PROVE  Listed'
<1>. USE ArenaAssumption
<1>1. /\ arena = "ready" /\ e \in out
      /\ mem' = [w \in Words |-> IF w[1] = e THEN d ELSE mem[w]]
      /\ UNCHANGED <<size, bufstart, free_list, out>>
  BY DEF Store
<1>2. Listed
  BY <1>1 DEF ArenaInv
<1>3. size \in ElementSizes
  BY DEF ArenaInv, Kept, TypeOK
<1>4. PICK t \in Nat : \E s \in Stacks : FreeStack(t, s)
  BY <1>2 DEF Listed
<1>5. PICK s \in Stacks : FreeStack(t, s)
  BY <1>4
<1>6. ASSUME NEW i \in 1..t PROVE NodeAt(s[i], IF i = 1 THEN Null ELSE s[i - 1])'
  <2>1. s[i] \in Elements /\ s[i] # e /\ NodeAt(s[i], IF i = 1 THEN Null ELSE s[i - 1])
    BY <1>1, <1>5 DEF FreeStack
  <2>2. /\ Word(s[i], 0) = <<s[i], 0>> /\ Word(s[i], 0) \in Words
        /\ Word(s[i], 1) = <<s[i], 1>> /\ Word(s[i], 1) \in Words
        /\ Word(s[i], 2) = <<s[i], 2>> /\ Word(s[i], 2) \in Words
    BY <1>3, <2>1, NodeWords, NodeInMemory
  <2>3. mem'[<<s[i], 0>>] = mem[<<s[i], 0>>] /\ mem'[<<s[i], 1>>] = mem[<<s[i], 1>>]
        /\ mem'[<<s[i], 2>>] = mem[<<s[i], 2>>]
    BY <1>1, <2>1, <2>2
  <2>4. \A k \in 0..2 : Word(s[i], k)' = Word(s[i], k)
    BY <1>1 DEF Word
  <2>. QED BY <2>1, <2>2, <2>3, <2>4 DEF NodeAt, Guarded
<1>7. FreeStack(t, s)'
  BY <1>1, <1>5, <1>6 DEF FreeStack
<1>. QED BY <1>1, <1>2, <1>7 DEF Listed

\* Where nodes fit the list stays a stack, and nothing stops the program.
LEMMA ListStep ==
    ASSUME ArenaInv, [Next]_vars, NodeFits'
    PROVE  (arena' = "exited" => arena = "exited") /\ (arena' = "ready" => Listed')
<1>. DEFINE Holds == (arena' = "exited" => arena = "exited") /\ (arena' = "ready" => Listed')
<1>1. ASSUME Create PROVE Holds
  BY <1>1, EmptyStack DEF Create, ArenaInv, Kept
<1>2. ASSUME Reset \/ Destroy PROVE Holds
  BY <1>2, EmptyStack DEF Reset, Destroy
<1>3. ASSUME LazyAlloc PROVE Holds
  BY <1>3, LazyAllocKeeps DEF LazyAlloc, NodeFits
<1>4. ASSUME Recycle PROVE Holds
  <2>1. NodeFits
    BY <1>4 DEF Recycle, NodeFits
  <2>. QED BY <1>4, <2>1, RecycleKeeps
<1>5. ASSUME RecycleNothing PROVE Holds
  BY <1>5, NothingFree DEF RecycleNothing, NodeFits
<1>6. ASSUME NEW e \in Elements, Free(e) PROVE Holds
  BY <1>6, FreeKeeps DEF Free, NodeFits
<1>7. ASSUME NEW e \in Elements, NEW d \in Data, Store(e, d) PROVE Holds
  BY <1>7, StoreKeeps DEF Store, NodeFits
<1>8. ASSUME UNCHANGED vars PROVE Holds
  <2>1. UNCHANGED <<arena, size, bufstart, free_list, mem, out>> /\ NodeFits
    BY <1>8 DEF vars, NodeFits
  <2>2. ASSUME NEW t \in Nat, NEW s \in Stacks PROVE FreeStack(t, s)' <=> FreeStack(t, s)
    BY <2>1 DEF FreeStack, NodeAt, Guarded, Word
  <2>3. Listed' <=> Listed
    BY <2>1, <2>2 DEF Listed
  <2>. QED BY <2>1, <2>3 DEF ArenaInv
<1>. HIDE DEF Holds
<1>9. Holds
  BY <1>1, <1>2, <1>3, <1>4, <1>5, <1>6, <1>7, <1>8 DEF Next
<1>. QED BY <1>9 DEF Holds

\* Every step keeps the invariant.
LEMMA ArenaStep == ASSUME ArenaInv, [Next]_vars PROVE ArenaInv'
<1>1. Kept'
  BY KeptStep DEF ArenaInv
<1>2. arena' = "ready" /\ NodeFits' => Listed'
  BY ListStep
<1>3. NoFalseAlarm'
  <2>1. SUFFICES ASSUME arena' = "exited", NodeFits' PROVE FALSE
    BY DEF NoFalseAlarm
  <2>2. arena = "exited"
    BY <2>1, ListStep
  <2>3. UNCHANGED vars
    BY <2>2 DEF Next, Create, Reset, Destroy, LazyAlloc, Recycle, RecycleNothing, Recycles, Free, Store
  <2>. QED BY <2>1, <2>2, <2>3 DEF vars, ArenaInv, NoFalseAlarm, NodeFits
<1>. QED BY <1>1, <1>2, <1>3 DEF ArenaInv

\* The invariant holds in every reachable state.
THEOREM ArenaInvariant == Spec => []ArenaInv
<1>1. Init => ArenaInv
  BY ArenaInit
<1>2. ArenaInv /\ [Next]_vars => ArenaInv'
  BY ArenaStep
<1>. QED BY <1>1, <1>2, PTL DEF Spec

\* Every variable keeps its type: no element outside the buffer is given out,
\* and no word is written but the buffer's and those that a node at its end
\* reaches, whatever the size of the elements.
THEOREM TypeCorrect == Spec => []TypeOK
<1>1. ArenaInv => TypeOK
  BY DEF ArenaInv, Kept
<1>. QED BY <1>1, ArenaInvariant, PTL

\* Nothing but the program changes what it has stored, but for the words
\* that the nodes of small elements reach.
THEOREM DataIsKept == Spec => []DataKept
<1>1. ArenaInv => DataKept
  BY DEF ArenaInv, Kept
<1>. QED BY <1>1, ArenaInvariant, PTL

\* A program that uses no freed pointer is stopped only where elements have
\* no room for a node.
THEOREM NeverFalseAlarm == Spec => []NoFalseAlarm
<1>1. ArenaInv => NoFalseAlarm
  BY DEF ArenaInv
<1>. QED BY <1>1, ArenaInvariant, PTL

\* If the program asks for room for a node, elements have it.
LEMMA LargeElements ==
    ASSUME \A asked \in Sizes : asked >= 3, ArenaInv
    PROVE  NodeFits
<1>1. \A n \in ElementSizes : n >= 3
  BY ArenaAssumption DEF ElementSizes, ElementSize
<1>. QED BY <1>1 DEF ArenaInv, Kept, TypeOK, NodeFits

\* Elements with room for a node are kept whole: no node reaches another.
THEOREM LargeElementsKept ==
    ASSUME \A asked \in Sizes : asked >= 3
    PROVE  Spec => [](\A e \in out : written[e] # None =>
                        \A k \in 0..(size - 1) : mem[<<e, k>>] = written[e])
<1>. DEFINE Whole == \A e \in out : written[e] # None =>
                       \A k \in 0..(size - 1) : mem[<<e, k>>] = written[e]
<1>1. ASSUME ArenaInv PROVE Whole
  <2>1. NodeFits /\ size \in ElementSizes
    BY <1>1, LargeElements DEF ArenaInv, Kept, TypeOK
  <2>2. \A f \in Elements : \A j \in 0..2 : Word(f, j) = <<f, j>>
    <3>1. ASSUME NEW f \in Elements, NEW j \in 0..2 PROVE Word(f, j) = <<f, j>>
      <4>1. Word(f, 0) = <<f, 0>> /\ Word(f, 1) = <<f, 1>> /\ Word(f, 2) = <<f, 2>>
        BY <2>1, NodeWords
      <4>. QED BY <4>1
    <3>. QED BY <3>1
  <2>3. \A e \in out : \A k \in 0..(size - 1) : ~Overlaid(<<e, k>>)
    BY <2>2 DEF Overlaid
  <2>. QED BY <1>1, <2>3 DEF ArenaInv, Kept, DataKept
<1>2. ArenaInv => Whole
  BY <1>1
<1>. HIDE DEF Whole
<1>3. Spec => []Whole
  BY <1>2, ArenaInvariant, PTL
<1>. QED BY <1>3 DEF Whole

\* Every step of the arena is a step of the pool, or leaves the pool alone.
LEMMA PoolStep == ASSUME NodeFits, ArenaInv, [Next]_vars PROVE [P!PoolNext]_(P!poolVars)
<1>. USE DEF P!PoolNext, P!poolVars
<1>1. CASE Create \/ UNCHANGED vars
  BY <1>1 DEF Create, vars
<1>2. CASE Reset \/ Destroy
  BY <1>2 DEF Reset, Destroy, P!TakeAllBack
<1>3. CASE LazyAlloc
  BY <1>3, LazyAllocKeeps DEF LazyAlloc, Return, P!Give
<1>4. CASE Recycle
  BY <1>4, RecycleKeeps DEF Return, P!Give
<1>5. CASE RecycleNothing
  BY <1>5, NothingFree DEF RecycleNothing, P!Refuse
<1>6. ASSUME NEW e \in Elements, Free(e) PROVE P!PoolNext
  BY <1>6 DEF Free, P!TakeBack
<1>7. ASSUME NEW e \in Elements, NEW d \in Data, Store(e, d) PROVE UNCHANGED P!poolVars
  BY <1>7 DEF Store
<1>. QED BY <1>1, <1>2, <1>3, <1>4, <1>5, <1>6, <1>7 DEF Next

\* An arena for elements with room for a node is a pool: no element has two
\* holders, and NULL means that all are held.
THEOREM ArenaIsPool ==
    ASSUME \A asked \in Sizes : asked >= 3
    PROVE  Spec => ArenaImplementsPool
<1>1. Init => P!PoolInit
  BY DEF Init, P!PoolInit
<1>2. ArenaInv /\ [Next]_vars => [P!PoolNext]_(P!poolVars)
  BY LargeElements, PoolStep
<1>. QED BY <1>1, <1>2, ArenaInvariant, PTL DEF Spec, ArenaImplementsPool, P!PoolSpec

=============================================================================
