------------------------------- MODULE Arena --------------------------------
(***************************************************************************)
(* The fixed-size allocator (lib/arena/src/arena.c) as a release build     *)
(* compiles it: HEAP_CHECK is not defined, check_heap and                  *)
(* detect_double_free are empty.                                           *)
(*                                                                         *)
(* Memory is an array of words of the size of a pointer.  A freed element  *)
(* holds a node in its first words: two words of guard bits and the        *)
(* pointer to the next free element.  arena_init makes elements as large   *)
(* as a pointer only, so that they may be smaller than a node, which then  *)
(* reaches into the elements behind it.                                    *)
(*                                                                         *)
(* The program is the one the interface asks for: it frees and writes what *)
(* it holds, and nothing else.  One task uses an arena; it has no lock.    *)
(***************************************************************************)
EXTENDS Integers

CONSTANTS
  Count,          \* how many elements the program asks for
  Sizes,          \* how large it may ask them to be, in words
  Data,           \* what the program may store
  Null,           \* the NULL pointer
  None,           \* no value
  Junk,           \* whatever uninitialized memory holds
  GuardBits       \* each half of GUARD_BITS

Elements == 0..(Count - 1)

ASSUME ArenaAssumption ==
  /\ Count \in Nat
  /\ Sizes \subseteq Nat
  /\ Null \notin Elements /\ None \notin Elements /\ Null # None
  /\ None \notin Data

VARIABLES
  arena,          \* "none", "ready", or "exited" after error()
  size,           \* the size of each element, in words
  lazy_init,      \* whether the buffer is still being given out
  bufstart,       \* the first element that was never given out; Count is bufend
  free_list,      \* the first free element, or Null
  mem,            \* the words of the buffer, and of the memory behind it
  out,            \* the elements the program holds
  result,         \* what the last call returned
  written         \* history: what the program last stored in each element

vars == <<arena, size, lazy_init, bufstart, free_list, mem, out, result, written>>

(* arena_init gives an element room for a pointer at least. *)
ElementSize(asked) == IF asked < 1 THEN 1 ELSE asked

ElementSizes == {ElementSize(asked) : asked \in Sizes}

(* "We allocate AT LEAST enough space for a node", says the comment on     *)
(* struct node.  The code leaves it to the program.                        *)
NodeFits == size >= 3

(* The word at an offset from the start of an element. *)
Word(e, k) ==
  IF k < size THEN <<e, k>>
  ELSE IF k < 2 * size THEN <<e + 1, k - size>>
  ELSE <<e + 2, k - 2 * size>>

Words == (0..(Count + 1)) \X UNION {0..(n - 1) : n \in ElementSizes}
Values == Elements \cup Data \cup {Null, Junk, GuardBits}

TypeOK ==
  /\ arena \in {"none", "ready", "exited"}
  /\ size \in ElementSizes
  /\ lazy_init \in BOOLEAN
  /\ bufstart \in 0..Count
  /\ free_list \in Values
  /\ mem \in [Words -> Values]
  /\ out \in SUBSET Elements
  /\ result \in Elements \cup {Null, None}
  /\ written \in [Elements -> Data \cup {None}]

Init ==
  /\ arena = "none" /\ size \in ElementSizes
  /\ lazy_init = TRUE /\ bufstart = 0 /\ free_list = Null
  /\ mem = [w \in Words |-> Junk]
  /\ out = {} /\ result = None
  /\ written = [e \in Elements |-> None]

(* arena_init, which may return NULL, and arena_init_, which does not when *)
(* it is called from there.                                                *)
Create ==
  /\ arena = "none"
  /\ arena' = "ready"
  /\ \E asked \in Sizes : size' = ElementSize(asked)
  /\ lazy_init' = TRUE /\ bufstart' = 0 /\ free_list' = Null
  /\ mem' = [w \in Words |-> Junk]
  /\ UNCHANGED <<out, result, written>>

(* Mutant: the free list survives the reset. *)
ResetBufferOnly ==
  /\ arena = "ready"
  /\ lazy_init' = TRUE /\ bufstart' = 0
  /\ out' = {} /\ result' = None
  /\ UNCHANGED <<arena, size, free_list, mem, written>>

(* arena_reset: the buffer is given out anew; the memory stays as it is. *)
Reset ==
  /\ arena = "ready"
  /\ lazy_init' = TRUE /\ bufstart' = 0 /\ free_list' = Null
  /\ out' = {} /\ result' = None
  /\ UNCHANGED <<arena, size, mem, written>>

Destroy ==
  /\ arena = "ready"
  /\ arena' = "none"
  /\ out' = {} /\ result' = None
  /\ UNCHANGED <<size, lazy_init, bufstart, free_list, mem, written>>

(* The program gets an element, with whatever is in it. *)
Return(e) ==
  /\ result' = e
  /\ out' = out \cup {e}
  /\ written' = [written EXCEPT ![e] = None]

(* Mutant: the buffer is left one element too late. *)
LazyAllocBeyond ==
  /\ arena = "ready" /\ lazy_init /\ bufstart <= Count
  /\ bufstart' = bufstart + 1
  /\ Return(bufstart)
  /\ UNCHANGED <<arena, size, lazy_init, free_list, mem>>

(* arena_alloc while the buffer is not used up: the next element of it,    *)
(* even if there are free ones.                                            *)
LazyAlloc ==
  /\ arena = "ready" /\ lazy_init /\ bufstart # Count
  /\ bufstart' = bufstart + 1
  /\ Return(bufstart)
  /\ UNCHANGED <<arena, size, lazy_init, free_list, mem>>

Guarded(e) == mem[Word(e, 0)] = GuardBits /\ mem[Word(e, 1)] = GuardBits

(* The rest of arena_alloc: the free list's first element, unless its      *)
(* guard bits were changed, "Use of previously-freed pointer detected".    *)
(* A word that is not a pointer (small elements overwrite each other's     *)
(* nodes) leads nowhere: the access fails or finds no guard bits.          *)
Recycles == arena = "ready" /\ (lazy_init => bufstart = Count) /\ lazy_init' = FALSE

Recycle ==
  /\ Recycles
  /\ free_list # Null
  /\ IF free_list \in Elements /\ Guarded(free_list)
     THEN Return(free_list) /\ free_list' = mem[Word(free_list, 2)] /\ UNCHANGED arena
     ELSE arena' = "exited" /\ UNCHANGED <<free_list, out, result, written>>
  /\ UNCHANGED <<size, bufstart, mem>>

RecycleNothing ==
  /\ Recycles
  /\ free_list = Null
  /\ result' = Null
  /\ UNCHANGED <<arena, size, bufstart, free_list, mem, out, written>>

(* Mutant: the guard bits are not written. *)
FreeUnguarded(e) ==
  /\ arena = "ready" /\ e \in out
  /\ mem' = [mem EXCEPT ![Word(e, 2)] = free_list]
  /\ free_list' = e
  /\ out' = out \ {e} /\ result' = None
  /\ UNCHANGED <<arena, size, lazy_init, bufstart, written>>

(* Mutant: the pointer of the node is a word further on. *)
FreeLargerNode(e) ==
  /\ arena = "ready" /\ e \in out
  /\ mem' = [mem EXCEPT ![Word(e, 0)] = GuardBits,
                        ![Word(e, 1)] = GuardBits,
                        ![Word(e, 3)] = free_list]
  /\ free_list' = e
  /\ out' = out \ {e} /\ result' = None
  /\ UNCHANGED <<arena, size, lazy_init, bufstart, written>>

(* arena_free, of an element of this arena: it becomes a node. *)
Free(e) ==
  /\ arena = "ready" /\ e \in out
  /\ mem' = [mem EXCEPT ![Word(e, 0)] = GuardBits,
                        ![Word(e, 1)] = GuardBits,
                        ![Word(e, 2)] = free_list]
  /\ free_list' = e
  /\ out' = out \ {e} /\ result' = None
  /\ UNCHANGED <<arena, size, lazy_init, bufstart, written>>

(* The program fills an element. *)
Store(e, d) ==
  /\ arena = "ready" /\ e \in out
  /\ mem' = [w \in Words |-> IF w[1] = e THEN d ELSE mem[w]]
  /\ written' = [written EXCEPT ![e] = d]
  /\ UNCHANGED <<arena, size, lazy_init, bufstart, free_list, out, result>>

Next ==
  \/ Create \/ Reset \/ Destroy
  \/ LazyAlloc \/ Recycle \/ RecycleNothing
  \/ \E e \in Elements : Free(e) \/ \E d \in Data : Store(e, d)

Spec == Init /\ [][Next]_vars

---------------------------------------------------------------------------
(* Properties *)

P == INSTANCE Pool

(* However allocations, frees and resets follow each other, no element is  *)
(* handed out to two holders, and NULL means that all are handed out.      *)
ArenaImplementsPool == P!PoolSpec

(* A word that the node of another element reaches: there is none where    *)
(* elements have room for a node.                                          *)
Overlaid(w) == \E f \in Elements \ {w[1]} : \E k \in 0..2 : Word(f, k) = w

(* Nothing but the program changes what it has stored in its elements,     *)
(* through any reuse of the others.  Only a word that a node of another    *)
(* element reaches may change: none where elements have room for a node,   *)
(* the first of each element but the first where they have two words, the  *)
(* only one of each element but the first where they have one.             *)
DataKept ==
  \A e \in out : written[e] # None =>
    \A k \in 0..(size - 1) : mem[<<e, k>>] = written[e] \/ Overlaid(<<e, k>>)

(* A program that uses no freed pointer is not stopped as one that does,   *)
(* where elements have room for a node: the guard bits of every free       *)
(* element stay, through any reuse of others.                              *)
NoFalseAlarm == arena = "exited" => ~NodeFits

=============================================================================
