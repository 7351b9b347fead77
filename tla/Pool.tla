-------------------------------- MODULE Pool --------------------------------
(***************************************************************************)
(* What lib/arena/include/arena.h promises of an arena, seen from the      *)
(* program: a fixed number of elements, each handed out to one holder at a *)
(* time, and NULL only when all of them have been handed out.              *)
(***************************************************************************)
CONSTANTS Elements, Null, None

VARIABLES
  out,        \* the elements the program holds
  result      \* what the last call returned, None if it returned nothing

poolVars == <<out, result>>

PoolInit == out = {} /\ result = None

Give(e) == e \notin out /\ out' = out \cup {e} /\ result' = e

Refuse == out = Elements /\ result' = Null /\ UNCHANGED out

TakeBack(e) == e \in out /\ out' = out \ {e} /\ result' = None

TakeAllBack == out' = {} /\ result' = None

PoolNext == Refuse \/ TakeAllBack \/ \E e \in Elements : Give(e) \/ TakeBack(e)

PoolSpec == PoolInit /\ [][PoolNext]_poolVars

=============================================================================
