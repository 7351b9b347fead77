----------------------------- MODULE ImageSlots -----------------------------
(***************************************************************************)
(* What a firmware update promises (lib/ota_controller), without its       *)
(* steps: of two slots one runs, and the other may be written, or lose its *)
(* image, until it is marked; from then on the device starts its image.    *)
(* The power may fail between any two steps, and whatever starts is whole. *)
(***************************************************************************)
VARIABLES
  whole,      \* whether the slot that does not run holds a whole image
  marked,     \* whether the device starts that slot next
  newer       \* whether the server has another version than the one running

slotVars == <<whole, marked, newer>>

Init ==
  /\ whole = TRUE
  /\ marked = FALSE
  /\ newer \in BOOLEAN

(* The server gets another version. *)
Publish ==
  /\ newer' = TRUE
  /\ UNCHANGED <<whole, marked>>

(* The slot is written, for another version only, and not once it is to be *)
(* started.                                                                *)
Write ==
  /\ newer /\ ~marked
  /\ whole' \in BOOLEAN
  /\ UNCHANGED <<marked, newer>>

(* A whole image of another version is marked. *)
Mark ==
  /\ newer /\ ~marked /\ whole
  /\ marked' = TRUE
  /\ UNCHANGED <<whole, newer>>

(* The device starts: the version the server has, if the slots change, and *)
(* otherwise the version that ran before.                                  *)
Boot ==
  /\ marked => newer /\ whole
  /\ newer' = (newer /\ ~marked)
  /\ marked' = FALSE
  /\ UNCHANGED whole

Next == Publish \/ Write \/ Mark \/ Boot

Spec == Init /\ [][Next]_slotVars

=============================================================================
