------------------------------ MODULE OtaUpdate ------------------------------
(***************************************************************************)
(* The firmware update (lib/ota_controller/src/ota_controller.c), as       *)
(* helper_perform_ota of esp_helper_utils.c starts it at each connection.  *)
(* The device has two slots for images, runs one and writes the other; it  *)
(* starts the one that is marked for booting.  The calls of ESP-IDF and    *)
(* the server with the image are external.                                 *)
(*                                                                         *)
(* Reading the description of the image that is running does not fail:     *)
(* ota_c_validate_image ignores that error, and would take any version for *)
(* another one.                                                            *)
(***************************************************************************)
EXTENDS Naturals

CONSTANT Pieces     \* in how many pieces an image is received

ASSUME PiecesAssumption == Pieces \in Nat \ {0}

VARIABLES
  other,      \* whether the slot that does not run holds a whole image
  switch,     \* whether that slot is marked for booting
  newer,      \* whether the server has another version than the one running
  ota,        \* the step of ota_c_start, "no" outside it, "done" before the restart
  left,       \* the pieces that were not yet asked for
  received,   \* whether the server's data was received completely
  updates     \* handles of esp_https_ota_begin that were not finished

otaVars == <<other, switch, newer, ota, left, received, updates>>

OtaTypeOK ==
  /\ other \in BOOLEAN
  /\ switch \in BOOLEAN
  /\ newer \in BOOLEAN
  /\ ota \in {"no", "begin", "describe", "perform", "complete", "finish", "done"}
  /\ left \in 0..Pieces
  /\ received \in BOOLEAN
  /\ updates \in Nat

OtaInit ==
  /\ other = TRUE
  /\ switch = FALSE
  /\ newer \in BOOLEAN
  /\ ota = "no"
  /\ left = 0
  /\ received = FALSE
  /\ updates = 0

(* What is lost with a restart; if the other slot is marked, the slots     *)
(* change places.                                                          *)
OtaReset ==
  /\ newer' = (newer /\ ~switch)
  /\ switch' = FALSE
  /\ ota' = "no"
  /\ left' = 0
  /\ received' = FALSE
  /\ updates' = 0
  /\ UNCHANGED other

(* The maintainers put a new version on the server. *)
Publish ==
  /\ ota = "no" /\ ~newer
  /\ newer' = TRUE
  /\ UNCHANGED <<other, switch, ota, left, received, updates>>

(* helper_perform_ota calls ota_c_start: the status shows a connection,    *)
(* since the caller is the handler of one.                                 *)
OtaStart ==
  /\ ota' = "begin"
  /\ UNCHANGED <<other, switch, newer, left, received, updates>>

OtaBegin ==
  /\ ota = "begin"
  /\ \/ ota' = "describe" /\ updates' = updates + 1
     \/ ota' = "no" /\ UNCHANGED updates
  /\ UNCHANGED <<other, switch, newer, left, received>>

(* Mutant: the versions are not compared. *)
ValidatesAny == TRUE

(* ota_c_validate_image: only another version is an update. *)
Validates == newer

(* The image's description is read and validated.  The returns leave the   *)
(* handle of the update as it is.                                          *)
OtaDescribe ==
  /\ ota = "describe"
  /\ \/ Validates /\ ota' = "perform" /\ left' = Pieces
     \/ ota' = "no" /\ UNCHANGED left
  /\ UNCHANGED <<other, switch, newer, received, updates>>

(* One turn of the loop over esp_https_ota_perform: a piece is written, or *)
(* none has come and the loop goes on, without a limit.  The last piece    *)
(* ends it, and so does any error, after which the data may have arrived   *)
(* completely all the same.                                                *)
OtaPerform ==
  /\ ota = "perform"
  /\ \/ /\ left > 1
        /\ left' = left - 1
        /\ other' = FALSE
        /\ UNCHANGED <<ota, received>>
     \/ UNCHANGED <<ota, left, other, received>>
     \/ /\ left = 1
        /\ left' = 0
        /\ other' = TRUE
        /\ received' = TRUE
        /\ ota' = "complete"
     \/ /\ other' = FALSE
        /\ received' \in BOOLEAN
        /\ left' = 0
        /\ ota' = "complete"
  /\ UNCHANGED <<switch, newer, updates>>

(* Mutant: an image that was not received completely is asked for again,   *)
(* for ever.                                                               *)
OtaCompleteRetries ==
  /\ ota = "complete"
  /\ IF received THEN ota' = "finish" /\ UNCHANGED left
                 ELSE ota' = "perform" /\ left' = Pieces
  /\ UNCHANGED <<other, switch, newer, received, updates>>

(* The result of the loop is replaced by whether all data was received; if *)
(* not, the call returns that FALSE, which is the number of success.       *)
OtaComplete ==
  /\ ota = "complete"
  /\ ota' = IF received THEN "finish" ELSE "no"
  /\ received' = FALSE
  /\ UNCHANGED <<other, switch, newer, left, updates>>

(* esp_https_ota_finish frees the handle, and marks the slot for booting   *)
(* if it holds a valid image.                                              *)
OtaFinish ==
  /\ ota = "finish"
  /\ updates' = updates - 1
  /\ \/ other /\ switch' = TRUE /\ ota' = "done"
     \/ ota' = "no" /\ UNCHANGED switch
  /\ UNCHANGED <<other, newer, left, received>>

OtaStep == OtaBegin \/ OtaDescribe \/ OtaPerform \/ OtaComplete \/ OtaFinish

=============================================================================
