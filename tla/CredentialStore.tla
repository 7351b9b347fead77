-------------------------- MODULE CredentialStore ---------------------------
(***************************************************************************)
(* What wifi_manager promises about the credentials of the access point: a *)
(* request stores or erases them as a whole unless one of its calls fails  *)
(* or the device restarts meanwhile; nothing else changes them, but for a  *)
(* partition that is erased when it is opened at boot; and the station     *)
(* connects with what is stored.                                           *)
(***************************************************************************)
CONSTANTS
    Creds,   \* credentials: those of one access point are one value
    None     \* nothing stored

VARIABLES
    stored,  \* [ssid, password]
    inUse,   \* what the station last tried to connect with since the boot
    op,      \* the request that is carried out
    failed,  \* has a call of the last request failed?
    open     \* is the partition open?

vars == <<stored, inUse, op, failed, open>>

Nothing == [ssid |-> None, password |-> None]
Complete(p) == p.ssid # None /\ p.password # None

Idle == [kind |-> "idle", cred |-> None]
Storing(c) == [kind |-> "store", cred |-> c]
Erasing == [kind |-> "erase", cred |-> None]

Init == stored = Nothing /\ inUse = Nothing /\ op = Idle /\ ~failed /\ ~open

\* The partition is opened, whole or emptied; it may fail to open.
Open ==
    /\ ~open /\ op = Idle
    /\ stored' \in {stored, Nothing}
    /\ open' \in BOOLEAN
    /\ UNCHANGED <<inUse, op, failed>>

Connect ==
    /\ open /\ op = Idle
    /\ Complete(stored)
    /\ inUse' = stored
    /\ UNCHANGED <<stored, op, failed, open>>

Begin ==
    /\ open /\ op = Idle
    /\ op' \in {Erasing} \cup {Storing(c) : c \in Creds}
    /\ failed' = FALSE
    /\ UNCHANGED <<stored, inUse, open>>

\* No call failed: everything is stored, or everything is erased.
Succeed ==
    /\ \/ \E c \in Creds : op = Storing(c) /\ stored' = [ssid |-> c, password |-> c]
       \/ op = Erasing /\ stored' = Nothing
    /\ op' = Idle /\ failed' = FALSE
    /\ UNCHANGED <<inUse, open>>

\* What may be left of a request that was not carried out whole: the new ssid
\* with the old password, never the old ssid with a new password; after an
\* erasure one of the two.
Damage ==
    \/ UNCHANGED stored
    \/ \E c \in Creds : op = Storing(c) /\ stored' = [stored EXCEPT !.ssid = c]
    \/ op = Erasing /\ \E key \in {"ssid", "password"} : stored' = [stored EXCEPT ![key] = None]

Fail ==
    /\ op # Idle
    /\ Damage
    /\ op' = Idle /\ failed' = TRUE
    /\ UNCHANGED <<inUse, open>>

Reboot ==
    /\ Damage
    /\ op' = Idle /\ inUse' = Nothing /\ failed' = FALSE /\ open' = FALSE

Next == Open \/ Connect \/ Begin \/ Succeed \/ Fail \/ Reboot

Spec == Init /\ [][Next]_vars
=============================================================================
