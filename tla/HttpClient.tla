----------------------------- MODULE HttpClient -----------------------------
(***************************************************************************)
(* The HTTP client (lib/http_client/src/http_client.c): requests made with *)
(* a handle that a task keeps and uses again (init_reuse, post_reuse,      *)
(* deinit_reuse), and requests that make a handle of their own             *)
(* (http_client_post).                                                     *)
(*                                                                         *)
(* A handle is a structure with a handle of ESP-IDF in it.  Making the     *)
(* latter may fail, which the library does not check: the structure is     *)
(* then hollow, and ESP-IDF refuses every call with it.  A structure that  *)
(* cannot be allocated ends the program (NEW) and is left out.             *)
(***************************************************************************)
EXTENDS Naturals

CONSTANT Callers    \* the tasks that make requests

VARIABLES
  client,     \* the handle of each caller: "null", "hollow" or "ready"
  handles     \* how many ESP-IDF handles were made for each caller and not cleaned up

httpVars == <<client, handles>>

HttpTypeOK ==
  /\ client \in [Callers -> {"null", "hollow", "ready"}]
  /\ handles \in [Callers -> Nat]

HttpInit ==
  /\ client = [c \in Callers |-> "null"]
  /\ handles = [c \in Callers |-> 0]

(* After a restart. *)
HttpReset ==
  /\ client' = [c \in Callers |-> "null"]
  /\ handles' = [c \in Callers |-> 0]

(* How a request may end: with an answer, whatever its status, at which    *)
(* the library does not look; received by the server, but without the      *)
(* answer coming back; or not received.                                    *)
Outcomes == {"answered", "unanswered", "unsent"}

(* esp_http_client_init, which may return NULL. *)
OpenHandle(c) ==
  \/ /\ client' = [client EXCEPT ![c] = "ready"]
     /\ handles' = [handles EXCEPT ![c] = @ + 1]
  \/ /\ client' = [client EXCEPT ![c] = "hollow"]
     /\ UNCHANGED handles

(* esp_http_client_cleanup, which refuses NULL. *)
CloseHandle(c) ==
  /\ client' = [client EXCEPT ![c] = "null"]
  /\ handles' = IF client[c] = "ready" THEN [handles EXCEPT ![c] = @ - 1] ELSE handles

(* http_client_init_reuse overwrites the pointer it is given. *)
InitReuse(c) == OpenHandle(c)

(* Mutant: the structure is freed, the ESP-IDF handle in it is not. *)
DeinitKeepsHandle(c) ==
  /\ client' = [client EXCEPT ![c] = "null"]
  /\ UNCHANGED handles

(* http_client_deinit_reuse; a NULL handle is refused. *)
DeinitReuse(c) == CloseHandle(c)

(* The ways http_client_post_reuse may end: with a NULL or hollow handle   *)
(* nothing is sent.                                                        *)
PostReuse(c) == IF client[c] = "ready" THEN Outcomes ELSE {"unsent"}

(* http_client_post, until it waits for the answer, and the cleanup that   *)
(* follows whatever the answer is.  Without a handle every call of it is   *)
(* refused, and it returns at once.                                        *)
PostBegin(c) ==
  /\ client[c] = "null"
  /\ client' = [client EXCEPT ![c] = "ready"]
  /\ handles' = [handles EXCEPT ![c] = @ + 1]
PostEnd(c) == client[c] # "null" /\ CloseHandle(c)

=============================================================================
