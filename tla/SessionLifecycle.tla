-------------------------- MODULE SessionLifecycle --------------------------
(***************************************************************************)
(* What the session subsystem promises, without any of its mechanism.  A   *)
(* session is issued once, is live until it ends, and never comes back;    *)
(* only a live session gets a request through authentication.              *)
(*                                                                         *)
(* SessionStore implements this specification when "live" is read as "open *)
(* in the database, or still held open by a validation that has read the   *)
(* row and not yet written it back": see Promise in SessionStore.          *)
(***************************************************************************)
CONSTANTS
  Tokens,     \* session tokens that may be issued
  Requests,   \* request slots of the gateway
  NoToken     \* the slot authenticates nobody

VARIABLES
  status,     \* status[t]: "unused", "live" or "ended"
  serving     \* serving[r]: the session on whose behalf slot r is served

lifecycle == <<status, serving>>

Statuses == {"unused", "live", "ended"}

LifecycleInit ==
  /\ status = [t \in Tokens |-> "unused"]
  /\ serving = [r \in Requests |-> NoToken]

(* Some live sessions of S end; the others keep their status. *)
EndSome(S) ==
  \E E \in SUBSET {t \in S : status[t] = "live"} :
    status' = [t \in Tokens |-> IF t \in E THEN "ended" ELSE status[t]]

(* A login issues a session under a token never used before. *)
Issue(t) ==
  /\ status[t] = "unused"
  /\ status' = [status EXCEPT ![t] = "live"]
  /\ UNCHANGED serving

(* A logout, an expiry, or the last validation that kept a closed session live. *)
End(t) ==
  /\ EndSome({t})
  /\ UNCHANGED serving

(* A request passes authentication; the session may end at that instant. *)
Admit(r, t) ==
  /\ serving[r] = NoToken
  /\ status[t] = "live"
  /\ serving' = [serving EXCEPT ![r] = t]
  /\ EndSome({t})

Done(r) ==
  /\ serving' = [serving EXCEPT ![r] = NoToken]
  /\ UNCHANGED status

(* The process dies: nobody is served, and validations in flight are gone. *)
Restart ==
  /\ serving' = [r \in Requests |-> NoToken]
  /\ EndSome(Tokens)

LifecycleNext ==
  \/ \E t \in Tokens : Issue(t) \/ End(t)
  \/ \E r \in Requests : Done(r) \/ \E t \in Tokens : Admit(r, t)
  \/ Restart

LifecycleSpec == LifecycleInit /\ [][LifecycleNext]_lifecycle
=============================================================================
