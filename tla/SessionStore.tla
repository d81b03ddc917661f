---------------------------- MODULE SessionStore ----------------------------
(***************************************************************************)
(* Cookie sessions: the sessions table and the request handlers that read  *)
(* and write it.  Every handler runs in its own goroutine, and each of its *)
(* database calls is one autocommitted statement, so the handlers          *)
(* interleave between statements:                                          *)
(*                                                                         *)
(*   ValidateSession = FindSessionByToken ; time.Now() ;                   *)
(*                     UpdateSession or CloseSession                       *)
(*                                                                         *)
(* UpdateSession is gorm's Save: it writes every column of the row as it   *)
(* was read, closed_on included.  (It does so to set last_activity, which  *)
(* no code reads and which is left out here.)                              *)
(*                                                                         *)
(* A request is validated once by SessionExtractionMiddleware (when        *)
(* analytics are on) and once more by the middleware of its route.         *)
(***************************************************************************)
EXTENDS Naturals

CONSTANTS
  Tokens,           \* session tokens GenerateToken may draw
  Requests,         \* request slots: at most one request in flight in each
  NoToken,          \* the request carries no session cookie
  SessionDuration,  \* seconds a session is valid, in ticks of the clock
  MaxTime,          \* bound of the clock
  Analytics,        \* management.analytics: SessionExtractionMiddleware is installed
  DBFaults,         \* TRUE: a statement may fail (lock timeout, I/O error)
  Crashes           \* TRUE: the process may die and be started again

ASSUME SessionStoreConstants ==
  /\ NoToken \notin Tokens
  /\ SessionDuration \in Nat
  /\ MaxTime \in Nat
  /\ Analytics \in BOOLEAN
  /\ DBFaults \in BOOLEAN
  /\ Crashes \in BOOLEAN

VARIABLES
  sessions,   \* the table: token -> row
  req,        \* the handler running in each slot
  clock       \* the wall clock

vars == <<sessions, req, clock>>

(***************************************************************************)
(* A row of the table.  "open" is closed_on IS NULL; "none" is no row.     *)
(***************************************************************************)
Row == [state: {"none", "open", "closed"}, isAdmin: BOOLEAN, validUntil: Nat]

NoRow == [state |-> "none", isAdmin |-> FALSE, validUntil |-> 0]

(***************************************************************************)
(* The routes a request can take: an open route, one whose configuration   *)
(* demands authentication, the dashboard (admins only), logout, the login  *)
(* with a password, and the callback of an OAuth provider.                 *)
(***************************************************************************)
Routes == {"public", "protected", "dashboard", "logout", "login", "callback"}

Steps == {"idle", "find", "check", "save", "closeExpired",
          "end", "credentials", "serve"}

(* late and hopeless are history: whether, when the request arrived, its   *)
(* session's ValidUntil had passed, and whether it had ended for good (see *)
(* Ended).                                                                 *)
Handler == [step: Steps, phase: {"extract", "route"}, route: Routes,
            token: Tokens \cup {NoToken}, copy: Row, late: BOOLEAN, hopeless: BOOLEAN]

NoHandler == [step |-> "idle", phase |-> "extract", route |-> "public",
              token |-> NoToken, copy |-> NoRow, late |-> FALSE, hopeless |-> FALSE]

(* A validation that will write its copy of the row of t back. *)
HoldsCopy(q, t) == q.step \in {"check", "save"} /\ q.token = t

(* The session is closed and nobody is left who could reopen it. *)
Ended(t) ==
  /\ sessions[t].state = "closed"
  /\ \A r \in Requests : ~HoldsCopy(req[r], t)

(* The clock has passed the row's ValidUntil. *)
Expired(t) == sessions[t].state # "none" /\ sessions[t].validUntil < clock

-----------------------------------------------------------------------------
(* Moving a handler along.                                                 *)

(* Where the route's own middleware starts. *)
RouteEntry(route) ==
  CASE route = "public" -> "serve"
    [] route = "logout" -> "end"
    [] route = "callback" -> "credentials"
    [] OTHER -> "find"

(* What follows an accepted session in the route's middleware. *)
AfterAccept(q) ==
  CASE q.route = "protected" -> "serve"
    [] q.route = "dashboard" -> IF q.copy.isAdmin THEN "serve" ELSE "end"
    [] OTHER -> "idle"

(* What follows a missing or refused session. *)
AfterReject(q) == IF q.route = "login" THEN "credentials" ELSE "idle"

(* q's handler goes to step s; a handler that is done leaves its slot. *)
At(q, s) == IF s = "idle" THEN NoHandler ELSE [q EXCEPT !.step = s]

Validated(q, accepted) ==
  IF q.phase = "extract"
  THEN [q EXCEPT !.phase = "route", !.step = RouteEntry(q.route)]
  ELSE At(q, IF accepted THEN AfterAccept(q) ELSE AfterReject(q))

Become(r, q) == req' = [req EXCEPT ![r] = q]

-----------------------------------------------------------------------------
Init ==
  /\ sessions = [t \in Tokens |-> NoRow]
  /\ req = [r \in Requests |-> NoHandler]
  /\ clock = 0

(* A request arrives with the cookie t, or with none. *)
Arrive(r, route, t) ==
  /\ req[r].step = "idle"
  /\ Become(r, [step |-> IF Analytics THEN "find" ELSE RouteEntry(route),
                phase |-> IF Analytics THEN "extract" ELSE "route",
                route |-> route, token |-> t, copy |-> NoRow,
                late |-> t \in Tokens /\ Expired(t),
                hopeless |-> t \in Tokens /\ Ended(t)])
  /\ UNCHANGED <<sessions, clock>>

(* Broken variant: the lookup does not look at closed_on. *)
FindEvenClosed(r) ==
  LET q == req[r] IN
  /\ q.step = "find"
  /\ q.token \in Tokens
  /\ sessions[q.token].state # "none"
  /\ Become(r, [q EXCEPT !.step = "check", !.copy = sessions[q.token]])
  /\ UNCHANGED <<sessions, clock>>

(* FindSessionByToken returns the row of an open session. *)
Find(r) ==
  LET q == req[r] IN
  /\ q.step = "find"
  /\ q.token \in Tokens
  /\ sessions[q.token].state = "open"
  /\ Become(r, [q EXCEPT !.step = "check", !.copy = sessions[q.token]])
  /\ UNCHANGED <<sessions, clock>>

(* No cookie, no row, ErrSessionClosed, or a failed query. *)
FindNothing(r) ==
  LET q == req[r] IN
  /\ q.step = "find"
  /\ \/ q.token = NoToken
     \/ q.token \in Tokens /\ sessions[q.token].state # "open"
     \/ DBFaults
  /\ Become(r, Validated(q, FALSE))
  /\ UNCHANGED <<sessions, clock>>

(* Broken variant: ValidUntil is not compared with the clock. *)
CheckNothing(r) ==
  /\ req[r].step = "check"
  /\ Become(r, [req[r] EXCEPT !.step = "save"])
  /\ UNCHANGED <<sessions, clock>>

(* now := time.Now(), and the comparison with ValidUntil. *)
Check(r) ==
  LET q == req[r] IN
  /\ q.step = "check"
  /\ IF q.copy.validUntil < clock
     THEN Become(r, [q EXCEPT !.step = "closeExpired"])
     ELSE Become(r, [q EXCEPT !.step = "save"])
  /\ UNCHANGED <<sessions, clock>>

(* UpdateSession: the whole row goes back as it was read.  An error of the *)
(* statement is ignored.                                                   *)
Save(r) ==
  LET q == req[r] IN
  /\ q.step = "save"
  /\ \/ sessions' = [sessions EXCEPT ![q.token] = q.copy]
     \/ DBFaults /\ UNCHANGED sessions
  /\ Become(r, Validated(q, TRUE))
  /\ UNCHANGED clock

(* Broken variant: the row is marked with a state no reader knows. *)
CloseByDeleting(t) ==
  IF t \in Tokens /\ sessions[t].state = "open"
  THEN sessions' = [sessions EXCEPT ![t].state = "deleted"]
  ELSE UNCHANGED sessions

(* CloseSession: UPDATE ... SET closed_on WHERE token AND closed_on IS NULL. *)
CloseSession(t) ==
  IF t \in Tokens /\ sessions[t].state = "open"
  THEN sessions' = [sessions EXCEPT ![t].state = "closed"]
  ELSE UNCHANGED sessions

CloseExpired(r) ==
  LET q == req[r] IN
  /\ q.step = "closeExpired"
  /\ CloseSession(q.token) \/ (DBFaults /\ UNCHANGED sessions)
  /\ Become(r, Validated(q, FALSE))
  /\ UNCHANGED clock

(* Broken variant: only the cookie is cleared. *)
EndSessionCookieOnly(r) ==
  /\ req[r].step = "end"
  /\ Become(r, NoHandler)
  /\ UNCHANGED <<sessions, clock>>

(* EndSession for a logout, or for a non-admin at the dashboard; its error *)
(* is ignored and the cookie is cleared in any case.                       *)
EndSession(r) ==
  LET q == req[r] IN
  /\ q.step = "end"
  /\ CloseSession(q.token) \/ (DBFaults /\ UNCHANGED sessions)
  /\ Become(r, NoHandler)
  /\ UNCHANGED clock

(* Broken variant: the token drawn may already have been issued. *)
NewSessionReusing(r, t, isAdmin) ==
  /\ req[r].step = "credentials"
  /\ sessions' = [sessions EXCEPT ![t] =
       [state |-> "open", isAdmin |-> isAdmin,
        validUntil |-> clock + SessionDuration]]
  /\ Become(r, NoHandler)
  /\ UNCHANGED clock

(* The password or the provider's answer was right: NewSession draws a     *)
(* fresh token and inserts a row.                                          *)
(* IsAdmin is the user's provider at this moment.                          *)
NewSession(r, t, isAdmin) ==
  /\ req[r].step = "credentials"
  /\ sessions[t].state = "none"
  /\ sessions' = [sessions EXCEPT ![t] =
       [state |-> "open", isAdmin |-> isAdmin,
        validUntil |-> clock + SessionDuration]]
  /\ Become(r, NoHandler)
  /\ UNCHANGED clock

(* Wrong or missing credentials, or the insert failed. *)
LoginFails(r) ==
  /\ req[r].step = "credentials"
  /\ Become(r, NoHandler)
  /\ UNCHANGED <<sessions, clock>>

(* The handler behind the middleware has written its response. *)
Respond(r) ==
  /\ req[r].step = "serve"
  /\ Become(r, NoHandler)
  /\ UNCHANGED <<sessions, clock>>

(* The process dies and comes back: the table survives, the handlers do not. *)
Crash ==
  /\ Crashes
  /\ \E r \in Requests : req[r].step # "idle"
  /\ req' = [r \in Requests |-> NoHandler]
  /\ UNCHANGED <<sessions, clock>>

Tick ==
  /\ clock < MaxTime
  /\ clock' = clock + 1
  /\ UNCHANGED <<sessions, req>>

Handle(r) ==
  \/ Find(r) \/ FindNothing(r) \/ Check(r) \/ Save(r) \/ CloseExpired(r)
  \/ EndSession(r) \/ LoginFails(r) \/ Respond(r)
  \/ \E t \in Tokens, isAdmin \in BOOLEAN : NewSession(r, t, isAdmin)

Next ==
  \/ \E r \in Requests, route \in Routes, t \in Tokens \cup {NoToken} :
       Arrive(r, route, t)
  \/ \E r \in Requests : Handle(r)
  \/ Crash
  \/ Tick

Spec == Init /\ [][Next]_vars

(* net/http gives every request a goroutine, and every goroutine runs on. *)
FairSpec == Spec /\ \A r \in Requests : WF_vars(Handle(r))

-----------------------------------------------------------------------------
(* The request is past the authentication of a route that demands it. *)
Admitted(r) == req[r].step = "serve" /\ req[r].route # "public"

(* The types of the variables. *)
TypeOK ==
  /\ sessions \in [Tokens -> Row]
  /\ req \in [Requests -> Handler]
  /\ clock \in Nat

(***************************************************************************)
(* A request that arrives after its session's ValidUntil is never let      *)
(* through, whatever stale copies of the row other handlers write back     *)
(* over an expiry that was already recorded.                               *)
(***************************************************************************)
ExpiredNeverAdmitted ==
  \A r \in Requests : Admitted(r) => ~req[r].late

(***************************************************************************)
(* A request that arrives when its session has been closed, and no         *)
(* validation in flight still holds a copy of the open row, is never let   *)
(* through: what the close left behind cannot undo it later.               *)
(***************************************************************************)
EndedNeverAdmitted ==
  \A r \in Requests : Admitted(r) => ~req[r].hopeless

(***************************************************************************)
(* The dashboard serves only requests whose session was issued to a user   *)
(* of the admin provider, under every interleaving of logins, closes and   *)
(* write-backs.                                                            *)
(***************************************************************************)
DashboardForAdmins ==
  \A r \in Requests :
    Admitted(r) /\ req[r].route = "dashboard" => sessions[req[r].token].isAdmin

(***************************************************************************)
(* The inductive invariant behind these properties.                        *)
(***************************************************************************)

(* A copy waiting to be written back differs from its row in closed_on only. *)
CopiesMatch ==
  \A r \in Requests : req[r].step \in {"check", "save"} =>
    /\ req[r].token \in Tokens
    /\ sessions[req[r].token].state # "none"
    /\ req[r].copy.state = "open"
    /\ req[r].copy.isAdmin = sessions[req[r].token].isAdmin
    /\ req[r].copy.validUntil = sessions[req[r].token].validUntil

(* History stays true: what had passed or ended when a request arrived has  *)
(* passed or ended now, and such a request is in no step that lets it in.   *)
HistoryHolds ==
  \A r \in Requests :
    /\ req[r].late => /\ req[r].token \in Tokens /\ Expired(req[r].token)
                      /\ req[r].step # "save"
    /\ req[r].hopeless => req[r].token \in Tokens /\ Ended(req[r].token)

(* Whoever is let through is so under a token that was issued. *)
AdmittedTokens ==
  \A r \in Requests : Admitted(r) =>
    req[r].token \in Tokens /\ sessions[req[r].token].state # "none"

SessionInv ==
  /\ TypeOK
  /\ CopiesMatch
  /\ HistoryHolds
  /\ AdmittedTokens
  /\ ExpiredNeverAdmitted
  /\ EndedNeverAdmitted
  /\ DashboardForAdmins

(***************************************************************************)
(* The subsystem keeps SessionLifecycle's promise: tokens are issued once, *)
(* a session that has ended neither comes back nor authenticates.          *)
(***************************************************************************)
StatusOf(t) ==
  IF sessions[t].state = "none" THEN "unused"
  ELSE IF Ended(t) THEN "ended" ELSE "live"

ServingOf(r) == IF Admitted(r) THEN req[r].token ELSE NoToken

Lifecycle == INSTANCE SessionLifecycle WITH
  status <- [t \in Tokens |-> StatusOf(t)],
  serving <- [r \in Requests |-> ServingOf(r)]

Promise == Lifecycle!LifecycleSpec

(***************************************************************************)
(* Without faults and crashes, a logout request leads to a state in which  *)
(* its session is closed, although the logout request itself first writes  *)
(* the open row back when the extraction middleware validates it.          *)
(***************************************************************************)
LogoutTakesEffect ==
  \A r \in Requests, t \in Tokens :
    req[r].route = "logout" /\ req[r].token = t /\ sessions[t].state = "open"
      ~> sessions[t].state = "closed"

(***************************************************************************)
(* "CloseSession marks a session as closed": a closed row stays closed.    *)
(* The code does not keep this promise of its comment: a validation that   *)
(* has read the open row may save it back afterwards.                      *)
(***************************************************************************)
ClosedStaysClosed ==
  [][\A t \in Tokens : sessions[t].state = "closed" => sessions'[t].state = "closed"]_sessions
=============================================================================
