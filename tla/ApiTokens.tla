------------------------------ MODULE ApiTokens ------------------------------
(***************************************************************************)
(* Bearer tokens: the tokens table, the requests that authenticate with a  *)
(* token, and the requests that revoke one.  ValidateToken is a sequence   *)
(* of autocommitted statements,                                            *)
(*                                                                         *)
(*   FindTokenByHash ; time.Now() ; FindUserByIdOrUsername ;               *)
(*   IncrementUsageCount ; GetTokenByID                                    *)
(*                                                                         *)
(* or ExpireToken after the second, and other requests run in between.     *)
(* With analytics on, SessionExtractionMiddleware validates the same token *)
(* a first time before the middleware of the route does.                   *)
(***************************************************************************)
EXTENDS Naturals, FiniteSets

CONSTANTS
  Tokens,      \* tokens GenerateToken may draw
  Requests,    \* request slots
  NoToken,     \* the token of an idle slot
  MaxTime,     \* bound of the clock
  MaxUses,     \* bound of the requests that arrive with one token
  Analytics,   \* management.analytics: SessionExtractionMiddleware is installed
  DBFaults,    \* TRUE: a statement may fail
  Crashes      \* TRUE: the process may die and be started again

ASSUME ApiTokensConstants ==
  /\ NoToken \notin Tokens
  /\ IsFiniteSet(Requests)
  /\ MaxTime \in Nat
  /\ MaxUses \in Nat
  /\ Analytics \in BOOLEAN
  /\ DBFaults \in BOOLEAN
  /\ Crashes \in BOOLEAN

VARIABLES
  tokens,    \* the table: token -> row
  req,       \* the handler running in each slot
  clock,     \* the wall clock
  arrived,   \* history: how many requests have arrived with the token
  accepted   \* history: how many validations have accepted the token

vars == <<tokens, req, clock, arrived, accepted>>

Null == 0

(* expiresAt and revokedAt may be Null: the clock starts at 1.             *)
Row == [exists: BOOLEAN, active: BOOLEAN, expiresAt: Nat, revokedAt: Nat, usage: Nat]

NoRow == [exists |-> FALSE, active |-> FALSE, expiresAt |-> Null,
          revokedAt |-> Null, usage |-> 0]

Steps == {"idle", "find", "check", "expire", "user", "count", "reload", "serve",
          "get", "revoke"}

(* dead is history: whether the token was inactive or past its expiry when *)
(* the request arrived.  owner: a revocation through the token service.    *)
Handler == [step: Steps, phase: {"extract", "route"}, owner: BOOLEAN,
            token: Tokens \cup {NoToken}, copy: Row, dead: BOOLEAN]

NoHandler == [step |-> "idle", phase |-> "route", owner |-> FALSE,
              token |-> NoToken, copy |-> NoRow, dead |-> FALSE]

Past(row, now) == row.expiresAt # Null /\ row.expiresAt < now

Dead(t) == tokens[t].exists /\ (~tokens[t].active \/ Past(tokens[t], clock))

Become(r, q) == req' = [req EXCEPT ![r] = q]

(* What follows a validation: the route's own one, the handler, or 401.    *)
Validated(q, ok) ==
  IF q.phase = "extract" THEN [q EXCEPT !.phase = "route", !.step = "find"]
  ELSE IF ok THEN [q EXCEPT !.step = "serve"] ELSE NoHandler

-----------------------------------------------------------------------------
Init ==
  /\ tokens = [t \in Tokens |-> NoRow]
  /\ req = [r \in Requests |-> NoHandler]
  /\ clock = 1
  /\ arrived = [t \in Tokens |-> 0]
  /\ accepted = [t \in Tokens |-> 0]

(* An administrator creates a token.  Its expiry was in the future when    *)
(* the handler looked; by the time of the INSERT it may have passed.       *)
GenerateToken(t, expiresAt) ==
  /\ ~tokens[t].exists
  /\ tokens' = [tokens EXCEPT ![t] =
       [NoRow EXCEPT !.exists = TRUE, !.active = TRUE, !.expiresAt = expiresAt]]
  /\ UNCHANGED <<req, clock, arrived, accepted>>

(* A request arrives with a bearer token. *)
Arrive(r, t) ==
  /\ req[r].step = "idle"
  /\ arrived[t] < MaxUses
  /\ arrived' = [arrived EXCEPT ![t] = @ + 1]
  /\ Become(r, [NoHandler EXCEPT
       !.step = "find", !.phase = IF Analytics THEN "extract" ELSE "route",
       !.token = t, !.dead = Dead(t)])
  /\ UNCHANGED <<tokens, clock, accepted>>

(* Broken variant: is_active is not looked at. *)
FindEvenInactive(r) ==
  LET q == req[r] IN
  /\ q.step = "find"
  /\ tokens[q.token].exists
  /\ Become(r, [q EXCEPT !.step = "check", !.copy = tokens[q.token]])
  /\ UNCHANGED <<tokens, clock, arrived, accepted>>

(* FindTokenByHash finds an active token. *)
Find(r) ==
  LET q == req[r] IN
  /\ q.step = "find"
  /\ tokens[q.token].active
  /\ Become(r, [q EXCEPT !.step = "check", !.copy = tokens[q.token]])
  /\ UNCHANGED <<tokens, clock, arrived, accepted>>

(* No such token, a deactivated one, or a failed query. *)
FindNothing(r) ==
  LET q == req[r] IN
  /\ q.step = "find"
  /\ ~tokens[q.token].active \/ DBFaults
  /\ Become(r, Validated(q, FALSE))
  /\ UNCHANGED <<tokens, clock, arrived, accepted>>

(* token.ExpiresAt.Before(time.Now()) *)
Check(r) ==
  LET q == req[r] IN
  /\ q.step = "check"
  /\ Become(r, [q EXCEPT !.step = IF Past(q.copy, clock) THEN "expire" ELSE "user"])
  /\ UNCHANGED <<tokens, clock, arrived, accepted>>

(* Broken variant: the token is refused, and stays active. *)
ExpireNothing(r) ==
  /\ req[r].step = "expire"
  /\ Become(r, Validated(req[r], FALSE))
  /\ UNCHANGED <<tokens, clock, arrived, accepted>>

(* ExpireToken: UPDATE ... SET is_active; its error is only printed. *)
ExpireToken(r) ==
  LET q == req[r] IN
  /\ q.step = "expire"
  /\ \/ tokens' = [tokens EXCEPT ![q.token].active = FALSE]
     \/ DBFaults /\ UNCHANGED tokens
  /\ Become(r, Validated(q, FALSE))
  /\ UNCHANGED <<clock, arrived, accepted>>

(* Broken variant: a missing user gets no answer. *)
FindUserHangs(r) ==
  LET q == req[r] IN
  /\ q.step = "user"
  /\ \/ Become(r, [q EXCEPT !.step = "count"])
     \/ DBFaults /\ Become(r, [q EXCEPT !.step = "hangs"])
  /\ UNCHANGED <<tokens, clock, arrived, accepted>>

FindUser(r) ==
  LET q == req[r] IN
  /\ q.step = "user"
  /\ \/ Become(r, [q EXCEPT !.step = "count"])
     \/ DBFaults /\ Become(r, Validated(q, FALSE))
  /\ UNCHANGED <<tokens, clock, arrived, accepted>>

(* Broken variant: the row is saved as it was read, with one more use. *)
SaveUsageCount(r) ==
  LET q == req[r] IN
  /\ q.step = "count"
  /\ tokens' = [tokens EXCEPT ![q.token] = [q.copy EXCEPT !.usage = @ + 1]]
  /\ Become(r, [q EXCEPT !.step = "reload"])
  /\ UNCHANGED <<clock, arrived, accepted>>

(* IncrementUsageCount: UPDATE ... SET usage_count = usage_count + 1.  An  *)
(* error is only printed, and there is no reload then.                     *)
IncrementUsageCount(r) ==
  LET q == req[r] IN
  /\ q.step = "count"
  /\ \/ /\ tokens' = [tokens EXCEPT ![q.token].usage = @ + 1]
        /\ Become(r, [q EXCEPT !.step = "reload"])
        /\ UNCHANGED accepted
     \/ /\ DBFaults
        /\ accepted' = [accepted EXCEPT ![q.token] = @ + 1]
        /\ Become(r, Validated(q, TRUE))
        /\ UNCHANGED tokens
  /\ UNCHANGED <<clock, arrived>>

(* The reloaded row is for the answer only: is_active is not looked at. *)
Reload(r) ==
  LET q == req[r] IN
  /\ q.step = "reload"
  /\ accepted' = [accepted EXCEPT ![q.token] = @ + 1]
  /\ Become(r, Validated(q, TRUE))
  /\ UNCHANGED <<tokens, clock, arrived>>

Respond(r) ==
  /\ req[r].step = "serve"
  /\ Become(r, NoHandler)
  /\ UNCHANGED <<tokens, clock, arrived, accepted>>

-----------------------------------------------------------------------------
(* DELETE /api/tokens/{id} by an administrator, or the token service's own *)
(* RevokeToken, which no route calls.  Both look first and write later.    *)
AskToRevoke(r, t, owner) ==
  /\ req[r].step = "idle"
  /\ Become(r, [NoHandler EXCEPT !.step = "get", !.token = t, !.owner = owner])
  /\ UNCHANGED <<tokens, clock, arrived, accepted>>

(* Only the token service refuses a token that was revoked or is inactive. *)
MayRevoke(q) ==
  /\ tokens[q.token].exists
  /\ q.owner => tokens[q.token].revokedAt = Null /\ tokens[q.token].active

GetTokenByID(r) ==
  LET q == req[r] IN
  /\ q.step = "get"
  /\ \/ MayRevoke(q) /\ Become(r, [q EXCEPT !.step = "revoke"])
     \/ ~MayRevoke(q) /\ Become(r, NoHandler)
     \/ DBFaults /\ Become(r, NoHandler)
  /\ UNCHANGED <<tokens, clock, arrived, accepted>>

RevokeToken(r) ==
  LET q == req[r] IN
  /\ q.step = "revoke"
  /\ \/ tokens' = [tokens EXCEPT ![q.token] = [@ EXCEPT !.active = FALSE, !.revokedAt = clock]]
     \/ DBFaults /\ UNCHANGED tokens
  /\ Become(r, NoHandler)
  /\ UNCHANGED <<clock, arrived, accepted>>

-----------------------------------------------------------------------------
Crash ==
  /\ Crashes
  /\ req' = [r \in Requests |-> NoHandler]
  /\ UNCHANGED <<tokens, clock, arrived, accepted>>

Tick ==
  /\ clock < MaxTime
  /\ clock' = clock + 1
  /\ UNCHANGED <<tokens, req, arrived, accepted>>

Handle(r) ==
  \/ Find(r) \/ FindNothing(r) \/ Check(r) \/ ExpireToken(r) \/ FindUser(r)
  \/ IncrementUsageCount(r) \/ Reload(r) \/ Respond(r)
  \/ GetTokenByID(r) \/ RevokeToken(r)

Next ==
  \/ \E t \in Tokens, expiresAt \in {Null} \cup 1 .. MaxTime : GenerateToken(t, expiresAt)
  \/ \E r \in Requests, t \in Tokens : Arrive(r, t)
  \/ \E r \in Requests, t \in Tokens, owner \in BOOLEAN : AskToRevoke(r, t, owner)
  \/ \E r \in Requests : Handle(r)
  \/ Crash
  \/ Tick

Spec == Init /\ [][Next]_vars

(* net/http gives every request a goroutine, and every goroutine runs on. *)
FairSpec == Spec /\ \A r \in Requests : WF_vars(Handle(r))

-----------------------------------------------------------------------------
(* The types of the variables. *)
TypeOK ==
  /\ tokens \in [Tokens -> Row]
  /\ req \in [Requests -> Handler]
  /\ clock \in Nat
  /\ arrived \in [Tokens -> Nat]
  /\ accepted \in [Tokens -> Nat]

(***************************************************************************)
(* A token that has been deactivated, by a revocation or by its expiry, is *)
(* never active again, whatever validations of it are still under way.     *)
(***************************************************************************)
InactiveForGood ==
  [][\A t \in Tokens : tokens[t].exists /\ ~tokens[t].active => ~tokens'[t].active]_tokens

(***************************************************************************)
(* A request that arrives when its token is inactive or past its expiry is *)
(* not served, however often it is validated and whatever runs in between. *)
(***************************************************************************)
DeadNeverServed == \A r \in Requests : req[r].step = "serve" => ~req[r].dead

(***************************************************************************)
(* A token with a revocation on record is inactive, under every order of   *)
(* revocations, expiries and counting.                                     *)
(***************************************************************************)
RevokedIsInactive == \A t \in Tokens : tokens[t].revokedAt # Null => ~tokens[t].active

(* The requests that have counted a use, and not yet accepted the token.   *)
Counted(t) == {r \in Requests : req[r].step = "reload" /\ req[r].token = t}

(***************************************************************************)
(* No use is lost: without faults and crashes, the usage count is the      *)
(* number of validations that accepted the token, or are about to.         *)
(***************************************************************************)
NoUseLost ==
  ~DBFaults /\ ~Crashes =>
    \A t \in Tokens : tokens[t].usage = accepted[t] + Cardinality(Counted(t))

(***************************************************************************)
(* Lazy expiration: without faults and crashes, a token that is used after *)
(* its expiry ends up inactive.                                            *)
(***************************************************************************)
ExpiredWhenUsed ==
  \A r \in Requests, t \in Tokens :
    req[r].step = "find" /\ req[r].token = t /\ Past(tokens[t], clock)
      ~> ~tokens[t].active

(***************************************************************************)
(* The inductive invariant behind the safety properties.                   *)
(***************************************************************************)

Checking == {"check", "expire", "user", "count", "reload"}

(* A copy has the expiry of its row, which no statement changes. *)
CopiesMatch ==
  \A r \in Requests : req[r].step \in Checking =>
    req[r].copy.expiresAt = tokens[req[r].token].expiresAt

(* Who is at work on a token, is at work on one that exists. *)
AtWork ==
  \A r \in Requests :
    /\ req[r].step # "idle" => req[r].token \in Tokens
    /\ req[r].step \in Checking \cup {"revoke"} => tokens[req[r].token].exists

(* What was dead is dead, and has not got past the checks. *)
DeadStays ==
  \A r \in Requests : req[r].dead =>
    /\ req[r].token \in Tokens /\ Dead(req[r].token)
    /\ req[r].step \in {"find", "check", "expire"}
    /\ req[r].step = "check" => Past(tokens[req[r].token], clock)

ActiveExists == \A t \in Tokens : tokens[t].active => tokens[t].exists

TokenInv ==
  /\ TypeOK
  /\ CopiesMatch
  /\ AtWork
  /\ DeadStays
  /\ ActiveExists
  /\ RevokedIsInactive

(* A token that has not been issued has not been used. *)
UnusedUntilIssued == \A t \in Tokens : ~tokens[t].exists => tokens[t].usage = 0

UseInv == UnusedUntilIssued /\ NoUseLost
=============================================================================
