--------------------------- MODULE ApiTokensProofs ---------------------------
(* Theorems of ApiTokens, for every set of tokens and request slots. *)
EXTENDS ApiTokens, TLAPS, FiniteSetTheorems

-----------------------------------------------------------------------------
(* The invariant, one part for the table, one for each slot. *)

TableInv ==
  \A t \in Tokens :
    /\ tokens[t].active => tokens[t].exists
    /\ tokens[t].revokedAt # Null => ~tokens[t].active

HandlerInv(r) ==
  LET q == req[r] IN
  /\ q.step # "idle" => q.token \in Tokens
  /\ q.step \in Checking => q.copy.expiresAt = tokens[q.token].expiresAt
  /\ q.step \in Checking \cup {"revoke"} => tokens[q.token].exists
  /\ q.dead =>
       /\ q.token \in Tokens /\ Dead(q.token)
       /\ q.step \in {"find", "check", "expire"}
       /\ q.step = "check" => Past(tokens[q.token], clock)

LEMMA InvBySlot ==
  TokenInv <=> TypeOK /\ TableInv /\ \A r \in Requests : HandlerInv(r)
BY DEF TokenInv, TableInv, HandlerInv, CopiesMatch, AtWork, DeadStays, ActiveExists,
   RevokedIsInactive

LEMMA InvBySlotNext ==
  TokenInv' <=> TypeOK' /\ TableInv' /\ \A r \in Requests : HandlerInv(r)'
BY DEF TokenInv, TableInv, HandlerInv, CopiesMatch, AtWork, DeadStays, ActiveExists,
   RevokedIsInactive

LEMMA NoHandlerType == NoHandler \in Handler /\ NoRow \in Row
BY DEF NoHandler, Handler, NoRow, Row, Steps, Null

LEMMA ValidatedType ==
  ASSUME NEW q \in Handler, NEW ok \in BOOLEAN
  PROVE  /\ Validated(q, ok) \in Handler
         /\ Validated(q, ok).step \in {"find", "serve", "idle"}
         /\ Validated(q, ok).step # "idle" => Validated(q, ok).token = q.token
         /\ Validated(q, ok).step = "serve" => ok
         /\ Validated(q, ok).dead => q.dead /\ Validated(q, ok).token = q.token
         /\ ~ok /\ Validated(q, ok).dead => Validated(q, ok).step = "find"
<1>1. CASE q.phase = "extract"
  BY <1>1 DEF Validated, Handler, Steps
<1>2. CASE q.phase # "extract" /\ ok
  BY <1>2 DEF Validated, Handler, Steps
<1>3. CASE q.phase # "extract" /\ ~ok
  BY <1>3, NoHandlerType DEF Validated, NoHandler
<1> QED BY <1>1, <1>2, <1>3

LEMMA InvInit == Init => TokenInv
<1> SUFFICES ASSUME Init PROVE TypeOK /\ TableInv /\ \A r \in Requests : HandlerInv(r)
  BY InvBySlot
<1> QED
  BY NoHandlerType DEF Init, TypeOK, TableInv, HandlerInv, NoHandler, NoRow, Checking, Null

-----------------------------------------------------------------------------
(* What every step owes to the handlers it does not move: rows stay, keep  *)
(* their expiry and, once inactive, stay so; and the past stays past.      *)
RowsLast ==
  \A t \in Tokens :
    /\ tokens[t].exists =>
         /\ tokens'[t].exists
         /\ tokens'[t].expiresAt = tokens[t].expiresAt
         /\ ~tokens[t].active => ~tokens'[t].active
    /\ tokens[t].exists /\ Past(tokens[t], clock) => Past(tokens'[t], clock')

LEMMA OthersKeep ==
  ASSUME NEW r \in Requests, HandlerInv(r), req'[r] = req[r], RowsLast
  PROVE  HandlerInv(r)'
<1>1. ASSUME NEW t \in Tokens, Dead(t) PROVE Dead(t)'
  BY <1>1 DEF Dead, RowsLast
<1> QED BY <1>1 DEF HandlerInv, RowsLast, Checking, Dead

(* A step that moves one handler, and whose effect on the table is allowed,*)
(* keeps the invariant if that handler keeps its own part of it.           *)
LEMMA OneMoves ==
  ASSUME TokenInv, NEW r \in Requests, NEW q \in Handler,
         req' = [req EXCEPT ![r] = q],
         tokens' \in [Tokens -> Row], clock' \in Nat,
         arrived' \in [Tokens -> Nat], accepted' \in [Tokens -> Nat],
         TableInv', RowsLast, HandlerInv(r)'
  PROVE  TokenInv'
<1>1. TypeOK'
  BY DEF TokenInv, TypeOK
<1>2. ASSUME NEW s \in Requests, s # r PROVE HandlerInv(s)'
  <2>1. req'[s] = req[s] /\ HandlerInv(s)
    BY <1>2, InvBySlot DEF TypeOK
  <2> QED BY <2>1, OthersKeep
<1> QED BY <1>1, <1>2, InvBySlotNext

LEMMA InvNext ==
  ASSUME TokenInv, [Next]_vars
  PROVE  TokenInv'
<1>0. /\ TypeOK /\ TableInv
      /\ \A r \in Requests : HandlerInv(r) /\ req[r] \in Handler
      /\ NoHandler \in Handler /\ NoRow \in Row
      /\ tokens \in [Tokens -> Row] /\ clock \in Nat
  BY InvBySlot, NoHandlerType DEF TypeOK
<1>1. ASSUME NEW r \in Requests, NEW q \in Handler, req' = [req EXCEPT ![r] = q],
             UNCHANGED <<tokens, clock>>,
             arrived' \in [Tokens -> Nat], accepted' \in [Tokens -> Nat],
             HandlerInv(r)'
      PROVE  TokenInv'
  <2>1. TableInv' /\ RowsLast
    BY <1>0, <1>1 DEF TableInv, RowsLast, Past
  <2>2. tokens' \in [Tokens -> Row] /\ clock' \in Nat
    BY <1>0, <1>1
  <2> QED BY <1>1, <2>1, <2>2, OneMoves
<1>2. ASSUME NEW t \in Tokens, NEW expiresAt \in {Null} \cup 1 .. MaxTime,
             GenerateToken(t, expiresAt)
      PROVE  TokenInv'
  <2> DEFINE row == [NoRow EXCEPT !.exists = TRUE, !.active = TRUE, !.expiresAt = expiresAt]
  <2>0. expiresAt \in Nat
    BY ApiTokensConstants DEF Null
  <2>1. row \in Row /\ row.exists /\ row.revokedAt = Null
    BY <2>0 DEF Row, NoRow, Null
  <2> HIDE DEF row
  <2>2. tokens' = [tokens EXCEPT ![t] = row] /\ UNCHANGED <<req, clock, arrived, accepted>>
        /\ ~tokens[t].exists
    BY <1>2 DEF GenerateToken, row
  <2>3. TypeOK' /\ TableInv'
    BY <1>0, <2>1, <2>2 DEF TypeOK, TableInv
  <2>4. RowsLast
    BY <1>0, <2>1, <2>2 DEF RowsLast
  <2> QED BY <1>0, <2>2, <2>3, <2>4, OthersKeep, InvBySlotNext
<1>3. ASSUME NEW r \in Requests, NEW t \in Tokens, Arrive(r, t) PROVE TokenInv'
  <2> DEFINE q == [NoHandler EXCEPT !.step = "find", !.phase = IF Analytics THEN "extract" ELSE "route",
                                    !.token = t, !.dead = Dead(t)]
  <2>1. q \in Handler /\ q.step = "find" /\ q.token = t /\ (q.dead <=> Dead(t))
    BY <1>0 DEF Handler, NoHandler, Steps, Dead
  <2>2. req' = [req EXCEPT ![r] = q]
    BY <1>3 DEF Arrive, Become
  <2> HIDE DEF q
  <2>3. UNCHANGED <<tokens, clock>> /\ arrived' \in [Tokens -> Nat] /\ accepted' \in [Tokens -> Nat]
    BY <1>0, <1>3 DEF Arrive, TypeOK
  <2>4. HandlerInv(r)'
    BY <1>0, <2>1, <2>2, <2>3 DEF TypeOK, HandlerInv, Checking, Dead
  <2> QED BY <1>1, <2>1, <2>2, <2>3, <2>4
<1>4. ASSUME NEW r \in Requests, Find(r) PROVE TokenInv'
  <2> DEFINE q == [req[r] EXCEPT !.step = "check", !.copy = tokens[req[r].token]]
  <2>1. /\ req[r].token \in Tokens /\ req[r].step = "find"
        /\ tokens[req[r].token].active /\ tokens[req[r].token].exists
    BY <1>0, <1>4 DEF Find, HandlerInv, TableInv
  <2>2. /\ q \in Handler /\ q.step = "check" /\ q.token = req[r].token
        /\ q.copy = tokens[req[r].token] /\ q.dead = req[r].dead
    BY <1>0, <2>1 DEF Handler, Steps
  <2>3. req' = [req EXCEPT ![r] = q] /\ UNCHANGED <<tokens, clock, arrived, accepted>>
    BY <1>4 DEF Find, Become
  <2> HIDE DEF q
  <2>4. HandlerInv(r)'
    BY <1>0, <2>1, <2>2, <2>3 DEF TypeOK, HandlerInv, Checking, Dead
  <2>5. arrived' \in [Tokens -> Nat] /\ accepted' \in [Tokens -> Nat]
    BY <1>0, <2>3 DEF TypeOK
  <2> QED BY <1>1, <2>2, <2>3, <2>4, <2>5
(* A validation that ends. *)
<1>5. ASSUME NEW r \in Requests, NEW ok \in BOOLEAN,
             req[r].step # "idle",
             ok => ~req[r].dead,
             req' = [req EXCEPT ![r] = Validated(req[r], ok)],
             RowsLast
      PROVE  HandlerInv(r)'
  <2> DEFINE q == Validated(req[r], ok)
  <2>1. /\ q \in Handler
        /\ q.step \in {"find", "serve", "idle"}
        /\ q.step # "idle" => q.token = req[r].token
        /\ q.dead => req[r].dead /\ q.token = req[r].token /\ q.step = "find"
    BY <1>0, <1>5, ValidatedType
  <2> HIDE DEF q
  <2>2. req'[r] = q
    BY <1>0, <1>5 DEF TypeOK, q
  <2>3. \A t \in Tokens : Dead(t) => Dead(t)'
    BY <1>5 DEF RowsLast, Dead
  <2> QED BY <1>0, <1>5, <2>1, <2>2, <2>3 DEF HandlerInv, Checking
<1>6. ASSUME NEW r \in Requests, NEW ok \in BOOLEAN,
             req[r].step # "idle",
             ok => ~req[r].dead,
             req' = [req EXCEPT ![r] = Validated(req[r], ok)],
             UNCHANGED <<tokens, clock>>,
             arrived' \in [Tokens -> Nat], accepted' \in [Tokens -> Nat]
      PROVE  TokenInv'
  <2>1. RowsLast
    BY <1>6 DEF RowsLast, Past
  <2>2. HandlerInv(r)' /\ Validated(req[r], ok) \in Handler
    BY <1>0, <1>5, <1>6, <2>1, ValidatedType
  <2> QED BY <1>1, <1>6, <2>2
<1>7. ASSUME NEW r \in Requests, FindNothing(r) PROVE TokenInv'
  BY <1>0, <1>6, <1>7 DEF FindNothing, Become, TypeOK
<1>8. ASSUME NEW r \in Requests, Check(r) PROVE TokenInv'
  <2> DEFINE s == IF Past(req[r].copy, clock) THEN "expire" ELSE "user"
             q == [req[r] EXCEPT !.step = s]
  <2>1. /\ req[r].token \in Tokens /\ req[r].step = "check"
        /\ req[r].copy.expiresAt = tokens[req[r].token].expiresAt
        /\ tokens[req[r].token].exists
        /\ req[r].dead => Past(tokens[req[r].token], clock) /\ Dead(req[r].token)
    BY <1>0, <1>8 DEF Check, HandlerInv, Checking
  <2>2. /\ s \in {"expire", "user"}
        /\ req[r].dead => s = "expire"
    BY <2>1 DEF Past
  <2>3. req' = [req EXCEPT ![r] = q] /\ UNCHANGED <<tokens, clock, arrived, accepted>>
    BY <1>8 DEF Check, Become
  <2> HIDE DEF s
  <2>4. /\ q \in Handler /\ q.step = s /\ q.token = req[r].token
        /\ q.copy = req[r].copy /\ q.dead = req[r].dead
    BY <1>0, <2>2 DEF Handler, Steps
  <2> HIDE DEF q
  <2>5. HandlerInv(r)'
    BY <1>0, <2>1, <2>2, <2>3, <2>4 DEF TypeOK, HandlerInv, Checking, Dead
  <2>6. arrived' \in [Tokens -> Nat] /\ accepted' \in [Tokens -> Nat]
    BY <1>0, <2>3 DEF TypeOK
  <2> QED BY <1>1, <2>3, <2>4, <2>5, <2>6
<1>9. ASSUME NEW r \in Requests, ExpireToken(r) PROVE TokenInv'
  <2> DEFINE t == req[r].token
  <2>1. t \in Tokens /\ tokens[t].exists /\ req[r].step # "idle"
    BY <1>0, <1>9 DEF ExpireToken, HandlerInv, Checking
  <2>2. /\ \/ tokens' = [tokens EXCEPT ![t] = [tokens[t] EXCEPT !.active = FALSE]]
           \/ tokens' = tokens
        /\ req' = [req EXCEPT ![r] = Validated(req[r], FALSE)]
        /\ clock' = clock /\ arrived' = arrived /\ accepted' = accepted
    BY <1>9 DEF ExpireToken, Become
  <2> HIDE DEF t
  <2>3. tokens' \in [Tokens -> Row] /\ TableInv' /\ RowsLast
    <3>1. CASE tokens' = tokens
      BY <1>0, <2>2, <3>1 DEF TableInv, RowsLast, Past
    <3>2. CASE tokens' # tokens
      <4> DEFINE row == [tokens[t] EXCEPT !.active = FALSE]
      <4>1. tokens' = [tokens EXCEPT ![t] = row]
        BY <2>2, <3>2
      <4>2. /\ row \in Row
            /\ ~row.active
            /\ row.exists = tokens[t].exists
            /\ row.expiresAt = tokens[t].expiresAt
        BY <1>0, <2>1 DEF Row
      <4> HIDE DEF row
      <4> QED BY <1>0, <2>1, <2>2, <4>1, <4>2 DEF TableInv, RowsLast, Past
    <3> QED BY <3>1, <3>2
  <2> DEFINE q == Validated(req[r], FALSE)
  <2>4. HandlerInv(r)' /\ q \in Handler
    BY <1>0, <1>5, <2>1, <2>2, <2>3, ValidatedType
  <2>5. clock' \in Nat /\ arrived' \in [Tokens -> Nat] /\ accepted' \in [Tokens -> Nat]
    BY <1>0, <2>2 DEF TypeOK
  <2>6. req' = [req EXCEPT ![r] = q]
    BY <2>2
  <2> HIDE DEF q
  <2> QED BY <2>3, <2>4, <2>5, <2>6, OneMoves
<1>10. ASSUME NEW r \in Requests, NEW s \in Steps,
              req' = [req EXCEPT ![r] = [req[r] EXCEPT !.step = s]],
              req[r].step \in Checking \cup {"get"},
              s \in Checking => req[r].step \in Checking,
              ~req[r].dead,
              s \in Checking \cup {"revoke"} => tokens[req[r].token].exists,
              UNCHANGED <<tokens, clock, arrived, accepted>>
       PROVE  TokenInv'
  <2> DEFINE q == [req[r] EXCEPT !.step = s]
  <2>1. /\ q \in Handler /\ q.step = s /\ q.token = req[r].token
        /\ q.copy = req[r].copy /\ q.dead = req[r].dead
    BY <1>0, <1>10 DEF Handler
  <2>2. req' = [req EXCEPT ![r] = q]
    BY <1>10
  <2> HIDE DEF q
  <2>3. HandlerInv(r)'
    BY <1>0, <1>10, <2>1, <2>2 DEF TypeOK, HandlerInv, Checking, Dead
  <2>4. UNCHANGED <<tokens, clock>> /\ arrived' \in [Tokens -> Nat] /\ accepted' \in [Tokens -> Nat]
    BY <1>0, <1>10 DEF TypeOK
  <2> QED BY <1>1, <2>1, <2>2, <2>3, <2>4
<1>11. ASSUME NEW r \in Requests, FindUser(r) PROVE TokenInv'
  <2>1. /\ req[r].step = "user" /\ ~req[r].dead /\ tokens[req[r].token].exists
    BY <1>0, <1>11 DEF FindUser, HandlerInv, Checking
  <2>2. CASE req' = [req EXCEPT ![r] = [req[r] EXCEPT !.step = "count"]]
    BY <1>10, <1>11, <2>1, <2>2 DEF FindUser, Checking, Steps
  <2>3. CASE req' = [req EXCEPT ![r] = Validated(req[r], FALSE)]
    <3>1. /\ UNCHANGED <<tokens, clock>> /\ req[r].step # "idle"
          /\ arrived' \in [Tokens -> Nat] /\ accepted' \in [Tokens -> Nat]
      BY <1>0, <1>11, <2>1 DEF FindUser, TypeOK
    <3> QED BY <1>6, <2>3, <3>1
  <2> QED BY <1>11, <2>2, <2>3 DEF FindUser, Become
<1>12. ASSUME NEW r \in Requests, IncrementUsageCount(r) PROVE TokenInv'
  <2> DEFINE t == req[r].token
             q == [req[r] EXCEPT !.step = "reload"]
  <2>1. /\ t \in Tokens /\ req[r].step = "count" /\ ~req[r].dead /\ tokens[t].exists
        /\ req[r].copy.expiresAt = tokens[t].expiresAt
    BY <1>0, <1>12 DEF IncrementUsageCount, HandlerInv, Checking
  <2>2. CASE /\ tokens' = [tokens EXCEPT ![t].usage = @ + 1]
             /\ req' = [req EXCEPT ![r] = q]
             /\ accepted' = accepted
    <3>1. tokens' = [tokens EXCEPT ![t] = [tokens[t] EXCEPT !.usage = tokens[t].usage + 1]]
      BY <2>2
    <3>2. /\ q \in Handler /\ q.step = "reload" /\ q.token = t
          /\ q.copy = req[r].copy /\ ~q.dead
      BY <1>0, <2>1 DEF Handler, Steps
    <3>3. clock' = clock /\ arrived' = arrived
      BY <1>12 DEF IncrementUsageCount
    <3> HIDE DEF q, t
    <3>4. tokens' \in [Tokens -> Row] /\ TableInv' /\ RowsLast
      BY <1>0, <2>1, <3>1, <3>3 DEF Row, TableInv, RowsLast, Past
    <3>5. HandlerInv(r)'
      BY <1>0, <2>1, <2>2, <3>2, <3>4 DEF TypeOK, HandlerInv, Checking, RowsLast
    <3>6. clock' \in Nat /\ arrived' \in [Tokens -> Nat] /\ accepted' \in [Tokens -> Nat]
      BY <1>0, <2>2, <3>3 DEF TypeOK
    <3> QED BY <2>2, <3>2, <3>4, <3>5, <3>6, OneMoves
  <2>3. CASE /\ accepted' = [accepted EXCEPT ![t] = @ + 1]
             /\ req' = [req EXCEPT ![r] = Validated(req[r], TRUE)]
             /\ tokens' = tokens
    <3>1. UNCHANGED <<tokens, clock>> /\ arrived' \in [Tokens -> Nat] /\ accepted' \in [Tokens -> Nat]
      BY <1>0, <1>12, <2>1, <2>3 DEF IncrementUsageCount, TypeOK
    <3>2. req[r].step # "idle" /\ ~req[r].dead
      BY <2>1
    <3> QED BY <1>6, <2>3, <3>1, <3>2
  <2> QED BY <1>12, <2>2, <2>3 DEF IncrementUsageCount, Become
<1>13. ASSUME NEW r \in Requests, Reload(r) PROVE TokenInv'
  <2>1. /\ UNCHANGED <<tokens, clock>> /\ arrived' = arrived
        /\ accepted' = [accepted EXCEPT ![req[r].token] = @ + 1]
        /\ req' = [req EXCEPT ![r] = Validated(req[r], TRUE)]
        /\ req[r].step = "reload"
    BY <1>13 DEF Reload, Become
  <2>2. req[r].step # "idle" /\ ~req[r].dead /\ req[r].token \in Tokens
    BY <1>0, <2>1 DEF HandlerInv, Checking
  <2>3. arrived' \in [Tokens -> Nat] /\ accepted' \in [Tokens -> Nat]
    BY <1>0, <2>1, <2>2 DEF TypeOK
  <2> QED BY <1>6, <2>1, <2>2, <2>3
<1>14. ASSUME NEW r \in Requests, req' = [req EXCEPT ![r] = NoHandler],
              tokens' \in [Tokens -> Row], TableInv', RowsLast,
              UNCHANGED <<clock, arrived, accepted>>
       PROVE  TokenInv'
  <2> DEFINE q == NoHandler
  <2>1. HandlerInv(r)'
    BY <1>0, <1>14 DEF TypeOK, HandlerInv, NoHandler, Checking
  <2>2. q \in Handler /\ req' = [req EXCEPT ![r] = q]
    BY <1>0, <1>14
  <2>3. clock' \in Nat /\ arrived' \in [Tokens -> Nat] /\ accepted' \in [Tokens -> Nat]
    BY <1>0, <1>14 DEF TypeOK
  <2> HIDE DEF q
  <2> QED BY <1>14, <2>1, <2>2, <2>3, OneMoves
<1>15. ASSUME NEW r \in Requests, req' = [req EXCEPT ![r] = NoHandler],
              UNCHANGED <<tokens, clock, arrived, accepted>>
       PROVE  TokenInv'
  <2>1. tokens' \in [Tokens -> Row] /\ TableInv' /\ RowsLast
    BY <1>0, <1>15 DEF TableInv, RowsLast, Past
  <2> QED BY <1>14, <1>15, <2>1
<1>16. ASSUME NEW r \in Requests, NEW t \in Tokens, NEW owner \in BOOLEAN, AskToRevoke(r, t, owner)
       PROVE  TokenInv'
  <2> DEFINE q == [NoHandler EXCEPT !.step = "get", !.token = t, !.owner = owner]
  <2>1. q \in Handler /\ q.step = "get" /\ q.token = t /\ ~q.dead
    BY <1>0 DEF Handler, NoHandler, Steps
  <2>2. req' = [req EXCEPT ![r] = q] /\ UNCHANGED <<tokens, clock>>
    BY <1>16 DEF AskToRevoke, Become
  <2> HIDE DEF q
  <2>3. arrived' \in [Tokens -> Nat] /\ accepted' \in [Tokens -> Nat]
    BY <1>0, <1>16 DEF AskToRevoke, TypeOK
  <2>4. HandlerInv(r)'
    BY <1>0, <2>1, <2>2 DEF TypeOK, HandlerInv, Checking
  <2> QED BY <1>1, <2>1, <2>2, <2>3, <2>4
<1>17. ASSUME NEW r \in Requests, GetTokenByID(r) PROVE TokenInv'
  <2>1. CASE MayRevoke(req[r]) /\ Become(r, [req[r] EXCEPT !.step = "revoke"])
    <3>1. tokens[req[r].token].exists /\ req[r].step = "get" /\ ~req[r].dead
      BY <1>0, <1>17, <2>1 DEF GetTokenByID, MayRevoke, HandlerInv
    <3> QED BY <1>10, <1>17, <2>1, <3>1 DEF GetTokenByID, Become, Checking, Steps
  <2>2. CASE Become(r, NoHandler)
    BY <1>15, <1>17, <2>2 DEF GetTokenByID, Become
  <2> QED BY <1>17, <2>1, <2>2 DEF GetTokenByID
<1>18. ASSUME NEW r \in Requests, RevokeToken(r) PROVE TokenInv'
  <2> DEFINE t == req[r].token
  <2>1. t \in Tokens /\ tokens[t].exists
    BY <1>0, <1>18 DEF RevokeToken, HandlerInv
  <2>2. /\ \/ tokens' = [tokens EXCEPT ![t] = [tokens[t] EXCEPT !.active = FALSE, !.revokedAt = clock]]
           \/ tokens' = tokens
        /\ req' = [req EXCEPT ![r] = NoHandler]
        /\ UNCHANGED <<clock, arrived, accepted>>
    BY <1>18 DEF RevokeToken, Become
  <2> HIDE DEF t
  <2>3. tokens' \in [Tokens -> Row] /\ TableInv' /\ RowsLast
    <3>1. CASE tokens' = tokens
      BY <1>0, <2>2, <3>1 DEF TableInv, RowsLast, Past
    <3>2. CASE tokens' # tokens
      <4> DEFINE row == [tokens[t] EXCEPT !.active = FALSE, !.revokedAt = clock]
      <4>1. tokens' = [tokens EXCEPT ![t] = row]
        BY <2>2, <3>2
      <4>2. /\ row \in Row
            /\ ~row.active
            /\ row.exists = tokens[t].exists
            /\ row.expiresAt = tokens[t].expiresAt
        BY <1>0, <2>1 DEF Row
      <4> HIDE DEF row
      <4> QED BY <1>0, <2>1, <2>2, <4>1, <4>2 DEF TableInv, RowsLast, Past
    <3> QED BY <3>1, <3>2
  <2> QED BY <1>14, <2>2, <2>3
<1>19. CASE Crash
  BY <1>0, <1>19, InvBySlotNext
     DEF Crash, TypeOK, TableInv, HandlerInv, NoHandler, Checking
<1>20. CASE Tick
  <2>1. TypeOK' /\ TableInv'
    BY <1>0, <1>20 DEF Tick, TypeOK, TableInv
  <2>2. RowsLast
    BY <1>0, <1>20 DEF Tick, RowsLast, Past, Row
  <2> QED BY <1>0, <1>20, <2>1, <2>2, OthersKeep, InvBySlotNext DEF Tick
<1>21. CASE UNCHANGED vars
  <2>1. TypeOK' /\ TableInv'
    BY <1>0, <1>21 DEF vars, TypeOK, TableInv
  <2>2. RowsLast
    BY <1>0, <1>21 DEF vars, RowsLast, Past
  <2> QED BY <1>0, <1>21, <2>1, <2>2, OthersKeep, InvBySlotNext DEF vars
<1>22. ASSUME NEW r \in Requests, Respond(r) PROVE TokenInv'
  BY <1>15, <1>22 DEF Respond, Become
<1> QED
  BY <1>2, <1>3, <1>4, <1>7, <1>8, <1>9, <1>11, <1>12, <1>13, <1>16, <1>17, <1>18,
     <1>19, <1>20, <1>21, <1>22
     DEF Next, Handle

-----------------------------------------------------------------------------
(* The inductive invariant. *)
THEOREM InvCorrect == Spec => []TokenInv
BY InvInit, InvNext, PTL DEF Spec

(* The types of the variables. *)
THEOREM TypeCorrect == Spec => []TypeOK
<1>1. TokenInv => TypeOK
  BY DEF TokenInv
<1> QED BY <1>1, InvCorrect, PTL

(* A request that arrives with a dead token is never served. *)
THEOREM DeadTokenRefused == Spec => []DeadNeverServed
<1>1. TokenInv => DeadNeverServed
  BY DEF TokenInv, DeadStays, DeadNeverServed
<1> QED BY InvCorrect, <1>1, PTL

(* A revocation on record means an inactive token. *)
THEOREM RevocationHolds == Spec => []RevokedIsInactive
<1>1. TokenInv => RevokedIsInactive
  BY DEF TokenInv
<1> QED BY InvCorrect, <1>1, PTL

(* An inactive token stays inactive. *)
THEOREM InactiveStays == Spec => InactiveForGood
<1> DEFINE Keeps == \A t \in Tokens : tokens[t].exists /\ ~tokens[t].active => ~tokens'[t].active
<1>1. TokenInv /\ [Next]_vars => [Keeps]_tokens
  <2> SUFFICES ASSUME TokenInv, Next, NEW t \in Tokens, tokens[t].exists, ~tokens[t].active
               PROVE  ~tokens'[t].active
    BY DEF vars
  <2>1. TypeOK /\ \A r \in Requests : HandlerInv(r)
    BY InvBySlot
  <2>2. ASSUME NEW u \in Tokens, NEW expiresAt \in {Null} \cup 1 .. MaxTime,
               GenerateToken(u, expiresAt)
        PROVE  ~tokens'[t].active
    BY <2>1, <2>2 DEF GenerateToken, TypeOK
  <2>3. ASSUME NEW r \in Requests, ExpireToken(r) \/ IncrementUsageCount(r) \/ RevokeToken(r)
        PROVE  ~tokens'[t].active
    <3>1. CASE ExpireToken(r)
      BY <2>1, <3>1 DEF ExpireToken, TypeOK, Row, HandlerInv
    <3>2. CASE IncrementUsageCount(r)
      BY ZenonT(60), <2>1, <3>2 DEF IncrementUsageCount, TypeOK, Row, HandlerInv
    <3>3. CASE RevokeToken(r)
      BY <2>1, <3>3 DEF RevokeToken, TypeOK, Row, HandlerInv
    <3> QED BY <2>3, <3>1, <3>2, <3>3
  <2>4. CASE UNCHANGED tokens
    BY <2>4
  <2> QED
    BY <2>2, <2>3, <2>4
       DEF Next, Handle, Arrive, Find, FindNothing, Check, FindUser, Reload, Respond,
           AskToRevoke, GetTokenByID, Crash, Tick
<1> QED BY InvCorrect, <1>1, PTL DEF Spec, InactiveForGood

-----------------------------------------------------------------------------
(* Counting uses. *)

LEMMA CountedStays ==
  ASSUME TypeOK, NEW r \in Requests, NEW q \in Handler,
         req' = [req EXCEPT ![r] = q], NEW t \in Tokens,
         (req[r].step = "reload" /\ req[r].token = t) <=> (q.step = "reload" /\ q.token = t)
  PROVE  Counted(t)' = Counted(t)
BY DEF Counted, TypeOK

LEMMA CountedFinite ==
  ASSUME NEW t
  PROVE  IsFiniteSet(Counted(t)) /\ Cardinality(Counted(t)) \in Nat
<1>1. Counted(t) \in SUBSET Requests
  BY DEF Counted
<1> QED BY <1>1, ApiTokensConstants, FS_Subset, FS_CardinalityType

(* A step that neither counts a use nor accepts a token. *)
LEMMA NothingCounted ==
  ASSUME TypeOK, UseInv, NEW r \in Requests, NEW q \in Handler,
         req' = [req EXCEPT ![r] = q],
         req[r].step # "reload", q.step # "reload",
         accepted' = accepted,
         \A t \in Tokens : /\ tokens'[t].usage = tokens[t].usage
                           /\ tokens[t].exists => tokens'[t].exists
  PROVE  UseInv'
<1>1. \A t \in Tokens : Counted(t)' = Counted(t)
  BY CountedStays
<1>2. UnusedUntilIssued'
  BY DEF UseInv, UnusedUntilIssued
<1>3. NoUseLost'
  BY <1>1 DEF UseInv, NoUseLost
<1> QED BY <1>2, <1>3 DEF UseInv

LEMMA UseInit == Init => UseInv
<1> SUFFICES ASSUME Init PROVE UseInv
  OBVIOUS
<1>1. \A t \in Tokens : Counted(t) = {}
  BY DEF Init, Counted, NoHandler
<1>2. \A t \in Tokens : tokens[t].usage = 0 /\ accepted[t] = 0
  BY DEF Init, NoRow
<1> QED BY <1>1, <1>2, FS_EmptySet DEF UseInv, UnusedUntilIssued, NoUseLost

LEMMA UseNext ==
  ASSUME TokenInv, UseInv, [Next]_vars
  PROVE  UseInv'
<1>0. /\ TypeOK /\ TableInv
      /\ \A r \in Requests : HandlerInv(r) /\ req[r] \in Handler
      /\ NoHandler \in Handler /\ NoRow \in Row
      /\ NoHandler.step = "idle"
  BY InvBySlot, NoHandlerType DEF TypeOK, NoHandler
<1> USE <1>0
<1>1. ASSUME UNCHANGED <<req, accepted>>,
             \A t \in Tokens : /\ tokens'[t].usage = tokens[t].usage
                               /\ tokens[t].exists => tokens'[t].exists
      PROVE  UseInv'
  <2>1. \A t \in Tokens : Counted(t)' = Counted(t)
    BY <1>1 DEF Counted
  <2>2. UnusedUntilIssued'
    BY <1>1 DEF UseInv, UnusedUntilIssued
  <2>3. NoUseLost'
    BY <1>1, <2>1 DEF UseInv, NoUseLost
  <2> QED BY <2>2, <2>3 DEF UseInv
<1>2. ASSUME NEW t \in Tokens, NEW expiresAt \in {Null} \cup 1 .. MaxTime,
             GenerateToken(t, expiresAt)
      PROVE  UseInv'
  <2> DEFINE row == [NoRow EXCEPT !.exists = TRUE, !.active = TRUE, !.expiresAt = expiresAt]
  <2>1. row.usage = 0 /\ row.exists
    BY DEF NoRow
  <2>2. tokens' = [tokens EXCEPT ![t] = row] /\ UNCHANGED <<req, accepted>> /\ ~tokens[t].exists
    BY <1>2 DEF GenerateToken
  <2>3. tokens[t].usage = 0
    BY <2>2 DEF UseInv, UnusedUntilIssued
  <2> HIDE DEF row
  <2>4. \A u \in Tokens : /\ tokens'[u].usage = tokens[u].usage
                          /\ tokens[u].exists => tokens'[u].exists
    BY <2>1, <2>2, <2>3 DEF TypeOK
  <2> QED BY <1>1, <2>2, <2>4
(* The steps of a slot that leave the table alone and count nothing. *)
<1>3. ASSUME NEW r \in Requests, NEW q \in Handler, req' = [req EXCEPT ![r] = q],
             UNCHANGED <<tokens, accepted>>,
             req[r].step # "reload", q.step # "reload"
      PROVE  UseInv'
  BY <1>3, NothingCounted
<1>4. ASSUME NEW r \in Requests, NEW t \in Tokens, Arrive(r, t)
      PROVE  UseInv'
  <2> DEFINE q == [NoHandler EXCEPT
       !.step = "find", !.phase = IF Analytics THEN "extract" ELSE "route",
       !.token = t, !.dead = Dead(t)]
  <2>1. q \in Handler /\ q.step = "find"
    BY DEF Handler, Steps, NoHandler, Dead
  <2>2. req' = [req EXCEPT ![r] = q] /\ req[r].step = "idle" /\ UNCHANGED <<tokens, accepted>>
    BY <1>4 DEF Arrive, Become
  <2> QED BY <1>3, <2>1, <2>2
<1>5. ASSUME NEW r \in Requests, NEW t \in Tokens, NEW owner \in BOOLEAN,
             AskToRevoke(r, t, owner)
      PROVE  UseInv'
  <2> DEFINE q == [NoHandler EXCEPT !.step = "get", !.token = t, !.owner = owner]
  <2>1. q \in Handler /\ q.step = "get"
    BY DEF Handler, Steps, NoHandler
  <2>2. req' = [req EXCEPT ![r] = q] /\ req[r].step = "idle" /\ UNCHANGED <<tokens, accepted>>
    BY <1>5 DEF AskToRevoke, Become
  <2> QED BY <1>3, <2>1, <2>2
<1>6. ASSUME NEW r \in Requests, Find(r) PROVE UseInv'
  <2> DEFINE q == [req[r] EXCEPT !.step = "check", !.copy = tokens[req[r].token]]
  <2>1. req[r].step = "find" /\ req[r].token \in Tokens
    BY <1>6 DEF Find, HandlerInv
  <2>2. q \in Handler /\ q.step = "check"
    BY <2>1 DEF Handler, Steps, TypeOK
  <2>3. req' = [req EXCEPT ![r] = q] /\ UNCHANGED <<tokens, accepted>>
    BY <1>6 DEF Find, Become
  <2> QED BY <1>3, <2>1, <2>2, <2>3
<1>7. ASSUME NEW r \in Requests, FindNothing(r) PROVE UseInv'
  <2>1. Validated(req[r], FALSE) \in Handler /\ Validated(req[r], FALSE).step # "reload"
    BY ValidatedType
  <2>2. /\ req[r].step = "find" /\ UNCHANGED <<tokens, accepted>>
        /\ req' = [req EXCEPT ![r] = Validated(req[r], FALSE)]
    BY <1>7 DEF FindNothing, Become
  <2> QED BY <1>3, <2>1, <2>2
<1>8. ASSUME NEW r \in Requests, Check(r) PROVE UseInv'
  <2>1. PICK s \in {"expire", "user"} : req' = [req EXCEPT ![r] = [req[r] EXCEPT !.step = s]]
    BY <1>8 DEF Check, Become
  <2>2. [req[r] EXCEPT !.step = s] \in Handler /\ [req[r] EXCEPT !.step = s].step # "reload"
    BY DEF Handler, Steps
  <2>3. req[r].step = "check" /\ UNCHANGED <<tokens, accepted>>
    BY <1>8 DEF Check
  <2> QED BY <1>3, <2>1, <2>2, <2>3
<1>9. ASSUME NEW r \in Requests, ExpireToken(r) PROVE UseInv'
  <2>1. Validated(req[r], FALSE) \in Handler /\ Validated(req[r], FALSE).step # "reload"
    BY ValidatedType
  <2>2. /\ req[r].step = "expire" /\ accepted' = accepted
        /\ req' = [req EXCEPT ![r] = Validated(req[r], FALSE)]
    BY <1>9 DEF ExpireToken, Become
  <2>3. \A t \in Tokens : /\ tokens'[t].usage = tokens[t].usage
                          /\ tokens[t].exists => tokens'[t].exists
    BY <1>9 DEF ExpireToken, TypeOK, Row
  <2> QED BY <2>1, <2>2, <2>3, NothingCounted
<1>10. ASSUME NEW r \in Requests, FindUser(r) PROVE UseInv'
  <2>1. Validated(req[r], FALSE) \in Handler /\ Validated(req[r], FALSE).step # "reload"
    BY ValidatedType
  <2>2. [req[r] EXCEPT !.step = "count"] \in Handler
        /\ [req[r] EXCEPT !.step = "count"].step # "reload"
    BY DEF Handler, Steps
  <2>3. /\ req[r].step = "user" /\ UNCHANGED <<tokens, accepted>>
        /\ \/ req' = [req EXCEPT ![r] = Validated(req[r], FALSE)]
           \/ req' = [req EXCEPT ![r] = [req[r] EXCEPT !.step = "count"]]
    BY <1>10 DEF FindUser, Become
  <2>4. CASE req' = [req EXCEPT ![r] = Validated(req[r], FALSE)]
    BY <1>3, <2>1, <2>3, <2>4
  <2>5. CASE req' = [req EXCEPT ![r] = [req[r] EXCEPT !.step = "count"]]
    BY <1>3, <2>2, <2>3, <2>5
  <2> QED BY <2>3, <2>4, <2>5
(* A use is counted: the slot joins those that have counted.               *)
<1>11. ASSUME NEW r \in Requests, IncrementUsageCount(r) PROVE UseInv'
  <2> DEFINE q == [req[r] EXCEPT !.step = "reload"]
  <2>1. PICK t \in Tokens : t = req[r].token /\ req[r].step = "count" /\ tokens[t].exists
    BY <1>11 DEF IncrementUsageCount, HandlerInv, Checking
  <2>2. UnusedUntilIssued'
    BY ZenonT(60), <1>11, <2>1 DEF IncrementUsageCount, UseInv, UnusedUntilIssued, TypeOK, Row
  <2>3. ASSUME ~DBFaults, ~Crashes
        PROVE  \A u \in Tokens : tokens'[u].usage = accepted'[u] + Cardinality(Counted(u)')
    <3>1. /\ req' = [req EXCEPT ![r] = q] /\ accepted' = accepted
          /\ tokens' = [tokens EXCEPT ![t].usage = @ + 1]
      BY <1>11, <2>1, <2>3 DEF IncrementUsageCount, Become
    <3>2. q \in Handler /\ q.step = "reload" /\ q.token = t
      BY <2>1 DEF Handler, Steps
    <3>3. \A u \in Tokens : tokens[u].usage = accepted[u] + Cardinality(Counted(u))
      BY <2>3 DEF UseInv, NoUseLost
    <3>4. /\ tokens'[t].usage = tokens[t].usage + 1
          /\ \A u \in Tokens : u # t => tokens'[u].usage = tokens[u].usage
      BY <2>1, <3>1 DEF TypeOK, Row
    <3> HIDE DEF q
    <3>5. ASSUME NEW u \in Tokens, u # t PROVE Counted(u)' = Counted(u)
      BY <2>1, <3>1, <3>2, <3>5, CountedStays
    <3>6. r \notin Counted(t) /\ Counted(t)' = Counted(t) \cup {r}
      BY <2>1, <3>1, <3>2 DEF Counted, TypeOK
    <3>7. Cardinality(Counted(t)') = Cardinality(Counted(t)) + 1
      BY <3>6, CountedFinite, FS_AddElement
    <3>8. Cardinality(Counted(t)) \in Nat /\ accepted[t] \in Nat
      BY <2>1, CountedFinite DEF TypeOK
    <3>9. tokens'[t].usage = accepted'[t] + Cardinality(Counted(t)')
      BY <2>1, <3>1, <3>3, <3>4, <3>7, <3>8
    <3>10. ASSUME NEW u \in Tokens, u # t
           PROVE  tokens'[u].usage = accepted'[u] + Cardinality(Counted(u)')
      BY <3>1, <3>3, <3>4, <3>5, <3>10
    <3> QED BY <3>9, <3>10
  <2> QED BY <2>2, <2>3 DEF UseInv, NoUseLost
(* The token is accepted: the slot leaves those that have counted.         *)
<1>12. ASSUME NEW r \in Requests, Reload(r) PROVE UseInv'
  <2> DEFINE q == Validated(req[r], TRUE)
  <2>1. PICK t \in Tokens :
        /\ req[r].step = "reload" /\ t = req[r].token /\ tokens' = tokens
        /\ req' = [req EXCEPT ![r] = q]
        /\ accepted' = [accepted EXCEPT ![t] = @ + 1]
    BY <1>12 DEF Reload, HandlerInv, Become
  <2>2. q \in Handler /\ q.step # "reload"
    BY ValidatedType
  <2> HIDE DEF q
  <2>3. UnusedUntilIssued'
    BY <2>1 DEF UseInv, UnusedUntilIssued
  <2>4. ASSUME ~DBFaults, ~Crashes
        PROVE  \A u \in Tokens : tokens'[u].usage = accepted'[u] + Cardinality(Counted(u)')
    <3>1. \A u \in Tokens : tokens[u].usage = accepted[u] + Cardinality(Counted(u))
      BY <2>4 DEF UseInv, NoUseLost
    <3>2. /\ accepted'[t] = accepted[t] + 1
          /\ \A u \in Tokens : u # t => accepted'[u] = accepted[u]
      BY <2>1 DEF TypeOK
    <3>3. ASSUME NEW u \in Tokens, u # t PROVE Counted(u)' = Counted(u)
      BY <2>1, <2>2, <3>3, CountedStays
    <3>4. r \in Counted(t) /\ Counted(t)' = Counted(t) \ {r}
      BY <2>1, <2>2 DEF Counted, TypeOK
    <3>5. Cardinality(Counted(t)') = Cardinality(Counted(t)) - 1
      BY <3>4, CountedFinite, FS_RemoveElement
    <3>6. Cardinality(Counted(t)) \in Nat /\ accepted[t] \in Nat
      BY <2>1, CountedFinite DEF TypeOK
    <3>7. tokens'[t].usage = accepted'[t] + Cardinality(Counted(t)')
      BY <2>1, <3>1, <3>2, <3>5, <3>6
    <3>8. ASSUME NEW u \in Tokens, u # t
          PROVE  tokens'[u].usage = accepted'[u] + Cardinality(Counted(u)')
      BY <2>1, <3>1, <3>2, <3>3, <3>8
    <3> QED BY <3>7, <3>8
  <2> QED BY <2>3, <2>4 DEF UseInv, NoUseLost
<1>13. ASSUME NEW r \in Requests, Respond(r) PROVE UseInv'
  <2>1. /\ req' = [req EXCEPT ![r] = NoHandler] /\ UNCHANGED <<tokens, accepted>>
        /\ req[r].step = "serve"
    BY <1>13 DEF Respond, Become
  <2> QED BY <1>3, <2>1
<1>14. ASSUME NEW r \in Requests, GetTokenByID(r) PROVE UseInv'
  <2>1. [req[r] EXCEPT !.step = "revoke"] \in Handler
        /\ [req[r] EXCEPT !.step = "revoke"].step # "reload"
    BY DEF Handler, Steps
  <2>2. /\ req[r].step = "get" /\ UNCHANGED <<tokens, accepted>>
        /\ \/ req' = [req EXCEPT ![r] = NoHandler]
           \/ req' = [req EXCEPT ![r] = [req[r] EXCEPT !.step = "revoke"]]
    BY <1>14 DEF GetTokenByID, Become
  <2>3. CASE req' = [req EXCEPT ![r] = NoHandler]
    BY <1>3, <2>2, <2>3
  <2>4. CASE req' = [req EXCEPT ![r] = [req[r] EXCEPT !.step = "revoke"]]
    BY <1>3, <2>1, <2>2, <2>4
  <2> QED BY <2>2, <2>3, <2>4
<1>15. ASSUME NEW r \in Requests, RevokeToken(r) PROVE UseInv'
  <2>1. /\ req' = [req EXCEPT ![r] = NoHandler] /\ accepted' = accepted
        /\ req[r].step = "revoke"
    BY <1>15 DEF RevokeToken, Become
  <2>2. \A t \in Tokens : /\ tokens'[t].usage = tokens[t].usage
                          /\ tokens[t].exists => tokens'[t].exists
    <3>1. req[r].token \in Tokens /\ tokens[req[r].token] \in Row
      BY <1>15 DEF RevokeToken, HandlerInv, TypeOK
    <3>2. \A row \in Row : /\ [row EXCEPT !.active = FALSE, !.revokedAt = clock].usage = row.usage
                           /\ [row EXCEPT !.active = FALSE, !.revokedAt = clock].exists = row.exists
      BY DEF Row
    <3> QED BY <1>15, <3>1, <3>2 DEF RevokeToken, TypeOK
  <2> QED BY <2>1, <2>2, NothingCounted
<1>16. CASE Crash
  <2>1. UnusedUntilIssued'
    BY <1>16 DEF Crash, UseInv, UnusedUntilIssued
  <2> QED BY <1>16, <2>1 DEF Crash, UseInv, NoUseLost
<1>17. CASE Tick \/ UNCHANGED vars
  <2>1. UNCHANGED <<tokens, req, accepted>>
    BY <1>17 DEF Tick, vars
  <2> QED BY <1>1, <2>1
<1>18. ASSUME NEW r \in Requests, Handle(r) PROVE UseInv'
  BY <1>6, <1>7, <1>8, <1>9, <1>10, <1>11, <1>12, <1>13, <1>14, <1>15, <1>18 DEF Handle
<1> QED BY <1>2, <1>4, <1>5, <1>16, <1>17, <1>18 DEF Next

(* Without faults and crashes no use of a token is lost: the count in the  *)
(* table is the number of validations that accepted it or are about to,    *)
(* however many requests use it at once.                                   *)
THEOREM NoUseIsLost == Spec => []NoUseLost
<1>1. UseInv => NoUseLost
  BY DEF UseInv
<1> QED BY InvInit, InvNext, UseInit, UseNext, <1>1, PTL DEF Spec
=============================================================================
