------------------------- MODULE SessionStoreProofs -------------------------
(* Theorems of SessionStore, for every set of tokens and request slots. *)
EXTENDS SessionStore, TLAPS

USE SessionStoreConstants

-----------------------------------------------------------------------------
(* Types first: every handler step leaves a row a row and a slot a handler. *)

LEMMA ValidatedType ==
  ASSUME NEW q \in Handler, NEW accepted \in BOOLEAN
  PROVE  Validated(q, accepted) \in Handler
BY ZenonT(60) DEF Validated, At, AfterAccept, AfterReject, RouteEntry, Handler, NoHandler,
       NoRow, Row, Routes, Steps

LEMMA NoHandlerType == NoHandler \in Handler
BY DEF Handler, NoHandler, NoRow, Row, Routes, Steps

LEMMA TypeInit == Init => TypeOK
BY NoHandlerType DEF Init, TypeOK, Row, NoRow

LEMMA TypeNext == TypeOK /\ [Next]_vars => TypeOK'
<1> SUFFICES ASSUME TypeOK, [Next]_vars PROVE TypeOK'
  OBVIOUS
<1> USE NoHandlerType DEF TypeOK
<1>1. ASSUME NEW r \in Requests, NEW route \in Routes, NEW t \in Tokens \cup {NoToken},
             Arrive(r, route, t)
      PROVE  TypeOK'
  <2>1. req'[r] \in Handler
    BY <1>1 DEF Arrive, Become, Handler, RouteEntry, Routes, Steps, Row, NoRow, Ended, Expired
  <2> QED BY <1>1, <2>1 DEF Arrive, Become
<1>2. ASSUME NEW r \in Requests, Find(r) PROVE TypeOK'
  BY ZenonT(60), <1>2 DEF Find, Become, Handler, Steps
<1>3. ASSUME NEW r \in Requests, FindNothing(r) PROVE TypeOK'
  BY <1>3, ValidatedType DEF FindNothing, Become
<1>4. ASSUME NEW r \in Requests, Check(r) PROVE TypeOK'
  BY <1>4 DEF Check, Become, Handler, Steps
<1>5. ASSUME NEW r \in Requests, Save(r) PROVE TypeOK'
  <2>1. req' \in [Requests -> Handler]
    BY <1>5, ValidatedType DEF Save, Become
  <2>2. sessions' \in [Tokens -> Row]
    BY <1>5 DEF Save, Handler
  <2> QED BY <1>5, <2>1, <2>2 DEF Save
<1>6. ASSUME NEW t \in Tokens \cup {NoToken}, CloseSession(t)
      PROVE  sessions' \in [Tokens -> Row]
  BY <1>6 DEF CloseSession, Row
<1>7. ASSUME NEW r \in Requests, CloseExpired(r) PROVE TypeOK'
  BY <1>6, <1>7, ValidatedType DEF CloseExpired, Become, Handler
<1>8. ASSUME NEW r \in Requests, EndSession(r) PROVE TypeOK'
  BY <1>6, <1>8 DEF EndSession, Become, Handler
<1>9. ASSUME NEW r \in Requests, NEW t \in Tokens, NEW isAdmin \in BOOLEAN,
             NewSession(r, t, isAdmin)
      PROVE  TypeOK'
  BY <1>9 DEF NewSession, Become, Row
<1>10. ASSUME NEW r \in Requests, LoginFails(r) \/ Respond(r) PROVE TypeOK'
  BY <1>10 DEF LoginFails, Respond, Become
<1>11. CASE Crash
  BY <1>11 DEF Crash
<1>12. CASE Tick
  BY <1>12 DEF Tick
<1>13. CASE UNCHANGED vars
  BY <1>13 DEF vars
<1> QED
  BY <1>1, <1>2, <1>3, <1>4, <1>5, <1>7, <1>8, <1>9, <1>10, <1>11, <1>12, <1>13
     DEF Next, Handle

(* The variables keep their types: rows are rows, handlers are handlers. *)
THEOREM TypeCorrect == Spec => []TypeOK
BY TypeInit, TypeNext, PTL DEF Spec

-----------------------------------------------------------------------------
(* What a validation that ends leaves behind: it is in none of the steps   *)
(* that hold a copy, and it lets the request in only if it accepted.       *)

LEMMA ValidatedStep ==
  ASSUME NEW q \in Handler, NEW accepted \in BOOLEAN
  PROVE  /\ Validated(q, accepted).step \notin {"check", "save", "closeExpired"}
         /\ Validated(q, accepted).token \in {q.token, NoToken}
         /\ Validated(q, accepted).late => q.late
         /\ Validated(q, accepted).hopeless => q.hopeless
         /\ Validated(q, accepted).late \/ Validated(q, accepted).hopeless =>
              Validated(q, accepted).token = q.token
         /\ (/\ Validated(q, accepted).step = "serve"
             /\ Validated(q, accepted).route # "public") =>
              /\ accepted
              /\ Validated(q, accepted).token = q.token
              /\ Validated(q, accepted).route = "dashboard" => q.copy.isAdmin
BY DEF Validated, At, AfterAccept, AfterReject, RouteEntry, Handler, NoHandler,
       NoRow, Row, Routes, Steps

-----------------------------------------------------------------------------
(* The invariant, one handler at a time. *)
HandlerInv(r) ==
  LET q == req[r] IN
  /\ q.step \in {"check", "save"} =>
       /\ q.token \in Tokens
       /\ sessions[q.token].state # "none"
       /\ q.copy.state = "open"
       /\ q.copy.isAdmin = sessions[q.token].isAdmin
       /\ q.copy.validUntil = sessions[q.token].validUntil
  /\ q.late => q.token \in Tokens /\ Expired(q.token) /\ q.step # "save"
  /\ q.hopeless => q.token \in Tokens /\ Ended(q.token)
  /\ Admitted(r) =>
       /\ q.token \in Tokens
       /\ sessions[q.token].state # "none"
       /\ ~q.late
       /\ ~q.hopeless
       /\ q.route = "dashboard" => sessions[q.token].isAdmin

LEMMA InvByHandler == SessionInv <=> TypeOK /\ \A r \in Requests : HandlerInv(r)
BY DEF SessionInv, HandlerInv, CopiesMatch, HistoryHolds, AdmittedTokens,
   ExpiredNeverAdmitted, EndedNeverAdmitted, DashboardForAdmins, Admitted

(* What every step owes to the handlers it does not move: issued rows keep *)
(* their user and their validity, and the past stays past.                 *)
RowsLast ==
  \A t \in Tokens :
    /\ sessions[t].state # "none" =>
         /\ sessions'[t].state # "none"
         /\ sessions'[t].isAdmin = sessions[t].isAdmin
         /\ sessions'[t].validUntil = sessions[t].validUntil
    /\ Expired(t) => Expired(t)'
    /\ Ended(t) => Ended(t)'

LEMMA OthersKeep ==
  ASSUME NEW r \in Requests, HandlerInv(r), req'[r] = req[r], RowsLast
  PROVE  HandlerInv(r)'
BY DEF HandlerInv, RowsLast, Admitted

(* Ended survives a step that changes no ended row and hands no copy of an *)
(* ended session to a handler.                                             *)
LEMMA EndedLasts ==
  ASSUME TypeOK, NEW r \in Requests, NEW q \in Handler,
         req' = [req EXCEPT ![r] = q],
         NEW t \in Tokens, Ended(t),
         sessions'[t].state = "closed",
         ~HoldsCopy(q, t)
  PROVE  Ended(t)'
BY DEF TypeOK, Ended

(* A handler that holds no copy, is late or hopeless only if it was, and   *)
(* is let in only as the third hypothesis says, satisfies its invariant.   *)
LEMMA MoverKeeps ==
  ASSUME TypeOK, NEW r \in Requests, HandlerInv(r), RowsLast,
         NEW q \in Handler, req' = [req EXCEPT ![r] = q],
         q.step \notin {"check", "save"},
         q.late => req[r].late /\ q.token = req[r].token,
         q.hopeless => req[r].hopeless /\ q.token = req[r].token,
         ~(q.step = "serve" /\ q.route # "public")
  PROVE  HandlerInv(r)'
BY DEF TypeOK, HandlerInv, RowsLast, Admitted

LEMMA InvInit == Init => SessionInv
<1> SUFFICES ASSUME Init PROVE TypeOK /\ \A r \in Requests : HandlerInv(r)
  BY InvByHandler
<1> QED
  BY TypeInit DEF Init, HandlerInv, Admitted, NoHandler

-----------------------------------------------------------------------------
LEMMA InvStep ==
  ASSUME SessionInv, [Next]_vars
  PROVE  SessionInv' /\ RowsLast
<1>t. TypeOK'
  BY TypeNext DEF SessionInv
<1> SUFFICES RowsLast /\ \A r \in Requests : HandlerInv(r)'
  BY <1>t DEF SessionInv, HandlerInv, CopiesMatch, HistoryHolds, AdmittedTokens,
     ExpiredNeverAdmitted, EndedNeverAdmitted, DashboardForAdmins, Admitted
<1>0. /\ TypeOK /\ TypeOK'
      /\ \A r \in Requests : HandlerInv(r) /\ req[r] \in Handler
  BY InvByHandler, TypeNext DEF TypeOK
<1> USE <1>0
<1>1. ASSUME NEW r \in Requests, NEW route \in Routes, NEW t \in Tokens \cup {NoToken},
             Arrive(r, route, t)
      PROVE  RowsLast /\ \A s \in Requests : HandlerInv(s)'
  <2>1. PICK q \in Handler :
          /\ req' = [req EXCEPT ![r] = q]
          /\ q.step \in {"find", "serve", "end", "credentials"}
          /\ q.step = "serve" => q.route = "public"
          /\ q.late => q.token \in Tokens /\ Expired(q.token)
          /\ q.hopeless => q.token \in Tokens /\ Ended(q.token)
    <3>1. DEFINE q == [step |-> IF Analytics THEN "find" ELSE RouteEntry(route),
                phase |-> IF Analytics THEN "extract" ELSE "route",
                route |-> route, token |-> t, copy |-> NoRow,
                late |-> t \in Tokens /\ Expired(t),
                hopeless |-> t \in Tokens /\ Ended(t)]
    <3>2. q \in Handler
      BY DEF Handler, RouteEntry, Routes, Steps, Row, NoRow, Expired, Ended
    <3> QED BY <1>1, <3>2 DEF Arrive, Become, RouteEntry, Routes
  <2>2. RowsLast
    BY <1>1, <2>1, EndedLasts DEF Arrive, RowsLast, Expired, HoldsCopy, Ended
  <2>3. HandlerInv(r)'
    BY <2>1, <2>2 DEF HandlerInv, Admitted, RowsLast, TypeOK
  <2> QED BY <2>1, <2>2, <2>3, OthersKeep DEF TypeOK
<1>2. ASSUME NEW r \in Requests, Find(r) PROVE RowsLast /\ \A s \in Requests : HandlerInv(s)'
  <2> DEFINE q == [req[r] EXCEPT !.step = "check", !.copy = sessions[req[r].token]]
  <2>1. req' = [req EXCEPT ![r] = q] /\ q \in Handler
    BY <1>2 DEF Find, Become, Handler, Steps, TypeOK
  <2>2. RowsLast
    BY <1>2, <2>1, EndedLasts DEF Find, RowsLast, Expired, HoldsCopy, Ended
  <2>3. HandlerInv(r)'
    BY <1>2, <2>1, <2>2 DEF Find, HandlerInv, Admitted, RowsLast, TypeOK, Handler
  <2> QED BY <2>1, <2>2, <2>3, OthersKeep DEF TypeOK
<1>3. ASSUME NEW r \in Requests, FindNothing(r) PROVE RowsLast /\ \A s \in Requests : HandlerInv(s)'
  <2> DEFINE q == Validated(req[r], FALSE)
  <2>1. req' = [req EXCEPT ![r] = q] /\ q \in Handler
    BY <1>3, ValidatedType DEF FindNothing, Become
  <2>a. \A t \in Tokens : ~HoldsCopy(q, t)
    BY ValidatedStep DEF HoldsCopy
  <2>b. sessions' = sessions /\ clock' = clock
    BY <1>3 DEF FindNothing
  <2>2. RowsLast
    <3>1. \A t \in Tokens : Ended(t) => Ended(t)'
      BY <2>1, <2>a, <2>b, EndedLasts DEF Ended
    <3> QED BY <2>b, <3>1 DEF RowsLast, Expired
  <2>3. HandlerInv(r)'
    BY <2>1, <2>2, ValidatedStep, MoverKeeps
  <2> QED BY <2>1, <2>2, <2>3, OthersKeep DEF TypeOK
<1>4. ASSUME NEW r \in Requests, Check(r) PROVE RowsLast /\ \A s \in Requests : HandlerInv(s)'
  <2>1. PICK q \in Handler :
          /\ req' = [req EXCEPT ![r] = q]
          /\ q = [req[r] EXCEPT !.step = q.step]
          /\ \/ q.step = "closeExpired"
             \/ q.step = "save" /\ ~(req[r].copy.validUntil < clock)
    <3>1. /\ [req[r] EXCEPT !.step = "closeExpired"] \in Handler
          /\ [req[r] EXCEPT !.step = "save"] \in Handler
      BY DEF Handler, Steps
    <3> QED BY <1>4, <3>1 DEF Check, Become, Handler
  <2>2. RowsLast
    BY <1>4, <2>1, EndedLasts DEF Check, RowsLast, Expired, HoldsCopy, Ended, Handler
  <2>3. HandlerInv(r)'
    BY <1>4, <2>1, <2>2 DEF Check, HandlerInv, Admitted, RowsLast, TypeOK, Handler, Expired
  <2> QED BY <2>1, <2>2, <2>3, OthersKeep DEF TypeOK
<1>5. ASSUME NEW r \in Requests, Save(r) PROVE RowsLast /\ \A s \in Requests : HandlerInv(s)'
  <2> DEFINE q == Validated(req[r], TRUE)
  <2>1. req' = [req EXCEPT ![r] = q] /\ q \in Handler
    BY <1>5, ValidatedType DEF Save, Become
  <2>2. RowsLast
    <3>1. HoldsCopy(req[r], req[r].token) /\ req[r].token \in Tokens /\ ~Ended(req[r].token)
      BY <1>5 DEF Save, HoldsCopy, HandlerInv, Ended
    <3>2. \A t \in Tokens : Ended(t) => sessions'[t] = sessions[t]
      BY <1>5, <3>1 DEF Save, TypeOK
    <3>3. \A t \in Tokens : Ended(t) => Ended(t)'
      <4>1. \A t \in Tokens : ~HoldsCopy(q, t)
        BY ValidatedStep DEF HoldsCopy
      <4>2. \A t \in Tokens : Ended(t) => sessions'[t].state = "closed"
        BY <3>2 DEF Ended
      <4> QED BY <2>1, <4>1, <4>2, EndedLasts
    <3> QED BY <1>5, <3>3 DEF Save, RowsLast, Expired, HandlerInv, TypeOK
  <2>3. HandlerInv(r)'
    <3>1. ~req[r].late /\ ~req[r].hopeless
      BY <1>5 DEF Save, HandlerInv, Ended, HoldsCopy
    <3>2. /\ q.step \notin {"check", "save"}
          /\ ~q.late /\ ~q.hopeless
          /\ q.step = "serve" /\ q.route # "public" =>
               /\ q.token = req[r].token
               /\ q.route = "dashboard" => req[r].copy.isAdmin
      BY <3>1, ValidatedStep
    <3>3. /\ req[r].token \in Tokens
          /\ sessions'[req[r].token].state # "none"
          /\ req[r].copy.isAdmin = sessions'[req[r].token].isAdmin
      BY <1>5, <2>2 DEF Save, HandlerInv, RowsLast
    <3> HIDE DEF q
    <3>4. req'[r] = q
      BY <2>1 DEF TypeOK
    <3> QED
      BY <3>2, <3>3, <3>4 DEF HandlerInv, Admitted
  <2> QED BY <2>1, <2>2, <2>3, OthersKeep DEF TypeOK
<1>6. ASSUME NEW t \in Tokens \cup {NoToken}, CloseSession(t) \/ UNCHANGED sessions,
             UNCHANGED clock, NEW r \in Requests, NEW q \in Handler,
             req' = [req EXCEPT ![r] = q], q.step \notin {"check", "save"}
      PROVE  RowsLast
  BY <1>6, EndedLasts DEF CloseSession, RowsLast, Expired, HoldsCopy, Ended, TypeOK, Row
<1>7. ASSUME NEW r \in Requests, CloseExpired(r) PROVE RowsLast /\ \A s \in Requests : HandlerInv(s)'
  <2> DEFINE q == Validated(req[r], FALSE)
  <2>1. req' = [req EXCEPT ![r] = q] /\ q \in Handler
    BY <1>7, ValidatedType DEF CloseExpired, Become
  <2>2. RowsLast
    BY ZenonT(60), <1>6, <1>7, <2>1, ValidatedStep DEF CloseExpired, Handler
  <2>3. HandlerInv(r)'
    BY <2>1, <2>2, ValidatedStep, MoverKeeps
  <2> QED BY <2>1, <2>2, <2>3, OthersKeep DEF TypeOK
<1> DEFINE Leave(r) == req' = [req EXCEPT ![r] = NoHandler]
<1>8. ASSUME NEW r \in Requests, Leave(r), RowsLast PROVE RowsLast /\ \A s \in Requests : HandlerInv(s)'
  <2>1. HandlerInv(r)'
    BY <1>8, NoHandlerType DEF HandlerInv, Admitted, NoHandler, TypeOK
  <2> QED BY <1>8, <2>1, OthersKeep DEF TypeOK
<1>9. ASSUME NEW r \in Requests, EndSession(r) PROVE RowsLast /\ \A s \in Requests : HandlerInv(s)'
  <2>1. RowsLast
    BY <1>6, <1>9, NoHandlerType DEF EndSession, Become, Handler, NoHandler
  <2> QED BY <1>8, <1>9, <2>1 DEF EndSession, Become
<1>10. ASSUME NEW r \in Requests, NEW t \in Tokens, NEW isAdmin \in BOOLEAN,
             NewSession(r, t, isAdmin)
      PROVE  RowsLast /\ \A s \in Requests : HandlerInv(s)'
  <2>1. RowsLast
    BY <1>10, EndedLasts, NoHandlerType
       DEF NewSession, Become, RowsLast, Expired, HoldsCopy, Ended, NoHandler, TypeOK
  <2> QED BY <1>8, <1>10, <2>1 DEF NewSession, Become
<1>11. ASSUME NEW r \in Requests, LoginFails(r) \/ Respond(r)
       PROVE  RowsLast /\ \A s \in Requests : HandlerInv(s)'
  <2>1. RowsLast
    BY ZenonT(60), <1>11, EndedLasts, NoHandlerType
       DEF LoginFails, Respond, Become, RowsLast, Expired, HoldsCopy, Ended, NoHandler
  <2> QED BY <1>8, <1>11, <2>1 DEF LoginFails, Respond, Become
<1>12. CASE Crash
  <2>1. RowsLast
    BY <1>12 DEF Crash, RowsLast, Expired, Ended, HoldsCopy, NoHandler
  <2>2. \A r \in Requests : HandlerInv(r)'
    BY <1>12 DEF Crash, HandlerInv, Admitted, NoHandler
  <2> QED BY <2>1, <2>2
<1>13. CASE Tick
  <2>1. RowsLast
    BY <1>13 DEF Tick, RowsLast, Expired, Ended, HoldsCopy, TypeOK, Row
  <2> QED BY <1>13, <2>1, OthersKeep DEF Tick
<1>14. CASE UNCHANGED vars
  <2>1. RowsLast
    BY <1>14 DEF vars, RowsLast, Expired, Ended, HoldsCopy
  <2> QED BY <1>14, <2>1, OthersKeep DEF vars
<1> QED
  BY <1>1, <1>2, <1>3, <1>4, <1>5, <1>7, <1>9, <1>10, <1>11, <1>12, <1>13, <1>14
     DEF Next, Handle

LEMMA InvNext == SessionInv /\ [Next]_vars => SessionInv'
BY InvStep

(* The inductive invariant. *)
THEOREM InvCorrect == Spec => []SessionInv
BY InvInit, InvNext, PTL DEF Spec

(* A request that arrives after the expiry of its session is refused.      *)
THEOREM ExpiredRefused == Spec => []ExpiredNeverAdmitted
BY InvCorrect, PTL DEF SessionInv

(* A request that arrives after its session has ended for good is refused. *)
THEOREM EndedRefused == Spec => []EndedNeverAdmitted
BY InvCorrect, PTL DEF SessionInv

(* Only sessions of the admin provider see the dashboard. *)
THEOREM DashboardSafe == Spec => []DashboardForAdmins
BY InvCorrect, PTL DEF SessionInv

-----------------------------------------------------------------------------
(* The refinement of SessionLifecycle.  What a step does to the status of  *)
(* a session: nothing, unless it closes the row or takes the last copy.    *)

LEMMA StatusStays ==
  ASSUME TypeOK, NEW r \in Requests, NEW q \in Handler,
         req' = [req EXCEPT ![r] = q],
         NEW t \in Tokens, sessions'[t].state = sessions[t].state,
         sessions[t].state = "closed" => (HoldsCopy(req[r], t) <=> HoldsCopy(q, t))
  PROVE  StatusOf(t)' = StatusOf(t)
<1>1. sessions[t].state = "closed" => (Ended(t)' <=> Ended(t))
  BY DEF Ended, TypeOK
<1>2. sessions[t].state # "closed" => ~Ended(t)' /\ ~Ended(t)
  BY DEF Ended
<1> QED BY <1>1, <1>2 DEF StatusOf

(* A step that issues nothing and touches the sessions of S only, ends     *)
(* some of them.                                                           *)
LEMMA EndsSome ==
  ASSUME RowsLast, NEW S \in SUBSET Tokens,
         \A t \in Tokens : sessions[t].state = "none" => sessions'[t].state = "none",
         \A t \in Tokens \ S : StatusOf(t)' = StatusOf(t)
  PROVE  Lifecycle!EndSome(S)
<1> DEFINE E == {t \in S : StatusOf(t) = "live" /\ StatusOf(t)' = "ended"}
<1>1. ASSUME NEW t \in Tokens
      PROVE  StatusOf(t)' = IF t \in E THEN "ended" ELSE StatusOf(t)
  <2>1. CASE t \notin S
    BY <2>1
  <2>2. CASE t \in S
    BY <2>2 DEF StatusOf, RowsLast
  <2> QED BY <2>1, <2>2
<1>2. E \in SUBSET {t \in S : [u \in Tokens |-> StatusOf(u)][t] = "live"}
  OBVIOUS
<1> HIDE DEF E
<1>3. [t \in Tokens |-> StatusOf(t)'] =
        [t \in Tokens |-> IF t \in E THEN "ended" ELSE [u \in Tokens |-> StatusOf(u)][t]]
  BY <1>1
<1> QED BY <1>2, <1>3 DEF Lifecycle!EndSome

(* A step of slot r moves what is served in that slot only. *)
LEMMA ServingMoves ==
  ASSUME TypeOK, NEW r \in Requests, NEW q \in Handler,
         req' = [req EXCEPT ![r] = q]
  PROVE  [s \in Requests |-> ServingOf(s)'] =
           [[s \in Requests |-> ServingOf(s)] EXCEPT ![r] = ServingOf(r)']
<1>1. ASSUME NEW s \in Requests, s # r PROVE ServingOf(s)' = ServingOf(s)
  BY <1>1 DEF ServingOf, Admitted, TypeOK
<1> QED BY <1>1

LEMMA ServingStays ==
  ASSUME TypeOK, NEW r \in Requests, NEW q \in Handler,
         req' = [req EXCEPT ![r] = q],
         ServingOf(r)' = ServingOf(r)
  PROVE  [s \in Requests |-> ServingOf(s)'] = [s \in Requests |-> ServingOf(s)]
<1>1. ASSUME NEW s \in Requests PROVE ServingOf(s)' = ServingOf(s)
  BY <1>1 DEF ServingOf, Admitted, TypeOK
<1> QED BY <1>1

(* What the abstract state is after a step. *)
Unmoved ==
  /\ \A t \in Tokens : StatusOf(t)' = StatusOf(t)
  /\ \A r \in Requests : ServingOf(r)' = ServingOf(r)

LEMMA UnmovedIsStutter ==
  ASSUME Unmoved
  PROVE  /\ [t \in Tokens |-> StatusOf(t)'] = [t \in Tokens |-> StatusOf(t)]
         /\ [r \in Requests |-> ServingOf(r)'] = [r \in Requests |-> ServingOf(r)]
BY DEF Unmoved

(* A slot that moves within the steps that neither hold a copy nor serve.  *)
LEMMA QuietMove ==
  ASSUME TypeOK, NEW r \in Requests, NEW q \in Handler,
         req' = [req EXCEPT ![r] = q], sessions' = sessions,
         \A t \in Tokens : sessions[t].state = "closed" =>
           (HoldsCopy(req[r], t) <=> HoldsCopy(q, t)),
         ServingOf(r)' = ServingOf(r)
  PROVE  Unmoved
<1>1. \A t \in Tokens : StatusOf(t)' = StatusOf(t)
  BY StatusStays
<1>2. ASSUME NEW s \in Requests PROVE ServingOf(s)' = ServingOf(s)
  BY <1>2 DEF ServingOf, Admitted, TypeOK
<1> QED BY <1>1, <1>2 DEF Unmoved

(* Each step is one of SessionLifecycle's, or leaves its state alone. *)
LEMMA LifecycleStep ==
  ASSUME SessionInv, [Next]_vars
  PROVE  Lifecycle!LifecycleNext \/ Unmoved
<1>0. /\ TypeOK /\ RowsLast
      /\ \A r \in Requests : HandlerInv(r) /\ req[r] \in Handler
      /\ NoHandler \in Handler
  BY InvByHandler, InvStep, NoHandlerType DEF TypeOK
<1> USE <1>0
<1>1. ASSUME NEW r \in Requests, NEW route \in Routes, NEW t \in Tokens \cup {NoToken},
             Arrive(r, route, t)
      PROVE  Unmoved
  <2>1. PICK q \in Handler :
          /\ req' = [req EXCEPT ![r] = q]
          /\ q.step \in {"find", "serve", "end", "credentials"}
          /\ q.step = "serve" => q.route = "public"
    <3>1. DEFINE q == [step |-> IF Analytics THEN "find" ELSE RouteEntry(route),
                phase |-> IF Analytics THEN "extract" ELSE "route",
                route |-> route, token |-> t, copy |-> NoRow,
                late |-> t \in Tokens /\ Expired(t),
                hopeless |-> t \in Tokens /\ Ended(t)]
    <3>2. q \in Handler
      BY DEF Handler, RouteEntry, Routes, Steps, Row, NoRow, Expired, Ended
    <3> QED BY <1>1, <3>2 DEF Arrive, Become, RouteEntry, Routes
  <2>2. req[r].step = "idle" /\ sessions' = sessions
    BY <1>1 DEF Arrive
  <2>3. ServingOf(r)' = ServingOf(r)
    BY <2>1, <2>2 DEF ServingOf, Admitted, TypeOK
  <2>4. \A u \in Tokens : ~HoldsCopy(req[r], u) /\ ~HoldsCopy(q, u)
    BY <2>1, <2>2 DEF HoldsCopy
  <2> QED BY <2>1, <2>2, <2>3, <2>4, QuietMove
<1>2. ASSUME NEW r \in Requests, Find(r) PROVE Unmoved
  <2> DEFINE q == [req[r] EXCEPT !.step = "check", !.copy = sessions[req[r].token]]
  <2>1. req' = [req EXCEPT ![r] = q] /\ q \in Handler /\ q.step = "check"
        /\ q.token = req[r].token
    BY <1>2 DEF Find, Become, Handler, Steps, TypeOK
  <2>2. /\ req[r].step = "find" /\ sessions' = sessions
        /\ sessions[req[r].token].state = "open"
    BY <1>2 DEF Find
  <2> HIDE DEF q
  <2>3. ServingOf(r)' = ServingOf(r)
    BY <2>1, <2>2 DEF ServingOf, Admitted, TypeOK
  <2>4. \A t \in Tokens : sessions[t].state = "closed" => ~HoldsCopy(req[r], t) /\ ~HoldsCopy(q, t)
    BY <2>1, <2>2 DEF HoldsCopy
  <2> QED BY <2>1, <2>2, <2>3, <2>4, QuietMove
<1>3. ASSUME NEW r \in Requests, FindNothing(r) PROVE Unmoved
  <2> DEFINE q == Validated(req[r], FALSE)
  <2>1. req' = [req EXCEPT ![r] = q] /\ q \in Handler
    BY <1>3, ValidatedType DEF FindNothing, Become
  <2>2. req[r].step = "find" /\ sessions' = sessions
    BY <1>3 DEF FindNothing
  <2>3. q.step \notin {"check", "save"} /\ ~(q.step = "serve" /\ q.route # "public")
    BY ValidatedStep
  <2> HIDE DEF q
  <2>4. ServingOf(r)' = ServingOf(r)
    BY <2>1, <2>2, <2>3 DEF ServingOf, Admitted, TypeOK
  <2>5. \A t \in Tokens : ~HoldsCopy(req[r], t) /\ ~HoldsCopy(q, t)
    BY <2>2, <2>3 DEF HoldsCopy
  <2> QED BY <2>1, <2>2, <2>4, <2>5, QuietMove
(* The steps that may end a session, but admit nobody. *)
<1>4. ASSUME NEW r \in Requests, NEW q \in Handler, req' = [req EXCEPT ![r] = q],
             \A u \in Tokens : ~HoldsCopy(q, u) \/ (HoldsCopy(q, u) /\ HoldsCopy(req[r], u)),
             \A u \in Tokens : u # req[r].token => sessions'[u] = sessions[u],
             \A u \in Tokens : sessions[u].state = "none" => sessions'[u].state = "none"
      PROVE  Lifecycle!EndSome({req[r].token} \cap Tokens)
  <2>1. ASSUME NEW u \in Tokens \ ({req[r].token} \cap Tokens)
        PROVE  StatusOf(u)' = StatusOf(u)
    <3>1. u \in Tokens /\ sessions'[u] = sessions[u]
      BY <1>4
    <3>2. ~HoldsCopy(req[r], u) /\ ~HoldsCopy(q, u)
      BY <1>4 DEF HoldsCopy
    <3> QED BY <1>4, <3>1, <3>2, StatusStays
  <2> QED BY <1>4, <2>1, EndsSome
<1>5. ASSUME NEW r \in Requests, NEW q \in Handler, req' = [req EXCEPT ![r] = q],
             Lifecycle!EndSome({req[r].token} \cap Tokens),
             ServingOf(r) = NoToken, ServingOf(r)' = NoToken,
             ~(req[r].token \in Tokens) => \A u \in Tokens : StatusOf(u)' = StatusOf(u)
      PROVE  Lifecycle!LifecycleNext \/ Unmoved
  <2>1. \A s \in Requests : ServingOf(s)' = ServingOf(s)
    BY <1>5 DEF ServingOf, Admitted, TypeOK
  <2>2. CASE req[r].token \in Tokens
    <3>1. Lifecycle!EndSome({req[r].token})
      <4>1. {req[r].token} \cap Tokens = {req[r].token}
        BY <2>2
      <4> QED BY <1>5, <4>1
    <3>2. Lifecycle!End(req[r].token)
      BY <2>1, <3>1 DEF Lifecycle!End
    <3> QED BY <2>2, <3>2 DEF Lifecycle!LifecycleNext
  <2>3. CASE req[r].token \notin Tokens
    BY <1>5, <2>1, <2>3 DEF Unmoved
  <2> QED BY <2>2, <2>3
<1>6. ASSUME NEW r \in Requests, Check(r) PROVE Lifecycle!LifecycleNext \/ Unmoved
  <2>1. PICK q \in Handler :
          /\ req' = [req EXCEPT ![r] = q]
          /\ q.token = req[r].token
          /\ q.step \in {"closeExpired", "save"}
    <3>1. /\ [req[r] EXCEPT !.step = "closeExpired"] \in Handler
          /\ [req[r] EXCEPT !.step = "save"] \in Handler
      BY DEF Handler, Steps
    <3> QED BY <1>6, <3>1 DEF Check, Become, Handler
  <2>2. req[r].step = "check" /\ sessions' = sessions /\ req[r].token \in Tokens
    BY <1>6 DEF Check, HandlerInv
  <2>3. ServingOf(r) = NoToken /\ ServingOf(r)' = NoToken
    BY <2>1, <2>2 DEF ServingOf, Admitted, TypeOK
  <2>4. \A u \in Tokens : ~HoldsCopy(q, u) \/ (HoldsCopy(q, u) /\ HoldsCopy(req[r], u))
    BY <2>1, <2>2 DEF HoldsCopy
  <2> QED BY <1>4, <1>5, <2>1, <2>2, <2>3, <2>4
<1>7. ASSUME NEW r \in Requests, Save(r) PROVE Lifecycle!LifecycleNext \/ Unmoved
  <2> DEFINE q == Validated(req[r], TRUE)
             t == req[r].token
  <2>1. req' = [req EXCEPT ![r] = q] /\ q \in Handler
    BY <1>7, ValidatedType DEF Save, Become
  <2>2. /\ req[r].step = "save" /\ t \in Tokens
        /\ sessions[t].state # "none" /\ req[r].copy.state = "open"
        /\ sessions' = [sessions EXCEPT ![t] = req[r].copy] \/ sessions' = sessions
    BY <1>7 DEF Save, HandlerInv
  <2>3. /\ q.step \notin {"check", "save"}
        /\ q.step = "serve" /\ q.route # "public" => q.token = t
    BY ValidatedStep
  <2> HIDE DEF q
  <2>4. Lifecycle!EndSome({t} \cap Tokens)
    <3>1. \A u \in Tokens : ~HoldsCopy(q, u)
      BY <2>3 DEF HoldsCopy
    <3>2. \A u \in Tokens : u # t => sessions'[u] = sessions[u]
      BY <2>2 DEF TypeOK
    <3>3. \A u \in Tokens : sessions[u].state = "none" => sessions'[u].state = "none"
      BY <2>2, <3>2
    <3> QED BY <1>4, <2>1, <3>1, <3>2, <3>3
  <2>5. ServingOf(r) = NoToken
    BY <2>2 DEF ServingOf, Admitted
  <2>6. ServingOf(r)' \in {NoToken, t}
    BY <2>1, <2>3 DEF ServingOf, Admitted, TypeOK
  <2>7. StatusOf(t) = "live"
    BY <2>2 DEF StatusOf, Ended, HoldsCopy
  <2>8. CASE ServingOf(r)' = NoToken
    BY <1>5, <2>1, <2>2, <2>4, <2>5, <2>8
  <2>9. CASE ServingOf(r)' = t
    <3>1. {t} \cap Tokens = {t}
      BY <2>2
    <3>2. Lifecycle!EndSome({t})
      BY <2>4, <3>1
    <3>3. [s \in Requests |-> ServingOf(s)'] = [[s \in Requests |-> ServingOf(s)] EXCEPT ![r] = t]
      BY <2>1, <2>9, ServingMoves
    <3> HIDE DEF t
    <3>4. [u \in Tokens |-> StatusOf(u)][t] = "live" /\ [s \in Requests |-> ServingOf(s)][r] = NoToken
      BY <2>2, <2>5, <2>7
    <3>5. Lifecycle!Admit(r, t)
      BY <3>2, <3>3, <3>4 DEF Lifecycle!Admit
    <3> QED BY <2>2, <3>5 DEF Lifecycle!LifecycleNext
  <2> QED BY <2>6, <2>8, <2>9
(* A conditional close ends at most the session of the slot that asks for it. *)
<1>8. ASSUME NEW r \in Requests, NEW q \in Handler, req' = [req EXCEPT ![r] = q],
             req[r].step \in {"closeExpired", "end"},
             CloseSession(req[r].token) \/ UNCHANGED sessions,
             q.step \notin {"check", "save"},
             ~(q.step = "serve" /\ q.route # "public")
      PROVE  Lifecycle!LifecycleNext \/ Unmoved
  <2>1. \A u \in Tokens : u # req[r].token => sessions'[u] = sessions[u]
    BY <1>8 DEF CloseSession, TypeOK
  <2>2. \A u \in Tokens : sessions[u].state = "none" => sessions'[u].state = "none"
    BY <1>8 DEF CloseSession, TypeOK
  <2>3. \A u \in Tokens : ~HoldsCopy(q, u) /\ ~HoldsCopy(req[r], u)
    BY <1>8 DEF HoldsCopy
  <2>4. ServingOf(r) = NoToken /\ ServingOf(r)' = NoToken
    BY <1>8 DEF ServingOf, Admitted, TypeOK
  <2>5. Lifecycle!EndSome({req[r].token} \cap Tokens)
    BY <1>4, <1>8, <2>1, <2>2, <2>3
  <2>6. ~(req[r].token \in Tokens) => \A u \in Tokens : StatusOf(u)' = StatusOf(u)
    BY <1>8, <2>1, <2>3, StatusStays
  <2> QED BY <1>5, <1>8, <2>4, <2>5, <2>6
<1>9. ASSUME NEW r \in Requests, CloseExpired(r) PROVE Lifecycle!LifecycleNext \/ Unmoved
  <2>1. Validated(req[r], FALSE) \in Handler
    BY ValidatedType
  <2> QED BY <1>8, <1>9, <2>1, ValidatedStep DEF CloseExpired, Become
<1>10. ASSUME NEW r \in Requests, EndSession(r) PROVE Lifecycle!LifecycleNext \/ Unmoved
  BY <1>8, <1>10 DEF EndSession, Become, NoHandler
<1>11. ASSUME NEW r \in Requests, NEW t \in Tokens, NEW isAdmin \in BOOLEAN,
             NewSession(r, t, isAdmin)
       PROVE  Lifecycle!Issue(t)
  <2>1. /\ req' = [req EXCEPT ![r] = NoHandler]
        /\ req[r].step = "credentials" /\ sessions[t].state = "none"
        /\ sessions'[t].state = "open"
        /\ \A u \in Tokens : u # t => sessions'[u] = sessions[u]
    BY <1>11 DEF NewSession, Become, TypeOK
  <2>2. \A u \in Tokens : ~HoldsCopy(NoHandler, u) /\ ~HoldsCopy(req[r], u)
    BY <2>1 DEF HoldsCopy, NoHandler
  <2>3. \A u \in Tokens : u # t => StatusOf(u)' = StatusOf(u)
    BY <2>1, <2>2, StatusStays
  <2>4. StatusOf(t) = "unused" /\ StatusOf(t)' = "live"
    BY <2>1 DEF StatusOf, Ended
  <2>5. [u \in Tokens |-> StatusOf(u)'] = [[u \in Tokens |-> StatusOf(u)] EXCEPT ![t] = "live"]
    BY <2>3, <2>4
  <2>6. ServingOf(r)' = ServingOf(r)
    BY <2>1 DEF ServingOf, Admitted, TypeOK, NoHandler
  <2>7. [s \in Requests |-> ServingOf(s)'] = [s \in Requests |-> ServingOf(s)]
    BY <2>1, <2>6, ServingStays
  <2> QED BY <2>4, <2>5, <2>7 DEF Lifecycle!Issue
<1>12. ASSUME NEW r \in Requests, LoginFails(r) PROVE Unmoved
  <2>1. /\ req' = [req EXCEPT ![r] = NoHandler] /\ sessions' = sessions
        /\ req[r].step = "credentials"
    BY <1>12 DEF LoginFails, Become
  <2>2. \A u \in Tokens : ~HoldsCopy(NoHandler, u) /\ ~HoldsCopy(req[r], u)
    BY <2>1 DEF HoldsCopy, NoHandler
  <2>3. ServingOf(r)' = ServingOf(r)
    BY <2>1 DEF ServingOf, Admitted, TypeOK, NoHandler
  <2> QED BY <2>1, <2>2, <2>3, QuietMove
<1>13. ASSUME NEW r \in Requests, Respond(r) PROVE Lifecycle!Done(r)
  <2>1. /\ req' = [req EXCEPT ![r] = NoHandler] /\ sessions' = sessions
        /\ req[r].step = "serve"
    BY <1>13 DEF Respond, Become
  <2>2. \A u \in Tokens : ~HoldsCopy(NoHandler, u) /\ ~HoldsCopy(req[r], u)
    BY <2>1 DEF HoldsCopy, NoHandler
  <2>3. \A u \in Tokens : StatusOf(u)' = StatusOf(u)
    BY <2>1, <2>2, StatusStays
  <2>4. ServingOf(r)' = NoToken
    BY <2>1 DEF ServingOf, Admitted, TypeOK, NoHandler
  <2>5. [s \in Requests |-> ServingOf(s)'] =
          [[s \in Requests |-> ServingOf(s)] EXCEPT ![r] = NoToken]
    BY <2>1, <2>4, ServingMoves
  <2>6. [u \in Tokens |-> StatusOf(u)'] = [u \in Tokens |-> StatusOf(u)]
    BY <2>3
  <2> QED BY <2>5, <2>6 DEF Lifecycle!Done
<1>14. CASE Crash
  <2>1. req' = [r \in Requests |-> NoHandler] /\ sessions' = sessions
    BY <1>14 DEF Crash
  <2>2. Lifecycle!EndSome(Tokens)
    BY <2>1, EndsSome
  <2>3. \A s \in Requests : ServingOf(s)' = NoToken
    BY <2>1 DEF ServingOf, Admitted, NoHandler
  <2>4. [s \in Requests |-> ServingOf(s)'] = [s \in Requests |-> NoToken]
    BY <2>3
  <2>5. Lifecycle!Restart
    BY <2>2, <2>4 DEF Lifecycle!Restart
  <2> QED BY <2>5 DEF Lifecycle!LifecycleNext
<1>15. CASE Tick \/ UNCHANGED vars
  <2>1. sessions' = sessions /\ req' = req
    BY <1>15 DEF Tick, vars
  <2> QED BY <2>1 DEF Unmoved, StatusOf, Ended, HoldsCopy, ServingOf, Admitted
<1>16. ASSUME NEW r \in Requests, Handle(r) PROVE Lifecycle!LifecycleNext \/ Unmoved
  <2>1. CASE Find(r) \/ FindNothing(r) \/ LoginFails(r)
    BY <1>2, <1>3, <1>12, <2>1
  <2>2. CASE Check(r) \/ Save(r) \/ CloseExpired(r) \/ EndSession(r)
    BY <1>6, <1>7, <1>9, <1>10, <2>2
  <2>3. CASE Respond(r)
    BY <1>13, <2>3 DEF Lifecycle!LifecycleNext
  <2>4. CASE \E t \in Tokens, isAdmin \in BOOLEAN : NewSession(r, t, isAdmin)
    BY <1>11, <2>4 DEF Lifecycle!LifecycleNext
  <2> QED BY <1>16, <2>1, <2>2, <2>3, <2>4 DEF Handle
<1> QED BY <1>1, <1>14, <1>15, <1>16 DEF Next

(* The session subsystem keeps the promise of SessionLifecycle: a token is *)
(* issued once, a session that has ended never comes back, and only a live *)
(* one gets a request through authentication.                              *)
THEOREM SessionsKeepPromise == Spec => Promise
<1>1. Init => Lifecycle!LifecycleInit
  BY DEF Init, Lifecycle!LifecycleInit, StatusOf, ServingOf, Admitted, NoRow, NoHandler
<1>2. SessionInv /\ [Next]_vars =>
        [Lifecycle!LifecycleNext]_(<<[t \in Tokens |-> StatusOf(t)],
                                     [r \in Requests |-> ServingOf(r)]>>)
  <2> SUFFICES ASSUME SessionInv, [Next]_vars, ~Lifecycle!LifecycleNext
               PROVE  UNCHANGED <<[t \in Tokens |-> StatusOf(t)],
                                  [r \in Requests |-> ServingOf(r)]>>
    OBVIOUS
  <2>1. Unmoved
    BY LifecycleStep
  <2> QED BY <2>1, UnmovedIsStutter
<1> QED
  BY InvInit, InvNext, <1>1, <1>2, PTL
     DEF Spec, Promise, Lifecycle!LifecycleSpec, Lifecycle!lifecycle
=============================================================================
