----------------------------- MODULE UsersProofs -----------------------------
(* Theorems of Users, for every set of ids, names, passwords, providers,   *)
(* forms, accounts, configurations and request slots.                      *)
EXTENDS Users, TLAPS

USE UsersConstants

-----------------------------------------------------------------------------
(* Passwords: a hash verifies the password it was made from and no other,  *)
(* and the hook leaves a stored row as it is.                              *)

LEMMA HashesDiffer ==
  \A p, x \in Passwords : /\ Hash(p) = Hash(x) => p = x
                          /\ Hash(p) # NoPassword
BY DEF Hash

LEMMA HookKeepsRows == \A row \in Row : BeforeSave(row) = row
BY DEF BeforeSave, IsPasswordHashed, Row

(* What the hook makes of a row whose password may be in plain text. *)
LEMMA HookHashes ==
  ASSUME NEW e \in Words \cup {Empty}, NEW n \in Words \cup {Empty},
         NEW p \in Passwords \cup {NoPassword},
         NEW row, row = [email |-> e, username |-> n, provider |-> NoProvider, password |-> p]
  PROVE  BeforeSave(row) =
           [email |-> e, username |-> n, provider |-> NoProvider,
            password |-> IF p = NoPassword THEN NoPassword ELSE Hash(p)]
<1>1. CASE p = NoPassword
  BY <1>1 DEF BeforeSave
<1>2. CASE p # NoPassword
  <2>1. ~IsPasswordHashed(p)
    BY <1>2 DEF IsPasswordHashed
  <2> QED BY <1>2, <2>1 DEF BeforeSave
<1> QED BY <1>1, <1>2

-----------------------------------------------------------------------------
(* Types.                                                                  *)

LEMMA RowTypes ==
  ASSUME NEW q \in Handler
  PROVE  /\ NewRow(q).email \in Words \cup {Empty}
         /\ q.kind \in {"create", "ensure"} /\ q.form.password \in Passwords =>
              NewRow(q) \in Row
         /\ q.kind = "callback" => NewRow(q) \in Row
BY DEF NewRow, Handler, Form, Row

LEMMA UpdatedType ==
  ASSUME NEW q \in Handler, NEW row \in Row,
         q.kind = "ensure" => q.form.password \in Passwords
  PROVE  Updated(q, row) \in Row
<1>1. q.form.email \in Words \cup {Empty}
  BY DEF Handler, Form
<1>2. CASE q.kind # "ensure"
  BY <1>2 DEF Updated
<1>3. CASE q.kind = "ensure"
  <2> DEFINE email == IF q.form.email = Empty THEN row.email ELSE q.form.email
  <2>1. Updated(q, row) = [row EXCEPT !.password = Hash(q.form.password), !.email = email]
    BY <1>3 DEF Updated
  <2>2. email \in Words \cup {Empty}
    BY <1>1 DEF Row
  <2> HIDE DEF email
  <2> QED BY ZenonT(40), <1>3, <2>1, <2>2 DEF Row
<1> QED BY <1>2, <1>3

LEMMA FoundType ==
  ASSUME NEW q \in Handler, NEW u \in Ids, users[u] \in Row,
         q.kind = "ensure" => q.form.password \in Passwords
  PROVE  Found(q, u) \in Handler
<1>1. Updated(q, users[u]) \in Row
  BY UpdatedType
<1>2. NoHandler \in Handler
  BY DEF NoHandler, Handler, NoForm, Form, NoRow, Row
<1> QED BY ZenonT(40), <1>1, <1>2 DEF Found, Handler

LEMMA IdleType == NoHandler \in Handler /\ NoForm \in Form /\ NoRow \in Row
BY DEF NoHandler, Handler, NoForm, Form, NoRow, Row

LEMMA BeginType ==
  ASSUME NEW kind \in {"create", "login", "callback", "ensure"}, NEW form \in Form
  PROVE  Begin(kind, form) \in Handler
BY IdleType DEF Begin, Handler

LEMMA FormsType == Forms \subseteq Form /\ Accounts \subseteq Form /\ Configs \subseteq Form
BY DEF Form

-----------------------------------------------------------------------------
(* The invariant, one handler at a time. *)
HandlerInv(s) ==
  LET q == req[s]
      row == users[q.user] IN
  /\ q.step # "idle" => Placed(s)
  /\ CopyMatches(s)
  /\ q.step = "session" =>
       /\ q.user \in Ids
       /\ Exists(q.user)
       /\ \/ /\ q.kind = "login"
             /\ q.form.username \in {row.email, row.username}
             /\ ComparePassword(q.form.password, row.password)
          \/ /\ q.kind = "callback"
             /\ row.provider = q.form.provider
             /\ row.email = q.form.email

TableInv == NamesAreUnique /\ PasswordsWork /\ AdminsWereConfigured

LEMMA InvByHandler ==
  UsersInv <=> TypeOK /\ TableInv /\ \A s \in Slots : HandlerInv(s)
BY DEF UsersInv, TableInv, HandlerInv, SessionUsersExist, SessionsForTheRightUser

LEMMA InvByHandlerNext ==
  ASSUME TypeOK', TableInv', \A s \in Slots : HandlerInv(s)'
  PROVE  UsersInv'
BY DEF UsersInv, TableInv, HandlerInv, SessionUsersExist, SessionsForTheRightUser

LEMMA InvInit == Init => UsersInv
<1> SUFFICES ASSUME Init PROVE UsersInv
  OBVIOUS
<1>1. TypeOK
  BY IdleType DEF Init, TypeOK
<1>2. TableInv
  BY HashesDiffer
     DEF Init, TableInv, NamesAreUnique, PasswordsWork, AdminsWereConfigured, Exists,
         ComparePassword, NoRow, NoUser, AdminProvider
<1>3. \A s \in Slots : HandlerInv(s)
  BY DEF Init, HandlerInv, CopyMatches, NoHandler
<1> QED BY <1>1, <1>2, <1>3, InvByHandler

(* Two handlers are under way together only while the gateway is up. *)
LEMMA Together ==
  ASSUME UsersInv, NEW s \in Slots, NEW t \in Slots, s # t,
         req[s].step # "idle", req[t].step # "idle"
  PROVE  s # Main /\ t # Main /\ run = "up"
BY DEF UsersInv, Placed, Slots

(* Rows that exist stay as they are. *)
RowsLast == \A u \in Ids : Exists(u) => users'[u] = users[u]

LEMMA UntouchedInv ==
  ASSUME UsersInv, NEW s \in Slots, req'[s] = req[s], RowsLast,
         req[s].step # "idle" => run' = run,
         configured \subseteq configured'
  PROVE  HandlerInv(s)'
<1>1. HandlerInv(s)
  BY InvByHandler
<1>2. req[s].step # "idle" => Placed(s)'
  BY <1>1 DEF HandlerInv, Placed
<1>3. CopyMatches(s)'
  BY <1>1 DEF HandlerInv, CopyMatches, RowsLast, Exists
<1> QED
  BY <1>1, <1>2, <1>3 DEF HandlerInv, RowsLast, Exists, ComparePassword

LEMMA IdleInv == ASSUME NEW s \in Slots, req'[s].step = "idle" PROVE HandlerInv(s)'
BY DEF HandlerInv, CopyMatches

(* A handler that moves leaves the others their invariant. *)
LEMMA OthersKeep ==
  ASSUME UsersInv, NEW s \in Slots, NEW q, NEW ok, req[s].step # "idle",
         Become(s, q, ok), RowsLast
  PROVE  \A t \in Slots \ {s} : HandlerInv(t)'
<1> SUFFICES ASSUME NEW t \in Slots \ {s} PROVE HandlerInv(t)'
  OBVIOUS
<1>1. req'[t] = req[t] /\ configured' = configured
  BY DEF Become, UsersInv, TypeOK
<1>2. CASE req[t].step = "idle"
  BY <1>1, <1>2, UntouchedInv
<1>3. CASE req[t].step # "idle"
  <2>1. run' = run
    BY <1>3, Together DEF Become
  <2> QED BY <1>1, <2>1, UntouchedInv
<1> QED BY <1>2, <1>3

(* What a handler finds gives it a step that keeps its invariant. *)
LEMMA FoundInv ==
  ASSUME UsersInv, NEW s \in Slots, req[s].step \in {"byEmail", "byName"},
         NEW u \in Ids, Exists(u),
         \/ users[u].email = EmailSought(req[s])
         \/ req[s].kind # "callback" /\ users[u].username = NameSought(req[s]),
         Goes(s, Found(req[s], u)), UNCHANGED users
  PROVE  HandlerInv(s)'
<1> DEFINE q == req[s]
<1>1. req'[s] = Found(q, u) /\ configured' = configured
  BY DEF Goes, Become, UsersInv, TypeOK
<1>2. Placed(s)
  BY DEF UsersInv
<1>3. CASE ~Accepts(q, users[u])
  BY <1>1, <1>3, IdleInv DEF Found, NoHandler
<1>4. CASE Accepts(q, users[u])
  <2>1. q \in Handler /\ users[u] \in Row
    BY DEF UsersInv, TypeOK
  <2>2. req'[s] = [q EXCEPT !.step = IF q.kind = "login" THEN "session" ELSE "save",
                            !.user = u, !.copy = Updated(q, users[u])]
    BY <1>1, <1>4 DEF Found
  <2>3. /\ req'[s].step = IF q.kind = "login" THEN "session" ELSE "save"
        /\ req'[s].kind = q.kind
        /\ req'[s].form = q.form
        /\ req'[s].user = u
        /\ req'[s].copy = Updated(q, users[u])
    BY <2>1, <2>2 DEF Handler
  <2>4. run' = run
    BY <1>1, <2>3 DEF Goes, Become
  <2>5. Placed(s)'
    BY <1>1, <1>2, <2>3, <2>4 DEF Placed
  <2>6. CASE q.kind = "login"
    BY <1>4, <2>3, <2>5, <2>6
       DEF HandlerInv, CopyMatches, Accepts, EmailSought, NameSought, Exists
  <2>7. CASE q.kind = "callback"
    BY <1>4, <2>3, <2>5, <2>7
       DEF HandlerInv, CopyMatches, Accepts, Updated, EmailSought, Exists
  <2>8. CASE q.kind = "ensure"
    <3>1. /\ Updated(q, users[u]).provider = users[u].provider
          /\ Updated(q, users[u]).username = users[u].username
          /\ Updated(q, users[u]).password = Hash(q.form.password)
      BY <2>1, <2>8 DEF Updated, Row
    <3> QED BY <2>3, <2>5, <2>8, <3>1 DEF HandlerInv, CopyMatches, Exists
  <2> QED BY <1>4, <2>6, <2>7, <2>8 DEF Accepts
<1> QED BY <1>3, <1>4

-----------------------------------------------------------------------------
(* The table.  A new row, and the row of a user whose password and e-mail  *)
(* the start has set.                                                      *)

PasswordOf(row, p) == row.password = IF p = NoPassword THEN NoPassword ELSE Hash(p)

Added(u, row, p) ==
  /\ ~Exists(u)
  /\ ~Taken(row, u)
  /\ users' = [users EXCEPT ![u] = row]
  /\ chosen' = [chosen EXCEPT ![u] = p]
  /\ PasswordOf(row, p)
  /\ row.provider = AdminProvider => row.username \in configured

Renewed(u, row, p) ==
  /\ Exists(u)
  /\ ~Taken(row, u)
  /\ users' = [users EXCEPT ![u] = row]
  /\ chosen' = [chosen EXCEPT ![u] = p]
  /\ PasswordOf(row, p)
  /\ row.provider = users[u].provider
  /\ row.username = users[u].username

LEMMA TableKept ==
  ASSUME UsersInv, NEW u \in Ids, NEW row \in Row, NEW p \in Passwords \cup {NoPassword},
         Added(u, row, p) \/ Renewed(u, row, p), configured' = configured
  PROVE  /\ TableInv'
         /\ users' \in [Ids -> Row]
         /\ chosen' \in [Ids -> Passwords \cup {NoPassword}]
<1> USE DEF Added, Renewed
<1>1. /\ users' = [users EXCEPT ![u] = row]
      /\ chosen' = [chosen EXCEPT ![u] = p]
      /\ users \in [Ids -> Row]
      /\ chosen \in [Ids -> Passwords \cup {NoPassword}]
  BY DEF UsersInv, TypeOK
<1>2. NamesAreUnique'
  BY <1>1 DEF UsersInv, NamesAreUnique, Taken, Exists
<1>3. PasswordsWork'
  <2> SUFFICES ASSUME NEW v \in Ids, NEW x \in Passwords
               PROVE  ComparePassword(x, users'[v].password) <=> chosen'[v] = x
    BY DEF PasswordsWork, ComparePassword
  <2>1. CASE v = u
    BY <1>1, <2>1, HashesDiffer DEF PasswordOf, ComparePassword
  <2>2. CASE v # u
    BY <1>1, <2>2 DEF UsersInv, PasswordsWork
  <2> QED BY <2>1, <2>2
<1>4. AdminsWereConfigured'
  BY <1>1 DEF UsersInv, AdminsWereConfigured
<1> QED BY <1>1, <1>2, <1>3, <1>4 DEF TableInv

LEMMA TableUntouched ==
  ASSUME UsersInv, UNCHANGED <<users, chosen>>, configured \subseteq configured'
  PROVE  TableInv' /\ RowsLast
BY DEF UsersInv, TableInv, NamesAreUnique, PasswordsWork, AdminsWereConfigured,
       Exists, ComparePassword, RowsLast

LEMMA AddedLasts ==
  ASSUME UsersInv, NEW u \in Ids, NEW row, NEW p, Added(u, row, p)
  PROVE  RowsLast
BY DEF Added, RowsLast, UsersInv, TypeOK

(* The row a handler inserts. *)
LEMMA NewRowIs ==
  ASSUME UsersInv, NEW s \in Slots, req[s].step = "insert"
  PROVE  LET q == req[s]
             row == NewRow(q) IN
         /\ row \in Row
         /\ BeforeSave(row) = row
         /\ row.provider # NoUser
         /\ row.email = q.form.email
         /\ PasswordOf(row, q.form.password)
         /\ q.form.password \in Passwords \cup {NoPassword}
         /\ row.provider = AdminProvider => row.username \in configured
         /\ q.kind = "callback" => row.provider = q.form.provider
<1> DEFINE q == req[s]
           row == NewRow(q)
<1>1. q \in Handler /\ Placed(s) /\ q.kind \in {"create", "callback", "ensure"}
  BY DEF UsersInv, TypeOK, Placed, Handler
<1>2. row \in Row
  BY <1>1, RowTypes DEF Placed
<1>3. BeforeSave(row) = row
  BY <1>2, HookKeepsRows
<1>4. CASE q.kind = "callback"
  <2>1. row = [email |-> q.form.email,
               username |-> IF q.form.username = Empty THEN q.form.email ELSE q.form.username,
               provider |-> q.form.provider, password |-> NoPassword]
    BY <1>1, <1>4 DEF NewRow
  <2> QED
    BY <1>1, <1>2, <1>3, <1>4, <2>1 DEF Placed, PasswordOf, NoUser, AdminProvider
<1>5. CASE q.kind # "callback"
  <2>1. row = [email |-> q.form.email, username |-> q.form.username,
               provider |-> IF q.kind = "ensure" THEN AdminProvider ELSE NoProvider,
               password |-> Hash(q.form.password)]
    BY <1>1, <1>5 DEF NewRow
  <2>2. q.form.password \in Passwords /\ NoPassword \notin Passwords
    BY <1>1, <1>5 DEF Placed
  <2>3. /\ row.email = q.form.email
        /\ row.password = Hash(q.form.password)
        /\ row.provider = IF q.kind = "ensure" THEN AdminProvider ELSE NoProvider
        /\ row.username = q.form.username
    BY <2>1
  <2>4. PasswordOf(row, q.form.password)
    BY <2>2, <2>3 DEF PasswordOf
  <2>5. row.provider # NoUser /\ (row.provider = AdminProvider => q.kind = "ensure")
    BY <2>3 DEF NoUser, AdminProvider, NoProvider
  <2>6. q.kind = "ensure" => q.form.username \in configured
    BY <1>1 DEF Placed
  <2> HIDE DEF row, q
  <2> QED BY <1>2, <1>3, <1>5, <2>2, <2>3, <2>4, <2>5, <2>6 DEF row, q
<1> QED BY <1>4, <1>5

-----------------------------------------------------------------------------
(* One lemma per action that moves a handler. *)

(* What is left to show once the table is kept and the moving handler's    *)
(* own invariant is known.                                                 *)
LEMMA StepInv ==
  ASSUME UsersInv, NEW s \in Slots, NEW q \in Handler, NEW ok, req[s].step # "idle",
         Become(s, q, ok), RowsLast, TableInv', HandlerInv(s)',
         users' \in [Ids -> Row], chosen' \in [Ids -> Passwords \cup {NoPassword}]
  PROVE  UsersInv'
<1>1. TypeOK'
  BY DEF Become, UsersInv, TypeOK
<1>2. \A t \in Slots : HandlerInv(t)'
  BY OthersKeep
<1> QED BY <1>1, <1>2, InvByHandlerNext

LEMMA FailsInv ==
  ASSUME UsersInv, NEW s \in Slots, NEW ok, req[s].step # "idle",
         Become(s, NoHandler, ok), UNCHANGED <<users, chosen>>
  PROVE  UsersInv'
<1>1. TableInv' /\ RowsLast
  BY TableUntouched DEF Become
<1>2. HandlerInv(s)'
  <2>1. req'[s].step = "idle"
    BY DEF Become, NoHandler, UsersInv, TypeOK
  <2> QED BY <2>1, IdleInv
<1> QED BY <1>1, <1>2, IdleType, StepInv DEF UsersInv, TypeOK

(* A step that only moves s on to insert, or to look for the name. *)
LEMMA OnwardInv ==
  ASSUME UsersInv, NEW s \in Slots, NEW step \in {"byName", "insert"},
         req[s].step # "idle", step = "insert" => req[s].kind # "login",
         Goes(s, [req[s] EXCEPT !.step = step]), UNCHANGED <<users, chosen>>
  PROVE  UsersInv'
<1> DEFINE q == [req[s] EXCEPT !.step = step]
<1>1. req[s] \in Handler /\ Placed(s)
  BY DEF UsersInv, TypeOK
<1>2. q \in Handler /\ q.step = step /\ q.kind = req[s].kind /\ q.form = req[s].form
  BY <1>1 DEF Handler
<1>3. req'[s] = q /\ run' = run /\ configured' = configured
  BY <1>2 DEF Goes, Become, UsersInv, TypeOK
<1>4. HandlerInv(s)'
  BY <1>1, <1>2, <1>3 DEF HandlerInv, CopyMatches, Placed
<1>5. TableInv' /\ RowsLast
  BY <1>3, TableUntouched
<1> QED BY <1>2, <1>4, <1>5, StepInv DEF Goes, UsersInv, TypeOK

LEMMA FoundStepInv ==
  ASSUME UsersInv, NEW s \in Slots, req[s].step \in {"byEmail", "byName"},
         NEW u \in Ids, Exists(u),
         \/ users[u].email = EmailSought(req[s])
         \/ req[s].kind # "callback" /\ users[u].username = NameSought(req[s]),
         Goes(s, Found(req[s], u)), UNCHANGED <<users, chosen>>
  PROVE  UsersInv'
<1>1. HandlerInv(s)'
  BY FoundInv
<1>2. Found(req[s], u) \in Handler
  BY FoundType DEF UsersInv, TypeOK, Placed
<1>3. TableInv' /\ RowsLast
  BY TableUntouched DEF Goes, Become
<1> QED BY <1>1, <1>2, <1>3, StepInv DEF Goes, UsersInv, TypeOK

LEMMA FindByEmailInv ==
  ASSUME UsersInv, NEW s \in Slots, FindByEmail(s) PROVE UsersInv'
<1>1. CASE \E u \in WithEmail(EmailSought(req[s])) : Goes(s, Found(req[s], u))
  BY <1>1, FoundStepInv DEF FindByEmail, WithEmail
<1>2. CASE Goes(s, [req[s] EXCEPT !.step = "byName"])
  BY <1>2, OnwardInv DEF FindByEmail
<1>3. CASE Fails(s)
  BY <1>3, FailsInv DEF FindByEmail, Fails
<1> QED BY <1>1, <1>2, <1>3 DEF FindByEmail

LEMMA FindByNameInv ==
  ASSUME UsersInv, NEW s \in Slots, FindByName(s) PROVE UsersInv'
<1>1. CASE \E u \in WithName(NameSought(req[s])) : Goes(s, Found(req[s], u))
  BY <1>1, FoundStepInv DEF FindByName, WithName, NameSought
<1>2. CASE Goes(s, Missing(req[s])) /\ req[s].kind # "login"
  BY <1>2, OnwardInv DEF FindByName, Missing
<1>3. CASE Goes(s, Missing(req[s])) /\ req[s].kind = "login"
  BY <1>3, FailsInv DEF FindByName, Missing, Goes
<1>4. CASE Fails(s)
  BY <1>4, FailsInv DEF FindByName, Fails
<1> QED BY <1>1, <1>2, <1>3, <1>4 DEF FindByName

LEMMA InsertInv ==
  ASSUME UsersInv, NEW s \in Slots, NEW u \in Ids, Insert(s, u) PROVE UsersInv'
<1> DEFINE q == req[s]
           row == NewRow(q)
           next == IF q.kind = "callback"
                   THEN [q EXCEPT !.step = "session", !.user = u, !.copy = row]
                   ELSE NoHandler
<1>1. /\ row \in Row
      /\ BeforeSave(row) = row
      /\ row.provider # NoUser
      /\ row.email = q.form.email
      /\ PasswordOf(row, q.form.password)
      /\ q.form.password \in Passwords \cup {NoPassword}
      /\ row.provider = AdminProvider => row.username \in configured
      /\ q.kind = "callback" => row.provider = q.form.provider
  BY NewRowIs DEF Insert
<1>2. /\ q.step = "insert"
      /\ Added(u, row, q.form.password)
      /\ Goes(s, next)
      /\ configured' = configured
  BY <1>1 DEF Insert, Added, Goes, Become
<1>3. /\ TableInv'
      /\ users' \in [Ids -> Row]
      /\ chosen' \in [Ids -> Passwords \cup {NoPassword}]
      /\ RowsLast
  BY <1>1, <1>2, TableKept, AddedLasts
<1>4. q \in Handler /\ Placed(s)
  BY <1>2 DEF UsersInv, TypeOK
<1>5. next \in Handler
  BY <1>1, <1>4, IdleType DEF Handler
<1>6. HandlerInv(s)'
  <2>1. req'[s] = next
    BY <1>2 DEF Goes, Become, UsersInv, TypeOK
  <2>2. CASE q.kind # "callback"
    BY <2>1, <2>2, IdleInv DEF NoHandler
  <2>3. CASE q.kind = "callback"
    <3>1. /\ req'[s].step = "session"
          /\ req'[s].kind = q.kind
          /\ req'[s].form = q.form
          /\ req'[s].user = u
      BY <1>4, <2>1, <2>3 DEF Handler
    <3>2. run' = run
      BY <1>2, <2>1, <3>1 DEF Goes, Become
    <3>3. users'[u] = row
      BY <1>2 DEF Added, UsersInv, TypeOK
    <3>4. Placed(s)'
      BY <1>2, <1>4, <3>1, <3>2 DEF Placed
    <3> QED BY <1>1, <2>3, <3>1, <3>3, <3>4 DEF HandlerInv, CopyMatches, Exists
  <2> QED BY <2>2, <2>3
<1> QED BY <1>2, <1>3, <1>5, <1>6, StepInv DEF Goes

LEMMA InsertFailsInv ==
  ASSUME UsersInv, NEW s \in Slots, NEW u \in Ids, InsertFails(s, u) PROVE UsersInv'
BY FailsInv DEF InsertFails, Fails

(* The callback writes back the row as it is. *)
LEMMA SaveIs ==
  ASSUME UsersInv, NEW s \in Slots, req[s].step = "save"
  PROVE  LET q == req[s] IN
         /\ q \in Handler
         /\ Placed(s)
         /\ q.user \in Ids
         /\ Exists(q.user)
         /\ BeforeSave(q.copy) = q.copy
         /\ q.copy.provider = users[q.user].provider
         /\ q.copy.username = users[q.user].username
         /\ \/ q.kind = "ensure" /\ q.copy.password = Hash(q.form.password)
            \/ /\ q.kind = "callback"
               /\ q.copy = users[q.user]
               /\ users[q.user].provider = q.form.provider
               /\ users[q.user].email = q.form.email
<1>1. req[s] \in Handler /\ Placed(s) /\ CopyMatches(s)
  BY DEF UsersInv, TypeOK
<1>2. BeforeSave(req[s].copy) = req[s].copy
  BY <1>1, HookKeepsRows DEF Handler
<1> QED BY <1>1, <1>2 DEF CopyMatches

LEMMA SaveCallbackInv ==
  ASSUME UsersInv, NEW s \in Slots, Save(s), req[s].kind = "callback" PROVE UsersInv'
<1> DEFINE q == req[s]
           next == [q EXCEPT !.step = "session"]
<1>1. q.step = "save"
  BY DEF Save
<1>2. /\ q \in Handler
      /\ Placed(s)
      /\ q.user \in Ids
      /\ Exists(q.user)
      /\ BeforeSave(q.copy) = q.copy
      /\ q.copy = users[q.user]
      /\ users[q.user].provider = q.form.provider
      /\ users[q.user].email = q.form.email
  BY <1>1, SaveIs
<1>3. UNCHANGED <<users, chosen>> /\ Goes(s, next)
  BY <1>2 DEF Save, UsersInv, TypeOK
<1>4. /\ next \in Handler
      /\ next.step = "session"
      /\ next.kind = q.kind
      /\ next.form = q.form
      /\ next.user = q.user
  BY <1>2 DEF Handler
<1>5. req'[s] = next /\ run' = run /\ configured' = configured
  BY <1>3, <1>4 DEF Goes, Become, UsersInv, TypeOK
<1>6. HandlerInv(s)'
  BY <1>2, <1>3, <1>4, <1>5 DEF HandlerInv, CopyMatches, Placed, Exists
<1>7. TableInv' /\ RowsLast
  BY <1>3, <1>5, TableUntouched
<1> QED BY <1>1, <1>3, <1>4, <1>6, <1>7, StepInv DEF Goes, UsersInv, TypeOK

LEMMA SaveEnsureInv ==
  ASSUME UsersInv, NEW s \in Slots, Save(s), req[s].kind # "callback" PROVE UsersInv'
<1> DEFINE q == req[s]
<1>1. q.step = "save"
  BY DEF Save
<1>2. /\ q \in Handler
      /\ q.copy \in Row
      /\ Placed(s)
      /\ q.user \in Ids
      /\ Exists(q.user)
      /\ BeforeSave(q.copy) = q.copy
      /\ q.copy.provider = users[q.user].provider
      /\ q.copy.username = users[q.user].username
      /\ q.copy.password = Hash(q.form.password)
      /\ q.form.password \in Passwords
  BY <1>1, SaveIs DEF Handler, Placed
<1>3. CASE Fails(s) /\ UNCHANGED <<users, chosen>>
  BY <1>1, <1>3, FailsInv DEF Fails
<1>4. CASE /\ ~Taken(q.copy, q.user)
           /\ users' = [users EXCEPT ![q.user] = q.copy]
           /\ Goes(s, NoHandler)
           /\ chosen' = [chosen EXCEPT ![q.user] = q.form.password]
  <2>1. Renewed(q.user, q.copy, q.form.password)
    BY <1>2, <1>4 DEF Renewed, PasswordOf
  <2>2. configured' = configured
    BY <1>4 DEF Goes, Become
  <2>3. /\ TableInv'
        /\ users' \in [Ids -> Row]
        /\ chosen' \in [Ids -> Passwords \cup {NoPassword}]
    BY <1>2, <2>1, <2>2, TableKept
  <2>4. \A t \in Slots : req'[t].step = "idle"
    <3>1. \A t \in Slots \ {s} : req[t].step = "idle"
      BY <1>1, <1>2, Together DEF Placed, UsersInv, CopyMatches
    <3> QED BY <1>4, <3>1 DEF Goes, Become, NoHandler, UsersInv, TypeOK
  <2>5. TypeOK'
    BY <1>4, <2>3, IdleType DEF Goes, Become, UsersInv, TypeOK
  <2> QED BY <2>3, <2>4, <2>5, IdleInv, InvByHandlerNext
<1> QED BY <1>2, <1>3, <1>4 DEF Save

LEMMA NewSessionInv ==
  ASSUME UsersInv, NEW s \in Slots, NewSession(s) PROVE UsersInv'
BY FailsInv DEF NewSession, Goes

LEMMA ArriveInv ==
  ASSUME UsersInv, NEW r \in Requests, NEW form \in Forms \cup Accounts,
         NEW kind \in {"create", "login", "callback"}, Arrive(r, kind, form)
  PROVE  UsersInv'
<1> DEFINE q == Begin(kind, form)
<1>1. q \in Handler /\ q.step = "byEmail" /\ q.kind = kind /\ q.form = form
  BY BeginType, FormsType DEF Begin
<1>2. /\ req' = [req EXCEPT ![r] = q]
      /\ run' = run /\ run = "up"
      /\ UNCHANGED <<users, chosen, config, configured>>
      /\ r \in Slots /\ r # Main
  BY DEF Arrive, Goes, Become, Slots
<1>3. IF kind = "callback" THEN form.password = NoPassword /\ form.provider \in Providers
      ELSE form.password \in Passwords
  <2>1. CASE kind = "callback"
    BY <2>1 DEF Arrive
  <2>2. CASE kind # "callback"
    BY <2>2 DEF Arrive
  <2> QED BY <2>1, <2>2
<1>4. TypeOK'
  BY <1>1, <1>2 DEF UsersInv, TypeOK
<1>5. TableInv' /\ RowsLast
  BY <1>2, TableUntouched
<1>6. ASSUME NEW s \in Slots PROVE HandlerInv(s)'
  <2>1. CASE s = r
    BY <1>1, <1>2, <1>3, <2>1 DEF HandlerInv, CopyMatches, Placed, UsersInv, TypeOK
  <2>2. CASE s # r
    BY <1>2, <1>5, <2>2, UntouchedInv DEF UsersInv, TypeOK
  <2> QED BY <2>1, <2>2
<1> QED BY <1>4, <1>5, <1>6, InvByHandlerNext

LEMMA AddUserInv ==
  ASSUME UsersInv, NEW f \in Forms, NEW u \in Ids, AddUser(f, u) PROVE UsersInv'
<1> DEFINE p == f.password
           row == [email |-> f.email, username |-> f.username, provider |-> NoProvider,
                   password |-> IF p = NoPassword THEN NoPassword ELSE Hash(p)]
<1>1. /\ p \in Passwords \cup {NoPassword}
      /\ f.email \in Words \cup {Empty}
      /\ f.username \in Words \cup {Empty}
  OBVIOUS
<1>2. BeforeSave([email |-> f.email, username |-> f.username,
                  provider |-> NoProvider, password |-> f.password]) = row
  BY <1>1, HookHashes
<1>3. row \in Row /\ row.provider # AdminProvider /\ PasswordOf(row, p)
  BY <1>1 DEF Row, PasswordOf, NoProvider, AdminProvider
<1>4. Added(u, row, p) /\ UNCHANGED <<req, run, config, configured>>
  BY <1>2, <1>3 DEF AddUser, Added
<1>5. /\ TableInv'
      /\ users' \in [Ids -> Row]
      /\ chosen' \in [Ids -> Passwords \cup {NoPassword}]
      /\ RowsLast
  BY <1>1, <1>3, <1>4, TableKept, AddedLasts
<1>6. TypeOK'
  BY <1>4, <1>5 DEF UsersInv, TypeOK
<1>7. \A s \in Slots : HandlerInv(s)'
  BY <1>4, <1>5, UntouchedInv
<1> QED BY <1>5, <1>6, <1>7, InvByHandlerNext

LEMMA StartInv ==
  ASSUME UsersInv, NEW c \in Configs \cup {NoForm}, Start(c) PROVE UsersInv'
<1>1. \A s \in Slots : req[s].step = "idle"
  BY DEF UsersInv, Placed, Start
<1>2. c \in Form /\ (c # NoForm => c.username \in Words /\ c.password \in Passwords)
  BY FormsType, IdleType
<1>3. UNCHANGED <<users, chosen>> /\ configured \subseteq configured'
  BY DEF Start
<1>4. TableInv'
  BY <1>3, TableUntouched
<1>5. CASE c = NoForm
  <2>1. TypeOK'
    BY <1>2, <1>5 DEF Start, UsersInv, TypeOK
  <2>2. \A s \in Slots : HandlerInv(s)'
    BY <1>1, <1>5, IdleInv DEF Start
  <2> QED BY <1>4, <2>1, <2>2, InvByHandlerNext
<1>6. CASE c # NoForm
  <2> DEFINE q == Begin("ensure", c)
  <2>1. q \in Handler /\ q.step = "byEmail" /\ q.kind = "ensure" /\ q.form = c
    BY <1>2, BeginType DEF Begin
  <2>2. /\ req' = [req EXCEPT ![Main] = q]
        /\ run' = "starting"
        /\ configured' = configured \cup {c.username}
        /\ config' = c
    BY <1>6 DEF Start
  <2>3. TypeOK'
    BY <1>2, <1>3, <1>6, <2>1, <2>2 DEF UsersInv, TypeOK
  <2>4. ASSUME NEW s \in Slots PROVE HandlerInv(s)'
    <3>1. CASE s = Main
      BY <1>2, <1>6, <2>1, <2>2, <3>1 DEF HandlerInv, CopyMatches, Placed, UsersInv, TypeOK
    <3>2. CASE s # Main
      BY <1>1, <2>2, <3>2, IdleInv DEF UsersInv, TypeOK
    <3> QED BY <3>1, <3>2
  <2> QED BY <1>4, <2>3, <2>4, InvByHandlerNext
<1> QED BY <1>5, <1>6

LEMMA StopInv == ASSUME UsersInv, Stop PROVE UsersInv'
<1>1. TypeOK'
  BY IdleType DEF Stop, UsersInv, TypeOK
<1>2. TableInv'
  BY TableUntouched DEF Stop
<1>3. \A s \in Slots : HandlerInv(s)'
  BY IdleInv DEF Stop, NoHandler
<1> QED BY <1>1, <1>2, <1>3, InvByHandlerNext

LEMMA StutterInv == ASSUME UsersInv, UNCHANGED vars PROVE UsersInv'
<1>1. TypeOK'
  BY DEF vars, UsersInv, TypeOK
<1>2. TableInv' /\ RowsLast
  BY TableUntouched DEF vars
<1>3. \A s \in Slots : HandlerInv(s)'
  BY <1>2, UntouchedInv DEF vars
<1> QED BY <1>1, <1>2, <1>3, InvByHandlerNext

LEMMA InvNext == UsersInv /\ [Next]_vars => UsersInv'
<1> SUFFICES ASSUME UsersInv, [Next]_vars PROVE UsersInv'
  OBVIOUS
<1>1. CASE \E c \in Configs \cup {NoForm} : Start(c)
  BY <1>1, StartInv
<1>2. CASE \E r \in Requests, form \in Forms \cup Accounts,
              kind \in {"create", "login", "callback"} : Arrive(r, kind, form)
  BY <1>2, ArriveInv
<1>3. ASSUME NEW s \in Slots, Handle(s) PROVE UsersInv'
  BY <1>3, FindByEmailInv, FindByNameInv, SaveCallbackInv, SaveEnsureInv, NewSessionInv,
     InsertInv, InsertFailsInv DEF Handle
<1>4. CASE \E f \in Forms, u \in Ids : AddUser(f, u)
  BY <1>4, AddUserInv
<1>5. CASE Stop
  BY <1>5, StopInv
<1>6. CASE UNCHANGED vars
  BY <1>6, StutterInv
<1> QED BY <1>1, <1>2, <1>3, <1>4, <1>5, <1>6 DEF Next

-----------------------------------------------------------------------------
(* The theorems. *)

(* The inductive invariant holds throughout. *)
THEOREM InvCorrect == Spec => []UsersInv
BY InvInit, InvNext, PTL DEF Spec

(* The variables keep their types, and no plain password is ever stored. *)
THEOREM TypeCorrect == Spec => []TypeOK
<1>1. UsersInv => TypeOK
  BY DEF UsersInv
<1> QED BY <1>1, InvCorrect, PTL

(* E-mails and user names are unique, whatever is created, found and       *)
(* renewed meanwhile.                                                      *)
THEOREM UniqueNames == Spec => []NamesAreUnique
<1>1. UsersInv => NamesAreUnique
  BY DEF UsersInv
<1> QED BY <1>1, InvCorrect, PTL

(* Exactly the password chosen last opens an account. *)
THEOREM LastPasswordOpens == Spec => []PasswordsWork
<1>1. UsersInv => PasswordsWork
  BY DEF UsersInv
<1> QED BY <1>1, InvCorrect, PTL

(* Only a configuration makes an admin. *)
THEOREM AdminsFromConfig == Spec => []AdminsWereConfigured
<1>1. UsersInv => AdminsWereConfigured
  BY DEF UsersInv
<1> QED BY <1>1, InvCorrect, PTL

(* Sessions are issued for the user who was named and proved. *)
THEOREM RightUser == Spec => []SessionsForTheRightUser
<1>1. UsersInv => SessionsForTheRightUser
  BY DEF UsersInv
<1> QED BY <1>1, InvCorrect, PTL

LEMMA ProvidersKept ==
  ASSUME UsersInv, [Next]_vars
  PROVE  \A u \in Ids : Exists(u) => users'[u].provider = users[u].provider
<1> SUFFICES ASSUME NEW u \in Ids, Exists(u)
             PROVE  users'[u].provider = users[u].provider
  OBVIOUS
<1>1. users \in [Ids -> Row]
  BY DEF UsersInv, TypeOK
<1>2. ASSUME NEW s \in Slots, Save(s) PROVE users'[u].provider = users[u].provider
  <2>1. /\ BeforeSave(req[s].copy) = req[s].copy
        /\ req[s].copy.provider = users[req[s].user].provider
    BY <1>2, SaveIs DEF Save
  <2> QED BY <1>1, <1>2, <2>1 DEF Save
<1>3. ASSUME NEW s \in Slots, Handle(s), ~Save(s) PROVE users'[u].provider = users[u].provider
  BY <1>1, <1>3 DEF Handle, FindByEmail, FindByName, Insert, InsertFails, NewSession
<1>4. CASE \E f \in Forms, v \in Ids : AddUser(f, v)
  BY <1>1, <1>4 DEF AddUser
<1>5. CASE \/ \E c \in Configs \cup {NoForm} : Start(c)
           \/ \E r \in Requests, form \in Forms \cup Accounts,
                 kind \in {"create", "login", "callback"} : Arrive(r, kind, form)
           \/ Stop \/ UNCHANGED vars
  BY <1>5 DEF Start, Arrive, Stop, vars
<1> QED BY <1>2, <1>3, <1>4, <1>5 DEF Next

(* A user's provider never changes. *)
THEOREM ProvidersLast == Spec => ProviderForGood
<1>1. UsersInv /\ [Next]_vars =>
        [\A u \in Ids : Exists(u) => users'[u].provider = users[u].provider]_users
  BY ProvidersKept
<1> QED BY <1>1, InvCorrect, PTL DEF Spec, ProviderForGood

(* A callback without an e-mail finds nobody, so it never saves a row. *)
StrangersInsert ==
  \A r \in Requests :
    req[r].kind = "callback" /\ req[r].form.email = Empty => req[r].step # "save"

LEMMA NobodyFound ==
  ASSUME NEW s \in Slots, req[s].kind = "callback", req[s].form.email = Empty
  PROVE  WithEmail(EmailSought(req[s])) = {} /\ WithName(NameSought(req[s])) = {}
BY DEF WithEmail, WithName, EmailSought, NameSought

(* A handler that goes on with a row keeps its kind and form. *)
LEMMA FoundKeeps ==
  ASSUME NEW q \in Handler, NEW u, Found(q, u) # NoHandler
  PROVE  Found(q, u).kind = q.kind /\ Found(q, u).form = q.form
BY DEF Found, Handler

LEMMA StrangersInsertNext ==
  ASSUME UsersInv, StrangersInsert, [Next]_vars
  PROVE  StrangersInsert'
<1>0. req \in [Slots -> Handler] /\ Main \notin Requests
  BY UsersConstants DEF UsersInv, TypeOK
<1> SUFFICES ASSUME NEW r \in Requests,
                    req'[r].kind = "callback", req'[r].form.email = Empty,
                    req'[r].step = "save"
             PROVE  FALSE
  BY DEF StrangersInsert
<1>1. r \in Slots
  BY DEF Slots
<1>2. ASSUME req'[r] = req[r] PROVE FALSE
  BY <1>2 DEF StrangersInsert
<1>3. ASSUME req'[r] = NoHandler PROVE FALSE
  BY <1>3 DEF NoHandler
<1>4. ASSUME NEW s \in Slots, FindByEmail(s) PROVE FALSE
  <2>1. CASE s = r
    <3>1. \/ \E u \in WithEmail(EmailSought(req[r])) : req'[r] = Found(req[r], u)
          \/ req'[r] = [req[r] EXCEPT !.step = "byName"]
          \/ req'[r] = NoHandler
      BY <1>0, <1>1, <1>4, <2>1 DEF FindByEmail, Goes, Fails, Become
    <3>2. req'[r] # [req[r] EXCEPT !.step = "byName"]
      BY <1>0, <1>1 DEF Handler
    <3>3. PICK u \in WithEmail(EmailSought(req[r])) : req'[r] = Found(req[r], u)
      BY <1>3, <3>1, <3>2
    <3> QED BY <1>0, <1>1, <1>3, <3>3, FoundKeeps, NobodyFound
  <2>2. CASE s # r
    BY <1>0, <1>1, <1>2, <1>4, <2>2 DEF FindByEmail, Goes, Fails, Become
  <2> QED BY <2>1, <2>2
<1>5. ASSUME NEW s \in Slots, FindByName(s) PROVE FALSE
  <2>1. CASE s = r
    <3>1. \/ \E u \in WithName(NameSought(req[r])) : req'[r] = Found(req[r], u)
          \/ req'[r] = Missing(req[r])
          \/ req'[r] = NoHandler
      BY <1>0, <1>1, <1>5, <2>1 DEF FindByName, Goes, Fails, Become
    <3>2. req'[r] # Missing(req[r])
      BY <1>0, <1>1 DEF Handler, Missing, NoHandler
    <3>3. PICK u \in WithName(NameSought(req[r])) : req'[r] = Found(req[r], u)
      BY <1>3, <3>1, <3>2
    <3> QED BY <1>0, <1>1, <1>3, <3>3, FoundKeeps, NobodyFound
  <2>2. CASE s # r
    BY <1>0, <1>1, <1>2, <1>5, <2>2 DEF FindByName, Goes, Fails, Become
  <2> QED BY <2>1, <2>2
<1>6. ASSUME NEW s \in Slots, Save(s) \/ NewSession(s) \/ \E u \in Ids : Insert(s, u) \/ InsertFails(s, u)
      PROVE  FALSE
  <2>1. CASE Save(s)
    BY <1>0, <1>1, <1>2, <2>1 DEF Save, Goes, Fails, Become, NoHandler, Handler
  <2>2. CASE NewSession(s) \/ \E u \in Ids : InsertFails(s, u)
    BY <1>0, <1>1, <1>2, <2>2 DEF NewSession, InsertFails, Goes, Fails, Become, NoHandler
  <2>3. ASSUME NEW u \in Ids, Insert(s, u) PROVE FALSE
    <3>1. CASE s = r
      BY <1>0, <1>1, <1>3, <2>3, <3>1 DEF Insert, Goes, Become, Handler
    <3>2. CASE s # r
      BY <1>0, <1>1, <1>2, <2>3, <3>2 DEF Insert, Goes, Become
    <3> QED BY <3>1, <3>2
  <2> QED BY <1>6, <2>1, <2>2, <2>3
<1>7. CASE \E c \in Configs \cup {NoForm} : Start(c)
  BY <1>0, <1>1, <1>2, <1>7 DEF Start
<1>8. CASE \E q \in Requests, form \in Forms \cup Accounts,
              kind \in {"create", "login", "callback"} : Arrive(q, kind, form)
  BY <1>0, <1>1, <1>2, <1>8 DEF Arrive, Goes, Become, Begin, Slots
<1>9. CASE \/ \E f \in Forms, u \in Ids : AddUser(f, u)
           \/ UNCHANGED vars
  BY <1>2, <1>9 DEF AddUser, vars
<1>10. CASE Stop
  BY <1>1, <1>3, <1>10 DEF Stop
<1> QED BY <1>4, <1>5, <1>6, <1>7, <1>8, <1>9, <1>10 DEF Next, Handle

LEMMA StrangersStep ==
  ASSUME UsersInv, StrangersInsert, [Next]_vars, NEW r \in Requests,
         req[r].kind = "callback", req[r].form.email = Empty,
         req[r].step # "session", req'[r].step = "session"
  PROVE  ~Exists(req'[r].user)
<1>0. req \in [Slots -> Handler] /\ r \in Slots /\ req[r].step # "save"
  BY DEF UsersInv, TypeOK, Slots, StrangersInsert
<1>1. ASSUME NEW s \in Slots, NEW u \in Ids, Insert(s, u) PROVE ~Exists(req'[r].user)
  BY <1>0, <1>1 DEF Insert, Goes, Become, NoHandler, Handler
<1>2. ASSUME NEW s \in Slots, FindByEmail(s) \/ FindByName(s) PROVE ~Exists(req'[r].user)
  <2>1. WithEmail(EmailSought(req[r])) = {} /\ WithName(NameSought(req[r])) = {}
    BY <1>0, NobodyFound
  <2>2. CASE s = r
    BY <1>0, <1>2, <2>1, <2>2
       DEF FindByEmail, FindByName, Missing, Goes, Fails, Become, NoHandler, Handler
  <2>3. CASE s # r
    BY <1>0, <1>2, <2>3 DEF FindByEmail, FindByName, Goes, Fails, Become
  <2> QED BY <2>2, <2>3
<1>3. ASSUME NEW s \in Slots, Save(s) \/ NewSession(s) \/ \E u \in Ids : InsertFails(s, u)
      PROVE  ~Exists(req'[r].user)
  BY <1>0, <1>3 DEF Save, NewSession, InsertFails, Goes, Fails, Become, NoHandler, Handler
<1>4. CASE \E c \in Configs \cup {NoForm} : Start(c)
  BY <1>0, <1>4 DEF Start, Begin
<1>6. CASE Stop
  BY <1>0, <1>6 DEF Stop, NoHandler
<1>7. CASE \/ \E f \in Forms, u \in Ids : AddUser(f, u)
           \/ UNCHANGED vars
  BY <1>7 DEF AddUser, vars
<1>5. CASE \E q \in Requests, form \in Forms \cup Accounts,
              kind \in {"create", "login", "callback"} : Arrive(q, kind, form)
  BY <1>0, <1>5 DEF Arrive, Goes, Become, Begin
<1> QED BY <1>1, <1>2, <1>3, <1>4, <1>5, <1>6, <1>7 DEF Next, Handle

(* An account without an e-mail is always a new user. *)
THEOREM StrangersInserted == Spec => StrangersAreNew
<1> DEFINE New == \A r \in Requests :
       /\ req[r].kind = "callback" /\ req[r].form.email = Empty
       /\ req[r].step # "session" /\ req'[r].step = "session"
       => ~Exists(req'[r].user)
<1>1. Init => StrangersInsert
  BY DEF Init, StrangersInsert, NoHandler, Slots
<1>2. UsersInv /\ StrangersInsert /\ [Next]_vars => StrangersInsert'
  BY StrangersInsertNext
<1>3. UsersInv /\ StrangersInsert /\ [Next]_vars => [New]_<<users, req>>
  BY StrangersStep
<1> QED BY <1>1, <1>2, <1>3, InvCorrect, PTL DEF Spec, StrangersAreNew
=============================================================================
