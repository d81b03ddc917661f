------------------------------- MODULE Users -------------------------------
(***************************************************************************)
(* The users table and everything that reads or writes it: the API that    *)
(* creates a user, the command line that adds one, the password login, the *)
(* callback of an OAuth provider, and EnsureAdminUser, which every start   *)
(* of the gateway runs with the configuration of that start.               *)
(*                                                                         *)
(* Each database call is one autocommitted statement, and the handlers     *)
(* interleave between statements:                                          *)
(*                                                                         *)
(*   FindUserByIdOrUsername = SELECT by e-mail ; SELECT by username ;      *)
(*   then CreateUser (INSERT) or UpdateUser (the whole row as it was read) *)
(*                                                                         *)
(* Lookups by id, for a session or a token, only read; no code deletes a   *)
(* user.                                                                   *)
(***************************************************************************)
EXTENDS Naturals

CONSTANTS
  Ids,            \* the ids BeforeCreate may draw
  Words,          \* non-empty user names and e-mail addresses
  Empty,          \* the empty string
  Passwords,      \* passwords in plain text, not empty
  NoPassword,     \* the empty password
  Providers,      \* the OAuth providers
  Requests,       \* request slots: at most one request in flight in each
  Main,           \* the goroutine that starts the gateway
  Forms,          \* what the API, the command line and the login are called with
  Accounts,       \* what the OAuth providers answer
  Configs,        \* management.admin of the configurations the gateway starts with
  DBFaults        \* TRUE: a statement may fail (lock timeout, I/O error)

(* GeneratePasswordHash; the salt, which ComparePassword reads back, is left out. *)
Hash(x) == <<"$argon2id$", x>>

AdminProvider == "tg_admin_provider"
NoProvider == ""      \* of users with a password
NoUser == "none"      \* of rows that do not exist

Form == [email: Words \cup {Empty}, username: Words \cup {Empty},
         password: Passwords \cup {NoPassword}, provider: Providers \cup {NoProvider}]

(* LoadConfig clears the names when the admin is disabled, and demands     *)
(* username and password when he is enabled.                               *)
ASSUME UsersConstants ==
  /\ Empty \notin Words
  /\ NoPassword \notin Passwords
  /\ \A x \in Passwords : Hash(x) \notin Passwords \cup {NoPassword}
  /\ {AdminProvider, NoProvider, NoUser} \cap Providers = {}
  /\ Main \notin Requests
  /\ Forms \subseteq [email: Words \cup {Empty}, username: Words \cup {Empty},
                      password: Passwords \cup {NoPassword}, provider: {NoProvider}]
  /\ Accounts \subseteq [email: Words \cup {Empty}, username: Words \cup {Empty},
                         password: {NoPassword}, provider: Providers]
  /\ Configs \subseteq [email: Words \cup {Empty}, username: Words,
                        password: Passwords, provider: {NoProvider}]
  /\ DBFaults \in BOOLEAN

VARIABLES
  users,        \* the table: id -> row
  req,          \* the handler running in each slot
  run,          \* the gateway's process: "down", "starting" or "up"
  config,       \* the admin it was started with; username Empty: disabled
  chosen,       \* history: the password last chosen for each user
  configured    \* history: the user names of all admins configured so far

vars == <<users, req, run, config, chosen, configured>>

(* email_confirmed is left out: whoever reads it has set it just before. *)
Row == [email: Words \cup {Empty}, username: Words \cup {Empty},
        provider: Providers \cup {AdminProvider, NoProvider, NoUser},
        password: {Hash(p) : p \in Passwords} \cup {NoPassword}]

NoRow == [email |-> Empty, username |-> Empty, provider |-> NoUser,
          password |-> NoPassword]

Exists(u) == users[u].provider # NoUser

Slots == Requests \cup {Main}

(* user and copy are the row that a handler has found, or inserted. *)
Handler == [kind: {"create", "login", "callback", "ensure"},
            step: {"idle", "byEmail", "byName", "insert", "save", "session"},
            form: Form, user: Ids \cup {NoUser}, copy: Row]

NoForm == [email |-> Empty, username |-> Empty, password |-> NoPassword,
           provider |-> NoProvider]

NoHandler == [kind |-> "login", step |-> "idle", form |-> NoForm,
              user |-> NoUser, copy |-> NoRow]

Begin(kind, form) ==
  [kind |-> kind, step |-> "byEmail", form |-> form, user |-> NoUser, copy |-> NoRow]

-----------------------------------------------------------------------------
(* Passwords.                                                              *)

IsPasswordHashed(x) == \E p \in Passwords : x = Hash(p)

ComparePassword(p, stored) == stored = Hash(p)

(* Broken variant: the hook is gone. *)
BeforeSaveNothing(row) == row

(* Broken variant: whatever is saved is hashed. *)
BeforeSaveAlways(row) ==
  IF row.password = NoPassword THEN row
  ELSE [row EXCEPT !.password = Hash(row.password)]

(* The hook that gorm runs before every INSERT and UPDATE of a user. *)
BeforeSave(row) ==
  IF row.password = NoPassword \/ IsPasswordHashed(row.password) THEN row
  ELSE [row EXCEPT !.password = Hash(row.password)]

-----------------------------------------------------------------------------
(* Rows.                                                                   *)

(* Broken variant: the empty e-mail is looked for as well. *)
WithEmailAny(x) == {u \in Ids : Exists(u) /\ users[u].email = x}

WithEmail(x) == {u \in Ids : Exists(u) /\ x # Empty /\ users[u].email = x}
WithName(x) == {u \in Ids : Exists(u) /\ x # Empty /\ users[u].username = x}

(* The UNIQUE constraints on email and username, which hold for empty      *)
(* strings as well.                                                        *)
Taken(row, u) ==
  \E v \in Ids \ {u} :
    Exists(v) /\ (users[v].email = row.email \/ users[v].username = row.username)

(* What a handler looks for: the login takes its name for either, and the  *)
(* callback looks for the e-mail alone.                                    *)
EmailSought(q) == IF q.kind = "login" THEN q.form.username ELSE q.form.email
NameSought(q) == IF q.kind = "callback" THEN Empty ELSE q.form.username

(* Broken variant: a user of another provider is not refused. *)
AcceptsAnyProvider(q, row) ==
  \/ q.kind = "login" /\ ComparePassword(q.form.password, row.password)
  \/ q.kind \in {"callback", "ensure"}

(* Whether a handler goes on with the row it has found: the API answers    *)
(* 409, the login compares the password, and the callback refuses a user   *)
(* of another provider.                                                    *)
Accepts(q, row) ==
  \/ q.kind = "login" /\ ComparePassword(q.form.password, row.password)
  \/ q.kind = "callback" /\ row.provider = q.form.provider
  \/ q.kind = "ensure"

(* Broken variant: the start makes whom it finds the admin. *)
UpdatedPromoting(q, row) ==
  IF q.kind # "ensure" THEN row
  ELSE [row EXCEPT !.password = Hash(q.form.password), !.provider = AdminProvider]

(* What it writes: EnsureAdminUser the configured password, which          *)
(* LoadConfig has hashed, and the e-mail, if any; the callback the profile *)
(* of the account, which is left out here.                                 *)
Updated(q, row) ==
  IF q.kind # "ensure" THEN row
  ELSE [row EXCEPT !.password = Hash(q.form.password),
                   !.email = IF q.form.email = Empty THEN @ ELSE q.form.email]

Found(q, u) ==
  IF Accepts(q, users[u])
  THEN [q EXCEPT !.step = IF q.kind = "login" THEN "session" ELSE "save",
                 !.user = u, !.copy = Updated(q, users[u])]
  ELSE NoHandler

(* What it does when there is none. *)
Missing(q) == IF q.kind = "login" THEN NoHandler ELSE [q EXCEPT !.step = "insert"]

(* The row it creates.  The API's handler and LoadConfig hash the password *)
(* before the hook sees it; the command line leaves that to the hook.      *)
NewRow(q) ==
  LET row == [email |-> q.form.email, username |-> q.form.username,
              provider |-> NoProvider, password |-> Hash(q.form.password)] IN
  CASE q.kind = "create" -> row
    [] q.kind = "ensure" -> [row EXCEPT !.provider = AdminProvider]
    [] OTHER -> [row EXCEPT !.provider = q.form.provider, !.password = NoPassword,
                   !.username = IF @ = Empty THEN q.form.email ELSE @]

-----------------------------------------------------------------------------
(* Moving a handler along.                                                 *)

(* s goes on as q.  When Main's handler is done, the gateway listens if it *)
(* went well, and exits if it did not.                                     *)
Become(s, q, ok) ==
  /\ req' = [req EXCEPT ![s] = q]
  /\ run' = IF s # Main \/ q.step # "idle" THEN run ELSE IF ok THEN "up" ELSE "down"
  /\ UNCHANGED <<config, configured>>

Goes(s, q) == Become(s, q, TRUE)
Fails(s) == Become(s, NoHandler, FALSE)

Init ==
  /\ users = [u \in Ids |-> NoRow]
  /\ req = [s \in Slots |-> NoHandler]
  /\ run = "down"
  /\ config = NoForm
  /\ chosen = [u \in Ids |-> NoPassword]
  /\ configured = {}

(* The gateway starts with the admin c, or with none (NoForm). *)
Start(c) ==
  /\ run = "down"
  /\ config' = c
  /\ IF c = NoForm
     THEN run' = "up" /\ UNCHANGED <<req, configured>>
     ELSE /\ run' = "starting"
          /\ req' = [req EXCEPT ![Main] = Begin("ensure", c)]
          /\ configured' = configured \cup {c.username}
  /\ UNCHANGED <<users, chosen>>

(* The process ends, between any two statements. *)
Stop ==
  /\ run # "down"
  /\ run' = "down"
  /\ req' = [s \in Slots |-> NoHandler]
  /\ UNCHANGED <<users, config, chosen, configured>>

(* POST /api/users, a password login, a callback that OAuth let through.   *)
(* Only forms without empty fields pass the checks of the first two.       *)
Arrive(r, kind, form) ==
  /\ run = "up"
  /\ req[r].step = "idle"
  /\ \/ kind = "create" /\ form \in Forms /\ form.email # Empty
     \/ kind = "login" /\ form \in Forms
     \/ kind = "callback" /\ form \in Accounts
  /\ kind # "callback" => form.username # Empty /\ form.password # NoPassword
  /\ Goes(r, Begin(kind, form))
  /\ UNCHANGED <<users, chosen>>

(* SELECT ... WHERE email = ?, unless it is empty. *)
FindByEmail(s) ==
  LET q == req[s] IN
  /\ q.step = "byEmail"
  /\ \/ \E u \in WithEmail(EmailSought(q)) : Goes(s, Found(q, u))
     \/ WithEmail(EmailSought(q)) = {} /\ Goes(s, [q EXCEPT !.step = "byName"])
     \/ DBFaults /\ Fails(s)
  /\ UNCHANGED <<users, chosen>>

(* SELECT ... WHERE username = ?, unless it is empty. *)
FindByName(s) ==
  LET q == req[s] IN
  /\ q.step = "byName"
  /\ \/ \E u \in WithName(NameSought(q)) : Goes(s, Found(q, u))
     \/ WithName(NameSought(q)) = {} /\ Goes(s, Missing(q))
     \/ DBFaults /\ Fails(s)
  /\ UNCHANGED <<users, chosen>>

(* CreateUser: INSERT under a new id.  A callback then issues a session.   *)
Insert(s, u) ==
  LET q == req[s]
      row == BeforeSave(NewRow(q)) IN
  /\ q.step = "insert"
  /\ ~Exists(u)
  /\ ~Taken(row, u)
  /\ users' = [users EXCEPT ![u] = row]
  /\ chosen' = [chosen EXCEPT ![u] = q.form.password]
  /\ Goes(s, IF q.kind = "callback"
             THEN [q EXCEPT !.step = "session", !.user = u, !.copy = row]
             ELSE NoHandler)

(* The INSERT violates a constraint, or fails otherwise. *)
InsertFails(s, u) ==
  /\ req[s].step = "insert"
  /\ ~Exists(u)
  /\ Taken(NewRow(req[s]), u) \/ DBFaults
  /\ Fails(s)
  /\ UNCHANGED <<users, chosen>>

(* UpdateUser: the row exists, and every column of it is written as the    *)
(* handler holds it.  The callback goes on even if the statement fails.    *)
Save(s) ==
  LET q == req[s]
      row == BeforeSave(q.copy) IN
  /\ q.step = "save"
  /\ \/ /\ ~Taken(row, q.user)
        /\ users' = [users EXCEPT ![q.user] = row]
        /\ IF q.kind = "callback"
           THEN Goes(s, [q EXCEPT !.step = "session"]) /\ UNCHANGED chosen
           ELSE /\ Goes(s, NoHandler)
                /\ chosen' = [chosen EXCEPT ![q.user] = q.form.password]
     \/ /\ Taken(row, q.user) \/ DBFaults
        /\ IF q.kind = "callback" THEN Goes(s, [q EXCEPT !.step = "session"]) ELSE Fails(s)
        /\ UNCHANGED <<users, chosen>>

(* NewSession: SessionStore takes over, with copy.provider for IsAdmin. *)
NewSession(s) ==
  /\ req[s].step = "session"
  /\ Goes(s, NoHandler)
  /\ UNCHANGED <<users, chosen>>

(* The command line adds a user, in a process of its own. *)
AddUser(f, u) ==
  LET row == BeforeSave([email |-> f.email, username |-> f.username,
                         provider |-> NoProvider, password |-> f.password]) IN
  /\ ~Exists(u)
  /\ ~Taken(row, u)
  /\ users' = [users EXCEPT ![u] = row]
  /\ chosen' = [chosen EXCEPT ![u] = f.password]
  /\ UNCHANGED <<req, run, config, configured>>

Handle(s) ==
  \/ FindByEmail(s) \/ FindByName(s) \/ Save(s) \/ NewSession(s)
  \/ \E u \in Ids : Insert(s, u) \/ InsertFails(s, u)

Next ==
  \/ \E c \in Configs \cup {NoForm} : Start(c)
  \/ \E r \in Requests, form \in Forms \cup Accounts,
        kind \in {"create", "login", "callback"} : Arrive(r, kind, form)
  \/ \E s \in Slots : Handle(s)
  \/ \E f \in Forms, u \in Ids : AddUser(f, u)
  \/ Stop

Spec == Init /\ [][Next]_vars

-----------------------------------------------------------------------------
(* The types of the variables; no stored password is in plain text. *)
TypeOK ==
  /\ users \in [Ids -> Row]
  /\ req \in [Slots -> Handler]
  /\ run \in {"down", "starting", "up"}
  /\ config \in Form
  /\ chosen \in [Ids -> Passwords \cup {NoPassword}]
  /\ configured \subseteq Words

(***************************************************************************)
(* No two users share an e-mail or a user name, although every creation    *)
(* looks first and inserts later, and the start may give a user another    *)
(* e-mail than the one he was found by.                                    *)
(***************************************************************************)
NamesAreUnique ==
  \A u, v \in Ids :
    u # v /\ Exists(u) /\ Exists(v) =>
      users[u].email # users[v].email /\ users[u].username # users[v].username

(***************************************************************************)
(* A password opens an account if and only if it is the last one that the  *)
(* API, the command line or the configuration chose for it: each is hashed *)
(* exactly once, and no whole-row write brings an older one back.  Users   *)
(* of an OAuth provider have none.                                         *)
(***************************************************************************)
PasswordsWork ==
  \A u \in Ids, p \in Passwords :
    ComparePassword(p, users[u].password) <=> chosen[u] = p

(***************************************************************************)
(* Whoever is an admin has a user name that some configuration gave its    *)
(* admin: no form, account or profile update makes one.                    *)
(***************************************************************************)
AdminsWereConfigured ==
  \A u \in Ids : users[u].provider = AdminProvider => users[u].username \in configured

(***************************************************************************)
(* A session is about to be issued only for a user who, in the table as it *)
(* is now, bears the name and password of the login, or the provider and   *)
(* e-mail of the account.                                                  *)
(***************************************************************************)
SessionsForTheRightUser ==
  \A s \in Slots : req[s].step = "session" =>
    LET q == req[s]
        row == users[q.user] IN
    \/ /\ q.kind = "login"
       /\ q.form.username \in {row.email, row.username}
       /\ ComparePassword(q.form.password, row.password)
    \/ /\ q.kind = "callback"
       /\ row.provider = q.form.provider
       /\ row.email = q.form.email

(***************************************************************************)
(* A user keeps his provider, and with it his being an admin or not, for   *)
(* as long as he exists, which is forever: sessions copy it at login.      *)
(***************************************************************************)
ProviderForGood ==
  [][\A u \in Ids : Exists(u) => users'[u].provider = users[u].provider]_users

(***************************************************************************)
(* An OAuth account without an e-mail is never taken for a user who is     *)
(* there already, whoever else has none: a session it is given is one of a *)
(* user inserted in that very step.                                        *)
(***************************************************************************)
StrangersAreNew ==
  [][\A r \in Requests :
       /\ req[r].kind = "callback" /\ req[r].form.email = Empty
       /\ req[r].step # "session" /\ req'[r].step = "session"
       => ~Exists(req'[r].user)]_<<users, req>>

(***************************************************************************)
(* The inductive invariant behind these properties.                        *)
(***************************************************************************)

(* The start is alone: its handler runs only before the gateway listens.   *)
Placed(s) ==
  LET q == req[s] IN
  /\ IF s = Main
     THEN run = "starting" /\ q.kind = "ensure" /\ q.form.username \in configured
     ELSE run = "up" /\ q.kind # "ensure"
  /\ IF q.kind = "callback"
     THEN q.form.password = NoPassword /\ q.form.provider \in Providers
     ELSE q.form.password \in Passwords
  /\ q.step = "insert" => q.kind # "login"

(* A row about to be written differs from the one in the table only in     *)
(* what the configuration sets.                                            *)
CopyMatches(s) ==
  LET q == req[s]
      row == users[q.user] IN
  q.step = "save" =>
    /\ q.user \in Ids
    /\ Exists(q.user)
    /\ q.copy.provider = row.provider
    /\ q.copy.username = row.username
    /\ \/ /\ q.kind = "ensure"
          /\ q.copy.password = Hash(q.form.password)
       \/ /\ q.kind = "callback"
          /\ q.copy = row
          /\ row.provider = q.form.provider
          /\ row.email = q.form.email

SessionUsersExist ==
  \A s \in Slots : req[s].step = "session" => req[s].user \in Ids /\ Exists(req[s].user)

UsersInv ==
  /\ TypeOK
  /\ NamesAreUnique
  /\ PasswordsWork
  /\ AdminsWereConfigured
  /\ \A s \in Slots : req[s].step # "idle" => Placed(s)
  /\ \A s \in Slots : CopyMatches(s)
  /\ SessionUsersExist
  /\ SessionsForTheRightUser
=============================================================================
