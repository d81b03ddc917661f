# Taronja Gateway in TLA+

Taronja Gateway is an HTTP gateway in Go: it proxies and serves files along
configured routes, authenticates browsers with session cookies and API clients
with bearer tokens, keeps counters and traffic metrics for its users in a SQLite
database, and limits the rate of requests per client address. This directory
models the parts of it whose correctness depends on the order of things: rows
read by one request and written by another, transactions, timeouts, restarts,
maps shared by requests and goroutines, and what a configuration makes of a
request: which handler it meets, who is let in, and where the redirects end.

Every module describes the code as it is, line by line in what it does and not
in how it is written; `PROJECT.json` gives the source lines behind each
definition, the runs, and for every property a plausible bug that breaks it (the
"Broken variant" operators in the modules).

    tlc -workers 2 -config MCSessionStore.cfg MCSessionStore.tla
    tlapm SessionStoreProofs.tla

## 1. Inventory

How the parts meet: `main.go` opens the database, creates the repositories and
services (`gateway/deps`), and builds one `http.Server`. A request passes the
global chain (rate limiter, then with `management.analytics` the JA4H
fingerprint, session extraction and traffic metrics, then logging), then the mux,
then the chain of its route (session check if the route demands it, cache
headers), then the handler. Every request is a goroutine of its own. They share
the database (WAL mode, ten connections) and three in-memory structures: the
limiter's entries, the JA4H cache and the geolocation cache.

| component | state | operations | what is hard | what makes it correct |
|---|---|---|---|---|
| cookie sessions (`session/`, `db/sessionrepository.go`, `middleware/session*.go`) | the `sessions` table | create at login, validate (find, check, save or close), close at logout and at the dashboard | a validation is three statements and saves the whole row; each request is validated up to twice; errors are dropped | an expired or ended session lets nobody in; only administrators reach the dashboard; a logout closes |
| bearer tokens (`auth/`, `db/tokenrepository.go`, `handlers/api_tokens.go`) | the `tokens` table | create, validate (find, check, expire or count), revoke | five statements per validation; revocation and expiry race with them | a dead token serves nobody and stays dead; no use is lost |
| counters (`db/countersrepository.go`, `handlers/api_counters.go`) | the `counters` table: every row an amount and the balance after it | adjust (a transaction), balance, history | the balance is found by wall clock; snapshots, write lock, failed commits; three reads without a common snapshot; `int` overflow | every row continues the one before; balances behave like one adjustment at a time |
| rate limiter (`middleware/ratelimiter.go`) | a `sync.Map` from address to entry, each entry with a mutex | look up, lock, check, record; record an error or a scan; cleanup | the entry is looked up before it is locked, and the cleanup deletes in between; old timestamps and old ticks; three limits write one block | at most the limit per window; a block ends when it ends, or when a shorter one replaces it; stale entries are forgotten |
| users and admin bootstrap (`db/userrepository.go`, `handlers/api_users.go`) | the `users` table | create (check, then insert), update (whole row), ensure the admin at start | check and insert are two statements; the start changes an existing user's password and not his provider | one row per name; the configured admin can log in, and only he is an admin |
| OAuth login (`providers/`) | cookies with state and redirect; the `users` table | login, callback | two callbacks of one new user; a user known to another provider; a user without an e-mail | a session only for the user the provider named; never an admin's |
| traffic metrics and statistics (`middleware/trafficmetric.go`, `db/trafficmetricrepository.go`, `handlers/api_statistics.go`) | the `traffic_metrics` table | record, by a goroutine after the response; ten aggregates and a list | rows are stored late, in any order, or never; a report is ten statements without a transaction | a row says what its client saw; every answered request is recorded; a report accounts for every row |
| geolocation cache (`session/ipgeo.go`) | a map under a RWMutex | look up, fetch outside the lock, store | misses that race; a service that hangs; entries that expire | a location is never older than its time to live and one call |
| fingerprint cache (`middleware/performance.go`) | a third-party cache | get or compute | its key leaves out the cookies | a fingerprint is one of the same key, and recent |
| configuration (`config/`, `middleware/validation.go`) and routes (`gateway/gateway.go`) | the mux, fixed after the start | load, validate, register; match, serve, proxy, fall back | patterns that overlap, in any order; prefixes; folders missing at the start; cache headers set twice | protected pages stay protected; the gateway's own pages stay reachable; refusals are not cached |
| login flow (`static/login.html`, `providers/`, `middleware/session.go`) | cookies of a browser: session, state, redirect | refuse, show the login page, log in, return | pages that redirect to one another; two tabs with one set of cookies | redirects end; a tab ends up where it was going |
| management API (`api/api.gen.go`, `handlers/`) and Go client (`clients-temp/go/`) | none | twenty operations, each routed, bound, decoded, authorised, handled, parsed | client and server are generated apart; paths are built and taken apart again | a call reaches its operation with its arguments; its answer has a type |
| wiring, logging, webapp, other SDKs | - | I/O, browser code, generated code | - | - |

`PROJECT.json` lists the hazards at their lines.

## 2. Plan

1. **SessionStore** with the abstract SessionLifecycle - done.
2. **Counters** with the abstract CounterBank - done.
3. **ApiTokens** - done.
4. **RateLimiter** - done.
5. **Users**: the users table, the API's creation, EnsureAdminUser at every start
   with a configuration that may have changed, the OAuth callback and the password
   login - done.
6. **GeoCache** and **Traffic**, which extends it - done.
7. **Routing**, **Api**, and **Gateway**, which composes them - done. Planned first
   as operators over short paths; it has become a state machine, because what a
   path is answered with depends on the start, the session, the disk and the tabs.
8. Composition of SessionStore with Users: SessionStore draws `isAdmin` freely at a
   login; composed with Users it is the provider of the user who logs in, and a
   session of an administrator is one of a configured administrator. Left.
9. Proofs of the refinements and of the safety properties of every component - done
   but for those section 6 lists as model-checked only.

Each module is written to be proved about: constants with named assumptions, one
action per statement or critical section, invariants as conjunctions of named
parts, no RECURSIVE operators.

## 3. The modules

### SessionStore, SessionLifecycle

A database call is one action, because each is one autocommitted statement; what
a handler does between two calls belongs to the one before it. The exception is
`Check`, `time.Now()` and the comparison, a step of its own so that time may pass
between the read and the comparison. `req[r]` is the handler in slot r: its step,
the route it takes, the cookie, and `copy`, the row it has read.

| action | code |
|---|---|
| Find, FindNothing | `FindSessionByToken` and the early returns of `ValidateSession` |
| Check | `ValidUntil.Before(now)` |
| Save | `UpdateSession`: gorm's `Save`, every column as it was read |
| CloseExpired, EndSession | `CloseSession`: `UPDATE ... WHERE closed_on IS NULL` |
| Validated, AfterAccept, AfterReject, RouteEntry | where the two middlewares, the dashboard, the login, the logout and the OAuth callback go next |
| NewSession, LoginFails | password login or OAuth callback |
| Crash, Tick | restart (the table survives), wall clock |

`late` and `hopeless` in `req[r]` are history: what was true when the request
arrived. "Ended" means closed with no validation left that holds a copy of the
open row. This is the strongest promise the code keeps: a closed row can come back
(run `reopened`), but only through a copy read before the close.

SessionLifecycle is the promise without mechanism: a token is issued once, lives,
ends, never comes back, and only a live one admits a request. `Promise` is the
refinement: live = open, or still held open by a copy.

A request with a bearer token touches no session row unless the token fails and a
cookie comes with it; it then behaves as the cookie request modelled here.

### ApiTokens

The same style. `tokens[t]` holds what the decisions read: `active`, `expiresAt`,
`revokedAt`, `usage`. Updates name their columns here, so that no statement undoes
another's; `SaveUsageCount`, the whole-row save the sessions use, is the broken
variant that shows the difference. `AskToRevoke` stands for `DeleteToken` and for
the token service's own `RevokeToken`, which refuses a second revocation (the API
does not: it overwrites `revoked_at`, although auth/token_service_test.go:138 says
"Try to revoke again - should fail").

With analytics on a request is validated twice and counts twice, although
doc/adr/0006-token-authentication.md:20 speaks of each access. NoUseLost therefore
counts validations.

### Counters, CounterBank

`ledger[a]` is the account's rows in commit order; the order the code sees is
`Newer`, by `created_at` and then by id. An adjustment is a SQLite transaction:
its SELECT fixes a snapshot, any commit after that makes it `stale`, and a stale
transaction, or one that meets a writer, fails at its INSERT (busy_timeout does
not help a transaction that already reads). `OtherWrite` is any other table's
commit. `Stamp` draws `created_at` before the INSERT, as gorm does. `Wrap` is the
addition of a Go `int`, with `MaxInt` a parameter. Histories are three queries on
three snapshots.

CounterBank is a balance per account, changed by one deposit at a time between 0
and MaxInt. `Promise` maps the balance to the newest row.

### Users

Again one action per statement. FindUserByIdOrUsername is FindByEmail and then
FindByName; what a handler does with the row it finds is `Accepts` and `Updated`,
what it inserts `NewRow`. The four kinds of handler share these actions: "create"
(POST /api/users), "login" (password), "callback" (OAuth, from the account that the
provider has answered on), and "ensure", the start's EnsureAdminUser, which runs in
the slot `Main` while no request does. `AddUser` is the command line, another
process, and may come at any time. `Start` takes any of the configurations, so that
the admin is renamed, given another e-mail or disabled from one start to the next.

`Taken` are the UNIQUE constraints, for empty strings too
(db/userrepository_test.go:210 tests that the database enforces them). A stored
password is `Hash(p)`; `BeforeSave`
is gorm's hook, and the API and LoadConfig hash before it. `chosen` and
`configured` are history: the password last chosen for a user, the user names of
all admins so far. The profile, the confirmation of an e-mail (only read after it
was set) and the session itself are left out; SessionStore has the latter.

### RateLimiter

A critical section is one action; the lookup of the entry is another, before it.
`heap` holds the entry objects, because an entry that the cleanup has removed from
`table` may still be held, and written, by a request. `now` is the timestamp a
request took when it arrived. The cleanup takes a tick, which may be old, and
visits the keys one by one (`StartSweep`, `Sweep`); the key set of a `sync.Map`
range is any set between the keys of its start and those stored meanwhile. A swept
address, its deletion included, is one action: an entry cannot be replaced in the
table while it is still there.

Anything may come between a request's timestamp and its lock: time, other requests with
later timestamps, a sweep. `admitted` and `awaited` are history. `admitted` has the
timestamps of the requests let through by the entry in the map; one let through by an
entry that the cleanup has deleted meanwhile is left out (`Admit`), because nothing in the
program counts it. `awaited` is the end of the block that a request met when it arrived,
lowered when an error or a scan assigns a shorter block to the entry (`Overwrite`); the
request limit assigns a block only once the one before is over for its request. The two
properties about the limits say what the code keeps under all this. AtMostRPM is exact for
the window that ends now. A window that ended earlier may still get the timestamp of a
request that waited for its lock, hence the number of slots beside the limit; the run
meets that bound. BlockedNotServed says that nothing but those assignments ends a block
early.

Timestamps are whole ticks and windows a few ticks long: only their order and
distance is compared. The configuration is one that `ValidateRateLimiterMiddleware`
accepts, hence Block >= Window. Matching a path against the scan patterns is an
input (`watched`).

### GeoCache, Traffic

GeoCache is GetGeoDataFromIP: the read under the lock and the write under the lock
are one action each (`GetGeoData`, `StoreGeo`), the call between them another
(`FetchGeo`, `FetchFails`), and nothing is held in between. An answer is told apart
by its address and by the moment at which the service gave it; the Timestamp of the
entry is the moment at which it was decoded, up to a timeout later. The clock does
not pass a call's timeout (`InTime`).

Traffic follows a request: `Arrive` (fingerprint from the cache or computed, session
extracted), `Serve` (the handler's calls of WriteHeader: what the wrapper notes is
`Status`, what the client gets is `Sent`) or `Panic`, the lookup of its location,
and `Create`, the INSERT of the goroutine. NewTrafficMetric looks the location up
before the middleware returns, so the lookup delays the end of the response; the
goroutine has only the INSERT. A slot is free again when the row is stored or lost.
A fingerprint is the key and the cookie, because JA4H hashes the cookies and the
cache's key leaves them out; `cached` may be false though the entry is fresh, since
the cache drops what it likes.

A report is `BeginReport`, one `Query` per statement, `EndReport`. One statement of
each kind stands for the others: sizes are averaged as times are, device types,
platforms, browsers and fingerprints are counted as countries are. `told` and `lost`
are history: what each client saw, and which rows could not be stored.

### Routing, Api, Gateway

Routing goes from the configuration file to the answer. `Start` is
NewGatewayWithDependencies in its order: LoadConfig, ValidateAllMiddleware,
management routes, the user's routes one by one, the callback, the admin; each may
refuse, and a pattern registered twice panics (`Panics`). A path is the sequence of
its segments, "/" at its end an empty last one. An entry of the mux remembers what its
handler captured at the registration (`how`, `whole`: what the file system was like
then). `Find` is ServeMux's choice for the patterns this program registers. What a
configuration file may say at all is `GatewayConfig`.

| action or operator | code |
|---|---|
| NormalPrefix, ConfigError, Loaded, Validate... | `LoadConfig`, `middleware/validation.go` |
| RegisterManagement, RegisterRoute, RegisterCallback | `configureManagementRoutes`, `configureUserRoutes`, `configureOAuthCallbackRoute` |
| Refuses, Refusal, CacheHeader | `BuildRouteChain`: session middleware, then cache middleware |
| FolderAnswer, FileAnswer | `createStaticHandlerFunc`, `spaHandler` |
| Director, ProxyAnswers | `createProxyHandlerFunc`: the director, the fallback, the error handler |
| Dashboard, BasicLogin, OAuthLogin, Callback | `registerDashboard`, `RegisterBasicAuth`, `AuthenticationProvider` |
| LoginScript, Press | the script, the buttons and the form of `login.html` |
| Open, Follow, Close, ProviderReturns, SessionEnds, Deploy | the browser, the provider, the end of a session, whoever changes the files |

Tabs share the session cookie and the cookies of an OAuth login; each handler's
answer is one action, because the database statements under it are SessionStore's and
Users'. `asked`, `hops` and `elsewhere` are history.

Api is one call of the management API at a time: `Call` (the generated client builds
the request), `Receive` (the mux behind the prefix and the wrapper's parameters),
`Decode` (the body, before anybody is authenticated), `Authorize`, `Handle`, `Parse`,
`Return`. Both generated files are tables: what the server routes, binds and writes,
what the client builds and reads. They are translated independently, operation by
operation, so that the model can find them to disagree.

Gateway composes the two: a call goes to the pattern that Routing's mux has for its
path (`Deliver`), so a user's route that takes a path of the API over does so in the
model. Calls are made while the tabs rest: they share nothing with them but the mux.

## 4. Runs

| run | question | bounds |
|---|---|---|
| sessions | do expired or ended sessions let anyone in, do the handlers keep SessionLifecycle's promise | 2 sessions, 2 requests, clock to 2, faults and restarts |
| logout | does a logout close the session | 1 session, 2 requests, fair |
| reopened | does a closed row stay closed - no | 1 session, 2 requests |
| tokens | does a dead token serve anyone or come back | 1 token, 2 requests, clock to 3, faults and restarts |
| token_use | is any use lost, does a use after the expiry deactivate | 1 token, 2 requests, fair |
| counters | does the ledger add up, does a history go back in time, are the counters a bank | 2 accounts, 2 adjustments and 1 history at once, MaxInt 3, amounts -2, 1, 3, faults and restarts |
| users | does exactly the last password open an account, who becomes an admin, whose session is issued, is an account without an e-mail taken for somebody else | 3 users, 2 requests, 4 forms, 2 accounts, 3 configurations whose names and e-mails overlap; faults and stops |
| limiter | is a visible block bypassed or forgotten, is a stale entry kept, is an entry bounded | 1 address, 2 requests, 3 entry objects, window 2, block 3, clock to 6 |
| limiter_mixed | with all limits and blocks of two lengths, is the limit exact and a block bypassed, whatever delays a request | 1 address, 2 requests, 2 entry objects, each limit 1, window 2, blocks 2 and 3, clock to 4 |
| traffic | does a row say what its client saw, is a location or a fingerprint stale, does a report add up, is every answer recorded | 2 requests at once and 2 in all, 2 addresses (one local), 2 cookies, lifetimes of 1 and 0 ticks, clock to 2, one report; a user called "guest"; faults, restarts; fair |
| gateway | who is shown what, where do redirects end, do calls reach their operation | 3 sites that come up and 14 that are refused, 2 tabs, 2 states of the disk, 4 redirects, 2 OAuth logins; every operation, 2 ids, a user's and an admin's session |
| prefix | do the login buttons work under a prefix of one's own - no | 1 site, 2 tabs |

Why these bounds are enough to meet the cases: three users are two that quarrel over
a name and one who is created meanwhile; the forms, accounts and configurations of
MCUsers are chosen so that every e-mail and name is used by two of them. Two requests are the writer and the
stale reader of every race in the code, and a third only repeats one of them; two
sessions are one that is reused and one that must not be touched; three entry
objects are one in the map and one in each request's hands; the clocks run far
enough for an expiry, a full window, a full block and a tick that waits. Sums up to
twice MaxInt wrap in both directions. The sites of MCGateway are one of everything:
two tabs and two kinds of login; overlapping routes with and without protection,
folder, file, proxy and SPA, caching on and off, a missing folder and a bad URL under
a prefix of one's own; the prefix "/"; and one configuration for each way to refuse a
start. In the run traffic lifetimes are as short as they can be and still be hit: a
location is cached for the tick it was fetched in, a fingerprint too, and the next tick
finds both expired; three ticks are a call that lasts, its timeout and an expiry. Bounds in
guards: MaxTime, MaxUses, MaxClock, MaxRequests, MaxHops, MaxLogins, MaxRows (with
InFlight and Room keeping space for transactions under way).
The limiter's runs do not check deadlock: with the clock at its bound and the
entries full of requests nothing is left to do; nor does the run gateway, where a
refused start is the end of the process.

Fairness: `traffic` assumes that a call of the geolocation service ends at the latest
with its timeout, and that the goroutine that has reached the store or the INSERT runs
on; the service need not answer, a handler need not return, and the clock need not
move. `logout` and `token_use` assume that each handler, if it can take a step
for good, takes one. net/http starts a goroutine per request and the scheduler runs
it; no handler waits for another. There is no fairness for arrivals, logins, faults
or the clock. The last two are without faults and restarts: an error from CloseSession
or ExpireToken is dropped by the code, and nothing is promised then.

## 5. What the code does not do

Two runs end in a violation; each quotes the comment it refutes (`findings` in
PROJECT.json): a closed session is reopened by a validation that read it before
(session.go:71); with a configured prefix the OAuth buttons of the login page lead
nowhere, because the endpoints are always under `/_` (providers.go:314).

Seen while modelling and not a run of their own, in what is stored: a clock set back
between two adjustments makes an older row the newest by `created_at`, and a committed
adjustment drops out of the balance (countersrepository.go:171); the cleanup deletes an
entry between a request's lookup and its lock, and what that request is let in for is
counted nowhere, so that one request too many passes (ratelimiter.go:274; `Admit`); an admin renamed in the
configuration is found by his e-mail and keeps his old user name
(userrepository.go:118); a session is not renewed by
activity (session.go:70; doc/adr/0002-login-workflow.md:36 says it is); a failed
balance query reports balance 0 (countersrepository.go:237); a history whose count
found nothing may list a row committed after it (countersrepository.go:224); a scan
block with a shorter `blockMinutes` replaces a longer block and ends it early, and a
longer one is cut short by a request that was under way and records an ordinary block
after it (ratelimiter.go:125; `Overwrite`, met by the run `limiter_mixed`); a second user
without an e-mail cannot be created, an admin included, so that the start fails
(userrepository.go:147), and a GitHub user without one is let in only once
(providers.go:206); two creations of one name end in 500 where one after the other
ends in 409 (api_users.go:112); with scan `urls` but a
scan `blockMinutes` of 0 an entry with scan timestamps is never forgotten
(ratelimiter.go:213), which is why StaleForgotten excludes it.

In routing and in the login: the director of the proxy joins the target's path a second
time, so that `to: http://host/v1` gets `/v1/v1/...` and `removeFromPath` looks at a path
that begins with `/v1` (gateway.go:501-527); an upstream
that cannot be reached ends the connection without an answer unless a middleware has
wrapped the writer, since the error handler hijacks first (gateway.go:594); the SPA
fallback removes all headers set so far, `private, no-store` of a protected route
included (gateway.go:826); errors of a file carry the route's max-age; a negative
`cacheControlSeconds` keeps the gateway from starting (validation.go:236), although
config.go has an answer for it; a protected route whose folder is missing at the start
is skipped, and its paths fall to a broader route that may be public (gateway.go:415);
`toFile` with a `from` that ends in "/" registers one pattern twice and panics, as does
the prefix "/" with basic authentication, and with that prefix refusals redirect to
`//login`; the form of a second tab leads to "/" once the first has logged in
(basicAuthentication.go:82); when two tabs begin an OAuth login the first one to return is
refused with 401, because the second has overwritten its state.

In the API: a body is decoded before the caller is authenticated, so that a stranger gets
400 rather than 401; the 401 of CreateUser is not in the document and comes out of the
client untyped; GetOpenApiYamlWithResponse always fails, because it unmarshals a map into
a string (apiclient.gen.go:3295); an empty id makes the client build the path of another
operation, which is why the model's ids are not empty. In the statistics a user called
"guest" and the requests without a user overwrite each other (trafficmetricrepository.go:253).

## 6. Proofs

For every value of the constants that the named assumptions allow:

- **SessionStoreProofs**: SessionInv is inductive, hence TypeOK,
  ExpiredNeverAdmitted, EndedNeverAdmitted and DashboardForAdmins. The properties
  alone are not inductive: a handler about to save could be anything. CopiesMatch
  says that a copy differs from its row in closed_on only; HistoryHolds that what had
  passed or ended stays so and keeps its request out of the saving steps;
  AdmittedTokens that who is let through was issued a token. The proof has one
  lemma for the table (no row loses its expiry, its admin flag or its existence) and
  one step per action. SessionsKeepPromise is the refinement of SessionLifecycle: under
  SessionInv every step of a handler is one of the lifecycle or a stutter. The step to
  look at is `Save`, which may reopen a row: the token it puts back has not ended in the
  lifecycle, because a copy of the open row was still held.
- **ApiTokensProofs**: TokenInv, hence DeadNeverServed and RevokedIsInactive, and
  from it InactiveForGood as a property of each step. NoUseIsLost has an invariant of its
  own, UseInv: without faults and crashes the stored count is the number of validations
  that have counted or been accepted since, a cardinality that each step moves with
  `usage + 1` in the UPDATE. It assumes finitely many requests at once.
- **CountersProofs**: LedgerInv, hence LedgerExact and HistoryForward, and that each
  step of Counters is a step of CounterBank or a stutter (CountersAreABank). All
  three assume ClockMovesOn, every reading of the clock later than the one before:
  without it the newest row need not be the last (section 5). Chronological makes the newest row the last one;
  SnapshotsHold says that a transaction that is not stale still continues its
  account; OneWriter keeps two of them from committing on one snapshot.
- **RateLimiterProofs**: LimiterInv (types, past ticks, placed requests), and five
  properties, only EntriesBounded and StaleForgotten under an assumption.
  BlockedRefused, for all limits, blocks of any lengths and any delay: a
  request that awaits the end of a block is before its lock, and the entry in
  the map, which is the one it will lock, is blocked at least as long (BlocksHold). A
  sweep keeps that because it does not delete a blocked entry, the request limit because it
  only writes to an entry that is not blocked, and for the other two limits what is
  awaited is lowered with the block. CleanupKeepsBlocks, that the cleanup never removes a
  running block, as a property of each step.
  EntriesBounded (request limit alone, finitely many requests at once), that an entry
  holds at most RPM timestamps and one for each request under way. Why not RPM: trimming
  stops at the first timestamp that is young, so that a request that waited for the lock
  with an old one hides behind a younger. BeyondLimit says that what is beyond the limit
  was let in after the block of the one before and is older than the first; Overtaken
  counts them, as the timestamps behind a younger one and the requests that may still
  come to add one are together fewer than the requests there are.
  StaleForgotten, that the cleanup removes every stale entry it visits, with any
  mixture of limits; NoScans says that nothing is recorded of scans that are not watched.
  LimitHolds, that the entry in the map lets through at most RPM requests of the window
  that ends now, and of an earlier one at most as many more as there are requests at once,
  for any limits and any delay. It is about a history without a bound and still needs no
  induction over it. Whatever the clock will be, the
  requests let through that are not older than a window by then are at most as many as the
  timestamps on the entry that are not (OnRecord): trimming drops only what is old, and a
  request is appended to both. The limit is checked on the trimmed entry at the lock, so
  they are at most RPM (Within). For a window that has ended, LateOnes adds the requests
  under way with a timestamp that may still fall into it: no more come once it has ended,
  and each that is let through takes its place among those counted.
- **UsersProofs**: UsersInv, hence NamesAreUnique, PasswordsWork,
  AdminsWereConfigured and SessionsForTheRightUser, and from it ProviderForGood and
  StrangersAreNew as properties of each step. For the latter an invariant of its own,
  StrangersInsert, says that a callback without an e-mail never comes to save a row. `Placed` says that the start is alone, and therefore that no
  password or e-mail changes under a request; `CopyMatches` that a row about to be
  written differs from the stored one only in what the configuration sets. A new row,
  a renewed row and an untouched table are the three cases of the proof (Added,
  Renewed, TableUntouched); RowsLast carries a handler's invariant over the steps of
  the others.
- **TrafficProofs**: TrafficInv, which contains GeoInv of the cache, hence TypeOK,
  RowsTellTheTruth, LocationsAreFresh and FingerprintsAreRecent. A row is correct because
  what a slot or a goroutine under way is about to store is (`UnderWay`, `Noted`), a
  location because a lookup keeps the age of what it read (LookupGood, CacheGood), and
  a fingerprint because what is cached is one of a request with the same key
  (CachedFingerprints, RecentFor). The first of the three assumes OneFinalStatus: a
  handler that sends a status sends one final one, and it last. ReportsTrue, hence
  ReportsAddUp, has an invariant of its own, ReportInv: for each statement that has run
  there is the set of rows it read, which contains what was in the range at the beginning
  and what the statements before it read, and the statement's figure lies between the
  size of that set without the rows it hides and its size (Accounts). A figure is a sum
  over groups, and no induction is needed for it: the sum is the size of a disjoint union
  (Tallies), which has one element for each row that is in a group. A group that
  overwrites another of the same name, as that of a user called "guest" does, loses rows
  and adds none (UsersAddUp).
- **GatewayProofs**: GatewayInv, of the mux (MuxFacts), the tabs (TabsFacts) and the API's
  call, hence TypeOK, ManagementIsReachable, RefusalsNotCached and, as a property of
  each step, ProtectedStaysProtected, for every configuration, any number of routes and
  any order of them. The argument for the mux: of the patterns that cover a path, the
  longest decides; two of the same length that end alike are one (SameLength), and no
  pattern is registered twice (OnePattern), so `Find` has one answer. A route in use has
  all its patterns in the mux (AllPatterns), and therefore a protected one is only passed
  over for a more special pattern, which is the gateway's own or that of a public route.
  That every path of the gateway's own has its pattern, no route has the same,
  and none is longer, is the proof of ManagementIsReachable; only `me` shares a pattern
  that ends in "/", so a route for that path may take it over.
  CallInv follows a call from the client to its typed result, hence CallsArrive and
  AnswersTyped: what is sent is what the client builds for its operation against one of
  the servers a program may name; what has been received has arrived at that operation with
  those arguments; and what was answered as JSON is typed. The step to look at is
  `Receive`, for which ApiProofs has the facts below.
  LoginsInv, hence LoginsStayApart: states are numbered by the logins, so a login takes one
  that no tab has, and every other step of a tab keeps its state or gives it up.
- **ApiProofs**: lemmas about Api for GatewayProofs. Pattern, wrapper and client agree for
  each of the twenty operations (RoutesFit), what the server writes is what the
  client reads (SameAnswers); two patterns of a method differ at a segment that is a name in
  neither (RoutesDiffer), and ids are no names, so that a path built for one operation fits
  no other pattern (Arrives) and the wrapper takes out of it what the client put in
  (GivenBack); with "api" in front once more it fits none (GoesAstray).

Type correctness is proved of all these components (TypeCorrect). The uniqueness of names,
RevokedIsInactive, DashboardForAdmins and ProviderForGood are proved and not part of a
run: each rests on one guard, one assignment or one constraint. LoginsApart is the part of
BackWhereAsked that holds everywhere, and the run of that one covers it. Every invariant named
here was checked by TLC on the runs' instances before it was proved.

The assumptions on constants are those a program has anyway: clocks, limits and lifetimes
are natural numbers, requests at once are finitely many where they are counted, a
location lives for at least a tick, there is an address, the values that stand for
nothing are none of the others, and a configuration has the types of the Go structs.
RoutingConstants also spells out two facts that the provers are not told: that the names
in the gateway's own paths are strings, and that SelectSeq keeps the type of a sequence.

Model-checked only:
- liveness (LogoutTakesEffect, ExpiredWhenUsed, AnsweredIsRecorded), because the prover
  has no rule for fairness and ENABLED;
- RedirectsEnd and BackWhereAsked, because they are not true of every configuration, and an
  assumption that makes them so would be most of the statement. TLC finds both broken
  when the constants are chosen for it. A folder that a deployment turns into a file and
  back, over and over, sends a tab from `/docs` to `/docs/` and back for as long as that
  goes on. Under a prefix of one's own a provider has a button that
  leads below that prefix (the run `prefix`), where a public route may show the tab a page
  it was not going to. On the sites of MCGateway both hold; what BackWhereAsked rests on where
  two tabs share one cookie is LoginsStayApart.

## 7. Not modelled

The exchange of code and token with the provider: a failure of it is one outcome of
`Callback`. The text of pages; cookies' attributes; hashing and the randomness of tokens
and states (a fresh one is one never issued before); last_activity, last_used_at and
client information, which no decision reads; foreign keys and migrations.

In Routing: ServeMux, http.FileServer, StripPrefix and the reverse proxy are external and
modelled by what this program meets of them; paths are clean, without escapes, and a "*"
in the middle of `from` is a literal, as it is for ServeMux; empty folders do not exist;
the Cache-Control of an upstream and the headers a proxied request is given
(gateway.go:530-541 and 607-669) are left out; that a session's end at the dashboard may
fail is SessionStore's. In Api: a parameter that does not parse is answered with 400 by the
wrapper, and the typed client sends none. In Traffic: the server's time zone and the parsing of dates; what
wrapping the writer does to Flusher and Hijacker is `Wrapped` in Routing.

Without a caller, and therefore not modelled: convertToServeMuxPattern and
hasMiddleWildcard (gateway.go), BuildOptimizedGlobalChain and its counters
(performance.go), ConditionalStatisticsMiddleware, FindByDateRange, FindByPath,
DeleteUser. The dashboard's React application, the clients in other languages, logging and
the command line are I/O, generated or straight-line code. The composition of SessionStore
with Users (plan, item 8) is left.
