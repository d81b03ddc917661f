------------------------------ MODULE Routing ------------------------------
(***************************************************************************)
(* From the configuration file to the answer of a request: LoadConfig,     *)
(* ValidateAllMiddleware, the registration of the management routes, the   *)
(* user's routes and the callback on one http.ServeMux, and then the       *)
(* handlers behind the patterns: login page, providers, dashboard, static  *)
(* files, single page applications and proxies, with the session and cache *)
(* middlewares of each route.  Browser tabs that share their cookies send  *)
(* the requests and follow the redirects.                                  *)
(*                                                                         *)
(* A path is the sequence of its segments: "/a/b" is <<"a", "b">>, "/a/"   *)
(* is <<"a", "">>, "/" is <<"">>.  A URL to forward to is its path, <<>>   *)
(* when it has none.  The paths of requests are clean, as ServeMux makes   *)
(* them.                                                                   *)
(***************************************************************************)
EXTENDS Integers, Sequences, FiniteSets, SequencesExt

CONSTANTS
  Sites,      \* configuration files
  Visits,     \* the paths each tab may be asked for, for each of them
  Disks,      \* what the file system may hold: sets of paths of files
  Tabs,       \* the tabs of the browser
  NoPath,     \* no path, no URL
  BadURL,     \* a "to" url.Parse refuses
  MaxHops,    \* bound of the redirects a tab follows
  MaxLogins   \* bound of the OAuth logins begun

(* What a configuration file may say; the program has the defaults of what *)
(* it leaves out.                                                          *)
Paths == Seq(STRING) \ {<<>>}

Credentials == [id: BOOLEAN, secret: BOOLEAN]

RouteConfig ==
  [from: Paths, static: BOOLEAN, toFile: Paths \cup {NoPath}, toFolder: Paths \cup {NoPath},
   to: Seq(STRING) \cup {NoPath, BadURL}, remove: Paths \cup {NoPath}, spa: BOOLEAN,
   auth: BOOLEAN, cache: [set: BOOLEAN, seconds: Int]]

GatewayConfig ==
  [port: Nat, prefix: Paths, basic: BOOLEAN, google: Credentials, github: Credentials,
   admin: [enabled: BOOLEAN, username: BOOLEAN, password: BOOLEAN],
   analytics: BOOLEAN, logging: BOOLEAN,
   limiter: [rpm: Int, errors: Int, block: Int, max404: Int, urls: BOOLEAN, scanBlock: Int],
   routes: Seq(RouteConfig)]

(* The names the gateway's own paths are made of.                          *)
OwnNames == {"", "_", "*", "auth", "basic", "login", "github", "google", "callback", "static",
             "admin", "me"}

(* The first conjunct, and the second line of the next, are what provers   *)
(* are not told of the strings and of SelectSeq.                           *)
ASSUME RoutingConstants ==
  /\ OwnNames \subseteq STRING
  /\ \A s \in Sites : /\ s \in GatewayConfig
                      /\ SelectSeq(s.prefix, LAMBDA x : x # "") \in Seq(STRING \ {""})
  /\ BadURL # NoPath
  /\ \A s \in Sites, t \in Tabs : \A p \in Visits[s][t] :
       p # NoPath /\ \A i \in 1..(Len(p) - 1) : p[i] # ""
  /\ MaxHops \in Nat /\ MaxLogins \in Nat

VARIABLES
  site,     \* the configuration file
  phase,    \* how far the start has come
  conf,     \* the configuration in memory
  next,     \* the route to be registered next
  mux,      \* the registered patterns
  disk,     \* the files that exist now
  session,  \* what the session cookie of the browser stands for
  oauth,    \* its cookies for an OAuth login: state and redirect
  logins,   \* OAuth logins begun
  tabs      \* the tabs

routingVars == <<site, phase, conf, next, mux, disk, session, oauth, logins, tabs>>

-----------------------------------------------------------------------------
(* Configuration.                                                          *)

(* Broken variant: only the "/" at the front is removed.                   *)
NormalPrefixLeft(raw) ==
  IF raw = <<"">> THEN <<"_">> ELSE IF Head(raw) = "" THEN Tail(raw) ELSE raw

(* "" is <<"">>, "_" <<"_">>, "/_" <<"", "_">>.                            *)
NormalPrefix(raw) ==
  LET trimmed == SelectSeq(raw, LAMBDA s : s # "")
  IN IF raw = <<"">> THEN <<"_">> ELSE IF trimmed = <<>> THEN <<"">> ELSE trimmed

ConfigError(s) ==
  \/ s.port = 0
  \/ s.admin.enabled /\ ~(s.admin.username /\ s.admin.password)
  \/ \E i \in DOMAIN s.routes :
       s.routes[i].static /\ (s.routes[i].toFolder = NoPath) = (s.routes[i].toFile = NoPath)

Loaded(s) ==
  [s EXCEPT !.prefix = NormalPrefix(s.prefix),
            !.admin = IF s.admin.enabled THEN s.admin
                      ELSE [enabled |-> FALSE, username |-> FALSE, password |-> FALSE]]

HasAnyAuthentication(c) == c.basic \/ c.google.id \/ c.github.id \/ c.admin.enabled

LimiterIsEnabled(l) == l.rpm > 0 \/ l.errors > 0 \/ l.max404 > 0 \/ l.urls

(* production dependencies are never nil: the checks that are left.        *)
ValidateAdminAccess(c) == c.admin.enabled => c.admin.username /\ c.admin.password

ValidateRouteConfiguration(c) ==
  \A i \in DOMAIN c.routes :
    LET r == c.routes[i]
    IN /\ IF r.static THEN ~(r.toFile = NoPath /\ r.to = NoPath /\ r.toFolder = NoPath)
          ELSE r.to # NoPath
       /\ r.cache.set => r.cache.seconds >= 0

ValidateRateLimiter(c) ==
  LET l == c.limiter
  IN LimiterIsEnabled(l) =>
       /\ l.rpm >= 0 /\ l.errors >= 0 /\ l.block > 0 /\ l.max404 >= 0
       /\ l.max404 > 0 => l.urls /\ l.scanBlock > 0

ValidateAuthentication(c) ==
  (\E i \in DOMAIN c.routes : c.routes[i].auth) => c.prefix # <<>>

LoadConfig ==
  /\ phase = "config"
  /\ IF ConfigError(site)
     THEN phase' = "failed" /\ UNCHANGED conf
     ELSE phase' = "validate" /\ conf' = Loaded(site)
  /\ UNCHANGED <<site, next, mux, disk, session, oauth, logins, tabs>>

ValidateAllMiddleware ==
  /\ phase = "validate"
  /\ phase' = IF /\ ValidateAuthentication(conf) /\ ValidateAdminAccess(conf)
                 /\ ValidateRouteConfiguration(conf) /\ ValidateRateLimiter(conf)
              THEN "management" ELSE "failed"
  /\ UNCHANGED <<site, conf, next, mux, disk, session, oauth, logins, tabs>>

-----------------------------------------------------------------------------
(* Files.                                                                  *)

IsFile(f) == f \in disk
IsDir(d) == \E f \in disk : Len(d) < Len(f) /\ IsPrefix(d, f)
Exists(f) == IsFile(f) \/ IsDir(f)

Index(folder) == Append(folder, "index.html")

-----------------------------------------------------------------------------
(* Registration.  An entry of the mux remembers what its handler captured. *)

Entry(method, path, kind, n) ==
  [method |-> method, path |-> path, kind |-> kind, n |-> n, how |-> "code", whole |-> FALSE]

Management(path, kind) == Entry("ANY", path, kind, 0)

Providers(c) == {name \in {"github", "google"} : c[name].id /\ c[name].secret}

ProviderRoutes(c) ==
  (IF c.basic \/ c.admin.enabled
   THEN {Entry("POST", c.prefix \o <<"auth", "basic", "login">>, "basic", 0)} ELSE {})
  \cup {[Management(<<"_", "auth", name, "login">>, "oauth login") EXCEPT !.how = name] :
          name \in Providers(c)}
  \cup {[Management(<<"_", "auth", name, "callback">>, "oauth callback") EXCEPT !.how = name] :
          name \in Providers(c)}

ManagementRoutes(c) ==
  (IF HasAnyAuthentication(c) THEN ProviderRoutes(c) ELSE {})
  \cup { Management(c.prefix \o <<"login">>, "login"),
         Management(c.prefix \o <<"static", "">>, "assets"),
         Management(IF Last(c.prefix) = "" THEN c.prefix ELSE Append(c.prefix, ""), "openapi"),
         Management(c.prefix \o <<"admin", "">>, "dashboard") }

SamePattern(e, f) == e.method = f.method /\ e.path = f.path

(* ServeMux panics over a pattern it has, and over one with a method and a *)
(* path that is not clean.  entries are registered one after the other.    *)
Panics(entries) ==
  \/ \E e \in entries, f \in mux : SamePattern(e, f)
  \/ \E e, f \in entries : e # f /\ SamePattern(e, f)
  \/ \E e \in entries : e.method # "ANY" /\ \E i \in 1..(Len(e.path) - 1) : e.path[i] = ""

(* Broken variant: a later route takes a pattern over.                     *)
RegisterReplacing(entries, then) ==
  /\ phase' = then
  /\ mux' = entries \cup {f \in mux : \A e \in entries : ~SamePattern(e, f)}

Register(entries, then) ==
  IF Panics(entries) THEN phase' = "failed" /\ UNCHANGED mux
  ELSE phase' = then /\ mux' = mux \cup entries

RegisterManagement ==
  /\ phase = "management"
  /\ Register(ManagementRoutes(conf), "routes")
  /\ UNCHANGED <<site, conf, next, disk, session, oauth, logins, tabs>>

(* From without the "*" of a "/*" at its end.                              *)
RoutePrefix(from) == IF Last(from) = "*" THEN Append(Front(from), "") ELSE from

Slashed(path) == IF Last(path) = "" THEN path ELSE Append(path, "")

(* A single file is registered with and without a slash, in two calls.     *)
PatternsOf(r) ==
  IF Last(r.from) # "*" /\ r.static /\ r.toFile # NoPath
  THEN <<r.from, Slashed(r.from)>>
  ELSE <<Slashed(RoutePrefix(r.from))>>

Target(r) == IF r.toFile # NoPath THEN r.toFile ELSE r.toFolder

Skipped(r) == IF r.static THEN ~Exists(Target(r)) ELSE r.to = BadURL

(* A folder that has a folder of the route's first name keeps the whole    *)
(* path.                                                                   *)
RouteEntry(i, path) ==
  LET r == conf.routes[i]
  IN [Entry("ANY", path, "route", i) EXCEPT
        !.how = IF ~r.static THEN "proxy" ELSE IF IsDir(Target(r)) THEN "folder" ELSE "file",
        !.whole = r.static /\ (RoutePrefix(r.from) = <<"">> \/ IsDir(Append(Target(r), Head(r.from))))]

RegisterRoute ==
  /\ phase = "routes" /\ next <= Len(conf.routes)
  /\ next' = next + 1
  /\ LET r == conf.routes[next]
         patterns == PatternsOf(r)
     IN IF Skipped(r) THEN UNCHANGED <<phase, mux>>
        ELSE IF \E i, j \in DOMAIN patterns : i < j /\ patterns[i] = patterns[j]
        THEN phase' = "failed" /\ UNCHANGED mux
        ELSE Register({RouteEntry(next, p) : p \in Range(patterns)}, "routes")
  /\ UNCHANGED <<site, conf, disk, session, oauth, logins, tabs>>

(* Then the administrator is ensured, which the database may refuse.       *)
RegisterCallback ==
  /\ phase = "routes" /\ next > Len(conf.routes)
  /\ Register({Management(<<"auth", "callback", "">>, "callback")}, "admin")
  /\ UNCHANGED <<site, conf, next, disk, session, oauth, logins, tabs>>

EnsureAdmin ==
  /\ phase = "admin"
  /\ phase' \in (IF conf.admin.enabled THEN {"up", "failed"} ELSE {"up"})
  /\ UNCHANGED <<site, conf, next, mux, disk, session, oauth, logins, tabs>>

-----------------------------------------------------------------------------
(* Matching.                                                               *)

Covers(pattern, p) ==
  IF Last(pattern) = "" THEN Len(pattern) <= Len(p) /\ IsPrefix(Front(pattern), p)
  ELSE pattern = p

NotFound == Management(<<>>, "not found")
AddSlash == Management(<<>>, "add slash")

(* Patterns with the method of the request come first; the path itself     *)
(* before a pattern that only begins it, and the longest of those; and a   *)
(* path without its slash is sent to the pattern that has it.              *)
Find(method, p) ==
  LET fitting == {e \in mux : e.method \in {method, "ANY"} /\ Covers(e.path, p)}
      own == {e \in fitting : e.method = method}
      among == IF own # {} THEN own ELSE fitting
      exact == {e \in among : e.path = p}
  IN IF exact # {} THEN CHOOSE e \in exact : TRUE
     ELSE IF Last(p) # "" /\ \E e \in mux : e.method \in {method, "ANY"} /\ e.path = Append(p, "")
     THEN AddSlash
     ELSE IF among = {} THEN NotFound
     ELSE CHOOSE e \in among : \A f \in among : Len(f.path) <= Len(e.path)

-----------------------------------------------------------------------------
(* Requests and answers of a tab.                                          *)

Request(method, path, redirect) ==
  [method |-> method, path |-> path, redirect |-> redirect, state |-> 0, button |-> "none"]

Answer(status, by, cache) ==
  [status |-> status, by |-> by, cache |-> cache, location |-> NoPath, redirect |-> NoPath,
   upstream |-> NoPath, file |-> NoPath]

NoAnswer == Answer(0, NotFound, "unset")

(* asked is what the user asked for; elsewhere: a login in another tab     *)
(* came first, and this one was sent to "/"; hops: redirects followed      *)
(* since the user, or the end of the session, last did something.          *)
NewTab == [stage |-> "idle", ask |-> Request("GET", <<"">>, NoPath), answer |-> NoAnswer,
           asked |-> NoPath, hops |-> 0, elsewhere |-> FALSE]

Handling(t) == Find(tabs[t].ask.method, tabs[t].ask.path)

Serve(t, kind) ==
  phase = "up" /\ tabs[t].stage = "asking" /\ Handling(t).kind = kind

AnswerWith(t, answer) ==
  tabs' = [tabs EXCEPT ![t].stage = "answered", ![t].answer = answer]

(* With the session every page may answer differently.                     *)
Rested == [t \in Tabs |-> [tabs[t] EXCEPT !.hops = 0]]

LoggedInWith(t, answer) ==
  tabs' = [Rested EXCEPT ![t].stage = "answered", ![t].answer = answer]

OnlyTabs == UNCHANGED <<site, phase, conf, next, mux, disk, session, oauth, logins>>
OnlyBrowser == UNCHANGED <<site, phase, conf, next, mux, disk, logins>>

MovedTo(location, by, cache) == [Answer(301, by, cache) EXCEPT !.location = location]

ServeMuxAnswers(t) ==
  /\ \/ Serve(t, "not found") /\ AnswerWith(t, Answer(404, NotFound, "unset"))
     \/ /\ Serve(t, "add slash")
        /\ AnswerWith(t, [MovedTo(Append(tabs[t].ask.path, ""), AddSlash, "unset") EXCEPT
                            !.redirect = tabs[t].ask.redirect])
  /\ OnlyTabs

(* The handlers that only read: the login page, the embedded assets, and   *)
(* the API, which module Api describes.                                    *)
PageAnswers(t) ==
  /\ \/ Serve(t, "login") /\ AnswerWith(t, Answer(200, Handling(t), "unset"))
     \/ /\ Serve(t, "assets")
        /\ \E status \in {200, 404} : AnswerWith(t, Answer(status, Handling(t), "unset"))
     \/ Serve(t, "openapi") /\ AnswerWith(t, Answer(404, Handling(t), "unset"))
  /\ OnlyTabs

OAuthCallbackRoute(t) ==
  /\ Serve(t, "callback")
  /\ AnswerWith(t, Answer(IF Len(SelectSeq(tabs[t].ask.path, LAMBDA s : s # "")) = 3 THEN 200 ELSE 404,
                          Handling(t), "unset"))
  /\ OnlyTabs

ToLoginPage(t, by, cache) ==
  [Answer(302, by, cache) EXCEPT
     !.location = conf.prefix \o <<"login">>, !.redirect = tabs[t].ask.path]

(* Broken variant: a session that is not an admin's lives on.              *)
DashboardKeeps(t) ==
  /\ Serve(t, "dashboard")
  /\ AnswerWith(t, IF session = "admin" THEN Answer(200, Handling(t), "private")
                   ELSE ToLoginPage(t, Handling(t), "private"))
  /\ OnlyBrowser /\ UNCHANGED <<session, oauth>>

(* A session that is not an admin's is ended and its cookie removed.       *)
Dashboard(t) ==
  /\ Serve(t, "dashboard")
  /\ IF session = "admin"
     THEN AnswerWith(t, Answer(200, Handling(t), "private")) /\ UNCHANGED session
     ELSE AnswerWith(t, ToLoginPage(t, Handling(t), "private")) /\ session' = "none"
  /\ OnlyBrowser /\ UNCHANGED oauth

-----------------------------------------------------------------------------
(* Logins.                                                                 *)

FoundTo(location, by) == [Answer(302, by, "unset") EXCEPT !.location = location]

OrHome(path) == IF path = NoPath THEN <<"">> ELSE path

(* The form carries redirect in its body.  A browser that has a session by *)
(* now is redirected to the one in the query, which the form does not set. *)
BasicLogin(t) ==
  /\ Serve(t, "basic")
  /\ \/ /\ session # "none"
        /\ tabs' = [tabs EXCEPT ![t].stage = "answered",
                                ![t].answer = FoundTo(<<"">>, Handling(t)), ![t].elsewhere = TRUE]
        /\ UNCHANGED session
     \/ /\ session = "none"
        /\ session' \in {"user", "admin"}
        /\ LoggedInWith(t, FoundTo(OrHome(tabs[t].ask.redirect), Handling(t)))
     \/ /\ session = "none"
        /\ \E status \in {400, 401, 500} : AnswerWith(t, Answer(status, Handling(t), "unset"))
        /\ UNCHANGED session
  /\ OnlyBrowser /\ UNCHANGED oauth

(* Login draws a state; the number of the login stands for it.             *)
OAuthLogin(t) ==
  /\ Serve(t, "oauth login") /\ logins < MaxLogins
  /\ logins' = logins + 1
  /\ oauth' = [state |-> logins + 1, back |-> OrHome(tabs[t].ask.redirect)]
  /\ tabs' = [tabs EXCEPT ![t].stage = "provider", ![t].ask.state = logins + 1,
                          ![t].answer = Answer(307, Handling(t), "unset")]
  /\ UNCHANGED <<site, phase, conf, next, mux, disk, session>>

(* Broken variant: any state will do, as long as there is one.             *)
CallbackAnyState(t) ==
  /\ Serve(t, "oauth callback")
  /\ \/ /\ oauth.state = 0
        /\ AnswerWith(t, Answer(401, Handling(t), "unset"))
        /\ UNCHANGED <<session, oauth>>
     \/ /\ oauth.state # 0
        /\ session' = "user"
        /\ LoggedInWith(t, FoundTo(OrHome(oauth.back), Handling(t)))
        /\ oauth' = [state |-> 0, back |-> NoPath]
  /\ OnlyBrowser

Callback(t) ==
  /\ Serve(t, "oauth callback")
  /\ \/ /\ oauth.state = 0 \/ oauth.state # tabs[t].ask.state
        /\ AnswerWith(t, Answer(401, Handling(t), "unset"))
        /\ UNCHANGED <<session, oauth>>
     \/ /\ oauth.state # 0 /\ oauth.state = tabs[t].ask.state
        /\ \/ /\ session' = "user"
              /\ LoggedInWith(t, FoundTo(OrHome(oauth.back), Handling(t)))
              /\ oauth' = [state |-> 0, back |-> NoPath]
           \/ /\ \E status \in {401, 409, 500} : AnswerWith(t, Answer(status, Handling(t), "unset"))
              /\ oauth' = [oauth EXCEPT !.state = 0]
              /\ UNCHANGED session
  /\ OnlyBrowser

-----------------------------------------------------------------------------
(* The user's routes.                                                      *)

CacheOf(r) ==
  IF ~r.cache.set \/ r.cache.seconds < 0 THEN "unset"
  ELSE IF r.cache.seconds = 0 THEN "no-cache" ELSE "max-age"

(* What is set when the handler of the route runs: the session middleware  *)
(* goes first, and the cache middleware overrides it.                      *)
CacheHeader(r) ==
  IF CacheOf(r) # "unset" THEN CacheOf(r) ELSE IF r.auth THEN "private" ELSE "unset"

(* Broken variant: the routes that forward are not asked for a session.    *)
RefusesPages(r) == r.auth /\ r.static /\ session = "none"

Refuses(r) == r.auth /\ session = "none"

(* Broken variant: the cache middleware of the route comes first.          *)
RefusalCached(t, e, r) ==
  LET cache == IF CacheOf(r) # "unset" THEN CacheOf(r) ELSE "private"
  IN IF r.static \/ r.spa THEN ToLoginPage(t, e, cache) ELSE Answer(401, e, cache)

Refusal(t, e, r) ==
  IF r.static \/ r.spa THEN ToLoginPage(t, e, "private") ELSE Answer(401, e, "private")

Shows(file, e, cache) == [Answer(200, e, cache) EXCEPT !.file = file]

(* http.FileServer on what StripPrefix leaves of p.  Its errors take the   *)
(* Cache-Control header with them.                                         *)
FileServer(e, r, p) ==
  LET taken == Len(SelectSeq(RoutePrefix(r.from), LAMBDA s : s # ""))
      rest == IF e.whole THEN p ELSE IF Len(p) = taken THEN <<"">> ELSE SubSeq(p, taken + 1, Len(p))
      name == Target(r) \o (IF Last(rest) = "" THEN Front(rest) ELSE rest)
      cache == CacheHeader(r)
  IN IF Last(rest) = "index.html" THEN MovedTo(Append(Front(p), ""), e, cache)
     ELSE IF ~Exists(name) THEN Answer(404, e, "unset")
     ELSE IF IsDir(name) /\ Last(rest) # "" THEN MovedTo(Append(p, ""), e, cache)
     ELSE IF IsFile(name) /\ Last(rest) = "" THEN MovedTo(Front(p), e, cache)
     ELSE Shows(IF IsDir(name) /\ IsFile(Index(name)) THEN Index(name) ELSE name, e, cache)

(* spaHandler: the index of the folder instead of a 404, all headers set   *)
(* so far removed.                                                         *)
FolderAnswer(e, r, p) ==
  LET found == FileServer(e, r, p)
  IN IF r.spa /\ found.status = 404 /\ Exists(Index(Target(r)))
     THEN Shows(Index(Target(r)), e, "unset") ELSE found

FileAnswer(e, r, p) ==
  IF ~Exists(r.toFile) THEN Answer(404, e, CacheHeader(r))
  ELSE IF IsDir(r.toFile) THEN Answer(500, e, CacheHeader(r))
  ELSE IF Last(p) = "index.html" THEN MovedTo(Append(Front(p), ""), e, CacheHeader(r))
  ELSE Shows(r.toFile, e, CacheHeader(r))

SingleJoiningSlash(a, b) == IF a # <<>> /\ Last(a) = "" THEN Front(a) \o b ELSE a \o b

HasPrefix(p, prefix) ==
  IF Last(prefix) = "" THEN Len(prefix) <= Len(p) /\ IsPrefix(Front(prefix), p) ELSE IsPrefix(prefix, p)

TrimPrefix(p, prefix) ==
  LET rest == SubSeq(p, Len(SelectSeq(prefix, LAMBDA s : s # "")) + 1, Len(p))
  IN IF rest = <<>> THEN <<"">> ELSE rest

(* The director of NewSingleHostReverseProxy has joined the paths before   *)
(* this one looks at the path.                                             *)
Director(r, p) ==
  LET joined == SingleJoiningSlash(r.to, p)
  IN IF r.remove # NoPath /\ HasPrefix(joined, r.remove)
     THEN TrimPrefix(joined, r.remove)
     ELSE SingleJoiningSlash(r.to, joined)

(* Analytics, logging and the rate limiter wrap the ResponseWriter, and    *)
(* with it its Hijacker.                                                   *)
Wrapped(c) == c.analytics \/ c.logging \/ LimiterIsEnabled(c.limiter)

(* The upstream answers, or cannot be reached: then a connection that can  *)
(* be hijacked is, and left without an answer (status 0).                  *)
ProxyAnswers(e, r, p) ==
  LET sent(status) == [Answer(status, e, CacheHeader(r)) EXCEPT !.upstream = Director(r, p)]
      base(status) == [Answer(status, e, CacheHeader(r)) EXCEPT !.upstream = r.to]
  IN {sent(IF Wrapped(conf) THEN 502 ELSE 0), sent(200)}
     \cup (IF r.spa THEN {sent(404), base(200), base(404)} ELSE {sent(404)})

RouteAnswers(t) ==
  /\ Serve(t, "route")
  /\ LET e == Handling(t)
         r == conf.routes[e.n]
         p == tabs[t].ask.path
     IN \/ Refuses(r) /\ AnswerWith(t, Refusal(t, e, r))
        \/ /\ ~Refuses(r)
           /\ \/ e.how = "folder" /\ AnswerWith(t, FolderAnswer(e, r, p))
              \/ e.how = "file" /\ AnswerWith(t, FileAnswer(e, r, p))
              \/ e.how = "proxy" /\ \E answer \in ProxyAnswers(e, r, p) : AnswerWith(t, answer)
  /\ OnlyTabs

-----------------------------------------------------------------------------
(* The tabs and what happens around them.                                  *)

Send(t, request, hops) ==
  tabs' = [tabs EXCEPT ![t].stage = "asking", ![t].ask = request, ![t].answer = NoAnswer,
                       ![t].hops = hops]

Open(t) ==
  /\ phase = "up" /\ tabs[t].stage = "idle"
  /\ \E p \in Visits[site][t] :
       tabs' = [tabs EXCEPT ![t] = [NewTab EXCEPT !.stage = "asking", !.asked = p,
                                                  !.ask = Request("GET", p, NoPath)]]
  /\ OnlyTabs

(* A location that begins with "//" names another host.                    *)
Follow(t) ==
  /\ tabs[t].stage = "answered" /\ tabs[t].answer.location # NoPath
  /\ LET a == tabs[t].answer
     IN IF Len(a.location) > 1 /\ Head(a.location) = ""
        THEN tabs' = [tabs EXCEPT ![t].stage = "away"]
        ELSE /\ tabs[t].hops < MaxHops
             /\ Send(t, Request("GET", a.location, a.redirect), tabs[t].hops + 1)
  /\ OnlyTabs

OnLoginPage(t) ==
  tabs[t].stage = "answered" /\ tabs[t].answer.by.kind = "login" /\ tabs[t].answer.status = 200

(* The script of the login page asks /me first and leaves when there is a  *)
(* session; otherwise the user presses one of the buttons the page shows.  *)
LoginScript(t) ==
  /\ OnLoginPage(t) /\ session # "none" /\ tabs[t].hops < MaxHops
  /\ Send(t, Request("GET", OrHome(tabs[t].ask.redirect), NoPath), tabs[t].hops + 1)
  /\ OnlyTabs

Press(t) ==
  /\ OnLoginPage(t)
  /\ \/ /\ conf.basic \/ conf.admin.enabled
        /\ Send(t, [Request("POST", conf.prefix \o <<"auth", "basic", "login">>, tabs[t].ask.redirect)
                      EXCEPT !.button = "basic"], 0)
     \/ \E name \in {"google", "github"} :
          /\ conf[name].id
          /\ Send(t, [Request("GET", conf.prefix \o <<"auth", name, "login">>, tabs[t].ask.redirect)
                        EXCEPT !.button = name], 0)
  /\ OnlyTabs

ProviderReturns(t) ==
  /\ tabs[t].stage = "provider" /\ tabs[t].hops < MaxHops
  /\ Send(t, [Request("GET", <<"_", "auth", tabs[t].answer.by.how, "callback">>, NoPath)
                EXCEPT !.state = tabs[t].ask.state], tabs[t].hops + 1)
  /\ OnlyTabs

Close(t) ==
  /\ tabs[t].stage \in {"answered", "away", "provider"}
  /\ tabs' = [tabs EXCEPT ![t] = NewTab]
  /\ OnlyTabs

SessionEnds ==
  /\ session # "none" /\ session' = "none" /\ tabs' = Rested
  /\ UNCHANGED <<site, phase, conf, next, mux, disk, oauth, logins>>

Deploy ==
  /\ phase = "up"
  /\ disk' \in Disks \ {disk}
  /\ UNCHANGED <<site, phase, conf, next, mux, session, oauth, logins, tabs>>

RoutingInit ==
  /\ site \in Sites /\ phase = "config" /\ conf = site /\ next = 1 /\ mux = {}
  /\ disk \in Disks /\ session = "none"
  /\ oauth = [state |-> 0, back |-> NoPath] /\ logins = 0
  /\ tabs = [t \in Tabs |-> NewTab]

Start ==
  \/ LoadConfig \/ ValidateAllMiddleware \/ RegisterManagement
  \/ RegisterRoute \/ RegisterCallback \/ EnsureAdmin

Browse(t) ==
  \/ Open(t) \/ Follow(t) \/ LoginScript(t) \/ Press(t) \/ ProviderReturns(t) \/ Close(t)

Respond(t) ==
  \/ ServeMuxAnswers(t) \/ PageAnswers(t) \/ OAuthCallbackRoute(t) \/ Dashboard(t)
  \/ BasicLogin(t) \/ OAuthLogin(t) \/ Callback(t) \/ RouteAnswers(t)

RoutingNext ==
  \/ Start \/ SessionEnds \/ Deploy
  \/ \E t \in Tabs : Browse(t) \/ Respond(t)

-----------------------------------------------------------------------------
RoutingOK ==
  /\ phase \in {"config", "validate", "management", "routes", "admin", "up", "failed"}
  /\ next \in 1..(Len(site.routes) + 1)
  /\ phase \in {"config", "failed"} \/ conf.prefix = <<"">> \/ "" \notin Range(conf.prefix)
  /\ session \in {"none", "user", "admin"}
  /\ oauth.state \in 0..MaxLogins /\ logins \in 0..MaxLogins
  /\ \A t \in Tabs :
       /\ tabs[t].stage \in {"idle", "asking", "answered", "provider", "away"}
       /\ tabs[t].hops \in 0..MaxHops
       /\ tabs[t].answer.cache \in {"unset", "private", "no-cache", "max-age"}
=============================================================================
