------------------------------ MODULE Gateway ------------------------------
(***************************************************************************)
(* The gateway from the outside: what Routing registers answers the tabs   *)
(* of a browser and, through the generated client of module Api, a         *)
(* program that uses the management API under the configured prefix.       *)
(***************************************************************************)
EXTENDS Routing, Api

vars == <<site, phase, conf, next, mux, disk, session, oauth, logins, tabs, call>>

(* The program and the tabs take turns: they share the patterns, which no  *)
(* longer change, and calls bring the session they are made with.          *)
Quiet == phase = "up" /\ logins = 0 /\ session = "none" /\ \A t \in Tabs : tabs[t] = NewTab

(* The prefix without a "/" at its end.                                    *)
PrefixNames == IF Last(conf.prefix) = "" THEN Front(conf.prefix) ELSE conf.prefix

(* http.StripPrefix removes as much of the path.                           *)
BehindPrefix(path) == SubSeq(path, Len(PrefixNames) + 1, Len(path))

(* The server the program names: where the API is, or, as some of the      *)
(* tests and decision records have it, "api" below that.                   *)
Servers == {conf.prefix, Append(PrefixNames, "api")}

(* A route of the user that takes a path of the API over answers in its    *)
(* own way: 404 stands for that.                                           *)
Deliver ==
  LET e == Find(call.method, call.path)
  IN \/ e.kind = "openapi" /\ Receive(BehindPrefix(call.path))
     \/ /\ e.kind # "openapi" /\ call.stage = "sent"
        /\ call' = Answered(404, FALSE)

CallTheApi ==
  /\ Quiet
  /\ \/ \E op \in Operations, server \in Servers, s \in Sessions \cup {NoSession} :
          Call(op, server, s)
     \/ Deliver \/ Decode \/ Authorize \/ Handle \/ Parse \/ Return
  /\ UNCHANGED routingVars

Init == RoutingInit /\ call = NoCall

Next ==
  \/ RoutingNext /\ call = NoCall /\ UNCHANGED call
  \/ CallTheApi

Spec == Init /\ [][Next]_vars

-----------------------------------------------------------------------------
TypeOK == RoutingOK /\ CallOK

-----------------------------------------------------------------------------
(* What a tab is shown.                                                    *)

Shown(answer) ==
  answer.status = 200
    /\ (answer.file # NoPath \/ answer.upstream # NoPath \/ answer.by.kind = "dashboard")

Plain(path) ==
  LET named == IF Last(path) = "index.html" THEN Front(path) ELSE path
  IN SelectSeq(named, LAMBDA s : s # "")

JustAnswered(t) == tabs[t].stage = "asking" /\ tabs[t].stage' = "answered"

(* The patterns of a configured route for a path, whether or not the mux   *)
(* has them.                                                               *)
PatternsFor(i, path) ==
  {pattern \in Range(PatternsOf(conf.routes[i])) : Covers(pattern, path)}

InUse(i) == \E e \in mux : e.kind = "route" /\ e.n = i

(* Of two patterns for one path, a is for fewer paths than b: it is longer,*)
(* or a path itself and not all that begin with it.                        *)
MoreSpecial(a, b) == Len(b) < Len(a) \/ (Len(a) = Len(b) /\ Last(a) # "" /\ Last(b) = "")

(* Whatever the order of the routes and however they overlap, somebody     *)
(* without a session is shown a page only on account of a public route     *)
(* with a pattern that is more special than those of every protected route *)
(* for this path that is in use (a protected route whose folder was missing*)
(* at the start is not); and an administrator's page is shown to           *)
(* administrators.                                                         *)
ProtectedStaysProtected ==
  [][\A t \in Tabs :
       JustAnswered(t) /\ Shown(tabs'[t].answer) =>
         \/ session = "admin"
         \/ tabs'[t].answer.by.kind # "dashboard" /\ session = "user"
         \/ \E i \in DOMAIN conf.routes :
              /\ ~conf.routes[i].auth
              /\ \E a \in PatternsFor(i, tabs[t].ask.path) :
                   \A j \in DOMAIN conf.routes :
                     conf.routes[j].auth /\ InUse(j) =>
                       \A b \in PatternsFor(j, tabs[t].ask.path) : MoreSpecial(a, b)]_vars

(* Not even a route that asks for its answers to be cached lets a browser  *)
(* or a proxy keep the redirect to the login page, or the 401, which would *)
(* then be shown to a user who has logged in.                              *)
RefusalsNotCached ==
  \A t \in Tabs :
    LET a == tabs[t].answer
    IN a.by.kind \in {"route", "dashboard"}
         /\ (a.status = 401 \/ (a.status = 302 /\ a.location = conf.prefix \o <<"login">>))
       => a.cache = "private"

(* A gateway that came up answers on its login page, its form and its      *)
(* dashboard, whatever the user's routes are: a route that would take one  *)
(* of them over keeps the gateway from starting.  The current user's path  *)
(* goes to a route only if that is for just this path.  "//login" is not a *)
(* path of a request, which is why a prefix "/" is left out.               *)
ManagementIsReachable ==
  phase = "up" /\ conf.prefix # <<"">> =>
    /\ Find("GET", conf.prefix \o <<"login">>).kind = "login"
    /\ Find("GET", conf.prefix \o <<"admin", "">>).kind = "dashboard"
    /\ \/ Find("GET", conf.prefix \o <<"me">>).kind = "openapi"
       \/ \E e \in mux : e.kind = "route" /\ e.path \in {conf.prefix \o <<"me">>,
                                                       conf.prefix \o <<"me", "">>}
    /\ conf.basic => Find("POST", conf.prefix \o <<"auth", "basic", "login">>).kind = "basic"

(* Login page, protected pages, folders and index files redirect to one    *)
(* another, the login page by a script that leaves at once when there is a *)
(* session.  No tab is sent on for ever: after MaxHops - 1 redirects it    *)
(* shows something, unless a login or the end of a session intervenes.     *)
RedirectsEnd == \A t \in Tabs : tabs[t].hops < MaxHops

(* A tab that was asked for a page never ends up with another one, through *)
(* the login page, a provider and back, also when two tabs log in at the   *)
(* same time and share their cookies.  The form of a tab that comes second *)
(* leads to "/", and so does a login nobody was sent to.                   *)
BackWhereAsked ==
  \A t \in Tabs :
    tabs[t].stage = "answered" /\ Shown(tabs[t].answer) =>
      \/ Plain(tabs[t].ask.path) = Plain(tabs[t].asked)
      \/ tabs[t].elsewhere
      \/ Find("GET", tabs[t].asked).kind = "login" /\ tabs[t].ask.path = <<"">>

(* Pressing the button of a provider on the login page begins the login    *)
(* with that provider.                                                     *)
LoginButtonsWork ==
  \A t \in Tabs :
    tabs[t].stage \in {"answered", "provider"} /\ tabs[t].ask.button \in {"google", "github"}
      /\ conf[tabs[t].ask.button].secret
    => tabs[t].answer.by.kind = "oauth login"

-----------------------------------------------------------------------------
(* The inductive invariant: what is registered while the gateway starts,   *)
(* and what the state of a tab consists of.                                *)

Started == {"routes", "admin", "up"}

(* An entry of the mux is one of the gateway's own, or that of a route.    *)
OwnEntry(e) ==
  e \in ManagementRoutes(conf) \cup {Management(<<"auth", "callback", "">>, "callback")}

EntryOfRoute(e) ==
  /\ e.kind = "route" /\ e.method = "ANY" /\ e.n \in DOMAIN conf.routes
  /\ e.path \in Range(PatternsOf(conf.routes[e.n]))

OnePattern == \A e, f \in mux : SamePattern(e, f) => e = f

(* Of the patterns of a route, the mux has all or none.                    *)
AllPatterns ==
  \A e \in mux : e.kind = "route" =>
    \A pattern \in Range(PatternsOf(conf.routes[e.n])) :
      \E f \in mux : f.kind = "route" /\ f.n = e.n /\ f.path = pattern

MuxInv ==
  /\ site \in Sites /\ conf \in GatewayConfig /\ conf.routes = site.routes
  /\ next \in 1..(Len(conf.routes) + 1)
  /\ phase \in {"config", "validate", "management", "failed"} \cup Started
  /\ phase \in {"config", "validate", "management"} => mux = {}
  /\ phase \in {"config", "failed"} \/ conf.prefix = <<"">> \/ "" \notin Range(conf.prefix)
  /\ \A e \in mux : OwnEntry(e) \/ EntryOfRoute(e)
  /\ OnePattern /\ AllPatterns
  /\ phase \in Started => ManagementRoutes(conf) \subseteq mux

IsTab(tab) ==
  tab = [stage |-> tab.stage, ask |-> tab.ask, answer |-> tab.answer, asked |-> tab.asked,
         hops |-> tab.hops, elsewhere |-> tab.elsewhere]

TabsInv ==
  /\ session \in {"none", "user", "admin"}
  /\ oauth = [state |-> oauth.state, back |-> oauth.back]
  /\ oauth.state \in 0..MaxLogins /\ logins \in 0..MaxLogins
  /\ tabs = [t \in Tabs |-> tabs[t]]
  /\ phase # "up" => tabs = [t \in Tabs |-> NewTab]
  /\ \A t \in Tabs :
       /\ IsTab(tabs[t])
       /\ tabs[t].stage \in {"idle", "asking", "answered", "provider", "away"}
       /\ tabs[t].hops \in 0..MaxHops
       /\ tabs[t].answer.cache \in {"unset", "private", "no-cache", "max-age"}

(* A call has come to where it was sent.                                   *)
Arrived == call.at = call.op /\ call.got = call.args

Typed == call.status \in TypedByClient(call.op) \/ (call.op = "CreateUser" /\ call.status = 401)

CallInv ==
  /\ call.stage = "sent" =>
       /\ call.op \in Operations /\ call.args \in Arguments(call.op)
       /\ call.ran = FALSE
       /\ call.method = Builder(call.op).method
       /\ \E server \in Servers :
            call.path = Resolve(NewClient(server), Fill(Builder(call.op).path, call.args.path))
  /\ call.stage \in {"bound", "decoded", "admitted"} =>
       call.op \in Operations /\ Arrived /\ call.ran = FALSE
  /\ call.stage \in {"answered", "done"} =>
       (call.ran => Arrived) /\ (call.json => Typed)
  /\ AnswersAreTyped

(* The tabs of a browser share the cookie of a login with a provider: a    *)
(* state is that of one tab, and while that tab is at the provider and the *)
(* cookie has its state, the cookie has the page it came from too.         *)
LoginsApart ==
  /\ oauth.state \in 0..logins
  /\ \A t \in Tabs :
       /\ tabs[t].ask.state \in 0..logins
       /\ tabs[t].stage = "provider" =>
            /\ tabs[t].ask.state # 0
            /\ tabs[t].ask.state = oauth.state => oauth.back = OrHome(tabs[t].ask.redirect)
       /\ \A u \in Tabs : tabs[t].ask.state = tabs[u].ask.state => t = u \/ tabs[t].ask.state = 0
=============================================================================
