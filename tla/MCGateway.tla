----------------------------- MODULE MCGateway -----------------------------
(* Configurations that bring one of everything, and those that are refused *)
(* at each step of the start.                                              *)
EXTENDS Gateway

CONSTANTS ann, bob

Off == [id |-> FALSE, secret |-> FALSE]
On  == [id |-> TRUE, secret |-> TRUE]

NoLimits == [rpm |-> 0, errors |-> 0, block |-> 0, max404 |-> 0, urls |-> FALSE, scanBlock |-> 0]

Unset == [set |-> FALSE, seconds |-> 0]
For(n) == [set |-> TRUE, seconds |-> n]

Site(prefix, routes) ==
  [port |-> 8080, prefix |-> prefix, basic |-> FALSE, google |-> Off, github |-> Off,
   admin |-> [enabled |-> FALSE, username |-> FALSE, password |-> FALSE],
   analytics |-> FALSE, logging |-> FALSE, limiter |-> NoLimits, routes |-> routes]

Route(from) ==
  [from |-> from, static |-> FALSE, toFile |-> NoPath, toFolder |-> NoPath, to |-> NoPath,
   remove |-> NoPath, spa |-> FALSE, auth |-> FALSE, cache |-> Unset]

Folder(from, path) == [Route(from) EXCEPT !.static = TRUE, !.toFolder = path]
File(from, path) == [Route(from) EXCEPT !.static = TRUE, !.toFile = path]
Proxy(from, url) == [Route(from) EXCEPT !.to = url]
Private(route) == [route EXCEPT !.auth = TRUE]
Cached(route, n) == [route EXCEPT !.cache = For(n)]
Spa(route) == [route EXCEPT !.spa = TRUE]

Everything == <<"*">>
Docs == <<"docs", "*">>

Basic(s) == [s EXCEPT !.basic = TRUE]
Admin(s) == [s EXCEPT !.admin = [enabled |-> TRUE, username |-> TRUE, password |-> TRUE]]
Google(s) == [s EXCEPT !.google = On]

(* Two tabs that log in at the same time, with a form or a provider.       *)
Shared == Google(Basic(Site(<<"_">>, <<
  Cached(Private(Folder(Docs, <<"docs">>)), 60),
  Private(File(<<"report">>, <<"report.pdf">>)) >>)))

(* Overlapping routes, under a prefix of one's own.                        *)
Mixed == Admin([Site(<<"", "m", "">>, <<
  Spa(Folder(Everything, <<"site">>)),
  Cached(Private(Folder(Docs, <<"docs">>)), 0),
  File(<<"docs", "open">>, <<"report.pdf">>),
  File(<<"m", "me">>, <<"report.pdf">>),
  Private(Folder(<<"gone", "*">>, <<"missing">>)),
  Cached(Private(Spa(Proxy(<<"app", "*">>, <<>>))), 60),
  [Proxy(<<"svc", "*">>, <<"v1">>) EXCEPT !.remove = <<"svc">>],
  Private(Proxy(<<"svc", "own", "*">>, <<>>)),
  Proxy(<<"bad", "*">>, BadURL) >>) EXCEPT !.analytics = TRUE])

(* The prefix "/", and nobody to log in.                                   *)
AtRoot == Site(<<"", "">>, <<
  Private(Folder(Docs, <<"docs">>)),
  Proxy(<<"api", "users", "*">>, <<>>),
  [Proxy(<<"svc", "*">>, <<>>) EXCEPT !.remove = <<"svc">>] >>)

(* A provider of logins, under a prefix of one's own.                      *)
Elsewhere == Google(Site(<<"m">>, <<Private(Folder(Docs, <<"docs">>))>>))

Scanning == [NoLimits EXCEPT !.max404 = 1]

Refused1 == { [Site(<<"">>, <<>>) EXCEPT !.port = 0],
              [Admin(Site(<<"">>, <<>>)) EXCEPT !.admin.password = FALSE],
              [Site(<<"">>, <<>>) EXCEPT !.limiter.rpm = 1],
              [Site(<<"">>, <<>>) EXCEPT !.limiter = Scanning],
              Basic(AtRoot) }
           \cup { Site(<<"">>, <<r>>) : r \in
              { [Folder(Docs, <<"docs">>) EXCEPT !.toFile = <<"report.pdf">>],
                Folder(Docs, NoPath), Proxy(Docs, NoPath), Cached(Folder(Docs, <<"docs">>), -1),
                File(<<"report", "">>, <<"report.pdf">>),
                Folder(<<"_", "*">>, <<"site">>), Folder(<<"_", "admin", "*">>, <<"site">>),
                File(<<"_", "login">>, <<"report.pdf">>),
                Proxy(<<"auth", "callback", "*">>, <<>>) } }

MCSites == {Shared, Mixed, AtRoot} \cup Refused1

PrefixSites == {Elsewhere}

MCVisits ==
  [s \in MCSites \cup PrefixSites |->
     CASE s = Shared -> << { <<"docs", "a">>, <<"report">>, <<"_", "login">> }, { <<"docs", "">> } >>
       [] s = Mixed  -> << { <<"">>, <<"docs">>, <<"docs", "open">>, <<"gone", "x">>, <<"app", "x">>, <<"svc", "own", "x">>,
                             <<"svc", "x">>, <<"index.html">>, <<"bad", "x">>, <<"m", "admin", "">>,
                             <<"m", "static", "a">>, <<"m", "nothing">>, <<"auth", "callback", "x">> }, {} >>
       [] s = Elsewhere -> << { <<"docs", "a">> }, {} >>
       [] s = AtRoot -> << { <<"docs", "a">>, <<"svc", "x">>, <<"auth", "callback", "x", "y">> }, {} >>
       [] OTHER      -> << {}, {} >>]

MCDisk == { <<"site", "index.html">>, <<"docs", "index.html">>, <<"docs", "a">>, <<"report.pdf">> }
MCDisks == { MCDisk, MCDisk \ {<<"docs", "a">>} }

MCSessions == { [user |-> ann, admin |-> FALSE], [user |-> bob, admin |-> TRUE] }
=============================================================================
