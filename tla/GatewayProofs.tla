---------------------------- MODULE GatewayProofs ----------------------------
(* Theorems of Gateway, for every configuration file, every content of the *)
(* file system and any number of tabs.                                     *)
EXTENDS Gateway, ApiProofs, TLAPS, SequenceTheorems, WellFoundedInduction

-----------------------------------------------------------------------------
(* Paths.                                                                  *)

LEMMA Literals == \A name \in OwnNames : name \in STRING
BY RoutingConstants

LEMMA ShortSequences ==
  ASSUME NEW S, NEW a \in S, NEW b \in S, NEW c \in S, NEW d \in S
  PROVE  {<<a>>, <<a, b>>, <<a, b, c>>, <<a, b, c, d>>} \subseteq Seq(S) \ {<<>>}
OBVIOUS

LEMMA ShortPaths ==
  ASSUME NEW a \in STRING, NEW b \in STRING, NEW c \in STRING, NEW d \in STRING
  PROVE  <<a>> \in Paths /\ <<a, b>> \in Paths /\ <<a, b, c>> \in Paths /\ <<a, b, c, d>> \in Paths
BY ShortSequences, Zenon DEF Paths

LEMMA OwnPaths ==
  /\ "" \in STRING
  /\ <<"login">> \in Paths /\ <<"static", "">> \in Paths /\ <<"admin", "">> \in Paths
  /\ <<"me">> \in Paths /\ <<"me", "">> \in Paths /\ <<"auth", "basic", "login">> \in Paths
  /\ <<"auth", "callback", "">> \in Paths /\ <<"_">> \in Paths /\ <<"">> \in Paths
  /\ \A name \in {"github", "google"} : /\ <<"_", "auth", name, "login">> \in Paths
                                       /\ <<"_", "auth", name, "callback">> \in Paths
<1>1. /\ "" \in STRING /\ "_" \in STRING /\ "auth" \in STRING /\ "basic" \in STRING
      /\ "login" \in STRING /\ "callback" \in STRING /\ "static" \in STRING
      /\ "admin" \in STRING /\ "me" \in STRING
      /\ \A name \in {"github", "google"} : name \in STRING
  BY Literals DEF OwnNames
<1> QED BY ZenonT(40), <1>1, ShortPaths

LEMMA PathParts ==
  ASSUME NEW p \in Paths
  PROVE  /\ Len(p) \in Nat \ {0} /\ DOMAIN p = 1 .. Len(p) /\ Last(p) \in STRING
         /\ \A i \in 1 .. Len(p) : p[i] \in STRING
         /\ Front(p) \in Seq(STRING) /\ Len(Front(p)) = Len(p) - 1
         /\ \A i \in 1 .. (Len(p) - 1) : Front(p)[i] = p[i]
<1>1. p \in Seq(STRING) /\ Len(p) \in Nat \ {0} /\ DOMAIN p = 1 .. Len(p)
  BY LenProperties, EmptySeq DEF Paths
<1>2. \A i \in 1 .. Len(p) : p[i] \in STRING
  BY <1>1, ElementOfSeq
<1>3. /\ Front(p) \in Seq(STRING) /\ Len(Front(p)) = Len(p) - 1
      /\ \A i \in 1 .. (Len(p) - 1) : Front(p)[i] = p[i]
  BY <1>1, <1>2, SubSeqProperties DEF Front
<1> QED BY <1>1, <1>2, <1>3 DEF Last

LEMMA PathAppend ==
  ASSUME NEW s \in Seq(STRING), NEW x \in STRING
  PROVE  /\ Append(s, x) \in Paths /\ Last(Append(s, x)) = x
         /\ Len(Append(s, x)) = Len(s) + 1
         /\ \A i \in 1 .. Len(s) : Append(s, x)[i] = s[i]
BY AppendProperties, LenProperties DEF Paths, Last

LEMMA PathConcat ==
  ASSUME NEW s \in Seq(STRING), NEW t \in Paths
  PROVE  /\ s \o t \in Paths /\ Last(s \o t) = Last(t)
         /\ Len(s \o t) = Len(s) + Len(t)
         /\ \A i \in 1 .. Len(s) : (s \o t)[i] = s[i]
         /\ \A i \in 1 .. Len(t) : (s \o t)[Len(s) + i] = t[i]
<1>1. t \in Seq(STRING) /\ Len(t) \in Nat \ {0} /\ Len(s) \in Nat
  BY PathParts, LenProperties DEF Paths
<1>2. /\ s \o t \in Seq(STRING) /\ Len(s \o t) = Len(s) + Len(t)
      /\ \A i \in 1 .. Len(s) : (s \o t)[i] = s[i]
      /\ \A i \in 1 .. Len(t) : (s \o t)[Len(s) + i] = t[i]
  BY <1>1, ConcatProperties
<1>3. s \o t # <<>>
  BY <1>1, <1>2, EmptySeq
<1> QED BY <1>1, <1>2, <1>3 DEF Paths, Last

LEMMA LastOrBefore ==
  ASSUME NEW n \in Nat
  PROVE  \A i \in 1 .. n : i \in 1 .. (n - 1) \/ i = n
OBVIOUS

(* A pattern that begins a path, and is as long as another one that does,  *)
(* is the same.                                                            *)
LEMMA SameLength ==
  ASSUME NEW a \in Paths, NEW b \in Paths, NEW p, Covers(a, p), Covers(b, p),
         Len(a) = Len(b), Last(a) = "", Last(b) = ""
  PROVE  a = b
<1>1. SubSeq(Front(a), 1, Len(Front(a))) = SubSeq(p, 1, Len(Front(a)))
      /\ SubSeq(Front(b), 1, Len(Front(b))) = SubSeq(p, 1, Len(Front(b)))
  BY DEF Covers, IsPrefix
<1>2. Front(a) = Front(b)
  <2>1. Front(a) \in Seq(STRING) /\ Front(b) \in Seq(STRING) /\ Len(Front(a)) = Len(Front(b))
    BY PathParts
  <2>2. /\ SubSeq(Front(a), 1, Len(Front(a))) = Front(a)
        /\ SubSeq(Front(b), 1, Len(Front(b))) = Front(b)
    BY <2>1, SubSeqFull
  <2> QED BY <1>1, <2>1, <2>2
<1>3. ASSUME NEW i \in 1 .. Len(a) PROVE a[i] = b[i]
  <2>1. Len(a) \in Nat \ {0} /\ a[Len(a)] = "" /\ b[Len(a)] = ""
    BY PathParts DEF Last
  <2>2. /\ \A k \in 1 .. (Len(a) - 1) : Front(a)[k] = a[k]
        /\ \A k \in 1 .. (Len(b) - 1) : Front(b)[k] = b[k]
    BY PathParts
  <2>3. PICK n \in Nat : n = Len(a)
    BY <2>1
  <2>5. i \in 1 .. (n - 1) \/ i = n
    BY <2>3, LastOrBefore
  <2>6. CASE i = n
    BY <2>1, <2>3, <2>6
  <2>7. CASE i \in 1 .. (n - 1)
    <3>1. i \in 1 .. (Len(a) - 1) /\ i \in 1 .. (Len(b) - 1)
      BY <2>3, <2>7
    <3> QED BY <1>2, <2>2, <3>1
  <2> QED BY <2>5, <2>6, <2>7
<1> QED BY <1>3, PathParts, SeqEqual DEF Paths

LEMMA CoversItself ==
  ASSUME NEW p \in Paths
  PROVE  Covers(p, p)
<1>1. SubSeq(Front(p), 1, Len(Front(p))) = SubSeq(p, 1, Len(Front(p)))
  <2>1. Front(p) \in Seq(STRING) /\ Len(Front(p)) = Len(p) - 1
    BY PathParts
  <2>2. SubSeq(Front(p), 1, Len(Front(p))) = Front(p)
    BY <2>1, SubSeqFull
  <2>3. Front(p) = SubSeq(p, 1, Len(p) - 1)
    BY DEF Front
  <2> QED BY <2>1, <2>2, <2>3
<1>2. Len(Front(p)) <= Len(p) /\ Len(p) <= Len(p)
  BY PathParts
<1> QED BY <1>1, <1>2 DEF Covers, IsPrefix

LEMMA CoversLength ==
  ASSUME NEW a, NEW p, Covers(a, p)
  PROVE  a = p \/ (Last(a) = "" /\ Len(a) <= Len(p))
BY DEF Covers

LEMMA RangeOfOne == ASSUME NEW a PROVE Range(<<a>>) = {a}
BY DEF Range

LEMMA RangeOfTwo == ASSUME NEW a, NEW b PROVE Range(<<a, b>>) = {a, b}
BY DEF Range

LEMMA SlashedIsPath ==
  ASSUME NEW p \in Paths
  PROVE  Slashed(p) \in Paths
<1>1. p \in Seq(STRING) /\ "" \in STRING
  BY OwnPaths DEF Paths
<1> QED BY <1>1, PathAppend DEF Slashed

LEMMA RoutePrefixIsPath ==
  ASSUME NEW p \in Paths
  PROVE  RoutePrefix(p) \in Paths
<1>1. Front(p) \in Seq(STRING) /\ "" \in STRING
  BY PathParts, OwnPaths
<1> QED BY <1>1, PathAppend DEF RoutePrefix

LEMMA PatternsArePaths ==
  ASSUME NEW r \in RouteConfig
  PROVE  \A pattern \in Range(PatternsOf(r)) : pattern \in Paths
<1>1. r.from \in Paths
  BY DEF RouteConfig
<1>2. Slashed(r.from) \in Paths /\ Slashed(RoutePrefix(r.from)) \in Paths
  BY <1>1, SlashedIsPath, RoutePrefixIsPath
<1>3. CASE Last(r.from) # "*" /\ r.static /\ r.toFile # NoPath
  BY <1>1, <1>2, <1>3, RangeOfTwo DEF PatternsOf
<1>4. CASE ~(Last(r.from) # "*" /\ r.static /\ r.toFile # NoPath)
  BY <1>2, <1>4, RangeOfOne DEF PatternsOf
<1> QED BY <1>3, <1>4

-----------------------------------------------------------------------------
(* The entries of the mux.                                                 *)

LEMMA ConfigParts ==
  ASSUME NEW c \in GatewayConfig
  PROVE  /\ c.prefix \in Paths /\ c.routes \in Seq(RouteConfig)
         /\ Len(c.routes) \in Nat
         /\ \A i \in DOMAIN c.routes : c.routes[i] \in RouteConfig
<1>1. c.prefix \in Paths /\ c.routes \in Seq(RouteConfig)
  BY DEF GatewayConfig
<1> QED BY <1>1, LenProperties, ElementOfSeq

(* Each of the gateway's own entries, by name.                             *)
LEMMA OwnByKind ==
  ASSUME NEW e, OwnEntry(e)
  PROVE  \/ e = Entry("POST", conf.prefix \o <<"auth", "basic", "login">>, "basic", 0)
         \/ /\ e.method = "ANY" /\ e.kind \in {"oauth login", "oauth callback"} /\ e.n = 0
            /\ \E name \in {"github", "google"} :
                 \/ e.path = <<"_", "auth", name, "login">>
                 \/ e.path = <<"_", "auth", name, "callback">>
         \/ e = Management(conf.prefix \o <<"login">>, "login")
         \/ e = Management(conf.prefix \o <<"static", "">>, "assets")
         \/ e = Management(IF Last(conf.prefix) = "" THEN conf.prefix ELSE Append(conf.prefix, ""),
                           "openapi")
         \/ e = Management(conf.prefix \o <<"admin", "">>, "dashboard")
         \/ e = Management(<<"auth", "callback", "">>, "callback")
<1>1. CASE e \in ProviderRoutes(conf)
  <2>1. CASE e = Entry("POST", conf.prefix \o <<"auth", "basic", "login">>, "basic", 0)
    BY <2>1
  <2>2. CASE \E name \in Providers(conf) :
               e = [Management(<<"_", "auth", name, "login">>, "oauth login") EXCEPT !.how = name]
    BY <2>2 DEF Providers, Management, Entry
  <2>3. CASE \E name \in Providers(conf) :
               e = [Management(<<"_", "auth", name, "callback">>, "oauth callback") EXCEPT !.how = name]
    BY <2>3 DEF Providers, Management, Entry
  <2> QED BY <1>1, <2>1, <2>2, <2>3 DEF ProviderRoutes
<1>2. CASE e \notin ProviderRoutes(conf)
  BY <1>2 DEF OwnEntry, ManagementRoutes
<1> QED BY <1>1, <1>2

LEMMA OpenapiPath ==
  ASSUME conf \in GatewayConfig
  PROVE  LET path == IF Last(conf.prefix) = "" THEN conf.prefix ELSE Append(conf.prefix, "")
         IN /\ path \in Paths /\ Last(path) = ""
            /\ Len(path) \in {Len(conf.prefix), Len(conf.prefix) + 1}
<1>1. conf.prefix \in Paths /\ conf.prefix \in Seq(STRING) /\ Len(conf.prefix) \in Nat
  BY ConfigParts, PathParts DEF Paths
<1>2. /\ Append(conf.prefix, "") \in Paths /\ Last(Append(conf.prefix, "")) = ""
      /\ Len(Append(conf.prefix, "")) = Len(conf.prefix) + 1
  BY <1>1, OwnPaths, PathAppend
<1> QED BY <1>1, <1>2

LEMMA PrefixThen ==
  ASSUME conf \in GatewayConfig, NEW t \in Paths
  PROVE  /\ conf.prefix \o t \in Paths /\ Last(conf.prefix \o t) = Last(t)
         /\ Len(conf.prefix \o t) = Len(conf.prefix) + Len(t)
         /\ \A i \in 1 .. Len(t) : (conf.prefix \o t)[Len(conf.prefix) + i] = t[i]
<1>1. conf.prefix \in Seq(STRING)
  BY ConfigParts DEF Paths
<1> QED BY <1>1, PathConcat

LEMMA FirstBehindPrefix ==
  ASSUME conf \in GatewayConfig, NEW t \in Paths
  PROVE  (conf.prefix \o t)[Len(conf.prefix) + 1] = t[1]
<1>1. 1 \in 1 .. Len(t)
  BY PathParts
<1> QED BY <1>1, PrefixThen

LEMMA OwnEntryFacts ==
  ASSUME conf \in GatewayConfig, NEW e, OwnEntry(e)
  PROVE  /\ e.path \in Paths /\ e.method \in {"ANY", "POST"} /\ e.kind # "route"
         /\ e.method = "POST" => e.kind = "basic"
<1>1. CASE e = Entry("POST", conf.prefix \o <<"auth", "basic", "login">>, "basic", 0)
  <2>1. /\ e.path = conf.prefix \o <<"auth", "basic", "login">>
        /\ e.method = "POST" /\ e.kind = "basic"
    BY <1>1 DEF Entry
  <2> QED BY <2>1, OwnPaths, PrefixThen
<1>2. CASE /\ e.method = "ANY" /\ e.kind \in {"oauth login", "oauth callback"}
           /\ \E name \in {"github", "google"} :
                 \/ e.path = <<"_", "auth", name, "login">>
                 \/ e.path = <<"_", "auth", name, "callback">>
  BY <1>2, OwnPaths
<1>3. CASE \E path, kind : /\ e = Management(path, kind) /\ path \in Paths
                           /\ kind \in {"login", "assets", "openapi", "dashboard", "callback"}
  BY <1>3 DEF Management, Entry
<1>4. /\ conf.prefix \o <<"login">> \in Paths /\ conf.prefix \o <<"static", "">> \in Paths
      /\ conf.prefix \o <<"admin", "">> \in Paths /\ <<"auth", "callback", "">> \in Paths
      /\ (IF Last(conf.prefix) = "" THEN conf.prefix ELSE Append(conf.prefix, "")) \in Paths
  BY OwnPaths, PrefixThen, OpenapiPath
<1> HIDE DEF Management
<1>5. CASE \/ e = Management(conf.prefix \o <<"login">>, "login")
           \/ e = Management(conf.prefix \o <<"static", "">>, "assets")
           \/ e = Management(IF Last(conf.prefix) = "" THEN conf.prefix ELSE Append(conf.prefix, ""),
                             "openapi")
           \/ e = Management(conf.prefix \o <<"admin", "">>, "dashboard")
           \/ e = Management(<<"auth", "callback", "">>, "callback")
  BY <1>3, <1>4, <1>5
<1> QED BY <1>1, <1>2, <1>5, OwnByKind

LEMMA RouteEntryFacts ==
  ASSUME conf \in GatewayConfig, NEW e, EntryOfRoute(e)
  PROVE  /\ e.path \in Paths /\ e.method = "ANY" /\ e.kind = "route"
         /\ e.n \in DOMAIN conf.routes /\ conf.routes[e.n] \in RouteConfig
         /\ e.path \in Range(PatternsOf(conf.routes[e.n]))
BY ConfigParts, PatternsArePaths DEF EntryOfRoute

-----------------------------------------------------------------------------
(* Matching.                                                               *)

(* A path that is a pattern finds that pattern.                            *)
LEMMA FindExact ==
  ASSUME OnePattern, NEW e \in mux, e.path \in Paths, NEW method,
         e.method = method \/ (e.method = "ANY" /\ \A f \in mux : f.method # method)
  PROVE  Find(method, e.path) = e
<1> DEFINE fitting == {f \in mux : f.method \in {method, "ANY"} /\ Covers(f.path, e.path)}
           own == {f \in fitting : f.method = method}
           among == IF own # {} THEN own ELSE fitting
           exact == {f \in among : f.path = e.path}
<1>1. Covers(e.path, e.path)
  BY CoversItself
<1>2. e \in among /\ \A f \in among : f \in mux /\ f.method = e.method
  <2>1. CASE e.method = method
    BY <1>1, <2>1
  <2>2. CASE e.method = "ANY" /\ \A f \in mux : f.method # method
    BY <1>1, <2>2
  <2> QED BY <2>1, <2>2
<1>3. exact = {e}
  BY <1>2 DEF OnePattern, SamePattern
<1>4. Find(method, e.path) = CHOOSE f \in exact : TRUE
  BY <1>3 DEF Find
<1> QED BY <1>3, <1>4

LEMMA BoundedHasLongest ==
  ASSUME NEW S, S # {}, NEW N \in Nat, \A x \in S : Len(x.path) \in 0 .. N
  PROVE  \E x \in S : \A y \in S : Len(y.path) <= Len(x.path)
<1> DEFINE Less == {ss \in Nat \X Nat : ss[1] < ss[2]}
           Left == {N - Len(x.path) : x \in S}
<1>1. IsWellFoundedOn(Less, Nat)
  BY NatLessThanWellFounded, Zenon DEF OpToRel
<1>2. \A j, k \in Nat : j < k => <<j, k>> \in Less
  OBVIOUS
<1>3. Left \subseteq Nat /\ Left # {}
  OBVIOUS
<1> HIDE DEF Less
<1>4. PICK i \in Left : \A j \in Left : ~(<<j, i>> \in Less)
  <2> HIDE DEF Left
  <2> QED BY <1>1, <1>3, WFMin
<1>5. PICK x \in S : i = N - Len(x.path)
  BY <1>4
<1>6. ASSUME NEW y \in S PROVE Len(y.path) <= Len(x.path)
  <2>1. N - Len(y.path) \in Left
    OBVIOUS
  <2>2. ~(N - Len(y.path) < N - Len(x.path))
    BY <1>2, <1>3, <1>4, <1>5, <2>1
  <2> QED BY <2>2, SMT
<1> QED BY <1>6

(* What the patterns are: the first conjuncts follow from the inductive    *)
(* invariant below.                                                        *)
KnownEntries == \A e \in mux : OwnEntry(e) \/ EntryOfRoute(e)
LengthsBounded == \E N \in Nat : \A e \in mux : Len(e.path) \in 0 .. N

LEMMA EntryFacts ==
  ASSUME conf \in GatewayConfig, KnownEntries, NEW e \in mux
  PROVE  /\ e.path \in Paths /\ e.method \in {"ANY", "POST"}
         /\ e.method = "POST" => e.kind = "basic"
         /\ e.kind = "route" => EntryOfRoute(e) /\ e.method = "ANY"
BY OwnEntryFacts, RouteEntryFacts DEF KnownEntries

LEMMA EqualOrLess == \A n, k \in Nat : k <= n => k = n \/ k < n
OBVIOUS

LEMMA SpecialByLength ==
  ASSUME NEW a, NEW b, Len(a) \in Nat, Len(b) \in Nat, Len(b) <= Len(a), Last(b) = "",
         Last(a) = "" => Len(b) # Len(a)
  PROVE  MoreSpecial(a, b)
<1>2. Len(b) = Len(a) \/ Len(b) < Len(a)
  BY EqualOrLess
<1> QED BY <1>2, Zenon DEF MoreSpecial

(* A request that goes to a route goes to the most special of the patterns *)
(* that fit.                                                               *)
LEMMA FindRoute ==
  ASSUME conf \in GatewayConfig, KnownEntries, LengthsBounded, OnePattern,
         NEW method, NEW p, Find(method, p).kind = "route"
  PROVE  /\ Find(method, p) \in mux /\ EntryOfRoute(Find(method, p))
         /\ Covers(Find(method, p).path, p)
         /\ \A f \in mux :
              f.method = "ANY" /\ Covers(f.path, p) =>
                f = Find(method, p) \/ MoreSpecial(Find(method, p).path, f.path)
<1> DEFINE fitting == {f \in mux : f.method \in {method, "ANY"} /\ Covers(f.path, p)}
           own == {f \in fitting : f.method = method}
           among == IF own # {} THEN own ELSE fitting
           exact == {f \in among : f.path = p}
           longest(f) == f \in among /\ \A g \in among : Len(g.path) <= Len(f.path)
<1>1. PICK e : e = Find(method, p)
  OBVIOUS
<1>2. e = IF exact # {} THEN CHOOSE f \in exact : TRUE
          ELSE IF Last(p) # "" /\ \E f \in mux : f.method \in {method, "ANY"} /\ f.path = Append(p, "")
          THEN AddSlash
          ELSE IF among = {} THEN NotFound
          ELSE CHOOSE f \in among : \A g \in among : Len(g.path) <= Len(f.path)
  BY <1>1 DEF Find
<1>3. e.kind = "route" /\ e # AddSlash /\ e # NotFound
  <2>1. e.kind = "route"
    BY <1>1
  <2>2. AddSlash.kind = "add slash" /\ NotFound.kind = "not found"
    BY DEF AddSlash, NotFound, Management, Entry
  <2> QED BY <2>1, <2>2
<1>4. among # {} => \E f : longest(f)
  <2>1. PICK N \in Nat : \A f \in mux : Len(f.path) \in 0 .. N
    BY DEF LengthsBounded
  <2>2. \A f \in among : Len(f.path) \in 0 .. N
    BY <2>1
  <2> HIDE DEF among
  <2> QED BY <2>2, BoundedHasLongest
<1>5. (exact # {} /\ e \in exact) \/ (exact = {} /\ longest(e))
  <2> HIDE DEF among
  <2>1. CASE exact # {}
    <3> HIDE DEF exact
    <3> QED BY <1>2, <2>1
  <2>2. CASE exact = {} /\ among # {}
    BY <1>2, <1>3, <1>4, <2>2
  <2> QED BY <1>2, <1>3, <2>1, <2>2
<1>6. e \in among /\ e \in mux /\ Covers(e.path, p)
  BY <1>5
<1>7. EntryOfRoute(e) /\ e.method = "ANY" /\ e.path \in Paths
  BY <1>3, <1>6, EntryFacts
<1>8. among = fitting
  <2>1. CASE method = "ANY"
    BY <2>1
  <2>2. CASE method # "ANY"
    BY <1>6, <1>7, <2>2
  <2> QED BY <2>1, <2>2
<1>9. ASSUME NEW f \in mux, f.method = "ANY", Covers(f.path, p)
      PROVE  f = e \/ MoreSpecial(e.path, f.path)
  <2>1. f \in among /\ f.path \in Paths
    BY <1>8, <1>9, EntryFacts
  <2>2. f.path = e.path => f = e
    BY <1>6, <1>7, <1>9 DEF OnePattern, SamePattern
  <2>3. Len(f.path) \in Nat /\ Len(e.path) \in Nat
    BY <1>7, <2>1, PathParts
  <2>4. CASE e \in exact
    <3>1. e.path = p
      BY <2>4
    <3>2. CASE f.path # p
      <4>1. Last(f.path) = "" /\ Len(f.path) <= Len(e.path)
        BY <1>9, <3>1, <3>2, CoversLength
      <4>2. Last(e.path) = "" => Len(f.path) # Len(e.path)
        BY <1>6, <1>7, <1>9, <2>1, <3>1, <3>2, <4>1, SameLength
      <4> QED BY <2>3, <4>1, <4>2, SpecialByLength
    <3> QED BY <2>2, <3>1, <3>2
  <2>5. CASE exact = {} /\ longest(e)
    <3>1. f.path # p /\ e.path # p /\ Len(f.path) <= Len(e.path)
      BY <1>6, <2>1, <2>5
    <3>2. Last(f.path) = "" /\ Last(e.path) = ""
      BY <1>6, <1>9, <3>1, CoversLength
    <3>3. CASE Len(f.path) = Len(e.path)
      BY <1>6, <1>7, <1>9, <2>1, <2>2, <3>2, <3>3, SameLength
    <3>4. CASE Len(f.path) # Len(e.path)
      BY <2>3, <3>1, <3>2, <3>4, SpecialByLength
    <3> QED BY <3>3, <3>4
  <2> QED BY <1>5, <2>4, <2>5
<1> QED BY <1>1, <1>6, <1>7, <1>9

-----------------------------------------------------------------------------
(* What the gateway registers for itself is found.                         *)

LEMMA TwoParts ==
  ASSUME NEW a, NEW b
  PROVE  Len(<<a, b>>) = 2 /\ Last(<<a, b>>) = b /\ <<a, b>>[1] = a
BY DEF Last

LEMMA ThreeParts ==
  ASSUME NEW a, NEW b, NEW c
  PROVE  Len(<<a, b, c>>) = 3 /\ Last(<<a, b, c>>) = c /\ <<a, b, c>>[2] = b
BY DEF Last

LEMMA FourParts ==
  ASSUME NEW a, NEW b, NEW c, NEW d
  PROVE  Len(<<a, b, c, d>>) = 4 /\ <<a, b, c, d>>[4] = d
OBVIOUS

MePaths == {conf.prefix \o <<"me">>, conf.prefix \o <<"me", "">>}

LEMMA MePathParts ==
  ASSUME conf \in GatewayConfig
  PROVE  LET n == Len(conf.prefix)
         IN /\ n \in Nat \ {0}
            /\ conf.prefix \o <<"me">> \in Paths /\ Len(conf.prefix \o <<"me">>) = n + 1
            /\ Last(conf.prefix \o <<"me">>) = "me"
            /\ Len(conf.prefix \o <<"me", "">>) = n + 2
            /\ (conf.prefix \o <<"me", "">>)[n + 1] = "me"
            /\ Last(conf.prefix \o <<"me", "">>) = ""
<1>1. <<"me">> \in Paths /\ Len(<<"me">>) = 1 /\ Last(<<"me">>) = "me"
  BY OwnPaths DEF Last
<1>2. Len(<<"me", "">>) = 2 /\ Last(<<"me", "">>) = "" /\ <<"me", "">>[1] = "me"
  BY TwoParts, Zenon
<1>3. Len(conf.prefix) \in Nat \ {0}
  BY ConfigParts, PathParts
<1>4. (conf.prefix \o <<"me", "">>)[Len(conf.prefix) + 1] = "me"
  BY <1>2, OwnPaths, FirstBehindPrefix, Zenon
<1>5. /\ conf.prefix \o <<"me">> \in Paths /\ Len(conf.prefix \o <<"me">>) = Len(conf.prefix) + 1
      /\ Last(conf.prefix \o <<"me">>) = "me"
  BY <1>1, PrefixThen
<1>6. /\ Len(conf.prefix \o <<"me", "">>) = Len(conf.prefix) + 2
      /\ Last(conf.prefix \o <<"me", "">>) = ""
  BY <1>2, OwnPaths, PrefixThen
<1> QED BY <1>3, <1>4, <1>5, <1>6

LEMMA Offsets ==
  ASSUME NEW n \in Nat
  PROVE  n # n + 2 /\ n + 1 # n + 2 /\ (3 = n + 2 => n = 1) /\ (n = 1 => n + 1 = 2)
OBVIOUS

(* No pattern of the gateway is just for the path of the current user.     *)
LEMMA NotMe ==
  ASSUME conf \in GatewayConfig, NEW e, OwnEntry(e)
  PROVE  e.path \notin MePaths
<1> DEFINE n == Len(conf.prefix)
           me == conf.prefix \o <<"me">>
           slash == conf.prefix \o <<"me", "">>
<1>1. /\ n \in Nat \ {0} /\ Len(me) = n + 1 /\ Last(me) = "me"
      /\ Len(slash) = n + 2 /\ slash[n + 1] = "me" /\ Last(slash) = ""
  BY MePathParts
<1> HIDE DEF me, slash
<1>2. CASE Last(e.path) \notin {"me", ""}
  BY <1>1, <1>2 DEF MePaths, me, slash
<1>3. CASE Last(e.path) = "" /\ e.path[n + 1] # "me"
  BY <1>1, <1>3 DEF MePaths, me, slash
<1>4. CASE Last(e.path) = "" /\ Len(e.path) # n + 2
  BY <1>1, <1>4 DEF MePaths, me, slash
<1>5. CASE e = Entry("POST", conf.prefix \o <<"auth", "basic", "login">>, "basic", 0)
  <2>1. Last(<<"auth", "basic", "login">>) = "login"
    BY DEF Last
  <2>2. e.path = conf.prefix \o <<"auth", "basic", "login">>
    BY <1>5 DEF Entry
  <2> QED BY <1>2, <2>1, <2>2, OwnPaths, PrefixThen
<1>6. CASE \E name \in {"github", "google"} :
             \/ e.path = <<"_", "auth", name, "login">>
             \/ e.path = <<"_", "auth", name, "callback">>
  <2>1. ASSUME NEW name PROVE Last(<<"_", "auth", name, "login">>) = "login"
    BY FourParts, Zenon DEF Last
  <2>2. ASSUME NEW name PROVE Last(<<"_", "auth", name, "callback">>) = "callback"
    BY FourParts, Zenon DEF Last
  <2>3. Last(e.path) = "login" \/ Last(e.path) = "callback"
    BY <1>6, <2>1, <2>2, Zenon
  <2> QED BY <1>2, <2>3
<1>7. CASE e = Management(conf.prefix \o <<"login">>, "login")
  <2>1. Last(<<"login">>) = "login" /\ e.path = conf.prefix \o <<"login">>
    BY <1>7 DEF Last, Management, Entry
  <2> QED BY <1>2, <2>1, OwnPaths, PrefixThen
<1>8. ASSUME NEW name \in {"static", "admin"}, e.path = conf.prefix \o <<name, "">>,
             <<name, "">> \in Paths
      PROVE  Last(e.path) = "" /\ e.path[n + 1] # "me"
  <2>1. Last(<<name, "">>) = "" /\ Len(<<name, "">>) = 2 /\ <<name, "">>[1] = name
    BY TwoParts, Zenon
  <2>2. Last(e.path) = "" /\ e.path[n + 1] = name
    BY <1>8, <2>1, PrefixThen, FirstBehindPrefix, Zenon
  <2> QED BY <2>2
<1>9. CASE \/ e = Management(conf.prefix \o <<"static", "">>, "assets")
           \/ e = Management(conf.prefix \o <<"admin", "">>, "dashboard")
  <2>1. \A path, kind : Management(path, kind).path = path
    BY DEF Management, Entry
  <2>2. e.path = conf.prefix \o <<"static", "">> \/ e.path = conf.prefix \o <<"admin", "">>
    BY <1>9, <2>1
  <2> QED BY <1>3, <1>8, <2>2, OwnPaths
<1>10. CASE e = Management(IF Last(conf.prefix) = "" THEN conf.prefix ELSE Append(conf.prefix, ""),
                           "openapi")
  <2>1. e.path = IF Last(conf.prefix) = "" THEN conf.prefix ELSE Append(conf.prefix, "")
    BY <1>10 DEF Management, Entry
  <2>2. Last(e.path) = "" /\ Len(e.path) \in {n, n + 1}
    BY <2>1, OpenapiPath
  <2>3. n # n + 2 /\ n + 1 # n + 2
    BY <1>1, Offsets
  <2>4. Len(e.path) # n + 2
    BY <2>2, <2>3, Zenon
  <2> QED BY <1>4, <2>2, <2>4
<1>11. CASE e = Management(<<"auth", "callback", "">>, "callback")
  <2>1. e.path = <<"auth", "callback", "">>
    BY <1>11 DEF Management, Entry
  <2>2. Len(e.path) = 3 /\ e.path[2] = "callback" /\ Last(e.path) = ""
    <3>1. /\ Len(<<"auth", "callback", "">>) = 3 /\ <<"auth", "callback", "">>[2] = "callback"
          /\ Last(<<"auth", "callback", "">>) = ""
      BY ThreeParts, Zenon
    <3> QED BY <2>1, <3>1, Zenon
  <2>3. CASE n = 1
    <3>1. n + 1 = 2
      BY <1>1, <2>3, Offsets
    <3>2. e.path[n + 1] = "callback"
      BY <2>2, <3>1, Zenon
    <3> QED BY <1>3, <2>2, <3>2
  <2>4. CASE n # 1
    <3>1. Len(e.path) # n + 2
      BY <1>1, <2>2, <2>4, Offsets, Zenon
    <3> QED BY <1>4, <2>2, <3>1
  <2> QED BY <2>3, <2>4
<1> QED BY <1>5, <1>6, <1>7, <1>9, <1>10, <1>11, OwnByKind

(* What is below a path, in any way, begins with it.                       *)
LEMMA BeginsWith ==
  ASSUME NEW s \in Paths, NEW t \in Paths
  PROVE  SubSeq(s \o t, 1, Len(s)) = s
<1>1. s \in Seq(STRING) /\ t \in Seq(STRING)
  BY DEF Paths
<1>2. Len(s) \in Nat \ {0}
  BY PathParts
<1>3. 1 \in 1 .. Len(s) /\ Len(s) \in 1 .. Len(s)
  BY <1>2
<1> QED BY <1>1, <1>3, SubSeqOfConcat1, SubSeqFull

LEMMA FrontOfAppend ==
  ASSUME NEW s \in Paths, NEW x \in STRING
  PROVE  Front(Append(s, x)) = s
<1>1. s \in Seq(STRING) /\ <<x>> \in Paths
  BY ShortPaths DEF Paths
<1>2. Append(s, x) = s \o <<x>>
  BY <1>1, AppendIsConcat
<1>3. Len(Append(s, x)) = Len(s) + 1 /\ Len(s) \in Nat
  BY <1>1, PathAppend, PathParts
<1>4. Len(Append(s, x)) - 1 = Len(s)
  BY <1>3
<1>5. Front(Append(s, x)) = SubSeq(s \o <<x>>, 1, Len(s))
  BY <1>2, <1>4 DEF Front
<1> QED BY <1>1, <1>5, BeginsWith

LEMMA PrefixCovers ==
  ASSUME NEW s \in Paths, NEW t \in Paths
  PROVE  Covers(Append(s, ""), s \o t) /\ Len(Append(s, "")) = Len(s) + 1
         /\ Append(s, "") \in Paths /\ Last(Append(s, "")) = ""
<1>1. s \in Seq(STRING) /\ t \in Seq(STRING) /\ "" \in STRING
  BY OwnPaths DEF Paths
<1>2. /\ Append(s, "") \in Paths /\ Last(Append(s, "")) = ""
      /\ Len(Append(s, "")) = Len(s) + 1 /\ Len(s \o t) = Len(s) + Len(t)
  BY <1>1, PathAppend, PathConcat
<1>3. Len(s) \in Nat \ {0} /\ Len(t) \in Nat \ {0}
  BY PathParts
<1>4. Len(Append(s, "")) <= Len(s \o t) /\ Len(s) <= Len(s \o t)
  <2>1. \A n, k \in Nat \ {0} : n + 1 <= n + k /\ n <= n + k
    OBVIOUS
  <2> QED BY <1>2, <1>3, <2>1
<1>5. SubSeq(s, 1, Len(s)) = SubSeq(s \o t, 1, Len(s))
  BY <1>1, BeginsWith, SubSeqFull
<1>6. IsPrefix(Front(Append(s, "")), s \o t)
  BY <1>1, <1>4, <1>5, FrontOfAppend DEF IsPrefix
<1> QED BY <1>2, <1>4, <1>6 DEF Covers

LEMMA AppendToOne ==
  ASSUME NEW S, NEW x \in S, NEW y \in S
  PROVE  <<x, y>> = Append(<<x>>, y)
OBVIOUS

LEMMA AppendToLast ==
  ASSUME NEW S, NEW s \in Seq(S), NEW x \in S, NEW y \in S
  PROVE  Append(s \o <<x>>, y) = s \o <<x, y>>
<1>1. <<x>> \in Seq(S) /\ <<y>> \in Seq(S)
  OBVIOUS
<1>4. s \o <<x>> \in Seq(S)
  BY <1>1, ConcatProperties
<1>5. <<x>> \o <<y>> = <<x, y>>
  BY ZenonT(40), <1>1, AppendToOne, AppendIsConcat
<1>2. Append(s \o <<x>>, y) = (s \o <<x>>) \o <<y>>
  BY <1>4, AppendIsConcat
<1>3. (s \o <<x>>) \o <<y>> = s \o (<<x>> \o <<y>>)
  BY <1>1, ConcatAssociative
<1> QED BY <1>2, <1>3, <1>5

LEMMA AppendToMe ==
  ASSUME conf \in GatewayConfig
  PROVE  Append(conf.prefix \o <<"me">>, "") = conf.prefix \o <<"me", "">>
<1>1. conf.prefix \in Seq(STRING)
  BY ConfigParts DEF Paths
<1>2. "" \in STRING /\ "me" \in STRING
  BY Literals DEF OwnNames
<1> QED BY <1>1, <1>2, AppendToLast, Zenon

LEMMA NotLessNotMore == \A n, k \in Nat : n <= k /\ k <= n => n = k
OBVIOUS

(* The path of the current user finds the API if no route is for it.       *)
LEMMA FindMe ==
  ASSUME conf \in GatewayConfig, KnownEntries, OnePattern,
         NEW o \in mux, o.method = "ANY", o.path = Append(conf.prefix, ""), o.kind = "openapi",
         \A e \in mux : e.kind = "route" => e.path \notin MePaths
  PROVE  Find("GET", conf.prefix \o <<"me">>) = o
<1> DEFINE me == conf.prefix \o <<"me">>
           fitting == {f \in mux : f.method \in {"GET", "ANY"} /\ Covers(f.path, me)}
           own == {f \in fitting : f.method = "GET"}
           among == IF own # {} THEN own ELSE fitting
           exact == {f \in among : f.path = me}
           longest == {f \in among : \A g \in among : Len(g.path) <= Len(f.path)}
<1>1. ASSUME NEW e \in mux
      PROVE  /\ e.path \notin MePaths /\ e.path \in Paths /\ e.method \in {"ANY", "POST"}
  <2>1. e.kind # "route" => OwnEntry(e)
    BY EntryFacts, RouteEntryFacts DEF KnownEntries
  <2> QED BY <2>1, EntryFacts, NotMe
<1>2. own = {} /\ among = fitting /\ \A f \in fitting : f.method = "ANY"
  BY <1>1
<1>3. exact = {}
  BY <1>1, <1>2 DEF MePaths
<1>4. ~\E e \in mux : e.method \in {"GET", "ANY"} /\ e.path = Append(me, "")
  BY <1>1, AppendToMe DEF MePaths
<1>5. o \in among /\ Len(o.path) = Len(me) /\ Last(o.path) = "" /\ o.path \in Paths
  <2>1. conf.prefix \in Paths /\ <<"me">> \in Paths
    BY ConfigParts, OwnPaths
  <2>2. /\ Covers(o.path, me) /\ Len(o.path) = Len(conf.prefix) + 1
        /\ o.path \in Paths /\ Last(o.path) = ""
    BY <2>1, PrefixCovers
  <2> QED BY <1>2, <2>2, MePathParts
<1>6. ASSUME NEW f \in among
      PROVE  Last(f.path) = "" /\ Len(f.path) <= Len(o.path) /\ f.path \in Paths
  <2>1. f \in mux /\ Covers(f.path, me) /\ f.path # me
    BY <1>2, <1>3
  <2> QED BY <1>1, <1>5, <2>1, CoversLength
<1>7. longest = {o}
  <2>1. o \in longest
    BY <1>5, <1>6
  <2>2. ASSUME NEW f \in longest PROVE f = o
    <3>1. f \in among /\ f.path \in Paths /\ Last(f.path) = "" /\ Len(o.path) <= Len(f.path)
          /\ Len(f.path) <= Len(o.path)
      BY <1>5, <1>6
    <3>2. Len(f.path) = Len(o.path)
      BY <1>5, <3>1, PathParts, NotLessNotMore, Zenon
    <3>3. f.path = o.path
      BY <1>2, <1>5, <3>1, <3>2, SameLength
    <3> QED BY <1>2, <3>1, <3>3 DEF OnePattern, SamePattern
  <2> QED BY <2>1, <2>2
<1>8. Find("GET", me) = CHOOSE f \in among : \A g \in among : Len(g.path) <= Len(f.path)
  <2> HIDE DEF me
  <2>1. among # {}
    BY <1>5
  <2> QED BY <1>3, <1>4, <2>1, Zenon DEF Find
<1>9. (CHOOSE f \in among : \A g \in among : Len(g.path) <= Len(f.path)) = o
  <2> HIDE DEF among
  <2> QED BY <1>7
<1> QED BY <1>8, <1>9

-----------------------------------------------------------------------------
(* The patterns while the gateway starts.                                  *)

LEMMA PrefixNormal ==
  ASSUME NEW raw \in Paths, SelectSeq(raw, LAMBDA x : x # "") \in Seq(STRING \ {""})
  PROVE  /\ NormalPrefix(raw) \in Paths
         /\ NormalPrefix(raw) = <<"">> \/ "" \notin Range(NormalPrefix(raw))
<1> DEFINE trimmed == SelectSeq(raw, LAMBDA x : x # "")
<1>1. CASE raw = <<"">>
  <2>1. NormalPrefix(raw) = <<"_">>
    BY <1>1 DEF NormalPrefix
  <2>2. Range(<<"_">>) = {"_"}
    BY RangeOfOne, Zenon
  <2> QED BY <2>1, <2>2, OwnPaths
<1>2. CASE raw # <<"">> /\ trimmed = <<>>
  <2>1. NormalPrefix(raw) = <<"">>
    BY <1>2 DEF NormalPrefix
  <2> QED BY <2>1, OwnPaths
<1>3. CASE raw # <<"">> /\ trimmed # <<>>
  <2>1. NormalPrefix(raw) = trimmed
    BY <1>3 DEF NormalPrefix
  <2> HIDE DEF trimmed
  <2>2. trimmed \in Seq(STRING \ {""})
    BY DEF trimmed
  <2>3. "" \notin Range(trimmed)
    <3>1. Range(trimmed) \in SUBSET (STRING \ {""})
      BY <2>2, RangeOfSeq
    <3> QED BY <3>1, Zenon
  <2>4. trimmed \in Seq(STRING)
    BY <2>2, SeqMonotonic
  <2> QED BY <1>3, <2>1, <2>3, <2>4 DEF Paths
<1> QED BY <1>1, <1>2, <1>3

LEMMA LoadedFacts ==
  ASSUME NEW s \in Sites
  PROVE  /\ Loaded(s) \in GatewayConfig /\ Loaded(s).routes = s.routes
         /\ Loaded(s).prefix = <<"">> \/ "" \notin Range(Loaded(s).prefix)
<1>1. s \in GatewayConfig /\ SelectSeq(s.prefix, LAMBDA x : x # "") \in Seq(STRING \ {""})
  BY RoutingConstants
<1>2. /\ NormalPrefix(s.prefix) \in Paths
      /\ NormalPrefix(s.prefix) = <<"">> \/ "" \notin Range(NormalPrefix(s.prefix))
  BY <1>1, ConfigParts, PrefixNormal
<1>3. PICK admin : admin = IF s.admin.enabled THEN s.admin
                           ELSE [enabled |-> FALSE, username |-> FALSE, password |-> FALSE]
  OBVIOUS
<1>4. admin \in [enabled: BOOLEAN, username: BOOLEAN, password: BOOLEAN]
  BY <1>1, <1>3 DEF GatewayConfig
<1>5. Loaded(s) = [s EXCEPT !.prefix = NormalPrefix(s.prefix), !.admin = admin]
  BY <1>3 DEF Loaded
<1>6. Loaded(s) \in GatewayConfig
  BY <1>1, <1>2, <1>4, <1>5 DEF GatewayConfig
<1>7. Loaded(s).prefix = NormalPrefix(s.prefix) /\ Loaded(s).routes = s.routes
  BY <1>1, <1>5 DEF GatewayConfig
<1> QED BY <1>2, <1>6, <1>7

LEMMA SmallLengths ==
  ASSUME NEW n \in Nat
  PROVE  \A k \in {3, 4, n, n + 1, n + 2, n + 3} : k \in 0 .. (n + 4)
OBVIOUS

LEMMA OwnEntryLength ==
  ASSUME conf \in GatewayConfig, NEW e, OwnEntry(e)
  PROVE  Len(e.path) \in 0 .. (Len(conf.prefix) + 4)
<1>1. PICK n \in Nat : n = Len(conf.prefix)
  BY ConfigParts, PathParts
<1>2. Len(e.path) \in {3, 4, n, n + 1, n + 2, n + 3}
  <2>1. \A x, y, z, u : /\ Len(<<x>>) = 1 /\ Len(<<x, y>>) = 2 /\ Len(<<x, y, z>>) = 3
                        /\ Len(<<x, y, z, u>>) = 4
    OBVIOUS
  <2>2. \A method, path, kind, i : /\ Entry(method, path, kind, i).path = path
                                   /\ Management(path, kind).path = path
    BY DEF Entry, Management
  <2>3. CASE e = Entry("POST", conf.prefix \o <<"auth", "basic", "login">>, "basic", 0)
    <3>1. e.path = conf.prefix \o <<"auth", "basic", "login">>
      BY <2>3 DEF Entry
    <3>3. Len(e.path) = n + Len(<<"auth", "basic", "login">>)
      BY <1>1, <3>1, OwnPaths, PrefixThen, Zenon
    <3>2. Len(<<"auth", "basic", "login">>) = 3
      BY <2>1, Zenon
    <3> QED BY <3>2, <3>3
  <2>4. CASE e = Management(conf.prefix \o <<"login">>, "login")
    <3>1. e.path = conf.prefix \o <<"login">>
      BY <2>2, <2>4
    <3>3. Len(e.path) = n + Len(<<"login">>)
      BY <1>1, <3>1, OwnPaths, PrefixThen, Zenon
    <3>2. Len(<<"login">>) = 1
      BY <2>1, Zenon
    <3> QED BY <3>2, <3>3
  <2>5. CASE e = Management(conf.prefix \o <<"static", "">>, "assets")
    <3>1. e.path = conf.prefix \o <<"static", "">>
      BY <2>2, <2>5
    <3>3. Len(e.path) = n + Len(<<"static", "">>)
      BY <1>1, <3>1, OwnPaths, PrefixThen, Zenon
    <3>2. Len(<<"static", "">>) = 2
      BY <2>1, Zenon
    <3> QED BY <3>2, <3>3
  <2>6. CASE e = Management(conf.prefix \o <<"admin", "">>, "dashboard")
    <3>1. e.path = conf.prefix \o <<"admin", "">>
      BY <2>2, <2>6
    <3>3. Len(e.path) = n + Len(<<"admin", "">>)
      BY <1>1, <3>1, OwnPaths, PrefixThen, Zenon
    <3>2. Len(<<"admin", "">>) = 2
      BY <2>1, Zenon
    <3> QED BY <3>2, <3>3
  <2>7. CASE e = Management(IF Last(conf.prefix) = "" THEN conf.prefix ELSE Append(conf.prefix, ""),
                            "openapi")
    BY ZenonT(40), <1>1, <2>2, <2>7, OpenapiPath
  <2>8. CASE e = Management(<<"auth", "callback", "">>, "callback")
    <3>1. e.path = <<"auth", "callback", "">>
      BY <2>2, <2>8
    <3>2. Len(e.path) = 3
      BY <2>1, <3>1, Zenon
    <3> QED BY <3>2
  <2>9. CASE \E name \in {"github", "google"} :
               \/ e.path = <<"_", "auth", name, "login">>
               \/ e.path = <<"_", "auth", name, "callback">>
    <3>1. Len(e.path) = 4
      BY <2>1, <2>9, Zenon
    <3> QED BY <3>1
  <2> QED BY <2>3, <2>4, <2>5, <2>6, <2>7, <2>8, <2>9, OwnByKind
<1>3. Len(e.path) \in 0 .. (n + 4)
  BY <1>2, SmallLengths
<1> QED BY <1>1, <1>3

MuxFacts == MuxInv /\ LengthsBounded

LEMMA MuxParts ==
  ASSUME MuxInv
  PROVE  /\ conf \in GatewayConfig /\ KnownEntries /\ OnePattern
         /\ phase = "up" => ManagementRoutes(conf) \subseteq mux
BY DEF MuxInv, KnownEntries, Started

LEMMA MuxFactsInit == Init => MuxFacts
<1> SUFFICES ASSUME Init PROVE MuxFacts
  OBVIOUS
<1>1. /\ site \in Sites /\ conf = site /\ next = 1 /\ mux = {} /\ phase = "config"
  BY DEF Init, RoutingInit
<1>2. conf \in GatewayConfig
  BY <1>1, RoutingConstants
<1>3. Len(conf.routes) \in Nat
  BY <1>2, ConfigParts
<1>4. 1 \in 1 .. (Len(conf.routes) + 1)
  BY <1>3
<1>5. MuxInv
  BY <1>1, <1>2, <1>4 DEF MuxInv, OnePattern, AllPatterns, Started
<1>6. LengthsBounded
  BY <1>1 DEF LengthsBounded
<1> QED BY <1>5, <1>6 DEF MuxFacts

LEMMA SameOwnEntries ==
  ASSUME conf' = conf
  PROVE  /\ \A e : OwnEntry(e)' = OwnEntry(e)
         /\ \A e : EntryOfRoute(e)' = EntryOfRoute(e)
         /\ ManagementRoutes(conf)' = ManagementRoutes(conf)
<1>1. ManagementRoutes(conf)' = ManagementRoutes(conf)
  BY DEF ManagementRoutes
<1> QED BY <1>1 DEF OwnEntry, EntryOfRoute

LEMMA MuxSame ==
  ASSUME MuxFacts, UNCHANGED <<site, phase, conf, next, mux>>
  PROVE  MuxFacts'
<1>1. MuxInv'
  BY SameOwnEntries DEF MuxFacts, MuxInv, OnePattern, AllPatterns
<1>2. LengthsBounded'
  BY DEF MuxFacts, LengthsBounded
<1> QED BY <1>1, <1>2 DEF MuxFacts

LEMMA LoadMux == MuxFacts /\ LoadConfig => MuxFacts'
<1> SUFFICES ASSUME MuxFacts, LoadConfig PROVE MuxFacts'
  OBVIOUS
<1>1. CASE ConfigError(site)
  <2>1. phase' = "failed" /\ phase = "config" /\ UNCHANGED <<site, conf, next, mux>>
    BY <1>1 DEF LoadConfig
  <2>2. mux = {}
    BY <2>1 DEF MuxFacts, MuxInv
  <2>3. MuxInv'
    BY <2>1, <2>2 DEF MuxFacts, MuxInv, OnePattern, AllPatterns, Started
  <2> QED BY <2>1, <2>3 DEF MuxFacts, LengthsBounded
<1>2. CASE ~ConfigError(site)
  <2>1. /\ phase' = "validate" /\ phase = "config" /\ UNCHANGED <<site, next, mux>>
        /\ conf' = Loaded(site)
    BY <1>2 DEF LoadConfig
  <2>2. mux = {} /\ site \in Sites /\ next \in 1 .. (Len(conf.routes) + 1) /\ conf.routes = site.routes
    BY <2>1 DEF MuxFacts, MuxInv
  <2>3. /\ conf' \in GatewayConfig /\ conf'.routes = site.routes
        /\ conf'.prefix = <<"">> \/ "" \notin Range(conf'.prefix)
    BY <2>1, <2>2, LoadedFacts
  <2>4. MuxInv'
    BY <2>1, <2>2, <2>3 DEF MuxInv, OnePattern, AllPatterns, Started
  <2> QED BY <2>1, <2>4 DEF MuxFacts, LengthsBounded
<1> QED BY <1>1, <1>2

LEMMA ValidateMux == MuxFacts /\ ValidateAllMiddleware => MuxFacts'
<1> SUFFICES ASSUME MuxFacts, ValidateAllMiddleware PROVE MuxFacts'
  OBVIOUS
<1>1. /\ phase = "validate" /\ phase' \in {"management", "failed"}
      /\ UNCHANGED <<site, conf, next, mux>>
  BY DEF ValidateAllMiddleware
<1>2. mux = {}
  BY <1>1 DEF MuxFacts, MuxInv
<1>3. MuxInv'
  BY <1>1, <1>2 DEF MuxFacts, MuxInv, OnePattern, AllPatterns, Started
<1> QED BY <1>1, <1>3 DEF MuxFacts, LengthsBounded

(* The gateway that fails, or goes on without registering anything.        *)
LEMMA MuxKept ==
  ASSUME MuxFacts, UNCHANGED <<site, conf, mux>>, next' \in 1 .. (Len(conf.routes) + 1),
         \/ phase' = "failed"
         \/ phase \in Started /\ phase' \in Started
  PROVE  MuxFacts'
<1>1. OnePattern' /\ AllPatterns'
  BY DEF MuxFacts, MuxInv, OnePattern, AllPatterns
<1>2. MuxInv'
  BY <1>1, SameOwnEntries DEF MuxFacts, MuxInv, Started
<1> QED BY <1>2 DEF MuxFacts, LengthsBounded

LEMMA MuxGrows ==
  ASSUME MuxFacts, UNCHANGED <<site, conf>>, next' \in 1 .. (Len(conf.routes) + 1),
         NEW entries, NEW then \in Started, Register(entries, then),
         phase = "management" \/ phase \in Started,
         phase = "management" => ManagementRoutes(conf) \subseteq entries,
         \A e \in entries : OwnEntry(e) \/ EntryOfRoute(e),
         \A e \in entries : e.kind = "route" =>
           \A pattern \in Range(PatternsOf(conf.routes[e.n])) :
             \E f \in entries : f.kind = "route" /\ f.n = e.n /\ f.path = pattern,
         NEW N \in Nat, \A e \in entries : Len(e.path) \in 0 .. N
  PROVE  MuxFacts'
<1>1. CASE phase' = "failed" /\ mux' = mux
  BY <1>1, MuxKept
<1>2. CASE phase' = then /\ mux' = mux \cup entries /\ ~Panics(entries)
  <2>1. OnePattern'
    <3> SUFFICES ASSUME NEW e \in mux \cup entries, NEW f \in mux \cup entries, SamePattern(e, f)
                 PROVE  e = f
      BY <1>2 DEF OnePattern, SamePattern
    <3>1. SamePattern(f, e)
      BY DEF SamePattern
    <3> QED BY <1>2, <3>1, Zenon DEF Panics, MuxFacts, MuxInv, OnePattern
  <2>2. AllPatterns'
    <3>1. \A e \in mux : e.kind = "route" =>
            \A pattern \in Range(PatternsOf(conf.routes[e.n])) :
              \E f \in mux : f.kind = "route" /\ f.n = e.n /\ f.path = pattern
      BY DEF MuxFacts, MuxInv, AllPatterns
    <3>2. ASSUME NEW e \in mux \cup entries, e.kind = "route",
                 NEW pattern \in Range(PatternsOf(conf.routes[e.n]))
          PROVE  \E f \in mux \cup entries : f.kind = "route" /\ f.n = e.n /\ f.path = pattern
      <4>1. CASE e \in mux
        <5>1. PICK f \in mux : f.kind = "route" /\ f.n = e.n /\ f.path = pattern
          BY <3>1, <3>2, <4>1
        <5> QED BY <5>1
      <4>2. CASE e \in entries
        BY <3>2, <4>2, Zenon
      <4> QED BY <4>1, <4>2
    <3>3. mux' = mux \cup entries /\ conf' = conf
      BY <1>2
    <3> SUFFICES ASSUME NEW e \in mux', e.kind = "route",
                        NEW pattern \in Range(PatternsOf(conf'.routes[e.n]))
                 PROVE  \E f \in mux' : f.kind = "route" /\ f.n = e.n /\ f.path = pattern
      BY DEF AllPatterns
    <3> QED BY <3>2, <3>3
  <2>3. ManagementRoutes(conf) \subseteq mux'
    BY <1>2 DEF MuxFacts, MuxInv
  <2>4. \A e \in mux' : OwnEntry(e) \/ EntryOfRoute(e)
    BY <1>2 DEF MuxFacts, MuxInv
  <2>5. phase' \in Started /\ phase \notin {"config", "failed"}
    BY <1>2 DEF Started
  <2>6. MuxInv'
    BY <2>1, <2>2, <2>3, <2>4, <2>5, SameOwnEntries DEF MuxFacts, MuxInv, Started
  <2>7. LengthsBounded'
    <3>1. PICK M \in Nat : \A e \in mux : Len(e.path) \in 0 .. M
      BY DEF MuxFacts, LengthsBounded
    <3>2. \A e \in mux' : Len(e.path) \in 0 .. (M + N)
      BY <1>2, <3>1
    <3>3. M + N \in Nat
      BY <3>1
    <3> QED BY <3>2, <3>3 DEF LengthsBounded
  <2> QED BY <2>6, <2>7 DEF MuxFacts
<1> QED BY <1>1, <1>2 DEF Register

LEMMA ManagementMux == MuxFacts /\ RegisterManagement => MuxFacts'
<1> SUFFICES ASSUME MuxFacts, RegisterManagement PROVE MuxFacts'
  OBVIOUS
<1>1. /\ phase = "management" /\ UNCHANGED <<site, conf, next>>
      /\ Register(ManagementRoutes(conf), "routes")
  BY DEF RegisterManagement
<1>2. conf \in GatewayConfig /\ next' \in 1 .. (Len(conf.routes) + 1)
  BY <1>1 DEF MuxFacts, MuxInv
<1>3. \A e \in ManagementRoutes(conf) : OwnEntry(e) /\ e.kind # "route"
  BY <1>2, OwnEntryFacts DEF OwnEntry
<1>4. \A e \in ManagementRoutes(conf) : Len(e.path) \in 0 .. (Len(conf.prefix) + 4)
  BY <1>2, <1>3, OwnEntryLength
<1>5. Len(conf.prefix) + 4 \in Nat /\ "routes" \in Started
  BY <1>2, ConfigParts, PathParts DEF Started
<1> QED BY <1>1, <1>2, <1>3, <1>4, <1>5, MuxGrows

LEMMA CallbackMux == MuxFacts /\ RegisterCallback => MuxFacts'
<1> SUFFICES ASSUME MuxFacts, RegisterCallback PROVE MuxFacts'
  OBVIOUS
<1> DEFINE e == Management(<<"auth", "callback", "">>, "callback")
<1>1. /\ phase = "routes" /\ UNCHANGED <<site, conf, next>> /\ Register({e}, "admin")
  BY DEF RegisterCallback
<1>2. conf \in GatewayConfig /\ next' \in 1 .. (Len(conf.routes) + 1)
  BY <1>1 DEF MuxFacts, MuxInv
<1>3. OwnEntry(e)
  BY DEF OwnEntry
<1> HIDE DEF e
<1>4. e.kind # "route" /\ Len(e.path) \in 0 .. (Len(conf.prefix) + 4)
  BY <1>2, <1>3, OwnEntryFacts, OwnEntryLength
<1>5. Len(conf.prefix) + 4 \in Nat /\ "routes" \in Started /\ "admin" \in Started
  BY <1>2, ConfigParts, PathParts DEF Started
<1> QED BY <1>1, <1>2, <1>3, <1>4, <1>5, MuxGrows

LEMMA PatternsBounded ==
  ASSUME NEW r \in RouteConfig
  PROVE  \E N \in Nat : \A pattern \in Range(PatternsOf(r)) : Len(pattern) \in 0 .. N
<1>1. \A p \in Paths : Len(p) \in Nat
  BY PathParts
<1>2. r.from \in Paths
  BY DEF RouteConfig
<1>3. PICK a, b \in Paths : Range(PatternsOf(r)) \subseteq {a, b}
  <2>1. Slashed(r.from) \in Paths /\ Slashed(RoutePrefix(r.from)) \in Paths
    BY <1>2, SlashedIsPath, RoutePrefixIsPath
  <2>2. PatternsOf(r) \in {<<r.from, Slashed(r.from)>>, <<Slashed(RoutePrefix(r.from))>>}
    BY DEF PatternsOf
  <2> QED BY <1>2, <2>1, <2>2, RangeOfOne, RangeOfTwo
<1>4. PICK m \in Nat, k \in Nat : m = Len(a) /\ k = Len(b)
  BY <1>1
<1>5. m \in 0 .. (m + k) /\ k \in 0 .. (m + k) /\ m + k \in Nat
  OBVIOUS
<1> QED BY <1>3, <1>4, <1>5, Zenon

LEMMA RouteMux == MuxFacts /\ RegisterRoute => MuxFacts'
<1> SUFFICES ASSUME MuxFacts, RegisterRoute PROVE MuxFacts'
  OBVIOUS
<1> DEFINE r == conf.routes[next]
           patterns == PatternsOf(r)
           entries == {RouteEntry(next, p) : p \in Range(patterns)}
<1>1. /\ phase = "routes" /\ next <= Len(conf.routes) /\ next' = next + 1
      /\ UNCHANGED <<site, conf>>
      /\ \/ UNCHANGED <<phase, mux>>
         \/ phase' = "failed" /\ UNCHANGED mux
         \/ Register(entries, "routes")
  BY DEF RegisterRoute
<1>2. conf \in GatewayConfig /\ next \in 1 .. (Len(conf.routes) + 1)
  BY DEF MuxFacts, MuxInv
<1>3. Len(conf.routes) \in Nat /\ DOMAIN conf.routes = 1 .. Len(conf.routes)
  BY <1>2, ConfigParts, LenProperties
<1>4. next' \in 1 .. (Len(conf.routes) + 1) /\ next \in DOMAIN conf.routes
  BY <1>1, <1>2, <1>3
<1>5. r \in RouteConfig
  BY <1>2, <1>4, ConfigParts
<1>6. \A p : /\ RouteEntry(next, p).kind = "route" /\ RouteEntry(next, p).n = next
             /\ RouteEntry(next, p).path = p /\ RouteEntry(next, p).method = "ANY"
  BY DEF RouteEntry, Entry
<1>7. CASE UNCHANGED mux /\ (phase' = phase \/ phase' = "failed")
  BY <1>1, <1>4, <1>7, MuxKept DEF Started
<1>8. CASE Register(entries, "routes")
  <2>1. PICK N \in Nat : \A pattern \in Range(patterns) : Len(pattern) \in 0 .. N
    BY <1>5, PatternsBounded
  <2>2. \A e \in entries : EntryOfRoute(e) /\ e.n = next /\ Len(e.path) \in 0 .. N
    BY <1>4, <1>6, <2>1 DEF EntryOfRoute
  <2>3. \A pattern \in Range(patterns) :
          \E f \in entries : f.kind = "route" /\ f.n = next /\ f.path = pattern
    BY <1>6
  <2>4. "routes" \in Started /\ phase \in Started /\ phase # "management"
    BY <1>1 DEF Started
  <2>5. \A e \in entries : e.kind = "route" =>
           \A pattern \in Range(PatternsOf(conf.routes[e.n])) :
             \E f \in entries : f.kind = "route" /\ f.n = e.n /\ f.path = pattern
    BY <2>2, <2>3
  <2> HIDE DEF entries
  <2> QED BY <1>1, <1>4, <1>8, <2>1, <2>2, <2>4, <2>5, MuxGrows
<1> QED BY <1>1, <1>7, <1>8

LEMMA EnsureMux == MuxFacts /\ EnsureAdmin => MuxFacts'
<1> SUFFICES ASSUME MuxFacts, EnsureAdmin PROVE MuxFacts'
  OBVIOUS
<1>1. phase = "admin" /\ phase' \in {"up", "failed"} /\ UNCHANGED <<site, conf, next, mux>>
  BY DEF EnsureAdmin
<1>2. next' \in 1 .. (Len(conf.routes) + 1)
  BY <1>1 DEF MuxFacts, MuxInv
<1> QED BY <1>1, <1>2, MuxKept DEF Started

-----------------------------------------------------------------------------
(* The answers.                                                            *)

CacheValues == {"unset", "private", "no-cache", "max-age"}

(* What keeps refusals out of the caches.                                  *)
RefusalPrivate(a) ==
  a.by.kind \in {"route", "dashboard"}
    /\ (a.status = 401 \/ (a.status = 302 /\ a.location = conf.prefix \o <<"login">>))
  => a.cache = "private"

(* What is shown is a route's, and not a protected one's without a session,*)
(* or the dashboard for an administrator.                                  *)
ShownWithRight(t, a) ==
  Shown(a) =>
    \/ session = "admin"
    \/ /\ a.by = Handling(t) /\ a.by.kind = "route"
       /\ conf.routes[a.by.n].auth => session # "none"

GoodAnswer(t, a) == a.cache \in CacheValues /\ RefusalPrivate(a) /\ ShownWithRight(t, a)

LEMMA LastInRange ==
  ASSUME NEW p \in Paths
  PROVE  Last(p) \in Range(p)
<1>1. PICK n : n = Len(p)
  OBVIOUS
<1>2. n \in 1 .. n /\ DOMAIN p = 1 .. n
  BY <1>1, PathParts
<1> QED BY <1>1, <1>2, Zenon DEF Last, Range

LEMMA AnswerFields ==
  ASSUME NEW status, NEW by, NEW cache
  PROVE  /\ Answer(status, by, cache).status = status /\ Answer(status, by, cache).by = by
         /\ Answer(status, by, cache).cache = cache
         /\ Answer(status, by, cache).location = NoPath
         /\ Answer(status, by, cache).file = NoPath /\ Answer(status, by, cache).upstream = NoPath
         /\ \A x : LET a == [Answer(status, by, cache) EXCEPT !.location = x]
                   IN /\ a.status = status /\ a.by = by /\ a.cache = cache /\ a.location = x
                      /\ a.file = NoPath /\ a.upstream = NoPath
         /\ \A x, y : LET a == [Answer(status, by, cache) EXCEPT !.location = x, !.redirect = y]
                      IN /\ a.status = status /\ a.by = by /\ a.cache = cache /\ a.location = x
                         /\ a.file = NoPath /\ a.upstream = NoPath
         /\ \A x : LET a == [Answer(status, by, cache) EXCEPT !.upstream = x]
                   IN a.status = status /\ a.by = by /\ a.cache = cache
         /\ \A x : LET a == [Answer(status, by, cache) EXCEPT !.file = x]
                   IN a.status = status /\ a.by = by /\ a.cache = cache
BY DEF Answer

LEMMA MovedFields ==
  ASSUME NEW location, NEW by, NEW cache
  PROVE  LET a == MovedTo(location, by, cache)
         IN /\ a.status = 301 /\ a.by = by /\ a.cache = cache
            /\ a.file = NoPath /\ a.upstream = NoPath
BY AnswerFields DEF MovedTo

(* The answers of handlers that show nothing of the user's.                *)
LEMMA PlainAnswer ==
  ASSUME NEW t, NEW a, a.by.kind \notin {"route", "dashboard"}, a.cache = "unset",
         a.file = NoPath, a.upstream = NoPath
  PROVE  GoodAnswer(t, a)
BY DEF GoodAnswer, RefusalPrivate, ShownWithRight, Shown, CacheValues

LEMMA OwnKinds ==
  /\ NotFound.kind = "not found" /\ AddSlash.kind = "add slash"
BY DEF NotFound, AddSlash, Management, Entry

LEMMA CacheHeaders ==
  ASSUME NEW r
  PROVE  CacheHeader(r) \in CacheValues
BY DEF CacheHeader, CacheOf, CacheValues

(* What the handlers of a route answer, whatever the files and the         *)
(* upstream are.                                                           *)
OfRoute(e, a) == a.by = e /\ a.cache \in CacheValues /\ a.status \notin {302, 401}

LEMMA MovedOrShown ==
  ASSUME NEW e, NEW cache \in CacheValues
  PROVE  \A x : OfRoute(e, MovedTo(x, e, cache)) /\ OfRoute(e, Shows(x, e, cache))
<1>1. ASSUME NEW x PROVE OfRoute(e, MovedTo(x, e, cache))
  BY MovedFields DEF OfRoute
<1>2. ASSUME NEW x PROVE OfRoute(e, Shows(x, e, cache))
  BY AnswerFields DEF OfRoute, Shows
<1> QED BY <1>1, <1>2

LEMMA AnsweredOrSent ==
  ASSUME NEW e, NEW cache \in CacheValues
  PROVE  \A status \in {0, 200, 404, 500, 502} :
           /\ OfRoute(e, Answer(status, e, cache))
           /\ \A x : OfRoute(e, [Answer(status, e, cache) EXCEPT !.upstream = x])
<1> TAKE status \in {0, 200, 404, 500, 502}
<1>1. status \notin {302, 401}
  OBVIOUS
<1>2. OfRoute(e, Answer(status, e, cache))
  BY <1>1, AnswerFields DEF OfRoute
<1>3. ASSUME NEW x PROVE OfRoute(e, [Answer(status, e, cache) EXCEPT !.upstream = x])
  BY <1>1, AnswerFields DEF OfRoute
<1> QED BY <1>2, <1>3

LEMMA FileServerAnswers ==
  ASSUME NEW e, NEW r, NEW p
  PROVE  OfRoute(e, FileServer(e, r, p))
<1>1. CacheHeader(r) \in CacheValues /\ "unset" \in CacheValues
  BY CacheHeaders DEF CacheValues
<1>2. \A x : OfRoute(e, MovedTo(x, e, CacheHeader(r))) /\ OfRoute(e, Shows(x, e, CacheHeader(r)))
  BY <1>1, MovedOrShown
<1>3. OfRoute(e, Answer(404, e, "unset"))
  BY <1>1, AnsweredOrSent
<1> QED BY <1>2, <1>3, Zenon DEF FileServer

LEMMA FolderAnswers ==
  ASSUME NEW e, NEW r, NEW p
  PROVE  OfRoute(e, FolderAnswer(e, r, p))
<1>1. "unset" \in CacheValues
  BY DEF CacheValues
<1>2. \A x : OfRoute(e, Shows(x, e, "unset"))
  BY <1>1, MovedOrShown
<1> QED BY <1>2, FileServerAnswers DEF FolderAnswer

LEMMA FileAnswers ==
  ASSUME NEW e, NEW r, NEW p
  PROVE  OfRoute(e, FileAnswer(e, r, p))
<1>1. CacheHeader(r) \in CacheValues
  BY CacheHeaders
<1>2. \A x : OfRoute(e, MovedTo(x, e, CacheHeader(r))) /\ OfRoute(e, Shows(x, e, CacheHeader(r)))
  BY <1>1, MovedOrShown
<1>3. OfRoute(e, Answer(404, e, CacheHeader(r))) /\ OfRoute(e, Answer(500, e, CacheHeader(r)))
  BY <1>1, AnsweredOrSent
<1> QED BY <1>2, <1>3, Zenon DEF FileAnswer

LEMMA ProxyAnswered ==
  ASSUME NEW e, NEW r, NEW p, NEW a \in ProxyAnswers(e, r, p)
  PROVE  OfRoute(e, a)
<1>1. PICK cache \in CacheValues : cache = CacheHeader(r)
  BY CacheHeaders
<1>2. PICK status \in {0, 200, 404, 500, 502} :
        \E x : a = [Answer(status, e, cache) EXCEPT !.upstream = x]
  BY <1>1 DEF ProxyAnswers
<1> QED BY SMTT(40), <1>1, <1>2, AnsweredOrSent

(* How an answer gets to a tab.                                            *)
Answering(t, a) ==
  \/ AnswerWith(t, a)
  \/ LoggedInWith(t, a)
  \/ tabs' = [tabs EXCEPT ![t].stage = "answered", ![t].answer = a, ![t].elsewhere = TRUE]
  \/ \E state : tabs' = [tabs EXCEPT ![t].stage = "provider", ![t].ask.state = state, ![t].answer = a]

BrowserOK ==
  /\ session \in {"none", "user", "admin"}
  /\ oauth = [state |-> oauth.state, back |-> oauth.back]
  /\ oauth.state \in 0..MaxLogins /\ logins \in 0..MaxLogins

Responds(t) ==
  /\ phase = "up" /\ tabs[t].stage = "asking" /\ UNCHANGED <<site, phase, conf, next, mux>>
  /\ BrowserOK' /\ \E a : GoodAnswer(t, a) /\ Answering(t, a)

LEMMA Bounds == MaxHops \in Nat /\ MaxLogins \in Nat
BY RoutingConstants

LEMMA BrowserSame == BrowserOK /\ UNCHANGED <<session, oauth, logins>> => BrowserOK'
BY DEF BrowserOK

LEMMA OwnAnswer ==
  ASSUME NEW t, NEW by, by.kind \notin {"route", "dashboard"}, NEW status
  PROVE  /\ GoodAnswer(t, Answer(status, by, "unset"))
         /\ \A x : GoodAnswer(t, FoundTo(x, by))
         /\ \A x, y : GoodAnswer(t, [MovedTo(x, by, "unset") EXCEPT !.redirect = y])
<1>1. GoodAnswer(t, Answer(status, by, "unset"))
  BY AnswerFields, PlainAnswer
<1>2. ASSUME NEW x PROVE GoodAnswer(t, FoundTo(x, by))
  <2>1. PICK a : a = FoundTo(x, by)
    OBVIOUS
  <2>2. a.by = by /\ a.cache = "unset" /\ a.file = NoPath /\ a.upstream = NoPath
    BY <2>1 DEF FoundTo, Answer
  <2> QED BY <2>1, <2>2, PlainAnswer
<1>3. ASSUME NEW x, NEW y PROVE GoodAnswer(t, [MovedTo(x, by, "unset") EXCEPT !.redirect = y])
  <2>1. PICK a : a = [MovedTo(x, by, "unset") EXCEPT !.redirect = y]
    OBVIOUS
  <2>2. a.by = by /\ a.cache = "unset" /\ a.file = NoPath /\ a.upstream = NoPath
    BY <2>1 DEF MovedTo, Answer
  <2> QED BY <2>1, <2>2, PlainAnswer
<1> QED BY <1>1, <1>2, <1>3

LEMMA LoginPageFields ==
  ASSUME NEW t, NEW by, NEW cache
  PROVE  LET a == ToLoginPage(t, by, cache)
         IN /\ a.status = 302 /\ a.by = by /\ a.cache = cache
            /\ a.file = NoPath /\ a.upstream = NoPath
BY DEF ToLoginPage, Answer

LEMMA MuxAnswers ==
  ASSUME BrowserOK, NEW t \in Tabs, ServeMuxAnswers(t)
  PROVE  Responds(t)
<1>1. phase = "up" /\ tabs[t].stage = "asking" /\ OnlyTabs
  BY DEF ServeMuxAnswers, Serve
<1>2. \E a : GoodAnswer(t, a) /\ AnswerWith(t, a)
  <2>1. GoodAnswer(t, Answer(404, NotFound, "unset"))
    BY ZenonT(60), OwnKinds, OwnAnswer
  <2>2. \A x, y : GoodAnswer(t, [MovedTo(x, AddSlash, "unset") EXCEPT !.redirect = y])
    BY OwnKinds, OwnAnswer
  <2>3. CASE AnswerWith(t, Answer(404, NotFound, "unset"))
    BY <2>1, <2>3
  <2>4. CASE AnswerWith(t, [MovedTo(Append(tabs[t].ask.path, ""), AddSlash, "unset") EXCEPT
                              !.redirect = tabs[t].ask.redirect])
    BY <2>2, <2>4
  <2> QED BY <2>3, <2>4 DEF ServeMuxAnswers
<1> QED BY <1>1, <1>2, BrowserSame DEF Responds, Answering, OnlyTabs

LEMMA PagesAnswer ==
  ASSUME BrowserOK, NEW t \in Tabs, PageAnswers(t) \/ OAuthCallbackRoute(t)
  PROVE  Responds(t)
<1>1. PICK e : e = Handling(t)
  OBVIOUS
<1>2. /\ phase = "up" /\ tabs[t].stage = "asking" /\ OnlyTabs
      /\ e.kind \in {"login", "assets", "openapi", "callback"}
      /\ \E status : AnswerWith(t, Answer(status, e, "unset"))
  BY ZenonT(40), <1>1 DEF PageAnswers, OAuthCallbackRoute, Serve
<1>3. \A status : GoodAnswer(t, Answer(status, e, "unset"))
  BY <1>2, OwnAnswer
<1> QED BY <1>2, <1>3, BrowserSame DEF Responds, Answering, OnlyTabs

LEMMA DashboardAnswers ==
  ASSUME BrowserOK, NEW t \in Tabs, Dashboard(t)
  PROVE  Responds(t)
<1>1. PICK e : e = Handling(t)
  OBVIOUS
<1>2. /\ phase = "up" /\ tabs[t].stage = "asking" /\ OnlyBrowser /\ UNCHANGED oauth
      /\ \/ session = "admin" /\ AnswerWith(t, Answer(200, e, "private")) /\ UNCHANGED session
         \/ AnswerWith(t, ToLoginPage(t, e, "private")) /\ session' = "none"
  BY <1>1 DEF Dashboard, Serve
<1>3. session = "admin" => GoodAnswer(t, Answer(200, e, "private"))
  BY AnswerFields DEF GoodAnswer, RefusalPrivate, ShownWithRight, CacheValues
<1>4. GoodAnswer(t, ToLoginPage(t, e, "private"))
  BY LoginPageFields DEF GoodAnswer, RefusalPrivate, ShownWithRight, Shown, CacheValues
<1>5. BrowserOK' /\ UNCHANGED <<site, phase, conf, next, mux>>
  BY <1>2 DEF BrowserOK, OnlyBrowser
<1> QED BY <1>2, <1>3, <1>4, <1>5 DEF Responds, Answering

LEMMA BasicAnswers ==
  ASSUME BrowserOK, NEW t \in Tabs, BasicLogin(t)
  PROVE  Responds(t)
<1>1. PICK e : e = Handling(t)
  OBVIOUS
<1>2. phase = "up" /\ tabs[t].stage = "asking" /\ OnlyBrowser /\ UNCHANGED oauth /\ e.kind = "basic"
  <2>1. Serve(t, "basic") /\ OnlyBrowser /\ UNCHANGED oauth
    BY ZenonT(40) DEF BasicLogin
  <2> QED BY <1>1, <2>1 DEF Serve
<1>3. session' \in {"none", "user", "admin"}
  BY ZenonT(40) DEF BasicLogin, BrowserOK
<1>4. \E a : GoodAnswer(t, a) /\ Answering(t, a)
  <2>1. \A x : GoodAnswer(t, FoundTo(x, e))
    BY <1>2, OwnAnswer
  <2>2. \A status : GoodAnswer(t, Answer(status, e, "unset"))
    BY <1>2, OwnAnswer
  <2>3. \/ tabs' = [tabs EXCEPT ![t].stage = "answered", ![t].answer = FoundTo(<<"">>, e),
                               ![t].elsewhere = TRUE]
        \/ LoggedInWith(t, FoundTo(OrHome(tabs[t].ask.redirect), e))
        \/ \E status : AnswerWith(t, Answer(status, e, "unset"))
    BY ZenonT(40), <1>1 DEF BasicLogin
  <2> QED BY <2>1, <2>2, <2>3 DEF Answering
<1>5. BrowserOK' /\ UNCHANGED <<site, phase, conf, next, mux>>
  BY <1>2, <1>3 DEF BrowserOK, OnlyBrowser
<1> QED BY <1>2, <1>4, <1>5 DEF Responds

LEMMA OAuthAnswers ==
  ASSUME BrowserOK, NEW t \in Tabs, OAuthLogin(t)
  PROVE  Responds(t)
<1>1. PICK e : e = Handling(t)
  OBVIOUS
<1>2. /\ phase = "up" /\ tabs[t].stage = "asking" /\ e.kind = "oauth login"
      /\ UNCHANGED <<site, phase, conf, next, mux, session>>
      /\ logins < MaxLogins /\ logins' = logins + 1
      /\ oauth' = [state |-> logins + 1, back |-> OrHome(tabs[t].ask.redirect)]
      /\ tabs' = [tabs EXCEPT ![t].stage = "provider", ![t].ask.state = logins + 1,
                              ![t].answer = Answer(307, e, "unset")]
  BY <1>1 DEF OAuthLogin, Serve
<1>3. GoodAnswer(t, Answer(307, e, "unset"))
  BY ZenonT(40), <1>2, OwnAnswer
<1>4. logins + 1 \in 0 .. MaxLogins
  <2>1. logins \in 0 .. MaxLogins /\ logins < MaxLogins
    BY <1>2 DEF BrowserOK
  <2> QED BY <2>1, Bounds
<1>5. BrowserOK'
  BY <1>2, <1>4 DEF BrowserOK
<1> QED BY <1>2, <1>3, <1>5 DEF Responds, Answering

LEMMA CallbackAnswers ==
  ASSUME BrowserOK, NEW t \in Tabs, Callback(t)
  PROVE  Responds(t)
<1>1. PICK e : e = Handling(t)
  OBVIOUS
<1>2. phase = "up" /\ tabs[t].stage = "asking" /\ OnlyBrowser /\ e.kind = "oauth callback"
  BY ZenonT(40), <1>1 DEF Callback, Serve
<1>3. /\ session' \in {session, "user"}
      /\ oauth' \in {oauth, [state |-> 0, back |-> NoPath], [oauth EXCEPT !.state = 0]}
  BY ZenonT(40) DEF Callback
<1>4. 0 \in 0 .. MaxLogins
  BY Bounds
<1>8. /\ session' \in {"none", "user", "admin"} /\ logins' \in 0 .. MaxLogins
      /\ UNCHANGED <<site, phase, conf, next, mux>>
  BY <1>2, <1>3 DEF BrowserOK, OnlyBrowser
<1>9. oauth' = [state |-> oauth'.state, back |-> oauth'.back] /\ oauth'.state \in 0 .. MaxLogins
  <2>1. oauth = [state |-> oauth.state, back |-> oauth.back] /\ oauth.state \in 0 .. MaxLogins
    BY DEF BrowserOK
  <2>2. CASE oauth' = oauth
    BY <2>1, <2>2
  <2>3. CASE oauth' = [state |-> 0, back |-> NoPath]
    BY <1>4, <2>3
  <2>4. CASE oauth' = [oauth EXCEPT !.state = 0]
    <3>1. oauth' = [state |-> 0, back |-> oauth.back]
      BY <2>1, <2>4
    <3> QED BY <1>4, <3>1
  <2> QED BY <1>3, <2>2, <2>3, <2>4
<1>5. BrowserOK' /\ UNCHANGED <<site, phase, conf, next, mux>>
  BY <1>8, <1>9 DEF BrowserOK
<1>6. \/ LoggedInWith(t, FoundTo(OrHome(oauth.back), e))
      \/ \E status : AnswerWith(t, Answer(status, e, "unset"))
  BY ZenonT(40), <1>1 DEF Callback
<1>7. (\A x : GoodAnswer(t, FoundTo(x, e))) /\ \A status : GoodAnswer(t, Answer(status, e, "unset"))
  BY <1>2, OwnAnswer
<1> QED BY <1>2, <1>5, <1>6, <1>7 DEF Responds, Answering

LEMMA RoutesAnswer ==
  ASSUME BrowserOK, NEW t \in Tabs, RouteAnswers(t)
  PROVE  Responds(t)
<1>1. PICK e, r, p : e = Handling(t) /\ r = conf.routes[e.n] /\ p = tabs[t].ask.path
  OBVIOUS
<1>2. /\ phase = "up" /\ tabs[t].stage = "asking" /\ OnlyTabs /\ e.kind = "route"
      /\ \/ Refuses(r) /\ AnswerWith(t, Refusal(t, e, r))
         \/ /\ ~Refuses(r)
            /\ \/ AnswerWith(t, FolderAnswer(e, r, p))
               \/ AnswerWith(t, FileAnswer(e, r, p))
               \/ \E a \in ProxyAnswers(e, r, p) : AnswerWith(t, a)
  BY <1>1 DEF RouteAnswers, Serve
<1>3. CASE Refuses(r) /\ AnswerWith(t, Refusal(t, e, r))
  <2>1. /\ Refusal(t, e, r).cache = "private" /\ Refusal(t, e, r).file = NoPath
        /\ Refusal(t, e, r).upstream = NoPath /\ Refusal(t, e, r).by = e
        /\ Refusal(t, e, r).status \in {302, 401}
    BY LoginPageFields, AnswerFields DEF Refusal
  <2>2. GoodAnswer(t, Refusal(t, e, r))
    BY <2>1 DEF GoodAnswer, RefusalPrivate, ShownWithRight, Shown, CacheValues
  <2> QED BY <1>2, <1>3, <2>2, BrowserSame DEF Responds, Answering, OnlyTabs
<1>4. CASE ~Refuses(r) /\ \E a : OfRoute(e, a) /\ AnswerWith(t, a)
  <2>1. PICK a : OfRoute(e, a) /\ AnswerWith(t, a)
    BY <1>4
  <2>2. a.by = e /\ a.cache \in CacheValues /\ a.status # 401 /\ a.status # 302
    BY <2>1 DEF OfRoute
  <2>3. r.auth => session # "none"
    BY <1>4 DEF Refuses
  <2>4. GoodAnswer(t, a)
    BY <1>1, <1>2, <2>2, <2>3 DEF GoodAnswer, RefusalPrivate, ShownWithRight
  <2> QED BY <1>2, <2>1, <2>4, BrowserSame DEF Responds, Answering, OnlyTabs
<1> QED BY <1>2, <1>3, <1>4, FolderAnswers, FileAnswers, ProxyAnswered

LEMMA RespondGives ==
  ASSUME BrowserOK, NEW t \in Tabs, Respond(t)
  PROVE  Responds(t)
BY MuxAnswers, PagesAnswer, DashboardAnswers, BasicAnswers, OAuthAnswers, CallbackAnswers,
   RoutesAnswer DEF Respond

-----------------------------------------------------------------------------
(* The tabs.                                                               *)

TabStages == {"idle", "asking", "answered", "provider", "away"}

TabOK(tab) ==
  /\ IsTab(tab) /\ tab.stage \in TabStages /\ tab.hops \in 0..MaxHops
  /\ tab.answer.cache \in CacheValues /\ RefusalPrivate(tab.answer)

AllTabs(F) == F = [t \in Tabs |-> F[t]] /\ \A t \in Tabs : TabOK(F[t])

TabsFacts ==
  BrowserOK /\ AllTabs(tabs) /\ (phase # "up" => tabs = [t \in Tabs |-> NewTab])

LEMMA TabsFactsAre == TabsFacts <=> TabsInv /\ RefusalsNotCached
BY DEF TabsFacts, TabsInv, RefusalsNotCached, BrowserOK, AllTabs, TabOK, RefusalPrivate,
       TabStages, CacheValues

LEMMA NewTabOK == TabOK(NewTab) /\ NewTab.stage = "idle"
<1>1. NewTab.answer = Answer(0, NotFound, "unset") /\ NewTab.stage = "idle" /\ NewTab.hops = 0
  BY DEF NewTab, NoAnswer
<1>2. IsTab(NewTab)
  BY DEF IsTab, NewTab
<1>3. RefusalPrivate(NewTab.answer) /\ NewTab.answer.cache = "unset"
  <2>1. PICK answer : answer = NewTab.answer
    OBVIOUS
  <2>2. answer.cache = "unset" /\ answer.by = NotFound
    BY <1>1, <2>1, AnswerFields
  <2> QED BY <2>1, <2>2, OwnKinds DEF RefusalPrivate
<1>4. 0 \in 0 .. MaxHops
  BY Bounds
<1> QED BY <1>1, <1>2, <1>3, <1>4 DEF TabOK, TabStages, CacheValues

LEMMA RefusalSame == conf' = conf => \A a : RefusalPrivate(a)' = RefusalPrivate(a)
BY DEF RefusalPrivate

LEMMA TabSame == conf' = conf => \A tab : TabOK(tab) => TabOK(tab)'
<1> SUFFICES ASSUME conf' = conf, NEW tab, TabOK(tab) PROVE TabOK(tab)'
  OBVIOUS
<1> QED BY RefusalSame DEF TabOK, IsTab

LEMMA SetTab ==
  ASSUME NEW F, AllTabs(F), NEW t \in Tabs, NEW tab, TabOK(tab), conf' = conf,
         tabs' = [F EXCEPT ![t] = tab]
  PROVE  AllTabs(tabs)'
<1>1. F = [u \in Tabs |-> F[u]] /\ \A u \in Tabs : TabOK(F[u])
  BY DEF AllTabs
<1>2. tabs' = [u \in Tabs |-> IF u = t THEN tab ELSE F[u]]
  BY <1>1
<1>3. tabs' = [u \in Tabs |-> tabs'[u]] /\ \A u \in Tabs : TabOK(tabs'[u])
  BY <1>1, <1>2
<1>4. \A u \in Tabs : TabOK(tabs[u])'
  <2> TAKE u \in Tabs
  <2>1. PICK new : new = tabs'[u]
    OBVIOUS
  <2>2. TabOK(new)
    BY <1>3, <2>1
  <2>3. TabOK(new)'
    BY <2>2, TabSame
  <2> QED BY <2>1, <2>3 DEF TabOK, IsTab, RefusalPrivate
<1> QED BY <1>3, <1>4 DEF AllTabs

(* The changes the actions make to a tab.                                  *)
TabChanges(tab, stage, ask, a, hops, elsewhere) ==
  { [tab EXCEPT !.stage = stage, !.answer = a],
    [tab EXCEPT !.stage = stage, !.answer = a, !.elsewhere = elsewhere],
    [tab EXCEPT !.stage = stage, !.ask = ask, !.answer = a],
    [tab EXCEPT !.stage = stage, !.ask = ask, !.answer = a, !.hops = hops],
    [tab EXCEPT !.stage = stage],
    [tab EXCEPT !.hops = hops] }

LEMMA TabChanged ==
  ASSUME NEW tab, TabOK(tab), NEW a, a.cache \in CacheValues, RefusalPrivate(a),
         NEW stage \in TabStages, NEW hops \in 0..MaxHops, NEW ask, NEW elsewhere,
         NEW new \in TabChanges(tab, stage, ask, a, hops, elsewhere)
  PROVE  TabOK(new)
<1>1. tab = [stage |-> tab.stage, ask |-> tab.ask, answer |-> tab.answer, asked |-> tab.asked,
             hops |-> tab.hops, elsewhere |-> tab.elsewhere]
  BY DEF TabOK, IsTab
<1>2. IsTab(new) /\ new.stage \in {tab.stage, stage} /\ new.hops \in {tab.hops, hops}
      /\ new.answer \in {tab.answer, a}
  <2>1. CASE new = [tab EXCEPT !.stage = stage, !.answer = a]
    BY <1>1, <2>1 DEF IsTab
  <2>2. CASE new = [tab EXCEPT !.stage = stage, !.answer = a, !.elsewhere = elsewhere]
    BY <1>1, <2>2 DEF IsTab
  <2>3. CASE new = [tab EXCEPT !.stage = stage, !.ask = ask, !.answer = a]
    BY <1>1, <2>3 DEF IsTab
  <2>4. CASE new = [tab EXCEPT !.stage = stage, !.ask = ask, !.answer = a, !.hops = hops]
    BY <1>1, <2>4 DEF IsTab
  <2>5. CASE new = [tab EXCEPT !.stage = stage]
    BY <1>1, <2>5 DEF IsTab
  <2>6. CASE new = [tab EXCEPT !.hops = hops]
    BY <1>1, <2>6 DEF IsTab
  <2> QED BY <2>1, <2>2, <2>3, <2>4, <2>5, <2>6 DEF TabChanges
<1> QED BY <1>2 DEF TabOK

LEMMA RestedOK ==
  ASSUME AllTabs(tabs)
  PROVE  AllTabs(Rested) /\ \A t \in Tabs : Rested[t].stage = tabs[t].stage
<1>1. Rested = [t \in Tabs |-> [tabs[t] EXCEPT !.hops = 0]]
  BY DEF Rested
<1>2. 0 \in 0 .. MaxHops
  BY Bounds
<1>3. ASSUME NEW t \in Tabs
      PROVE  TabOK([tabs[t] EXCEPT !.hops = 0]) /\ [tabs[t] EXCEPT !.hops = 0].stage = tabs[t].stage
  BY <1>2 DEF AllTabs, TabOK, IsTab
<1> QED BY <1>1, <1>3 DEF AllTabs

LEMMA AnsweredTab ==
  ASSUME NEW tab, TabOK(tab), NEW a, a.cache \in CacheValues, RefusalPrivate(a), NEW ask
  PROVE  /\ TabOK([tab EXCEPT !.stage = "answered", !.answer = a])
         /\ TabOK([tab EXCEPT !.stage = "answered", !.answer = a, !.elsewhere = TRUE])
         /\ TabOK([tab EXCEPT !.stage = "provider", !.ask = ask, !.answer = a])
<1>1. \A stage \in TabStages, hops \in 0..MaxHops : \A elsewhere :
        \A new \in TabChanges(tab, stage, ask, a, hops, elsewhere) : TabOK(new)
  BY TabChanged
<1>2. tab.hops \in 0 .. MaxHops /\ "answered" \in TabStages /\ "provider" \in TabStages
  BY DEF TabOK, TabStages
<1>3. TabOK([tab EXCEPT !.stage = "answered", !.answer = a])
  BY <1>1, <1>2 DEF TabChanges
<1>4. TabOK([tab EXCEPT !.stage = "answered", !.answer = a, !.elsewhere = TRUE])
  BY <1>1, <1>2 DEF TabChanges
<1>5. TabOK([tab EXCEPT !.stage = "provider", !.ask = ask, !.answer = a])
  BY <1>1, <1>2 DEF TabChanges
<1> QED BY <1>3, <1>4, <1>5

(* An answer changes the stage of its tab only, and keeps them all well.   *)
LEMMA AnsweringKeeps ==
  ASSUME AllTabs(tabs), NEW t \in Tabs, NEW a, GoodAnswer(t, a), Answering(t, a), conf' = conf
  PROVE  /\ AllTabs(tabs)' /\ tabs'[t].answer = a
         /\ \A u \in Tabs \ {t} : tabs'[u].stage = tabs[u].stage
<1>1. a.cache \in CacheValues /\ RefusalPrivate(a)
  BY DEF GoodAnswer
<1>2. {"answered", "provider"} \subseteq TabStages
  BY DEF TabStages
<1>3. TabOK(tabs[t]) /\ TabOK(Rested[t]) /\ AllTabs(Rested)
  BY RestedOK DEF AllTabs
<1>4. ASSUME NEW F, AllTabs(F), NEW tab, TabOK(tab), tab.answer = a,
             tabs' = [F EXCEPT ![t] = tab],
             \A u \in Tabs : F[u].stage = tabs[u].stage
      PROVE  /\ AllTabs(tabs)' /\ tabs'[t].answer = a
             /\ \A u \in Tabs \ {t} : tabs'[u].stage = tabs[u].stage
  <2>1. AllTabs(tabs)'
    BY <1>4, SetTab
  <2>2. F = [u \in Tabs |-> F[u]]
    BY <1>4 DEF AllTabs
  <2> QED BY <1>4, <2>1, <2>2
<1>5. CASE AnswerWith(t, a)
  <2>1. PICK tab : tab = [tabs[t] EXCEPT !.stage = "answered", !.answer = a]
    OBVIOUS
  <2>2. TabOK(tab)
    BY <1>1, <1>2, <1>3, <2>1, AnsweredTab
  <2>3. tab.answer = a
    BY <1>3, <2>1 DEF TabOK, IsTab
  <2>4. tabs' = [tabs EXCEPT ![t] = tab]
    BY <1>5, <2>1 DEF AnswerWith
  <2> QED BY <1>4, <2>2, <2>3, <2>4
<1>6. CASE LoggedInWith(t, a)
  <2>1. PICK tab : tab = [Rested[t] EXCEPT !.stage = "answered", !.answer = a]
    OBVIOUS
  <2>2. TabOK(tab)
    BY <1>1, <1>2, <1>3, <2>1, AnsweredTab
  <2>3. tab.answer = a
    BY <1>3, <2>1 DEF TabOK, IsTab
  <2>4. tabs' = [Rested EXCEPT ![t] = tab]
    BY <1>6, <2>1 DEF LoggedInWith
  <2> QED BY <1>3, <1>4, <2>2, <2>3, <2>4, RestedOK
<1>7. CASE tabs' = [tabs EXCEPT ![t].stage = "answered", ![t].answer = a, ![t].elsewhere = TRUE]
  <2>1. PICK tab : tab = [tabs[t] EXCEPT !.stage = "answered", !.answer = a, !.elsewhere = TRUE]
    OBVIOUS
  <2>2. TabOK(tab)
    BY <1>1, <1>2, <1>3, <2>1, AnsweredTab
  <2>3. tab.answer = a
    BY <1>3, <2>1 DEF TabOK, IsTab
  <2>4. tabs' = [tabs EXCEPT ![t] = tab]
    BY <1>7, <2>1
  <2> QED BY <1>4, <2>2, <2>3, <2>4
<1>8. CASE \E state : tabs' = [tabs EXCEPT ![t].stage = "provider", ![t].ask.state = state,
                                         ![t].answer = a]
  <2>1. PICK state : tabs' = [tabs EXCEPT ![t].stage = "provider", ![t].ask.state = state,
                                         ![t].answer = a]
    BY <1>8
  <2>2. PICK ask : ask = [tabs[t].ask EXCEPT !.state = state]
    OBVIOUS
  <2>3. PICK tab : tab = [tabs[t] EXCEPT !.stage = "provider", !.ask = ask, !.answer = a]
    OBVIOUS
  <2>4. TabOK(tab)
    BY <1>1, <1>2, <1>3, <2>3, AnsweredTab
  <2>5. tab.answer = a
    BY <1>3, <2>3 DEF TabOK, IsTab
  <2>6. tabs' = [tabs EXCEPT ![t] = tab]
    BY <2>1, <2>2, <2>3
  <2> QED BY <1>4, <2>4, <2>5, <2>6
<1> QED BY <1>5, <1>6, <1>7, <1>8 DEF Answering

(* The steps that answer nothing.                                          *)
Unanswered == \A u \in Tabs : tabs'[u].stage \in {tabs[u].stage, "idle", "asking", "away"}

LEMMA TabSetUnanswered ==
  ASSUME AllTabs(tabs), NEW t \in Tabs, NEW tab, TabOK(tab), conf' = conf,
         tabs' = [tabs EXCEPT ![t] = tab], tab.stage \in {"idle", "asking", "away"}
  PROVE  AllTabs(tabs)' /\ Unanswered
<1>1. AllTabs(tabs)'
  BY SetTab
<1>2. tabs = [u \in Tabs |-> tabs[u]]
  BY DEF AllTabs
<1> QED BY <1>1, <1>2 DEF Unanswered

LEMMA SendKeeps ==
  ASSUME AllTabs(tabs), NEW t \in Tabs, NEW request, NEW hops \in 0..MaxHops,
         Send(t, request, hops), conf' = conf
  PROVE  AllTabs(tabs)' /\ Unanswered
<1>1. TabOK(tabs[t])
  BY DEF AllTabs
<1>2. NoAnswer.cache \in CacheValues /\ RefusalPrivate(NoAnswer)
  BY NewTabOK DEF NewTab, TabOK
<1>3. PICK tab : tab = [tabs[t] EXCEPT !.stage = "asking", !.ask = request, !.answer = NoAnswer,
                                       !.hops = hops]
  OBVIOUS
<1>4. TabOK(tab) /\ tab.stage = "asking"
  <2>1. tab \in TabChanges(tabs[t], "asking", request, NoAnswer, hops, FALSE)
    BY <1>3 DEF TabChanges
  <2>2. "asking" \in TabStages
    BY DEF TabStages
  <2>3. TabOK(tab)
    BY <1>1, <1>2, <2>1, <2>2, TabChanged
  <2> QED BY <1>1, <1>3, <2>3 DEF TabOK, IsTab
<1>5. tabs' = [tabs EXCEPT ![t] = tab]
  BY <1>3 DEF Send
<1> QED BY <1>4, <1>5, TabSetUnanswered

LEMMA OpenKeeps ==
  ASSUME AllTabs(tabs), NEW t \in Tabs, Open(t)
  PROVE  AllTabs(tabs)' /\ Unanswered
<1>1. PICK p : tabs' = [tabs EXCEPT ![t] = [NewTab EXCEPT !.stage = "asking", !.asked = p,
                                                          !.ask = Request("GET", p, NoPath)]]
  BY DEF Open
<1>2. PICK tab : tab = [NewTab EXCEPT !.stage = "asking", !.asked = p,
                                      !.ask = Request("GET", p, NoPath)]
  OBVIOUS
<1>3. /\ IsTab(tab) /\ tab.stage = "asking" /\ tab.hops = NewTab.hops
      /\ tab.answer = NewTab.answer
  BY <1>2 DEF NewTab, IsTab
<1>4. TabOK(tab)
  BY <1>3, NewTabOK DEF TabOK, TabStages
<1>5. conf' = conf
  BY DEF Open, OnlyTabs
<1> QED BY <1>1, <1>2, <1>3, <1>4, <1>5, TabSetUnanswered

LEMMA FollowKeeps ==
  ASSUME AllTabs(tabs), NEW t \in Tabs, Follow(t)
  PROVE  AllTabs(tabs)' /\ Unanswered
<1>1. conf' = conf
  BY DEF Follow, OnlyTabs
<1>2. TabOK(tabs[t])
  BY DEF AllTabs
<1>3. CASE tabs' = [tabs EXCEPT ![t].stage = "away"]
  <2>1. PICK tab : tab = [tabs[t] EXCEPT !.stage = "away"]
    OBVIOUS
  <2>2. IsTab(tab) /\ tab.stage = "away" /\ tab.hops = tabs[t].hops /\ tab.answer = tabs[t].answer
    BY <1>2, <2>1 DEF TabOK, IsTab
  <2>3. TabOK(tab)
    BY <1>2, <2>2 DEF TabOK, TabStages
  <2>4. tabs' = [tabs EXCEPT ![t] = tab]
    BY <1>3, <2>1
  <2> QED BY <1>1, <2>2, <2>3, <2>4, TabSetUnanswered
<1>4. CASE \E request : tabs[t].hops < MaxHops /\ Send(t, request, tabs[t].hops + 1)
  <2>1. tabs[t].hops \in 0 .. MaxHops /\ tabs[t].hops < MaxHops
    BY <1>2, <1>4 DEF TabOK
  <2>2. tabs[t].hops + 1 \in 0 .. MaxHops
    BY <2>1, Bounds
  <2> QED BY <1>1, <1>4, <2>2, SendKeeps
<1> QED BY <1>3, <1>4 DEF Follow

LEMMA LeaveKeeps ==
  ASSUME AllTabs(tabs), NEW t \in Tabs, LoginScript(t) \/ ProviderReturns(t)
  PROVE  AllTabs(tabs)' /\ Unanswered
<1>1. /\ conf' = conf /\ tabs[t].hops < MaxHops
      /\ \E request : Send(t, request, tabs[t].hops + 1)
  BY DEF LoginScript, ProviderReturns, OnlyTabs
<1>2. tabs[t].hops \in 0 .. MaxHops
  BY DEF AllTabs, TabOK
<1>3. tabs[t].hops + 1 \in 0 .. MaxHops
  BY <1>1, <1>2, Bounds
<1> QED BY <1>1, <1>3, SendKeeps

LEMMA PressKeeps ==
  ASSUME AllTabs(tabs), NEW t \in Tabs, Press(t)
  PROVE  AllTabs(tabs)' /\ Unanswered
<1>1. conf' = conf /\ \E request : Send(t, request, 0)
  BY DEF Press, OnlyTabs
<1>2. 0 \in 0 .. MaxHops
  BY Bounds
<1> QED BY <1>1, <1>2, SendKeeps

LEMMA CloseKeeps ==
  ASSUME AllTabs(tabs), NEW t \in Tabs, Close(t)
  PROVE  AllTabs(tabs)' /\ Unanswered
<1>1. conf' = conf /\ tabs' = [tabs EXCEPT ![t] = NewTab]
  BY DEF Close, OnlyTabs
<1> QED BY <1>1, NewTabOK, TabSetUnanswered

-----------------------------------------------------------------------------
(* The inductive invariant.                                                *)

GatewayInv == MuxFacts /\ TabsFacts

LEMMA TabsInit == Init => TabsFacts
<1> SUFFICES ASSUME Init PROVE TabsFacts
  OBVIOUS
<1>1. /\ session = "none" /\ oauth = [state |-> 0, back |-> NoPath] /\ logins = 0
      /\ tabs = [t \in Tabs |-> NewTab]
  BY DEF Init, RoutingInit
<1>2. 0 \in 0 .. MaxLogins
  BY Bounds
<1>3. BrowserOK
  BY <1>1, <1>2 DEF BrowserOK
<1>4. AllTabs(tabs)
  BY <1>1, NewTabOK DEF AllTabs
<1> QED BY <1>1, <1>3, <1>4 DEF TabsFacts

LEMMA StartStep == GatewayInv /\ Start => GatewayInv' /\ Unanswered
<1> SUFFICES ASSUME GatewayInv, Start PROVE GatewayInv' /\ Unanswered
  OBVIOUS
<1>1. MuxFacts'
  BY LoadMux, ValidateMux, ManagementMux, RouteMux, CallbackMux, EnsureMux DEF GatewayInv, Start
<1>2. phase # "up" /\ UNCHANGED <<disk, session, oauth, logins, tabs>>
  BY DEF Start, LoadConfig, ValidateAllMiddleware, RegisterManagement, RegisterRoute,
         RegisterCallback, EnsureAdmin
<1>3. tabs = [t \in Tabs |-> NewTab] /\ tabs' = tabs /\ BrowserOK
  BY <1>2 DEF GatewayInv, TabsFacts
<1>4. AllTabs(tabs)'
  <2>1. TabOK(NewTab)'
    <3>1. PICK new : new = NewTab
      OBVIOUS
    <3>2. NewTab' = NewTab
      BY DEF NewTab, NoAnswer, Answer, Request, NotFound, Management, Entry
    <3>3. IsTab(new)' /\ new.stage \in TabStages /\ new.hops \in 0..MaxHops
          /\ new.answer.cache \in CacheValues
      BY <3>1, NewTabOK DEF TabOK, IsTab
    <3>4. new.answer.by = NotFound
      <4>1. new.answer = NoAnswer
        BY <3>1 DEF NewTab
      <4>2. NoAnswer.by = NotFound
        BY AnswerFields DEF NoAnswer
      <4> QED BY <4>1, <4>2
    <3>5. RefusalPrivate(new.answer)'
      BY <3>4, OwnKinds DEF RefusalPrivate
    <3> QED BY <3>1, <3>2, <3>3, <3>5 DEF TabOK
  <2> QED BY <1>3, <2>1 DEF AllTabs
<1>5. BrowserOK'
  BY <1>2, <1>3, BrowserSame
<1>6. Unanswered
  BY <1>3 DEF Unanswered
<1>7. (phase # "up" => tabs = [t \in Tabs |-> NewTab])'
  BY <1>3
<1> QED BY <1>1, <1>4, <1>5, <1>6, <1>7 DEF GatewayInv, TabsFacts

(* The steps of a gateway that is up.                                      *)
LEMMA UpStep ==
  ASSUME GatewayInv, UNCHANGED <<site, phase, conf, next, mux>>, phase = "up",
         BrowserOK', AllTabs(tabs)'
  PROVE  GatewayInv'
BY MuxSame DEF GatewayInv, TabsFacts

LEMMA BrowseStep ==
  ASSUME GatewayInv, NEW t \in Tabs, Browse(t)
  PROVE  GatewayInv' /\ Unanswered
<1>1. AllTabs(tabs) /\ BrowserOK
  BY DEF GatewayInv, TabsFacts
<1>2. AllTabs(tabs)' /\ Unanswered
  BY <1>1, OpenKeeps, FollowKeeps, LeaveKeeps, PressKeeps, CloseKeeps DEF Browse
<1>3. OnlyTabs
  BY DEF Browse, Open, Follow, LoginScript, Press, ProviderReturns, Close
<1>4. phase = "up" \/ tabs[t].stage # "idle"
  BY DEF Browse, Open, Follow, LoginScript, OnLoginPage, Press, ProviderReturns, Close
<1>5. phase = "up"
  <2>1. phase # "up" => tabs[t] = NewTab
    BY DEF GatewayInv, TabsFacts
  <2> QED BY <1>4, <2>1, NewTabOK
<1>6. BrowserOK'
  BY <1>1, <1>3, BrowserSame DEF OnlyTabs
<1> QED BY <1>2, <1>3, <1>5, <1>6, UpStep DEF OnlyTabs

LEMMA RespondStep ==
  ASSUME GatewayInv, NEW t \in Tabs, Respond(t)
  PROVE  /\ GatewayInv'
         /\ GoodAnswer(t, tabs'[t].answer)
         /\ \A u \in Tabs \ {t} : tabs'[u].stage = tabs[u].stage
<1>1. AllTabs(tabs) /\ BrowserOK
  BY DEF GatewayInv, TabsFacts
<1>2. Responds(t)
  BY <1>1, RespondGives
<1>3. PICK a : GoodAnswer(t, a) /\ Answering(t, a)
  BY <1>2 DEF Responds
<1>4. phase = "up" /\ UNCHANGED <<site, phase, conf, next, mux>> /\ BrowserOK'
  BY <1>2 DEF Responds
<1>5. /\ AllTabs(tabs)' /\ tabs'[t].answer = a
      /\ \A u \in Tabs \ {t} : tabs'[u].stage = tabs[u].stage
  BY <1>1, <1>3, <1>4, AnsweringKeeps
<1> QED BY <1>3, <1>4, <1>5, UpStep

LEMMA RestedAlready ==
  ASSUME NEW tab, IsTab(tab), tab.hops = 0
  PROVE  [tab EXCEPT !.hops = 0] = tab
<1>1. tab = [stage |-> tab.stage, ask |-> tab.ask, answer |-> tab.answer, asked |-> tab.asked,
             hops |-> 0, elsewhere |-> tab.elsewhere]
  BY DEF IsTab
<1> QED BY <1>1

LEMMA SessionEndStep == GatewayInv /\ SessionEnds => GatewayInv' /\ Unanswered
<1> SUFFICES ASSUME GatewayInv, SessionEnds PROVE GatewayInv' /\ Unanswered
  OBVIOUS
<1>1. /\ AllTabs(tabs) /\ BrowserOK /\ tabs' = Rested /\ session' = "none"
      /\ UNCHANGED <<site, phase, conf, next, mux, oauth, logins>>
  BY DEF GatewayInv, TabsFacts, SessionEnds
<1>2. BrowserOK'
  BY <1>1 DEF BrowserOK
<1>3. PICK F : F = Rested
  OBVIOUS
<1>4. AllTabs(F) /\ \A t \in Tabs : F[t].stage = tabs[t].stage
  BY <1>1, <1>3, RestedOK
<1>5. AllTabs(tabs)'
  <2>1. \A t \in Tabs : TabOK(F[t])'
    BY <1>1, <1>4, TabSame DEF AllTabs
  <2> QED BY <1>1, <1>3, <1>4, <2>1 DEF AllTabs
<1>6. Unanswered
  BY <1>1, <1>3, <1>4 DEF Unanswered
<1>7. phase # "up" => tabs' = [t \in Tabs |-> NewTab]
  <2>1. SUFFICES ASSUME phase # "up" PROVE tabs' = [t \in Tabs |-> NewTab]
    OBVIOUS
  <2>2. tabs = [t \in Tabs |-> NewTab]
    BY <2>1 DEF GatewayInv, TabsFacts
  <2>3. [NewTab EXCEPT !.hops = 0] = NewTab
    <3>1. IsTab(NewTab) /\ NewTab.hops = 0
      BY DEF NewTab, IsTab
    <3> QED BY <3>1, RestedAlready
  <2> QED BY <1>1, <2>2, <2>3 DEF Rested
<1> QED BY <1>1, <1>2, <1>5, <1>6, <1>7, MuxSame DEF GatewayInv, TabsFacts

LEMMA SameStep ==
  ASSUME GatewayInv, UNCHANGED <<site, phase, conf, next, mux, session, oauth, logins, tabs>>
  PROVE  GatewayInv' /\ Unanswered
<1>1. MuxFacts' /\ BrowserOK'
  BY MuxSame, BrowserSame DEF GatewayInv, TabsFacts
<1>2. AllTabs(tabs)'
  BY TabSame DEF GatewayInv, TabsFacts, AllTabs
<1>3. Unanswered
  BY DEF Unanswered
<1> QED BY <1>1, <1>2, <1>3 DEF GatewayInv, TabsFacts

LEMMA InvInit == Init => GatewayInv
BY MuxFactsInit, TabsInit DEF GatewayInv

LEMMA InvNext ==
  GatewayInv /\ [Next]_vars => GatewayInv' /\ (Unanswered \/ \E t \in Tabs : Respond(t))
<1> SUFFICES ASSUME GatewayInv, [Next]_vars
             PROVE  GatewayInv' /\ (Unanswered \/ \E t \in Tabs : Respond(t))
  OBVIOUS
<1>1. CASE Start
  BY <1>1, StartStep
<1>2. CASE SessionEnds
  BY <1>2, SessionEndStep
<1>3. CASE \E t \in Tabs : Browse(t)
  BY <1>3, BrowseStep
<1>4. CASE \E t \in Tabs : Respond(t)
  BY <1>4, RespondStep
<1>5. CASE Deploy \/ CallTheApi \/ UNCHANGED vars
  <2>1. UNCHANGED <<site, phase, conf, next, mux, session, oauth, logins, tabs>>
    BY <1>5 DEF Deploy, CallTheApi, routingVars, vars
  <2> QED BY <2>1, SameStep
<1> QED BY <1>1, <1>2, <1>3, <1>4, <1>5 DEF Next, RoutingNext

LEMMA InvCorrect == Spec => []GatewayInv
<1>1. GatewayInv /\ [Next]_vars => GatewayInv'
  BY InvNext
<1> QED BY InvInit, <1>1, PTL DEF Spec

-----------------------------------------------------------------------------
(* Whatever the configuration file says, a gateway that comes up answers   *)
(* on its own login page, form and dashboard.                              *)
THEOREM AlwaysReachable == Spec => []ManagementIsReachable
<1>1. GatewayInv => ManagementIsReachable
  <2> SUFFICES ASSUME GatewayInv, phase = "up", conf.prefix # <<"">> PROVE ManagementIsReachable
    BY DEF ManagementIsReachable
  <2>1. /\ conf \in GatewayConfig /\ KnownEntries /\ OnePattern
        /\ ManagementRoutes(conf) \subseteq mux
    BY MuxParts DEF GatewayInv, MuxFacts
  <2>2. "" \notin Range(conf.prefix)
    BY DEF GatewayInv, MuxFacts, MuxInv
  <2>3. \A f \in mux : f.path \in Paths /\ f.method # "GET"
    BY <2>1, EntryFacts
  <2>4. ASSUME NEW path, NEW kind, Management(path, kind) \in mux
        PROVE  Find("GET", path).kind = kind
    <3>1. /\ Management(path, kind).path = path /\ Management(path, kind).kind = kind
          /\ Management(path, kind).method = "ANY"
      BY DEF Management, Entry
    <3> QED BY <2>1, <2>3, <2>4, <3>1, FindExact
  <2>5. /\ Management(conf.prefix \o <<"login">>, "login") \in mux
        /\ Management(conf.prefix \o <<"admin", "">>, "dashboard") \in mux
    BY <2>1 DEF ManagementRoutes
  <2>6. conf.basic => Find("POST", conf.prefix \o <<"auth", "basic", "login">>).kind = "basic"
    <3> SUFFICES ASSUME conf.basic
                 PROVE  Find("POST", conf.prefix \o <<"auth", "basic", "login">>).kind = "basic"
      OBVIOUS
    <3>1. PICK e : e = Entry("POST", conf.prefix \o <<"auth", "basic", "login">>, "basic", 0)
      OBVIOUS
    <3>2. e \in mux
      BY <2>1, <3>1 DEF ManagementRoutes, HasAnyAuthentication, ProviderRoutes
    <3>3. /\ e.path = conf.prefix \o <<"auth", "basic", "login">> /\ e.method = "POST"
          /\ e.kind = "basic"
      BY <3>1 DEF Entry
    <3>4. Find("POST", e.path) = e
      BY <2>1, <2>3, <3>2, <3>3, FindExact
    <3> QED BY <3>3, <3>4
  <2>7. \/ Find("GET", conf.prefix \o <<"me">>).kind = "openapi"
        \/ \E e \in mux : e.kind = "route" /\ e.path \in MePaths
    <3>1. Last(conf.prefix) # ""
      <4>1. Last(conf.prefix) \in Range(conf.prefix)
        BY <2>1, ConfigParts, LastInRange
      <4> QED BY <2>2, <4>1
    <3>2. PICK o : o = Management(Append(conf.prefix, ""), "openapi")
      OBVIOUS
    <3>3. o \in mux
      BY <2>1, <3>1, <3>2 DEF ManagementRoutes
    <3>4. o.method = "ANY" /\ o.path = Append(conf.prefix, "") /\ o.kind = "openapi"
      BY <3>2 DEF Management, Entry
    <3>5. CASE \A e \in mux : e.kind = "route" => e.path \notin MePaths
      BY <2>1, <3>3, <3>4, <3>5, FindMe
    <3> QED BY <3>5
  <2> QED BY <2>4, <2>5, <2>6, <2>7, Zenon DEF ManagementIsReachable, MePaths
<1> QED BY InvCorrect, <1>1, PTL

(* No refusal of a page stays in a cache, whatever a route says of caching.*)
THEOREM RefusalsPrivate == Spec => []RefusalsNotCached
<1>1. GatewayInv => RefusalsNotCached
  BY TabsFactsAre DEF GatewayInv
<1> QED BY InvCorrect, <1>1, PTL

(* Without a session, a page is shown by a public route that is more       *)
(* special than all the protected ones for its path, however many routes   *)
(* there are and in whichever order.                                       *)
THEOREM PagesStayProtected == Spec => ProtectedStaysProtected
<1> DEFINE Kept == \A t \in Tabs :
       JustAnswered(t) /\ Shown(tabs'[t].answer) =>
         \/ session = "admin"
         \/ tabs'[t].answer.by.kind # "dashboard" /\ session = "user"
         \/ \E i \in DOMAIN conf.routes :
              /\ ~conf.routes[i].auth
              /\ \E a \in PatternsFor(i, tabs[t].ask.path) :
                   \A j \in DOMAIN conf.routes :
                     conf.routes[j].auth /\ InUse(j) =>
                       \A b \in PatternsFor(j, tabs[t].ask.path) : MoreSpecial(a, b)
<1>1. GatewayInv /\ [Next]_vars => Kept
  <2> SUFFICES ASSUME GatewayInv, [Next]_vars, NEW t \in Tabs,
                      JustAnswered(t), Shown(tabs'[t].answer),
                      session # "admin", ~(tabs'[t].answer.by.kind # "dashboard" /\ session = "user")
               PROVE  \E i \in DOMAIN conf.routes :
                        /\ ~conf.routes[i].auth
                        /\ \E a \in PatternsFor(i, tabs[t].ask.path) :
                             \A j \in DOMAIN conf.routes :
                               conf.routes[j].auth /\ InUse(j) =>
                                 \A b \in PatternsFor(j, tabs[t].ask.path) : MoreSpecial(a, b)
    BY Zenon
  <2>1. PICK e, p, answer : /\ e = Handling(t) /\ p = tabs[t].ask.path /\ answer = tabs'[t].answer
    OBVIOUS
  <2>2. tabs[t].stage = "asking" /\ tabs'[t].stage = "answered"
    BY DEF JustAnswered
  <2>3. GoodAnswer(t, answer)
    <3>1. ~Unanswered
      BY <2>2 DEF Unanswered
    <3>2. PICK u \in Tabs : Respond(u)
      BY <3>1, InvNext
    <3>3. u = t
      BY <2>2, <3>2, RespondStep
    <3> QED BY <2>1, <3>2, <3>3, RespondStep
  <2>4. answer.by = e /\ e.kind = "route" /\ (conf.routes[e.n].auth => session # "none")
    BY <2>1, <2>3 DEF GoodAnswer, ShownWithRight
  <2>5. session = "none"
    BY <2>1, <2>4 DEF GatewayInv, TabsFacts, BrowserOK
  <2>6. /\ conf \in GatewayConfig /\ KnownEntries /\ OnePattern /\ LengthsBounded /\ AllPatterns
    BY MuxParts DEF GatewayInv, MuxFacts, MuxInv
  <2>7. e = Find(tabs[t].ask.method, p)
    BY <2>1 DEF Handling
  <2>8. /\ e \in mux /\ EntryOfRoute(e) /\ Covers(e.path, p)
        /\ \A f \in mux : f.method = "ANY" /\ Covers(f.path, p) =>
              f = e \/ MoreSpecial(e.path, f.path)
    BY <2>4, <2>6, <2>7, FindRoute
  <2>9. /\ e.n \in DOMAIN conf.routes /\ ~conf.routes[e.n].auth
        /\ e.path \in PatternsFor(e.n, p)
    BY <2>4, <2>5, <2>6, <2>8, RouteEntryFacts DEF PatternsFor
  <2>10. ASSUME NEW j \in DOMAIN conf.routes, conf.routes[j].auth, InUse(j),
                NEW b \in PatternsFor(j, p)
         PROVE  MoreSpecial(e.path, b)
    <3>1. b \in Range(PatternsOf(conf.routes[j])) /\ Covers(b, p)
      BY <2>10 DEF PatternsFor
    <3>2. PICK g \in mux : g.kind = "route" /\ g.n = j
      BY <2>10 DEF InUse
    <3>3. PICK f \in mux : f.kind = "route" /\ f.n = j /\ f.path = b
      BY <2>6, <3>1, <3>2 DEF AllPatterns
    <3>4. f.method = "ANY"
      BY <2>6, <3>3, EntryFacts
    <3>5. f # e
      BY <2>9, <2>10, <3>3
    <3> QED BY <2>8, <3>1, <3>3, <3>4, <3>5
  <2> QED BY <2>1, <2>9, <2>10
<1>2. ProtectedStaysProtected <=> [][Kept]_vars
  BY DEF ProtectedStaysProtected
<1> QED BY InvCorrect, <1>1, <1>2, PTL DEF Spec

-----------------------------------------------------------------------------
(* Calls of the API.                                                       *)

AnswerStatuses == {0, 200, 201, 204, 302, 400, 401, 403, 404, 405, 409, 500}

IsCall(c) ==
  c = [stage |-> c.stage, op |-> c.op, args |-> c.args, session |-> c.session, body |-> c.body,
       method |-> c.method, path |-> c.path, at |-> c.at, got |-> c.got, ran |-> c.ran,
       status |-> c.status, json |-> c.json, result |-> c.result]

CallFacts == IsCall(call) /\ CallOK

LEMMA StatusesKnown == \A op : Statuses(op) \subseteq AnswerStatuses
<1> SUFFICES ASSUME NEW op PROVE Statuses(op) \subseteq AnswerStatuses
  OBVIOUS
<1>1. CounterStatuses(op) \subseteq AnswerStatuses
  BY DEF CounterStatuses, AnswerStatuses
<1>2. StatisticsStatuses(op) \subseteq AnswerStatuses
  BY DEF StatisticsStatuses, AnswerStatuses
<1>3. op \in DOMAIN TokenParams \cup DOMAIN UserTokenParams => TokenStatuses(op) \subseteq AnswerStatuses
  BY DEF TokenStatuses, AnswerStatuses, TokenParams, UserTokenParams
<1>4. op \in DOMAIN UserParams => UserStatuses(op) \subseteq AnswerStatuses
  BY DEF UserStatuses, AnswerStatuses, UserParams
<1>5. {200, 401} \subseteq AnswerStatuses /\ {302} \subseteq AnswerStatuses /\ {200} \subseteq AnswerStatuses
  BY DEF AnswerStatuses
<1> QED BY <1>1, <1>2, <1>3, <1>4, <1>5 DEF Statuses

LEMMA NoCallOK == IsCall(NoCall) /\ NoCall.stage = "idle" /\ NoCall.op = NoOp /\ NoCall.at = NoOp
                  /\ NoCall.session = NoSession /\ NoCall.status = 0 /\ NoCall.result = "none"
BY DEF NoCall, IsCall

(* What a step of a call may write.                                        *)
LEMMA CallMade ==
  ASSUME CallFacts, IsCall(call'), call'.stage \in Stages,
         call'.op \in Operations \cup {NoOp}, call'.at \in Operations \cup {NoOp},
         call'.session \in Sessions \cup {NoSession}, call'.status \in AnswerStatuses,
         call'.result \in {"none", "typed", "untyped", "failed"}
  PROVE  CallFacts'
BY DEF CallFacts, CallOK, IsCall, AnswerStatuses

LEMMA FewStatuses ==
  400 \in AnswerStatuses /\ 401 \in AnswerStatuses /\ 404 \in AnswerStatuses /\ 405 \in AnswerStatuses
BY DEF AnswerStatuses

LEMMA AnsweredKeeps ==
  ASSUME CallFacts, NEW status \in AnswerStatuses, NEW json,
         \/ call' = Answered(status, json)
         \/ call' = [Answered(status, json) EXCEPT !.ran = TRUE]
  PROVE  CallFacts'
<1>1. IsCall(call) /\ CallOK
  BY DEF CallFacts
<1>2. /\ IsCall(call') /\ call'.stage = "answered" /\ call'.op = call.op /\ call'.at = call.at
      /\ call'.session = call.session /\ call'.status = status /\ call'.result = call.result
  BY <1>1 DEF IsCall, Answered
<1>3. "answered" \in Stages
  BY DEF Stages
<1> QED BY <1>1, <1>2, <1>3, CallMade DEF CallOK

LEMMA CallKeeps ==
  ASSUME CallFacts, NEW op \in Operations, NEW server, NEW s \in Sessions \cup {NoSession},
         Call(op, server, s)
  PROVE  CallFacts'
<1>1. PICK args, body, method, path :
        call' = [NoCall EXCEPT !.stage = "sent", !.op = op, !.args = args, !.session = s,
                               !.body = body, !.method = method, !.path = path]
  <2>1. PICK method, base : method = Builder(op).method /\ base = NewClient(server)
    OBVIOUS
  <2>2. PICK args, body :
          call' = [NoCall EXCEPT !.stage = "sent", !.op = op, !.args = args, !.session = s,
                                 !.body = body, !.method = method,
                                 !.path = Resolve(base, Fill(Builder(op).path, args.path))]
    BY <2>1 DEF Call
  <2>3. PICK path : path = Resolve(base, Fill(Builder(op).path, args.path))
    OBVIOUS
  <2> QED BY <2>2, <2>3
<1>2. /\ IsCall(call') /\ call'.stage = "sent" /\ call'.op = op /\ call'.at = NoCall.at
      /\ call'.session = s /\ call'.status = NoCall.status /\ call'.result = NoCall.result
  BY <1>1, NoCallOK DEF IsCall
<1> QED BY <1>2, NoCallOK, CallMade DEF Stages, AnswerStatuses

LEMMA ReceiveKeeps ==
  ASSUME CallFacts, NEW path, Receive(path)
  PROVE  CallFacts'
<1>1. \/ call' = Answered(405, FALSE)
      \/ call' = Answered(404, FALSE)
      \/ \E r \in ApiRoutes : \E got : call' = [call EXCEPT !.stage = "bound", !.at = r.op, !.got = got]
  BY DEF Receive
<1>2. CASE call' = Answered(405, FALSE) \/ call' = Answered(404, FALSE)
  <2>1. CASE call' = Answered(405, FALSE)
    BY ZenonT(40), <2>1, AnsweredKeeps, FewStatuses
  <2>2. CASE call' = Answered(404, FALSE)
    BY ZenonT(40), <2>2, AnsweredKeeps, FewStatuses
  <2> QED BY <1>2, <2>1, <2>2
<1>3. CASE \E r \in ApiRoutes : \E got : call' = [call EXCEPT !.stage = "bound", !.at = r.op, !.got = got]
  <2>5. PICK r \in ApiRoutes : \E got : call' = [call EXCEPT !.stage = "bound", !.at = r.op, !.got = got]
    BY <1>3
  <2>1. PICK got : call' = [call EXCEPT !.stage = "bound", !.at = r.op, !.got = got]
    BY <2>5
  <2>2. PICK at \in Operations : at = r.op
    BY DEF Operations
  <2>3. IsCall(call) /\ CallOK
    BY DEF CallFacts
  <2>4. /\ IsCall(call') /\ call'.stage = "bound" /\ call'.op = call.op /\ call'.at = at
        /\ call'.session = call.session /\ call'.status = call.status /\ call'.result = call.result
    BY <2>1, <2>2, <2>3 DEF IsCall
  <2> QED BY <2>3, <2>4, CallMade DEF CallOK, Stages, AnswerStatuses
<1> QED BY <1>1, <1>2, <1>3

LEMMA StageKeeps ==
  ASSUME CallFacts, NEW stage \in Stages, call' = [call EXCEPT !.stage = stage]
  PROVE  CallFacts'
<1>1. IsCall(call) /\ CallOK
  BY DEF CallFacts
<1>2. /\ IsCall(call') /\ call'.stage = stage /\ call'.op = call.op /\ call'.at = call.at
      /\ call'.session = call.session /\ call'.status = call.status /\ call'.result = call.result
  BY <1>1 DEF IsCall
<1> QED BY <1>1, <1>2, CallMade DEF CallOK, AnswerStatuses

LEMMA DecideKeeps ==
  ASSUME CallFacts, Decode \/ Authorize
  PROVE  CallFacts'
<1>1. \/ call' = Answered(400, FALSE) \/ call' = Answered(401, TRUE)
      \/ \E stage \in Stages : call' = [call EXCEPT !.stage = stage]
  BY DEF Decode, Authorize, Stages
<1>2. CASE call' = Answered(400, FALSE)
  BY ZenonT(40), <1>2, AnsweredKeeps, FewStatuses
<1>3. CASE call' = Answered(401, TRUE)
  BY ZenonT(40), <1>3, AnsweredKeeps, FewStatuses
<1>4. CASE \E stage \in Stages : call' = [call EXCEPT !.stage = stage]
  BY <1>4, StageKeeps
<1> QED BY <1>1, <1>2, <1>3, <1>4

LEMMA HandleKeeps ==
  ASSUME CallFacts, Handle
  PROVE  CallFacts'
<1>1. PICK refused : refused = Refused(call.at, call.session, call.got)
  OBVIOUS
<1>2. refused \in {0, 401, 403}
  BY <1>1 DEF Refused
<1>3. 401 \in AnswerStatuses /\ 403 \in AnswerStatuses /\ 500 \in AnswerStatuses
  BY DEF AnswerStatuses
<1>4. CASE refused # 0 /\ call' = Answered(refused, refused \in WrittenAsJSON(call.at))
  BY ZenonT(40), <1>2, <1>3, <1>4, AnsweredKeeps
<1>5. CASE \E status \in Statuses(call.at) :
             call' = [Answered(status, status \in WrittenAsJSON(call.at)) EXCEPT !.ran = TRUE]
  <2>1. PICK status \in AnswerStatuses : \E json :
          call' = [Answered(status, json) EXCEPT !.ran = TRUE]
    BY <1>5, StatusesKnown
  <2> QED BY <2>1, AnsweredKeeps
<1>6. CASE call' = [Answered(500, FALSE) EXCEPT !.ran = TRUE]
  <2>1. PICK status \in AnswerStatuses : \E json : status = 500 /\ json = FALSE
    BY <1>3
  <2>3. PICK json : status = 500 /\ json = FALSE
    BY <2>1
  <2>2. call' = [Answered(status, json) EXCEPT !.ran = TRUE]
    BY <1>6, <2>3
  <2> QED BY <2>2, AnsweredKeeps
<1> QED BY <1>1, <1>4, <1>5, <1>6 DEF Handle

LEMMA ParseKeeps ==
  ASSUME CallFacts, Parse
  PROVE  CallFacts'
<1>1. PICK result \in {"typed", "untyped", "failed"} :
        call' = [call EXCEPT !.stage = "done", !.result = result]
  BY DEF Parse
<1>2. IsCall(call) /\ CallOK
  BY DEF CallFacts
<1>3. /\ IsCall(call') /\ call'.stage = "done" /\ call'.op = call.op /\ call'.at = call.at
      /\ call'.session = call.session /\ call'.status = call.status /\ call'.result = result
  BY <1>1, <1>2 DEF IsCall
<1> QED BY <1>2, <1>3, CallMade DEF CallOK, Stages, AnswerStatuses

LEMMA NoCallFacts == call = NoCall => CallFacts
BY NoCallOK DEF CallFacts, CallOK, Stages

LEMMA ReturnKeeps == CallFacts /\ Return => CallFacts'
<1>1. Return => call' = NoCall
  BY DEF Return
<1>2. call' = NoCall => CallFacts'
  <2>1. NoCall' = NoCall
    BY DEF NoCall, NoArgs
  <2> QED BY <2>1, NoCallOK DEF CallFacts, CallOK, Stages, IsCall
<1> QED BY <1>1, <1>2

LEMMA CallNext == CallFacts /\ [Next]_vars => CallFacts'
<1> SUFFICES ASSUME CallFacts, [Next]_vars PROVE CallFacts'
  OBVIOUS
<1>1. CASE call' = call
  BY <1>1 DEF CallFacts, CallOK, IsCall
<1>2. CASE CallTheApi
  <2>1. Deliver => \/ \E path : Receive(path)
                   \/ call' = Answered(404, FALSE)
    BY DEF Deliver
  <2>2. Deliver => CallFacts'
    BY ZenonT(40), <2>1, ReceiveKeeps, AnsweredKeeps, FewStatuses
  <2>3. CASE \E op \in Operations, server \in Servers, s \in Sessions \cup {NoSession} :
               Call(op, server, s)
    BY <2>3, CallKeeps
  <2> QED BY <1>2, <2>2, <2>3, DecideKeeps, HandleKeeps, ParseKeeps, ReturnKeeps DEF CallTheApi
<1> QED BY <1>1, <1>2 DEF Next, vars

(* The states are what they are declared to be.                            *)
THEOREM TypeCorrect == Spec => []TypeOK
<1>1. Init => CallFacts
  BY NoCallFacts DEF Init
<1>2. Spec => []CallFacts
  BY <1>1, CallNext, PTL DEF Spec
<1>3. GatewayInv /\ CallFacts => TypeOK
  BY DEF GatewayInv, MuxFacts, MuxInv, Started, TabsFacts, BrowserOK, AllTabs, TabOK,
         TabStages, CacheValues, CallFacts, TypeOK, RoutingOK
<1> QED BY InvCorrect, <1>2, <1>3, PTL

LEMMA PrefixNamesSeq ==
  ASSUME conf \in GatewayConfig
  PROVE  PrefixNames \in Seq(STRING) /\ Front(NewClient(conf.prefix)) = PrefixNames
<1>1. conf.prefix \in Paths /\ conf.prefix \in Seq(STRING)
  BY ConfigParts DEF Paths
<1>2. CASE Last(conf.prefix) = ""
  BY <1>1, <1>2, PathParts DEF PrefixNames, NewClient
<1>3. CASE Last(conf.prefix) # ""
  <2>1. Front(Append(conf.prefix, "")) = conf.prefix
    BY <1>1, FrontOfAppend, OwnPaths
  <2> QED BY <1>1, <1>3, <2>1 DEF PrefixNames, NewClient
<1> QED BY <1>2, <1>3

(* Behind the prefix is what the client built, with "api" in front if that *)
(* was part of the server's URL.                                           *)
LEMMA BehindServer ==
  ASSUME conf \in GatewayConfig, NEW server \in Servers, NEW W, NEW f \in Seq(W), f # <<>>
  PROVE  LET rest == BehindPrefix(Resolve(NewClient(server), f))
         IN rest = f \/ rest = <<"api">> \o f
<1> DEFINE V == STRING \cup W \cup {"api", ""}
<1>1. PrefixNames \in Seq(V) /\ f \in Seq(V) /\ "api" \in V /\ "" \in V
  <2>1. PrefixNames \in Seq(STRING)
    BY PrefixNamesSeq
  <2>2. STRING \subseteq V /\ W \subseteq V
    OBVIOUS
  <2> HIDE DEF V
  <2>3. PrefixNames \in Seq(V) /\ f \in Seq(V)
    BY <2>1, <2>2, SeqMonotonic
  <2> QED BY <2>3 DEF V
<1> HIDE DEF V
<1>2. CASE server = conf.prefix
  <2>1. Resolve(NewClient(server), f) = PrefixNames \o f
    BY <1>2, PrefixNamesSeq DEF Resolve
  <2> QED BY <1>1, <2>1, BehindConcat DEF BehindPrefix
<1>3. CASE server = Append(PrefixNames, "api")
  <2>1. server \in Seq(V) /\ Last(server) = "api" /\ Front(Append(server, "")) = server
    <3>1. server \in Seq(V)
      BY <1>1, <1>3, AppendProperties
    <3>2. Last(server) = "api"
      BY <1>1, <1>3, FrontAppend
    <3>3. Front(Append(server, "")) = server
      BY <1>1, <3>1, FrontAppend
    <3> QED BY <3>1, <3>2, <3>3
  <2>2. Resolve(NewClient(server), f) = server \o f
    BY <2>1 DEF Resolve, NewClient
  <2>3. ASSUME NEW x \in V, server = Append(PrefixNames, x)
        PROVE  BehindPrefix(server \o f) = <<x>> \o f
    <3>1. SubSeq(server \o f, Len(PrefixNames) + 1, Len(server \o f)) = <<x>> \o f
      BY <1>1, <2>3, BehindOneMore
    <3> QED BY <3>1 DEF BehindPrefix
  <2> QED BY <1>1, <1>3, <2>2, <2>3
<1> QED BY <1>2, <1>3 DEF Servers

(* The mux finds the operation that was called, or none.                   *)
LEMMA ReceiveArrives ==
  ASSUME conf \in GatewayConfig, CallInv, CallFacts, Receive(BehindPrefix(call.path))
  PROVE  \/ call' = Answered(405, FALSE) \/ call' = Answered(404, FALSE)
         \/ call' = [call EXCEPT !.stage = "bound", !.at = call.op, !.got = call.args]
<1> DEFINE op == call.op
           args == call.args
           f == Fill(Builder(op).path, args.path)
           rest == BehindPrefix(call.path)
<1>1. /\ op \in Operations /\ args \in Arguments(op) /\ call.method = Builder(op).method
      /\ \E server \in Servers : call.path = Resolve(NewClient(server), f)
  BY DEF Receive, CallInv
<1>2. /\ Len(f) = Len(Builder(op).path) /\ Len(f) \in 1 .. 5
      /\ f # <<>> /\ \E V : f \in Seq(V)
  BY <1>1, FillSeq
<1> PICK V : f \in Seq(V)
  BY <1>2
<1>3. rest = f \/ rest = <<"api">> \o f
  <2> HIDE DEF f
  <2> QED BY <1>1, <1>2, BehindServer
<1>4. ASSUME NEW r \in ApiRoutes, r.method = call.method, Fits(r.path, rest)
      PROVE  r.op = op /\ rest = f
  <2>1. CASE rest = f
    <3> HIDE DEF rest
    <3> QED BY <1>1, <1>4, <2>1, Arrives
  <2>2. CASE rest = <<"api">> \o f
    <3> HIDE DEF f, rest
    <3> DEFINE W == V \cup {"api"}
    <3>1. <<"api">> \in Seq(W) /\ f \in Seq(W)
      <4>1. V \subseteq W /\ "api" \in W
        OBVIOUS
      <4> HIDE DEF W
      <4> QED BY <4>1, SeqMonotonic
    <3> HIDE DEF W
    <3>2. /\ rest \in Seq(W) /\ Len(rest) = 1 + Len(f) /\ DOMAIN rest = 1 .. Len(rest)
          /\ \A i \in 1 .. 1 + Len(f) : rest[i] = IF i <= 1 THEN <<"api">>[i] ELSE f[i - 1]
      <4>1. Len(<<"api">>) = 1
        OBVIOUS
      <4> QED BY <2>2, <3>1, <4>1, ConcatProperties, LenProperties
    <3>3. Len(rest) = Len(Builder(op).path) + 1 /\ rest[2] = f[1]
      <4>1. PICK n \in 1 .. 5 : Len(f) = n
        BY <1>2
      <4>2. 2 \in 1 .. 1 + n
        OBVIOUS
      <4> QED BY <1>2, <3>2, <4>1, <4>2
    <3> QED BY <1>1, <1>4, <3>2, <3>3, GoesAstray DEF f
  <2> QED BY <1>3, <2>1, <2>2
<1> DEFINE fitting == {r \in ApiRoutes : r.method = call.method /\ Fits(r.path, rest)}
           got(r) == Bound(r, rest, args.query)
<1>5. \/ call' = Answered(405, FALSE) \/ call' = Answered(404, FALSE)
      \/ \E r \in fitting : call' = [call EXCEPT !.stage = "bound", !.at = r.op, !.got = got(r)]
  BY DEF Receive, Bound
<1>6. ASSUME NEW r \in fitting PROVE r.op = op /\ got(r) = args
  <2>1. r \in ApiRoutes /\ r.op = op /\ rest = f
    BY <1>4
  <2>2. args \in Arguments(r.op) /\ f = Fill(Builder(r.op).path, args.path)
    BY <1>1, <2>1
  <2> HIDE DEF rest, f
  <2>3. got(r) = args
    BY <2>1, <2>2, GivenBack
  <2> QED BY <2>1, <2>3
<1> HIDE DEF got, fitting
<1> QED BY <1>5, <1>6

LEMMA CallSame == ASSUME CallInv, call' = call, Servers' = Servers PROVE CallInv'
BY DEF CallInv, Arrived, Typed, AnswersAreTyped

LEMMA AnswerArrived ==
  ASSUME CallFacts, call.stage # "done", NEW status, NEW json \in BOOLEAN, NEW ran \in BOOLEAN,
         call' = [Answered(status, json) EXCEPT !.ran = ran],
         ran => Arrived,
         json => status \in TypedByClient(call.op) \/ (call.op = "CreateUser" /\ status = 401)
  PROVE  CallInv'
<1>1. /\ call'.stage = "answered" /\ call'.op = call.op /\ call'.at = call.at
      /\ call'.args = call.args /\ call'.got = call.got
      /\ call'.status = status /\ call'.json = json /\ call'.ran = ran
  BY DEF Answered, CallFacts, IsCall
<1> QED BY <1>1 DEF CallInv, Arrived, Typed, AnswersAreTyped

LEMMA UnranAnswer ==
  ASSUME CallFacts, NEW status, NEW json, call.ran = FALSE,
         call' = Answered(status, json)
  PROVE  call' = [Answered(status, json) EXCEPT !.ran = FALSE]
BY DEF Answered, CallFacts, IsCall

LEMMA NextStage ==
  ASSUME CallInv, CallFacts, call.stage \in {"bound", "decoded"},
         NEW stage \in {"decoded", "admitted"}, call' = [call EXCEPT !.stage = stage]
  PROVE  CallInv'
<1>1. /\ call'.stage = stage /\ call'.op = call.op /\ call'.at = call.at
      /\ call'.args = call.args /\ call'.got = call.got /\ call'.ran = call.ran
  BY DEF CallFacts, IsCall
<1>2. call.op \in Operations /\ Arrived /\ call.ran = FALSE
  BY DEF CallInv
<1> QED BY <1>1, <1>2 DEF CallInv, Arrived, AnswersAreTyped

LEMMA CallArrives ==
  ASSUME NEW op \in Operations, NEW server \in Servers, NEW s, Call(op, server, s),
         Servers' = Servers
  PROVE  CallInv'
<1>1. PICK args \in Arguments(op) : \E body :
        call' = [NoCall EXCEPT
                  !.stage = "sent", !.op = op, !.args = args, !.session = s,
                  !.body = body, !.method = Builder(op).method,
                  !.path = Resolve(NewClient(server), Fill(Builder(op).path, args.path))]
  BY DEF Call
<1>2. PICK method, path :
        method = Builder(op).method
        /\ path = Resolve(NewClient(server), Fill(Builder(op).path, args.path))
  OBVIOUS
<1>3. PICK body :
        call' = [NoCall EXCEPT !.stage = "sent", !.op = op, !.args = args, !.session = s,
                               !.body = body, !.method = method, !.path = path]
  BY <1>1, <1>2
<1>4. /\ call'.stage = "sent" /\ call'.op = op /\ call'.args = args /\ call'.ran = FALSE
      /\ call'.method = method /\ call'.path = path
  BY <1>3 DEF NoCall
<1>5. \E v \in Servers' : call'.path = Resolve(NewClient(v), Fill(Builder(op).path, args.path))
  BY <1>2, <1>4
<1> QED BY <1>2, <1>4, <1>5 DEF CallInv, AnswersAreTyped

LEMMA DeliverArrives ==
  ASSUME conf \in GatewayConfig, CallInv, CallFacts, Deliver
  PROVE  CallInv'
<1>1. call.stage = "sent" /\ call.ran = FALSE
  BY DEF Deliver, Receive, CallInv
<1>2. ASSUME NEW status, call' = Answered(status, FALSE) PROVE CallInv'
  <2>1. call' = [Answered(status, FALSE) EXCEPT !.ran = FALSE]
    BY <1>1, <1>2, UnranAnswer
  <2> QED BY <1>1, <2>1, AnswerArrived
<1>3. ASSUME call' = [call EXCEPT !.stage = "bound", !.at = call.op, !.got = call.args] PROVE CallInv'
  <2>1. /\ call'.stage = "bound" /\ call'.op = call.op /\ call'.at = call.op
        /\ call'.args = call.args /\ call'.got = call.args /\ call'.ran = call.ran
    BY <1>3 DEF CallFacts, IsCall
  <2>2. call.op \in Operations
    BY <1>1 DEF CallInv
  <2> QED BY <1>1, <2>1, <2>2 DEF CallInv, Arrived, AnswersAreTyped
<1>4. CASE Receive(BehindPrefix(call.path))
  BY <1>2, <1>3, <1>4, ReceiveArrives
<1>5. CASE call' = Answered(404, FALSE)
  BY <1>2, <1>5
<1> QED BY <1>4, <1>5 DEF Deliver

LEMMA DecideArrives ==
  ASSUME CallInv, CallFacts, Decode \/ Authorize
  PROVE  CallInv'
<1>1. /\ call.stage \in {"bound", "decoded"}
      /\ call.op \in Operations /\ Arrived /\ call.ran = FALSE
  BY DEF Decode, Authorize, CallInv
<1>2. ASSUME NEW status, NEW json \in BOOLEAN, call' = Answered(status, json),
             json => status \in TypedByClient(call.op) \/ (call.op = "CreateUser" /\ status = 401)
      PROVE  CallInv'
  <2>1. call' = [Answered(status, json) EXCEPT !.ran = FALSE]
    BY <1>1, <1>2, UnranAnswer
  <2>2. call.stage # "done" /\ FALSE \in BOOLEAN
    BY <1>1
  <2>3. \A ran \in BOOLEAN :
          call' = [Answered(status, json) EXCEPT !.ran = ran] /\ (ran => Arrived) => CallInv'
    BY <1>2, <2>2, AnswerArrived
  <2> QED BY <2>1, <2>2, <2>3
<1>3. CASE call' = Answered(400, FALSE)
  BY <1>2, <1>3
<1>4. CASE call' = Answered(401, TRUE) /\ call.at \notin OperationWithNoSecurity
  <2>1. 401 \in TypedByClient(call.op) \/ call.op = "CreateUser"
    <3>1. call.op \in Operations /\ call.op \notin OperationWithNoSecurity
      BY <1>1, <1>4 DEF Arrived
    <3>2. PICK op : op = call.op
      OBVIOUS
    <3>3. 401 \in TypedByClient(op) \/ op = "CreateUser"
      BY <3>1, <3>2, RefusalTyped
    <3> QED BY <3>2, <3>3
  <2>2. PICK status \in {401}, json \in {TRUE} : TRUE
    OBVIOUS
  <2>3. call' = Answered(status, json)
    BY <1>4
  <2>4. status \in TypedByClient(call.op) \/ (call.op = "CreateUser" /\ status = 401)
    BY <2>1
  <2> QED BY <1>2, <2>3, <2>4
<1>5. CASE \E stage \in {"decoded", "admitted"} : call' = [call EXCEPT !.stage = stage]
  BY <1>1, <1>5, NextStage
<1>6. CASE Decode
  BY <1>3, <1>5, <1>6 DEF Decode
<1>7. CASE Authorize
  BY <1>4, <1>5, <1>7 DEF Authorize
<1> QED BY <1>6, <1>7

LEMMA IsBoolean ==
  ASSUME NEW x, NEW S
  PROVE  \E b \in BOOLEAN : b = (x \in S)
<1>1. CASE x \in S
  <2>1. TRUE = (x \in S)
    BY <1>1
  <2> WITNESS TRUE \in BOOLEAN
  <2> QED BY <2>1
<1>2. CASE x \notin S
  <2>1. FALSE = (x \in S)
    BY <1>2
  <2> WITNESS FALSE \in BOOLEAN
  <2> QED BY <2>1
<1> QED BY <1>1, <1>2

LEMMA HandleArrives ==
  ASSUME CallInv, CallFacts, Handle
  PROVE  CallInv'
<1>1. call.stage = "admitted" /\ Arrived /\ call.ran = FALSE
  BY DEF Handle, CallInv
<1>2. TypedByClient(call.op) = WrittenAsJSON(call.at)
  BY <1>1, SameAnswers DEF Arrived
<1>3. ASSUME NEW status, NEW json \in BOOLEAN, NEW ran \in BOOLEAN,
             call' = [Answered(status, json) EXCEPT !.ran = ran],
             json => status \in WrittenAsJSON(call.at)
      PROVE  CallInv'
  BY <1>1, <1>2, <1>3, AnswerArrived
<1>4. ASSUME NEW status, call' = Answered(status, status \in WrittenAsJSON(call.at))
      PROVE  CallInv'
  <2>1. PICK json \in BOOLEAN : json = (status \in WrittenAsJSON(call.at))
    BY IsBoolean
  <2>2. call' = [Answered(status, json) EXCEPT !.ran = FALSE]
    BY <1>1, <1>4, <2>1, UnranAnswer
  <2> QED BY <1>3, <2>1, <2>2
<1>5. ASSUME NEW status,
             call' = [Answered(status, status \in WrittenAsJSON(call.at)) EXCEPT !.ran = TRUE]
      PROVE  CallInv'
  <2>1. PICK json \in BOOLEAN : json = (status \in WrittenAsJSON(call.at))
    BY IsBoolean
  <2>2. call' = [Answered(status, json) EXCEPT !.ran = TRUE]
    BY <1>5, <2>1
  <2> QED BY <1>3, <2>1, <2>2
<1>6. ASSUME call' = [Answered(500, FALSE) EXCEPT !.ran = TRUE]
      PROVE  CallInv'
  BY <1>3, <1>6
<1> QED BY <1>4, <1>5, <1>6 DEF Handle

LEMMA ParseArrives ==
  ASSUME CallInv, CallFacts, Parse
  PROVE  CallInv'
<1>1. /\ call.stage = "answered" /\ (call.ran => Arrived) /\ (call.json => Typed)
  BY DEF Parse, CallInv
<1>2. PICK result : /\ call' = [call EXCEPT !.stage = "done", !.result = result]
                    /\ call.json /\ call.status \in TypedByClient(call.op) => result = "typed"
  BY DEF Parse
<1>3. /\ call'.stage = "done" /\ call'.op = call.op /\ call'.at = call.at
      /\ call'.args = call.args /\ call'.got = call.got /\ call'.status = call.status
      /\ call'.json = call.json /\ call'.ran = call.ran /\ call'.result = result
  BY <1>2 DEF CallFacts, IsCall
<1> QED BY <1>1, <1>2, <1>3 DEF CallInv, Arrived, Typed, AnswersAreTyped

CallIdle == call.stage = "idle"

LEMMA IdleArrives == CallIdle => CallInv
BY DEF CallIdle, CallInv, AnswersAreTyped

LEMMA ArrivesNext ==
  ASSUME CallInv, CallFacts, conf \in GatewayConfig, [Next]_vars
  PROVE  CallInv'
<1>1. ASSUME call' = NoCall PROVE CallInv'
  <2>1. CallIdle'
    BY <1>1 DEF CallIdle, NoCall
  <2> QED BY <2>1, IdleArrives, PTL
<1>2. CASE call = NoCall /\ UNCHANGED call
  BY <1>1, <1>2
<1>3. CASE CallTheApi
  <2>1. Servers' = Servers
    BY <1>3 DEF CallTheApi, routingVars, Servers, PrefixNames
  <2>2. ASSUME NEW op \in Operations, NEW server \in Servers, NEW s \in Sessions \cup {NoSession},
               Call(op, server, s)
        PROVE  CallInv'
    BY <2>1, <2>2, CallArrives
  <2>3. CASE Deliver
    BY <2>3, DeliverArrives
  <2>4. CASE Return
    BY <1>1, <2>4 DEF Return
  <2> QED BY <1>3, <2>2, <2>3, <2>4, DecideArrives, HandleArrives, ParseArrives DEF CallTheApi
<1>4. CASE UNCHANGED vars
  BY <1>4, CallSame DEF vars, Servers, PrefixNames
<1> QED BY <1>2, <1>3, <1>4 DEF Next

LEMMA CallInvCorrect == Spec => [](CallInv /\ CallFacts)
<1>1. Init => CallInv /\ CallFacts
  BY NoCallFacts, IdleArrives, NoCallOK DEF Init, CallIdle
<1>2. GatewayInv => conf \in GatewayConfig
  BY MuxParts DEF GatewayInv, MuxFacts
<1>3. CallInv /\ CallFacts /\ GatewayInv /\ [Next]_vars => CallInv' /\ CallFacts'
  BY <1>2, ArrivesNext, CallNext
<1> QED BY <1>1, <1>3, InvCorrect, PTL DEF Spec

(* Under every prefix, and for all ids and arguments, the handler that runs *)
(* is that of the method the program called, and gets what it passed, also  *)
(* when the program names the server as some of the tests do.              *)
THEOREM CallsArrive == Spec => []CallsReachTheirOperation
<1>1. CallInv => CallsReachTheirOperation
  BY DEF CallInv, Arrived, CallsReachTheirOperation
<1> QED BY <1>1, CallInvCorrect, PTL

(* Whatever a handler writes as JSON, the client has a typed field for it. *)
THEOREM AnswersTyped == Spec => []AnswersAreTyped
<1>1. CallInv => AnswersAreTyped
  BY DEF CallInv
<1> QED BY <1>1, CallInvCorrect, PTL

-----------------------------------------------------------------------------
(* The tabs of a browser that log in with a provider share its cookie.     *)

IsRequest(r) ==
  r = [method |-> r.method, path |-> r.path, redirect |-> r.redirect, state |-> r.state,
       button |-> r.button]

LoginsInv == LoginsApart /\ \A t \in Tabs : IsRequest(tabs[t].ask)

LEMMA PlainRequest ==
  ASSUME NEW method, NEW path, NEW redirect, NEW r, r = Request(method, path, redirect)
  PROVE  IsRequest(r) /\ r.state = 0
BY DEF Request, IsRequest

LEMMA RequestFrom ==
  ASSUME NEW q, IsRequest(q), NEW button, NEW r, r = [q EXCEPT !.button = button]
  PROVE  IsRequest(r) /\ r.state = q.state
BY DEF IsRequest

LEMMA RequestWith ==
  ASSUME NEW q, IsRequest(q), NEW state, NEW r, r = [q EXCEPT !.state = state]
  PROVE  IsRequest(r) /\ r.state = state /\ r.redirect = q.redirect
BY DEF IsRequest

(* A step that begins no login only gives states up.                       *)
NoLogin ==
  /\ logins' = logins
  /\ oauth'.state = 0 \/ oauth' = oauth
  /\ \A t \in Tabs :
       /\ IsRequest(tabs'[t].ask)
       /\ tabs'[t].ask.state \in {0, tabs[t].ask.state}
       /\ tabs'[t].stage = "provider" => tabs[t].stage = "provider" /\ tabs'[t].ask = tabs[t].ask

LEMMA NoLoginKeeps == LoginsInv /\ BrowserOK /\ NoLogin => LoginsInv'
<1> SUFFICES ASSUME LoginsInv, BrowserOK, NoLogin PROVE LoginsInv'
  OBVIOUS
<1>1. PICK n \in Nat : logins = n /\ logins' = n
  BY Bounds DEF BrowserOK, NoLogin
<1>2. oauth'.state \in 0 .. n
  BY <1>1 DEF NoLogin, LoginsInv, LoginsApart
<1>3. ASSUME NEW t \in Tabs
      PROVE  /\ tabs'[t].ask.state \in 0 .. n
             /\ tabs'[t].stage = "provider" =>
                  /\ tabs'[t].ask.state # 0
                  /\ tabs'[t].ask.state = oauth'.state => oauth'.back = OrHome(tabs'[t].ask.redirect)
             /\ \A u \in Tabs : tabs'[t].ask.state = tabs'[u].ask.state => t = u \/ tabs'[t].ask.state = 0
  <2>1. tabs'[t].ask.state \in 0 .. n
    BY <1>1 DEF NoLogin, LoginsInv, LoginsApart
  <2>2. tabs'[t].stage = "provider" =>
          /\ tabs'[t].ask.state # 0
          /\ tabs'[t].ask.state = oauth'.state => oauth'.back = OrHome(tabs'[t].ask.redirect)
    BY DEF NoLogin, LoginsInv, LoginsApart
  <2>3. \A u \in Tabs : tabs'[t].ask.state = tabs'[u].ask.state => t = u \/ tabs'[t].ask.state = 0
    BY DEF NoLogin, LoginsInv, LoginsApart
  <2> QED BY <2>1, <2>2, <2>3
<1>4. \A t \in Tabs : IsRequest(tabs'[t].ask)
  BY DEF NoLogin
<1> QED BY <1>1, <1>2, <1>3, <1>4 DEF LoginsInv, LoginsApart, OrHome, IsRequest

LEMMA SameTabs ==
  ASSUME LoginsInv, NEW F, \A u \in Tabs : F[u].ask = tabs[u].ask /\ F[u].stage = tabs[u].stage
  PROVE  \A u \in Tabs : IsRequest(F[u].ask)
BY DEF LoginsInv

(* One tab changes, and the others only rest.                              *)
LEMMA OneTab ==
  ASSUME LoginsInv, NEW F, F = [u \in Tabs |-> F[u]],
         \A u \in Tabs : F[u].ask = tabs[u].ask /\ F[u].stage = tabs[u].stage,
         NEW t \in Tabs, NEW tab, tabs' = [F EXCEPT ![t] = tab],
         IsRequest(tab.ask), tab.ask.state \in {0, tabs[t].ask.state}, tab.stage # "provider",
         logins' = logins, oauth'.state = 0 \/ oauth' = oauth
  PROVE  NoLogin
<1>1. \A u \in Tabs : tabs'[u] = IF u = t THEN tab ELSE F[u]
  OBVIOUS
<1>2. \A u \in Tabs : IsRequest(tabs[u].ask)
  BY DEF LoginsInv
<1>3. ASSUME NEW u \in Tabs
      PROVE  /\ IsRequest(tabs'[u].ask)
             /\ tabs'[u].ask.state \in {0, tabs[u].ask.state}
             /\ tabs'[u].stage = "provider" => tabs[u].stage = "provider" /\ tabs'[u].ask = tabs[u].ask
  <2>1. CASE u = t
    BY <1>1, <2>1
  <2>2. CASE u # t
    <3>1. tabs'[u].ask = tabs[u].ask /\ tabs'[u].stage = tabs[u].stage
      BY <1>1, <2>2
    <3>2. IsRequest(tabs[u].ask)
      BY <1>2
    <3> QED BY <3>1, <3>2
  <2> QED BY <2>1, <2>2
<1> QED BY <1>3 DEF NoLogin

LEMMA TabsRest ==
  ASSUME AllTabs(tabs)
  PROVE  /\ tabs = [u \in Tabs |-> tabs[u]] /\ Rested = [u \in Tabs |-> Rested[u]]
         /\ \A u \in Tabs : Rested[u].ask = tabs[u].ask /\ Rested[u].stage = tabs[u].stage
         /\ \A u \in Tabs : IsTab(tabs[u]) /\ IsTab(Rested[u])
<1>1. Rested = [u \in Tabs |-> [tabs[u] EXCEPT !.hops = 0]]
  BY DEF Rested
<1>2. \A u \in Tabs : [tabs[u] EXCEPT !.hops = 0].ask = tabs[u].ask
  BY DEF AllTabs, TabOK, IsTab
<1> QED BY <1>1, <1>2, RestedOK DEF AllTabs, TabOK

(* What the answers leave alone.                                           *)
LEMMA AnswerIsNoLogin ==
  ASSUME LoginsInv, AllTabs(tabs), NEW t \in Tabs, NEW a,
         \/ AnswerWith(t, a)
         \/ LoggedInWith(t, a)
         \/ tabs' = [tabs EXCEPT ![t].stage = "answered", ![t].answer = a, ![t].elsewhere = TRUE],
         logins' = logins, oauth'.state = 0 \/ oauth' = oauth
  PROVE  NoLogin
<1>1. /\ tabs = [u \in Tabs |-> tabs[u]] /\ Rested = [u \in Tabs |-> Rested[u]]
      /\ \A u \in Tabs : Rested[u].ask = tabs[u].ask /\ Rested[u].stage = tabs[u].stage
      /\ IsTab(tabs[t]) /\ IsTab(Rested[t])
  BY TabsRest
<1>2. IsRequest(tabs[t].ask)
  BY DEF LoginsInv
<1>3. CASE AnswerWith(t, a)
  <2>1. PICK tab : tab = [tabs[t] EXCEPT !.stage = "answered", !.answer = a]
    OBVIOUS
  <2>2. tab.ask = tabs[t].ask /\ tab.stage = "answered"
    BY <1>1, <2>1 DEF IsTab
  <2>3. tabs' = [tabs EXCEPT ![t] = tab]
    BY <1>3, <2>1 DEF AnswerWith
  <2> QED BY <1>1, <1>2, <2>2, <2>3, OneTab
<1>4. CASE LoggedInWith(t, a)
  <2>1. PICK tab : tab = [Rested[t] EXCEPT !.stage = "answered", !.answer = a]
    OBVIOUS
  <2>2. tab.ask = Rested[t].ask /\ tab.stage = "answered"
    BY <1>1, <2>1 DEF IsTab
  <2>3. PICK F : F = Rested
    OBVIOUS
  <2>4. tabs' = [F EXCEPT ![t] = tab]
    BY <1>4, <2>1, <2>3 DEF LoggedInWith
  <2>5. /\ F = [u \in Tabs |-> F[u]] /\ tab.ask = tabs[t].ask
        /\ \A u \in Tabs : F[u].ask = tabs[u].ask /\ F[u].stage = tabs[u].stage
    BY <1>1, <2>2, <2>3
  <2> QED BY <1>2, <2>2, <2>4, <2>5, OneTab
<1>5. CASE tabs' = [tabs EXCEPT ![t].stage = "answered", ![t].answer = a, ![t].elsewhere = TRUE]
  <2>1. PICK tab : tab = [tabs[t] EXCEPT !.stage = "answered", !.answer = a, !.elsewhere = TRUE]
    OBVIOUS
  <2>2. tab.ask = tabs[t].ask /\ tab.stage = "answered"
    BY <1>1, <2>1 DEF IsTab
  <2>3. tabs' = [tabs EXCEPT ![t] = tab]
    BY <1>5, <2>1
  <2> QED BY <1>1, <1>2, <2>2, <2>3, OneTab
<1> QED BY <1>3, <1>4, <1>5

LEMMA LoginBegins ==
  ASSUME LoginsInv, AllTabs(tabs), BrowserOK, NEW t \in Tabs, OAuthLogin(t)
  PROVE  LoginsInv'
<1>1. PICK n \in Nat : logins = n
  BY Bounds DEF BrowserOK
<1>2. PICK back : back = OrHome(tabs[t].ask.redirect)
  OBVIOUS
<1>3. PICK answer : tabs' = [tabs EXCEPT ![t].stage = "provider", ![t].ask.state = n + 1, ![t].answer = answer]
  BY <1>1 DEF OAuthLogin
<1>4. logins' = n + 1 /\ oauth' = [state |-> n + 1, back |-> back]
  BY <1>1, <1>2 DEF OAuthLogin
<1>5. PICK ask : ask = [tabs[t].ask EXCEPT !.state = n + 1]
  OBVIOUS
<1>6. ask.state = n + 1 /\ ask.redirect = tabs[t].ask.redirect /\ IsRequest(ask)
  <2>1. PICK q, state : q = tabs[t].ask /\ state = n + 1
    OBVIOUS
  <2>2. IsRequest(q) /\ ask = [q EXCEPT !.state = state]
    BY <1>5, <2>1 DEF LoginsInv
  <2>3. IsRequest(ask) /\ ask.state = state /\ ask.redirect = q.redirect
    BY <2>2, RequestWith
  <2> QED BY <2>1, <2>3
<1>7. PICK tab : tab = [tabs[t] EXCEPT !.stage = "provider", !.ask = ask, !.answer = answer]
  OBVIOUS
<1>8. tab.ask = ask /\ tab.stage = "provider" /\ tabs = [u \in Tabs |-> tabs[u]]
  BY <1>7, TabsRest DEF IsTab
<1>9. tabs' = [tabs EXCEPT ![t] = tab]
  BY <1>3, <1>5, <1>7
<1>10. tabs'[t] = tab /\ \A u \in Tabs \ {t} : tabs'[u] = tabs[u]
  BY <1>8, <1>9
<1>11. \A u \in Tabs \ {t} :
         /\ tabs[u].ask.state \in 0 .. n
         /\ tabs[u].stage = "provider" => tabs[u].ask.state # 0
         /\ IsRequest(tabs[u].ask)
  BY <1>1 DEF LoginsInv, LoginsApart
<1>12. ASSUME NEW u \in Tabs
       PROVE  /\ IsRequest(tabs'[u].ask) /\ tabs'[u].ask.state \in 0 .. n + 1
              /\ tabs'[u].stage = "provider" =>
                   /\ tabs'[u].ask.state # 0
                   /\ tabs'[u].ask.state = n + 1 => back = OrHome(tabs'[u].ask.redirect)
              /\ \A v \in Tabs : tabs'[u].ask.state = tabs'[v].ask.state => u = v \/ tabs'[u].ask.state = 0
  <2>1. ASSUME NEW v \in Tabs, tabs'[u].ask.state = tabs'[v].ask.state, u # v
        PROVE  tabs'[u].ask.state = 0
    <3>1. CASE u = t
      BY <1>6, <1>8, <1>10, <1>11, <2>1, <3>1
    <3>2. CASE v = t
      BY <1>6, <1>8, <1>10, <1>11, <2>1, <3>2
    <3>3. CASE u # t /\ v # t
      BY <1>10, <2>1, <3>3 DEF LoginsInv, LoginsApart
    <3> QED BY <3>1, <3>2, <3>3
  <2>2. CASE u = t
    BY <1>2, <1>6, <1>8, <1>10, <2>1, <2>2
  <2>3. CASE u # t
    <3>1. tabs'[u] = tabs[u] /\ tabs[u].ask.state # n + 1
      BY <1>10, <1>11, <2>3
    <3> QED BY <1>11, <2>1, <2>3, <3>1
  <2> QED BY <2>2, <2>3
<1>13. n + 1 \in 0 .. n + 1
  OBVIOUS
<1> QED BY <1>4, <1>12, <1>13 DEF LoginsInv, LoginsApart, OrHome, IsRequest

LEMMA RespondLogins ==
  ASSUME LoginsInv, AllTabs(tabs), BrowserOK, NEW t \in Tabs, Respond(t)
  PROVE  LoginsInv'
<1>1. ASSUME NEW a, logins' = logins, oauth'.state = 0 \/ oauth' = oauth,
             \/ AnswerWith(t, a)
             \/ LoggedInWith(t, a)
             \/ tabs' = [tabs EXCEPT ![t].stage = "answered", ![t].answer = a, ![t].elsewhere = TRUE]
      PROVE  LoginsInv'
  BY <1>1, AnswerIsNoLogin, NoLoginKeeps
<1>2. CASE ServeMuxAnswers(t)
  BY <1>1, <1>2 DEF ServeMuxAnswers, OnlyTabs
<1>3. CASE PageAnswers(t)
  BY <1>1, <1>3 DEF PageAnswers, OnlyTabs
<1>4. CASE OAuthCallbackRoute(t)
  BY <1>1, <1>4 DEF OAuthCallbackRoute, OnlyTabs
<1>5. CASE Dashboard(t)
  BY <1>1, <1>5 DEF Dashboard, OnlyBrowser
<1>6. CASE BasicLogin(t)
  <2>1. logins' = logins /\ oauth' = oauth
    BY <1>6 DEF BasicLogin, OnlyBrowser
  <2>2. \E a : \/ tabs' = [tabs EXCEPT ![t].stage = "answered", ![t].answer = a, ![t].elsewhere = TRUE]
               \/ LoggedInWith(t, a)
               \/ AnswerWith(t, a)
    BY <1>6, ZenonT(40) DEF BasicLogin
  <2> QED BY <1>1, <2>1, <2>2
<1>7. CASE Callback(t)
  <2>1. oauth'.state = 0 \/ oauth' = oauth
    <3>1. CASE oauth' = [state |-> 0, back |-> NoPath]
      BY <3>1
    <3>2. CASE oauth' = [oauth EXCEPT !.state = 0]
      BY <3>2 DEF BrowserOK
    <3>3. CASE UNCHANGED <<session, oauth>>
      BY <3>3
    <3> QED BY <1>7, <3>1, <3>2, <3>3, ZenonT(40) DEF Callback
  <2>2. \E a : AnswerWith(t, a) \/ LoggedInWith(t, a)
    BY <1>7, ZenonT(40) DEF Callback
  <2>3. logins' = logins
    BY <1>7 DEF Callback, OnlyBrowser
  <2> QED BY <1>1, <2>1, <2>2, <2>3
<1>8. CASE RouteAnswers(t)
  BY <1>1, <1>8 DEF RouteAnswers, OnlyTabs
<1>9. CASE OAuthLogin(t)
  BY <1>9, LoginBegins
<1> QED BY <1>2, <1>3, <1>4, <1>5, <1>6, <1>7, <1>8, <1>9 DEF Respond

LEMMA SendLogins ==
  ASSUME LoginsInv, AllTabs(tabs), BrowserOK, NEW t \in Tabs, NEW request, NEW hops,
         Send(t, request, hops), IsRequest(request), request.state \in {0, tabs[t].ask.state},
         OnlyTabs
  PROVE  LoginsInv'
<1>1. PICK tab : tab = [tabs[t] EXCEPT !.stage = "asking", !.ask = request, !.answer = NoAnswer,
                                       !.hops = hops]
  OBVIOUS
<1>2. tab.ask = request /\ tab.stage = "asking"
  BY <1>1, TabsRest DEF IsTab
<1>3. tabs' = [tabs EXCEPT ![t] = tab]
  BY <1>1 DEF Send
<1>4. logins' = logins /\ oauth' = oauth /\ tabs = [u \in Tabs |-> tabs[u]]
  BY TabsRest DEF OnlyTabs
<1> QED BY <1>2, <1>3, <1>4, OneTab, NoLoginKeeps

LEMMA NewTabAsks == NewTab.stage = "idle" /\ IsRequest(NewTab.ask) /\ NewTab.ask.state = 0
<1>1. PICK request : request = Request("GET", <<"">>, NoPath)
  OBVIOUS
<1>2. NewTab.stage = "idle" /\ NewTab.ask = request
  BY <1>1 DEF NewTab
<1>3. IsRequest(request) /\ request.state = 0
  BY <1>1, PlainRequest
<1> QED BY <1>2, <1>3

LEMMA BrowseLogins ==
  ASSUME LoginsInv, AllTabs(tabs), BrowserOK, NEW t \in Tabs, Browse(t)
  PROVE  LoginsInv'
<1>1. OnlyTabs
  BY DEF Browse, Open, Follow, LoginScript, Press, ProviderReturns, Close
<1>2. logins' = logins /\ oauth' = oauth /\ tabs = [u \in Tabs |-> tabs[u]] /\ IsTab(tabs[t])
  BY <1>1, TabsRest DEF OnlyTabs
<1>3. ASSUME NEW method, NEW path, NEW redirect, NEW hops, NEW button,
             \/ Send(t, Request(method, path, redirect), hops)
             \/ Send(t, [Request(method, path, redirect) EXCEPT !.button = button], hops)
      PROVE  LoginsInv'
  <2>1. PICK plain : plain = Request(method, path, redirect)
    OBVIOUS
  <2>2. PICK pressed : pressed = [plain EXCEPT !.button = button]
    OBVIOUS
  <2>3. IsRequest(plain) /\ plain.state = 0
    BY <2>1, PlainRequest
  <2>4. IsRequest(pressed) /\ pressed.state = 0
    BY <2>2, <2>3, RequestFrom
  <2>5. Send(t, plain, hops) \/ Send(t, pressed, hops)
    BY <1>3, <2>1, <2>2
  <2> QED BY <1>1, <2>3, <2>4, <2>5, SendLogins
<1>4. CASE Open(t)
  <2>1. PICK p : tabs' = [tabs EXCEPT ![t] = [NewTab EXCEPT !.stage = "asking", !.asked = p,
                                                            !.ask = Request("GET", p, NoPath)]]
    BY <1>4 DEF Open
  <2>2. PICK tab : tab = [NewTab EXCEPT !.stage = "asking", !.asked = p,
                                        !.ask = Request("GET", p, NoPath)]
    OBVIOUS
  <2>3. tab.stage = "asking" /\ tab.ask = Request("GET", p, NoPath)
    BY <2>2 DEF NewTab
  <2>4. IsRequest(tab.ask) /\ tab.ask.state = 0
    BY <2>3, PlainRequest
  <2>5. tabs' = [tabs EXCEPT ![t] = tab]
    BY <2>1, <2>2
  <2> QED BY <1>2, <2>3, <2>4, <2>5, OneTab, NoLoginKeeps
<1>5. CASE Follow(t)
  <2>1. CASE tabs' = [tabs EXCEPT ![t].stage = "away"]
    <3>1. PICK tab : tab = [tabs[t] EXCEPT !.stage = "away"]
      OBVIOUS
    <3>2. tab.stage = "away" /\ tab.ask = tabs[t].ask /\ IsRequest(tab.ask)
      BY <1>2, <3>1 DEF IsTab, LoginsInv
    <3>3. tabs' = [tabs EXCEPT ![t] = tab]
      BY <2>1, <3>1
    <3> QED BY <1>2, <3>2, <3>3, OneTab, NoLoginKeeps
  <2>2. CASE \E path : \E redirect : \E hops : Send(t, Request("GET", path, redirect), hops)
    BY <1>3, <2>2
  <2> QED BY <1>5, <2>1, <2>2 DEF Follow
<1>6. CASE LoginScript(t)
  BY <1>3, <1>6 DEF LoginScript
<1>7. CASE Press(t)
  BY <1>3, <1>7 DEF Press
<1>8. CASE ProviderReturns(t)
  <2>1. PICK path, hops : Send(t, [Request("GET", path, NoPath) EXCEPT !.state = tabs[t].ask.state], hops)
    BY <1>8 DEF ProviderReturns
  <2>2. PICK state : state = tabs[t].ask.state
    OBVIOUS
  <2>3. PICK plain : plain = Request("GET", path, NoPath)
    OBVIOUS
  <2>4. PICK request : request = [plain EXCEPT !.state = state]
    OBVIOUS
  <2>5. IsRequest(plain)
    BY <2>3, PlainRequest
  <2>6. IsRequest(request) /\ request.state = state
    BY <2>4, <2>5, RequestWith
  <2>7. Send(t, request, hops)
    BY <2>1, <2>2, <2>3, <2>4
  <2> QED BY <1>1, <2>2, <2>6, <2>7, SendLogins
<1>9. CASE Close(t)
  <2>1. tabs' = [tabs EXCEPT ![t] = NewTab]
    BY <1>9 DEF Close
  <2>2. PICK tab : tab = NewTab
    OBVIOUS
  <2>3. tab.stage = "idle" /\ IsRequest(tab.ask) /\ tab.ask.state = 0
    BY <2>2, NewTabAsks
  <2> QED BY <1>2, <2>1, <2>2, <2>3, OneTab, NoLoginKeeps
<1> QED BY <1>4, <1>5, <1>6, <1>7, <1>8, <1>9 DEF Browse

LEMMA LoginsSame ==
  ASSUME LoginsInv, BrowserOK, logins' = logins, oauth' = oauth, tabs' = tabs
  PROVE  LoginsInv'
BY DEF LoginsInv, LoginsApart, OrHome, IsRequest

LEMMA LoginsNext == LoginsInv /\ TabsFacts /\ [Next]_vars => LoginsInv'
<1> SUFFICES ASSUME LoginsInv, TabsFacts, [Next]_vars PROVE LoginsInv'
  OBVIOUS
<1>1. AllTabs(tabs) /\ BrowserOK
  BY DEF TabsFacts
<1>2. CASE Start
  <2>1. UNCHANGED <<oauth, logins, tabs>>
    BY <1>2 DEF Start, LoadConfig, ValidateAllMiddleware, RegisterManagement, RegisterRoute,
                RegisterCallback, EnsureAdmin
  <2> QED BY <1>1, <2>1, LoginsSame
<1>3. CASE SessionEnds
  <2>1. \A u \in Tabs : tabs'[u].ask = tabs[u].ask /\ tabs'[u].stage = tabs[u].stage
    BY <1>1, <1>3, TabsRest DEF SessionEnds
  <2>2. NoLogin
    BY <1>3, <2>1 DEF SessionEnds, NoLogin, LoginsInv
  <2> QED BY <1>1, <2>2, NoLoginKeeps
<1>4. CASE Deploy
  BY <1>1, <1>4, LoginsSame DEF Deploy
<1>5. CASE \E t \in Tabs : Browse(t) \/ Respond(t)
  BY <1>1, <1>5, BrowseLogins, RespondLogins
<1>6. CASE CallTheApi
  BY <1>1, <1>6, LoginsSame DEF CallTheApi, routingVars
<1>7. CASE UNCHANGED vars
  BY <1>1, <1>7, LoginsSame DEF vars
<1> QED BY <1>2, <1>3, <1>4, <1>5, <1>6, <1>7 DEF Next, RoutingNext

LEMMA LoginsInit == Init => LoginsInv
<1> SUFFICES ASSUME Init PROVE LoginsInv
  OBVIOUS
<1>1. oauth = [state |-> 0, back |-> NoPath] /\ logins = 0 /\ tabs = [t \in Tabs |-> NewTab]
  BY DEF Init, RoutingInit
<1>2. \A t \in Tabs : /\ tabs[t].stage = "idle" /\ IsRequest(tabs[t].ask)
                      /\ tabs[t].ask.state = 0
  BY <1>1, NewTabAsks
<1> QED BY <1>1, <1>2 DEF LoginsInv, LoginsApart

(* Two tabs never log in with the same state, so that a callback that is   *)
(* accepted is that of the tab whose login wrote the cookie; and while that*)
(* tab is at the provider, the page in the cookie is the one it was sent to*)
(* the login page from.                                                    *)
THEOREM LoginsStayApart == Spec => []LoginsApart
<1>1. LoginsInv => LoginsApart
  BY DEF LoginsInv
<1>2. GatewayInv => TabsFacts
  BY DEF GatewayInv
<1> QED BY <1>1, <1>2, LoginsInit, LoginsNext, InvCorrect, PTL DEF Spec
====
