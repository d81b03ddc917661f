---------------------------- MODULE TrafficProofs ----------------------------
(* Theorems of Traffic and of the geolocation cache in it, for every set   *)
(* of clients, handlers, addresses and request slots, and all bounds.      *)
EXTENDS Traffic, TLAPS, SequenceTheorems, FiniteSetTheorems, FunctionTheorems,
        WellFoundedInduction

-----------------------------------------------------------------------------
(* The geolocation cache.                                                  *)

LEMMA NoLookupType ==
  /\ NoLookup \in Lookup
  /\ NoLookup.step = "none" /\ NoLookup.result = Nowhere
BY GeoConstants DEF NoLookup, Lookup

(* A step that moves one lookup, to a good one. *)
LEMMA OneLookupMoves ==
  ASSUME GeoInv, NEW r \in Requests, NEW q \in Lookup, LookupGood(q),
         lookup' = [lookup EXCEPT ![r] = q],
         geo' \in [Addresses -> Entry \cup {NotCached}], CacheGood', now' = now
  PROVE  GeoInv'
<1>1. GeoTypeOK'
  BY DEF GeoInv, GeoTypeOK
<1>2. ASSUME NEW s \in Requests PROVE LookupGood(lookup[s])'
  <2>1. LookupGood(lookup'[s])
    BY DEF GeoInv, GeoTypeOK
  <2> QED BY <2>1 DEF LookupGood, EntryFor
<1> QED BY <1>1, <1>2 DEF GeoInv

LEMMA GetGeoDataKeeps ==
  ASSUME GeoInv, now \in Nat, NEW r \in Requests, NEW a \in Addresses,
         GetGeoData(r, a), now' = now
  PROVE  /\ GeoInv'
         /\ lookup'[r].addr = a /\ lookup'[r].began = now
         /\ \A s \in Requests \ {r} : lookup'[s] = lookup[s]
<1> DEFINE q == [NoLookup EXCEPT !.addr = a, !.began = now]
           p == IF a \in Loopback THEN [q EXCEPT !.step = "done"]
                ELSE IF Usable(geo[a]) THEN [q EXCEPT !.step = "done", !.result = geo[a]]
                ELSE [q EXCEPT !.step = "fetch"]
<1>1. lookup' = [lookup EXCEPT ![r] = p] /\ geo' = geo
  BY DEF GetGeoData
<1>2. q \in Lookup /\ q.addr = a /\ q.began = now /\ q.result = Nowhere
  BY NoLookupType DEF Lookup
<1> HIDE DEF q
<1>3. /\ p \in Lookup /\ LookupGood(p) /\ p.addr = a /\ p.began = now
  <2>1. CASE a \in Loopback
    BY <1>2, <2>1 DEF Lookup, LookupGood
  <2>2. CASE a \notin Loopback /\ Usable(geo[a])
    <3>1. EntryFor(geo[a], a) /\ now - geo[a].at < GeoTTL
      BY <2>2 DEF Usable, GeoInv, CacheGood
    <3>2. p = [q EXCEPT !.step = "done", !.result = geo[a]]
      BY <2>2
    <3>3. /\ p \in Lookup /\ p.step = "done" /\ p.addr = a /\ p.began = now
          /\ p.result = geo[a]
      BY <1>2, <3>1, <3>2 DEF Lookup, EntryFor
    <3>4. now - geo[a].data.said < GeoTTL + GeoTimeout
      BY <3>1, GeoConstants DEF EntryFor, Entry, Answer
    <3> HIDE DEF p
    <3> QED BY <2>2, <3>1, <3>3, <3>4 DEF LookupGood, EntryFor
  <2>3. CASE a \notin Loopback /\ ~Usable(geo[a])
    <3>1. p = [q EXCEPT !.step = "fetch"]
      BY <2>3
    <3> QED BY <1>2, <2>3, <3>1, GeoConstants DEF Lookup, LookupGood
  <2> QED BY <2>1, <2>2, <2>3
<1> HIDE DEF p
<1>4. geo' \in [Addresses -> Entry \cup {NotCached}] /\ CacheGood'
  BY <1>1 DEF GeoInv, GeoTypeOK, CacheGood
<1> QED BY <1>1, <1>3, <1>4, OneLookupMoves DEF GeoInv, GeoTypeOK

LEMMA GeoStepKeeps ==
  ASSUME GeoInv, now \in Nat, NEW r \in Requests, GeoStep(r), now' = now
  PROVE  /\ GeoInv'
         /\ \A s \in Requests : /\ lookup'[s].addr = lookup[s].addr
                                /\ lookup'[s].began = lookup[s].began
<1>0. lookup \in [Requests -> Lookup] /\ lookup[r] \in Lookup /\ LookupGood(lookup[r])
  BY DEF GeoInv, GeoTypeOK
<1>1. ASSUME NEW p \in Lookup, LookupGood(p), lookup' = [lookup EXCEPT ![r] = p],
             p.addr = lookup[r].addr, p.began = lookup[r].began,
             geo' \in [Addresses -> Entry \cup {NotCached}], CacheGood'
      PROVE  /\ GeoInv'
             /\ \A s \in Requests : /\ lookup'[s].addr = lookup[s].addr
                                    /\ lookup'[s].began = lookup[s].began
  BY <1>0, <1>1, OneLookupMoves
<1>2. UNCHANGED geo => geo' \in [Addresses -> Entry \cup {NotCached}] /\ CacheGood'
  BY DEF GeoInv, GeoTypeOK, CacheGood
<1>3. ASSUME NEW said \in 0 .. now, FetchGeo(r, said)
      PROVE  /\ GeoInv'
             /\ \A s \in Requests : /\ lookup'[s].addr = lookup[s].addr
                                    /\ lookup'[s].began = lookup[s].began
  <2> DEFINE q == lookup[r]
             e == [data |-> [addr |-> q.addr, said |-> said], at |-> now]
             p == [q EXCEPT !.step = "store", !.result = e]
  <2>1. /\ q.step = "fetch" /\ said \in q.began .. now
        /\ lookup' = [lookup EXCEPT ![r] = p] /\ UNCHANGED geo
    BY <1>3 DEF FetchGeo
  <2>2. q \in Lookup /\ q.addr \in Addresses /\ q.began \in Nat /\ said \in Nat
    BY <1>0 DEF Lookup
  <2>3. e \in Entry /\ e.data.addr = q.addr /\ e.data.said = said /\ e.at = now
    BY <2>2 DEF Entry, Answer
  <2>4. q.addr \notin Loopback /\ now <= q.began + GeoTimeout
    BY <1>0, <2>1 DEF LookupGood
  <2>5. EntryFor(e, q.addr) /\ q.began - e.data.said < GeoTTL + GeoTimeout
    BY <2>1, <2>2, <2>3, <2>4, GeoConstants DEF EntryFor
  <2> HIDE DEF e
  <2>6. /\ p \in Lookup /\ p.step = "store" /\ p.addr = q.addr /\ p.began = q.began
        /\ p.result = e
    BY <2>2, <2>3 DEF Lookup
  <2> HIDE DEF p
  <2>7. LookupGood(p)
    BY <2>3, <2>4, <2>5, <2>6 DEF LookupGood
  <2> QED BY <1>1, <1>2, <2>1, <2>6, <2>7
<1>4. CASE FetchFails(r)
  <2> DEFINE p == [lookup[r] EXCEPT !.step = "done"]
  <2>1. lookup' = [lookup EXCEPT ![r] = p] /\ UNCHANGED geo /\ lookup[r].step = "fetch"
    BY <1>0, <1>4 DEF FetchFails
  <2>2. /\ p \in Lookup /\ p.step = "done" /\ p.result = Nowhere
        /\ p.addr = lookup[r].addr /\ p.began = lookup[r].began
    BY <1>0, <2>1 DEF Lookup, LookupGood
  <2> HIDE DEF p
  <2>3. LookupGood(p)
    BY <2>2 DEF LookupGood
  <2> QED BY <1>1, <1>2, <2>1, <2>2, <2>3
<1>5. CASE StoreGeo(r)
  <2> DEFINE q == lookup[r]
             p == [q EXCEPT !.step = "done"]
  <2>1. /\ q.step = "store" /\ lookup' = [lookup EXCEPT ![r] = p]
        /\ geo' = [geo EXCEPT ![q.addr] = q.result]
    BY <1>0, <1>5 DEF StoreGeo
  <2>2. /\ p \in Lookup /\ p.step = "done" /\ p.result = q.result
        /\ p.addr = q.addr /\ p.began = q.began
    BY <1>0 DEF Lookup
  <2>3. LookupGood(p)
    BY <1>0, <2>2 DEF LookupGood
  <2> HIDE DEF p
  <2>4. EntryFor(q.result, q.addr) /\ q.addr \in Addresses
    BY <1>0, <2>1 DEF LookupGood, Lookup
  <2>5. geo' \in [Addresses -> Entry \cup {NotCached}] /\ CacheGood'
    BY <2>1, <2>4 DEF GeoInv, GeoTypeOK, CacheGood, EntryFor
  <2> QED BY <1>1, <2>1, <2>2, <2>3, <2>5
<1> QED BY <1>3, <1>4, <1>5 DEF GeoStep

(* Time passes only while every call is in time. *)
LEMMA GeoTickKeeps ==
  ASSUME GeoInv, now \in Nat, InTime, now' = now + 1, UNCHANGED geoVars
  PROVE  GeoInv'
<1>1. GeoTypeOK' /\ CacheGood'
  BY DEF GeoInv, GeoTypeOK, CacheGood, geoVars
<1>2. ASSUME NEW r \in Requests PROVE LookupGood(lookup[r])'
  <2>1. /\ lookup'[r] = lookup[r] /\ lookup[r] \in Lookup /\ LookupGood(lookup[r])
    BY DEF GeoInv, GeoTypeOK, geoVars
  <2>2. lookup[r].step = "fetch" => now + 1 <= lookup[r].began + GeoTimeout
    BY <2>1, GeoConstants DEF InTime, Lookup
  <2> QED BY <2>1, <2>2 DEF LookupGood, Lookup
<1> QED BY <1>1, <1>2 DEF GeoInv

LEMMA GeoInvInit == GeoInit => GeoInv
BY NoLookupType DEF GeoInit, GeoInv, GeoTypeOK, CacheGood, LookupGood

-----------------------------------------------------------------------------
(* The status that is noted and the one that is sent.                      *)

LEMMA MinOfNaturals ==
  ASSUME NEW S, S \subseteq Nat, S # {}
  PROVE  Min(S) \in S /\ \A j \in S : Min(S) <= j
<1> DEFINE Less == {ss \in Nat \X Nat : ss[1] < ss[2]}
<1>1. IsWellFoundedOn(Less, Nat)
  BY NatLessThanWellFounded, Zenon DEF OpToRel
<1>2. \A j, k \in Nat : j < k => <<j, k>> \in Less
  OBVIOUS
<1> HIDE DEF Less
<1>3. PICK i \in S : \A j \in S : ~(<<j, i>> \in Less)
  BY <1>1, WFMin
<1>4. \A j \in S : i <= j
  <2> TAKE j \in S
  <2>1. i \in Nat /\ j \in Nat /\ ~(<<j, i>> \in Less)
    BY <1>3
  <2>2. ~(j < i)
    BY <1>2, <2>1
  <2> QED BY <2>1, <2>2, SMT
<1> QED BY <1>4 DEF Min

LEMMA Statuses ==
  ASSUME NEW codes \in Answers
  PROVE  /\ Status(codes) \in Nat /\ Sent(codes) \in Nat
         /\ OneFinalStatus => Status(codes) = Sent(codes)
<1> DEFINE final == {i \in DOMAIN codes : codes[i] >= 200}
<1>1. codes \in Seq(Nat) /\ DOMAIN codes = 1 .. Len(codes) /\ Len(codes) \in Nat
      /\ \A i \in DOMAIN codes : codes[i] \in Nat
  BY TrafficConstants, LenProperties, ElementOfSeq
<1>2. codes # <<>> => Len(codes) \in DOMAIN codes
  BY <1>1, EmptySeq
<1>3. Status(codes) \in Nat
  BY <1>1, <1>2 DEF Status
<1>4. final # {} => Min(final) \in final /\ \A j \in final : Min(final) <= j
  <2>1. final \subseteq Nat
    BY <1>1
  <2> HIDE DEF final
  <2> QED BY <2>1, MinOfNaturals
<1>5. Sent(codes) = IF final = {} THEN 200 ELSE codes[Min(final)]
  BY DEF Sent
<1>6. Sent(codes) \in Nat
  BY <1>1, <1>4, <1>5
<1>7. ASSUME OneFinalStatus PROVE Status(codes) = Sent(codes)
  <2>1. \A i \in DOMAIN codes : codes[i] >= 200 <=> i = Len(codes)
    BY <1>7 DEF OneFinalStatus
  <2>2. CASE codes = <<>>
    BY <1>1, <1>5, <2>2, EmptySeq DEF Status
  <2>3. CASE codes # <<>>
    <3>1. Len(codes) \in final
      BY <1>2, <2>1, <2>3
    <3>2. Min(final) = Len(codes)
      BY <1>4, <2>1, <3>1
    <3> QED BY <1>5, <2>3, <3>1, <3>2 DEF Status
  <2> QED BY <2>2, <2>3
<1> QED BY <1>3, <1>6, <1>7

-----------------------------------------------------------------------------
(* What every step owes to the requests it does not move.                  *)

(* The history grows, and only the entry of the request id may change, and *)
(* that not in who asked and when.                                         *)
HistoryKept(id) ==
  /\ DOMAIN told \subseteq DOMAIN told'
  /\ \A k \in DOMAIN told :
       /\ told'[k].client = told[k].client
       /\ told'[k].began = told[k].began
       /\ k # id => told'[k] = told[k]

LEMMA RecentKept ==
  ASSUME NEW id, HistoryKept(id), NEW fp, NEW k \in DOMAIN told, RecentFor(fp, k)
  PROVE  RecentFor(fp, k)'
<1>1. PICK j \in DOMAIN told :
        /\ fp = JA4H(told[j].client)
        /\ told[j].client.key = told[k].client.key
        /\ told[j].began \in told[k].began - JA4TTL .. told[k].began
  BY DEF RecentFor
<1>2. /\ j \in DOMAIN told' /\ told'[j].client = told[j].client
      /\ told'[j].began = told[j].began
      /\ told'[k].client = told[k].client /\ told'[k].began = told[k].began
  BY DEF HistoryKept
<1>3. \E i \in DOMAIN told' :
        /\ fp = JA4H(told'[i].client)
        /\ told'[i].client.key = told'[k].client.key
        /\ told'[i].began \in told'[k].began - JA4TTL .. told'[k].began
  BY <1>1, <1>2
<1> QED BY <1>3 DEF RecentFor, JA4H

LEMMA RowKept ==
  ASSUME NEW id, HistoryKept(id), NEW i \in DOMAIN rows, RowGood(i),
         rows'[i] = rows[i], rows[i].of # id, rows[i].of \notin lost'
  PROVE  RowGood(i)'
<1>1. rows[i].of \in DOMAIN told /\ RecentFor(rows[i].fp, rows[i].of)
  BY DEF RowGood
<1>2. told'[rows[i].of] = told[rows[i].of] /\ rows[i].of \in DOMAIN told'
  BY <1>1 DEF HistoryKept
<1>3. PICK fp, k : fp = rows[i].fp /\ k = rows[i].of
  OBVIOUS
<1>4. RecentFor(fp, k)'
  BY <1>1, <1>3, RecentKept
<1>5. RecentFor(rows[i].fp, rows[i].of)'
  BY <1>3, <1>4 DEF RecentFor
<1> QED BY <1>1, <1>2, <1>5 DEF RowGood

LEMMA UnderWayKept ==
  ASSUME NEW id, HistoryKept(id), NEW r \in Requests, UnderWay(r), req'[r] = req[r],
         req[r].step # "idle" =>
           /\ req[r].id \notin lost'
           /\ \A i \in DOMAIN rows' : rows'[i].of # req[r].id
           /\ \A s \in Requests \ {r} : req'[s].step # "idle" => req'[s].id # req[r].id
  PROVE  UnderWay(r)'
<1> SUFFICES ASSUME req[r].step # "idle" PROVE UnderWay(r)'
  BY DEF UnderWay
<1>1. PICK fp, k : fp = req[r].fp /\ k = req[r].id
  OBVIOUS
<1>2. k \in DOMAIN told /\ RecentFor(fp, k)
  BY <1>1 DEF UnderWay
<1>3. RecentFor(fp, k)'
  BY <1>2, RecentKept
<1>4. RecentFor(req[r].fp, req[r].id)'
  BY <1>1, <1>3 DEF RecentFor
<1>5. k \in DOMAIN told' /\ told'[k].began = told[k].began
  BY <1>2 DEF HistoryKept
<1> QED BY <1>1, <1>4, <1>5 DEF UnderWay

LEMMA NotedKept ==
  ASSUME NEW id, HistoryKept(id), NEW r \in Requests, UnderWay(r), Noted(r), req'[r] = req[r],
         req[r].step = "record" => req[r].id # id,
         lookup'[r].addr = lookup[r].addr, lookup'[r].began = lookup[r].began
  PROVE  Noted(r)'
BY DEF HistoryKept, UnderWay, Noted

CachedFor(k) ==
  ja4[k] # NotSet =>
    /\ ja4[k].at <= now
    /\ \E j \in DOMAIN told :
         /\ ja4[k].fp = JA4H(told[j].client)
         /\ told[j].client.key = k
         /\ told[j].began = ja4[k].at

LEMMA CachedByKey ==
  /\ CachedFingerprints <=> \A k \in Keys : CachedFor(k)
  /\ CachedFingerprints' <=> \A k \in Keys : CachedFor(k)'
BY DEF CachedFingerprints, CachedFor

LEMMA CachedKept ==
  ASSUME NEW id, HistoryKept(id), TypeOK, NEW k \in Keys, CachedFor(k), ja4'[k] = ja4[k],
         now' \in Nat, now <= now'
  PROVE  CachedFor(k)'
<1> SUFFICES ASSUME ja4[k] # NotSet
             PROVE  /\ ja4[k].at <= now'
                    /\ \E j \in DOMAIN told' :
                         /\ ja4[k].fp = JA4H(told'[j].client)
                         /\ told'[j].client.key = k
                         /\ told'[j].began = ja4[k].at
  BY DEF CachedFor, JA4H
<1>1. ja4[k].at <= now /\ ja4[k].at \in Nat /\ now \in Nat
  BY TrafficConstants DEF CachedFor, TypeOK
<1>2. PICK j \in DOMAIN told : /\ ja4[k].fp = JA4H(told[j].client)
                               /\ told[j].client.key = k
                               /\ told[j].began = ja4[k].at
  BY DEF CachedFor
<1>3. /\ j \in DOMAIN told' /\ told'[j].client = told[j].client
      /\ told'[j].began = told[j].began
  BY DEF HistoryKept
<1> QED BY <1>1, <1>2, <1>3

-----------------------------------------------------------------------------
(* What the invariant says, in the form in which the steps use it.         *)
LEMMA Facts ==
  ASSUME TrafficInv
  PROVE  /\ GeoInv
         /\ now \in Nat /\ now <= MaxTime
         /\ told \in Seq(Telling) /\ Len(told) \in Nat /\ DOMAIN told = 1 .. Len(told)
         /\ \A k \in DOMAIN told : told[k] \in Telling
         /\ rows \in Seq(Metric) /\ Len(rows) \in Nat /\ DOMAIN rows = 1 .. Len(rows)
         /\ \A i \in DOMAIN rows : RowGood(i) /\ rows[i].of \in DOMAIN told
         /\ \A k \in Keys : CachedFor(k)
         /\ \A r \in Requests : /\ req[r] \in Slot /\ lookup[r] \in Lookup
                                 /\ UnderWay(r) /\ Noted(r) /\ LookupGood(lookup[r])
<1>1. TypeOK /\ GeoInv
  BY DEF TrafficInv
<1>2. now \in Nat /\ now <= MaxTime
  BY <1>1, TrafficConstants DEF TypeOK
<1>3. /\ told \in Seq(Telling) /\ Len(told) \in Nat /\ DOMAIN told = 1 .. Len(told)
      /\ rows \in Seq(Metric) /\ Len(rows) \in Nat /\ DOMAIN rows = 1 .. Len(rows)
  BY <1>1, LenProperties DEF TypeOK
<1>4. \A k \in DOMAIN told : told[k] \in Telling
  BY <1>3, ElementOfSeq
<1>5. \A r \in Requests : req[r] \in Slot /\ lookup[r] \in Lookup /\ LookupGood(lookup[r])
  BY <1>1 DEF TypeOK, GeoInv, GeoTypeOK
<1>6. \A i \in DOMAIN rows : RowGood(i) /\ rows[i].of \in DOMAIN told
  BY DEF TrafficInv, RowGood
<1> QED BY <1>1, <1>2, <1>3, <1>4, <1>5, <1>6, CachedByKey DEF TrafficInv

LEMMA InvParts ==
  ASSUME TypeOK', GeoInv', \A k \in Keys : CachedFor(k)',
         \A r \in Requests : UnderWay(r)' /\ Noted(r)',
         \A i \in DOMAIN rows' : RowGood(i)', OneRowEach'
  PROVE  TrafficInv'
BY CachedByKey DEF TrafficInv

LEMMA GeoSame ==
  ASSUME GeoInv, UNCHANGED <<now, geo, lookup>>
  PROVE  GeoInv'
BY DEF GeoInv, GeoTypeOK, CacheGood, LookupGood

(* A step that leaves the requests, their rows and the history alone.      *)
LEMMA RequestsSame ==
  ASSUME TrafficInv, UNCHANGED <<ja4, req, rows, told, lost>>, GeoInv', TypeOK', now <= now',
         \A r \in Requests : /\ lookup'[r].addr = lookup[r].addr
                             /\ lookup'[r].began = lookup[r].began
  PROVE  TrafficInv'
<1>1. HistoryKept(NoId)
  BY DEF HistoryKept
<1>2. now' \in Nat
  BY TrafficConstants DEF TypeOK
<1>3. \A k \in Keys : CachedFor(k)'
  BY <1>1, <1>2, Facts, CachedKept DEF TrafficInv
<1>4. \A r \in Requests : UnderWay(r)'
  BY Facts DEF UnderWay, RecentFor, JA4H
<1>5. \A r \in Requests : Noted(r)'
  BY Facts DEF Noted, OneFinalStatus
<1>6. (\A i \in DOMAIN rows' : RowGood(i)') /\ OneRowEach'
  BY DEF TrafficInv, RowGood, RecentFor, JA4H, OneRowEach, OneFinalStatus
<1> QED BY <1>3, <1>4, <1>5, <1>6, InvParts

LEMMA GeoStepStep ==
  ASSUME TrafficInv, NEW r \in Requests, GeoStep(r), UNCHANGED <<now, trafficVars>>
  PROVE  TrafficInv'
<1>1. now \in Nat /\ GeoInv
  BY Facts
<1>2. /\ GeoInv'
      /\ \A s \in Requests : /\ lookup'[s].addr = lookup[s].addr
                             /\ lookup'[s].began = lookup[s].began
  BY <1>1, GeoStepKeeps
<1>3. TypeOK'
  BY <1>2 DEF GeoInv, TrafficInv, TypeOK, trafficVars
<1> QED BY <1>1, <1>2, <1>3, RequestsSame DEF trafficVars

LEMMA TickStep ==
  ASSUME TrafficInv, Tick
  PROVE  TrafficInv'
<1>1. now \in Nat /\ GeoInv /\ now' = now + 1 /\ UNCHANGED <<geo, lookup, trafficVars>>
  BY Facts DEF Tick
<1>2. GeoInv'
  BY <1>1, GeoTickKeeps DEF Tick, geoVars
<1>3. now' \in 0 .. MaxTime
  BY <1>1, TrafficConstants DEF Tick
<1>4. TypeOK'
  BY <1>1, <1>2, <1>3 DEF GeoInv, TrafficInv, TypeOK, trafficVars
<1> QED BY <1>1, <1>2, <1>4, RequestsSame DEF trafficVars

LEMMA ReportStep ==
  ASSUME TrafficInv, (\E range \in Ranges : BeginReport(range)) \/ Query \/ EndReport
  PROVE  TrafficInv'
<1>1. UNCHANGED <<now, geo, lookup, ja4, req, rows, told, lost>>
  BY DEF BeginReport, Query, EndReport
<1>2. GeoInv'
  BY <1>1, Facts, GeoSame
<1>3. /\ DOMAIN report' = {"step", "from", "to", "result", "seen"}
      /\ report'.step \in 0 .. Len(Columns) + 1
      /\ report'.seen \subseteq DOMAIN rows
  <2>0. /\ DOMAIN report = {"step", "from", "to", "result", "seen"}
        /\ report.step \in 0 .. Len(Columns) + 1
        /\ report.seen \subseteq DOMAIN rows
        /\ Len(Columns) = 5 /\ DOMAIN Columns = 1 .. 5
    BY DEF TrafficInv, TypeOK, Columns
  <2>1. CASE \E range \in Ranges : BeginReport(range)
    BY <2>0, <2>1 DEF BeginReport, InRange
  <2>2. CASE report' = NoReport
    BY <2>0, <2>2 DEF NoReport
  <2>3. ASSUME NEW x, report' = [report EXCEPT !.step = @ + 1, !.result = Append(@, x)],
               report.step \in DOMAIN Columns
        PROVE  /\ DOMAIN report' = {"step", "from", "to", "result", "seen"}
               /\ report'.step = report.step + 1
               /\ report'.seen = report.seen
    BY <2>0, <2>3
  <2>4. CASE report.step \in DOMAIN Columns /\
             \E x : report' = [report EXCEPT !.step = @ + 1, !.result = Append(@, x)]
    BY <2>0, <2>3, <2>4
  <2>5. CASE Query
    BY <2>2, <2>4, <2>5, Zenon DEF Query
  <2>6. CASE EndReport
    BY <2>2, <2>6, Zenon DEF EndReport
  <2> QED BY <2>1, <2>5, <2>6
<1>4. TypeOK'
  BY <1>1, <1>2, <1>3 DEF GeoInv, TrafficInv, TypeOK
<1> QED BY <1>1, <1>2, <1>4, Facts, RequestsSame

LEMMA IdleType == Idle \in Slot /\ Idle.step = "idle"
BY DEF Idle, Slot, NoId

LEMMA PanicStep ==
  ASSUME TrafficInv, NEW r \in Requests, Panic(r)
  PROVE  TrafficInv'
<1>1. /\ req' = [req EXCEPT ![r] = Idle]
      /\ UNCHANGED <<now, geo, lookup, ja4, rows, report, told, lost>>
  BY DEF Panic
<1>2. HistoryKept(NoId)
  BY <1>1 DEF HistoryKept
<1>3. req'[r] = Idle /\ \A s \in Requests \ {r} : req'[s] = req[s]
  BY <1>1 DEF TrafficInv, TypeOK
<1>4. GeoInv'
  BY <1>1, Facts, GeoSame
<1>5. TypeOK'
  BY <1>1, <1>4, IdleType DEF GeoInv, TrafficInv, TypeOK
<1>6. \A k \in Keys : CachedFor(k)'
  BY <1>1, <1>2, Facts, CachedKept DEF TrafficInv
<1>7. ASSUME NEW s \in Requests PROVE UnderWay(s)' /\ Noted(s)'
  <2>1. CASE s = r
    BY <1>3, <2>1, IdleType DEF UnderWay, Noted
  <2>2. CASE s # r
    <3>1. UnderWay(s)
      BY Facts
    <3>2. /\ req'[s] = req[s] /\ \A z \in Requests \ {s} : req'[z].step # "idle" => req'[z] = req[z]
      BY <1>3, <2>2, IdleType
    <3>3. UnderWay(s)'
      BY <1>1, <1>2, <3>1, <3>2, UnderWayKept DEF UnderWay
    <3>4. Noted(s)'
      BY <1>1, <3>2, Facts DEF Noted, OneFinalStatus
    <3> QED BY <3>3, <3>4
  <2> QED BY <2>1, <2>2
<1>8. (\A i \in DOMAIN rows' : RowGood(i)') /\ OneRowEach'
  BY <1>1 DEF TrafficInv, RowGood, RecentFor, JA4H, OneRowEach, OneFinalStatus
<1> QED BY <1>5, <1>4, <1>6, <1>7, <1>8, InvParts

LEMMA ArriveStep ==
  ASSUME TrafficInv, NEW c \in Clients, Arrive(c)
  PROVE  TrafficInv'
<1> DEFINE t == [client |-> c, began |-> now, ended |-> now, status |-> 0]
<1>0. /\ now \in Nat /\ told \in Seq(Telling) /\ Len(told) \in Nat
      /\ DOMAIN told = 1 .. Len(told) /\ Len(told) < MaxRequests /\ FreeSlots # {}
      /\ c.key \in Keys /\ t \in Telling
  BY Facts DEF Arrive, Keys, Telling
<1>20. PICK id \in Nat : id = Len(told) + 1
  BY <1>0
<1>21. PICK cached \in BOOLEAN, r \in Requests : \E fp, q :
        /\ fp = (IF cached THEN ja4[c.key].fp ELSE JA4H(c))
        /\ cached => FreshFingerprint(c.key)
        /\ ja4' = IF cached THEN ja4 ELSE [ja4 EXCEPT ![c.key] = [fp |-> fp, at |-> now]]
        /\ req' = [req EXCEPT ![r] = q]
        /\ q = [Idle EXCEPT !.step = "serving", !.id = Len(told) + 1, !.fp = fp, !.at = now]
  <2>1. (CHOOSE r \in FreeSlots : TRUE) \in Requests
    BY <1>0 DEF FreeSlots
  <2> QED BY <2>1 DEF Arrive
<1>1. PICK fp, q :
        /\ fp = (IF cached THEN ja4[c.key].fp ELSE JA4H(c))
        /\ cached => FreshFingerprint(c.key)
        /\ ja4' = IF cached THEN ja4 ELSE [ja4 EXCEPT ![c.key] = [fp |-> fp, at |-> now]]
        /\ req' = [req EXCEPT ![r] = q]
        /\ q = [Idle EXCEPT !.step = "serving", !.id = Len(told) + 1, !.fp = fp, !.at = now]
  BY <1>21
<1>2. told' = Append(told, t) /\ UNCHANGED <<now, geo, lookup, rows, report, lost>>
  BY DEF Arrive
<1>3. /\ q = [step |-> "serving", id |-> id, fp |-> fp, status |-> 0, at |-> now, ns |-> 0]
      /\ cached => FreshFingerprint(c.key) /\ fp = ja4[c.key].fp
      /\ ~cached => fp = JA4H(c) /\ ja4' = [ja4 EXCEPT ![c.key] = [fp |-> fp, at |-> now]]
      /\ cached => ja4' = ja4
      /\ req' = [req EXCEPT ![r] = q]
  BY <1>1, <1>20 DEF Idle
<1>4. t.client = c /\ t.began = now /\ id \notin DOMAIN told
  BY <1>0, <1>20
<1> HIDE DEF t
<1>5. /\ told' \in Seq(Telling) /\ Len(told') = id /\ DOMAIN told' = 1 .. id
      /\ told'[id] = t /\ \A k \in DOMAIN told : told'[k] = told[k]
  BY <1>0, <1>2, <1>20, AppendProperties, LenProperties
<1>6. HistoryKept(id)
  BY <1>0, <1>5, <1>20 DEF HistoryKept
<1>7. FreshFingerprint(c.key) =>
        \E j \in DOMAIN told : /\ ja4[c.key].fp = JA4H(told[j].client)
                             /\ told[j].client.key = c.key
                             /\ told[j].began \in now - JA4TTL .. now
                             /\ told[j] \in Telling
  <2> SUFFICES ASSUME FreshFingerprint(c.key)
               PROVE  \E j \in DOMAIN told :
                         /\ ja4[c.key].fp = JA4H(told[j].client)
                         /\ told[j].client.key = c.key
                         /\ told[j].began \in now - JA4TTL .. now
                         /\ told[j] \in Telling
    OBVIOUS
  <2>1. CachedFor(c.key) /\ ja4[c.key] # NotSet /\ now - ja4[c.key].at <= JA4TTL
    BY <1>0, Facts DEF FreshFingerprint
  <2>2. PICK j \in DOMAIN told : /\ ja4[c.key].fp = JA4H(told[j].client)
                                 /\ told[j].client.key = c.key
                                 /\ told[j].began = ja4[c.key].at
                                 /\ ja4[c.key].at <= now
    BY <2>1 DEF CachedFor
  <2>3. told[j] \in Telling /\ told[j].began \in Nat
    BY Facts DEF Telling
  <2>4. told[j].began \in now - JA4TTL .. now
    BY <1>0, <2>1, <2>2, <2>3, TrafficConstants
  <2> QED BY <2>2, <2>3, <2>4
<1>8. fp \in Fingerprints
  BY <1>3, <1>7 DEF Fingerprints, Telling
<1>9. RecentFor(fp, id)'
  <2>1. \E j \in DOMAIN told' :
          /\ fp = JA4H(told'[j].client)
          /\ told'[j].client.key = told'[id].client.key
          /\ told'[j].began \in told'[id].began - JA4TTL .. told'[id].began
    <3>1. CASE cached
      BY <1>0, <1>3, <1>4, <1>5, <1>7, <1>20, <3>1
    <3>2. CASE ~cached
      <4>1. id \in DOMAIN told' /\ now \in now - JA4TTL .. now
        BY <1>0, <1>5, <1>20, TrafficConstants
      <4> QED BY <1>3, <1>4, <1>5, <4>1, <3>2
    <3> QED BY <3>1, <3>2
  <2> QED BY <2>1, <1>5 DEF RecentFor, JA4H
<1>10. q \in Slot /\ q.step = "serving" /\ q.id = id /\ q.fp = fp /\ q.at = now
  BY <1>0, <1>3, <1>8 DEF Slot
<1>11. req'[r] = q /\ \A s \in Requests \ {r} : req'[s] = req[s]
  BY <1>3, <1>3 DEF TrafficInv, TypeOK
<1>12. \A k \in Keys : CachedFor(k)'
  <2> TAKE k \in Keys
  <2>1. CASE ja4'[k] = ja4[k]
    BY <1>0, <1>2, <1>6, <2>1, Facts, CachedKept DEF TrafficInv
  <2>2. CASE ja4'[k] # ja4[k]
    <3>1. k = c.key /\ ~cached /\ ja4'[k] = [fp |-> JA4H(c), at |-> now]
      BY <1>3, <2>2 DEF TrafficInv, TypeOK
    <3>2. /\ ja4'[k].at <= now'
          /\ \E j \in DOMAIN told' : /\ ja4'[k].fp = JA4H(told'[j].client)
                                     /\ told'[j].client.key = k
                                     /\ told'[j].began = ja4'[k].at
      BY <1>0, <1>2, <1>4, <1>5, <3>1
    <3> QED BY <3>2 DEF CachedFor, JA4H
  <2> QED BY <2>1, <2>2
<1>13. GeoInv'
  BY <1>2, Facts, GeoSame
<1>14. TypeOK'
  <2>1. ja4' \in [Keys -> {NotSet} \cup [fp : Fingerprints, at : 0 .. MaxTime]]
    <3>1. [fp |-> fp, at |-> now] \in [fp : Fingerprints, at : 0 .. MaxTime]
      BY <1>8 DEF TrafficInv, TypeOK
    <3> QED BY <1>0, <1>3, <3>1 DEF TrafficInv, TypeOK
  <2>2. req' \in [Requests -> Slot]
    BY <1>3, <1>10 DEF TrafficInv, TypeOK
  <2>3. Len(told') <= MaxRequests /\ DOMAIN told \subseteq DOMAIN told'
    BY <1>0, <1>5, <1>20, TrafficConstants
  <2> QED BY <1>2, <1>5, <1>13, <2>1, <2>2, <2>3 DEF GeoInv, TrafficInv, TypeOK
<1>15. \A i \in DOMAIN rows : rows[i].of # id
  BY <1>4, Facts
<1>16. id \notin lost /\ \A s \in Requests : req[s].step # "idle" => req[s].id # id
  BY <1>4, Facts DEF TrafficInv, TypeOK, UnderWay
<1>17. \A s \in Requests : UnderWay(s)' /\ Noted(s)'
  <2> TAKE s \in Requests
  <2>1. CASE s = r
    <3>1. RecentFor(q.fp, q.id)'
      BY <1>9, <1>10 DEF RecentFor
    <3>2. RecentFor(req[r].fp, req[r].id)'
      BY <3>1, <1>11 DEF RecentFor
    <3>3. id \in DOMAIN told'
      BY <1>0, <1>5, <1>20
    <3> QED BY <1>2, <1>4, <1>5, <1>10, <1>11, <1>15, <1>16, <2>1, <3>2, <3>3 DEF UnderWay, Noted
  <2>2. CASE s # r
    <3>1. UnderWay(s) /\ Noted(s) /\ req'[s] = req[s]
      BY <1>11, <2>2, Facts
    <3>2. req[s].step # "idle" =>
            /\ req[s].id \notin lost'
            /\ \A i \in DOMAIN rows' : rows'[i].of # req[s].id
            /\ \A z \in Requests \ {s} : req'[z].step # "idle" => req'[z].id # req[s].id
      BY <1>2, <1>10, <1>11, <1>16, <3>1 DEF UnderWay
    <3>3. UnderWay(s)'
      BY <1>6, <3>1, <3>2, UnderWayKept
    <3>4. Noted(s)'
      BY <1>2, <1>6, <1>16, <3>1, NotedKept
    <3> QED BY <3>3, <3>4
  <2> QED BY <2>1, <2>2
<1>18. \A i \in DOMAIN rows' : RowGood(i)'
  <2> TAKE i \in DOMAIN rows'
  <2>1. i \in DOMAIN rows /\ RowGood(i) /\ rows[i].of \notin lost' /\ rows'[i] = rows[i]
    BY <1>2, Facts DEF RowGood
  <2> QED BY <1>6, <1>15, <2>1, RowKept
<1>19. OneRowEach'
  BY <1>2 DEF TrafficInv, OneRowEach
<1> QED BY <1>12, <1>13, <1>14, <1>17, <1>18, <1>19, InvParts

LEMMA ServeStep ==
  ASSUME TrafficInv, NEW r \in Requests, NEW codes \in Answers, Serve(r, codes)
  PROVE  TrafficInv'
<1>0. /\ now \in Nat /\ req[r] \in Slot /\ req[r].step = "serving"
      /\ UnderWay(r) /\ told \in Seq(Telling) /\ told \in [1 .. Len(told) -> Telling]
      /\ DOMAIN told = 1 .. Len(told)
      /\ UNCHANGED <<now, ja4, rows, report, lost>>
  BY Facts, LenProperties DEF Serve
<1>1. PICK id : id = req[r].id
  OBVIOUS
<1>2. id \in DOMAIN told /\ told[id] \in Telling
  BY <1>0, <1>1, Facts DEF UnderWay
<1>3. PICK t : t = [told[id] EXCEPT !.ended = now, !.status = Sent(codes)]
  OBVIOUS
<1>4. /\ t \in Telling /\ t.client = told[id].client /\ t.began = told[id].began
      /\ t.ended = now /\ t.status = Sent(codes)
  BY <1>0, <1>2, <1>3, Statuses DEF Telling
<1>5. told' = [told EXCEPT ![id] = t]
  BY <1>0, <1>1, <1>2, <1>3 DEF Serve, Telling
<1>6. /\ told' \in Seq(Telling) /\ Len(told') = Len(told) /\ DOMAIN told' = DOMAIN told
      /\ told'[id] = t /\ \A k \in DOMAIN told : k # id => told'[k] = told[k]
  BY <1>0, <1>2, <1>4, <1>5, ExceptSeq
<1>7. HistoryKept(id)
  BY <1>2, <1>4, <1>6 DEF HistoryKept
<1>8. PICK q : q = [req[r] EXCEPT !.step = "record", !.status = Status(codes),
                                  !.ns = now - req[r].at]
  OBVIOUS
<1>9. /\ q \in Slot /\ q.step = "record" /\ q.id = id /\ q.fp = req[r].fp /\ q.at = req[r].at
      /\ q.status = Status(codes) /\ q.ns = now - req[r].at
  <2>1. Status(codes) \in Nat /\ now - req[r].at \in Int
    BY <1>0, Statuses DEF Slot
  <2> QED BY <1>0, <1>1, <1>8, <2>1 DEF Slot
<1>10. req' = [req EXCEPT ![r] = q]
  BY <1>8 DEF Serve
<1>11. req'[r] = q /\ \A s \in Requests \ {r} : req'[s] = req[s]
  BY <1>10 DEF TrafficInv, TypeOK
<1>12. /\ GeoInv' /\ lookup'[r].addr = t.client.addr /\ lookup'[r].began = now
       /\ \A s \in Requests \ {r} : lookup'[s] = lookup[s]
  <2>1. PICK a : a = told[id].client.addr
    OBVIOUS
  <2>2. a \in Addresses /\ GetGeoData(r, a) /\ GeoInv
    BY <1>1, <1>2, <2>1, Facts, TrafficConstants DEF Serve, Telling
  <2>3. /\ GeoInv' /\ lookup'[r].addr = a /\ lookup'[r].began = now
        /\ \A s \in Requests \ {r} : lookup'[s] = lookup[s]
    BY <1>0, <2>2, GetGeoDataKeeps
  <2> QED BY <1>4, <2>1, <2>3
<1>13. TypeOK'
  <2>1. req' \in [Requests -> Slot]
    BY <1>9, <1>10 DEF TrafficInv, TypeOK
  <2> QED BY <1>0, <1>6, <1>12, <2>1 DEF GeoInv, TrafficInv, TypeOK
<1>14. \A k \in Keys : CachedFor(k)'
  BY <1>0, <1>7, Facts, CachedKept DEF TrafficInv
<1>15. /\ id \notin lost
       /\ \A i \in DOMAIN rows : rows[i].of # id
       /\ \A s \in Requests \ {r} : req[s].step # "idle" => req[s].id # id
  BY <1>0, <1>1 DEF UnderWay
<1>16. ASSUME NEW s \in Requests PROVE UnderWay(s)' /\ Noted(s)'
  <2>1. CASE s = r
    <3>1. PICK fp : fp = req[r].fp
      OBVIOUS
    <3>2. RecentFor(fp, id)'
      BY <1>0, <1>1, <1>2, <1>7, <3>1, RecentKept DEF UnderWay
    <3>3. RecentFor(req[r].fp, req[r].id)'
      BY <1>9, <1>11, <3>1, <3>2 DEF RecentFor
    <3>4. UnderWay(r)'
      BY <1>0, <1>1, <1>2, <1>4, <1>6, <1>9, <1>11, <1>15, <3>3 DEF UnderWay
    <3>5. Noted(r)'
      <4>1. OneFinalStatus => Status(codes) = Sent(codes)
        BY Statuses
      <4>2. q.at + q.ns = now
        BY <1>0, <1>9 DEF Slot
      <4> QED BY <1>0, <1>4, <1>6, <1>9, <1>11, <1>12, <4>1, <4>2 DEF Noted, OneFinalStatus
    <3> QED BY <2>1, <3>4, <3>5
  <2>2. CASE s # r
    <3>1. UnderWay(s) /\ Noted(s) /\ req'[s] = req[s] /\ lookup'[s] = lookup[s]
      BY <1>11, <1>12, <2>2, Facts
    <3>2. req[s].step # "idle" =>
            /\ req[s].id \notin lost'
            /\ \A i \in DOMAIN rows' : rows'[i].of # req[s].id
            /\ \A z \in Requests \ {s} : req'[z].step # "idle" => req'[z].id # req[s].id
      BY <1>0, <1>1, <1>9, <1>11, <3>1 DEF UnderWay
    <3>3. UnderWay(s)'
      BY <1>7, <3>1, <3>2, UnderWayKept
    <3>4. Noted(s)'
      BY <1>7, <1>15, <2>2, <3>1, NotedKept
    <3> QED BY <3>3, <3>4
  <2> QED BY <2>1, <2>2
<1>17. \A i \in DOMAIN rows' : RowGood(i)'
  <2> TAKE i \in DOMAIN rows'
  <2>1. i \in DOMAIN rows /\ RowGood(i) /\ rows[i].of \notin lost' /\ rows'[i] = rows[i]
    BY <1>0, Facts DEF RowGood
  <2> QED BY <1>7, <1>15, <2>1, RowKept
<1>18. OneRowEach'
  BY <1>0 DEF TrafficInv, OneRowEach
<1> QED BY <1>12, <1>13, <1>14, <1>16, <1>17, <1>18, InvParts

LEMMA CreateStep ==
  ASSUME TrafficInv, NEW r \in Requests, Create(r)
  PROVE  TrafficInv'
<1>0. /\ now \in Nat /\ req[r] \in Slot /\ req[r].step = "record"
      /\ lookup[r] \in Lookup /\ LookupGood(lookup[r])
      /\ UnderWay(r) /\ Noted(r) /\ rows \in Seq(Metric)
      /\ DOMAIN rows = 1 .. Len(rows) /\ Len(rows) \in Nat
      /\ UNCHANGED <<now, geo, ja4, report, told>>
      /\ req' = [req EXCEPT ![r] = Idle] /\ lookup' = [lookup EXCEPT ![r] = NoLookup]
  BY Facts DEF Create
<1>1. PICK id, row : id = req[r].id /\ row = Record(r)
  OBVIOUS
<1>2. /\ id \in DOMAIN told /\ told[id] \in Telling /\ id \notin lost
      /\ \A i \in DOMAIN rows : rows[i].of # id
      /\ \A s \in Requests \ {r} : req[s].step # "idle" => req[s].id # id
  BY <1>0, <1>1, Facts DEF UnderWay
<1>3. HistoryKept(NoId)
  BY <1>0 DEF HistoryKept
<1>4. /\ req'[r] = Idle /\ \A s \in Requests \ {r} : req'[s] = req[s]
      /\ \A s \in Requests \ {r} : lookup'[s] = lookup[s]
  BY <1>0 DEF TrafficInv, TypeOK, GeoTypeOK
<1>5. /\ row.of = id /\ row.at = req[r].at /\ row.ns = req[r].ns /\ row.status = req[r].status
      /\ row.user = told[id].client.user /\ row.place = Location(r) /\ row.fp = req[r].fp
      /\ row = [of |-> row.of, at |-> row.at, ns |-> row.ns, status |-> row.status,
                user |-> row.user, place |-> row.place, fp |-> row.fp]
  BY <1>1 DEF Record
<1>6. /\ row.place # Nowhere => lookup[r].result # Nowhere /\ row.place = lookup[r].result.data
      /\ row.place \in Answer \cup {Nowhere}
  BY <1>0, <1>5 DEF Location, Lookup, Entry
<1>7. row \in Metric
  <2>1. /\ row.of \in Nat /\ row.at \in Nat /\ row.ns \in Int /\ row.status \in Nat
        /\ row.fp \in Fingerprints \cup {NotSet}
    BY <1>0, <1>1, <1>5 DEF Slot
  <2>2. row.user \in DOMAIN Usernames \cup {NoUserId}
    BY <1>2, <1>5, TrafficConstants DEF Telling
  <2>3. PICK of, at, ns, status, user, place, fp :
          /\ of = row.of /\ at = row.at /\ ns = row.ns /\ status = row.status
          /\ user = row.user /\ place = row.place /\ fp = row.fp
    OBVIOUS
  <2>4. row = [of |-> of, at |-> at, ns |-> ns, status |-> status, user |-> user,
               place |-> place, fp |-> fp]
    BY <1>5, <2>3
  <2> QED BY <1>6, <2>1, <2>2, <2>3, <2>4 DEF Metric
<1>8. \/ rows' = Append(rows, row) /\ lost' = lost
      \/ rows' = rows /\ lost' = lost \cup {id}
  BY <1>1 DEF Create
<1>9. /\ rows' \in Seq(Metric) /\ DOMAIN rows \subseteq DOMAIN rows'
      /\ \A i \in DOMAIN rows : rows'[i] = rows[i]
      /\ \A i \in DOMAIN rows' \ DOMAIN rows : rows'[i] = row /\ i = Len(rows) + 1 /\ lost' = lost
  <2>1. CASE rows' = rows
    BY <1>0, <2>1
  <2>2. CASE rows' = Append(rows, row) /\ lost' = lost
    BY <1>0, <1>7, <2>2, AppendProperties, LenProperties
  <2> QED BY <1>8, <2>1, <2>2
<1>10. lost \subseteq lost' /\ lost' \subseteq lost \cup {id} /\ (lost' = lost \/ rows' = rows)
  BY <1>8
<1>11. GeoInv'
  BY <1>0, NoLookupType, Facts, OneLookupMoves DEF LookupGood, GeoInv, GeoTypeOK, CacheGood
<1>12. TypeOK'
  <2>1. req' \in [Requests -> Slot]
    BY <1>0, IdleType DEF TrafficInv, TypeOK
  <2>2. lost' \subseteq DOMAIN told'
    BY <1>0, <1>2, <1>10 DEF TrafficInv, TypeOK
  <2>3. report'.seen \subseteq DOMAIN rows'
    BY <1>0, <1>9 DEF TrafficInv, TypeOK
  <2> QED BY <1>0, <1>9, <1>11, <2>1, <2>2, <2>3 DEF GeoInv, TrafficInv, TypeOK
<1>13. \A k \in Keys : CachedFor(k)'
  BY <1>0, <1>3, Facts, CachedKept DEF TrafficInv
<1>14. ASSUME NEW s \in Requests PROVE UnderWay(s)' /\ Noted(s)'
  <2>1. CASE s = r
    BY <1>4, <2>1, IdleType DEF UnderWay, Noted
  <2>2. CASE s # r
    <3>1. UnderWay(s) /\ Noted(s) /\ req'[s] = req[s] /\ lookup'[s] = lookup[s]
      BY <1>4, <2>2, Facts
    <3>2. \A z \in Requests \ {s} : req'[z].step # "idle" => req'[z] = req[z]
      BY <1>4, <2>2, IdleType
    <3>3. req[s].step # "idle" =>
            /\ req[s].id \notin lost'
            /\ \A i \in DOMAIN rows' : rows'[i].of # req[s].id
            /\ \A z \in Requests \ {s} : req'[z].step # "idle" => req'[z].id # req[s].id
      <4> SUFFICES ASSUME req[s].step # "idle"
                   PROVE  /\ req[s].id \notin lost'
                          /\ \A i \in DOMAIN rows' : rows'[i].of # req[s].id
                          /\ \A z \in Requests \ {s} :
                               req'[z].step # "idle" => req'[z].id # req[s].id
        OBVIOUS
      <4>1. req[s].id # id
        BY <1>2, <2>2
      <4>2. req[s].id \notin lost'
        BY <1>10, <3>1, <4>1 DEF UnderWay
      <4>3. \A i \in DOMAIN rows' : rows'[i].of # req[s].id
        BY <1>5, <1>9, <3>1, <4>1 DEF UnderWay
      <4> QED BY <3>1, <3>2, <4>2, <4>3 DEF UnderWay
    <3>4. UnderWay(s)'
      BY <1>3, <3>1, <3>3, UnderWayKept
    <3>5. Noted(s)'
      BY <1>0, <3>1 DEF Noted, OneFinalStatus
    <3> QED BY <3>4, <3>5
  <2> QED BY <2>1, <2>2
<1>15. ASSUME NEW i \in DOMAIN rows' PROVE RowGood(i)'
  <2>1. CASE i \in DOMAIN rows
    <3>1. RowGood(i) /\ rows'[i] = rows[i] /\ rows[i].of # id /\ rows[i].of \in DOMAIN told
      BY <1>2, <1>9, <2>1, Facts
    <3>2. rows[i].of \notin lost' /\ HistoryKept(id)
      BY <1>0, <1>10, <3>1 DEF RowGood, HistoryKept
    <3> QED BY <2>1, <3>1, <3>2, RowKept
  <2>2. CASE i \notin DOMAIN rows
    <3>1. rows'[i] = row /\ lost' = lost /\ told' = told
      BY <1>0, <1>9, <2>2
    <3>2. RecentFor(row.fp, row.of)
      BY <1>0, <1>1, <1>5 DEF UnderWay
    <3>3. RecentFor(rows[i].fp, rows[i].of)'
      BY <3>1, <3>2 DEF RecentFor, JA4H
    <3>4. /\ OneFinalStatus => row.status = told[id].status
          /\ row.at = told[id].began /\ row.at + row.ns = told[id].ended
      BY <1>0, <1>1, <1>5 DEF UnderWay, Noted
    <3>5. row.place # Nowhere =>
            /\ told[id].client.addr \notin Loopback
            /\ row.place.addr = told[id].client.addr
            /\ told[id].ended - row.place.said < GeoTTL + GeoTimeout
      BY <1>0, <1>1, <1>6 DEF Noted, LookupGood
    <3> QED BY <1>2, <1>5, <3>1, <3>3, <3>4, <3>5 DEF RowGood, OneFinalStatus
  <2> QED BY <2>1, <2>2
<1>16. OneRowEach'
  <2> SUFFICES ASSUME NEW i \in DOMAIN rows', NEW j \in DOMAIN rows',
                      rows'[i].of = rows'[j].of
               PROVE  i = j
    BY DEF OneRowEach
  <2>1. CASE i \in DOMAIN rows /\ j \in DOMAIN rows
    BY <1>9, <2>1 DEF TrafficInv, OneRowEach
  <2>2. CASE i \notin DOMAIN rows \/ j \notin DOMAIN rows
    BY <1>2, <1>5, <1>9, <2>2
  <2> QED BY <2>1, <2>2
<1> QED BY <1>11, <1>12, <1>13, <1>14, <1>15, <1>16, InvParts

LEMMA RestartStep ==
  ASSUME TrafficInv, Restart
  PROVE  TrafficInv'
<1>1. /\ lost' = lost \cup {req[r].id : r \in {r \in Requests : req[r].step # "idle"}}
      /\ req' = [r \in Requests |-> Idle] /\ ja4' = [k \in Keys |-> NotSet]
      /\ lookup' = [r \in Requests |-> NoLookup] /\ geo' = [a \in Addresses |-> NotCached]
      /\ report' = NoReport /\ UNCHANGED <<now, rows, told>>
  BY DEF Restart
<1>2. HistoryKept(NoId)
  BY <1>1 DEF HistoryKept
<1>3. GeoInv'
  BY <1>1, NoLookupType DEF GeoInv, GeoTypeOK, CacheGood, LookupGood
<1>4. TypeOK'
  <2>1. lost' \subseteq DOMAIN told'
    BY <1>1, Facts DEF TrafficInv, TypeOK, UnderWay
  <2>2. /\ DOMAIN report' = {"step", "from", "to", "result", "seen"}
        /\ report'.step \in 0 .. Len(Columns) + 1
        /\ report'.seen \subseteq DOMAIN rows
    BY <1>1 DEF NoReport, Columns
  <2>3. req' \in [Requests -> Slot]
    BY <1>1, IdleType
  <2> QED BY <1>1, <1>3, <2>1, <2>2, <2>3 DEF GeoInv, TrafficInv, TypeOK
<1>5. \A k \in Keys : CachedFor(k)'
  BY <1>1 DEF CachedFor
<1>6. \A r \in Requests : UnderWay(r)' /\ Noted(r)'
  BY <1>1, IdleType DEF UnderWay, Noted
<1>7. ASSUME NEW i \in DOMAIN rows' PROVE RowGood(i)'
  <2>1. i \in DOMAIN rows /\ rows'[i] = rows[i] /\ RowGood(i)
    BY <1>1, Facts
  <2>2. ASSUME NEW r \in Requests, req[r].step # "idle" PROVE rows[i].of # req[r].id
    BY <2>1, <2>2, Facts DEF UnderWay
  <2>3. rows[i].of \notin lost'
    BY <1>1, <2>1, <2>2 DEF RowGood
  <2>4. rows[i].of # NoId
    BY <2>1, Facts DEF NoId
  <2> QED BY <1>2, <2>1, <2>3, <2>4, RowKept
<1>8. OneRowEach'
  BY <1>1 DEF TrafficInv, OneRowEach
<1> QED BY <1>3, <1>4, <1>5, <1>6, <1>7, <1>8, InvParts

LEMMA InvInit == Init => TrafficInv
<1> SUFFICES ASSUME Init PROVE TrafficInv
  OBVIOUS
<1>1. /\ now = 0 /\ ja4 = [k \in Keys |-> NotSet] /\ req = [r \in Requests |-> Idle]
      /\ rows = <<>> /\ report = NoReport /\ told = <<>> /\ lost = {}
  BY DEF Init
<1>2. GeoInv
  BY GeoInvInit DEF Init
<1>3. /\ told \in Seq(Telling) /\ rows \in Seq(Metric) /\ Len(told) = 0
      /\ DOMAIN rows = {} /\ DOMAIN told = {}
  BY <1>1, EmptySeq
<1>4. /\ DOMAIN report = {"step", "from", "to", "result", "seen"}
      /\ report.step \in 0 .. Len(Columns) + 1
      /\ report.seen \subseteq DOMAIN rows
  BY <1>1 DEF NoReport, Columns
<1>5. now \in 0 .. MaxTime /\ Len(told) <= MaxRequests
  BY <1>1, <1>3, TrafficConstants
<1>6. req \in [Requests -> Slot]
  BY <1>1, IdleType
<1>7. TypeOK
  BY <1>1, <1>2, <1>3, <1>4, <1>5, <1>6 DEF GeoInv, TypeOK
<1>8. CachedFingerprints /\ \A r \in Requests : UnderWay(r) /\ Noted(r)
  BY <1>1, IdleType DEF CachedFingerprints, UnderWay, Noted
<1>9. (\A i \in DOMAIN rows : RowGood(i)) /\ OneRowEach
  BY <1>3 DEF OneRowEach
<1> QED BY <1>2, <1>7, <1>8, <1>9 DEF TrafficInv

LEMMA InvNext ==
  ASSUME TrafficInv, [Next]_vars
  PROVE  TrafficInv'
<1>1. ASSUME NEW r \in Requests, Handle(r) PROVE TrafficInv'
  BY <1>1, ServeStep, PanicStep, GeoStepStep, CreateStep DEF Handle
<1>2. CASE UNCHANGED vars
  <2>1. GeoInv'
    BY <1>2, Facts, GeoSame DEF vars
  <2>2. TypeOK'
    BY <1>2, <2>1 DEF vars, trafficVars, GeoInv, TrafficInv, TypeOK
  <2>3. now <= now'
    BY <1>2, Facts DEF vars
  <2> QED BY <1>2, <2>1, <2>2, <2>3, RequestsSame DEF vars, trafficVars
<1> QED BY <1>1, <1>2, ArriveStep, ReportStep, TickStep, RestartStep DEF Next

LEMMA InvCorrect == Spec => []TrafficInv
<1>1. Spec => Init /\ [][Next]_vars
  BY PTL DEF Spec
<1> QED BY <1>1, InvInit, InvNext, PTL

-----------------------------------------------------------------------------
(* The variables keep their types; in particular, what the geolocation     *)
(* cache holds is an answer of the service, and never that it failed.      *)
THEOREM TypeCorrect == Spec => []TypeOK
<1>1. TrafficInv => TypeOK
  BY DEF TrafficInv
<1> QED BY <1>1, InvCorrect, PTL

(* A request has at most one row, which says of it what its client saw: if *)
(* every handler sends one final status, and that last, the row has the    *)
(* status that went over the wire.                                         *)
THEOREM RowsTrue ==
  ASSUME OneFinalStatus
  PROVE  Spec => []RowsTellTheTruth
<1>1. TrafficInv => RowsTellTheTruth
  BY DEF TrafficInv, RowGood, OneRowEach, RowsTellTheTruth
<1> QED BY <1>1, InvCorrect, PTL

(* The location in a row is the service's answer for the client's address, *)
(* and at most the lifetime of an entry and one timeout old, whichever     *)
(* lookups, failures and restarts came between.                            *)
THEOREM LocationsFresh == Spec => []LocationsAreFresh
<1>1. TrafficInv => LocationsAreFresh
  BY DEF TrafficInv, RowGood, LocationsAreFresh, Client
<1> QED BY <1>1, InvCorrect, PTL

(* The fingerprint in a row belongs to a request with the same cache key   *)
(* that began at most the lifetime of a cached fingerprint before.         *)
THEOREM FingerprintsRecent == Spec => []FingerprintsAreRecent
<1>1. TrafficInv => FingerprintsAreRecent
  BY DEF TrafficInv, RowGood, RecentFor, FingerprintsAreRecent, Client
<1> QED BY <1>1, InvCorrect, PTL

-----------------------------------------------------------------------------
(* Reports of the statistics.                                              *)

(* x has the numbers of the members of S with the same key.                *)
CountsBy(x, key, S) ==
  /\ DOMAIN x = {key[i] : i \in S}
  /\ \A c \in DOMAIN x : x[c] = Cardinality({i \in S : key[i] = c})

(* x counts rows of S, and leaves out those of H at most.                  *)
Covered(x, key, H, S) == \E U \in SUBSET S : S \ H \subseteq U /\ CountsBy(x, key, U)

(* The counts by key add up to what is counted.                            *)
LEMMA TalliesCount ==
  ASSUME NEW S, IsFiniteSet(S), NEW key, NEW x, CountsBy(x, key, S)
  PROVE  Cardinality(Tallies(x)) = Cardinality(S)
<1> DEFINE K == {key[i] : i \in S}
           class(k) == {i \in S : key[i] = k}
           b == [k \in K |-> CHOOSE f : f \in Bijection(1 .. Cardinality(class(k)), class(k))]
           T == Tallies(x)
           F == [p \in T |-> b[p[1]][p[2]]]
<1> USE DEF CountsBy
<1>1. ASSUME NEW k \in K PROVE b[k] \in Bijection(1 .. x[k], class(k))
  <2>1. IsFiniteSet(class(k))
    BY FS_Subset
  <2>2. ExistsBijection(1 .. Cardinality(class(k)), class(k))
    <3> HIDE DEF class
    <3> QED BY <2>1, FS_CardinalityType
  <2>3. x[k] = Cardinality(class(k))
    OBVIOUS
  <2> HIDE DEF class
  <2> QED BY <2>2, <2>3 DEF ExistsBijection
<1>2. DOMAIN x = K
  OBVIOUS
<1>3. \A p : p \in T <=> \E k \in K : \E n \in 1 .. x[k] : p = <<k, n>>
  BY <1>2 DEF Tallies
<1> HIDE DEF T, b
<1>4. ASSUME NEW k \in K, NEW n \in 1 .. x[k]
      PROVE  <<k, n>> \in T /\ F[<<k, n>>] = b[k][n] /\ b[k][n] \in S /\ key[b[k][n]] = k
  <2>1. <<k, n>> \in T
    BY <1>3
  <2>2. b[k][n] \in class(k)
    BY <1>1 DEF Bijection, Injection
  <2> QED BY <2>1, <2>2
<1>5. F \in [T -> S]
  <2>1. ASSUME NEW p \in T PROVE F[p] \in S
    <3>1. PICK k \in K : \E n \in 1 .. x[k] : p = <<k, n>>
      BY <1>3
    <3>2. PICK n \in 1 .. x[k] : p = <<k, n>>
      BY <3>1
    <3> HIDE DEF F
    <3> QED BY <1>4, <3>2
  <2> QED BY <2>1 DEF F
<1> HIDE DEF F
<1>6. ASSUME NEW p \in T, NEW q \in T, F[p] = F[q] PROVE p = q
  <2>1. PICK k \in K : \E n \in 1 .. x[k] : p = <<k, n>>
    BY <1>3
  <2>0. PICK n \in 1 .. x[k] : p = <<k, n>>
    BY <2>1
  <2>2. PICK l \in K : \E m \in 1 .. x[l] : q = <<l, m>>
    BY <1>3
  <2>5. PICK m \in 1 .. x[l] : q = <<l, m>>
    BY <2>2
  <2>3. k = l /\ b[k][n] = b[k][m]
    BY <1>4, <1>6, <2>0, <2>5
  <2>4. n = m
    <3>1. b[k] \in [1 .. x[k] -> class(k)] /\ IsInjective(b[k])
      BY <1>1 DEF Bijection, Injection
    <3> HIDE DEF class
    <3> QED BY <2>3, <3>1 DEF IsInjective
  <2> QED BY <2>0, <2>5, <2>3, <2>4
<1>7. ASSUME NEW i \in S PROVE \E p \in T : F[p] = i
  <2>1. key[i] \in K /\ i \in class(key[i])
    OBVIOUS
  <2>2. PICK n \in 1 .. x[key[i]] : b[key[i]][n] = i
    <3> DEFINE k == key[i]
    <3>1. b[k] \in Surjection(1 .. x[k], class(k))
      BY <1>1, <2>1 DEF Bijection
    <3> QED BY <2>1, <3>1 DEF Surjection
  <2>3. <<key[i], n>> \in T /\ F[<<key[i], n>>] = b[key[i]][n]
    BY <1>4, <2>1
  <2> QED BY <2>2, <2>3
<1>8. F \in Bijection(T, S)
  BY <1>5, <1>6, <1>7 DEF Bijection, Injection, Surjection, IsInjective
<1>9. ExistsBijection(S, T)
  BY <1>8, Fun_ExistsBijSymmetric DEF ExistsBijection
<1> QED BY <1>9, FS_Bijection DEF T

(* A column leaves out rows of H at most.                                  *)
LEMMA ColumnCounts ==
  ASSUME NEW S, IsFiniteSet(S), NEW H, NEW U \in SUBSET S, S \ H \subseteq U, NEW key, NEW x,
         CountsBy(x, key, U)
  PROVE  /\ Cardinality(Tallies(x)) \in Nat
         /\ Cardinality(S \ H) <= Cardinality(Tallies(x))
         /\ Cardinality(Tallies(x)) <= Cardinality(S)
<1>1. IsFiniteSet(U) /\ Cardinality(U) <= Cardinality(S)
  BY FS_Subset
<1>2. Cardinality(S \ H) <= Cardinality(U)
  BY <1>1, FS_Subset
<1>3. Cardinality(Tallies(x)) = Cardinality(U)
  BY <1>1, TalliesCount
<1> QED BY <1>1, <1>2, <1>3, FS_CardinalityType

LEMMA StatusesAddUp ==
  ASSUME NEW S, IsFiniteSet(S)
  PROVE  LET x == GetRequestCountByStatus(S) IN
         /\ Cardinality(Tallies(x)) \in Nat
         /\ Cardinality(S) <= Cardinality(Tallies(x))
         /\ Cardinality(Tallies(x)) <= Cardinality(S)
<1> DEFINE x == GetRequestCountByStatus(S)
           key == [i \in S |-> rows[i].status]
<1>1. DOMAIN x = {key[i] : i \in S}
  BY DEF GetRequestCountByStatus, Count
<1>2. \A c \in DOMAIN x : x[c] = Cardinality({i \in S : key[i] = c})
  <2>1. ASSUME NEW c PROVE {i \in S : key[i] = c} = {i \in S : rows[i].status = c}
    OBVIOUS
  <2> QED BY <2>1 DEF GetRequestCountByStatus, Count
<1> HIDE DEF x, key
<1>5. CountsBy(x, key, S)
  BY <1>1, <1>2 DEF CountsBy
<1>3. S \ {} = S
  OBVIOUS
<1>4. /\ Cardinality(Tallies(x)) \in Nat
      /\ Cardinality(S \ {}) <= Cardinality(Tallies(x))
      /\ Cardinality(Tallies(x)) <= Cardinality(S)
  BY <1>5, ColumnCounts
<1> QED BY <1>3, <1>4 DEF x

LEMMA CountriesAddUp ==
  ASSUME NEW S \in SUBSET DOMAIN rows, IsFiniteSet(S)
  PROVE  LET x == SkipBlank(GetRequestCountByCountry(S)) IN
         /\ Cardinality(Tallies(x)) \in Nat
         /\ Cardinality(S \ {i \in DOMAIN rows : CountryOf(i) = Blank}) <= Cardinality(Tallies(x))
         /\ Cardinality(Tallies(x)) <= Cardinality(S)
<1> DEFINE x == SkipBlank(GetRequestCountByCountry(S))
           key == [i \in S |-> CountryOf(i)]
           H == {i \in DOMAIN rows : CountryOf(i) = Blank}
           U == {i \in S : key[i] # Blank}
<1>1. DOMAIN x = {key[i] : i \in U}
  BY DEF GetRequestCountByCountry, Count, SkipBlank
<1>2. ASSUME NEW c \in DOMAIN x PROVE x[c] = Cardinality({i \in U : key[i] = c})
  <2>1. c # Blank
    BY <1>1
  <2>2. {i \in U : key[i] = c} = {i \in S : CountryOf(i) = c}
    BY <2>1
  <2>3. x[c] = Cardinality({i \in S : CountryOf(i) = c})
    BY DEF GetRequestCountByCountry, Count, SkipBlank
  <2> QED BY <2>2, <2>3
<1>5. CountsBy(x, key, U)
  BY <1>1, <1>2 DEF CountsBy
<1>3. U \in SUBSET S /\ S \ H \subseteq U
  OBVIOUS
<1> HIDE DEF x, key, U, H
<1>4. /\ Cardinality(Tallies(x)) \in Nat
      /\ Cardinality(S \ H) <= Cardinality(Tallies(x))
      /\ Cardinality(Tallies(x)) <= Cardinality(S)
  BY <1>3, <1>5, ColumnCounts
<1> QED BY <1>4 DEF x, H

(* Whichever group called guest comes last stays, and is counted.          *)
LEMMA UsersAddUp ==
  ASSUME NEW S \in SUBSET DOMAIN rows, IsFiniteSet(S), NEW m \in GetRequestCountByUser(S)
  PROVE  LET x == SkipBlank(m) IN
         /\ Cardinality(Tallies(x)) \in Nat
         /\ Cardinality(S \ Hidden("user")) <= Cardinality(Tallies(x))
         /\ Cardinality(Tallies(x)) <= Cardinality(S)
<1> DEFINE named == {i \in S : HasUser(i)}
           name(i) == Usernames[rows[i].user]
           users == [k \in {name(i) : i \in named} |-> Cardinality({i \in named : name(i) = k})]
           others == S \ named
           guests == [k \in {Guest : i \in others} |-> Cardinality({i \in others : Guest = k})]
           key == [i \in S |-> IF HasUser(i) THEN name(i) ELSE Guest]
           H == Hidden("user")
           x == SkipBlank(m)
<1>1. m = Over(users, guests) \/ m = Over(guests, users)
  BY DEF GetRequestCountByUser, Count
<1>2. H = Named(Blank) \cup
            IF Named(Guest) = {} THEN {} ELSE Named(Guest) \cup {i \in DOMAIN rows : ~HasUser(i)}
  BY DEF Hidden
<1>3. Guest # Blank
  BY TrafficConstants
<1>4. /\ DOMAIN users = {name(i) : i \in named}
      /\ DOMAIN guests = {Guest : i \in others}
      /\ \A c \in DOMAIN users : users[c] = Cardinality({i \in named : name(i) = c})
      /\ \A c \in DOMAIN guests : guests[c] = Cardinality(others)
  <2>1. ASSUME NEW c \in DOMAIN guests PROVE guests[c] = Cardinality(others)
    <3>1. c = Guest
      OBVIOUS
    <3>2. {i \in others : Guest = c} = others
      BY <3>1
    <3> QED BY <3>2
  <2> QED BY <2>1
<1> HIDE DEF users, guests
<1>8. DOMAIN x = DOMAIN m \ {Blank} /\ \A c \in DOMAIN x : x[c] = m[c]
  BY DEF SkipBlank
<1>9. ASSUME NEW i \in S
      PROVE  /\ HasUser(i) => i \in named /\ key[i] = name(i)
             /\ ~HasUser(i) => i \in others /\ key[i] = Guest
  OBVIOUS
<1> HIDE DEF x, H
<1>6. ASSUME m = Over(users, guests) PROVE Covered(x, key, H, S)
  <2>0. /\ DOMAIN m = DOMAIN users \cup DOMAIN guests
        /\ \A c \in DOMAIN m : m[c] = IF c \in DOMAIN users THEN users[c] ELSE guests[c]
    BY <1>6 DEF Over
  <2> DEFINE U == {i \in S : key[i] # Blank /\ (HasUser(i) \/ Guest \notin DOMAIN users)}
  <2>1. U \in SUBSET S /\ S \ H \subseteq U
    BY <1>2, <1>3, <1>4 DEF Named
  <2>2. CountsBy(x, key, U)
    <3>1. DOMAIN x = {key[i] : i \in U}
      <4>1. ASSUME NEW c PROVE c \in DOMAIN x <=> c # Blank /\ c \in DOMAIN users \cup DOMAIN guests
        BY <1>8, <2>0
      <4>2. ASSUME NEW c \in DOMAIN x PROVE \E i \in U : key[i] = c
        BY <1>3, <1>4, <1>9, <4>1, <4>2
      <4>3. ASSUME NEW i \in U PROVE key[i] \in DOMAIN x
        BY <1>3, <1>4, <1>9, <4>1
      <4> HIDE DEF U
      <4> QED BY <4>2, <4>3
    <3>2. ASSUME NEW c \in DOMAIN x PROVE x[c] = Cardinality({i \in U : key[i] = c})
      <4>1. c # Blank /\ c \in DOMAIN m /\ x[c] = m[c]
        BY <1>8
      <4>2. CASE c \in DOMAIN users
        <5>1. {i \in U : key[i] = c} = {i \in named : name(i) = c}
          BY <4>1, <4>2
        <5> QED BY <1>4, <2>0, <4>1, <4>2, <5>1
      <4>3. CASE c \notin DOMAIN users
        <5>1. c = Guest /\ c \in DOMAIN guests
          BY <1>4, <2>0, <4>1, <4>3
        <5>2. {i \in U : key[i] = c} = others
          BY <1>3, <1>4, <4>3, <5>1
        <5> QED BY <1>4, <2>0, <4>1, <4>3, <5>1, <5>2
      <4> QED BY <4>2, <4>3
    <3> HIDE DEF U
    <3> QED BY <3>1, <3>2 DEF CountsBy
  <2> HIDE DEF U
  <2> QED BY <2>1, <2>2 DEF Covered
<1>7. ASSUME m = Over(guests, users) PROVE Covered(x, key, H, S)
  <2>0. /\ DOMAIN m = DOMAIN users \cup DOMAIN guests
        /\ \A c \in DOMAIN m : m[c] = IF c \in DOMAIN guests THEN guests[c] ELSE users[c]
    BY <1>7 DEF Over
  <2> DEFINE U == {i \in S : key[i] # Blank /\ (HasUser(i) /\ others # {} => key[i] # Guest)}
  <2>1. U \in SUBSET S /\ S \ H \subseteq U
    BY <1>2, <1>3, <1>4 DEF Named
  <2>2. CountsBy(x, key, U)
    <3>1. DOMAIN x = {key[i] : i \in U}
      <4>1. ASSUME NEW c PROVE c \in DOMAIN x <=> c # Blank /\ c \in DOMAIN users \cup DOMAIN guests
        BY <1>8, <2>0
      <4>2. ASSUME NEW c \in DOMAIN x PROVE \E i \in U : key[i] = c
        BY <1>3, <1>4, <1>9, <4>1, <4>2
      <4>3. ASSUME NEW i \in U PROVE key[i] \in DOMAIN x
        BY <1>3, <1>4, <1>9, <4>1
      <4> HIDE DEF U
      <4> QED BY <4>2, <4>3
    <3>2. ASSUME NEW c \in DOMAIN x PROVE x[c] = Cardinality({i \in U : key[i] = c})
      <4>1. c # Blank /\ c \in DOMAIN m /\ x[c] = m[c]
        BY <1>8
      <4>2. CASE c \in DOMAIN guests
        <5>1. c = Guest /\ others # {}
          BY <1>4, <4>2
        <5>2. {i \in U : key[i] = c} = others
          BY <1>3, <5>1
        <5> QED BY <1>4, <2>0, <4>1, <4>2, <5>2
      <4>3. CASE c \notin DOMAIN guests
        <5>1. c \in DOMAIN users /\ (others # {} => c # Guest)
          BY <1>4, <2>0, <4>1, <4>3
        <5>2. ASSUME NEW i \in S
              PROVE  i \in U /\ key[i] = c <=> i \in named /\ name(i) = c
          BY <1>4, <1>9, <4>1, <5>1
        <5>3. {i \in U : key[i] = c} = {i \in named : name(i) = c}
          BY <5>2
        <5>4. x[c] = users[c]
          BY <2>0, <4>1, <4>3
        <5> QED BY <1>4, <5>1, <5>3, <5>4
      <4> QED BY <4>2, <4>3
    <3> HIDE DEF U
    <3> QED BY <3>1, <3>2 DEF CountsBy
  <2> HIDE DEF U
  <2> QED BY <2>1, <2>2 DEF Covered
<1> HIDE DEF key
<1> QED
  <2>1. Covered(x, key, H, S)
    BY <1>1, <1>6, <1>7
  <2>2. PICK U \in SUBSET S : S \ H \subseteq U /\ CountsBy(x, key, U)
    BY <2>1 DEF Covered
  <2>3. /\ Cardinality(Tallies(x)) \in Nat
        /\ Cardinality(S \ H) <= Cardinality(Tallies(x))
        /\ Cardinality(Tallies(x)) <= Cardinality(S)
    BY <2>2, ColumnCounts
  <2> QED BY <2>3 DEF x, H

(* Whatever a statement yields over S counts S up to what it hides.        *)
LEMMA ResultsCount ==
  ASSUME NEW k \in DOMAIN Columns, NEW S \in SUBSET DOMAIN rows, IsFiniteSet(S),
         NEW x \in Results(Columns[k], S)
  PROVE  /\ Counted(Columns[k], x) \in Nat
         /\ Cardinality(S \ Hidden(Columns[k])) <= Counted(Columns[k], x)
         /\ Counted(Columns[k], x) <= Cardinality(S)
<1>1. Cardinality(S) \in Nat /\ S \ {} = S
  BY FS_CardinalityType
<1>2. Columns[k] \in {"total", "status", "time", "country", "user"}
  BY DEF Columns
<1>3. CASE Columns[k] = "total"
  <2>1. Counted("total", x) = Cardinality(S) /\ Hidden("total") = {}
    BY <1>3 DEF Results, Counted, Hidden, GetTotalRequestCount
  <2> QED BY <1>1, <1>3, <2>1
<1>4. CASE Columns[k] = "status"
  <2>1. /\ x = GetRequestCountByStatus(S) /\ Hidden("status") = {}
        /\ Counted("status", x) = Cardinality(Tallies(x))
    BY <1>4 DEF Results, Counted, Hidden
  <2> QED BY <1>1, <1>4, <2>1, StatusesAddUp
<1>5. CASE Columns[k] = "time"
  <2>1. Counted("time", x) = Cardinality(S) /\ Hidden("time") = {}
    BY <1>5 DEF Results, Counted, Hidden, GetAverageResponseTime, Average
  <2> QED BY <1>1, <1>5, <2>1
<1>6. CASE Columns[k] = "country"
  <2>1. /\ x = SkipBlank(GetRequestCountByCountry(S))
        /\ Hidden("country") = {i \in DOMAIN rows : CountryOf(i) = Blank}
        /\ Counted("country", x) = Cardinality(Tallies(x))
    BY <1>6 DEF Results, Counted, Hidden
  <2> QED BY <1>6, <2>1, CountriesAddUp
<1>7. CASE Columns[k] = "user"
  <2>1. /\ x \in {SkipBlank(m) : m \in GetRequestCountByUser(S)}
        /\ Counted("user", x) = Cardinality(Tallies(x))
    BY <1>7 DEF Results, Counted
  <2>2. PICK m \in GetRequestCountByUser(S) : x = SkipBlank(m)
    BY <2>1
  <2> QED BY <1>7, <2>1, <2>2, UsersAddUp
<1> QED BY <1>2, <1>3, <1>4, <1>5, <1>6, <1>7

(* The ranges of rows are finite, and only grow.                           *)
LEMMA RangesFinite ==
  ASSUME rows \in Seq(Metric), NEW from, NEW to
  PROVE  /\ InRange(from, to) \in SUBSET DOMAIN rows
         /\ IsFiniteSet(InRange(from, to))
<1>1. PICK n \in Nat : DOMAIN rows = 1 .. n
  BY LenProperties
<1>2. IsFiniteSet(DOMAIN rows)
  BY <1>1, FS_Interval
<1>3. InRange(from, to) \in SUBSET DOMAIN rows
  BY DEF InRange
<1> QED BY <1>2, <1>3, FS_Subset

(* More rows take nothing from what a report has counted.                  *)
LEMMA ReportKept ==
  ASSUME ReportInv, rows \in Seq(Metric), UNCHANGED report,
         DOMAIN rows \subseteq DOMAIN rows',
         \A i \in DOMAIN rows : rows'[i] = rows[i]
  PROVE  ReportInv'
<1> DEFINE listed == InRange(report.from, report.to)
<1>1. listed \subseteq listed'
  BY DEF InRange
<1>2. IsFiniteSet(listed) /\ listed \subseteq DOMAIN rows
  BY RangesFinite
<1>3. ASSUME NEW c PROVE \A i \in Hidden(c) : i \in DOMAIN rows => i \in Hidden(c)'
  BY DEF Hidden, Named, HasUser, CountryOf
<1> HIDE DEF listed
<1>4. PICK read \in [DOMAIN report.result -> SUBSET listed] :
        \A k \in DOMAIN read : Accounts(read, k)
  BY DEF ReportInv, ListRequestDetails, listed
<1>5. read \in [DOMAIN report.result -> SUBSET listed']
  BY <1>1, <1>4
<1>6. ASSUME NEW k \in DOMAIN read PROVE Accounts(read, k)'
  <2>1. /\ read[k] \ Hidden(Columns[k])' \subseteq read[k] \ Hidden(Columns[k])
        /\ IsFiniteSet(read[k] \ Hidden(Columns[k]))
    <3>1. IsFiniteSet(read[k]) /\ read[k] \subseteq DOMAIN rows
      BY <1>2, <1>4, FS_Subset
    <3> QED BY <1>3, <3>1, FS_Subset
  <2>2. /\ Cardinality(read[k] \ Hidden(Columns[k])') <= Cardinality(read[k] \ Hidden(Columns[k]))
        /\ Cardinality(read[k] \ Hidden(Columns[k])') \in Nat
        /\ Cardinality(read[k] \ Hidden(Columns[k])) \in Nat
    BY <2>1, FS_Subset, FS_CardinalityType
  <2>3. Accounts(read, k)
    BY <1>4
  <2> QED BY <2>2, <2>3 DEF Accounts
<1>7. /\ report.result' = [j \in 1 .. Len(report.result') |-> report.result'[j]]
      /\ Len(report.result)' = IF report.step' = 0 THEN 0 ELSE report.step' - 1
      /\ report.step' # 0 => report.seen' \subseteq listed'
  BY <1>1 DEF ReportInv, ListRequestDetails, listed
<1>8. \E f \in [DOMAIN report.result' -> SUBSET listed'] : \A k \in DOMAIN f : Accounts(f, k)'
  BY <1>5, <1>6
<1> QED BY <1>7, <1>8 DEF ReportInv, ListRequestDetails, listed

(* The columns so far are a sequence.                                      *)
LEMMA ResultSeq ==
  ASSUME ReportInv, NEW n \in Nat, report.step = n
  PROVE  /\ \E V : report.result \in Seq(V)
         /\ Len(report.result) = (IF n = 0 THEN 0 ELSE n - 1)
         /\ DOMAIN report.result = 1 .. Len(report.result)
<1> DEFINE s == report.result
           V == {s[j] : j \in DOMAIN s}
<1>1. PICK m \in Nat : m = Len(s) /\ m = (IF n = 0 THEN 0 ELSE n - 1)
  BY DEF ReportInv
<1>2. s = [j \in 1 .. m |-> s[j]]
  BY <1>1 DEF ReportInv
<1> HIDE DEF s
<1>3. DOMAIN s = 1 .. m
  BY <1>2
<1>4. s \in [1 .. m -> V]
  BY <1>2, <1>3
<1> HIDE DEF V
<1>5. s \in Seq(V)
  BY <1>4, SeqDef
<1> QED BY <1>1, <1>3, <1>5 DEF s, V

(* A report that has no column yet accounts for nothing.                   *)
ReportEmpty ==
  /\ report.result = <<>>
  /\ report.step \in {0, 1}
  /\ report.step # 0 => report.seen \subseteq ListRequestDetails(report.from, report.to)

LEMMA EmptyReport == ReportEmpty => ReportInv
<1> SUFFICES ASSUME ReportEmpty PROVE ReportInv
  OBVIOUS
<1> DEFINE listed == ListRequestDetails(report.from, report.to)
<1>1. DOMAIN report.result = {} /\ Len(report.result) = 0
  BY DEF ReportEmpty
<1>2. ASSUME NEW read \in [{} -> SUBSET listed] PROVE \A k \in DOMAIN read : Accounts(read, k)
  OBVIOUS
<1>3. \E read \in [{} -> SUBSET listed] : TRUE
  <2>1. [k \in {} |-> {}] \in [{} -> SUBSET listed]
    OBVIOUS
  <2> QED BY <2>1
<1>4. report.result = [k \in 1 .. Len(report.result) |-> report.result[k]]
  BY <1>1 DEF ReportEmpty
<1>5. Len(report.result) = (IF report.step = 0 THEN 0 ELSE report.step - 1)
  BY <1>1 DEF ReportEmpty
<1>6. report.step # 0 => report.seen \subseteq listed
  BY DEF ReportEmpty
<1>7. \E read \in [DOMAIN report.result -> SUBSET listed] : \A k \in DOMAIN read : Accounts(read, k)
  BY <1>1, <1>2, <1>3
<1> HIDE DEF listed
<1> QED BY <1>4, <1>5, <1>6, <1>7 DEF ReportInv, listed

(* A statement counts the rows that are there when it runs.                *)
LEMMA QueryKeeps ==
  ASSUME ReportInv, rows \in Seq(Metric), report.step \in DOMAIN Columns,
         DOMAIN report = {"step", "from", "to", "result", "seen"},
         NEW x \in Results(Columns[report.step], InRange(report.from, report.to)),
         report' = [report EXCEPT !.step = @ + 1, !.result = Append(@, x)], rows' = rows
  PROVE  ReportInv'
<1> DEFINE listed == InRange(report.from, report.to)
<1>1. /\ report'.step = report.step + 1 /\ report'.result = Append(report.result, x)
      /\ report'.seen = report.seen /\ report'.from = report.from /\ report'.to = report.to
  OBVIOUS
<1>2. PICK n \in 1 .. 5 : report.step = n
  BY DEF Columns
<1>0. report.seen \subseteq listed
  BY <1>2 DEF ReportInv, ListRequestDetails
<1>3. (\E V : report.result \in Seq(V)) /\ Len(report.result) = n - 1
  <2>1. n \in Nat /\ n # 0
    BY <1>2
  <2> QED BY <1>2, <2>1, ResultSeq
<1> PICK V : report.result \in Seq(V)
  BY <1>3
<1>4. /\ DOMAIN report.result = 1 .. (n - 1)
      /\ report'.result \in Seq(V \cup {x}) /\ Len(report'.result) = n
      /\ DOMAIN report'.result = 1 .. n
      /\ \A k \in 1 .. (n - 1) : report'.result[k] = report.result[k]
      /\ report'.result[n] = x
  <2>1. report.result \in Seq(V \cup {x}) /\ x \in V \cup {x}
    OBVIOUS
  <2> QED BY <1>1, <1>3, <2>1, AppendProperties, LenProperties
<1>5. report'.result = [j \in 1 .. Len(report'.result) |-> report'.result[j]]
  <2> DEFINE s == report'.result
             W == V \cup {x}
  <2>1. s \in Seq(W)
    BY <1>4
  <2> HIDE DEF s, W
  <2>2. s = [j \in 1 .. Len(s) |-> s[j]]
    BY <2>1
  <2> QED BY <2>2 DEF s
<1>6. PICK read \in [DOMAIN report.result -> SUBSET listed] :
        \A k \in DOMAIN read : Accounts(read, k)
  BY DEF ReportInv, ListRequestDetails
<1>7. listed \in SUBSET DOMAIN rows /\ IsFiniteSet(listed)
  BY RangesFinite
<1>8. n \in DOMAIN Columns
  BY DEF Columns
<1> HIDE DEF listed
<1>9. PICK then \in [1 .. n -> SUBSET listed] :
        then[n] = listed /\ \A k \in 1 .. (n - 1) : then[k] = read[k]
  <2> DEFINE f == [k \in 1 .. n |-> IF k = n THEN listed ELSE read[k]]
  <2>1. ASSUME NEW k \in 1 .. n PROVE k = n \/ (k \in 1 .. (n - 1) /\ k # n)
    OBVIOUS
  <2>2. ASSUME NEW k \in 1 .. (n - 1) PROVE k \in 1 .. n /\ k # n /\ read[k] \in SUBSET listed
    BY <1>4, <1>6
  <2>3. f \in [1 .. n -> SUBSET listed]
    BY <2>1, <2>2
  <2>4. f[n] = listed /\ \A k \in 1 .. (n - 1) : f[k] = read[k]
    BY <2>2
  <2> HIDE DEF f
  <2> QED BY <2>3, <2>4
<1>10. \A c : Hidden(c)' = Hidden(c)
  BY DEF Hidden, Named, HasUser, CountryOf
<1>11. ASSUME NEW k \in 1 .. n PROVE Accounts(then, k)'
  <2>1. CASE k = n
    <3>1. /\ Counted(Columns[n], x) \in Nat
          /\ Cardinality(listed \ Hidden(Columns[n])) <= Counted(Columns[n], x)
          /\ Counted(Columns[n], x) <= Cardinality(listed)
      BY <1>2, <1>7, <1>8, ResultsCount DEF listed
    <3>2. \A j \in 1 .. n : then[j] \subseteq then[n]
      BY <1>4, <1>9
    <3> QED BY <1>0, <1>1, <1>4, <1>9, <1>10, <2>1, <3>1, <3>2 DEF Accounts
  <2>2. CASE k # n
    <3>1. k \in 1 .. (n - 1) /\ Accounts(read, k) /\ then[k] = read[k]
      BY <1>4, <1>6, <1>9, <2>2
    <3>2. \A j \in 1 .. k : then[j] = read[j]
      <4>1. ASSUME NEW j \in 1 .. k PROVE j \in 1 .. (n - 1)
        BY <3>1
      <4> QED BY <1>9, <4>1
    <3>3. report'.result[k] = report.result[k]
      BY <1>4, <3>1
    <3> QED BY <1>1, <1>10, <3>1, <3>2, <3>3 DEF Accounts
  <2> QED BY <2>1, <2>2
<1>12. listed' = listed
  BY <1>1 DEF listed, InRange
<1>13. \E f \in [DOMAIN report'.result -> SUBSET listed'] : \A k \in DOMAIN f : Accounts(f, k)'
  BY <1>4, <1>9, <1>11, <1>12
<1>14. /\ Len(report'.result) = (IF report'.step = 0 THEN 0 ELSE report'.step - 1)
       /\ report'.step # 0 => report'.seen \subseteq listed'
  BY <1>0, <1>1, <1>2, <1>4, <1>12
<1> QED BY <1>5, <1>13, <1>14 DEF ReportInv, ListRequestDetails, listed

LEMMA ReportInit == Init => ReportInv
<1> SUFFICES ASSUME Init PROVE ReportInv
  OBVIOUS
<1>1. ReportEmpty
  BY DEF Init, NoReport, ReportEmpty
<1> QED BY <1>1, EmptyReport

LEMMA ReportNext ==
  ASSUME ReportInv, TypeOK, [Next]_vars PROVE ReportInv'
<1>0. rows \in Seq(Metric) /\ DOMAIN report = {"step", "from", "to", "result", "seen"}
  BY DEF TypeOK
<1>1. ASSUME UNCHANGED <<rows, report>> PROVE ReportInv'
  BY <1>0, <1>1, ReportKept
<1>2. ASSUME report' = NoReport PROVE ReportInv'
  <2>1. ReportEmpty'
    BY <1>2 DEF NoReport, ReportEmpty
  <2> QED BY <2>1, EmptyReport, PTL
<1>3. ASSUME NEW r \in Requests, Create(r) PROVE ReportInv'
  <2>1. CASE rows' = Append(rows, Record(r))
    <3> DEFINE m == Record(r)
    <3>1. rows \in Seq(Metric \cup {m}) /\ m \in Metric \cup {m} /\ rows' = Append(rows, m)
      BY <1>0, <2>1
    <3> HIDE DEF m
    <3>2. DOMAIN rows \subseteq DOMAIN rows' /\ \A i \in DOMAIN rows : rows'[i] = rows[i]
      <4>1. PICK n \in Nat : DOMAIN rows = 1 .. n /\ Len(rows) = n
        BY <3>1, LenProperties
      <4>2. DOMAIN rows' = 1 .. (n + 1) /\ \A i \in 1 .. n : rows'[i] = rows[i]
        BY <3>1, <4>1, AppendProperties, LenProperties
      <4> QED BY <4>1, <4>2
    <3> QED BY <1>0, <1>3, <3>2, ReportKept DEF Create
  <2>2. CASE UNCHANGED rows
    BY <1>1, <1>3, <2>2 DEF Create
  <2> QED BY <1>3, <2>1, <2>2 DEF Create
<1>4. ASSUME NEW range \in Ranges, BeginReport(range) PROVE ReportInv'
  <2>1. /\ report'.result = <<>> /\ report'.step = 1 /\ rows' = rows
        /\ report'.seen = InRange(report'.from, report'.to)
    BY <1>4 DEF BeginReport
  <2>2. ReportEmpty'
    BY <2>1 DEF ReportEmpty, ListRequestDetails, InRange
  <2> QED BY <2>2, EmptyReport, PTL
<1>5. CASE Query
  <2>1. CASE report' = NoReport
    BY <1>2, <2>1
  <2>2. CASE \E x \in Results(Columns[report.step], InRange(report.from, report.to)) :
               report' = [report EXCEPT !.step = @ + 1, !.result = Append(@, x)]
    BY <1>0, <1>5, <2>2, QueryKeeps DEF Query
  <2> QED BY <1>5, <2>1, <2>2 DEF Query
<1>6. CASE EndReport \/ Restart
  BY <1>2, <1>6 DEF EndReport, Restart
<1>7. CASE Tick \/ \E c \in Clients : Arrive(c)
  BY <1>1, <1>7 DEF Tick, Arrive, trafficVars
<1>8. ASSUME NEW r \in Requests, Handle(r) PROVE ReportInv'
  <2>1. CASE \E codes \in Answers : Serve(r, codes)
    BY <1>1, <2>1 DEF Serve
  <2>2. ASSUME Panic(r) PROVE ReportInv'
    BY <1>1, <2>2 DEF Panic
  <2>4. ASSUME GeoStep(r), UNCHANGED <<now, trafficVars>> PROVE ReportInv'
    BY <1>1, <2>4 DEF trafficVars
  <2>3. CASE Create(r)
    BY <1>3, <2>3
  <2> QED BY <1>8, <2>1, <2>2, <2>3, <2>4 DEF Handle
<1>9. CASE UNCHANGED vars
  BY <1>1, <1>9 DEF vars, trafficVars
<1> QED BY <1>4, <1>5, <1>6, <1>7, <1>8, <1>9 DEF Next

(* What has been counted adds up.                                          *)
LEMMA ReportInvAddsUp ==
  ASSUME ReportInv, TypeOK PROVE ReportsAddUp
<1> DEFINE listed == InRange(report.from, report.to)
           counted(k) == Counted(Columns[k], report.result[k])
<1>1. IsFiniteSet(listed)
  BY RangesFinite DEF TypeOK
<1> HIDE DEF listed
<1>2. PICK read \in [DOMAIN report.result -> SUBSET listed] :
        \A k \in DOMAIN read : Accounts(read, k)
  BY DEF ReportInv, ListRequestDetails, listed
<1>3. PICK n \in Nat : DOMAIN report.result = 1 .. n
  <2>1. PICK m \in Nat : report.step = m
    BY DEF TypeOK, Columns
  <2>2. Len(report.result) \in Nat /\ DOMAIN report.result = 1 .. Len(report.result)
    BY <2>1, ResultSeq
  <2> QED BY <2>2
<1> SUFFICES ASSUME NEW k \in DOMAIN report.result
    PROVE /\ Cardinality(report.seen \ Hidden(Columns[k])) <= counted(k)
          /\ counted(k) <= Cardinality(listed)
          /\ Hidden(Columns[k]) = {} => \A j \in 1 .. k : counted(j) <= counted(k)
  BY DEF ReportsAddUp, ListRequestDetails, listed
<1>4. ASSUME NEW j \in DOMAIN report.result
      PROVE  /\ report.seen \subseteq read[j] /\ read[j] \subseteq listed
             /\ \A i \in 1 .. j : read[i] \subseteq read[j]
             /\ IsFiniteSet(read[j]) /\ Cardinality(read[j]) \in Nat
             /\ counted(j) \in Nat
             /\ Cardinality(read[j] \ Hidden(Columns[j])) <= counted(j)
             /\ counted(j) <= Cardinality(read[j])
  <2>1. Accounts(read, j) /\ read[j] \subseteq listed
    BY <1>2
  <2>2. IsFiniteSet(read[j]) /\ Cardinality(read[j]) \in Nat
    BY <1>1, <2>1, FS_Subset, FS_CardinalityType
  <2> QED BY <2>1, <2>2 DEF Accounts
<1> HIDE DEF counted
<1>5. Cardinality(report.seen \ Hidden(Columns[k])) <= counted(k)
  <2> DEFINE A == report.seen \ Hidden(Columns[k])
             B == read[k] \ Hidden(Columns[k])
  <2>1. A \subseteq B /\ IsFiniteSet(B)
    BY <1>4, FS_Subset
  <2>2. Cardinality(B) <= counted(k) /\ counted(k) \in Nat
    BY <1>4
  <2> HIDE DEF A, B
  <2>3. Cardinality(A) <= Cardinality(B) /\ Cardinality(A) \in Nat /\ Cardinality(B) \in Nat
    BY <2>1, FS_Subset, FS_CardinalityType
  <2>4. Cardinality(A) <= counted(k)
    BY <2>2, <2>3
  <2> QED BY <2>4 DEF A
<1>6. counted(k) <= Cardinality(listed)
  <2>1. Cardinality(read[k]) <= Cardinality(listed) /\ Cardinality(listed) \in Nat
    BY <1>1, <1>4, FS_Subset, FS_CardinalityType
  <2>2. counted(k) <= Cardinality(read[k]) /\ counted(k) \in Nat /\ Cardinality(read[k]) \in Nat
    BY <1>4
  <2> QED BY <2>1, <2>2
<1>7. ASSUME Hidden(Columns[k]) = {}, NEW j \in 1 .. k PROVE counted(j) <= counted(k)
  <2>1. j \in DOMAIN report.result
    BY <1>3
  <2>2. read[k] \ Hidden(Columns[k]) = read[k]
    BY <1>7
  <2>3. Cardinality(read[j]) <= Cardinality(read[k])
    BY <1>4, FS_Subset
  <2>4. Cardinality(read[k]) <= counted(k) /\ counted(k) \in Nat /\ Cardinality(read[k]) \in Nat
    BY <1>4, <2>2
  <2>5. counted(j) <= Cardinality(read[j]) /\ counted(j) \in Nat /\ Cardinality(read[j]) \in Nat
    BY <1>4, <2>1
  <2> QED BY <2>3, <2>4, <2>5
<1> QED BY <1>5, <1>6, <1>7

LEMMA ReportCorrect == Spec => []ReportInv
<1>1. Spec => Init /\ [][Next]_vars
  BY PTL DEF Spec
<1> QED BY <1>1, ReportInit, ReportNext, TypeCorrect, PTL

(* However many requests are recorded between the statements of a report,  *)
(* and whatever the users are called, each column counts the rows that     *)
(* were there when the report began, and at most those listed at its end;  *)
(* a later column that hides nothing counts no fewer rows than an earlier. *)
THEOREM ReportsTrue == Spec => []ReportsAddUp
<1>1. Spec => []TypeOK
  BY TypeCorrect
<1> QED BY <1>1, ReportCorrect, ReportInvAddsUp, PTL
=============================================================================
