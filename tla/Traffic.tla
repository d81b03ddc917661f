------------------------------ MODULE Traffic ------------------------------
(***************************************************************************)
(* Traffic metrics: what the analytics middlewares note of a request, the  *)
(* row they store of it, and the statistics that the dashboard computes    *)
(* from the rows.  A request passes                                        *)
(*                                                                         *)
(*   JA4H fingerprint (cached) ; session ; handler ; geolocation ;         *)
(*                                                                         *)
(* and a goroutine that nobody waits for stores the row.  A report of the  *)
(* statistics reads the table in ten statements without a transaction,     *)
(* while rows of older requests go on arriving.  GeoCache is the           *)
(* geolocation, in the slot of the request.                                *)
(***************************************************************************)
EXTENDS GeoCache, Sequences, FiniteSets, FiniteSetsExt

CONSTANTS
  Clients,      \* what requests may be: address, cache key, cookie, user
  Usernames,    \* the user names of the ids of the users table
  NoUserId,     \* the empty user id
  Guest,        \* the string guest
  Country,      \* the country of each address, Blank if unknown
  Blank,        \* the empty string
  NotSet,       \* no cached fingerprint
  Answers,      \* what handlers do: the status of each call of WriteHeader
  Ranges,       \* start and end dates of reports
  Now,          \* the end date of a report that gives none
  JA4TTL,       \* the lifetime of a cached fingerprint: 5 minutes, in ticks
  MaxTime, MaxRequests,
  DBFaults,     \* TRUE: a statement may fail
  Crashes       \* TRUE: the process may stop and start again

ASSUME TrafficConstants ==
  /\ JA4TTL \in Nat
  /\ NoUserId \notin DOMAIN Usernames
  /\ \A c \in Clients : /\ c.addr \in Addresses
                        /\ c.user \in DOMAIN Usernames \cup {NoUserId}
  /\ Guest # Blank
  /\ \A codes \in Answers : codes \in Seq(Nat)
  /\ \A range \in Ranges : range.from \in Nat /\ range.to \in Nat \cup {Now}
  /\ Now \notin Nat
  /\ MaxTime \in Nat /\ MaxRequests \in Nat

VARIABLES
  ja4,      \* the fingerprint cache: key -> fingerprint and time
  req,      \* the request in each slot
  rows,     \* the table traffic_metrics
  report,   \* the report being computed
  told,     \* history: each request so far, and what its client was told
  lost      \* history: requests whose row could not be stored

trafficVars == <<ja4, req, rows, report, told, lost>>
vars == <<now, geo, lookup, trafficVars>>

NoId == 0
Keys == {c.key : c \in Clients}

(* JA4H hashes what is in the key and, among others, the cookies. *)
JA4H(c) == <<c.key, c.cookie>>

(* Slots are only names: a request takes one that is free. *)
FreeSlots == {r \in Requests : req[r].step = "idle"}

Idle == [step |-> "idle", id |-> NoId, fp |-> NotSet, status |-> 0, at |-> 0, ns |-> 0]

-----------------------------------------------------------------------------
(* The middlewares.                                                        *)

(* Broken variant: a cached fingerprint does not expire. *)
FreshForever(key) == ja4[key] # NotSet

FreshFingerprint(key) == ja4[key] # NotSet /\ now - ja4[key].at <= JA4TTL

(* Broken variant: the first call of WriteHeader counts. *)
StatusFirst(codes) == IF codes = <<>> THEN 200 ELSE codes[1]

(* What responseWriterWithStats keeps: each call overwrites the status. *)
Status(codes) == IF codes = <<>> THEN 200 ELSE codes[Len(codes)]

(* What net/http sends: informational headers, then the first other one. *)
Sent(codes) ==
  LET final == {i \in DOMAIN codes : codes[i] >= 200} IN
  IF final = {} THEN 200 ELSE codes[Min(final)]

(* A request enters the chain: its fingerprint comes from the cache, which *)
(* may have forgotten it, or is computed and cached; its session is        *)
(* extracted.                                                              *)
Arrive(c) ==
  /\ FreeSlots # {}
  /\ Len(told) < MaxRequests
  /\ \E cached \in BOOLEAN :
       LET r == CHOOSE r \in FreeSlots : TRUE
           fp == IF cached THEN ja4[c.key].fp ELSE JA4H(c) IN
       /\ cached => FreshFingerprint(c.key)
       /\ ja4' = IF cached THEN ja4 ELSE [ja4 EXCEPT ![c.key] = [fp |-> fp, at |-> now]]
       /\ req' = [req EXCEPT ![r] = [Idle EXCEPT !.step = "serving",
                     !.id = Len(told) + 1, !.fp = fp, !.at = now]]
  /\ told' = Append(told, [client |-> c, began |-> now, ended |-> now, status |-> 0])
  /\ UNCHANGED <<now, geo, lookup, rows, report, lost>>

(* The handler has returned, and the record is begun: NewTrafficMetric     *)
(* looks the client's address up before the response is complete.          *)
Serve(r, codes) ==
  LET id == req[r].id IN
  /\ req[r].step = "serving"
  /\ told' = [told EXCEPT ![id].ended = now, ![id].status = Sent(codes)]
  /\ req' = [req EXCEPT ![r] = [@ EXCEPT !.step = "record", !.status = Status(codes),
                                         !.ns = now - req[r].at]]
  /\ GetGeoData(r, told[id].client.addr)
  /\ UNCHANGED <<now, ja4, rows, report, lost>>

(* The handler panics: net/http ends the connection, and nothing is noted. *)
Panic(r) ==
  /\ req[r].step = "serving"
  /\ req' = [req EXCEPT ![r] = Idle]
  /\ UNCHANGED <<now, geo, lookup, ja4, rows, report, told, lost>>

(* The row of a request. *)
Record(r) ==
  LET q == req[r]
      c == told[q.id].client IN
  [of |-> q.id, at |-> q.at, ns |-> q.ns, status |-> q.status,
   user |-> c.user, place |-> Location(r), fp |-> q.fp]

(* The record is complete, and a goroutine started with it: INSERT, whose  *)
(* failure is logged.                                                      *)
Create(r) ==
  /\ req[r].step = "record"
  /\ lookup[r].step = "done"
  /\ \/ rows' = Append(rows, Record(r)) /\ UNCHANGED lost
     \/ DBFaults /\ lost' = lost \cup {req[r].id} /\ UNCHANGED rows
  /\ req' = [req EXCEPT ![r] = Idle]
  /\ lookup' = [lookup EXCEPT ![r] = NoLookup]
  /\ UNCHANGED <<now, geo, ja4, report, told>>

-----------------------------------------------------------------------------
(* The queries.  Each counts the rows of a range, both ends included.      *)

InRange(from, to) == {i \in DOMAIN rows : rows[i].at \in from .. to}

Count(Key(_), S) ==
  [k \in {Key(i) : i \in S} |-> Cardinality({i \in S : Key(i) = k})]

Average(Value(_), S) ==
  [sum |-> MapThenSumSet(Value, S), n |-> Cardinality(S)]

CountryOf(i) == IF rows[i].place = Nowhere THEN Blank ELSE Country[rows[i].place.addr]

GetTotalRequestCount(S) == Cardinality(S)
GetRequestCountByStatus(S) == Count(LAMBDA i : rows[i].status, S)
GetAverageResponseTime(S) == Average(LAMBDA i : rows[i].ns, S)
GetRequestCountByCountry(S) == Count(CountryOf, S)

HasUser(i) == rows[i].user \in DOMAIN Usernames

(* Broken variant: an inner join. *)
CountByUserInner(S) ==
  {Count(LAMBDA i : Usernames[rows[i].user], {i \in S : HasUser(i)})}

Over(f, g) == [k \in DOMAIN f \cup DOMAIN g |-> IF k \in DOMAIN f THEN f[k] ELSE g[k]]

(* LEFT JOIN users, grouped by the name; those without one are shown as    *)
(* guest, and in the map, where a user may have that name, whichever group *)
(* comes last stays.                                                       *)
GetRequestCountByUser(S) ==
  LET named == {i \in S : HasUser(i)}
      users == Count(LAMBDA i : Usernames[rows[i].user], named)
      guests == Count(LAMBDA i : Guest, S \ named) IN
  {Over(users, guests), Over(guests, users)}

(* The response skips the keys that are empty. *)
SkipBlank(counts) == [k \in DOMAIN counts \ {Blank} |-> counts[k]]

(* GetRequestDetails: one statement; what it lists, newest first. *)
ListRequestDetails(from, to) == InRange(from, to)

(* The statements of a report in their order, one of each kind: sizes are  *)
(* averaged as times are; devices, platforms, browsers and fingerprints    *)
(* are counted as countries are.                                           *)
Columns == <<"total", "status", "time", "country", "user">>

(* What the statement of a column may yield over the rows S. *)
Results(column, S) ==
  CASE column = "total" -> {GetTotalRequestCount(S)}
    [] column = "status" -> {GetRequestCountByStatus(S)}
    [] column = "time" -> {GetAverageResponseTime(S)}
    [] column = "country" -> {SkipBlank(GetRequestCountByCountry(S))}
    [] column = "user" -> {SkipBlank(m) : m \in GetRequestCountByUser(S)}

NoReport == [step |-> 0, from |-> 0, to |-> 0, result |-> <<>>, seen |-> {}]

(* GetRequestStatistics is called; the last 30 days go back to the start.  *)
BeginReport(range) ==
  LET to == IF range.to = Now THEN now ELSE range.to IN
  /\ report.step = 0
  /\ report' = [step |-> 1, from |-> range.from, to |-> to, result |-> <<>>,
                seen |-> InRange(range.from, to)]
  /\ UNCHANGED <<now, geo, lookup, ja4, req, rows, told, lost>>

(* Its next statement; a statement that fails ends it with a 500. *)
Query ==
  /\ report.step \in DOMAIN Columns
  /\ \/ \E x \in Results(Columns[report.step], InRange(report.from, report.to)) :
          report' = [report EXCEPT !.step = @ + 1, !.result = Append(@, x)]
     \/ DBFaults /\ report' = NoReport
  /\ UNCHANGED <<now, geo, lookup, ja4, req, rows, told, lost>>

(* The response has been sent. *)
EndReport ==
  /\ report.step > Len(Columns)
  /\ report' = NoReport
  /\ UNCHANGED <<now, geo, lookup, ja4, req, rows, told, lost>>

-----------------------------------------------------------------------------
Tick ==
  /\ now < MaxTime
  /\ InTime
  /\ now' = now + 1
  /\ UNCHANGED <<geo, lookup, trafficVars>>

(* The process ends: requests, caches and goroutines are gone. *)
Restart ==
  /\ Crashes
  /\ lost' = lost \cup {req[r].id : r \in {r \in Requests : req[r].step # "idle"}}
  /\ req' = [r \in Requests |-> Idle]
  /\ lookup' = [r \in Requests |-> NoLookup]
  /\ geo' = [a \in Addresses |-> NotCached]
  /\ ja4' = [k \in Keys |-> NotSet]
  /\ report' = NoReport
  /\ UNCHANGED <<now, rows, told>>

Init ==
  /\ now = 0
  /\ GeoInit
  /\ ja4 = [k \in Keys |-> NotSet]
  /\ req = [r \in Requests |-> Idle]
  /\ rows = <<>>
  /\ report = NoReport
  /\ told = <<>>
  /\ lost = {}

Handle(r) ==
  \/ \E codes \in Answers : Serve(r, codes)
  \/ Panic(r)
  \/ GeoStep(r) /\ UNCHANGED <<now, trafficVars>>
  \/ Create(r)

Next ==
  \/ \E c \in Clients : Arrive(c)
  \/ \E r \in Requests : Handle(r)
  \/ \E range \in Ranges : BeginReport(range)
  \/ Query
  \/ EndReport
  \/ Tick
  \/ Restart

(* What the gateway does on its own: goroutines are scheduled, and a call  *)
(* of the geolocation service ends at the latest with its timeout.  The    *)
(* service itself need not answer, nor a handler return.                   *)
Progress(r) ==
  \/ (FetchFails(r) \/ StoreGeo(r)) /\ UNCHANGED <<now, trafficVars>>
  \/ Create(r)

Spec == Init /\ [][Next]_vars /\ \A r \in Requests : WF_vars(Progress(r))

-----------------------------------------------------------------------------
Fingerprints == {JA4H(c) : c \in Clients}

Slot == [step: {"idle", "serving", "record"}, id: Nat, fp: Fingerprints \cup {NotSet},
         status: Nat, at: Nat, ns: Int]

Metric == [of: Nat, at: Nat, ns: Int, status: Nat, user: DOMAIN Usernames \cup {NoUserId},
           place: Answer \cup {Nowhere}, fp: Fingerprints \cup {NotSet}]

Telling == [client: Clients, began: Nat, ended: Nat, status: Nat]

(* The types of the variables; in particular, what is cached is an answer *)
(* of the geolocation service, and not that it failed.                     *)
TypeOK ==
  /\ GeoTypeOK
  /\ now \in 0 .. MaxTime
  /\ ja4 \in [Keys -> {NotSet} \cup [fp : Fingerprints, at : 0 .. MaxTime]]
  /\ req \in [Requests -> Slot]
  /\ rows \in Seq(Metric)
  /\ told \in Seq(Telling) /\ Len(told) <= MaxRequests
  /\ lost \subseteq DOMAIN told
  /\ DOMAIN report = {"step", "from", "to", "result", "seen"}
  /\ report.step \in 0 .. Len(Columns) + 1
  /\ report.seen \subseteq DOMAIN rows

Client(i) == told[rows[i].of].client

(***************************************************************************)
(* A request has at most one row, and the row says of it what its client   *)
(* saw: the status that went over the wire, even after an informational    *)
(* header, the user of its session, when it began and how long it took,    *)
(* although other requests, the goroutines that store older rows and       *)
(* restarts of the process come in between.                                *)
(***************************************************************************)
RowsTellTheTruth ==
  \A i \in DOMAIN rows :
    LET t == told[rows[i].of] IN
    /\ \A j \in DOMAIN rows : rows[j].of = rows[i].of => j = i
    /\ rows[i].of \notin lost
    /\ rows[i].status = t.status
    /\ rows[i].user = t.client.user
    /\ rows[i].at = t.began
    /\ rows[i].at + rows[i].ns = t.ended

(***************************************************************************)
(* The location in a row is one that the service gave for this address,    *)
(* and, when the request ended, less than the lifetime of an entry and the *)
(* timeout of a call ago, whichever lookups raced for the entry.           *)
(***************************************************************************)
LocationsAreFresh ==
  \A i \in DOMAIN rows :
    rows[i].place # Nowhere =>
      /\ Client(i).addr \notin Loopback
      /\ rows[i].place.addr = Client(i).addr
      /\ told[rows[i].of].ended - rows[i].place.said < GeoTTL + GeoTimeout

(***************************************************************************)
(* The fingerprint in a row is the request's own, or that of a request     *)
(* with the same cache key which began at most the lifetime of a           *)
(* fingerprint before; only the first can be told from the row, and only   *)
(* the second has another cookie.                                          *)
(***************************************************************************)
FingerprintsAreRecent ==
  \A i \in DOMAIN rows :
    \E j \in DOMAIN told :
      /\ rows[i].fp = JA4H(told[j].client)
      /\ told[j].client.key = Client(i).key
      /\ told[j].began \in rows[i].at - JA4TTL .. rows[i].at

(* The rows that a column of a report leaves out: those whose key is       *)
(* empty, and those shown as guest if that is a user's name too.           *)
Named(name) == {i \in DOMAIN rows : HasUser(i) /\ Usernames[rows[i].user] = name}

Hidden(column) ==
  CASE column = "country" -> {i \in DOMAIN rows : CountryOf(i) = Blank}
    [] column = "user" ->
         Named(Blank) \cup
         IF Named(Guest) = {} THEN {}
         ELSE Named(Guest) \cup {i \in DOMAIN rows : ~HasUser(i)}
    [] OTHER -> {}

(* The sum of the counts of x: so many pairs of a key and a number up to   *)
(* its count are there.                                                    *)
Tallies(x) == UNION {{k} \X (1 .. x[k]) : k \in DOMAIN x}

Counted(column, x) ==
  IF column = "total" THEN x
  ELSE IF column = "time" THEN x.n
  ELSE Cardinality(Tallies(x))

(***************************************************************************)
(* Each column of a report accounts for every row that was in the range    *)
(* when the report began, and for none that was not there when its         *)
(* statement ran; so the columns, read one after the other, never shrink,  *)
(* and agree when no row arrives.  Guests are counted among the users.     *)
(***************************************************************************)
ReportsAddUp ==
  \A k \in DOMAIN report.result :
    LET column == Columns[k]
        hidden == Hidden(column)
        counted == Counted(column, report.result[k]) IN
    /\ Cardinality(report.seen \ hidden) <= counted
    /\ counted <= Cardinality(ListRequestDetails(report.from, report.to))
    /\ hidden = {} => \A j \in 1 .. k :
         Counted(Columns[j], report.result[j]) <= counted

(***************************************************************************)
(* Every request that was answered has a row in the end, unless the insert *)
(* fails or the process stops first: neither a geolocation service that    *)
(* never answers nor another request keeps its record back.                *)
(***************************************************************************)
AnsweredIsRecorded ==
  []<>(\A id \in DOMAIN told : told[id].status # 0 =>
         id \in lost \/ \E i \in DOMAIN rows : rows[i].of = id)

(***************************************************************************)
(* The inductive invariant behind the properties of the rows.              *)
(***************************************************************************)

(* A handler announces what it likes and then answers once, as those of    *)
(* the gateway and the reverse proxy do, or writes no status at all.       *)
OneFinalStatus ==
  \A codes \in Answers : \A i \in DOMAIN codes : codes[i] >= 200 <=> i = Len(codes)

(* The fingerprint is one of a request with the same key that began        *)
(* shortly before the request id.                                          *)
RecentFor(fp, id) ==
  \E j \in DOMAIN told :
    /\ fp = JA4H(told[j].client)
    /\ told[j].client.key = told[id].client.key
    /\ told[j].began \in told[id].began - JA4TTL .. told[id].began

(* A cached fingerprint was computed for a request that began just then.   *)
CachedFingerprints ==
  \A k \in Keys : ja4[k] # NotSet =>
    /\ ja4[k].at <= now
    /\ \E j \in DOMAIN told :
         /\ ja4[k].fp = JA4H(told[j].client)
         /\ told[j].client.key = k
         /\ told[j].began = ja4[k].at

(* Requests under way have ids of their own, and no row yet.               *)
UnderWay(r) ==
  LET q == req[r] IN
  q.step # "idle" =>
    /\ q.id \in DOMAIN told
    /\ q.id \notin lost
    /\ \A i \in DOMAIN rows : rows[i].of # q.id
    /\ \A s \in Requests \ {r} : req[s].step # "idle" => req[s].id # q.id
    /\ q.at = told[q.id].began
    /\ RecentFor(q.fp, q.id)

(* What is noted of a request when its handler has returned.               *)
Noted(r) ==
  LET q == req[r]
      t == told[q.id] IN
  q.step = "record" =>
    /\ OneFinalStatus => q.status = t.status
    /\ q.at + q.ns = t.ended
    /\ lookup[r].addr = t.client.addr
    /\ lookup[r].began = t.ended

(* What RowsTellTheTruth, LocationsAreFresh and FingerprintsAreRecent say  *)
(* of one row.                                                             *)
RowGood(i) ==
  LET row == rows[i]
      t == told[row.of] IN
  /\ row.of \in DOMAIN told
  /\ row.of \notin lost
  /\ OneFinalStatus => row.status = t.status
  /\ row.user = t.client.user
  /\ row.at = t.began
  /\ row.at + row.ns = t.ended
  /\ row.place # Nowhere =>
       /\ t.client.addr \notin Loopback
       /\ row.place.addr = t.client.addr
       /\ t.ended - row.place.said < GeoTTL + GeoTimeout
  /\ RecentFor(row.fp, row.of)

OneRowEach == \A i, j \in DOMAIN rows : rows[i].of = rows[j].of => i = j

(* Behind ReportsAddUp: each statement has counted the rows that were in   *)
(* the table when it ran, read, as far as it does not hide them.           *)
Accounts(read, k) ==
  LET counted == Counted(Columns[k], report.result[k]) IN
  /\ report.seen \subseteq read[k]
  /\ \A j \in 1 .. k : read[j] \subseteq read[k]
  /\ counted \in Nat
  /\ Cardinality(read[k] \ Hidden(Columns[k])) <= counted
  /\ counted <= Cardinality(read[k])

ReportInv ==
  LET listed == ListRequestDetails(report.from, report.to) IN
  /\ report.result = [k \in 1 .. Len(report.result) |-> report.result[k]]
  /\ Len(report.result) = IF report.step = 0 THEN 0 ELSE report.step - 1
  /\ report.step # 0 => report.seen \subseteq listed
  /\ \E read \in [DOMAIN report.result -> SUBSET listed] :
       \A k \in DOMAIN read : Accounts(read, k)

TrafficInv ==
  /\ TypeOK
  /\ GeoInv
  /\ CachedFingerprints
  /\ \A r \in Requests : UnderWay(r) /\ Noted(r)
  /\ \A i \in DOMAIN rows : RowGood(i)
  /\ OneRowEach
=============================================================================
