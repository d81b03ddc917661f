------------------------------ MODULE GeoCache ------------------------------
(***************************************************************************)
(* The geolocation of client addresses (session/ipgeo.go): a process-wide  *)
(* map of answers, read and written under a lock that is not held while    *)
(* the web service is asked.  Lookups run in the goroutine of their        *)
(* request, and several may ask about one address at a time:               *)
(*                                                                         *)
(*   RLock, read, RUnlock ; ask the service ; Lock, write, Unlock          *)
(***************************************************************************)
EXTENDS Integers

CONSTANTS
  Requests,     \* request slots: at most one lookup in each
  Addresses,    \* IP addresses of clients
  Loopback,     \* those that are local
  GeoTTL,       \* the lifetime of an entry: 7 days, in ticks
  GeoTimeout,   \* the timeout of the HTTP client: 5 seconds, in ticks
  Nowhere,      \* the empty GeoData
  NotCached     \* no entry

ASSUME GeoConstants ==
  /\ Addresses # {}
  /\ Loopback \subseteq Addresses
  /\ GeoTTL \in Nat \ {0}
  /\ GeoTimeout \in Nat

VARIABLES
  now,      \* the clock
  geo,      \* ipCache.cache
  lookup    \* the call of GetGeoDataFromIP in each slot

geoVars == <<geo, lookup>>

(* An answer is told apart by the address it is for and the moment at      *)
(* which the service gave it.  FreeIPAPI and IPLocate answer alike.        *)
Answer == [addr: Addresses, said: Nat]

(* The Timestamp of an entry is the moment at which it was decoded. *)
Entry == [data: Answer, at: Nat]

Lookup == [step: {"none", "fetch", "store", "done"}, addr: Addresses,
           began: Nat, result: Entry \cup {Nowhere}]

NoLookup == [step |-> "none", addr |-> CHOOSE a \in Addresses : TRUE,
             began |-> 0, result |-> Nowhere]

GeoInit ==
  /\ geo = [a \in Addresses |-> NotCached]
  /\ lookup = [r \in Requests |-> NoLookup]

(* Broken variant: an entry is good for as long as it is there. *)
UsableForever(entry) == entry # NotCached

(* Whether a lookup is served from the cache. *)
Usable(entry) == entry # NotCached /\ now - entry.at < GeoTTL

(* GetGeoDataFromIP is called for the address a: nothing is looked up for  *)
(* a local one; otherwise the first critical section follows.              *)
GetGeoData(r, a) ==
  LET q == [NoLookup EXCEPT !.addr = a, !.began = now] IN
  /\ lookup' = [lookup EXCEPT ![r] =
       IF a \in Loopback THEN [q EXCEPT !.step = "done"]
       ELSE IF Usable(geo[a]) THEN [q EXCEPT !.step = "done", !.result = geo[a]]
       ELSE [q EXCEPT !.step = "fetch"]]
  /\ UNCHANGED geo

(* The service has answered in time, with what it said at some moment of   *)
(* the call.                                                               *)
FetchGeo(r, said) ==
  LET q == lookup[r] IN
  /\ q.step = "fetch"
  /\ said \in q.began .. now
  /\ lookup' = [lookup EXCEPT ![r] =
       [q EXCEPT !.step = "store",
                 !.result = [data |-> [addr |-> q.addr, said |-> said], at |-> now]]]
  /\ UNCHANGED geo

(* Broken variant: the client has no timeout, and waits for a service that *)
(* does not answer.                                                        *)
FetchNeverFails(r) == FALSE /\ UNCHANGED geoVars

(* Broken variant: the failure is remembered as an empty location. *)
FetchFailsCached(r) ==
  LET q == lookup[r] IN
  /\ q.step = "fetch"
  /\ lookup' = [lookup EXCEPT ![r] =
       [q EXCEPT !.step = "store",
                 !.result = [data |-> Nowhere, at |-> now]]]
  /\ UNCHANGED geo

(* The timeout, another status than 200, an answer that is not JSON: the   *)
(* cache, with an expired entry if there is one, stays as it is.           *)
FetchFails(r) ==
  /\ lookup[r].step = "fetch"
  /\ lookup' = [lookup EXCEPT ![r].step = "done"]
  /\ UNCHANGED geo

(* The second critical section, whatever has been stored meanwhile. *)
StoreGeo(r) ==
  LET q == lookup[r] IN
  /\ q.step = "store"
  /\ geo' = [geo EXCEPT ![q.addr] = q.result]
  /\ lookup' = [lookup EXCEPT ![r].step = "done"]

GeoStep(r) ==
  \/ \E said \in 0 .. now : FetchGeo(r, said)
  \/ FetchFails(r)
  \/ StoreGeo(r)

(* No call of the service outlasts its timeout. *)
InTime ==
  \A r \in Requests :
    lookup[r].step = "fetch" => now < lookup[r].began + GeoTimeout

Location(r) == IF lookup[r].result = Nowhere THEN Nowhere ELSE lookup[r].result.data

GeoTypeOK ==
  /\ geo \in [Addresses -> Entry \cup {NotCached}]
  /\ lookup \in [Requests -> Lookup]

(***************************************************************************)
(* What holds of the cache and of the lookups between any two steps.       *)
(***************************************************************************)

(* An entry for the address a: an answer for it, decoded while the call    *)
(* that brought it was in time.                                            *)
EntryFor(e, a) ==
  /\ e \in Entry
  /\ e.data.addr = a
  /\ e.at - e.data.said <= GeoTimeout

CacheGood == \A a \in Addresses : geo[a] # NotCached => EntryFor(geo[a], a)

(* A call is in time; what it has found is for its address and, from when  *)
(* the lookup began, no older than an entry may become.                    *)
LookupGood(q) ==
  /\ q.step = "fetch" => /\ q.result = Nowhere /\ q.addr \notin Loopback
                         /\ q.began <= now /\ now <= q.began + GeoTimeout
  /\ q.step = "store" => EntryFor(q.result, q.addr)
  /\ q.result # Nowhere =>
       /\ q.addr \notin Loopback
       /\ q.result.data.addr = q.addr
       /\ q.began - q.result.data.said < GeoTTL + GeoTimeout

GeoInv == GeoTypeOK /\ CacheGood /\ \A r \in Requests : LookupGood(lookup[r])
=============================================================================
