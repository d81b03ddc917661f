----------------------------- MODULE RateLimiter -----------------------------
(***************************************************************************)
(* The in-memory rate limiter: a map from client address to entry, the     *)
(* requests that pass through Handler, and cleanupLoop.  An entry is       *)
(* guarded by its own mutex; the map is a sync.Map.  A request looks its   *)
(* entry up first and locks it later, so the cleanup may remove from the   *)
(* map an entry that a request is about to write to.                       *)
(***************************************************************************)
EXTENDS Naturals, Sequences, FiniteSets

CONSTANTS
  Ips,         \* client addresses
  Handlers,    \* slots for requests under way
  EntryIds,    \* addresses of rateEntry objects
  None,        \* no entry
  RPM,         \* requestsPerMinute, 0: no limit
  MaxErrors,   \* maxErrors, 0: no limit
  Window,      \* one minute
  Block,       \* blockMinutes, which validation requires to be positive
  Max404,      \* vulnerabilityScan.max404, 0: no limit
  ScanBlock,   \* vulnerabilityScan.blockMinutes
  ScanURLs,    \* TRUE: vulnerabilityScan.urls is not empty
  Statuses,    \* what the next handler may answer
  MaxTime      \* bound of the clock

ASSUME RateLimiterConstants ==
  /\ None \notin EntryIds
  /\ IsFiniteSet(Handlers)
  /\ RPM \in Nat /\ MaxErrors \in Nat /\ Max404 \in Nat /\ ScanBlock \in Nat
  /\ Window \in Nat \ {0}
  /\ Block \in Nat /\ Block >= Window
  /\ ScanURLs \in BOOLEAN
  /\ Max404 > 0 => ScanURLs /\ ScanBlock > 0
  /\ Statuses \subseteq {"ok", "unauthorized", "notfound", "scan404"}
  /\ MaxTime \in Nat

VARIABLES
  table,     \* entries: address -> entry or None
  heap,      \* the rateEntry objects
  req,       \* the request in each slot
  cleaner,   \* the cleanup goroutine and its ticker
  clock,     \* time.Now()
  admitted,  \* history: the timestamps of the requests let through by the entry
             \* in the map
  awaited    \* history: the end of the block a request met when it arrived

vars == <<table, heap, req, cleaner, clock, admitted, awaited>>

Entry == [requests: Seq(Nat), errors: Seq(Nat), scan404: Seq(Nat), blockedUntil: Nat]

NewEntry == [requests |-> <<>>, errors |-> <<>>, scan404 |-> <<>>, blockedUntil |-> 0]

(* A request, the error of a request, and the 404 of a watched path are    *)
(* recorded one after the other.                                           *)
Handler == [step: {"idle", "entry", "stamp", "lock", "serve"},
            kind: {"request", "error", "scan"}, watched: BOOLEAN,
            ip: Ips \cup {None}, entry: EntryIds \cup {None}, now: Nat]

NoHandler == [step |-> "idle", kind |-> "request", watched |-> FALSE,
              ip |-> None, entry |-> None, now |-> 0]

(* tick is the value waiting in ticker.C, 0 when there is none. *)
Cleaner == [tick: Nat, now: Nat, todo: SUBSET Ips]

(* trim drops timestamps from the front, as many as have none but old ones *)
(* up to them; a window of 0 keeps them all.                               *)
Recent(stamps, window, now) ==
  LET old == {n \in 1 .. Len(stamps) :
                window > 0 /\ \A i \in 1 .. n : stamps[i] + window <= now}
  IN  SubSeq(stamps, Cardinality(old) + 1, Len(stamps))

Trim(e, now) ==
  [e EXCEPT !.requests = Recent(@, Window, now),
            !.errors = Recent(@, Block, now),
            !.scan404 = Recent(@, ScanBlock, now)]

(* Broken variant: one more than the limit. *)
ExceedsLate(stamps, limit) == limit > 0 /\ Len(stamps) > limit + 1

Exceeds(stamps, limit) == limit > 0 /\ Len(stamps) > limit

Become(r, q) == req' = [req EXCEPT ![r] = q]

BlockOf(ip) == IF table[ip] = None THEN 0 ELSE heap[table[ip]].blockedUntil

(* The objects the garbage collector cannot have collected. *)
Reachable == {table[ip] : ip \in Ips} \cup {req[r].entry : r \in Handlers}

Write(q, e) == heap' = [heap EXCEPT ![q.entry] = e]

(* An error or a scan assigns blockedUntil without comparing.  History: who *)
(* awaits the end of a longer block on that entry now awaits the shorter.   *)
Overwrite(q, e) ==
  /\ Write(q, e)
  /\ awaited' = [r \in Handlers |->
       IF /\ req[r].step # "idle" /\ table[req[r].ip] = q.entry
          /\ e.blockedUntil < awaited[r]
       THEN e.blockedUntil ELSE awaited[r]]

(* History: a request let through by an entry that is no longer in the map *)
(* is counted nowhere.                                                     *)
Admit(q) ==
  admitted' = IF table[q.ip] = q.entry
              THEN [admitted EXCEPT ![q.ip] = Append(@, q.now)] ELSE admitted

-----------------------------------------------------------------------------
Init ==
  /\ table = [ip \in Ips |-> None]
  /\ heap = [id \in EntryIds |-> NewEntry]
  /\ req = [r \in Handlers |-> NoHandler]
  /\ cleaner = [tick |-> 0, now |-> 0, todo |-> {}]
  /\ clock = 1
  /\ admitted = [ip \in Ips |-> <<>>]
  /\ awaited = [r \in Handlers |-> 0]

(* now := time.Now() *)
Arrive(r, ip) ==
  /\ req[r].step = "idle"
  /\ Become(r, [NoHandler EXCEPT !.step = "entry", !.ip = ip, !.now = clock])
  /\ awaited' = [awaited EXCEPT ![r] = BlockOf(ip)]
  /\ UNCHANGED <<table, heap, cleaner, clock, admitted>>

(* Broken variant: LoadOrStore of a nil pointer. *)
GetEntryNil(r) ==
  LET q == req[r] IN
  /\ q.step = "entry"
  /\ table[q.ip] = None
  /\ \E id \in EntryIds \ Reachable :
       /\ table' = [table EXCEPT ![q.ip] = id]
       /\ heap' = [heap EXCEPT ![id] = None]
       /\ Become(r, [q EXCEPT !.entry = id, !.step = "lock"])
  /\ UNCHANGED <<cleaner, clock, admitted, awaited>>

(* Load, or LoadOrStore of a new entry. *)
GetEntry(r) ==
  LET q == req[r]
      Found(id) == Become(r, [q EXCEPT !.entry = id,
                                !.step = IF q.kind = "request" THEN "lock" ELSE "stamp"])
  IN
  /\ q.step = "entry"
  /\ \/ /\ table[q.ip] # None
        /\ Found(table[q.ip])
        /\ UNCHANGED <<table, heap>>
     \/ /\ table[q.ip] = None
        /\ \E id \in EntryIds \ Reachable :
             /\ table' = [table EXCEPT ![q.ip] = id]
             /\ heap' = [heap EXCEPT ![id] = NewEntry]
             /\ Found(id)
  /\ UNCHANGED <<cleaner, clock, admitted, awaited>>

(* Errors and watched paths are stamped after the lookup. *)
Stamp(r) ==
  /\ req[r].step = "stamp"
  /\ Become(r, [req[r] EXCEPT !.step = "lock", !.now = clock])
  /\ UNCHANGED <<table, heap, cleaner, clock, admitted, awaited>>

(* The entry is blocked: 429, and nothing is recorded. *)
Refuse(r) ==
  LET q == req[r] IN
  /\ q.step = "lock" /\ q.kind = "request"
  /\ q.now < heap[q.entry].blockedUntil
  /\ Become(r, NoHandler)
  /\ UNCHANGED <<table, heap, cleaner, clock, admitted, awaited>>

(* Broken variant: the block is not looked at. *)
LimitUnblocked(r) ==
  LET q == req[r]
      e == Trim([heap[q.entry] EXCEPT !.requests = Append(@, q.now)], q.now)
  IN
  /\ q.step = "lock" /\ q.kind = "request"
  /\ \/ /\ Exceeds(e.requests, RPM)
        /\ Write(q, [e EXCEPT !.blockedUntil = q.now + Block])
        /\ Become(r, NoHandler)
        /\ UNCHANGED admitted
     \/ /\ ~Exceeds(e.requests, RPM)
        /\ Write(q, e)
        /\ Become(r, [q EXCEPT !.step = "serve", !.entry = None])
        /\ Admit(q)
  /\ UNCHANGED <<table, cleaner, clock, awaited>>

(* The request is recorded, and blocks its address or is served. *)
Limit(r) ==
  LET q == req[r]
      e == Trim([heap[q.entry] EXCEPT !.requests = Append(@, q.now)], q.now)
  IN
  /\ q.step = "lock" /\ q.kind = "request"
  /\ q.now >= heap[q.entry].blockedUntil
  /\ \/ /\ Exceeds(e.requests, RPM)
        /\ Write(q, [e EXCEPT !.blockedUntil = q.now + Block])
        /\ Become(r, NoHandler)
        /\ UNCHANGED admitted
     \/ /\ ~Exceeds(e.requests, RPM)
        /\ Write(q, e)
        /\ Become(r, [q EXCEPT !.step = "serve", !.entry = None])
        /\ Admit(q)
  /\ UNCHANGED <<table, cleaner, clock, awaited>>

(* next.ServeHTTP, and the status it wrote. *)
Serve(r, status) ==
  /\ req[r].step = "serve"
  /\ Become(r, IF status = "ok" THEN NoHandler
               ELSE [req[r] EXCEPT !.step = "entry", !.kind = "error",
                       !.watched = ScanURLs /\ status = "scan404"])
  /\ UNCHANGED <<table, heap, cleaner, clock, admitted, awaited>>

(* A 401 or a 404. *)
RecordError(r) ==
  LET q == req[r]
      e == Trim([heap[q.entry] EXCEPT !.errors = Append(@, q.now)], q.now)
  IN
  /\ q.step = "lock" /\ q.kind = "error"
  /\ Overwrite(q, IF Exceeds(e.errors, MaxErrors)
                  THEN [e EXCEPT !.blockedUntil = q.now + Block] ELSE e)
  /\ Become(r, IF q.watched
               THEN [q EXCEPT !.step = "entry", !.kind = "scan", !.entry = None]
               ELSE NoHandler)
  /\ UNCHANGED <<table, cleaner, clock, admitted>>

(* The 404 of a watched path. *)
RecordScan(r) ==
  LET q == req[r]
      e == Trim([heap[q.entry] EXCEPT !.scan404 = Append(@, q.now)], q.now)
  IN
  /\ q.step = "lock" /\ q.kind = "scan"
  /\ Overwrite(q, IF Exceeds(e.scan404, Max404)
                  THEN [e EXCEPT !.blockedUntil = q.now + ScanBlock] ELSE e)
  /\ Become(r, NoHandler)
  /\ UNCHANGED <<table, cleaner, clock, admitted>>

-----------------------------------------------------------------------------
(* The range over the map visits the keys that are in it, and may or may   *)
(* not visit those that are stored meanwhile.                              *)
StartSweep ==
  /\ cleaner.tick # 0
  /\ cleaner.todo = {}
  /\ \E keys \in SUBSET Ips :
       /\ {ip \in Ips : table[ip] # None} \subseteq keys
       /\ cleaner' = [tick |-> 0, now |-> cleaner.tick, todo |-> keys]
  /\ UNCHANGED <<table, heap, req, clock, admitted, awaited>>

(* Broken variant: an empty entry is removed though it is blocked. *)
SweepBlocked(ip) ==
  LET e == Trim(heap[table[ip]], cleaner.now) IN
  /\ ip \in cleaner.todo
  /\ cleaner' = [cleaner EXCEPT !.todo = @ \ {ip}]
  /\ \/ table[ip] = None /\ UNCHANGED <<table, heap>>
     \/ /\ table[ip] # None
        /\ heap' = [heap EXCEPT ![table[ip]] = e]
        /\ table' = [table EXCEPT ![ip] =
             IF e.requests = <<>> /\ e.errors = <<>> /\ e.scan404 = <<>> THEN None ELSE @]
  /\ UNCHANGED <<req, clock, admitted, awaited>>

(* Broken variant: the entry is removed only if it was empty before. *)
SweepUntrimmed(ip) ==
  LET e == heap[table[ip]] IN
  /\ ip \in cleaner.todo
  /\ cleaner' = [cleaner EXCEPT !.todo = @ \ {ip}]
  /\ \/ table[ip] = None /\ UNCHANGED <<table, heap>>
     \/ /\ table[ip] # None
        /\ heap' = [heap EXCEPT ![table[ip]] = Trim(e, cleaner.now)]
        /\ table' = [table EXCEPT ![ip] =
             IF /\ e.blockedUntil < cleaner.now
                /\ e.requests = <<>> /\ e.errors = <<>> /\ e.scan404 = <<>>
             THEN None ELSE @]
  /\ UNCHANGED <<req, clock, admitted, awaited>>

(* An entry without recent timestamps and without a block is deleted. *)
Sweep(ip) ==
  LET e == Trim(heap[table[ip]], cleaner.now) IN
  /\ ip \in cleaner.todo
  /\ cleaner' = [cleaner EXCEPT !.todo = @ \ {ip}]
  /\ \/ table[ip] = None /\ UNCHANGED <<table, heap>>
     \/ /\ table[ip] # None
        /\ heap' = [heap EXCEPT ![table[ip]] = e]
        /\ table' = [table EXCEPT ![ip] =
             IF /\ e.blockedUntil < cleaner.now
                /\ e.requests = <<>> /\ e.errors = <<>> /\ e.scan404 = <<>>
             THEN None ELSE @]
  /\ UNCHANGED <<req, clock, admitted, awaited>>

(* Time passes.  The ticker fires every Block, and drops the tick when the *)
(* one before has not been taken.                                          *)
Tick ==
  /\ clock < MaxTime
  /\ clock' = clock + 1
  /\ cleaner' = IF cleaner.tick = 0 /\ clock % Block = 0
                THEN [cleaner EXCEPT !.tick = clock'] ELSE cleaner
  /\ UNCHANGED <<table, heap, req, admitted, awaited>>

Handle(r) ==
  \/ GetEntry(r) \/ Stamp(r) \/ Refuse(r) \/ Limit(r)
  \/ \E status \in Statuses : Serve(r, status)
  \/ RecordError(r) \/ RecordScan(r)

Next ==
  \/ \E r \in Handlers, ip \in Ips : Arrive(r, ip)
  \/ \E r \in Handlers : Handle(r)
  \/ StartSweep
  \/ \E ip \in Ips : Sweep(ip)
  \/ Tick

Spec == Init /\ [][Next]_vars

-----------------------------------------------------------------------------
(* The types of the variables. *)
TypeOK ==
  /\ table \in [Ips -> EntryIds \cup {None}]
  /\ heap \in [EntryIds -> Entry]
  /\ req \in [Handlers -> Handler]
  /\ cleaner \in Cleaner
  /\ clock \in Nat
  /\ admitted \in [Ips -> Seq(Nat)]
  /\ awaited \in [Handlers -> Nat]

(***************************************************************************)
(* "How long a blocked IP stays blocked": a request that arrives while the *)
(* entry in the map is blocked is not served before that block ends,       *)
(* whatever other requests and the cleanup do before it gets the lock; or, *)
(* if an error or a scan recorded meanwhile has assigned a shorter block,  *)
(* not before the shortest.  With one limit nothing shortens a block.      *)
(***************************************************************************)
BlockedNotServed == \A r \in Handlers : req[r].step = "serve" => awaited[r] <= clock

(***************************************************************************)
(* The cleanup never forgets a block that still runs, though the tick it   *)
(* works with may be old by then.                                          *)
(***************************************************************************)
BlockSurvivesCleanup ==
  [][\A ip \in Ips : BlockOf(ip) > clock => table'[ip] = table[ip]]_vars

(***************************************************************************)
(* Memory: an entry never holds more request timestamps than the limit and *)
(* one for each request under way.                                         *)
(***************************************************************************)
RequestsBounded ==
  RPM > 0 => \A id \in EntryIds : Len(heap[id].requests) <= RPM + Cardinality(Handlers)

(***************************************************************************)
(* The cleanup forgets an address whose timestamps are all older than      *)
(* their windows, in whatever order they were recorded, and whose block is *)
(* over.                                                                   *)
(***************************************************************************)
Old(stamps, window) == \A i \in DOMAIN stamps : stamps[i] + window <= cleaner.now

Stale(e) ==
  /\ e.blockedUntil < cleaner.now
  /\ Old(e.requests, Window) /\ Old(e.errors, Block)
  /\ Old(e.scan404, IF ScanBlock > 0 THEN ScanBlock ELSE Block)

CleanupForgets ==
  [][\A ip \in cleaner.todo \ cleaner'.todo :
       table[ip] # None /\ Stale(heap[table[ip]]) => table'[ip] = None]_vars

InWindow(stamps, t) == {i \in DOMAIN stamps : stamps[i] <= t /\ stamps[i] + Window > t}

(***************************************************************************)
(* "Max requests per IP per 60s window": of the requests stamped within    *)
(* the window that ends now, the entry in the map has let through at most  *)
(* the limit, in whatever order they were recorded and trimmed, and        *)
(* whatever the other limits and the cleanup did.  A window that ended     *)
(* earlier may get more from the requests that were under way then, and    *)
(* carry its timestamps to their lock.                                     *)
(***************************************************************************)
AtMostRPM ==
  RPM > 0 => \A ip \in Ips, t \in 1 .. clock :
    Cardinality(InWindow(admitted[ip], t))
      <= RPM + IF t = clock THEN 0 ELSE Cardinality(Handlers)

(***************************************************************************)
(* The inductive invariant behind the blocks.                              *)
(***************************************************************************)
(* The cleanup works with a time that has been. *)
TicksPast == cleaner.tick <= clock /\ cleaner.now <= clock

Placed ==
  \A r \in Handlers :
    /\ req[r].step # "idle" => req[r].ip \in Ips
    /\ req[r].step \in {"stamp", "lock"} => req[r].entry \in EntryIds
    /\ req[r].now <= clock
    /\ req[r].kind = "request" => req[r].step # "stamp"

(* The block a request awaits is on the entry in the map, which is the one *)
(* the request will get, or has got.                                       *)
BlocksHold ==
  \A r \in Handlers : req[r].step # "idle" /\ awaited[r] > clock =>
    /\ req[r].kind = "request" /\ req[r].step \in {"entry", "lock"}
    /\ BlockOf(req[r].ip) >= awaited[r]
    /\ req[r].step = "lock" => req[r].entry = table[req[r].ip]

LimiterInv == TypeOK /\ TicksPast /\ Placed

(***************************************************************************)
(* The inductive invariant behind RequestsBounded.  What is beyond the     *)
(* limit in an entry was let in after the block of the one before, and is  *)
(* there only because a later timestamp is in front of it.                 *)
(***************************************************************************)
RequestLimitOnly == MaxErrors = 0 /\ Max404 = 0

BeyondLimit(e) ==
  LET s == e.requests IN
  /\ Len(s) > RPM => e.blockedUntil = s[Len(s)] + Block
  /\ \A i, j \in RPM + 1 .. Len(s) : i < j => s[i] + Block <= s[j] /\ s[i] < s[1]

(* Timestamps behind the p-th that are earlier than it. *)
Late(s, p) == {j \in p + 1 .. Len(s) : s[j] < s[p]}

(* Slots of requests that may still record a timestamp earlier than t. *)
Early(slots, t) ==
  {r \in Handlers : /\ slots[r].kind = "request" /\ slots[r].step \in {"entry", "lock"}
                    /\ slots[r].now < t}

(* A timestamp is overtaken by requests that were under way with it. *)
Overtaken(s, now, slots) ==
  \A p \in 1 .. Len(s) :
    /\ s[p] <= now
    /\ Cardinality(Late(s, p)) + Cardinality(Early(slots, s[p])) < Cardinality(Handlers)

Crowded ==
  \A id \in EntryIds :
    BeyondLimit(heap[id]) /\ Overtaken(heap[id].requests, clock, req)

CrowdInv == RequestLimitOnly /\ RPM > 0 => Crowded

(* Behind CleanupForgets: without watched paths there are no scans. *)
NoScans ==
  /\ \A r \in Handlers : ~req[r].watched /\ req[r].kind # "scan"
  /\ \A id \in EntryIds : heap[id].scan404 = <<>>

ScanInv == ~ScanURLs => NoScans

(***************************************************************************)
(* The inductive invariant behind AtMostRPM.  However the clock moves on,  *)
(* there are as many timestamps on the entry in the map that are not old   *)
(* as of requests it has let through; and who may still join a window that *)
(* has ended was under way when it did.                                    *)
(***************************************************************************)
Fresh(stamps, t) == {i \in DOMAIN stamps : stamps[i] + Window > t}

Stamps(ip) == IF table[ip] = None THEN <<>> ELSE heap[table[ip]].requests

OnRecord(through, stamps, now) ==
  \A t \in Nat : t >= now =>
    Cardinality(Fresh(through, t)) <= Cardinality(Fresh(stamps, t))

Within(through, now) ==
  \A t \in Nat : t >= now => Cardinality(Fresh(through, t)) <= RPM

LateOnes(through, now, slots) ==
  \A t \in Nat : t < now =>
    Cardinality(InWindow(through, t)) + Cardinality(Early(slots, t + 1))
      <= RPM + Cardinality(Handlers)

AllCounted ==
  \A ip \in Ips : /\ OnRecord(admitted[ip], Stamps(ip), clock)
                  /\ Within(admitted[ip], clock)
                  /\ LateOnes(admitted[ip], clock, req)

CountInv == RPM > 0 => AllCounted
=============================================================================
