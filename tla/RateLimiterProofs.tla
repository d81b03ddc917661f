--------------------------- MODULE RateLimiterProofs ---------------------------
(* Theorems of RateLimiter, for every set of addresses and request slots,  *)
(* and for every limit, window and block.                                  *)
EXTENDS RateLimiter, TLAPS, FiniteSetTheorems, SequenceTheorems, WellFoundedInduction

-----------------------------------------------------------------------------
(* What trim makes of an entry. *)

LEMMA RecentIsSeq ==
  ASSUME NEW stamps \in Seq(Nat), NEW window, NEW now
  PROVE  Recent(stamps, window, now) \in Seq(Nat)
<1> DEFINE old == {n \in 1 .. Len(stamps) :
                     window > 0 /\ \A i \in 1 .. n : stamps[i] + window <= now}
           m == Cardinality(old) + 1
<1>1. Len(stamps) \in Nat
  OBVIOUS
<1>2. old \in SUBSET (1 .. Len(stamps))
  OBVIOUS
<1> HIDE DEF old
<1>3. IsFiniteSet(1 .. Len(stamps))
  BY <1>1, FS_Interval
<1>4. Cardinality(old) \in Nat
  BY <1>2, <1>3, FS_Subset, FS_CardinalityType
<1>5. SubSeq(stamps, m, Len(stamps)) \in Seq(Nat)
  BY <1>1, <1>4, SubSeqProperties
<1> QED BY <1>5 DEF Recent, old

(* trim leaves an entry an entry, and its block as it is. *)
LEMMA TrimKeeps ==
  ASSUME NEW e \in Entry, NEW now
  PROVE  Trim(e, now) \in Entry /\ Trim(e, now).blockedUntil = e.blockedUntil
BY RecentIsSeq DEF Trim, Entry

LEMMA AppendKeeps ==
  ASSUME NEW e \in Entry, NEW now \in Nat
  PROVE  /\ [e EXCEPT !.requests = Append(@, now)] \in Entry
         /\ [e EXCEPT !.errors = Append(@, now)] \in Entry
         /\ [e EXCEPT !.scan404 = Append(@, now)] \in Entry
         /\ [e EXCEPT !.requests = Append(@, now)].blockedUntil = e.blockedUntil
         /\ [e EXCEPT !.errors = Append(@, now)].blockedUntil = e.blockedUntil
         /\ [e EXCEPT !.scan404 = Append(@, now)].blockedUntil = e.blockedUntil
<1>1. /\ Append(e.requests, now) \in Seq(Nat)
      /\ Append(e.errors, now) \in Seq(Nat)
      /\ Append(e.scan404, now) \in Seq(Nat)
  BY AppendProperties DEF Entry
<1> QED BY <1>1 DEF Entry

LEMMA BlockingKeeps ==
  ASSUME NEW e \in Entry, NEW until \in Nat
  PROVE  /\ [e EXCEPT !.blockedUntil = until] \in Entry
         /\ [e EXCEPT !.blockedUntil = until].blockedUntil = until
BY DEF Entry

LEMMA NewTypes == NewEntry \in Entry /\ NoHandler \in Handler
BY DEF NewEntry, Entry, NoHandler, Handler

-----------------------------------------------------------------------------
(* Types, and where the requests under way are. *)

SlotPlaced(q, now) ==
  /\ q.step # "idle" => q.ip \in Ips
  /\ q.step \in {"stamp", "lock"} => q.entry \in EntryIds
  /\ q.now <= now
  /\ q.kind = "request" => q.step # "stamp"

LEMMA PlacedBySlot ==
  /\ Placed <=> \A r \in Handlers : SlotPlaced(req[r], clock)
  /\ Placed' <=> \A r \in Handlers : SlotPlaced(req'[r], clock')
BY DEF Placed, SlotPlaced

LEMMA WriteTypes ==
  ASSUME TypeOK, NEW q, NEW e \in Entry, Write(q, e)
  PROVE  heap' \in [EntryIds -> Entry]
BY DEF Write, TypeOK

LEMMA OverwriteTypes ==
  ASSUME TypeOK, NEW q, NEW e \in Entry, Overwrite(q, e)
  PROVE  heap' \in [EntryIds -> Entry] /\ awaited' \in [Handlers -> Nat]
<1>1. e.blockedUntil \in Nat
  BY DEF Entry
<1> QED BY <1>1, WriteTypes DEF Overwrite, TypeOK

(* A step of the request in slot r keeps the invariant, if it leaves the   *)
(* request well placed and the rest of the state well typed.               *)
LEMMA OneMoves ==
  ASSUME LimiterInv, NEW r \in Handlers, NEW q \in Handler,
         req' = [req EXCEPT ![r] = q], SlotPlaced(q, clock),
         table' \in [Ips -> EntryIds \cup {None}], heap' \in [EntryIds -> Entry],
         admitted' \in [Ips -> Seq(Nat)], awaited' \in [Handlers -> Nat],
         cleaner' = cleaner, clock' = clock
  PROVE  LimiterInv'
<1>1. TypeOK'
  BY DEF LimiterInv, TypeOK
<1>2. \A s \in Handlers : SlotPlaced(req'[s], clock')
  BY PlacedBySlot DEF LimiterInv, TypeOK
<1> QED BY <1>1, <1>2, PlacedBySlot DEF LimiterInv, TicksPast

LEMMA ArrivalTypes ==
  ASSUME NEW h \in Handler, h.kind = "request",
         NEW ip \in Ips, NEW now \in Nat
  PROVE  LET q == [h EXCEPT !.step = "entry", !.ip = ip, !.now = now]
         IN  q \in Handler /\ SlotPlaced(q, now)
<1> DEFINE q == [h EXCEPT !.step = "entry", !.ip = ip, !.now = now]
<1>1. q \in Handler
  BY DEF Handler
<1>2. q.step = "entry" /\ q.ip = ip /\ q.now = now /\ q.kind = "request"
  BY DEF Handler
<1>3. SlotPlaced(q, now)
  <2> HIDE DEF q
  <2> QED BY <1>2 DEF SlotPlaced
<1> QED BY <1>1, <1>3

LEMMA LimiterInit == Init => LimiterInv
<1> SUFFICES ASSUME Init PROVE LimiterInv
  OBVIOUS
<1>1. TypeOK
  BY NewTypes DEF Init, TypeOK, Cleaner
<1>2. \A r \in Handlers : SlotPlaced(req[r], clock)
  BY DEF Init, SlotPlaced, NoHandler
<1> QED BY <1>1, <1>2, PlacedBySlot DEF LimiterInv, TicksPast, Init

LEMMA LimiterNext ==
  ASSUME LimiterInv, [Next]_vars
  PROVE  LimiterInv'
<1> USE RateLimiterConstants
<1>0. /\ TypeOK /\ NoHandler \in Handler /\ SlotPlaced(NoHandler, clock)
      /\ clock \in Nat
      /\ \A r \in Handlers : req[r] \in Handler /\ SlotPlaced(req[r], clock)
  BY NewTypes, PlacedBySlot DEF LimiterInv, TypeOK, SlotPlaced, NoHandler
<1>1. ASSUME NEW r \in Handlers, NEW ip \in Ips, Arrive(r, ip) PROVE LimiterInv'
  <2> DEFINE q == [NoHandler EXCEPT !.step = "entry", !.ip = ip, !.now = clock]
  <2>1. awaited' \in [Handlers -> Nat]
    <3>1. BlockOf(ip) \in Nat
      BY <1>0 DEF BlockOf, TypeOK, Entry
    <3> QED BY <1>0, <1>1, <3>1 DEF Arrive, TypeOK
  <2>2. q \in Handler /\ SlotPlaced(q, clock)
    <3>1. NoHandler.kind = "request"
      BY DEF NoHandler
    <3> QED BY <1>0, <3>1, ArrivalTypes
  <2>3. req' = [req EXCEPT ![r] = q]
    BY <1>1 DEF Arrive, Become
  <2> HIDE DEF q
  <2> QED BY <1>0, <1>1, <2>1, <2>2, <2>3, OneMoves DEF Arrive, TypeOK
<1>2. ASSUME NEW r \in Handlers, GetEntry(r) PROVE LimiterInv'
  <2>1. PICK id \in EntryIds :
          /\ req' = [req EXCEPT ![r] =
               [req[r] EXCEPT !.entry = id,
                 !.step = IF req[r].kind = "request" THEN "lock" ELSE "stamp"]]
          /\ table' \in [Ips -> EntryIds \cup {None}]
          /\ heap' \in [EntryIds -> Entry]
    <3>1. CASE table[req[r].ip] # None
      <4>1. req[r].ip \in Ips
        BY <1>0, <1>2 DEF GetEntry, SlotPlaced
      <4> QED BY <1>0, <1>2, <3>1, <4>1 DEF GetEntry, Become, TypeOK
    <3>2. CASE table[req[r].ip] = None
      <4>1. PICK id \in EntryIds :
              /\ table' = [table EXCEPT ![req[r].ip] = id]
              /\ heap' = [heap EXCEPT ![id] = NewEntry]
              /\ req' = [req EXCEPT ![r] =
                   [req[r] EXCEPT !.entry = id,
                     !.step = IF req[r].kind = "request" THEN "lock" ELSE "stamp"]]
        BY <1>2, <3>2 DEF GetEntry, Become
      <4>2. /\ table' \in [Ips -> EntryIds \cup {None}]
            /\ heap' \in [EntryIds -> Entry]
        BY <1>0, <4>1, NewTypes DEF TypeOK
      <4> QED BY <4>1, <4>2
    <3> QED BY <3>1, <3>2
  <2> DEFINE q == [req[r] EXCEPT !.entry = id,
                     !.step = IF req[r].kind = "request" THEN "lock" ELSE "stamp"]
  <2>2. q \in Handler /\ SlotPlaced(q, clock)
    BY <1>0, <1>2 DEF GetEntry, Handler, SlotPlaced
  <2> HIDE DEF q
  <2>3. req' = [req EXCEPT ![r] = q]
    BY <2>1 DEF q
  <2> QED BY <1>0, <1>2, <2>1, <2>2, <2>3, OneMoves DEF GetEntry, TypeOK
<1>3. ASSUME NEW r \in Handlers, Stamp(r) PROVE LimiterInv'
  <2> DEFINE q == [req[r] EXCEPT !.step = "lock", !.now = clock]
  <2>1. q \in Handler /\ SlotPlaced(q, clock)
    <3>1. /\ req[r].ip \in Ips /\ req[r].entry \in EntryIds /\ req[r].kind # "request"
          /\ req[r] \in Handler
      BY <1>0, <1>3 DEF Stamp, SlotPlaced
    <3>2. /\ q \in Handler /\ q.step = "lock" /\ q.now = clock
          /\ q.ip = req[r].ip /\ q.entry = req[r].entry /\ q.kind = req[r].kind
      BY <1>0, <3>1 DEF Handler
    <3> HIDE DEF q
    <3> QED BY <1>0, <3>1, <3>2 DEF SlotPlaced
  <2>2. req' = [req EXCEPT ![r] = q]
    BY <1>3 DEF Stamp, Become
  <2> HIDE DEF q
  <2> QED BY <1>0, <1>3, <2>1, <2>2, OneMoves DEF Stamp, TypeOK
<1>4. ASSUME NEW r \in Handlers, Refuse(r) PROVE LimiterInv'
  BY <1>0, <1>4, OneMoves DEF Refuse, Become, TypeOK
<1>5. ASSUME NEW r \in Handlers, Limit(r) PROVE LimiterInv'
  <2> DEFINE old == heap[req[r].entry]
             e == Trim([old EXCEPT !.requests = Append(@, req[r].now)], req[r].now)
             b == [e EXCEPT !.blockedUntil = req[r].now + Block]
             q == [req[r] EXCEPT !.step = "serve", !.entry = None]
  <2>1. old \in Entry /\ req[r].now \in Nat
    BY <1>0, <1>5 DEF Limit, SlotPlaced, TypeOK, Handler
  <2>2. e \in Entry
    BY <2>1, AppendKeeps, TrimKeeps
  <2>3. b \in Entry
    <3>1. req[r].now + Block \in Nat /\ req[r].now + ScanBlock \in Nat
      BY <2>1, RateLimiterConstants
    <3> HIDE DEF e
    <3> QED BY <2>2, <3>1, BlockingKeeps
  <2>4. q \in Handler /\ SlotPlaced(q, clock)
    BY <1>0, <1>5 DEF Limit, Handler, SlotPlaced
  <2>5. admitted' \in [Ips -> Seq(Nat)]
    <3>1. CASE admitted' = admitted
      BY <1>0, <3>1 DEF TypeOK
    <3>2. CASE admitted' = [admitted EXCEPT ![req[r].ip] = Append(@, req[r].now)]
      <4>1. req[r].ip \in Ips /\ admitted[req[r].ip] \in Seq(Nat)
        BY <1>0, <1>5 DEF Limit, SlotPlaced, TypeOK
      <4>2. Append(admitted[req[r].ip], req[r].now) \in Seq(Nat)
        BY <2>1, <4>1, AppendProperties
      <4> QED BY <1>0, <3>2, <4>1, <4>2 DEF TypeOK
    <3> QED BY <1>5, <3>1, <3>2 DEF Limit, Admit
  <2>6. heap' \in [EntryIds -> Entry]
    BY <1>0, <1>5, <2>2, <2>3, WriteTypes DEF Limit
  <2>7. req' = [req EXCEPT ![r] = NoHandler] \/ req' = [req EXCEPT ![r] = q]
    BY <1>5 DEF Limit, Become
  <2> HIDE DEF q
  <2> QED BY <1>0, <1>5, <2>4, <2>5, <2>6, <2>7, OneMoves DEF Limit, TypeOK
<1>6. ASSUME NEW r \in Handlers, NEW status \in Statuses, Serve(r, status) PROVE LimiterInv'
  <2> DEFINE q == [req[r] EXCEPT !.step = "entry", !.kind = "error",
                     !.watched = ScanURLs /\ status = "scan404"]
  <2>1. q \in Handler /\ SlotPlaced(q, clock)
    BY <1>0, <1>6 DEF Serve, Handler, SlotPlaced
  <2>2. req' = [req EXCEPT ![r] = NoHandler] \/ req' = [req EXCEPT ![r] = q]
    BY <1>6 DEF Serve, Become
  <2> HIDE DEF q
  <2> QED BY <1>0, <1>6, <2>1, <2>2, OneMoves DEF Serve, TypeOK
<1>7. ASSUME NEW r \in Handlers, RecordError(r) PROVE LimiterInv'
  <2> DEFINE old == heap[req[r].entry]
             e == Trim([old EXCEPT !.errors = Append(@, req[r].now)], req[r].now)
             b == IF Exceeds(e.errors, MaxErrors)
                  THEN [e EXCEPT !.blockedUntil = req[r].now + Block] ELSE e
             q == [req[r] EXCEPT !.step = "entry", !.kind = "scan", !.entry = None]
  <2>1. old \in Entry /\ req[r].now \in Nat
    BY <1>0, <1>7 DEF RecordError, SlotPlaced, TypeOK, Handler
  <2>2. e \in Entry
    BY <2>1, AppendKeeps, TrimKeeps
  <2>3. b \in Entry
    <3>1. req[r].now + Block \in Nat /\ req[r].now + ScanBlock \in Nat
      BY <2>1, RateLimiterConstants
    <3> HIDE DEF e
    <3> QED BY <2>2, <3>1, BlockingKeeps
  <2>4. q \in Handler /\ SlotPlaced(q, clock)
    BY <1>0, <1>7 DEF RecordError, Handler, SlotPlaced
  <2>5. heap' \in [EntryIds -> Entry] /\ awaited' \in [Handlers -> Nat]
    BY <1>0, <1>7, <2>3, OverwriteTypes DEF RecordError
  <2>6. req' = [req EXCEPT ![r] = NoHandler] \/ req' = [req EXCEPT ![r] = q]
    BY <1>7 DEF RecordError, Become
  <2> HIDE DEF q
  <2> QED BY <1>0, <1>7, <2>4, <2>5, <2>6, OneMoves DEF RecordError, TypeOK
<1>8. ASSUME NEW r \in Handlers, RecordScan(r) PROVE LimiterInv'
  <2> DEFINE old == heap[req[r].entry]
             e == Trim([old EXCEPT !.scan404 = Append(@, req[r].now)], req[r].now)
             b == IF Exceeds(e.scan404, Max404)
                  THEN [e EXCEPT !.blockedUntil = req[r].now + ScanBlock] ELSE e
  <2>1. old \in Entry /\ req[r].now \in Nat
    BY <1>0, <1>8 DEF RecordScan, SlotPlaced, TypeOK, Handler
  <2>2. e \in Entry
    BY <2>1, AppendKeeps, TrimKeeps
  <2>3. b \in Entry
    <3>1. req[r].now + Block \in Nat /\ req[r].now + ScanBlock \in Nat
      BY <2>1, RateLimiterConstants
    <3> HIDE DEF e
    <3> QED BY <2>2, <3>1, BlockingKeeps
  <2>4. heap' \in [EntryIds -> Entry] /\ awaited' \in [Handlers -> Nat]
    BY <1>0, <1>8, <2>3, OverwriteTypes DEF RecordScan
  <2> QED BY <1>0, <1>8, <2>4, OneMoves DEF RecordScan, Become, TypeOK
<1>9. CASE StartSweep
  <2>1. TypeOK' /\ TicksPast'
    BY <1>9 DEF StartSweep, LimiterInv, TypeOK, TicksPast, Cleaner
  <2> QED BY <1>0, <1>9, <2>1, PlacedBySlot DEF StartSweep, LimiterInv
<1>10. ASSUME NEW ip \in Ips, Sweep(ip) PROVE LimiterInv'
  <2>1. table[ip] # None => Trim(heap[table[ip]], cleaner.now) \in Entry
    BY <1>0, TrimKeeps DEF TypeOK
  <2>2. /\ table' \in [Ips -> EntryIds \cup {None}] /\ heap' \in [EntryIds -> Entry]
        /\ cleaner' \in Cleaner
    <3>1. cleaner' \in Cleaner
      BY <1>0, <1>10 DEF Sweep, TypeOK, Cleaner
    <3>2. CASE table[ip] = None /\ UNCHANGED <<table, heap>>
      BY <1>0, <3>1, <3>2 DEF TypeOK
    <3>3. CASE table[ip] # None
      <4>1. PICK id \in EntryIds \cup {None} : table' = [table EXCEPT ![ip] = id]
        BY <1>0, <1>10, <3>3 DEF Sweep, TypeOK
      <4>2. heap' = [heap EXCEPT ![table[ip]] = Trim(heap[table[ip]], cleaner.now)]
        BY <1>10, <3>3 DEF Sweep
      <4> QED BY <1>0, <2>1, <3>1, <3>3, <4>1, <4>2 DEF TypeOK
    <3> QED BY <1>10, <3>2, <3>3 DEF Sweep
  <2>3. TypeOK' /\ TicksPast'
    BY <1>10, <2>2 DEF Sweep, LimiterInv, TypeOK, TicksPast, Cleaner
  <2> QED BY <1>0, <1>10, <2>3, PlacedBySlot DEF Sweep, LimiterInv
<1>11. CASE Tick
  <2>1. TypeOK' /\ TicksPast'
    <3>1. clock' = clock + 1 /\ UNCHANGED <<table, heap, req, admitted, awaited>>
          /\ cleaner \in Cleaner /\ cleaner.tick <= clock /\ cleaner.now <= clock
      BY <1>11 DEF Tick, LimiterInv, TypeOK, TicksPast
    <3>2. cleaner' = cleaner \/ cleaner' = [cleaner EXCEPT !.tick = clock']
      BY <1>11 DEF Tick
    <3>3. cleaner' \in Cleaner /\ TicksPast'
      BY <1>0, <3>1, <3>2 DEF Cleaner, TicksPast
    <3> QED BY <1>0, <3>1, <3>3 DEF TypeOK
  <2>2. \A r \in Handlers : SlotPlaced(req'[r], clock')
    BY <1>0, <1>11 DEF Tick, SlotPlaced, Handler
  <2> QED BY <2>1, <2>2, PlacedBySlot DEF LimiterInv
<1>12. CASE UNCHANGED vars
  <2>1. TypeOK' /\ TicksPast'
    BY <1>12 DEF vars, LimiterInv, TypeOK, TicksPast
  <2> QED BY <1>0, <1>12, <2>1, PlacedBySlot DEF vars, LimiterInv
<1> QED
  BY <1>1, <1>2, <1>3, <1>4, <1>5, <1>6, <1>7, <1>8, <1>9, <1>10, <1>11, <1>12
     DEF Next, Handle

-----------------------------------------------------------------------------
(* What a step owes to blocks: one that runs is neither shortened nor      *)
(* removed from the map.                                                   *)

BlocksGrow ==
  \A ip \in Ips : BlockOf(ip) > clock =>
    table'[ip] = table[ip] /\ BlockOf(ip)' >= BlockOf(ip)

LEMMA HeapOfNats ==
  ASSUME TypeOK
  PROVE  /\ \A id \in EntryIds : heap[id] \in Entry /\ heap[id].blockedUntil \in Nat
         /\ \A ip \in Ips : table[ip] # None => table[ip] \in EntryIds
         /\ \A ip \in Ips : BlockOf(ip) \in Nat
<1>1. \A id \in EntryIds : heap[id] \in Entry
  BY DEF TypeOK
<1>2. \A id \in EntryIds : heap[id].blockedUntil \in Nat
  BY <1>1 DEF Entry
<1> QED BY <1>1, <1>2 DEF BlockOf, TypeOK

LEMMA UnchangedGrows ==
  ASSUME TypeOK, table' = table, heap' = heap
  PROVE  BlocksGrow
BY HeapOfNats DEF BlocksGrow, BlockOf

LEMMA GetEntryGrows ==
  ASSUME LimiterInv, NEW r \in Handlers, GetEntry(r)
  PROVE  BlocksGrow
<1>0. TypeOK /\ req[r].ip \in Ips
  BY DEF GetEntry, LimiterInv, Placed
<1>1. CASE table[req[r].ip] # None
  BY <1>0, <1>1, UnchangedGrows DEF GetEntry
<1>2. CASE table[req[r].ip] = None
  <2>1. PICK id \in EntryIds \ Reachable :
          /\ table' = [table EXCEPT ![req[r].ip] = id]
          /\ heap' = [heap EXCEPT ![id] = NewEntry]
    BY <1>2 DEF GetEntry
  <2>2. \A i \in EntryIds : i \in Reachable => heap'[i] = heap[i]
    BY <1>0, <2>1 DEF TypeOK
  <2>3. ASSUME NEW ip \in Ips, BlockOf(ip) > clock
        PROVE  table'[ip] = table[ip] /\ BlockOf(ip)' = BlockOf(ip)
    <3>1. table[ip] # None
      BY <1>0, <2>3 DEF BlockOf, TypeOK
    <3>2. table'[ip] = table[ip] /\ table[ip] \in EntryIds /\ table[ip] \in Reachable
      BY <1>0, <1>2, <2>1, <3>1 DEF TypeOK, Reachable
    <3> QED BY <2>2, <3>1, <3>2 DEF BlockOf
  <2> QED BY <1>0, <2>3, HeapOfNats DEF BlocksGrow
<1> QED BY <1>1, <1>2

LEMMA SweepGrows ==
  ASSUME LimiterInv, NEW ip \in Ips, Sweep(ip)
  PROVE  BlocksGrow
<1>0. TypeOK /\ cleaner.now <= clock /\ cleaner.now \in Nat /\ clock \in Nat
  BY DEF LimiterInv, TicksPast, TypeOK, Cleaner
<1>1. CASE table[ip] = None
  BY <1>0, <1>1, UnchangedGrows DEF Sweep
<1>2. CASE table[ip] # None
  <2> DEFINE id == table[ip]
             e == Trim(heap[id], cleaner.now)
  <2>1. id \in EntryIds /\ e \in Entry /\ e.blockedUntil = heap[id].blockedUntil
    BY <1>0, <1>2, HeapOfNats, TrimKeeps
  <2>2. heap' = [heap EXCEPT ![id] = e]
    BY <1>2 DEF Sweep
  <2> HIDE DEF e
  <2>3. \A i \in EntryIds : heap'[i].blockedUntil = heap[i].blockedUntil
    BY <1>0, <2>1, <2>2 DEF TypeOK
  <2>4. \A i \in Ips : table'[i] # table[i] => i = ip /\ e.blockedUntil < cleaner.now
    BY <1>0, <1>2 DEF Sweep, TypeOK, e
  <2>5. ASSUME NEW i \in Ips, BlockOf(i) > clock
        PROVE  table'[i] = table[i] /\ BlockOf(i)' = BlockOf(i)
    <3>1. table[i] # None
      BY <1>0, <2>5 DEF BlockOf
    <3>2. BlockOf(i) = heap[table[i]].blockedUntil /\ table[i] \in EntryIds
      BY <1>0, <3>1, HeapOfNats DEF BlockOf
    <3>3. table'[i] = table[i]
      BY <1>0, <2>1, <2>4, <2>5, <3>2, HeapOfNats
    <3> QED BY <2>3, <3>1, <3>2, <3>3 DEF BlockOf
  <2> QED BY <1>0, <2>5, HeapOfNats DEF BlocksGrow
<1> QED BY <1>1, <1>2

(* The block of the request limit is written only when the one before has  *)
(* ended for the request, and ends later.                                  *)
LEMMA LimitGrows ==
  ASSUME LimiterInv, NEW r \in Handlers, Limit(r)
  PROVE  BlocksGrow
<1> DEFINE old == heap[req[r].entry]
           now == req[r].now
           a == [old EXCEPT !.requests = Append(@, now)]
           e == Trim(a, now)
           b == [e EXCEPT !.blockedUntil = now + Block]
<1>1. TypeOK /\ req[r].entry \in EntryIds /\ old \in Entry /\ now \in Nat
  BY HeapOfNats DEF Limit, LimiterInv, Placed, TypeOK, Handler
<1>2. e \in Entry /\ e.blockedUntil = old.blockedUntil
  <2>1. a \in Entry /\ a.blockedUntil = old.blockedUntil
    BY <1>1, AppendKeeps
  <2> QED BY <2>1, TrimKeeps
<1>3. now >= old.blockedUntil /\ (Write(req[r], e) \/ Write(req[r], b)) /\ table' = table
  BY DEF Limit
<1> HIDE DEF e
<1>4. now + Block \in Nat /\ now + Block >= now
  BY <1>1, RateLimiterConstants
<1>5. b \in Entry /\ b.blockedUntil = now + Block
  BY <1>2, <1>4, BlockingKeeps
<1>6. old.blockedUntil \in Nat
  BY <1>1, HeapOfNats
<1> HIDE DEF b, old, now
<1>7. e.blockedUntil >= old.blockedUntil /\ b.blockedUntil >= old.blockedUntil
  BY <1>1, <1>2, <1>3, <1>4, <1>5, <1>6
<1>8. PICK f \in Entry :
        /\ heap' = [heap EXCEPT ![req[r].entry] = f]
        /\ f.blockedUntil >= heap[req[r].entry].blockedUntil
  BY <1>2, <1>3, <1>5, <1>7 DEF Write, old
<1>9. \A id \in EntryIds : heap'[id].blockedUntil >= heap[id].blockedUntil
  BY <1>1, <1>8, HeapOfNats DEF TypeOK
<1> QED BY <1>1, <1>3, <1>9, HeapOfNats DEF BlocksGrow, BlockOf

-----------------------------------------------------------------------------
(* The requests that wait for a blocked entry. *)

SlotBlocks(r) ==
  req[r].step # "idle" /\ awaited[r] > clock =>
    /\ req[r].kind = "request" /\ req[r].step \in {"entry", "lock"}
    /\ BlockOf(req[r].ip) >= awaited[r]
    /\ req[r].step = "lock" => req[r].entry = table[req[r].ip]

LEMMA BlocksBySlot ==
  /\ BlocksHold <=> \A r \in Handlers : SlotBlocks(r)
  /\ BlocksHold' <=> \A r \in Handlers : SlotBlocks(r)'
BY DEF BlocksHold, SlotBlocks

(* What is still awaited after a step was awaited before it, and the block *)
(* on the entry does not fall below it.                                    *)
SlotKept(r) ==
  req[r].step # "idle" /\ awaited'[r] > clock =>
    /\ awaited[r] > clock
    /\ \A ip \in Ips : req[r].ip = ip /\ BlockOf(ip) >= awaited[r] =>
         table'[ip] = table[ip] /\ BlockOf(ip)' >= awaited'[r]

LEMMA GrowsKept ==
  ASSUME TypeOK, TypeOK', BlocksGrow, NEW r \in Handlers, awaited'[r] = awaited[r]
  PROVE  SlotKept(r)
<1> SUFFICES ASSUME awaited[r] > clock, NEW ip \in Ips, BlockOf(ip) >= awaited[r]
             PROVE  table'[ip] = table[ip] /\ BlockOf(ip)' >= awaited[r]
  BY DEF SlotKept
<1>1. PICK n \in Nat, b \in Nat, t \in Nat : n = awaited[r] /\ b = BlockOf(ip) /\ t = clock
  BY HeapOfNats DEF TypeOK
<1>2. table'[ip] = table[ip] /\ BlockOf(ip)' >= b
  BY <1>1 DEF BlocksGrow
<1>3. PICK c \in Nat : c = BlockOf(ip)'
  <2>1. \A id \in EntryIds : heap'[id] \in Entry
    BY DEF TypeOK
  <2>2. \A id \in EntryIds : heap'[id].blockedUntil \in Nat
    BY <2>1 DEF Entry
  <2> QED BY <2>2 DEF BlockOf, TypeOK
<1> QED BY <1>1, <1>2, <1>3

(* Errors and scans may shorten the block of an entry, but then it is not  *)
(* awaited to its end any more.                                            *)
LEMMA OverwriteKept ==
  ASSUME TypeOK, NEW q, q.entry \in EntryIds, NEW e \in Entry, Overwrite(q, e),
         table' = table, NEW r \in Handlers
  PROVE  SlotKept(r)
<1> SUFFICES ASSUME req[r].step # "idle", awaited'[r] > clock
             PROVE  /\ awaited[r] > clock
                    /\ \A ip \in Ips : req[r].ip = ip /\ BlockOf(ip) >= awaited[r] =>
                         BlockOf(ip)' >= awaited'[r]
  BY DEF SlotKept
<1>1. PICK n \in Nat, u \in Nat, t \in Nat :
        n = awaited[r] /\ u = e.blockedUntil /\ t = clock
  BY DEF TypeOK, Entry
<1>2. awaited'[r] = IF table[req[r].ip] = q.entry /\ u < n THEN u ELSE n
  BY <1>1 DEF Overwrite
<1>3. heap' = [heap EXCEPT ![q.entry] = e]
  BY DEF Overwrite, Write
<1>4. n > t /\ awaited'[r] \in Nat /\ awaited'[r] <= n
  BY <1>1, <1>2
<1>5. ASSUME NEW ip \in Ips, req[r].ip = ip, BlockOf(ip) >= n
      PROVE  BlockOf(ip)' >= awaited'[r]
  <2>1. table[ip] # None /\ table[ip] \in EntryIds
    BY <1>1, <1>4, <1>5, HeapOfNats DEF BlockOf
  <2>2. BlockOf(ip)' = heap'[table[ip]].blockedUntil /\ BlockOf(ip) = heap[table[ip]].blockedUntil
    BY <2>1 DEF BlockOf
  <2>3. CASE table[ip] = q.entry
    <3>1. BlockOf(ip)' = u
      BY <1>1, <1>3, <2>1, <2>2, <2>3 DEF TypeOK
    <3> QED BY <1>1, <1>2, <1>5, <2>3, <3>1
  <2>4. CASE table[ip] # q.entry
    <3>1. BlockOf(ip)' = BlockOf(ip)
      BY <1>3, <2>1, <2>2, <2>4 DEF TypeOK
    <3> QED BY <1>2, <1>5, <2>4, <3>1
  <2> QED BY <2>3, <2>4
<1> QED BY <1>1, <1>4, <1>5

LEMMA RecordKept ==
  ASSUME LimiterInv, NEW r \in Handlers, RecordError(r) \/ RecordScan(r), NEW s \in Handlers
  PROVE  SlotKept(s)
<1> DEFINE old == heap[req[r].entry]
           now == req[r].now
           a == [old EXCEPT !.errors = Append(@, now)]
           c == [old EXCEPT !.scan404 = Append(@, now)]
           e == Trim(a, now)
           f == Trim(c, now)
<1>1. TypeOK /\ req[r].entry \in EntryIds /\ old \in Entry /\ now \in Nat
  BY HeapOfNats DEF RecordError, RecordScan, LimiterInv, Placed, TypeOK, Handler
<1>2. e \in Entry /\ f \in Entry
  BY <1>1, AppendKeeps, TrimKeeps
<1>3. now + Block \in Nat /\ now + ScanBlock \in Nat
  BY <1>1, RateLimiterConstants
<1>4. table' = table
  BY DEF RecordError, RecordScan
<1>5. \/ Overwrite(req[r], e) \/ Overwrite(req[r], f)
      \/ Overwrite(req[r], [e EXCEPT !.blockedUntil = now + Block])
      \/ Overwrite(req[r], [f EXCEPT !.blockedUntil = now + ScanBlock])
  BY DEF RecordError, RecordScan
<1> HIDE DEF e, f, now
<1>6. /\ [e EXCEPT !.blockedUntil = now + Block] \in Entry
      /\ [f EXCEPT !.blockedUntil = now + ScanBlock] \in Entry
  BY <1>2, <1>3, BlockingKeeps
<1> QED BY <1>1, <1>2, <1>4, <1>5, <1>6, OverwriteKept

LEMMA OthersWait ==
  ASSUME LimiterInv, LimiterInv', clock' >= clock,
         NEW r \in Handlers, SlotBlocks(r), SlotKept(r), req'[r] = req[r]
  PROVE  SlotBlocks(r)'
<1>1. PICK t \in Nat, u \in Nat, n \in Nat : t = clock /\ u = clock' /\ n = awaited'[r] /\ t <= u
  BY DEF LimiterInv, TypeOK
<1>2. CASE req[r].step = "idle" \/ ~(n > u)
  BY <1>1, <1>2 DEF SlotBlocks
<1>3. CASE req[r].step # "idle" /\ n > u
  <2>1. n > t
    BY <1>1, <1>3
  <2>2. awaited[r] > clock
    BY <1>1, <1>3, <2>1 DEF SlotKept
  <2>3. PICK ip \in Ips : ip = req[r].ip
    BY <1>3 DEF LimiterInv, Placed
  <2>4. /\ req[r].kind = "request" /\ req[r].step \in {"entry", "lock"}
        /\ BlockOf(ip) >= awaited[r] /\ (req[r].step = "lock" => req[r].entry = table[ip])
    BY <1>3, <2>2, <2>3 DEF SlotBlocks
  <2>5. table'[ip] = table[ip] /\ BlockOf(ip)' >= n
    BY <1>1, <1>3, <2>1, <2>3, <2>4 DEF SlotKept
  <2>6. BlockOf(req[r].ip)' = BlockOf(ip)'
    BY <2>3 DEF BlockOf
  <2> QED BY <1>1, <2>3, <2>4, <2>5, <2>6 DEF SlotBlocks, BlockOf
<1> QED BY <1>2, <1>3

(* A request that is over, or whose block has ended, waits for nothing. *)
LEMMA FreeWaits ==
  ASSUME NEW r \in Handlers, req'[r].step = "idle" \/ ~(awaited'[r] > clock')
  PROVE  SlotBlocks(r)'
BY DEF SlotBlocks

LEMMA BlocksNext ==
  ASSUME LimiterInv, BlocksHold, [Next]_vars
  PROVE  BlocksHold'
<1>0. /\ TypeOK /\ clock \in Nat /\ LimiterInv' /\ TypeOK'
      /\ \A r \in Handlers : req[r] \in Handler /\ awaited[r] \in Nat /\ SlotBlocks(r)
      /\ \A r \in Handlers : req[r].kind = "request" => req[r].now <= clock
      /\ NoHandler.step = "idle"
  BY LimiterNext, BlocksBySlot DEF LimiterInv, TypeOK, Placed, NoHandler
<1>1. ASSUME NEW r \in Handlers, NEW q, req' = [req EXCEPT ![r] = q], clock' = clock,
             \A s \in Handlers : s # r => SlotKept(s), SlotBlocks(r)'
      PROVE  BlocksHold'
  <2>1. ASSUME NEW s \in Handlers, s # r PROVE SlotBlocks(s)'
    <3>1. req'[s] = req[s]
      BY <1>0, <1>1, <2>1 DEF TypeOK
    <3> QED BY <1>0, <1>1, <2>1, <3>1, OthersWait
  <2> QED BY <1>1, <2>1, BlocksBySlot
<1>2. ASSUME BlocksGrow, NEW r \in Handlers, awaited'[r] = awaited[r] PROVE SlotKept(r)
  BY <1>0, <1>2, GrowsKept
<1>3. ASSUME NEW r \in Handlers, NEW ip \in Ips, Arrive(r, ip) PROVE BlocksHold'
  <2> DEFINE q == [NoHandler EXCEPT !.step = "entry", !.ip = ip, !.now = clock]
  <2>1. req' = [req EXCEPT ![r] = q] /\ UNCHANGED <<table, heap, clock>>
        /\ awaited' = [awaited EXCEPT ![r] = BlockOf(ip)]
    BY <1>3 DEF Arrive, Become
  <2>2. q.kind = "request" /\ q.step = "entry" /\ q.ip = ip
    BY DEF NoHandler
  <2> HIDE DEF q
  <2>3. req'[r] = q /\ awaited'[r] = BlockOf(ip)
        /\ \A s \in Handlers : s # r => awaited'[s] = awaited[s]
    BY <1>0, <2>1 DEF TypeOK
  <2>4. BlockOf(ip)' = BlockOf(ip) /\ BlockOf(ip) \in Nat
    BY <1>0, <2>1, HeapOfNats DEF BlockOf
  <2>5. SlotBlocks(r)'
    <3>1. BlockOf(req[r].ip)' >= awaited'[r]
      BY <2>2, <2>3, <2>4 DEF BlockOf
    <3> QED BY <2>2, <2>3, <3>1 DEF SlotBlocks
  <2>6. BlocksGrow
    BY <1>0, <2>1, UnchangedGrows
  <2> QED BY <1>1, <1>2, <2>1, <2>3, <2>5, <2>6
<1>4. ASSUME NEW r \in Handlers, GetEntry(r) PROVE BlocksHold'
  <2>1. PICK id \in EntryIds \cup {None} :
          /\ req' = [req EXCEPT ![r] =
               [req[r] EXCEPT !.entry = id,
                 !.step = IF req[r].kind = "request" THEN "lock" ELSE "stamp"]]
          /\ table[req[r].ip] # None =>
               id = table[req[r].ip] /\ UNCHANGED <<table, heap>>
    <3>1. CASE table[req[r].ip] # None
      <4>1. table[req[r].ip] \in EntryIds \cup {None}
        BY <1>0, <1>4 DEF GetEntry, LimiterInv, Placed, TypeOK
      <4> QED BY <1>4, <3>1, <4>1 DEF GetEntry, Become
    <3>2. CASE table[req[r].ip] = None
      <4>1. PICK id \in EntryIds :
              req' = [req EXCEPT ![r] =
                [req[r] EXCEPT !.entry = id,
                  !.step = IF req[r].kind = "request" THEN "lock" ELSE "stamp"]]
        BY <1>4, <3>2 DEF GetEntry, Become
      <4> QED BY <3>2, <4>1
    <3> QED BY <3>1, <3>2
  <2> DEFINE q == [req[r] EXCEPT !.entry = id,
                     !.step = IF req[r].kind = "request" THEN "lock" ELSE "stamp"]
  <2>2. /\ q.kind = req[r].kind /\ q.entry = id /\ q.ip = req[r].ip
        /\ q.step = IF req[r].kind = "request" THEN "lock" ELSE "stamp"
    BY <1>0 DEF Handler
  <2>3. /\ req'[r] = q /\ clock' = clock /\ awaited' = awaited
        /\ req[r].step = "entry" /\ req[r].ip \in Ips
    BY <1>0, <1>4, <2>1 DEF TypeOK, GetEntry, LimiterInv, Placed
  <2> HIDE DEF q
  <2>4. SlotBlocks(r)'
    <3>1. CASE ~(awaited[r] > clock)
      BY <2>3, <3>1, FreeWaits
    <3>2. CASE awaited[r] > clock
      <4>1. BlockOf(req[r].ip) >= awaited[r] /\ req[r].kind = "request"
        BY <1>0, <2>3, <3>2 DEF SlotBlocks
      <4>2. table[req[r].ip] # None
        BY <1>0, <2>3, <3>2, <4>1 DEF BlockOf
      <4>3. id = table'[req[r].ip] /\ BlockOf(req[r].ip)' >= awaited[r]
        BY <2>1, <2>2, <2>3, <4>1, <4>2 DEF BlockOf
      <4> QED BY <2>2, <2>3, <4>1, <4>3 DEF SlotBlocks
    <3> QED BY <3>1, <3>2
  <2>5. BlocksGrow
    BY <1>4, GetEntryGrows
  <2> QED BY <1>1, <1>2, <2>1, <2>3, <2>4, <2>5 DEF q
<1>5. ASSUME NEW r \in Handlers, Stamp(r) PROVE BlocksHold'
  <2> DEFINE q == [req[r] EXCEPT !.step = "lock", !.now = clock]
  <2>1. req' = [req EXCEPT ![r] = q] /\ UNCHANGED <<table, heap, clock, awaited>>
    BY <1>5 DEF Stamp, Become
  <2> HIDE DEF q
  <2>2. ~(awaited[r] > clock)
    BY <1>0, <1>5 DEF Stamp, SlotBlocks
  <2>3. BlocksGrow
    BY <1>0, <2>1, UnchangedGrows
  <2> QED BY <1>1, <1>2, <2>1, <2>2, <2>3, FreeWaits
<1>6. ASSUME NEW r \in Handlers, Refuse(r) PROVE BlocksHold'
  <2>1. req' = [req EXCEPT ![r] = NoHandler] /\ UNCHANGED <<table, heap, clock, awaited>>
    BY <1>6 DEF Refuse, Become
  <2>2. req'[r] = NoHandler
    BY <1>0, <2>1 DEF TypeOK
  <2>3. BlocksGrow
    BY <1>0, <2>1, UnchangedGrows
  <2> QED BY <1>0, <1>1, <1>2, <2>1, <2>2, <2>3, FreeWaits
<1>7. ASSUME NEW r \in Handlers, Limit(r) PROVE BlocksHold'
  <2>1. PICK q : req' = [req EXCEPT ![r] = q]
    BY <1>7 DEF Limit, Become
  <2>2. ~(awaited[r] > clock)
    <3> SUFFICES ASSUME awaited[r] > clock PROVE FALSE
      OBVIOUS
    <3>1. /\ req[r].step = "lock" /\ req[r].kind = "request" /\ req[r].entry \in EntryIds
          /\ req[r].now >= heap[req[r].entry].blockedUntil /\ req[r].now \in Nat
          /\ heap[req[r].entry].blockedUntil \in Nat
      BY <1>0, <1>7, HeapOfNats DEF Limit, LimiterInv, Placed, Handler
    <3>2. BlockOf(req[r].ip) >= awaited[r] /\ req[r].entry = table[req[r].ip]
      BY <1>0, <3>1 DEF SlotBlocks
    <3>3. BlockOf(req[r].ip) = heap[req[r].entry].blockedUntil
      BY <3>1, <3>2, RateLimiterConstants DEF BlockOf
    <3> QED BY <1>0, <3>1, <3>2, <3>3
  <2>3. BlocksGrow /\ awaited' = awaited /\ clock' = clock
    BY <1>7, LimitGrows DEF Limit
  <2> QED BY <1>1, <1>2, <2>1, <2>2, <2>3, FreeWaits
<1>8. ASSUME NEW r \in Handlers, NEW status \in Statuses, Serve(r, status)
      PROVE  BlocksHold'
  <2>1. PICK q : req' = [req EXCEPT ![r] = q]
    BY <1>8 DEF Serve, Become
  <2>2. UNCHANGED <<table, heap, clock, awaited>> /\ ~(awaited[r] > clock)
    BY <1>0, <1>8 DEF Serve, SlotBlocks
  <2>3. BlocksGrow
    BY <1>0, <2>2, UnchangedGrows
  <2> QED BY <1>1, <1>2, <2>1, <2>2, <2>3, FreeWaits
<1>9. ASSUME NEW r \in Handlers, RecordError(r) \/ RecordScan(r) PROVE BlocksHold'
  <2>1. PICK q : req' = [req EXCEPT ![r] = q]
    BY <1>9 DEF RecordError, RecordScan, Become
  <2>2. clock' = clock /\ req[r].step = "lock" /\ req[r].kind # "request"
    BY <1>9 DEF RecordError, RecordScan
  <2>3. \A s \in Handlers : SlotKept(s)
    BY <1>9, RecordKept
  <2>4. ~(awaited[r] > clock)
    BY <1>0, <2>2 DEF SlotBlocks
  <2>5. ~(awaited'[r] > clock')
    BY <2>2, <2>3, <2>4 DEF SlotKept
  <2> QED BY <1>1, <2>1, <2>2, <2>3, <2>5, FreeWaits
<1>10. CASE BlocksGrow /\ clock' >= clock /\ req' = req /\ awaited' = awaited
  BY <1>0, <1>2, <1>10, OthersWait, BlocksBySlot
<1>11. ASSUME NEW ip \in Ips, Sweep(ip) PROVE BlocksHold'
  BY <1>0, <1>10, <1>11, SweepGrows DEF Sweep
<1>12. CASE StartSweep \/ Tick \/ UNCHANGED vars
  <2>1. table' = table /\ heap' = heap /\ req' = req /\ clock' >= clock /\ awaited' = awaited
    BY <1>0, <1>12 DEF StartSweep, Tick, vars
  <2> QED BY <1>0, <1>10, <2>1, UnchangedGrows
<1> QED
  BY <1>3, <1>4, <1>5, <1>6, <1>7, <1>8, <1>9, <1>11, <1>12 DEF Next, Handle

-----------------------------------------------------------------------------
(* What trim drops: what is old in front of the first recent timestamp.    *)

LEMMA FirstOutside ==
  ASSUME NEW S, NEW n \in Nat, n \notin S
  PROVE  \E m \in Nat : m \notin S /\ \A k \in Nat : k < m => k \in S
<1> DEFINE Less == {ss \in Nat \X Nat : ss[1] < ss[2]}
           Outside == {k \in Nat : k \notin S}
<1>1. IsWellFoundedOn(Less, Nat)
  BY NatLessThanWellFounded, Zenon DEF OpToRel
<1>2. \A j, k \in Nat : j < k => <<j, k>> \in Less
  OBVIOUS
<1>3. Outside \subseteq Nat /\ Outside # {}
  OBVIOUS
<1> HIDE DEF Less
<1>4. PICK m \in Outside : \A k \in Outside : ~(<<k, m>> \in Less)
  <2> HIDE DEF Outside
  <2> QED BY <1>1, <1>3, WFMin
<1> QED BY <1>2, <1>3, <1>4

Cut(s, d, n) == SubSeq(s, d + 1, n)

LEMMA RecentCuts ==
  ASSUME NEW s \in Seq(Nat), NEW w \in Nat, w > 0, NEW t \in Nat
  PROVE  \E d \in 0 .. Len(s) :
           /\ Recent(s, w, t) = Cut(s, d, Len(s))
           /\ \A i \in 1 .. d : s[i] + w <= t
           /\ d < Len(s) => s[d + 1] + w > t
<1> DEFINE old == {n \in 1 .. Len(s) : w > 0 /\ \A i \in 1 .. n : s[i] + w <= t}
<1>1. Len(s) \in Nat /\ \A i \in 1 .. Len(s) : s[i] \in Nat
  OBVIOUS
<1>2. Len(s) + 1 \notin old \cup {0}
  BY <1>1
<1>3. PICK m \in Nat : m \notin old \cup {0} /\ \A k \in Nat : k < m => k \in old \cup {0}
  <2>1. Len(s) + 1 \in Nat
    BY <1>1
  <2> DEFINE S == old \cup {0}
  <2>2. Len(s) + 1 \notin S
    BY <1>2
  <2> HIDE DEF S
  <2>3. \E k \in Nat : k \notin S /\ \A j \in Nat : j < k => j \in S
    BY <2>1, <2>2, FirstOutside
  <2> QED BY <2>3 DEF S
<1>4. m # 0 /\ m <= Len(s) + 1
  BY <1>1, <1>2, <1>3
<1>5. PICK d \in Nat : m = d + 1 /\ d <= Len(s)
  BY <1>1, <1>4
<1>6. \A k \in 1 .. d : k \in old
  BY <1>3, <1>5
<1>7. \A i \in 1 .. d : s[i] + w <= t
  BY <1>6
<1>8. d < Len(s) => s[d + 1] + w > t
  <2> SUFFICES ASSUME d < Len(s), ~(s[d + 1] + w > t) PROVE FALSE
    OBVIOUS
  <2>1. \A i \in 1 .. d + 1 : s[i] + w <= t
    <3>1. s[d + 1] + w <= t
      BY <1>1
    <3> QED BY <1>7, <3>1
  <2>2. d + 1 \in old
    BY <1>1, <2>1
  <2> QED BY <1>3, <1>5, <2>2
<1>9. old = 1 .. d
  <2>1. ASSUME NEW n \in old PROVE n \in 1 .. d
    <3>1. CASE n > d
      <4>1. d + 1 \in 1 .. n /\ n <= Len(s)
        BY <1>1, <1>5, <3>1
      <4>2. d + 1 \in old
        BY <1>1, <4>1
      <4> QED BY <1>3, <1>5, <4>2
    <3> QED BY <1>1, <3>1
  <2>2. \A n \in 1 .. d : n \in old
    BY <1>6
  <2> HIDE DEF old
  <2> QED BY <2>1, <2>2
<1>10. Cardinality(old) = d
  <2>1. d \in Int /\ Cardinality(1 .. d) = IF 1 > d THEN 0 ELSE d - 1 + 1
    BY <1>5, FS_Interval
  <2> HIDE DEF old
  <2> QED BY <1>5, <1>9, <2>1
<1>11. Recent(s, w, t) = SubSeq(s, Cardinality(old) + 1, Len(s))
  BY DEF Recent
<1> HIDE DEF old
<1> QED BY SMTT(40), <1>1, <1>5, <1>7, <1>8, <1>10, <1>11 DEF Cut

(* What is left of a sequence whose first d elements are cut off. *)
LEMMA CutTo ==
  ASSUME NEW s \in Seq(Nat), NEW n \in Nat, n = Len(s), NEW d \in 0 .. n,
         NEW c, c = Cut(s, d, n)
  PROVE  /\ c \in Seq(Nat) /\ Len(c) \in Nat /\ n = Len(c) + d
         /\ \A i \in 1 .. Len(c) : i + d \in 1 .. n /\ c[i] = s[i + d]
<1>1. PICK m \in Nat : n = m + d
  <2>1. n - d \in Nat /\ n = (n - d) + d
    OBVIOUS
  <2> QED BY <2>1
<1>2. /\ c \in Seq(Nat)
      /\ Len(c) = IF d + 1 <= n THEN n - (d + 1) + 1 ELSE 0
      /\ \A i \in 1 .. n - (d + 1) + 1 : c[i] = s[d + 1 + i - 1]
  <2>1. PICK k \in Int : k = d + 1
    OBVIOUS
  <2>2. \A i \in k .. n : s[i] \in Nat
    <3>1. \A i \in 1 .. n : s[i] \in Nat
      OBVIOUS
    <3> QED BY <2>1, <3>1
  <2>3. n \in Int
    OBVIOUS
  <2>4. /\ SubSeq(s, k, n) \in Seq(Nat)
        /\ Len(SubSeq(s, k, n)) = IF k <= n THEN n - k + 1 ELSE 0
        /\ \A i \in 1 .. n - k + 1 : SubSeq(s, k, n)[i] = s[k + i - 1]
    <3> HIDE <2>1
    <3> QED BY <2>2, <2>3, SubSeqProperties
  <2>5. c = SubSeq(s, k, n)
    BY <2>1 DEF Cut
  <2> QED BY <2>1, <2>4, <2>5
<1>3. Len(c) = m
  <2>1. (IF d + 1 <= n THEN n - (d + 1) + 1 ELSE 0) = m
    BY <1>1
  <2> QED BY <1>2, <2>1
<1>4. ASSUME NEW i \in 1 .. m PROVE i + d \in 1 .. n /\ c[i] = s[i + d]
  <2>1. i \in 1 .. n - (d + 1) + 1 /\ d + 1 + i - 1 = i + d
    BY <1>1
  <2>2. c[i] = s[i + d]
    BY <1>2, <2>1
  <2> QED BY <1>1, <2>2
<1> QED BY <1>1, <1>2, <1>3, <1>4

LEMMA CutElements ==
  ASSUME NEW s \in Seq(Nat), NEW d \in 0 .. Len(s), NEW c, c = Cut(s, d, Len(s))
  PROVE  /\ c \in Seq(Nat) /\ Len(c) \in Nat /\ Len(s) = Len(c) + d
         /\ \A i \in 1 .. Len(c) : i + d \in 1 .. Len(s) /\ c[i] = s[i + d]
<1>1. Len(s) \in Nat
  OBVIOUS
<1> QED BY <1>1, CutTo

LEMMA AppendElements ==
  ASSUME NEW s \in Seq(Nat), NEW x \in Nat
  PROVE  /\ Append(s, x) \in Seq(Nat) /\ Len(Append(s, x)) = Len(s) + 1 /\ Len(s) \in Nat
         /\ Append(s, x)[Len(s) + 1] = x
         /\ \A i \in 1 .. Len(s) : Append(s, x)[i] = s[i]
BY AppendProperties

LEMMA AllOldGoes ==
  ASSUME NEW s \in Seq(Nat), NEW w \in Nat, w > 0, NEW t \in Nat,
         \A i \in DOMAIN s : s[i] + w <= t
  PROVE  Recent(s, w, t) = <<>>
<1>1. PICK d \in 0 .. Len(s) : /\ Recent(s, w, t) = Cut(s, d, Len(s))
                               /\ d < Len(s) => s[d + 1] + w > t
  BY RecentCuts
<1>2. PICK n \in Nat : n = Len(s) /\ d = n
  <2>1. Len(s) \in Nat /\ DOMAIN s = 1 .. Len(s)
    OBVIOUS
  <2>2. ASSUME d < Len(s) PROVE FALSE
    <3>1. d + 1 \in DOMAIN s /\ s[d + 1] \in Nat
      BY <2>1, <2>2
    <3>2. s[d + 1] + w <= t
      BY <3>1
    <3>3. s[d + 1] + w > t
      BY <1>1, <2>2
    <3> QED BY <3>1, <3>2, <3>3
  <2>3. PICK n \in Nat : n = Len(s)
    BY <2>1
  <2>4. d \in Nat /\ d <= n
    BY <2>3
  <2>5. ~(d < n)
    BY <2>2, <2>3
  <2>6. d = n
    BY <2>4, <2>5
  <2> QED BY <2>3, <2>6
<1>3. Recent(s, w, t) \in Seq(Nat) /\ Len(Recent(s, w, t)) = 0
  <2>1. Recent(s, w, t) = Cut(s, n, n) /\ n \in 0 .. n
    BY <1>1, <1>2
  <2>2. /\ Recent(s, w, t) \in Seq(Nat) /\ Len(Recent(s, w, t)) \in Nat
        /\ Len(s) = Len(Recent(s, w, t)) + n
    BY <1>2, <2>1, CutElements
  <2>3. PICK m \in Nat : m = Len(Recent(s, w, t)) /\ n = m + n
    BY <1>2, <2>2
  <2>4. m = 0
    BY <2>3
  <2> QED BY <2>2, <2>3, <2>4
<1> QED BY <1>3, EmptySeq

-----------------------------------------------------------------------------
(* How far a timestamp can be overtaken. *)

LEMMA LateEarlyFinite ==
  ASSUME NEW s \in Seq(Nat), NEW p \in Nat, NEW slots, NEW t
  PROVE  /\ IsFiniteSet(Late(s, p)) /\ Cardinality(Late(s, p)) \in Nat
         /\ IsFiniteSet(Early(slots, t)) /\ Cardinality(Early(slots, t)) \in Nat
         /\ IsFiniteSet(Handlers) /\ Cardinality(Handlers) \in Nat
<1>1. IsFiniteSet(Handlers)
  BY RateLimiterConstants
<1>2. Early(slots, t) \in SUBSET Handlers
  BY DEF Early
<1>3. Len(s) \in Nat /\ IsFiniteSet(1 .. Len(s))
  BY FS_Interval
<1>4. Late(s, p) \in SUBSET (1 .. Len(s))
  BY <1>3 DEF Late
<1> QED BY <1>1, <1>2, <1>3, <1>4, FS_Subset, FS_CardinalityType

(* Cutting elements off the front only shifts the places. *)
LEMMA LateCut ==
  ASSUME NEW s \in Seq(Nat), NEW n \in Nat, n = Len(s), NEW d \in 0 .. n,
         NEW c, c = Cut(s, d, n), NEW p \in Nat, p \in 1 .. Len(c)
  PROVE  Cardinality(Late(c, p)) <= Cardinality(Late(s, p + d))
<1>1. PICK m \in Nat : /\ Len(c) = m /\ n = m + d
                       /\ \A i \in 1 .. m : i + d \in 1 .. n /\ c[i] = s[i + d]
  <2>1. d \in 0 .. Len(s) /\ c = Cut(s, d, Len(s))
    OBVIOUS
  <2>2. /\ c \in Seq(Nat) /\ Len(c) \in Nat /\ Len(s) = Len(c) + d
        /\ \A i \in 1 .. Len(c) : i + d \in 1 .. Len(s) /\ c[i] = s[i + d]
    BY <2>1, CutElements
  <2> QED BY <2>2
<1> DEFINE S == {j \in p + 1 .. m : c[j] < c[p]}
           T == {j \in p + d + 1 .. n : s[j] < s[p + d]}
           f == [j \in S |-> j + d]
<1>2. Late(c, p) = S /\ Late(s, p + d) = T
  BY <1>1 DEF Late
<1>3. \A j \in S : j \in Nat /\ j + d \in T
  <2> SUFFICES ASSUME NEW j \in p + 1 .. m, c[j] < c[p] PROVE j \in Nat /\ j + d \in T
    OBVIOUS
  <2>1. j \in 1 .. m /\ p \in 1 .. m
    BY <1>1
  <2>2. c[j] = s[j + d] /\ c[p] = s[p + d]
    BY <1>1, <2>1
  <2> QED BY <1>1, <2>2
<1>4. f \in [S -> T]
  <2> HIDE DEF S, T
  <2> QED BY <1>3
<1>5. \A i, j \in S : f[i] = f[j] => i = j
  <2> HIDE DEF S, T
  <2> QED BY <1>3
<1>6. f \in Injection(S, T)
  <2> HIDE DEF f
  <2> QED BY <1>4, <1>5 DEF Injection, IsInjective
<1>7. IsFiniteSet(T)
  <2>1. p + d \in Nat
    OBVIOUS
  <2>2. IsFiniteSet(Late(s, p + d))
    BY <2>1, LateEarlyFinite
  <2> QED BY <1>2, <2>2
<1> HIDE DEF f, S, T
<1>8. Cardinality(S) <= Cardinality(T)
  BY <1>6, <1>7, FS_Injection
<1> QED BY <1>2, <1>8

LEMMA OvertakenCut ==
  ASSUME NEW s \in Seq(Nat), NEW n \in Nat, n = Len(s), NEW d \in 0 .. n,
         NEW c, c = Cut(s, d, n),
         NEW now, NEW slots, Overtaken(s, now, slots)
  PROVE  Overtaken(c, now, slots)
<1>1. PICK m \in Nat : /\ Len(c) = m /\ n = m + d /\ c \in Seq(Nat)
                       /\ \A i \in 1 .. m : i + d \in 1 .. n /\ c[i] = s[i + d]
  <2>1. d \in 0 .. Len(s) /\ c = Cut(s, d, Len(s))
    OBVIOUS
  <2>2. /\ c \in Seq(Nat) /\ Len(c) \in Nat /\ Len(s) = Len(c) + d
        /\ \A i \in 1 .. Len(c) : i + d \in 1 .. Len(s) /\ c[i] = s[i + d]
    BY <2>1, CutElements
  <2> QED BY <2>2
<1> SUFFICES ASSUME NEW p \in 1 .. m
             PROVE  /\ c[p] <= now
                    /\ Cardinality(Late(c, p)) + Cardinality(Early(slots, c[p]))
                         < Cardinality(Handlers)
  BY <1>1 DEF Overtaken
<1>2. PICK k \in Nat : k = p + d /\ k \in 1 .. n /\ c[p] = s[k] /\ p \in Nat
  <2>1. p + d \in 1 .. n /\ c[p] = s[p + d]
    BY <1>1
  <2>2. p \in Nat /\ p + d \in Nat
    BY <1>1
  <2> QED BY <2>1, <2>2
<1>3. /\ s[k] <= now
      /\ Cardinality(Late(s, k)) + Cardinality(Early(slots, s[k])) < Cardinality(Handlers)
  BY <1>2 DEF Overtaken
<1>4. Cardinality(Late(c, p)) <= Cardinality(Late(s, k))
  BY <1>1, <1>2, LateCut
<1>5. /\ Cardinality(Late(c, p)) \in Nat /\ Cardinality(Late(s, k)) \in Nat
      /\ Cardinality(Early(slots, s[k])) \in Nat /\ Cardinality(Handlers) \in Nat
  BY <1>1, <1>2, LateEarlyFinite
<1> QED BY <1>2, <1>3, <1>4, <1>5

(* Nor does it matter that time passes, or that others move on or arrive.  *)
LEMMA OvertakenKeeps ==
  ASSUME NEW s \in Seq(Nat), NEW now \in Nat, NEW later \in Nat, now <= later,
         NEW slots, NEW moved, Overtaken(s, now, slots),
         \A t \in Nat : t <= now => Early(moved, t) \subseteq Early(slots, t)
  PROVE  Overtaken(s, later, moved)
<1> SUFFICES ASSUME NEW p \in 1 .. Len(s)
             PROVE  /\ s[p] <= later
                    /\ Cardinality(Late(s, p)) + Cardinality(Early(moved, s[p]))
                         < Cardinality(Handlers)
  BY DEF Overtaken
<1>1. /\ s[p] <= now /\ s[p] \in Nat /\ p \in Nat
      /\ Cardinality(Late(s, p)) + Cardinality(Early(slots, s[p])) < Cardinality(Handlers)
  BY DEF Overtaken
<1>2. /\ Cardinality(Late(s, p)) \in Nat /\ Cardinality(Handlers) \in Nat
      /\ Cardinality(Early(slots, s[p])) \in Nat /\ Cardinality(Early(moved, s[p])) \in Nat
      /\ IsFiniteSet(Early(slots, s[p]))
  BY <1>1, LateEarlyFinite
<1>3. Early(moved, s[p]) \in SUBSET Early(slots, s[p])
  BY <1>1
<1>4. Cardinality(Early(moved, s[p])) <= Cardinality(Early(slots, s[p]))
  BY <1>2, <1>3, FS_Subset
<1> QED BY SMTT(40), <1>1, <1>2, <1>4

(* A request that records its timestamp is no longer one that may. *)
LEMMA OvertakenAppend ==
  ASSUME NEW s \in Seq(Nat), NEW now \in Nat, NEW slots, NEW moved, Overtaken(s, now, slots),
         NEW r \in Handlers, slots[r].kind = "request", slots[r].step = "lock",
         NEW x \in Nat, x = slots[r].now, x <= now,
         \A t \in Nat : Early(moved, t) \subseteq Early(slots, t) \ {r}
  PROVE  Overtaken(Append(s, x), now, moved)
<1> DEFINE c == Append(s, x)
<1>1. PICK n \in Nat : /\ Len(s) = n /\ Len(c) = n + 1 /\ c \in Seq(Nat) /\ c[n + 1] = x
                       /\ \A i \in 1 .. n : c[i] = s[i] /\ s[i] \in Nat
  <2>1. Len(s) \in Nat /\ \A i \in 1 .. Len(s) : s[i] \in Nat
    OBVIOUS
  <2> QED BY <2>1, AppendElements
<1>2. Cardinality(Handlers) \in Nat /\ IsFiniteSet(Handlers)
  BY RateLimiterConstants, FS_CardinalityType
<1> HIDE DEF c
<1> SUFFICES ASSUME NEW p \in 1 .. n + 1
             PROVE  /\ c[p] <= now
                    /\ Cardinality(Late(c, p)) + Cardinality(Early(moved, c[p]))
                         < Cardinality(Handlers)
  BY <1>1 DEF Overtaken, c
<1>3. CASE p = n + 1
  <2>1. Late(c, p) = {}
    <3>1. Late(c, p) = {j \in n + 1 + 1 .. n + 1 : c[j] < c[p]}
      BY <1>1, <1>3 DEF Late
    <3>2. n + 1 + 1 .. n + 1 = {}
      OBVIOUS
    <3> QED BY <3>1, <3>2
  <2>2. Early(moved, x) \in SUBSET (Handlers \ {r})
    BY DEF Early
  <2>3. /\ IsFiniteSet(Handlers \ {r})
        /\ Cardinality(Handlers \ {r}) = Cardinality(Handlers) - 1
    BY <1>2, FS_RemoveElement
  <2>4. Cardinality(Early(moved, x)) <= Cardinality(Handlers) - 1
    BY <2>2, <2>3, FS_Subset
  <2>5. Cardinality(Late(c, p)) = 0
    BY <2>1, FS_EmptySet
  <2>6. Cardinality(Early(moved, x)) \in Nat
    BY LateEarlyFinite
  <2> QED BY <1>1, <1>2, <1>3, <2>4, <2>5, <2>6
<1>4. CASE p \in 1 .. n
  <2>1. PICK y \in Nat : y = s[p] /\ y = c[p]
    BY <1>1, <1>4
  <2>2. /\ y <= now
        /\ Cardinality(Late(s, p)) + Cardinality(Early(slots, y)) < Cardinality(Handlers)
    BY <1>1, <1>4, <2>1 DEF Overtaken
  <2>3. /\ IsFiniteSet(Early(slots, y)) /\ Cardinality(Early(slots, y)) \in Nat
        /\ Cardinality(Early(moved, y)) \in Nat
        /\ IsFiniteSet(Late(s, p)) /\ Cardinality(Late(s, p)) \in Nat
    <3>1. p \in Nat
      OBVIOUS
    <3> QED BY <3>1, LateEarlyFinite
  <2>4. /\ Late(c, p) = {j \in p + 1 .. n + 1 : c[j] < y}
        /\ Late(s, p) = {j \in p + 1 .. n : c[j] < y}
    <3>1. /\ Late(c, p) = {j \in p + 1 .. n + 1 : c[j] < c[p]}
          /\ Late(s, p) = {j \in p + 1 .. n : s[j] < s[p]}
      BY <1>1 DEF Late
    <3>2. \A j \in p + 1 .. n : c[j] = s[j]
      BY SMTT(40), <1>1
    <3> QED BY <2>1, <3>1, <3>2
  <2>5. CASE x < y
    <3>1. Late(c, p) = Late(s, p) \cup {n + 1} /\ n + 1 \notin Late(s, p)
      <4>1. c[n + 1] < y /\ n + 1 \notin p + 1 .. n
        BY <1>1, <2>5
      <4>2. p + 1 .. n + 1 = (p + 1 .. n) \cup {n + 1}
        BY <1>4
      <4> QED BY <2>4, <4>1, <4>2
    <3>2. Cardinality(Late(c, p)) = Cardinality(Late(s, p)) + 1
      BY <2>3, <3>1, FS_AddElement
    <3>3. r \in Early(slots, y)
      BY <2>5 DEF Early
    <3>4. /\ IsFiniteSet(Early(slots, y) \ {r})
          /\ Cardinality(Early(slots, y) \ {r}) = Cardinality(Early(slots, y)) - 1
      BY <2>3, <3>3, FS_RemoveElement
    <3>5. Early(moved, y) \in SUBSET (Early(slots, y) \ {r})
      OBVIOUS
    <3>6. Cardinality(Early(moved, y)) <= Cardinality(Early(slots, y)) - 1
      BY <3>4, <3>5, FS_Subset
    <3>7. Cardinality(Late(s, p)) + 1 + Cardinality(Early(moved, y)) < Cardinality(Handlers)
      BY <1>2, <2>2, <2>3, <3>6
    <3> QED BY <2>1, <2>2, <3>2, <3>7
  <2>6. CASE ~(x < y)
    <3>1. Late(c, p) = Late(s, p)
      <4>1. \A j \in p + 1 .. n + 1 : c[j] < y => j \in p + 1 .. n
        BY SMTT(40), <1>1, <1>4, <2>6
      <4> QED BY <2>4, <4>1
    <3>2. Early(moved, y) \in SUBSET Early(slots, y)
      OBVIOUS
    <3>3. Cardinality(Early(moved, y)) <= Cardinality(Early(slots, y))
      BY <2>3, <3>2, FS_Subset
    <3>4. Cardinality(Late(s, p)) + Cardinality(Early(moved, y)) < Cardinality(Handlers)
      BY <1>2, <2>2, <2>3, <3>3
    <3> QED BY <2>1, <2>2, <3>1, <3>4
  <2> QED BY <2>5, <2>6
<1> QED BY <1>3, <1>4

-----------------------------------------------------------------------------
(* What is beyond the limit. *)

LEMMA LimitTypes ==
  RPM \in Nat /\ Block \in Nat /\ Window \in Nat /\ Window > 0 /\ Block >= Window
BY RateLimiterConstants

(* What trim makes of the request timestamps is cut off a sequence's front.*)
LEMMA WindowCuts ==
  ASSUME NEW c \in Seq(Nat), NEW t \in Nat
  PROVE  \E d \in 0 .. Len(c) : Recent(c, Window, t) = Cut(c, d, Len(c))
<1>1. Window \in Nat /\ Window > 0
  BY LimitTypes
<1>2. \E d \in 0 .. Len(c) :
        /\ Recent(c, Window, t) = Cut(c, d, Len(c))
        /\ \A i \in 1 .. d : c[i] + Window <= t
        /\ d < Len(c) => c[d + 1] + Window > t
  BY <1>1, RecentCuts
<1> QED BY <1>2

LEMMA BeyondBy ==
  ASSUME NEW e, NEW n, n = Len(e.requests)
  PROVE  BeyondLimit(e) <=>
           /\ n > RPM => e.blockedUntil = e.requests[n] + Block
           /\ \A i, j \in RPM + 1 .. n : i < j =>
                e.requests[i] + Block <= e.requests[j] /\ e.requests[i] < e.requests[1]
BY DEF BeyondLimit

LEMMA BeyondCut ==
  ASSUME NEW e \in Entry, BeyondLimit(e), NEW t \in Nat, NEW f \in Entry,
         f.requests = Recent(e.requests, Window, t), f.blockedUntil = e.blockedUntil
  PROVE  BeyondLimit(f)
<1> USE LimitTypes
<1>1. PICK s \in Seq(Nat) : s = e.requests
  BY DEF Entry
<1>2. PICK n \in Nat : n = Len(s)
  OBVIOUS
<1>3. \A i \in 1 .. n : s[i] \in Nat
  BY <1>2
<1>4. /\ n > RPM => e.blockedUntil = s[n] + Block
      /\ \A i, j \in RPM + 1 .. n : i < j => s[i] + Block <= s[j] /\ s[i] < s[1]
  BY <1>1, <1>2, BeyondBy
<1>5. PICK d \in 0 .. n :
        /\ f.requests = Cut(s, d, n)
        /\ \A i \in 1 .. d : s[i] + Window <= t
        /\ d < n => s[d + 1] + Window > t
  BY <1>1, <1>2, RecentCuts
<1>6. PICK c : c = f.requests
  OBVIOUS
<1>7. PICK m \in Nat : /\ Len(c) = m /\ n = m + d
                       /\ \A i \in 1 .. m : i + d \in 1 .. n /\ c[i] = s[i + d]
  <2>1. d \in 0 .. Len(s) /\ c = Cut(s, d, Len(s))
    BY <1>2, <1>5, <1>6
  <2>2. /\ c \in Seq(Nat) /\ Len(c) \in Nat /\ Len(s) = Len(c) + d
        /\ \A i \in 1 .. Len(c) : i + d \in 1 .. Len(s) /\ c[i] = s[i + d]
    BY <2>1, CutElements
  <2> QED BY <1>2, <2>2
<1>8. m > RPM => f.blockedUntil = c[m] + Block
  <2> SUFFICES ASSUME m > RPM PROVE f.blockedUntil = c[m] + Block
    OBVIOUS
  <2>1. c[m] = s[n] /\ n > RPM
    BY <1>7
  <2> QED BY <1>4, <2>1
<1>9. ASSUME NEW i \in RPM + 1 .. m, NEW j \in RPM + 1 .. m, i < j
      PROVE  c[i] + Block <= c[j] /\ c[i] < c[1]
  <2>1. PICK x \in RPM + 1 .. n, y \in RPM + 1 .. n : x = i + d /\ y = j + d /\ x < y
    <3>1. d \in Nat /\ n = m + d
      BY <1>7
    <3> QED BY <1>9, <3>1, LimitTypes
  <2>2. c[i] = s[x] /\ c[j] = s[y] /\ c[1] = s[d + 1] /\ 1 + d \in 1 .. n
    <3>1. i \in 1 .. m /\ j \in 1 .. m /\ 1 \in 1 .. m /\ 1 + d = d + 1
      BY <1>9
    <3> QED BY <1>7, <2>1, <3>1
  <2>3. s[x] + Block <= s[y] /\ s[x] < s[1]
    BY <1>4, <2>1
  <2>4. CASE d = 0
    BY <2>2, <2>3, <2>4
  <2>5. CASE d > 0
    <3>1. PICK a \in Nat, b \in Nat, z \in Nat : a = s[1] /\ b = s[d + 1] /\ z = s[x]
      <4>1. 1 \in 1 .. n /\ d + 1 \in 1 .. n
        BY <2>2
      <4>2. x \in 1 .. n
        BY <2>1
      <4> QED BY <1>3, <4>1, <4>2
    <3>2. a + Window <= t
      BY <1>5, <2>5, <3>1
    <3>3. b + Window > t
      BY <1>5, <2>2, <3>1
    <3>4. z < a
      BY <2>3, <3>1
    <3>5. z < b
      BY <3>2, <3>3, <3>4
    <3> QED BY <2>2, <2>3, <3>1, <3>5
  <2> QED BY <2>4, <2>5
<1> QED BY <1>6, <1>7, <1>8, <1>9, BeyondBy

LEMMA BeyondAppend ==
  ASSUME NEW e \in Entry, BeyondLimit(e), NEW now \in Nat, now >= e.blockedUntil,
         NEW f \in Entry, f.requests = Recent(Append(e.requests, now), Window, now),
         Len(f.requests) > RPM => f.blockedUntil = now + Block
  PROVE  BeyondLimit(f)
<1> USE LimitTypes
<1>1. PICK s \in Seq(Nat) : s = e.requests
  BY DEF Entry
<1>2. PICK n \in Nat : n = Len(s)
  OBVIOUS
<1>3. \A i \in 1 .. n : s[i] \in Nat
  BY <1>2
<1>4. /\ n > RPM => e.blockedUntil = s[n] + Block
      /\ \A i, j \in RPM + 1 .. n : i < j => s[i] + Block <= s[j] /\ s[i] < s[1]
  BY <1>1, <1>2, BeyondBy
<1>5. PICK a \in Seq(Nat) : /\ a = Append(s, now) /\ Len(a) = n + 1 /\ a[n + 1] = now
                            /\ \A i \in 1 .. n : a[i] = s[i]
  BY <1>2, AppendElements
<1>6. ASSUME NEW i \in RPM + 1 .. n PROVE s[i] + Block <= now
  <2>1. n > RPM /\ i \in 1 .. n /\ n \in RPM + 1 .. n /\ n \in 1 .. n
    OBVIOUS
  <2>2. PICK x \in Nat, y \in Nat : x = s[i] /\ y = s[n]
    BY <1>3, <2>1
  <2>3. y + Block <= now
    BY <1>4, <2>1, <2>2
  <2>4. i < n => x + Block <= y
    BY <1>4, <2>1, <2>2
  <2>5. i \in Nat /\ (i < n \/ i = n)
    OBVIOUS
  <2>6. i = n => x = y
    BY <2>2
  <2>7. x + Block <= now
    <3>1. CASE i < n
      BY <3>1, <2>3, <2>4
    <3>2. CASE i = n
      BY <3>2, <2>3, <2>6
    <3> QED BY <3>1, <3>2, <2>5
  <2> QED BY <2>2, <2>7
<1>7. PICK d \in 0 .. n + 1 :
        /\ f.requests = Cut(a, d, n + 1)
        /\ d < n + 1 => a[d + 1] + Window > now
  <2>1. \E d \in 0 .. Len(a) :
          /\ Recent(a, Window, now) = Cut(a, d, Len(a))
          /\ \A i \in 1 .. d : a[i] + Window <= now
          /\ d < Len(a) => a[d + 1] + Window > now
    BY RecentCuts
  <2>2. f.requests = Recent(a, Window, now)
    BY <1>1, <1>5
  <2> QED BY <1>5, <2>1, <2>2
<1>8. PICK c : c = f.requests
  OBVIOUS
<1>9. PICK m \in Nat : /\ Len(c) = m /\ n + 1 = m + d
                       /\ \A i \in 1 .. m : i + d \in 1 .. n + 1 /\ c[i] = a[i + d]
  <2>1. d \in 0 .. Len(a) /\ c = Cut(a, d, Len(a))
    BY <1>5, <1>7, <1>8
  <2>2. /\ c \in Seq(Nat) /\ Len(c) \in Nat /\ Len(a) = Len(c) + d
        /\ \A i \in 1 .. Len(c) : i + d \in 1 .. Len(a) /\ c[i] = a[i + d]
    BY ZenonT(40), <2>1, CutElements
  <2> QED BY <1>5, <2>2
<1>10. m > RPM => f.blockedUntil = c[m] + Block
  <2> SUFFICES ASSUME m > RPM PROVE f.blockedUntil = c[m] + Block
    OBVIOUS
  <2>1. m \in 1 .. m /\ m + d = n + 1
    BY <1>9
  <2>2. c[m] = now
    BY <1>5, <1>9, <2>1
  <2> QED BY <1>8, <1>9, <2>2
<1>11. ASSUME NEW i \in RPM + 1 .. m, NEW j \in RPM + 1 .. m, i < j
       PROVE  c[i] + Block <= c[j] /\ c[i] < c[1]
  <2>1. PICK x \in RPM + 1 .. n, y \in RPM + 1 .. n + 1 : x = i + d /\ y = j + d /\ x < y
    BY <1>9, <1>11
  <2>2. c[i] = a[x] /\ c[j] = a[y] /\ c[1] = a[d + 1] /\ 1 + d \in 1 .. n + 1
    <3>1. i \in 1 .. m /\ j \in 1 .. m /\ 1 \in 1 .. m /\ 1 + d = d + 1
      BY <1>11
    <3> QED BY <1>9, <2>1, <3>1
  <2>3. PICK z \in Nat : z = s[x] /\ z = a[x] /\ z + Block <= now
    <3>1. x \in 1 .. n
      BY <2>1
    <3> QED BY <1>3, <1>5, <1>6, <3>1
  <2>4. PICK b \in Nat : b = c[1] /\ b + Window > now
    <3>1. d < n + 1 /\ d + 1 \in 1 .. n + 1
      BY <2>2
    <3>2. a[d + 1] \in Nat
      BY SMTT(40), <1>5, <3>1
    <3> QED BY <1>7, <2>2, <3>1, <3>2
  <2>5. z < b
    BY SMTT(40), <2>3, <2>4
  <2>6. CASE y = n + 1
    BY <1>5, <2>2, <2>3, <2>4, <2>5, <2>6
  <2>7. CASE y \in RPM + 1 .. n
    <3>1. s[x] + Block <= s[y] /\ y \in 1 .. n
      BY <1>4, <2>1, <2>7
    <3> QED BY <1>5, <2>2, <2>3, <2>4, <2>5, <3>1
  <2> QED BY <2>6, <2>7
<1> QED BY <1>8, <1>9, <1>10, <1>11, BeyondBy

(* The two together bound an entry. *)
LEMMA CrowdBounded ==
  ASSUME RPM > 0, NEW e \in Entry, BeyondLimit(e), NEW now, NEW slots,
         Overtaken(e.requests, now, slots)
  PROVE  Len(e.requests) <= RPM + Cardinality(Handlers)
<1> USE LimitTypes
<1>1. PICK s \in Seq(Nat) : s = e.requests
  BY DEF Entry
<1>2. PICK n \in Nat : n = Len(s)
  OBVIOUS
<1>3. \A i, j \in RPM + 1 .. n : i < j => s[i] < s[1]
  BY <1>1, <1>2, BeyondBy
<1>4. PICK h \in Nat : h = Cardinality(Handlers)
  BY RateLimiterConstants, FS_CardinalityType
<1>5. CASE n = 0
  BY <1>1, <1>2, <1>4, <1>5
<1>6. CASE n > 0
  <2>1. PICK k \in Nat, y \in Nat :
          /\ k = Cardinality(Late(s, 1)) /\ IsFiniteSet(Late(s, 1))
          /\ k + y < h
    <3>1. 1 \in 1 .. n
      BY <1>6
    <3>2. Cardinality(Late(s, 1)) + Cardinality(Early(slots, s[1])) < h
      BY <1>1, <1>2, <1>4, <3>1 DEF Overtaken
    <3> QED BY <3>2, LateEarlyFinite
  <2>2. PICK m \in Nat : n = m + 1
    BY <1>6
  <2>3. RPM + 1 .. m \in SUBSET Late(s, 1)
    <3> SUFFICES ASSUME NEW i \in RPM + 1 .. m PROVE i \in 1 + 1 .. n /\ s[i] < s[1]
      BY <1>2 DEF Late
    <3>1. i \in RPM + 1 .. n /\ n \in RPM + 1 .. n /\ i < n
      BY <2>2
    <3>2. s[i] < s[1]
      BY <1>3, <3>1
    <3> QED BY <2>2, <3>2
  <2>4. Cardinality(RPM + 1 .. m) = IF RPM + 1 > m THEN 0 ELSE m - (RPM + 1) + 1
    <3>1. RPM + 1 \in Int /\ m \in Int
      OBVIOUS
    <3> QED BY <3>1, FS_Interval
  <2>5. Cardinality(RPM + 1 .. m) <= k
    BY <2>1, <2>3, FS_Subset
  <2>6. n <= RPM + h
    BY <2>1, <2>2, <2>4, <2>5
  <2> QED BY <1>1, <1>2, <1>4, <2>6
<1> QED BY <1>5, <1>6

-----------------------------------------------------------------------------
(* How a step moves the requests under way: none becomes earlier.          *)

EarlyMoves == \A t \in Nat : t <= clock => Early(req', t) \subseteq Early(req, t)

WaitsFor(q) == q.kind = "request" /\ q.step \in {"entry", "lock"}

LEMMA SlotMoves ==
  ASSUME TypeOK, NEW r \in Handlers, NEW q, req' = [req EXCEPT ![r] = q],
         WaitsFor(q) => \/ q.now \in Nat /\ q.now >= clock
                        \/ WaitsFor(req[r]) /\ q.now = req[r].now
  PROVE  EarlyMoves
<1> SUFFICES ASSUME NEW t \in Nat, t <= clock, NEW h \in Handlers, WaitsFor(req'[h]),
                    req'[h].now < t
             PROVE  WaitsFor(req[h]) /\ req[h].now < t
  BY DEF EarlyMoves, Early, WaitsFor
<1>1. CASE h # r
  <2>1. req'[h] = req[h]
    BY <1>1 DEF TypeOK
  <2> QED BY <2>1
<1>2. CASE h = r
  <2>1. req'[h] = q /\ clock \in Nat
    BY <1>2 DEF TypeOK
  <2>2. ~(q.now \in Nat /\ q.now >= clock)
    BY <2>1
  <2> QED BY <1>2, <2>1, <2>2
<1> QED BY <1>1, <1>2

LEMMA NoneMoves ==
  ASSUME req' = req
  PROVE  EarlyMoves
BY DEF EarlyMoves

(* A request that is no longer under way records nothing any more. *)
LEMMA SlotLeaves ==
  ASSUME TypeOK, NEW r \in Handlers, NEW q, req' = [req EXCEPT ![r] = q], ~WaitsFor(q)
  PROVE  \A t \in Nat : Early(req', t) \subseteq Early(req, t) \ {r}
<1> SUFFICES ASSUME NEW t \in Nat, NEW h \in Handlers, WaitsFor(req'[h]), req'[h].now < t
             PROVE  h # r /\ WaitsFor(req[h]) /\ req[h].now < t
  BY DEF Early, WaitsFor
<1>1. h # r
  BY DEF TypeOK
<1>2. req'[h] = req[h]
  BY <1>1 DEF TypeOK
<1> QED BY <1>1, <1>2

LEMMA EarlyNext ==
  ASSUME LimiterInv, [Next]_vars
  PROVE  EarlyMoves
<1>0. /\ TypeOK /\ clock \in Nat /\ ~WaitsFor(NoHandler)
      /\ \A r \in Handlers : req[r] \in Handler
  BY DEF LimiterInv, TypeOK, WaitsFor, NoHandler
<1>1. ASSUME NEW r \in Handlers, NEW ip \in Ips, Arrive(r, ip) PROVE EarlyMoves
  <2> DEFINE q == [NoHandler EXCEPT !.step = "entry", !.ip = ip, !.now = clock]
  <2>1. req' = [req EXCEPT ![r] = q]
    BY <1>1 DEF Arrive, Become
  <2>2. q.now \in Nat /\ q.now >= clock
    BY <1>0 DEF NoHandler
  <2> HIDE DEF q
  <2> QED BY <1>0, <2>1, <2>2, SlotMoves
<1>2. ASSUME NEW r \in Handlers, GetEntry(r) PROVE EarlyMoves
  <2>1. PICK id :
          req' = [req EXCEPT ![r] =
            [req[r] EXCEPT !.entry = id,
              !.step = IF req[r].kind = "request" THEN "lock" ELSE "stamp"]]
    BY <1>2 DEF GetEntry, Become
  <2> DEFINE q == [req[r] EXCEPT !.entry = id,
                     !.step = IF req[r].kind = "request" THEN "lock" ELSE "stamp"]
  <2>2. q.now = req[r].now /\ (WaitsFor(q) => WaitsFor(req[r]))
    BY <1>0, <1>2 DEF GetEntry, Handler, WaitsFor
  <2> HIDE DEF q
  <2> QED BY <1>0, <2>1, <2>2, SlotMoves DEF q
<1>3. ASSUME NEW r \in Handlers, Stamp(r) PROVE EarlyMoves
  <2> DEFINE q == [req[r] EXCEPT !.step = "lock", !.now = clock]
  <2>1. req' = [req EXCEPT ![r] = q]
    BY <1>3 DEF Stamp, Become
  <2>2. q.now \in Nat /\ q.now >= clock
    BY <1>0 DEF Handler
  <2> HIDE DEF q
  <2> QED BY <1>0, <2>1, <2>2, SlotMoves
<1>4. ASSUME NEW r \in Handlers, NEW status \in Statuses, Serve(r, status) PROVE EarlyMoves
  <2> DEFINE q == [req[r] EXCEPT !.step = "entry", !.kind = "error",
                     !.watched = ScanURLs /\ status = "scan404"]
  <2>1. ~WaitsFor(q)
    BY <1>0 DEF Handler, WaitsFor
  <2>2. req' = [req EXCEPT ![r] = NoHandler] \/ req' = [req EXCEPT ![r] = q]
    BY <1>4 DEF Serve, Become
  <2> HIDE DEF q
  <2> QED BY <1>0, <2>1, <2>2, SlotMoves
<1>5. CASE req' = req
  BY <1>5, NoneMoves
<1>6. ASSUME NEW r \in Handlers, Refuse(r) \/ Limit(r) \/ RecordError(r) \/ RecordScan(r)
      PROVE  EarlyMoves
  <2> DEFINE p == [req[r] EXCEPT !.step = "serve", !.entry = None]
             q == [req[r] EXCEPT !.step = "entry", !.kind = "scan", !.entry = None]
  <2>1. ~WaitsFor(p) /\ ~WaitsFor(q)
    BY <1>0 DEF Handler, WaitsFor
  <2>2. \/ req' = [req EXCEPT ![r] = NoHandler] \/ req' = [req EXCEPT ![r] = p]
        \/ req' = [req EXCEPT ![r] = q]
    BY <1>6 DEF Refuse, Limit, RecordError, RecordScan, Become
  <2> HIDE DEF p, q
  <2> QED BY <1>0, <2>1, <2>2, SlotMoves
<1> QED
  BY <1>1, <1>2, <1>3, <1>4, <1>5, <1>6
     DEF Next, Handle, StartSweep, Sweep, Tick, vars

(* What a step may do to an entry, other than recording a request. *)
EntryKept(id) ==
  \/ heap'[id] = heap[id]
  \/ heap'[id] = NewEntry
  \/ \E t \in Nat : /\ heap'[id].requests = Recent(heap[id].requests, Window, t)
                    /\ heap'[id].blockedUntil = heap[id].blockedUntil

LEMMA TrimRequests ==
  ASSUME NEW e \in Entry, NEW now
  PROVE  Trim(e, now).requests = Recent(e.requests, Window, now)
BY DEF Trim, Entry

LEMMA NewCrowded ==
  ASSUME NEW now, NEW slots
  PROVE  BeyondLimit(NewEntry) /\ Overtaken(NewEntry.requests, now, slots)
<1>1. NewEntry.requests = <<>> /\ Len(<<>>) = 0
  BY DEF NewEntry
<1>2. RPM \in Nat /\ 1 .. 0 = {} /\ RPM + 1 .. 0 = {} /\ ~(0 > RPM)
  BY LimitTypes
<1> QED BY <1>1, <1>2 DEF BeyondLimit, Overtaken

LEMMA EntryCrowded ==
  ASSUME TypeOK, TypeOK', Crowded, EarlyMoves, clock' >= clock, NEW id \in EntryIds, EntryKept(id)
  PROVE  BeyondLimit(heap'[id]) /\ Overtaken(heap'[id].requests, clock', req')
<1>1. PICK e \in Entry : e = heap[id]
  BY DEF TypeOK
<1>2. PICK f \in Entry : f = heap'[id]
  BY DEF TypeOK
<1>3. PICK now \in Nat, later \in Nat : now = clock /\ later = clock' /\ now <= later
  BY DEF TypeOK
<1>4. BeyondLimit(e) /\ Overtaken(e.requests, now, req) /\ e.requests \in Seq(Nat)
  BY <1>1, <1>3 DEF Crowded, Entry
<1>5. \A t \in Nat : t <= now => Early(req', t) \subseteq Early(req, t)
  BY <1>3 DEF EarlyMoves
<1>6. ASSUME NEW s \in Seq(Nat), Overtaken(s, now, req) PROVE Overtaken(s, later, req')
  BY <1>3, <1>5, <1>6, OvertakenKeeps
<1>7. CASE f = e
  BY <1>2, <1>3, <1>4, <1>6, <1>7
<1>8. CASE f = NewEntry
  BY <1>2, <1>8, NewCrowded
<1>9. ASSUME NEW t \in Nat, f.requests = Recent(e.requests, Window, t),
             f.blockedUntil = e.blockedUntil
      PROVE  BeyondLimit(f) /\ Overtaken(f.requests, later, req')
  <2>1. BeyondLimit(f)
    BY <1>4, <1>9, BeyondCut
  <2>2. PICK s \in Seq(Nat) : s = e.requests
    BY <1>4
  <2>3. PICK d \in 0 .. Len(s) : f.requests = Cut(s, d, Len(s))
    BY <1>9, <2>2, RecentCuts, LimitTypes
  <2>4. Overtaken(f.requests, now, req) /\ f.requests \in Seq(Nat)
    <3>1. Len(s) \in Nat
      BY <2>2
    <3>2. Overtaken(s, now, req)
      BY <1>4, <2>2
    <3> QED BY <2>3, <3>1, <3>2, OvertakenCut DEF Entry
  <2> QED BY <1>6, <2>1, <2>4
<1> QED BY <1>1, <1>2, <1>3, <1>7, <1>8, <1>9 DEF EntryKept

LEMMA AllCrowded ==
  ASSUME TypeOK, TypeOK', Crowded, EarlyMoves, clock' >= clock,
         \A id \in EntryIds : EntryKept(id)
  PROVE  Crowded'
BY EntryCrowded DEF Crowded

LEMMA LimitCrowds ==
  ASSUME RPM > 0, LimiterInv, LimiterInv', Crowded, NEW r \in Handlers, Limit(r)
  PROVE  Crowded'
<1> DEFINE id == req[r].entry
           a == [heap[id] EXCEPT !.requests = Append(@, req[r].now)]
           e == Trim(a, req[r].now)
           b == [e EXCEPT !.blockedUntil = req[r].now + Block]
           q == [req[r] EXCEPT !.step = "serve", !.entry = None]
<1>0. TypeOK /\ TypeOK' /\ clock' = clock /\ clock \in Nat
  BY DEF LimiterInv, Limit, TypeOK
<1>1. /\ req[r].step = "lock" /\ req[r].kind = "request" /\ id \in EntryIds
      /\ heap[id] \in Entry /\ req[r].now \in Nat /\ req[r].now <= clock
      /\ req[r].now >= heap[id].blockedUntil /\ req[r] \in Handler
  BY HeapOfNats DEF Limit, LimiterInv, Placed, TypeOK, Handler
<1>2. ~WaitsFor(q) /\ ~WaitsFor(NoHandler)
  BY <1>1 DEF WaitsFor, Handler, NoHandler
<1>3. req' = [req EXCEPT ![r] = NoHandler] \/ req' = [req EXCEPT ![r] = q]
  BY DEF Limit, Become
<1>4. /\ e \in Entry
      /\ e.requests = Recent(Append(heap[id].requests, req[r].now), Window, req[r].now)
  <2>1. a \in Entry
    BY <1>1, AppendKeeps
  <2>2. a.requests = Append(heap[id].requests, req[r].now)
    BY <1>1 DEF Entry
  <2> HIDE DEF a
  <2> QED BY <2>1, <2>2, TrimKeeps, TrimRequests
<1>5. /\ heap' = [heap EXCEPT ![id] = e] /\ ~(Len(e.requests) > RPM)
      \/ heap' = [heap EXCEPT ![id] = b]
  BY DEF Limit, Write, Exceeds
<1> HIDE DEF e, q
<1>6. b \in Entry /\ b.requests = e.requests /\ b.blockedUntil = req[r].now + Block
  <2>1. req[r].now + Block \in Nat
    BY <1>1, LimitTypes
  <2> QED BY <1>4, <2>1 DEF Entry
<1> HIDE DEF b
<1>7. PICK f \in Entry :
        /\ heap' = [heap EXCEPT ![id] = f] /\ f.requests = e.requests
        /\ Len(f.requests) > RPM => f.blockedUntil = req[r].now + Block
  BY <1>4, <1>5, <1>6
<1>8. \A t \in Nat : Early(req', t) \subseteq Early(req, t) \ {r}
  BY <1>0, <1>2, <1>3, SlotLeaves
<1>9. EarlyMoves
  BY <1>8 DEF EarlyMoves
<1>10. ASSUME NEW i \in EntryIds, i # id
       PROVE  BeyondLimit(heap'[i]) /\ Overtaken(heap'[i].requests, clock', req')
  <2>1. heap'[i] = heap[i]
    BY <1>0, <1>7, <1>10 DEF TypeOK
  <2> QED BY <1>0, <1>9, <2>1, EntryCrowded DEF EntryKept
<1>11. heap'[id] = f
  BY <1>0, <1>1, <1>7 DEF TypeOK
<1>12. BeyondLimit(f)
  <2>1. BeyondLimit(heap[id])
    BY <1>1 DEF Crowded
  <2> QED BY <1>1, <1>4, <1>7, <2>1, BeyondAppend
<1>13. Overtaken(f.requests, clock', req')
  <2>1. PICK s \in Seq(Nat), x \in Nat : s = heap[id].requests /\ x = req[r].now
    BY <1>1 DEF Entry
  <2>2. Overtaken(s, clock, req)
    BY <1>1, <2>1 DEF Crowded
  <2>3. Overtaken(Append(s, x), clock, req')
    BY <1>0, <1>1, <1>8, <2>1, <2>2, OvertakenAppend
  <2>4. PICK c \in Seq(Nat) : c = Append(s, x)
    BY AppendElements
  <2>5. PICK d \in 0 .. Len(c) : f.requests = Cut(c, d, Len(c))
    <3>1. f.requests = Recent(c, Window, x)
      BY <1>4, <1>7, <2>1, <2>4
    <3>2. \E d \in 0 .. Len(c) : Recent(c, Window, x) = Cut(c, d, Len(c))
      BY WindowCuts
    <3> QED BY <3>1, <3>2
  <2>6. Len(c) \in Nat
    OBVIOUS
  <2> QED BY <1>0, <2>3, <2>4, <2>5, <2>6, OvertakenCut
<1> QED BY <1>1, <1>10, <1>11, <1>12, <1>13 DEF Crowded

LEMMA CrowdedNext ==
  ASSUME RequestLimitOnly, RPM > 0, LimiterInv, Crowded, [Next]_vars
  PROVE  Crowded'
<1>0. /\ LimiterInv' /\ TypeOK /\ TypeOK' /\ clock \in Nat
      /\ \A r \in Handlers : req[r] \in Handler
      /\ \A id \in EntryIds : heap[id] \in Entry
      /\ EarlyMoves
  BY LimiterNext, EarlyNext DEF LimiterInv, TypeOK
<1>1. CASE heap' = heap /\ clock' >= clock
  BY <1>0, <1>1, AllCrowded DEF EntryKept
<1>2. ASSUME NEW r \in Handlers, GetEntry(r) PROVE Crowded'
  <2>1. \A i \in EntryIds : EntryKept(i)
    <3>1. heap' = heap \/ \E i \in EntryIds : heap' = [heap EXCEPT ![i] = NewEntry]
      BY <1>2 DEF GetEntry
    <3> QED BY <1>0, <3>1 DEF EntryKept, TypeOK
  <2>2. clock' = clock
    BY <1>2 DEF GetEntry
  <2> QED BY <1>0, <2>1, <2>2, AllCrowded
<1>5. ASSUME NEW r \in Handlers, Limit(r) PROVE Crowded'
  BY <1>0, <1>5, LimitCrowds
<1>7. ASSUME NEW r \in Handlers, RecordError(r) \/ RecordScan(r) PROVE Crowded'
  <2> DEFINE id == req[r].entry
             now == req[r].now
             a == [heap[id] EXCEPT !.errors = Append(@, now)]
             c == [heap[id] EXCEPT !.scan404 = Append(@, now)]
  <2>1. id \in EntryIds /\ heap[id] \in Entry /\ now \in Nat
    BY <1>0, <1>7, HeapOfNats DEF RecordError, RecordScan, LimiterInv, Placed, Handler
  <2>4. heap' = [heap EXCEPT ![id] = Trim(a, now)] \/ heap' = [heap EXCEPT ![id] = Trim(c, now)]
    <3>1. CASE RecordError(r)
      BY <1>0, <3>1 DEF RecordError, Overwrite, Write, Exceeds, RequestLimitOnly
    <3>2. CASE RecordScan(r)
      BY <1>0, <3>2 DEF RecordScan, Overwrite, Write, Exceeds, RequestLimitOnly
    <3> QED BY <1>7, <3>1, <3>2
  <2>5. /\ a \in Entry /\ a.requests = heap[id].requests /\ a.blockedUntil = heap[id].blockedUntil
        /\ c \in Entry /\ c.requests = heap[id].requests /\ c.blockedUntil = heap[id].blockedUntil
    <3>1. /\ a.requests = heap[id].requests /\ c.requests = heap[id].requests
      BY <2>1 DEF Entry
    <3> QED BY <2>1, <3>1, AppendKeeps
  <2> HIDE DEF a, c
  <2>7. ASSUME NEW i \in EntryIds PROVE EntryKept(i)
    <3>1. CASE i # id
      BY <1>0, <2>4, <3>1 DEF EntryKept, TypeOK
    <3>2. CASE i = id
      <4>1. PICK g \in {a, c} : heap'[id] = Trim(g, now)
        BY <1>0, <2>1, <2>4 DEF TypeOK
      <4>2. g \in Entry /\ g.requests = heap[id].requests /\ g.blockedUntil = heap[id].blockedUntil
        BY <2>5
      <4>3. /\ heap'[id].requests = Recent(heap[id].requests, Window, now)
            /\ heap'[id].blockedUntil = heap[id].blockedUntil
        BY <4>1, <4>2, TrimKeeps, TrimRequests
      <4> QED BY <2>1, <3>2, <4>3 DEF EntryKept
    <3> QED BY <3>1, <3>2
  <2>8. clock' = clock
    BY <1>7 DEF RecordError, RecordScan
  <2> QED BY <1>0, <2>7, <2>8, AllCrowded
<1>3. ASSUME NEW r \in Handlers, \/ Stamp(r) \/ Refuse(r)
                                 \/ \E ip \in Ips : Arrive(r, ip)
                                 \/ \E status \in Statuses : Serve(r, status)
      PROVE  Crowded'
  <2>1. heap' = heap /\ clock' = clock
    BY <1>3 DEF Stamp, Refuse, Arrive, Serve
  <2> QED BY <1>0, <1>1, <2>1
<1>4. CASE StartSweep \/ Tick \/ UNCHANGED vars
  <2>1. heap' = heap /\ (clock' = clock \/ clock' = clock + 1)
    BY <1>4 DEF StartSweep, Tick, vars
  <2> QED BY <1>0, <1>1, <2>1
<1>8. ASSUME NEW ip \in Ips, Sweep(ip) PROVE Crowded'
  <2>2. ASSUME NEW i \in EntryIds PROVE EntryKept(i)
    <3>1. CASE heap' = heap
      BY <3>1 DEF EntryKept
    <3>2. CASE table[ip] # None /\ heap' # heap
      <4>1. PICK id \in EntryIds : id = table[ip]
        BY <1>0, <3>2, HeapOfNats
      <4>2. heap' = [heap EXCEPT ![id] = Trim(heap[id], cleaner.now)]
        BY <1>8, <3>2, <4>1 DEF Sweep
      <4>3. cleaner.now \in Nat
        BY <1>0 DEF TypeOK, Cleaner
      <4>4. CASE i # id
        BY <1>0, <4>2, <4>4 DEF EntryKept, TypeOK
      <4>5. CASE i = id
        <5>1. heap'[id] = Trim(heap[id], cleaner.now)
          BY <1>0, <4>2 DEF TypeOK
        <5>2. /\ heap'[id].requests = Recent(heap[id].requests, Window, cleaner.now)
              /\ heap'[id].blockedUntil = heap[id].blockedUntil
          BY <1>0, <5>1, TrimKeeps, TrimRequests
        <5> QED BY <4>3, <4>5, <5>2 DEF EntryKept
      <4> QED BY <4>4, <4>5
    <3> QED BY <1>8, <3>1, <3>2 DEF Sweep
  <2> QED BY <1>0, <1>8, <2>2, AllCrowded DEF Sweep
<1> QED BY <1>2, <1>3, <1>4, <1>5, <1>7, <1>8 DEF Next, Handle

-----------------------------------------------------------------------------
(* Without watched paths, no scan is recorded. *)

LEMMA NothingRecent ==
  ASSUME NEW w, NEW now
  PROVE  Recent(<<>>, w, now) = <<>>
<1> DEFINE old == {n \in 1 .. Len(<<>>) :
                     w > 0 /\ \A i \in 1 .. n : <<>>[i] + w <= now}
<1>1. old = {}
  OBVIOUS
<1>2. Cardinality(old) = 0
  BY <1>1, FS_EmptySet
<1>3. Recent(<<>>, w, now) = SubSeq(<<>>, Cardinality(old) + 1, Len(<<>>))
  BY DEF Recent
<1> HIDE DEF old
<1>4. SubSeq(<<>>, 1, 0) = <<>>
  OBVIOUS
<1> QED BY <1>2, <1>3, <1>4

LEMMA NoScansNext ==
  ASSUME ~ScanURLs, LimiterInv, NoScans, [Next]_vars
  PROVE  NoScans'
<1> DEFINE Quiet(q) == ~q.watched /\ q.kind # "scan"
<1>0. /\ TypeOK
      /\ \A r \in Handlers : req[r] \in Handler /\ Quiet(req[r])
      /\ \A id \in EntryIds : heap[id] \in Entry /\ heap[id].scan404 = <<>>
      /\ Quiet(NoHandler)
  BY DEF LimiterInv, TypeOK, NoScans, NoHandler
<1>1. ASSUME NEW r \in Handlers, NEW q, req' = [req EXCEPT ![r] = q], Quiet(q)
      PROVE  \A s \in Handlers : Quiet(req'[s])
  BY <1>0, <1>1 DEF TypeOK
<1>2. ASSUME NEW id \in EntryIds, NEW e, heap' = [heap EXCEPT ![id] = e], e.scan404 = <<>>
      PROVE  \A i \in EntryIds : heap'[i].scan404 = <<>>
  BY <1>0, <1>2 DEF TypeOK
<1>3. ASSUME NEW r \in Handlers, NEW ip \in Ips, Arrive(r, ip) PROVE NoScans'
  <2> DEFINE q == [NoHandler EXCEPT !.step = "entry", !.ip = ip, !.now = clock]
  <2>1. req' = [req EXCEPT ![r] = q] /\ heap' = heap
    BY <1>3 DEF Arrive, Become
  <2>2. Quiet(q)
    BY DEF NoHandler
  <2> HIDE DEF q
  <2> QED BY <1>0, <1>1, <2>1, <2>2 DEF NoScans
<1>4. ASSUME NEW r \in Handlers, GetEntry(r) PROVE NoScans'
  <2>1. PICK id :
          req' = [req EXCEPT ![r] =
            [req[r] EXCEPT !.entry = id,
              !.step = IF req[r].kind = "request" THEN "lock" ELSE "stamp"]]
    BY <1>4 DEF GetEntry, Become
  <2> DEFINE q == [req[r] EXCEPT !.entry = id,
                     !.step = IF req[r].kind = "request" THEN "lock" ELSE "stamp"]
  <2>2. Quiet(q)
    BY <1>0 DEF Handler
  <2> HIDE DEF q
  <2>3. \A s \in Handlers : Quiet(req'[s])
    BY <1>1, <2>1, <2>2 DEF q
  <2>4. \A i \in EntryIds : heap'[i].scan404 = <<>>
    <3>1. heap' = heap \/ \E i \in EntryIds : heap' = [heap EXCEPT ![i] = NewEntry]
      BY <1>4 DEF GetEntry
    <3>2. NewEntry.scan404 = <<>>
      BY DEF NewEntry
    <3> QED BY <1>0, <1>2, <3>1, <3>2
  <2> QED BY <2>3, <2>4 DEF NoScans
<1>5. ASSUME NEW r \in Handlers, Stamp(r) PROVE NoScans'
  <2> DEFINE q == [req[r] EXCEPT !.step = "lock", !.now = clock]
  <2>1. req' = [req EXCEPT ![r] = q] /\ heap' = heap
    BY <1>5 DEF Stamp, Become
  <2>2. Quiet(q)
    BY <1>0 DEF Handler
  <2> HIDE DEF q
  <2> QED BY <1>0, <1>1, <2>1, <2>2 DEF NoScans
<1>6. ASSUME NEW r \in Handlers, Refuse(r) PROVE NoScans'
  BY <1>0, <1>1, <1>6 DEF Refuse, Become, NoScans
<1>7. ASSUME NEW r \in Handlers, Limit(r) PROVE NoScans'
  <2> DEFINE id == req[r].entry
             a == [heap[id] EXCEPT !.requests = Append(@, req[r].now)]
             e == Trim(a, req[r].now)
             b == [e EXCEPT !.blockedUntil = req[r].now + Block]
             q == [req[r] EXCEPT !.step = "serve", !.entry = None]
  <2>1. id \in EntryIds /\ heap[id] \in Entry /\ req[r].now \in Nat
    BY <1>0, <1>7 DEF Limit, LimiterInv, Placed, Handler
  <2>2. a \in Entry /\ a.scan404 = <<>>
    <3>1. a.scan404 = <<>>
      BY <1>0, <2>1 DEF Entry
    <3> QED BY <2>1, <3>1, AppendKeeps
  <2> HIDE DEF a
  <2>3. e \in Entry /\ e.scan404 = <<>>
    <3>1. e.scan404 = Recent(a.scan404, ScanBlock, req[r].now)
      BY <2>2 DEF Trim, Entry
    <3> QED BY <2>2, <3>1, TrimKeeps, NothingRecent
  <2> HIDE DEF e
  <2>4. b.scan404 = <<>>
    BY <2>3 DEF Entry
  <2> HIDE DEF b
  <2>5. Quiet(q)
    BY <1>0 DEF Handler
  <2> HIDE DEF q
  <2>6. /\ heap' = [heap EXCEPT ![id] = e] \/ heap' = [heap EXCEPT ![id] = b]
        /\ req' = [req EXCEPT ![r] = NoHandler] \/ req' = [req EXCEPT ![r] = q]
    BY <1>7 DEF Limit, Write, Become, e, a, b, q
  <2> QED BY <1>0, <1>1, <1>2, <2>1, <2>3, <2>4, <2>5, <2>6 DEF NoScans
<1>8. ASSUME NEW r \in Handlers, NEW status \in Statuses, Serve(r, status) PROVE NoScans'
  <2> DEFINE q == [req[r] EXCEPT !.step = "entry", !.kind = "error",
                     !.watched = ScanURLs /\ status = "scan404"]
  <2>1. Quiet(q)
    BY <1>0 DEF Handler
  <2>2. req' = [req EXCEPT ![r] = NoHandler] \/ req' = [req EXCEPT ![r] = q]
    BY <1>8 DEF Serve, Become
  <2> HIDE DEF q
  <2>3. \A s \in Handlers : Quiet(req'[s])
    BY <1>0, <1>1, <2>1, <2>2
  <2> QED BY <1>0, <1>8, <2>3 DEF Serve, NoScans
<1>9. ASSUME NEW r \in Handlers, RecordError(r) PROVE NoScans'
  <2> DEFINE id == req[r].entry
             a == [heap[id] EXCEPT !.errors = Append(@, req[r].now)]
             e == Trim(a, req[r].now)
             b == [e EXCEPT !.blockedUntil = req[r].now + Block]
  <2>1. id \in EntryIds /\ heap[id] \in Entry /\ req[r].now \in Nat
    BY <1>0, <1>9 DEF RecordError, LimiterInv, Placed, Handler
  <2>2. a \in Entry /\ a.scan404 = <<>>
    <3>1. a.scan404 = <<>>
      BY <1>0, <2>1 DEF Entry
    <3> QED BY <2>1, <3>1, AppendKeeps
  <2> HIDE DEF a
  <2>3. e \in Entry /\ e.scan404 = <<>>
    <3>1. e.scan404 = Recent(a.scan404, ScanBlock, req[r].now)
      BY <2>2 DEF Trim, Entry
    <3> QED BY <2>2, <3>1, TrimKeeps, NothingRecent
  <2> HIDE DEF e
  <2>4. b.scan404 = <<>>
    BY <2>3 DEF Entry
  <2> HIDE DEF b
  <2>5. heap' = [heap EXCEPT ![id] = e] \/ heap' = [heap EXCEPT ![id] = b]
    BY <1>9 DEF RecordError, Overwrite, Write, e, a, b
  <2>6. req' = [req EXCEPT ![r] = NoHandler]
    BY <1>0, <1>9 DEF RecordError, Become
  <2> QED BY <1>0, <1>1, <1>2, <2>1, <2>3, <2>4, <2>5, <2>6 DEF NoScans
<1>10. ASSUME NEW r \in Handlers, RecordScan(r) PROVE NoScans'
  BY <1>0, <1>10 DEF RecordScan
<1>11. ASSUME NEW ip \in Ips, Sweep(ip) PROVE NoScans'
  <2>1. CASE heap' = heap
    BY <1>0, <1>11, <2>1 DEF Sweep, NoScans
  <2>2. CASE table[ip] # None /\ heap' # heap
    <3>1. PICK id \in EntryIds : id = table[ip]
      BY <1>0, <2>2, HeapOfNats
    <3>2. heap' = [heap EXCEPT ![id] = Trim(heap[id], cleaner.now)] /\ req' = req
      BY <1>11, <2>2, <3>1 DEF Sweep
    <3>3. Trim(heap[id], cleaner.now).scan404 = Recent(heap[id].scan404, ScanBlock, cleaner.now)
      BY <1>0 DEF Trim, Entry
    <3>4. Trim(heap[id], cleaner.now).scan404 = <<>>
      BY <1>0, <3>3, NothingRecent
    <3> QED BY <1>0, <1>2, <3>2, <3>4 DEF NoScans
  <2> QED BY <1>11, <2>1, <2>2 DEF Sweep
<1>12. CASE StartSweep \/ Tick \/ UNCHANGED vars
  <2>1. heap' = heap /\ req' = req
    BY <1>12 DEF StartSweep, Tick, vars
  <2> QED BY <1>0, <2>1 DEF NoScans
<1> QED
  BY <1>3, <1>4, <1>5, <1>6, <1>7, <1>8, <1>9, <1>10, <1>11, <1>12 DEF Next, Handle

(* A stale entry that the cleanup visits goes. *)
LEMMA SweepForgets ==
  ASSUME LimiterInv, ScanURLs => ScanBlock > 0, ~ScanURLs => NoScans,
         NEW ip \in Ips, Sweep(ip), table[ip] # None, Stale(heap[table[ip]])
  PROVE  table'[ip] = None
<1>0. TypeOK /\ cleaner.now \in Nat /\ ScanBlock \in Nat /\ ScanURLs \in BOOLEAN
  BY RateLimiterConstants DEF LimiterInv, TypeOK, Cleaner
<1>1. PICK id \in EntryIds : id = table[ip] /\ heap[id] \in Entry
  BY <1>0, HeapOfNats
<1>2. PICK g \in Entry : g = heap[id]
  BY <1>1
<1>3. /\ g.requests \in Seq(Nat) /\ g.errors \in Seq(Nat) /\ g.scan404 \in Seq(Nat)
      /\ g.blockedUntil < cleaner.now
      /\ \A i \in DOMAIN g.requests : g.requests[i] + Window <= cleaner.now
      /\ \A i \in DOMAIN g.errors : g.errors[i] + Block <= cleaner.now
      /\ ScanBlock > 0 => \A i \in DOMAIN g.scan404 : g.scan404[i] + ScanBlock <= cleaner.now
  BY <1>1, <1>2 DEF Stale, Old, Entry
<1>4. Recent(g.requests, Window, cleaner.now) = <<>>
  BY <1>0, <1>3, AllOldGoes, LimitTypes
<1>5. Recent(g.errors, Block, cleaner.now) = <<>>
  <2>1. Block \in Nat /\ Block > 0
    BY LimitTypes
  <2> QED BY <1>0, <1>3, <2>1, AllOldGoes
<1>6. Recent(g.scan404, ScanBlock, cleaner.now) = <<>>
  <2>1. CASE ScanBlock > 0
    BY <1>0, <1>3, <2>1, AllOldGoes
  <2>2. CASE ~ScanURLs
    <3>1. g.scan404 = <<>>
      BY <1>1, <1>2, <2>2 DEF NoScans
    <3> QED BY <3>1, NothingRecent
  <2> QED BY <1>0, <2>1, <2>2
<1>7. PICK e : e = Trim(g, cleaner.now)
  OBVIOUS
<1>8. /\ e.requests = <<>> /\ e.errors = <<>> /\ e.scan404 = <<>>
      /\ e.blockedUntil < cleaner.now
  BY <1>3, <1>4, <1>5, <1>6, <1>7 DEF Trim, Entry
<1>9. table' = [table EXCEPT ![ip] =
                  IF /\ e.blockedUntil < cleaner.now
                     /\ e.requests = <<>> /\ e.errors = <<>> /\ e.scan404 = <<>>
                  THEN None ELSE @]
  BY <1>1, <1>2, <1>7 DEF Sweep
<1> QED BY <1>0, <1>8, <1>9 DEF TypeOK

-----------------------------------------------------------------------------
(* How many timestamps are not old, and how many lie in one window.        *)

LEMMA FreshFinite ==
  ASSUME NEW s \in Seq(Nat), NEW t \in Nat
  PROVE  /\ IsFiniteSet(Fresh(s, t)) /\ Cardinality(Fresh(s, t)) \in Nat
         /\ Cardinality(Fresh(s, t)) <= Len(s)
         /\ IsFiniteSet(InWindow(s, t)) /\ Cardinality(InWindow(s, t)) \in Nat
         /\ Cardinality(InWindow(s, t)) <= Cardinality(Fresh(s, t))
<1>1. PICK n \in Nat : n = Len(s) /\ DOMAIN s = 1 .. n
  OBVIOUS
<1>2. IsFiniteSet(1 .. n) /\ Cardinality(1 .. n) = n
  <2>1. Cardinality(1 .. n) = IF 1 > n THEN 0 ELSE n - 1 + 1
    BY FS_Interval
  <2> QED BY <2>1, FS_Interval
<1>3. Fresh(s, t) \in SUBSET (1 .. n) /\ InWindow(s, t) \in SUBSET Fresh(s, t)
  BY <1>1 DEF Fresh, InWindow
<1>4. IsFiniteSet(Fresh(s, t)) /\ Cardinality(Fresh(s, t)) <= n
  BY <1>2, <1>3, FS_Subset
<1>5. /\ IsFiniteSet(InWindow(s, t))
      /\ Cardinality(InWindow(s, t)) <= Cardinality(Fresh(s, t))
  BY <1>3, <1>4, FS_Subset
<1> QED BY <1>1, <1>4, <1>5, FS_CardinalityType

LEMMA NoneFresh ==
  ASSUME NEW t
  PROVE  Cardinality(Fresh(<<>>, t)) = 0 /\ Cardinality(InWindow(<<>>, t)) = 0
<1>1. DOMAIN <<>> = {}
  OBVIOUS
<1>2. Fresh(<<>>, t) = {} /\ InWindow(<<>>, t) = {}
  BY <1>1 DEF Fresh, InWindow
<1> QED BY <1>2, FS_EmptySet

(* One timestamp more. *)
Gain(x, t) == IF x + Window > t THEN 1 ELSE 0

LEMMA AppendDomain ==
  ASSUME NEW s \in Seq(Nat), NEW x \in Nat, NEW c, c = Append(s, x)
  PROVE  \E n \in Nat : /\ DOMAIN s = 1 .. n /\ DOMAIN c = 1 .. n + 1
                         /\ c[n + 1] = x /\ \A i \in 1 .. n : c[i] = s[i]
<1>1. /\ c \in Seq(Nat) /\ Len(c) = Len(s) + 1 /\ c[Len(s) + 1] = x
      /\ \A i \in 1 .. Len(s) : c[i] = s[i]
  BY AppendElements
<1> QED BY <1>1

LEMMA FreshAppend ==
  ASSUME NEW s \in Seq(Nat), NEW x \in Nat, NEW t \in Nat, NEW c, c = Append(s, x)
  PROVE  Cardinality(Fresh(c, t)) = Cardinality(Fresh(s, t)) + Gain(x, t)
<1>1. PICK n \in Nat : /\ DOMAIN s = 1 .. n /\ DOMAIN c = 1 .. n + 1
                       /\ c[n + 1] = x /\ \A i \in 1 .. n : c[i] = s[i]
  BY AppendDomain
<1>2. n + 1 \notin 1 .. n /\ \A i \in 1 .. n + 1 : i \in 1 .. n \/ i = n + 1
  OBVIOUS
<1>3. n + 1 \notin Fresh(s, t)
  BY <1>1, <1>2 DEF Fresh
<1>4. Fresh(c, t) = Fresh(s, t) \cup IF x + Window > t THEN {n + 1} ELSE {}
  <2>1. \A i \in 1 .. n : i \in 1 .. n + 1
    OBVIOUS
  <2> QED BY <1>1, <1>2, <2>1 DEF Fresh
<1>5. IsFiniteSet(Fresh(s, t)) /\ Cardinality(Fresh(s, t)) \in Nat
  BY FreshFinite
<1>6. CASE x + Window > t
  <2>1. Cardinality(Fresh(c, t)) = Cardinality(Fresh(s, t)) + 1
    BY <1>3, <1>4, <1>5, <1>6, FS_AddElement
  <2> QED BY <1>6, <2>1 DEF Gain
<1>7. CASE ~(x + Window > t)
  <2>1. Fresh(c, t) = Fresh(s, t)
    BY <1>4, <1>7
  <2> QED BY <1>5, <1>7, <2>1 DEF Gain
<1> QED BY <1>6, <1>7

LEMMA FreshGains ==
  ASSUME NEW s \in Seq(Nat), NEW x \in Nat, NEW t \in Nat
  PROVE  Cardinality(Fresh(Append(s, x), t)) = Cardinality(Fresh(s, t)) + Gain(x, t)
BY ZenonT(30), FreshAppend

LEMMA WindowAppend ==
  ASSUME NEW s \in Seq(Nat), NEW x \in Nat, NEW t \in Nat, NEW c, c = Append(s, x)
  PROVE  Cardinality(InWindow(c, t)) <=
           Cardinality(InWindow(s, t)) + IF x <= t THEN 1 ELSE 0
<1>1. PICK n \in Nat : /\ DOMAIN s = 1 .. n /\ DOMAIN c = 1 .. n + 1
                       /\ c[n + 1] = x /\ \A i \in 1 .. n : c[i] = s[i]
  BY AppendDomain
<1>2. n + 1 \notin 1 .. n /\ \A i \in 1 .. n + 1 : i \in 1 .. n \/ i = n + 1
  OBVIOUS
<1>3. n + 1 \notin InWindow(s, t)
  BY <1>1, <1>2 DEF InWindow
<1>4. InWindow(c, t) \subseteq InWindow(s, t) \cup IF x <= t THEN {n + 1} ELSE {}
  BY <1>1, <1>2 DEF InWindow
<1>5. IsFiniteSet(InWindow(s, t)) /\ Cardinality(InWindow(s, t)) \in Nat
  BY FreshFinite
<1>6. CASE x <= t
  <2>1. /\ IsFiniteSet(InWindow(s, t) \cup {n + 1})
        /\ Cardinality(InWindow(s, t) \cup {n + 1}) = Cardinality(InWindow(s, t)) + 1
    BY <1>3, <1>5, FS_AddElement
  <2>2. InWindow(c, t) \in SUBSET (InWindow(s, t) \cup {n + 1})
    BY <1>4, <1>6
  <2>3. Cardinality(InWindow(c, t)) <= Cardinality(InWindow(s, t)) + 1
    BY <2>1, <2>2, FS_Subset
  <2> QED BY <1>6, <2>3
<1>7. CASE ~(x <= t)
  <2>1. InWindow(c, t) \in SUBSET InWindow(s, t)
    BY <1>4, <1>7
  <2>2. Cardinality(InWindow(c, t)) <= Cardinality(InWindow(s, t))
    BY <1>5, <2>1, FS_Subset
  <2>3. Cardinality(InWindow(s, t)) + 0 = Cardinality(InWindow(s, t))
    BY <1>5
  <2> QED BY <1>7, <2>2, <2>3
<1> QED BY <1>6, <1>7

(* What is cut off the front was old. *)
LEMMA FreshCut ==
  ASSUME NEW s \in Seq(Nat), NEW d \in 0 .. Len(s), NEW c, c = Cut(s, d, Len(s)),
         NEW t \in Nat, \A i \in 1 .. d : ~(s[i] + Window > t)
  PROVE  Cardinality(Fresh(s, t)) <= Cardinality(Fresh(c, t))
<1>1. PICK n \in Nat, m \in Nat :
        /\ n = Len(s) /\ m = Len(c) /\ n = m + d /\ c \in Seq(Nat)
        /\ DOMAIN s = 1 .. n /\ DOMAIN c = 1 .. m
        /\ \A i \in 1 .. m : i + d \in 1 .. n /\ c[i] = s[i + d]
  <2>1. /\ c \in Seq(Nat) /\ Len(c) \in Nat /\ Len(s) = Len(c) + d
        /\ \A i \in 1 .. Len(c) : i + d \in 1 .. Len(s) /\ c[i] = s[i + d]
    BY CutElements
  <2>2. DOMAIN s = 1 .. Len(s) /\ Len(s) \in Nat
    OBVIOUS
  <2>3. DOMAIN c = 1 .. Len(c)
    <3>1. c \in Seq(Nat)
      BY <2>1
    <3> QED BY <3>1
  <2> QED BY ZenonT(40), <2>1, <2>2, <2>3
<1> DEFINE S == Fresh(s, t)
           T == Fresh(c, t)
           f == [i \in S |-> i - d]
<1>2. ASSUME NEW i \in S PROVE i \in Nat /\ i - d \in T
  <2>1. i \in 1 .. n /\ s[i] + Window > t
    BY <1>1 DEF Fresh
  <2>2. d \in 0 .. n /\ ~(i \in 1 .. d)
    BY <1>1, <2>1
  <2>3. PICK j \in Nat : i = j + d /\ j \in 1 .. m
    <3>1. i - d \in Nat /\ i = (i - d) + d /\ i - d \in 1 .. m
      BY <1>1, <2>1, <2>2
    <3> QED BY <3>1
  <2>4. c[j] = s[j + d] /\ j \in DOMAIN c
    BY <1>1, <2>3
  <2>5. i - d = j /\ i \in Nat
    BY <2>2, <2>3
  <2>6. j \in T
    BY <2>1, <2>3, <2>4 DEF Fresh
  <2> QED BY <2>5, <2>6
<1> HIDE DEF S, T
<1>3. f \in [S -> T]
  BY <1>2
<1>4. \A i, j \in S : f[i] = f[j] => i = j
  <2>1. d \in Nat
    BY <1>1
  <2> QED BY <1>2, <2>1
<1>5. f \in Injection(S, T)
  <2> HIDE DEF f
  <2> QED BY <1>3, <1>4 DEF Injection, IsInjective
<1>6. IsFiniteSet(T)
  BY <1>1, FreshFinite DEF T
<1> HIDE DEF f
<1>7. Cardinality(S) <= Cardinality(T)
  BY <1>5, <1>6, FS_Injection
<1> QED BY <1>7 DEF S, T

LEMMA FreshRecent ==
  ASSUME NEW s \in Seq(Nat), NEW u \in Nat, NEW t \in Nat, u <= t,
         NEW c, c = Recent(s, Window, u)
  PROVE  Cardinality(Fresh(s, t)) <= Cardinality(Fresh(c, t))
<1>1. Window \in Nat /\ Window > 0
  BY LimitTypes
<1>2. PICK d \in 0 .. Len(s) : /\ Recent(s, Window, u) = Cut(s, d, Len(s))
                               /\ \A i \in 1 .. d : s[i] + Window <= u
  BY <1>1, RecentCuts
<1>3. ASSUME NEW i \in 1 .. d PROVE ~(s[i] + Window > t)
  <2>1. s[i] \in Nat /\ s[i] + Window <= u
    BY <1>2
  <2> QED BY <1>1, <2>1
<1> QED BY <1>2, <1>3, FreshCut

(* The requests of a window are not more than those of the entry.          *)
LEMMA OnRecordTrimmed ==
  ASSUME NEW a \in Seq(Nat), NEW s \in Seq(Nat), NEW now \in Nat, OnRecord(a, s, now),
         NEW u \in Nat, u <= now, NEW f \in Seq(Nat), f = Recent(s, Window, u)
  PROVE  OnRecord(a, f, now)
<1> SUFFICES ASSUME NEW t \in Nat, t >= now
             PROVE  Cardinality(Fresh(a, t)) <= Cardinality(Fresh(f, t))
  BY DEF OnRecord
<1>1. Cardinality(Fresh(s, t)) <= Cardinality(Fresh(f, t))
  BY FreshRecent
<1>2. Cardinality(Fresh(a, t)) <= Cardinality(Fresh(s, t))
  BY DEF OnRecord
<1>3. /\ Cardinality(Fresh(a, t)) \in Nat /\ Cardinality(Fresh(s, t)) \in Nat
      /\ Cardinality(Fresh(f, t)) \in Nat
  BY FreshFinite
<1> QED BY <1>1, <1>2, <1>3

LEMMA OnRecordAppend ==
  ASSUME NEW a \in Seq(Nat), NEW s \in Seq(Nat), NEW now \in Nat, OnRecord(a, s, now),
         NEW x \in Nat, NEW c, c = Append(s, x), NEW b, b = Append(a, x)
  PROVE  OnRecord(a, c, now) /\ OnRecord(b, c, now)
<1>1. ASSUME NEW t \in Nat, t >= now
      PROVE  /\ Cardinality(Fresh(a, t)) <= Cardinality(Fresh(c, t))
             /\ Cardinality(Fresh(b, t)) <= Cardinality(Fresh(c, t))
  <2>1. PICK m \in Nat, n \in Nat : /\ m = Cardinality(Fresh(a, t))
                                   /\ n = Cardinality(Fresh(s, t)) /\ m <= n
    BY <1>1, FreshFinite DEF OnRecord
  <2>2. PICK k \in Nat : k = Gain(x, t)
    BY DEF Gain
  <2>3. Cardinality(Fresh(Append(s, x), t)) = Cardinality(Fresh(s, t)) + Gain(x, t)
    BY FreshGains
  <2>4. Cardinality(Fresh(Append(a, x), t)) = Cardinality(Fresh(a, t)) + Gain(x, t)
    BY FreshGains
  <2>5. Cardinality(Fresh(c, t)) = n + k /\ Cardinality(Fresh(b, t)) = m + k
    BY Zenon, <2>1, <2>2, <2>3, <2>4
  <2> QED BY <2>1, <2>5
<1> QED BY <1>1 DEF OnRecord

(* At the limit. *)
LEMMA WithinRecord ==
  ASSUME NEW a \in Seq(Nat), NEW f \in Seq(Nat), NEW now \in Nat, OnRecord(a, f, now),
         Len(f) <= RPM
  PROVE  Within(a, now)
<1> SUFFICES ASSUME NEW t \in Nat, t >= now PROVE Cardinality(Fresh(a, t)) <= RPM
  BY DEF Within
<1>1. Cardinality(Fresh(a, t)) <= Cardinality(Fresh(f, t))
  BY DEF OnRecord
<1>2. /\ Cardinality(Fresh(a, t)) \in Nat /\ Cardinality(Fresh(f, t)) \in Nat
      /\ Cardinality(Fresh(f, t)) <= Len(f) /\ Len(f) \in Nat /\ RPM \in Nat
  <2>1. Len(f) \in Nat /\ RPM \in Nat
    BY LimitTypes
  <2>2. Cardinality(Fresh(a, t)) \in Nat
    BY FreshFinite
  <2>3. Cardinality(Fresh(f, t)) \in Nat /\ Cardinality(Fresh(f, t)) <= Len(f)
    BY FreshFinite
  <2> QED BY <2>1, <2>2, <2>3
<1> QED BY <1>1, <1>2

LEMMA EarlyBounded ==
  ASSUME NEW slots, NEW t
  PROVE  /\ IsFiniteSet(Early(slots, t)) /\ Cardinality(Early(slots, t)) \in Nat
         /\ Cardinality(Handlers) \in Nat
         /\ Cardinality(Early(slots, t)) <= Cardinality(Handlers)
<1>1. Early(slots, t) \in SUBSET Handlers /\ IsFiniteSet(Handlers)
  BY RateLimiterConstants DEF Early
<1> QED BY <1>1, FS_Subset, FS_CardinalityType

(* Time passes, and others move on: no request joins a window late that    *)
(* was not under way before.                                               *)
LEMMA LateKeeps ==
  ASSUME NEW a \in Seq(Nat), NEW now \in Nat, NEW later \in {now, now + 1}, NEW slots, NEW moved,
         Within(a, now), LateOnes(a, now, slots),
         \A t \in Nat : t <= now => Early(moved, t) \subseteq Early(slots, t)
  PROVE  LateOnes(a, later, moved)
<1> SUFFICES ASSUME NEW t \in Nat, t < later
             PROVE  Cardinality(InWindow(a, t)) + Cardinality(Early(moved, t + 1))
                      <= RPM + Cardinality(Handlers)
  BY DEF LateOnes
<1>1. /\ Cardinality(InWindow(a, t)) \in Nat /\ Cardinality(Fresh(a, t)) \in Nat
      /\ Cardinality(InWindow(a, t)) <= Cardinality(Fresh(a, t)) /\ RPM \in Nat
  BY FreshFinite, LimitTypes
<1>2. PICK h \in Nat, e \in Nat : /\ h = Cardinality(Handlers) /\ e <= h
                                 /\ e = Cardinality(Early(moved, t + 1))
  BY EarlyBounded
<1>3. CASE t < now
  <2>1. t + 1 \in Nat /\ t + 1 <= now
    BY <1>3
  <2>2. Early(moved, t + 1) \in SUBSET Early(slots, t + 1)
    BY <2>1
  <2>3. PICK g \in Nat : g = Cardinality(Early(slots, t + 1)) /\ e <= g
    BY <1>2, <2>2, EarlyBounded, FS_Subset
  <2>4. Cardinality(InWindow(a, t)) + g <= RPM + h
    BY <1>2, <1>3, <2>3 DEF LateOnes
  <2>5. Cardinality(InWindow(a, t)) + e <= RPM + h
    BY <1>1, <2>3, <2>4
  <2> QED BY <1>2, <2>5
<1>4. CASE ~(t < now)
  <2>1. t >= now
    BY <1>4
  <2>2. Cardinality(Fresh(a, t)) <= RPM
    BY <2>1 DEF Within
  <2> QED BY <1>1, <1>2, <2>2
<1> QED BY <1>3, <1>4

(* A late request joins a window, and is no longer under way. *)
LEMMA LateJoins ==
  ASSUME NEW a \in Seq(Nat), NEW now \in Nat, NEW slots, NEW moved, LateOnes(a, now, slots),
         NEW r \in Handlers, WaitsFor(slots[r]), NEW x \in Nat, x = slots[r].now,
         \A t \in Nat : Early(moved, t) \subseteq Early(slots, t) \ {r},
         NEW b, b = Append(a, x)
  PROVE  LateOnes(b, now, moved)
<1> SUFFICES ASSUME NEW t \in Nat, t < now
             PROVE  Cardinality(InWindow(b, t)) + Cardinality(Early(moved, t + 1))
                      <= RPM + Cardinality(Handlers)
  BY DEF LateOnes
<1>0. PICK u \in Nat : u = t + 1
  OBVIOUS
<1>1. PICK h \in Nat, e \in Nat, g \in Nat :
        /\ h = Cardinality(Handlers) /\ e = Cardinality(Early(moved, u))
        /\ g = Cardinality(Early(slots, u))
  BY EarlyBounded
<1>2. PICK m \in Nat, n \in Nat : m = Cardinality(InWindow(a, t)) /\ n = RPM
  BY FreshFinite, LimitTypes
<1>3. m + g <= n + h
  BY <1>0, <1>1, <1>2 DEF LateOnes
<1>4. b \in Seq(Nat)
  BY AppendElements
<1>5. PICK k \in Nat : k = Cardinality(InWindow(b, t))
  BY <1>4, FreshFinite
<1>6. k <= m + IF x <= t THEN 1 ELSE 0
  BY <1>2, <1>5, WindowAppend
<1>7. Early(moved, u) \in SUBSET (Early(slots, u) \ {r}) /\ IsFiniteSet(Early(slots, u))
  BY EarlyBounded
<1>8. CASE x <= t
  <2>1. r \in Early(slots, u)
    BY <1>0, <1>8 DEF Early, WaitsFor
  <2>2. /\ IsFiniteSet(Early(slots, u) \ {r})
        /\ Cardinality(Early(slots, u) \ {r}) = g - 1
    BY <1>1, <1>7, <2>1, FS_RemoveElement
  <2>3. e <= g - 1
    BY <1>1, <1>7, <2>2, FS_Subset
  <2>4. k <= m + 1
    BY <1>6, <1>8
  <2>5. k + e <= n + h
    BY <1>3, <2>3, <2>4
  <2> QED BY <1>0, <1>1, <1>2, <1>5, <2>5
<1>9. CASE ~(x <= t)
  <2>1. Early(moved, u) \in SUBSET Early(slots, u)
    BY <1>7
  <2>2. e <= g
    BY <1>1, <1>7, <2>1, FS_Subset
  <2> QED BY <1>0, <1>1, <1>2, <1>3, <1>5, <1>6, <1>9, <2>2
<1> QED BY <1>8, <1>9

-----------------------------------------------------------------------------
(* What a step other than Limit does to the timestamps of the requests: it *)
(* trims those of an entry, or begins an entry.                            *)

StampsKept(ip) ==
  \/ Stamps(ip)' = Stamps(ip)
  \/ \E t \in Nat : t <= clock /\ Stamps(ip)' = Recent(Stamps(ip), Window, t)

LEMMA StampsTypes ==
  /\ TypeOK => /\ \A ip \in Ips : Stamps(ip) \in Seq(Nat) /\ admitted[ip] \in Seq(Nat)
              /\ \A id \in EntryIds : heap[id].requests \in Seq(Nat)
  /\ TypeOK' => /\ \A ip \in Ips : Stamps(ip)' \in Seq(Nat) /\ admitted'[ip] \in Seq(Nat)
               /\ \A id \in EntryIds : heap'[id].requests \in Seq(Nat)
<1>1. <<>> \in Seq(Nat)
  OBVIOUS
<1> QED BY <1>1 DEF TypeOK, Stamps, Entry

LEMMA CountedBy ==
  /\ AllCounted <=> \A ip \in Ips : /\ OnRecord(admitted[ip], Stamps(ip), clock)
                                    /\ Within(admitted[ip], clock)
                                    /\ LateOnes(admitted[ip], clock, req)
  /\ AllCounted' <=> \A ip \in Ips : /\ OnRecord(admitted'[ip], Stamps(ip)', clock')
                                     /\ Within(admitted'[ip], clock')
                                     /\ LateOnes(admitted'[ip], clock', req')
BY DEF AllCounted, OnRecord, Within, LateOnes, Stamps, Early, Fresh, InWindow

LEMMA CountedKeeps ==
  ASSUME LimiterInv, LimiterInv', AllCounted, EarlyMoves, \A ip \in Ips : StampsKept(ip),
         admitted' = admitted, clock' = clock \/ clock' = clock + 1
  PROVE  AllCounted'
<1> SUFFICES ASSUME NEW ip \in Ips
             PROVE  /\ OnRecord(admitted[ip], Stamps(ip)', clock')
                    /\ Within(admitted[ip], clock') /\ LateOnes(admitted[ip], clock', req')
  BY CountedBy
<1>1. PICK now \in Nat, later \in Nat :
        now = clock /\ later = clock' /\ (later = now \/ later = now + 1)
  BY DEF LimiterInv, TypeOK
<1>2. PICK a \in Seq(Nat), s \in Seq(Nat), f \in Seq(Nat) :
        a = admitted[ip] /\ s = Stamps(ip) /\ f = Stamps(ip)'
  BY StampsTypes DEF LimiterInv
<1>3. OnRecord(a, s, now) /\ Within(a, now) /\ LateOnes(a, now, req)
  BY <1>1, <1>2, CountedBy
<1>4. OnRecord(a, f, now)
  <2>1. CASE f = s
    BY <1>3, <2>1
  <2>2. ASSUME NEW t \in Nat, t <= now, f = Recent(s, Window, t) PROVE OnRecord(a, f, now)
    BY <1>3, <2>2, OnRecordTrimmed
  <2> QED BY <1>1, <1>2, <2>1, <2>2 DEF StampsKept
<1>5. OnRecord(a, f, later) /\ Within(a, later)
  <2>1. \A t \in Nat : t >= later => t >= now
    BY <1>1
  <2> QED BY <1>3, <1>4, <2>1 DEF OnRecord, Within
<1>6. LateOnes(a, later, req')
  <2>1. \A t \in Nat : t <= now => Early(req', t) \subseteq Early(req, t)
    BY <1>1 DEF EarlyMoves
  <2>2. later \in {now, now + 1}
    BY <1>1
  <2> QED BY <1>3, <2>1, <2>2, LateKeeps
<1> QED BY <1>1, <1>2, <1>5, <1>6

LEMMA NothingWritten ==
  ASSUME table' = table, heap' = heap
  PROVE  \A ip \in Ips : StampsKept(ip)
BY DEF StampsKept, Stamps

(* The write of a trimmed entry.                                           *)
LEMMA TrimWritten ==
  ASSUME TypeOK, NEW id \in EntryIds, NEW e, heap' = [heap EXCEPT ![id] = e],
         NEW t \in Nat, t <= clock, e.requests = Recent(heap[id].requests, Window, t),
         \A ip \in Ips : \/ table'[ip] = table[ip]
                         \/ table[ip] = id /\ table'[ip] = None /\ e.requests = <<>>
  PROVE  \A ip \in Ips : StampsKept(ip)
<1>1. heap'[id] = e /\ \A i \in EntryIds \ {id} : heap'[i] = heap[i]
  BY DEF TypeOK
<1>2. ASSUME NEW ip \in Ips PROVE StampsKept(ip)
  <2>1. table[ip] \in EntryIds \cup {None} /\ None \notin EntryIds
    BY RateLimiterConstants DEF TypeOK
  <2>2. CASE table[ip] = id
    <3>1. Stamps(ip) = heap[id].requests
      BY <2>1, <2>2 DEF Stamps
    <3>2. Stamps(ip)' = e.requests
      BY <1>1, <2>1, <2>2 DEF Stamps
    <3> QED BY <3>1, <3>2 DEF StampsKept
  <2>3. CASE table[ip] # id
    <3>1. Stamps(ip)' = Stamps(ip)
      BY <1>1, <2>1, <2>3 DEF Stamps
    <3> QED BY <3>1 DEF StampsKept
  <2> QED BY <2>2, <2>3
<1> QED BY <1>2

LEMMA EntryBegun ==
  ASSUME TypeOK, NEW id \in EntryIds \ Reachable, heap' = [heap EXCEPT ![id] = NewEntry],
         NEW ip \in Ips, table[ip] = None, table' = [table EXCEPT ![ip] = id]
  PROVE  \A i \in Ips : StampsKept(i)
<1>1. /\ heap'[id] = NewEntry /\ \A i \in EntryIds \ {id} : heap'[i] = heap[i]
      /\ table'[ip] = id /\ \A i \in Ips \ {ip} : table'[i] = table[i]
      /\ NewEntry.requests = <<>> /\ None \notin EntryIds
  BY RateLimiterConstants DEF TypeOK, NewEntry
<1>2. Stamps(ip)' = Stamps(ip)
  BY <1>1 DEF Stamps
<1>3. ASSUME NEW i \in Ips \ {ip} PROVE Stamps(i)' = Stamps(i)
  <2>1. table[i] # id /\ table[i] \in EntryIds \cup {None}
    BY DEF Reachable, TypeOK
  <2> QED BY <1>1, <2>1 DEF Stamps
<1> QED BY <1>2, <1>3 DEF StampsKept

(* At the lock, a request is recorded; it is let through if the entry      *)
(* holds no more than the limit, and counted if the entry is in the map.   *)
LEMMA LimitRecords ==
  ASSUME LimiterInv, NEW r \in Handlers, Limit(r)
  PROVE  \E c \in Seq(Nat), e \in Entry :
           /\ c = Append(heap[req[r].entry].requests, req[r].now)
           /\ e.requests = Recent(c, Window, req[r].now)
           /\ heap' = [heap EXCEPT ![req[r].entry] = e]
           /\ table' = table /\ clock' = clock
           /\ \/ admitted' = admitted
              \/ /\ admitted' = [admitted EXCEPT ![req[r].ip] = Append(@, req[r].now)]
                 /\ table[req[r].ip] = req[r].entry
                 /\ ~Exceeds(e.requests, RPM)
<1> DEFINE old == heap[req[r].entry]
           a == [old EXCEPT !.requests = Append(@, req[r].now)]
           e == Trim(a, req[r].now)
           b == [e EXCEPT !.blockedUntil = req[r].now + Block]
<1>1. old \in Entry /\ req[r].now \in Nat
  BY DEF LimiterInv, TypeOK, Placed, Limit, Handler
<1>2. a \in Entry /\ a.requests = Append(old.requests, req[r].now)
  BY <1>1, AppendKeeps DEF Entry
<1>3. e \in Entry /\ e.requests = Recent(a.requests, Window, req[r].now)
  BY <1>2, TrimKeeps, TrimRequests
<1>4. req[r].now + Block \in Nat
  BY <1>1, LimitTypes
<1>5. a.requests \in Seq(Nat)
  BY <1>2 DEF Entry
<1>6. /\ table' = table /\ clock' = clock
      /\ \/ heap' = [heap EXCEPT ![req[r].entry] = b] /\ admitted' = admitted
         \/ /\ heap' = [heap EXCEPT ![req[r].entry] = e]
            /\ Admit(req[r]) /\ ~Exceeds(e.requests, RPM)
  BY DEF Limit, Write
<1> HIDE DEF e
<1>7. b \in Entry /\ b.requests = e.requests
  BY <1>3, <1>4, BlockingKeeps DEF Entry
<1> HIDE DEF a, b
<1> QED BY <1>2, <1>3, <1>5, <1>6, <1>7 DEF Admit

LEMMA LimitCounts ==
  ASSUME RPM > 0, LimiterInv, LimiterInv', AllCounted, NEW r \in Handlers, Limit(r)
  PROVE  AllCounted'
<1>0. /\ TypeOK /\ TypeOK' /\ None \notin EntryIds
      /\ req[r].ip \in Ips /\ req[r].entry \in EntryIds /\ WaitsFor(req[r])
      /\ req[r].now \in Nat /\ req[r].now <= clock /\ clock \in Nat
  BY RateLimiterConstants DEF LimiterInv, Limit, Placed, WaitsFor, TypeOK, Handler
<1>1. PICK c \in Seq(Nat), e \in Entry :
        /\ c = Append(heap[req[r].entry].requests, req[r].now)
        /\ e.requests = Recent(c, Window, req[r].now)
        /\ heap' = [heap EXCEPT ![req[r].entry] = e]
        /\ table' = table /\ clock' = clock
        /\ \/ admitted' = admitted
           \/ /\ admitted' = [admitted EXCEPT ![req[r].ip] = Append(@, req[r].now)]
              /\ table[req[r].ip] = req[r].entry
              /\ ~Exceeds(e.requests, RPM)
  BY LimitRecords
<1>2. PICK t \in Nat, x \in Nat, id \in EntryIds, ip0 \in Ips :
        t = clock /\ x = req[r].now /\ x <= t /\ id = req[r].entry /\ ip0 = req[r].ip
  BY <1>0
<1>3. PICK s \in Seq(Nat), f \in Seq(Nat) : s = heap[id].requests /\ f = e.requests
  BY <1>0, StampsTypes DEF Entry
<1>4. c = Append(s, x) /\ f = Recent(c, Window, x)
  BY <1>1, <1>2, <1>3
<1>5. heap'[id].requests = f /\ \A i \in EntryIds \ {id} : heap'[i] = heap[i]
  BY <1>0, <1>1, <1>2, <1>3 DEF TypeOK
<1>6. \A u \in Nat : Early(req', u) \subseteq Early(req, u) \ {r}
  <2>1. PICK q : req' = [req EXCEPT ![r] = q] /\ ~WaitsFor(q)
    <3>1. req[r] \in Handler
      BY <1>0 DEF TypeOK
    <3>2. ~WaitsFor(NoHandler) /\ ~WaitsFor([req[r] EXCEPT !.step = "serve", !.entry = None])
      BY <3>1 DEF WaitsFor, NoHandler, Handler
    <3> QED BY <3>2 DEF Limit, Become
  <2> QED BY <1>0, <2>1, SlotLeaves
<1>7. ASSUME NEW ip \in Ips
      PROVE  \/ table[ip] = id /\ Stamps(ip) = s /\ Stamps(ip)' = f
             \/ table[ip] # id /\ Stamps(ip)' = Stamps(ip)
  <2>1. table[ip] \in EntryIds \cup {None}
    BY <1>0 DEF TypeOK
  <2>2. CASE table[ip] = id
    <3>1. table'[ip] = id /\ id # None
      BY <1>0, <1>1, <2>2
    <3> QED BY <1>3, <1>5, <2>2, <3>1 DEF Stamps
  <2>3. CASE table[ip] # id
    <3>1. table'[ip] = table[ip]
      BY <1>1
    <3> QED BY <1>5, <2>1, <2>3, <3>1 DEF Stamps
  <2> QED BY <2>2, <2>3
<1>8. ASSUME NEW ip \in Ips
      PROVE  /\ OnRecord(admitted'[ip], Stamps(ip)', t) /\ Within(admitted'[ip], t)
             /\ LateOnes(admitted'[ip], t, req')
  <2>1. PICK a \in Seq(Nat) : a = admitted[ip]
    BY <1>0, StampsTypes
  <2>2. OnRecord(a, Stamps(ip), t) /\ Within(a, t) /\ LateOnes(a, t, req)
    BY <1>2, <2>1, CountedBy
  <2>3. LateOnes(a, t, req')
    <3>1. \A u \in Nat : u <= t => Early(req', u) \subseteq Early(req, u)
      BY <1>6
    <3>2. t \in {t, t + 1}
      OBVIOUS
    <3> QED BY <2>2, <3>1, <3>2, LateKeeps
  <2>4. CASE admitted'[ip] = a /\ table[ip] # id /\ Stamps(ip)' = Stamps(ip)
    BY <2>2, <2>3, <2>4
  <2>5. CASE Stamps(ip) = s /\ Stamps(ip)' = f
    <3>1. PICK b \in Seq(Nat) : b = Append(a, x)
      BY AppendElements
    <3>2. OnRecord(a, s, t)
      BY <2>2, <2>5
    <3>3. OnRecord(a, c, t) /\ OnRecord(b, c, t)
      BY <1>4, <3>1, <3>2, OnRecordAppend
    <3>4. OnRecord(a, f, t) /\ OnRecord(b, f, t)
      BY <1>2, <1>4, <3>3, OnRecordTrimmed
    <3>5. CASE admitted'[ip] = a
      BY <2>2, <2>3, <2>5, <3>4, <3>5
    <3>6. CASE admitted'[ip] = b /\ ~Exceeds(f, RPM)
      <4>1. Len(f) <= RPM
        <5>1. PICK n \in Nat : n = Len(f)
          OBVIOUS
        <5> QED BY <3>6, <5>1, LimitTypes DEF Exceeds
      <4>2. Within(b, t)
        BY <3>4, <4>1, WithinRecord
      <4>3. LateOnes(b, t, req')
        BY <1>0, <1>2, <1>6, <2>2, <3>1, LateJoins
      <4> QED BY <2>5, <3>4, <3>6, <4>2, <4>3
    <3>7. admitted'[ip] = a \/ (admitted'[ip] = b /\ ~Exceeds(f, RPM))
      BY <1>0, <1>1, <1>2, <1>3, <2>1, <3>1 DEF TypeOK
    <3> QED BY <3>5, <3>6, <3>7
  <2>6. table[ip] # id => admitted'[ip] = a
    <3>1. CASE ip = ip0
      BY <1>1, <1>2, <2>1, <3>1
    <3>2. CASE ip # ip0
      BY <1>0, <1>1, <1>2, <2>1, <3>2 DEF TypeOK
    <3> QED BY <3>1, <3>2
  <2> QED BY <1>7, <2>4, <2>5, <2>6
<1>9. clock' = t
  BY <1>1, <1>2
<1> QED BY <1>8, <1>9, CountedBy

LEMMA CountedNext ==
  ASSUME RPM > 0, LimiterInv, AllCounted, [Next]_vars
  PROVE  AllCounted'
<1>0. TypeOK /\ LimiterInv' /\ clock \in Nat /\ EarlyMoves
  BY LimiterNext, EarlyNext DEF LimiterInv, TypeOK
<1>1. ASSUME \A ip \in Ips : StampsKept(ip),
             admitted' = admitted, clock' = clock \/ clock' = clock + 1
      PROVE  AllCounted'
  BY <1>0, <1>1, CountedKeeps
<1>2. ASSUME NEW r \in Handlers, GetEntry(r) PROVE AllCounted'
  <2>1. UNCHANGED <<admitted, clock>>
    BY <1>2 DEF GetEntry
  <2>2. CASE UNCHANGED <<table, heap>>
    BY <1>1, <2>1, <2>2, NothingWritten
  <2>3. CASE ~UNCHANGED <<table, heap>>
    <3>1. req[r].ip \in Ips
      BY <1>2 DEF GetEntry, LimiterInv, Placed
    <3>2. PICK id \in EntryIds \ Reachable :
            /\ heap' = [heap EXCEPT ![id] = NewEntry]
            /\ table[req[r].ip] = None /\ table' = [table EXCEPT ![req[r].ip] = id]
      BY <1>2, <2>3 DEF GetEntry
    <3> QED BY <1>0, <1>1, <2>1, <3>1, <3>2, EntryBegun
  <2> QED BY <2>2, <2>3
<1>3. ASSUME NEW r \in Handlers, RecordError(r) \/ RecordScan(r) PROVE AllCounted'
  <2>1. PICK id \in EntryIds, t \in Nat : id = req[r].entry /\ t = req[r].now /\ t <= clock
    BY <1>0, <1>3 DEF RecordError, RecordScan, LimiterInv, Placed, TypeOK, Handler
  <2>2. PICK old \in Entry : old = heap[id]
    BY <1>0 DEF TypeOK
  <2>3. PICK a, e, until : /\ a = [old EXCEPT !.errors = Append(@, t)]
                              \/ a = [old EXCEPT !.scan404 = Append(@, t)]
                           /\ e = Trim(a, t)
                           /\ until \in {t + Block, t + ScanBlock}
                           /\ \/ heap' = [heap EXCEPT ![id] = e]
                              \/ heap' = [heap EXCEPT ![id] = [e EXCEPT !.blockedUntil = until]]
    <3>1. CASE RecordError(r)
      BY <2>1, <2>2, <3>1 DEF RecordError, Overwrite, Write
    <3>2. CASE RecordScan(r)
      BY <2>1, <2>2, <3>2 DEF RecordScan, Overwrite, Write
    <3> QED BY <1>3, <3>1, <3>2
  <2>4. a \in Entry /\ a.requests = old.requests
    BY ZenonT(40), <2>2, <2>3, AppendKeeps DEF Entry
  <2>5. e \in Entry /\ e.requests = Recent(old.requests, Window, t)
    BY <2>3, <2>4, TrimKeeps, TrimRequests
  <2>6. [e EXCEPT !.blockedUntil = until].requests = e.requests
    BY <2>5 DEF Entry
  <2>7. PICK f : heap' = [heap EXCEPT ![id] = f] /\ f.requests = Recent(heap[id].requests, Window, t)
    BY <2>2, <2>3, <2>5, <2>6
  <2>8. UNCHANGED <<table, clock, admitted>>
    BY <1>3 DEF RecordError, RecordScan
  <2> QED BY <1>0, <1>1, <2>1, <2>7, <2>8, TrimWritten
<1>4. ASSUME NEW ip \in Ips, Sweep(ip) PROVE AllCounted'
  <2>1. UNCHANGED <<admitted, clock>>
    BY <1>4 DEF Sweep
  <2>2. CASE UNCHANGED <<table, heap>>
    BY <1>1, <2>1, <2>2, NothingWritten
  <2>3. CASE ~UNCHANGED <<table, heap>>
    <3>1. PICK id \in EntryIds : id = table[ip] /\ heap[id] \in Entry
      BY <1>0, <1>4, <2>3 DEF Sweep, TypeOK
    <3>2. PICK t \in Nat : t = cleaner.now /\ t <= clock
      BY <1>0 DEF LimiterInv, TypeOK, TicksPast, Cleaner
    <3>3. PICK e : e = Trim(heap[id], t) /\ t = cleaner.now /\ t <= clock
      BY <3>2
    <3>4. /\ heap' = [heap EXCEPT ![id] = e]
          /\ table' = table \/ (table' = [table EXCEPT ![ip] = None] /\ e.requests = <<>>)
      <4>1. /\ heap' = [heap EXCEPT ![id] = e]
            /\ table' = [table EXCEPT ![ip] =
                 IF /\ e.blockedUntil < cleaner.now
                    /\ e.requests = <<>> /\ e.errors = <<>> /\ e.scan404 = <<>>
                 THEN None ELSE @]
        BY <1>4, <2>3, <3>1, <3>3 DEF Sweep
      <4> QED BY <1>0, <4>1 DEF TypeOK
    <3>5. e.requests = Recent(heap[id].requests, Window, t)
      BY <3>1, <3>3, TrimRequests
    <3>6. \A i \in Ips : \/ table'[i] = table[i]
                         \/ table[i] = id /\ table'[i] = None /\ e.requests = <<>>
      BY <1>0, <3>1, <3>4 DEF TypeOK
    <3>7. \A i \in Ips : StampsKept(i)
      BY ZenonT(40), <1>0, <3>3, <3>4, <3>5, <3>6, TrimWritten
    <3> QED BY <1>1, <2>1, <3>7
  <2> QED BY <2>2, <2>3
<1>5. ASSUME UNCHANGED <<table, heap, admitted>>, clock' = clock \/ clock' = clock + 1
      PROVE  AllCounted'
  BY <1>1, <1>5, NothingWritten
<1>6. ASSUME NEW r \in Handlers, Limit(r) PROVE AllCounted'
  BY <1>0, <1>6, LimitCounts
<1> QED
  BY <1>2, <1>3, <1>4, <1>5, <1>6
     DEF Next, Handle, Arrive, Stamp, Refuse, Serve, StartSweep, Tick, vars

-----------------------------------------------------------------------------
(* The types, and that the cleanup works with a time that has been. *)
THEOREM LimiterCorrect == Spec => []LimiterInv
BY LimiterInit, LimiterNext, PTL DEF Spec

(* The types of the variables; entries only hold what the limits let in. *)
THEOREM TypeCorrect == Spec => []TypeOK
<1>1. LimiterInv => TypeOK
  BY DEF LimiterInv
<1> QED BY <1>1, LimiterCorrect, PTL

(* With all limits, blocks of any lengths, and any delay between the       *)
(* timestamp of a request and its lock: a request that arrives at a        *)
(* blocked entry is not served before the block ends, or the shortest that *)
(* an error or a scan has assigned in its place since then.                *)
THEOREM BlockedRefused == Spec => []BlockedNotServed
<1>1. Init => BlocksHold
  BY DEF Init, BlocksHold, NoHandler
<1>2. LimiterInv /\ BlocksHold /\ [Next]_vars => BlocksHold'
  BY BlocksNext
<1>3. LimiterInv /\ BlocksHold => BlockedNotServed
  <2> SUFFICES ASSUME LimiterInv, BlocksHold, NEW r \in Handlers, req[r].step = "serve"
               PROVE  awaited[r] <= clock
    BY DEF BlockedNotServed
  <2>1. awaited[r] \in Nat /\ clock \in Nat
    BY DEF LimiterInv, TypeOK
  <2> QED BY <2>1 DEF BlocksHold
<1> QED BY <1>1, <1>2, <1>3, LimiterCorrect, PTL DEF Spec

(* With any limits, no step removes a blocked address from the map.        *)
THEOREM CleanupKeepsBlocks == Spec => BlockSurvivesCleanup
<1> DEFINE Keeps == \A ip \in Ips : BlockOf(ip) > clock => table'[ip] = table[ip]
<1>1. LimiterInv /\ [Next]_vars => [Keeps]_vars
  <2> SUFFICES ASSUME LimiterInv, Next PROVE Keeps
    OBVIOUS
  <2>1. ASSUME NEW r \in Handlers, GetEntry(r) PROVE Keeps
    BY <2>1, GetEntryGrows DEF BlocksGrow
  <2>2. ASSUME NEW ip \in Ips, Sweep(ip) PROVE Keeps
    BY <2>2, SweepGrows DEF BlocksGrow
  <2>3. CASE table' = table
    BY <2>3
  <2> QED
    BY <2>1, <2>2, <2>3
       DEF Next, Handle, Arrive, Stamp, Refuse, Limit, Serve, RecordError, RecordScan,
           StartSweep, Tick
<1> QED BY LimiterCorrect, <1>1, PTL DEF Spec, BlockSurvivesCleanup

(* With the request limit alone: an entry never holds more requests than   *)
(* the limit and the number of requests under way, however long they wait  *)
(* between their timestamp and the lock.                                   *)
THEOREM EntriesBounded ==
  ASSUME RequestLimitOnly
  PROVE  Spec => []RequestsBounded
<1>1. CASE RPM > 0
  <2>1. Init => Crowded
    <3> SUFFICES ASSUME Init, NEW id \in EntryIds
                 PROVE  BeyondLimit(heap[id]) /\ Overtaken(heap[id].requests, clock, req)
      BY DEF Crowded
    <3>1. heap[id] = NewEntry
      BY DEF Init
    <3> QED BY <3>1, NewCrowded
  <2>2. LimiterInv /\ Crowded /\ [Next]_vars => Crowded'
    BY <1>1, CrowdedNext
  <2>3. LimiterInv /\ Crowded => RequestsBounded
    <3> SUFFICES ASSUME LimiterInv, Crowded, NEW id \in EntryIds
                 PROVE  Len(heap[id].requests) <= RPM + Cardinality(Handlers)
      BY DEF RequestsBounded
    <3>1. heap[id] \in Entry
      BY DEF LimiterInv, TypeOK
    <3> QED BY <1>1, <3>1, CrowdBounded DEF Crowded
  <2> QED BY <2>1, <2>2, <2>3, LimiterCorrect, PTL DEF Spec
<1>2. CASE ~(RPM > 0)
  <2>1. RequestsBounded
    BY <1>2 DEF RequestsBounded
  <2> QED BY <2>1, PTL
<1> QED BY <1>1, <1>2

(* Unless urls are watched with a scan block of 0, the cleanup forgets     *)
(* every address it visits whose timestamps and block are old.             *)
THEOREM StaleForgotten ==
  ASSUME ScanURLs => ScanBlock > 0
  PROVE  Spec => CleanupForgets
<1> DEFINE Forgets == \A ip \in cleaner.todo \ cleaner'.todo :
                        table[ip] # None /\ Stale(heap[table[ip]]) => table'[ip] = None
<1>1. Init => ScanInv
  BY DEF Init, ScanInv, NoScans, NoHandler, NewEntry
<1>2. LimiterInv /\ ScanInv /\ [Next]_vars => ScanInv'
  BY NoScansNext DEF ScanInv
<1>3. LimiterInv /\ ScanInv /\ [Next]_vars => [Forgets]_vars
  <2> SUFFICES ASSUME LimiterInv, ScanInv, Next,
                      NEW ip \in cleaner.todo \ cleaner'.todo,
                      table[ip] # None, Stale(heap[table[ip]])
               PROVE  table'[ip] = None
    OBVIOUS
  <2>1. cleaner.todo \subseteq Ips /\ cleaner \in Cleaner
    BY DEF LimiterInv, TypeOK, Cleaner
  <2>2. CASE \E i \in Ips : Sweep(i)
    <3>1. PICK i \in Ips : Sweep(i)
      BY <2>2
    <3>2. cleaner'.todo = cleaner.todo \ {i}
      BY <2>1, <3>1 DEF Sweep, Cleaner
    <3>3. i = ip
      BY <3>2
    <3> QED BY <3>1, <3>3, SweepForgets DEF ScanInv
  <2>3. CASE cleaner'.todo = cleaner.todo
    BY <2>3
  <2>4. CASE cleaner.todo = {}
    BY <2>4
  <2>5. Tick => cleaner'.todo = cleaner.todo
    BY <2>1 DEF Tick, Cleaner
  <2> QED
    BY <2>2, <2>3, <2>4, <2>5
       DEF Next, Handle, Arrive, GetEntry, Stamp, Refuse, Limit, Serve, RecordError,
           RecordScan, StartSweep
<1> QED BY <1>1, <1>2, <1>3, LimiterCorrect, PTL DEF Spec, CleanupForgets

(* Of the requests stamped in the window that ends now, the entry in the   *)
(* map has let through at most the limit, and in any earlier window at     *)
(* most as many more as there are requests under way: with any delays      *)
(* between timestamp and lock, timestamps recorded in any order, and the   *)
(* other limits and the cleanup beside it.                                 *)
THEOREM LimitHolds == Spec => []AtMostRPM
<1>1. CASE RPM > 0
  <2>1. Init => AllCounted
    <3> SUFFICES ASSUME Init, NEW ip \in Ips
                 PROVE  /\ OnRecord(admitted[ip], Stamps(ip), clock)
                        /\ Within(admitted[ip], clock) /\ LateOnes(admitted[ip], clock, req)
      BY CountedBy
    <3>1. admitted[ip] = <<>> /\ Stamps(ip) = <<>> /\ <<>> \in Seq(Nat)
      BY DEF Init, Stamps
    <3>2. \A t \in Nat : /\ Cardinality(Fresh(<<>>, t)) = 0
                         /\ Cardinality(InWindow(<<>>, t)) = 0
      BY NoneFresh
    <3>3. OnRecord(<<>>, <<>>, clock) /\ Within(<<>>, clock)
      BY <3>2, LimitTypes DEF OnRecord, Within
    <3>4. LateOnes(<<>>, clock, req)
      <4> SUFFICES ASSUME NEW t \in Nat
                   PROVE  0 + Cardinality(Early(req, t + 1)) <= RPM + Cardinality(Handlers)
        BY <3>2 DEF LateOnes
      <4>1. PICK e \in Nat, h \in Nat : /\ e = Cardinality(Early(req, t + 1))
                                        /\ h = Cardinality(Handlers) /\ e <= h
        BY EarlyBounded
      <4> QED BY <4>1, LimitTypes
    <3> QED BY <3>1, <3>3, <3>4
  <2>2. LimiterInv /\ AllCounted /\ [Next]_vars => AllCounted'
    BY <1>1, CountedNext
  <2>3. LimiterInv /\ AllCounted => AtMostRPM
    <3> SUFFICES ASSUME LimiterInv, AllCounted, NEW ip \in Ips, NEW t \in 1 .. clock
                 PROVE  Cardinality(InWindow(admitted[ip], t))
                          <= RPM + IF t = clock THEN 0 ELSE Cardinality(Handlers)
      BY DEF AtMostRPM
    <3>1. admitted[ip] \in Seq(Nat) /\ clock \in Nat /\ t \in Nat /\ RPM \in Nat
      BY LimitTypes DEF LimiterInv, TypeOK
    <3>2. /\ Cardinality(InWindow(admitted[ip], t)) \in Nat
          /\ Cardinality(Fresh(admitted[ip], t)) \in Nat
          /\ Cardinality(InWindow(admitted[ip], t)) <= Cardinality(Fresh(admitted[ip], t))
      BY <3>1, FreshFinite
    <3>3. CASE t = clock
      <4>1. Cardinality(Fresh(admitted[ip], t)) <= RPM
        BY <3>1, <3>3, CountedBy DEF Within
      <4> QED BY <3>1, <3>2, <3>3, <4>1
    <3>4. CASE t < clock
      <4>1. Cardinality(InWindow(admitted[ip], t)) + Cardinality(Early(req, t + 1))
              <= RPM + Cardinality(Handlers)
        BY <3>1, <3>4, CountedBy DEF LateOnes
      <4>2. Cardinality(Early(req, t + 1)) \in Nat /\ Cardinality(Handlers) \in Nat
        BY EarlyBounded
      <4> QED BY <3>1, <3>2, <3>4, <4>1, <4>2
    <3> QED BY <3>1, <3>3, <3>4
  <2> QED BY <2>1, <2>2, <2>3, LimiterCorrect, PTL DEF Spec
<1>2. CASE ~(RPM > 0)
  <2>1. AtMostRPM
    BY <1>2 DEF AtMostRPM
  <2> QED BY <2>1, PTL
<1> QED BY <1>1, <1>2
=============================================================================
