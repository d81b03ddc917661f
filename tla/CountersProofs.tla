--------------------------- MODULE CountersProofs ---------------------------
(* Theorems of Counters, for every set of accounts, slots and amounts, and *)
(* every size of int.                                                      *)
EXTENDS Counters, TLAPS, FiniteSetTheorems, SequenceTheorems

-----------------------------------------------------------------------------
(* Which row is the newest. *)

LEMMA RowsOfInts ==
  ASSUME NEW rows \in Seq(Row)
  PROVE  \A i \in DOMAIN rows :
           rows[i].at \in Int /\ rows[i].after \in Int /\ rows[i].amount \in Int
<1>1. \A i \in DOMAIN rows : rows[i] \in Row
  OBVIOUS
<1> QED BY <1>1 DEF Row

(* In rows with increasing created_at, the newest row is the last one. *)
LEMMA NewestOfChronological ==
  ASSUME NEW rows \in Seq(Row), rows # <<>>,
         \A i, j \in DOMAIN rows : i < j => rows[i].at < rows[j].at
  PROVE  Newest(rows) = Len(rows)
<1> DEFINE n == Len(rows)
           first(i) == \A j \in DOMAIN rows \ {i} : Newer(rows, i, j)
<1>1. n \in DOMAIN rows /\ DOMAIN rows = 1 .. n /\ n \in Nat
  <2>1. DOMAIN rows = 1 .. n /\ n \in Nat
    OBVIOUS
  <2>2. n # 0
    BY EmptySeq
  <2> QED BY <2>1, <2>2
<1>2. \A i \in DOMAIN rows : rows[i].at \in Int
  BY RowsOfInts
<1>3. first(n)
  BY <1>1, <1>2 DEF Newer
<1>4. ASSUME NEW i \in DOMAIN rows, first(i) PROVE i = n
  <2> SUFFICES ASSUME i # n PROVE FALSE
    OBVIOUS
  <2>1. Newer(rows, i, n) /\ i < n
    BY <1>1, <1>4
  <2> QED BY <1>1, <1>2, <2>1 DEF Newer
<1> HIDE DEF first
<1>5. Newest(rows) = CHOOSE i \in DOMAIN rows : first(i)
  BY DEF Newest, first
<1> QED BY <1>1, <1>3, <1>4, <1>5

(* The newest row is a row, whatever the clock did. *)
LEMMA BalanceOfChronological ==
  ASSUME NEW rows \in Seq(Row),
         \A i, j \in DOMAIN rows : i < j => rows[i].at < rows[j].at
  PROVE  BalanceOf(rows) = IF rows = <<>> THEN 0 ELSE rows[Len(rows)].after
BY NewestOfChronological DEF BalanceOf

(* Committing a row stamped later than all others makes its balance the    *)
(* balance of the account.                                                 *)
LEMMA BalanceAfterAppend ==
  ASSUME NEW rows \in Seq(Row), NEW row \in Row,
         \A i, j \in DOMAIN rows : i < j => rows[i].at < rows[j].at,
         \A i \in DOMAIN rows : rows[i].at < row.at
  PROVE  /\ \A i, j \in DOMAIN Append(rows, row) :
              i < j => Append(rows, row)[i].at < Append(rows, row)[j].at
         /\ BalanceOf(Append(rows, row)) = row.after
<1> DEFINE more == Append(rows, row)
<1>1. /\ more \in Seq(Row) /\ more # <<>> /\ Len(more) = Len(rows) + 1
      /\ DOMAIN more = 1 .. Len(rows) + 1 /\ DOMAIN rows = 1 .. Len(rows)
      /\ Len(rows) \in Nat
      /\ \A i \in DOMAIN rows : more[i] = rows[i]
      /\ more[Len(rows) + 1] = row
  BY AppendProperties
<1>2. \A i, j \in DOMAIN more : i < j => more[i].at < more[j].at
  <2> SUFFICES ASSUME NEW i \in DOMAIN more, NEW j \in DOMAIN more, i < j
               PROVE  more[i].at < more[j].at
    OBVIOUS
  <2>1. i \in DOMAIN rows
    BY <1>1
  <2>2. CASE j \in DOMAIN rows
    BY <1>1, <2>1, <2>2
  <2>3. CASE j = Len(rows) + 1
    BY <1>1, <2>1, <2>3
  <2> QED BY <1>1, <2>2, <2>3
<1> HIDE DEF more
<1>3. BalanceOf(more) = more[Len(more)].after
  BY <1>1, <1>2, BalanceOfChronological
<1> QED BY <1>1, <1>2, <1>3 DEF more

-----------------------------------------------------------------------------
(* The invariant, one part for the table, one for each slot. *)

TxInv(c) ==
  LET row == tx[c].row IN
  /\ ~Idle(tx[c]) => tx[c].account \in Accounts /\ row.amount \in Amounts
  /\ Current(c) =>
       /\ row.after = BalanceOf(ledger[tx[c].account]) + row.amount
       /\ row.after \in 0 .. MaxInt
       /\ tx[c].step # "stamp" =>
            /\ row.at <= clock
            /\ \A a \in Accounts : \A i \in DOMAIN ledger[a] : ledger[a][i].at < row.at

ReaderInv(r) ==
  LET h == reader[r] IN
  /\ ~Idle(h) => h.account \in Accounts
  /\ h.step \in {"page", "last"} => h.total <= Len(ledger[h.account])
  /\ h.step = "last" => h.total > 0
  /\ h.step \in {"count", "page", "last"} => h.last = 0
  /\ h.step = "last" /\ h.total > h.offset =>
       \E i \in h.page : h.total - h.offset <= i /\ i + h.offset <= Len(ledger[h.account])
  /\ h.step = "done" /\ h.total > h.offset =>
       \E i \in h.page : /\ h.total - h.offset <= i
                         /\ h.last # 0 => i + h.offset <= h.last

LEMMA InvBySlot ==
  LedgerInv <=> /\ TypeOK
                /\ Chronological
                /\ LedgerExact
                /\ OneWriter
                /\ \A c \in Clients : TxInv(c)
                /\ \A r \in Readers : ReaderInv(r)
BY DEF LedgerInv, SnapshotsHold, BusyAsAsked, ReadersBehind, HistoryForward,
   TxInv, ReaderInv

LEMMA InvBySlotNext ==
  LedgerInv' <=> /\ TypeOK'
                 /\ Chronological'
                 /\ LedgerExact'
                 /\ OneWriter'
                 /\ \A c \in Clients : TxInv(c)'
                 /\ \A r \in Readers : ReaderInv(r)'
BY DEF LedgerInv, SnapshotsHold, BusyAsAsked, ReadersBehind, HistoryForward,
   TxInv, ReaderInv

(* What the invariant says of a balance. *)
LEMMA BalanceFromLast ==
  ASSUME TypeOK, Chronological, LedgerExact, NEW a \in Accounts
  PROVE  /\ ledger[a] \in Seq(Row)
         /\ BalanceOf(ledger[a]) = IF ledger[a] = <<>> THEN 0 ELSE ledger[a][Len(ledger[a])].after
         /\ BalanceOf(ledger[a]) \in 0 .. MaxInt
         /\ ledger[a] # <<>> => Newest(ledger[a]) = Len(ledger[a])
<1>1. /\ ledger[a] \in Seq(Row)
      /\ \A i, j \in DOMAIN ledger[a] : i < j => ledger[a][i].at < ledger[a][j].at
  BY DEF TypeOK, Chronological
<1>2. BalanceOf(ledger[a]) = IF ledger[a] = <<>> THEN 0 ELSE ledger[a][Len(ledger[a])].after
  BY <1>1, BalanceOfChronological
<1>3. ledger[a] # <<>> => Len(ledger[a]) \in DOMAIN ledger[a]
  BY <1>1, EmptySeq
<1> QED
  BY <1>1, <1>2, <1>3, NewestOfChronological, CountersConstants DEF LedgerExact

LEMMA InvInit == Init => LedgerInv
<1> SUFFICES ASSUME Init PROVE LedgerInv
  OBVIOUS
<1>1. TypeOK
  BY EmptySeq DEF Init, TypeOK, Adjustment, History, NoAdjustment, NoHistory, NoRow, Row
<1>2. Chronological /\ LedgerExact
  BY DEF Init, Chronological, LedgerExact
<1> QED
  BY <1>1, <1>2, InvBySlot
     DEF Init, OneWriter, TxInv, ReaderInv, Current, WithSnapshot, Writing, Idle,
         NoAdjustment, NoHistory

-----------------------------------------------------------------------------
(* A step that moves one adjustment, and does not commit, keeps the        *)
(* invariant if the adjustment keeps its own part of it.                   *)
LEMMA TxMoves ==
  ASSUME LedgerInv, NEW c \in Clients, NEW q \in Adjustment,
         tx' = [tx EXCEPT ![c] = q],
         ledger' = ledger, reader' = reader,
         clock' \in Int, clock <= clock',
         TxInv(c)',
         q.step # "commit" \/ \A d \in Clients : ~Writing(d)
  PROVE  LedgerInv'
<1>1. TypeOK'
  BY DEF LedgerInv, TypeOK
<1>2. Chronological' /\ LedgerExact'
  <2>1. \A a \in Accounts : \A i \in DOMAIN ledger[a] : ledger[a][i].at \in Int
    BY RowsOfInts DEF LedgerInv, TypeOK
  <2> QED BY <2>1 DEF LedgerInv, TypeOK, Chronological, LedgerExact
<1>3. OneWriter'
  BY DEF LedgerInv, TypeOK, OneWriter, Writing
<1>4. \A d \in Clients : TxInv(d)'
  <2> SUFFICES ASSUME NEW d \in Clients, d # c PROVE TxInv(d)'
    OBVIOUS
  <2>1. TxInv(d) /\ tx'[d] = tx[d] /\ tx[d].row.at \in Int
    BY InvBySlot DEF TypeOK, Adjustment, Row, LedgerInv
  <2> QED BY <2>1 DEF LedgerInv, TypeOK, TxInv, Current, WithSnapshot, Writing
<1>5. \A r \in Readers : ReaderInv(r)'
  BY InvBySlot DEF ReaderInv
<1> QED BY <1>1, <1>2, <1>3, <1>4, <1>5, InvBySlotNext

(* The same for a step that moves one history request. *)
LEMMA ReaderMoves ==
  ASSUME LedgerInv, NEW r \in Readers, NEW h \in History,
         reader' = [reader EXCEPT ![r] = h],
         UNCHANGED <<ledger, tx, clock>>,
         ReaderInv(r)'
  PROVE  LedgerInv'
<1>1. TypeOK' /\ Chronological' /\ LedgerExact' /\ OneWriter'
  BY DEF LedgerInv, TypeOK, Chronological, LedgerExact, OneWriter, Writing
<1>2. \A c \in Clients : TxInv(c)'
  BY InvBySlot DEF TxInv, Current, WithSnapshot, Writing
<1>3. \A s \in Readers : ReaderInv(s)'
  <2> SUFFICES ASSUME NEW s \in Readers, s # r PROVE ReaderInv(s)'
    OBVIOUS
  <2>1. ReaderInv(s) /\ reader'[s] = reader[s]
    BY InvBySlot DEF TypeOK, LedgerInv
  <2> QED BY <2>1 DEF ReaderInv
<1> QED BY <1>1, <1>2, <1>3, InvBySlotNext

(* The row that skipping offset rows of a chronological table arrives at.  *)
LEMMA PageReaches ==
  ASSUME NEW rows \in Seq(Row), NEW offset \in Nat, offset < Len(rows),
         \A i, j \in DOMAIN rows : i < j => rows[i].at < rows[j].at
  PROVE  Len(rows) - offset \in Page(rows, offset)
<1> DEFINE i == Len(rows) - offset
           newer == {j \in DOMAIN rows \ {i} : Newer(rows, j, i)}
<1>1. i \in DOMAIN rows /\ DOMAIN rows = 1 .. Len(rows) /\ Len(rows) \in Nat
  OBVIOUS
<1>2. \A j \in DOMAIN rows : rows[j].at \in Int
  BY RowsOfInts
<1>3. newer = i + 1 .. Len(rows)
  <2>1. \A j \in DOMAIN rows \ {i} : Newer(rows, j, i) <=> i < j
    <3> SUFFICES ASSUME NEW j \in DOMAIN rows, j # i
                 PROVE  Newer(rows, j, i) <=> i < j
      OBVIOUS
    <3>1. /\ i < j => rows[i].at < rows[j].at
          /\ j < i => rows[j].at < rows[i].at
          /\ rows[i].at \in Int /\ rows[j].at \in Int /\ i \in Int /\ j \in Int
      BY <1>1, <1>2
    <3> QED BY <3>1 DEF Newer
  <2> QED BY <1>1, <2>1
<1>4. Cardinality(newer) = offset
  <2>1. Cardinality(i + 1 .. Len(rows)) = offset
    BY <1>1, FS_Interval
  <2> QED BY <1>3, <2>1
<1> QED BY <1>1, <1>4, CountersConstants DEF Page

-----------------------------------------------------------------------------
(* A commit appends a row that continues its account; every snapshot that  *)
(* is open becomes stale, and no history under way loses a row.            *)
LEMMA CommitKeeps ==
  ASSUME LedgerInv, NEW c \in Clients, Commit(c)
  PROVE  LedgerInv'
<1> DEFINE a == tx[c].account
           row == tx[c].row
           rows == ledger[a]
<1>1. /\ TypeOK /\ Chronological /\ LedgerExact /\ OneWriter
      /\ \A d \in Clients : TxInv(d)
      /\ \A r \in Readers : ReaderInv(r)
      /\ Writing(c)
  BY InvBySlot DEF Commit, Writing
<1>2. /\ a \in Accounts /\ row \in Row /\ rows \in Seq(Row)
      /\ row.after = BalanceOf(rows) + row.amount
      /\ row.after \in 0 .. MaxInt
      /\ row.at <= clock
      /\ \A i \in DOMAIN rows : rows[i].at < row.at
      /\ BalanceOf(rows) = IF rows = <<>> THEN 0 ELSE rows[Len(rows)].after
  BY <1>1, BalanceFromLast DEF TxInv, Current, Writing, Idle, TypeOK, Adjustment
<1>3. /\ ledger' = [ledger EXCEPT ![a] = Append(rows, row)]
      /\ ledger'[a] = Append(rows, row)
      /\ \A b \in Accounts \ {a} : ledger'[b] = ledger[b]
      /\ reader' = reader /\ clock' = clock
      /\ tx' = [Outdated EXCEPT ![c] = NoAdjustment]
  BY <1>1, <1>2 DEF Commit, TypeOK
<1>4. /\ Append(rows, row) \in Seq(Row)
      /\ DOMAIN Append(rows, row) = 1 .. Len(rows) + 1
      /\ DOMAIN rows = 1 .. Len(rows)
      /\ Len(Append(rows, row)) = Len(rows) + 1
      /\ Len(rows) \in Nat
      /\ \A i \in DOMAIN rows : Append(rows, row)[i] = rows[i]
      /\ Append(rows, row)[Len(rows) + 1] = row
  BY <1>2, AppendProperties
<1> HIDE DEF a, row, rows
<1>5. TypeOK'
  <2>1. Outdated \in [Clients -> Adjustment]
    BY <1>1 DEF TypeOK, Outdated, Adjustment
  <2>2. NoAdjustment \in Adjustment
    BY DEF NoAdjustment, Adjustment, NoRow, Row
  <2> QED BY <1>1, <1>2, <1>3, <1>4, <2>1, <2>2 DEF TypeOK
<1>6. Chronological'
  <2>1. \A i \in DOMAIN ledger'[a] : ledger'[a][i].at <= clock
    BY <1>1, <1>2, <1>3, <1>4, RowsOfInts DEF Chronological, rows
  <2>2. \A i, j \in DOMAIN ledger'[a] : i < j => ledger'[a][i].at < ledger'[a][j].at
    BY <1>1, <1>2, <1>3, BalanceAfterAppend DEF Chronological, rows
  <2> QED BY <1>1, <1>2, <1>3, <2>1, <2>2 DEF Chronological
<1>7. LedgerExact'
  <2> SUFFICES ASSUME NEW b \in Accounts, NEW i \in DOMAIN ledger'[b]
               PROVE  /\ ledger'[b][i].after
                           = (IF i = 1 THEN 0 ELSE ledger'[b][i-1].after) + ledger'[b][i].amount
                      /\ ledger'[b][i].after \in 0 .. MaxInt
    BY DEF LedgerExact
  <2>1. CASE b # a
    BY <1>1, <1>3, <2>1 DEF LedgerExact
  <2>2. CASE b = a /\ i = Len(rows) + 1
    <3>1. (IF i = 1 THEN 0 ELSE ledger'[b][i-1].after) = BalanceOf(rows)
      <4>1. CASE rows = <<>>
        BY <1>2, <2>2, <4>1, EmptySeq
      <4>2. CASE rows # <<>>
        <5>1. Len(rows) \in DOMAIN rows /\ i # 1 /\ i - 1 = Len(rows)
          BY <1>2, <1>4, <2>2, <4>2, EmptySeq
        <5> QED BY <1>2, <1>3, <1>4, <2>2, <4>2, <5>1
      <4> QED BY <4>1, <4>2
    <3>2. ledger'[b][i] = row
      BY <1>3, <1>4, <2>2
    <3> QED BY <1>2, <3>1, <3>2
  <2>3. CASE b = a /\ i \in DOMAIN rows
    BY <1>1, <1>2, <1>3, <1>4, <2>3 DEF LedgerExact, rows
  <2> QED BY <1>3, <1>4, <2>1, <2>2, <2>3
<1>8. OneWriter' /\ \A d \in Clients : TxInv(d)'
  <2> SUFFICES ASSUME NEW d \in Clients PROVE ~Writing(d)' /\ ~Current(d)' /\ TxInv(d)'
    BY DEF OneWriter
  <2>1. CASE d = c
    BY <1>1, <1>3, <2>1 DEF NoAdjustment, Writing, Current, WithSnapshot, TxInv, Idle, Outdated
  <2>2. CASE d # c
    <3>1. ~Writing(d) /\ TxInv(d)
      BY <1>1, <2>2 DEF OneWriter
    <3>2. tx'[d] = IF WithSnapshot(d) THEN [tx[d] EXCEPT !.stale = TRUE] ELSE tx[d]
      BY <1>3, <2>2 DEF Outdated
    <3> QED
      BY <1>1, <3>1, <3>2 DEF Writing, Current, WithSnapshot, TxInv, Idle, TypeOK, Adjustment
  <2> QED BY <2>1, <2>2
<1>9. \A r \in Readers : ReaderInv(r)'
  <2> SUFFICES ASSUME NEW r \in Readers PROVE ReaderInv(r)'
    OBVIOUS
  <2>1. ReaderInv(r) /\ reader'[r] = reader[r] /\ reader[r] \in History
    BY <1>1, <1>3 DEF TypeOK
  <2>2. \A b \in Accounts : /\ Len(ledger'[b]) \in Nat /\ Len(ledger[b]) \in Nat
                            /\ Len(ledger'[b]) >= Len(ledger[b])
    BY <1>1, <1>2, <1>3, <1>4 DEF TypeOK, rows
  <2> QED BY <2>1, <2>2 DEF ReaderInv, History, Idle
<1> QED BY <1>5, <1>6, <1>7, <1>8, <1>9, InvBySlotNext

-----------------------------------------------------------------------------
(* Every step keeps the invariant, when every reading of the clock is      *)
(* later than the one before.                                              *)
LEMMA InvNext ==
  ASSUME ClockMovesOn, LedgerInv, [Next]_vars
  PROVE  LedgerInv'
<1>0. /\ TypeOK /\ Chronological /\ LedgerExact /\ OneWriter
      /\ \A c \in Clients : TxInv(c) /\ tx[c] \in Adjustment
      /\ \A r \in Readers : ReaderInv(r) /\ reader[r] \in History
      /\ NoAdjustment \in Adjustment /\ NoHistory \in History
      /\ clock \in Int
  BY InvBySlot DEF TypeOK, NoAdjustment, Adjustment, NoRow, Row, NoHistory, History
<1>1. ASSUME NEW c \in Clients, NEW q \in Adjustment,
             tx' = [tx EXCEPT ![c] = q],
             UNCHANGED <<ledger, reader, clock>>,
             \/ q.step = "idle"
             \/ q.step = "read" /\ q.account \in Accounts /\ q.row.amount \in Amounts
      PROVE  LedgerInv'
  <2>1. TxInv(c)'
    BY <1>0, <1>1 DEF TypeOK, TxInv, Current, WithSnapshot, Writing, Idle
  <2>2. ledger' = ledger /\ reader' = reader /\ clock' \in Int /\ clock <= clock'
        /\ q.step # "commit"
    BY <1>0, <1>1
  <2> QED BY ONLY LedgerInv, <1>1, <2>1, <2>2, TxMoves
<1>2. ASSUME NEW c \in Clients, NEW a \in Accounts, NEW n \in Amounts, Begin(c, a, n)
      PROVE  LedgerInv'
  <2> DEFINE row == [NoRow EXCEPT !.amount = n]
             q == [NoAdjustment EXCEPT !.step = "read", !.account = a, !.row = row]
  <2>r. row \in Row /\ row.amount = n
    BY CountersConstants DEF NoRow, Row
  <2>1. q \in Adjustment /\ q.step = "read" /\ q.account = a /\ q.row.amount = n
    BY <2>r DEF NoAdjustment, Adjustment
  <2> HIDE DEF q
  <2>2. tx' = [tx EXCEPT ![c] = q] /\ UNCHANGED <<ledger, reader, clock>>
    BY <1>2 DEF Begin, q
  <2> QED BY <1>1, <2>1, <2>2
<1>3. ASSUME NEW c \in Clients, Read(c) PROVE LedgerInv'
  <2> DEFINE balance == BalanceOf(ledger[tx[c].account])
             after == Wrap(balance + tx[c].row.amount)
             row == [tx[c].row EXCEPT !.after = after]
             q == [tx[c] EXCEPT !.step = "stamp", !.row = row]
  <2>1. /\ tx[c].account \in Accounts
        /\ tx[c].row.amount \in -MaxInt .. MaxInt
        /\ MaxInt \in Nat
    BY <1>0, <1>3, CountersConstants DEF Read, TxInv, Idle
  <2>2. balance \in 0 .. MaxInt
    BY <1>0, <2>1, BalanceFromLast
  <2>3. after >= 0
    BY <1>3 DEF Read
  <2>4. after = balance + tx[c].row.amount /\ after \in 0 .. MaxInt
    <3> HIDE DEF balance
    <3> QED BY <2>1, <2>2, <2>3 DEF Wrap
  <2>5. tx' = [tx EXCEPT ![c] = q] /\ UNCHANGED <<ledger, reader, clock>>
    BY <1>3 DEF Read, Become
  <2> HIDE DEF balance, after
  <2>6. row \in Row /\ row.after = after /\ row.amount = tx[c].row.amount
    BY <1>0, <2>4 DEF Adjustment, Row
  <2> HIDE DEF row
  <2>7. /\ q \in Adjustment
        /\ q.step = "stamp" /\ q.row = row /\ q.account = tx[c].account
        /\ ~Idle(tx[c])
    BY <1>0, <1>3, <2>6 DEF Read, Adjustment, Idle
  <2> HIDE DEF q
  <2>8. TxInv(c)'
    BY <1>0, <2>1, <2>4, <2>5, <2>6, <2>7 DEF TypeOK, TxInv, Idle, balance
  <2>9. /\ ledger' = ledger /\ reader' = reader /\ clock' \in Int /\ clock <= clock'
        /\ q.step # "commit"
    BY <1>0, <2>5, <2>7
  <2> QED BY ONLY LedgerInv, <2>5, <2>7, <2>8, <2>9, TxMoves
<1>4. ASSUME NEW c \in Clients, Insufficient(c) \/ Fail(c) PROVE LedgerInv'
  <2> DEFINE q == NoAdjustment
  <2>1. q \in Adjustment /\ q.step = "idle"
    BY <1>0 DEF NoAdjustment
  <2>2. tx' = [tx EXCEPT ![c] = q] /\ UNCHANGED <<ledger, reader, clock>>
    BY <1>4 DEF Insufficient, Fail
  <2> HIDE DEF q
  <2> QED BY <1>1, <2>1, <2>2
<1>5. ASSUME NEW c \in Clients, Stamp(c) PROVE LedgerInv'
  <2>1. PICK d \in ClockSteps :
          /\ clock' = clock + d
          /\ Become(c, "insert", [tx[c].row EXCEPT !.at = clock + d])
    BY <1>5 DEF Stamp
  <2> DEFINE row == [tx[c].row EXCEPT !.at = clock + d]
             q == [tx[c] EXCEPT !.step = "insert", !.row = row]
  <2>2. d \in Nat \ {0} /\ clock' > clock /\ clock' \in Int
    BY <1>0, <2>1 DEF ClockMovesOn
  <2>3. tx' = [tx EXCEPT ![c] = q] /\ UNCHANGED <<ledger, reader>>
    BY <1>5, <2>1 DEF Stamp, Become
  <2>4. \A a \in Accounts : \A i \in DOMAIN ledger[a] : ledger[a][i].at < clock'
    BY <1>0, <2>2, RowsOfInts DEF Chronological, TypeOK
  <2>5. /\ row \in Row /\ row.at = clock'
        /\ row.after = tx[c].row.after /\ row.amount = tx[c].row.amount
    BY <1>0, <2>1, <2>2 DEF Adjustment, Row
  <2> HIDE DEF row
  <2>6. /\ q \in Adjustment /\ q.step = "insert" /\ q.row = row
        /\ q.account = tx[c].account /\ q.stale = tx[c].stale
        /\ tx[c].step = "stamp"
    BY <1>0, <1>5, <2>5 DEF Stamp, Adjustment
  <2> HIDE DEF q
  <2>7. TxInv(c)'
    BY <1>0, <2>2, <2>3, <2>4, <2>5, <2>6
       DEF TypeOK, TxInv, Current, WithSnapshot, Writing, Idle
  <2>8. /\ ledger' = ledger /\ reader' = reader /\ clock' \in Int /\ clock <= clock'
        /\ q.step # "commit"
    BY <1>0, <2>2, <2>3, <2>6
  <2> QED BY ONLY LedgerInv, <2>3, <2>6, <2>7, <2>8, TxMoves
<1>6. ASSUME NEW c \in Clients, Insert(c) PROVE LedgerInv'
  <2> DEFINE q == [tx[c] EXCEPT !.step = "commit"]
  <2>1. tx' = [tx EXCEPT ![c] = q] /\ q \in Adjustment /\ UNCHANGED <<ledger, reader, clock>>
    BY <1>0, <1>6 DEF Insert, Adjustment
  <2>2. TxInv(c)'
    BY <1>0, <1>6, <2>1 DEF Insert, TypeOK, TxInv, Current, WithSnapshot, Writing, Idle, Adjustment
  <2>3. /\ ledger' = ledger /\ reader' = reader /\ clock' \in Int /\ clock <= clock'
        /\ \A d \in Clients : ~Writing(d)
    BY <1>0, <1>6, <2>1 DEF Insert
  <2> QED BY ONLY LedgerInv, <2>1, <2>2, <2>3, TxMoves
<1>7. CASE OtherWrite
  <2>1. /\ \A c \in Clients : ~Writing(c)
        /\ tx' = [c \in Clients |-> IF WithSnapshot(c) THEN [tx[c] EXCEPT !.stale = TRUE] ELSE tx[c]]
        /\ ledger' = ledger /\ reader' = reader /\ clock' = clock
    BY <1>7 DEF OtherWrite, Outdated
  <2>2. \A c \in Clients :
          /\ tx'[c] \in Adjustment
          /\ tx'[c].step = tx[c].step /\ tx'[c].account = tx[c].account /\ tx'[c].row = tx[c].row
          /\ ~Current(c)'
    BY <1>0, <2>1 DEF Adjustment, Current, WithSnapshot, Writing
  <2>3. TypeOK' /\ Chronological' /\ LedgerExact' /\ OneWriter'
    BY ZenonT(40), <1>0, <2>1, <2>2 DEF TypeOK, Chronological, LedgerExact, OneWriter, Writing
  <2>4. \A c \in Clients : TxInv(c)'
    BY <1>0, <2>2 DEF TxInv, Idle
  <2>5. \A r \in Readers : ReaderInv(r)'
    BY <1>0, <2>1 DEF ReaderInv
  <2> QED BY <2>3, <2>4, <2>5, InvBySlotNext
<1>8. ASSUME NEW r \in Readers, NEW a \in Accounts, NEW offset \in Offsets, Ask(r, a, offset)
      PROVE  LedgerInv'
  <2> DEFINE h == [NoHistory EXCEPT !.step = "count", !.account = a, !.offset = offset]
  <2>1. h \in History /\ h.step = "count" /\ h.account = a /\ h.last = 0
    BY CountersConstants DEF NoHistory, History
  <2> HIDE DEF h
  <2>2. reader' = [reader EXCEPT ![r] = h] /\ UNCHANGED <<ledger, tx, clock>>
    BY <1>8 DEF Ask, h
  <2>3. ReaderInv(r)'
    BY <1>0, <2>1, <2>2 DEF ReaderInv, TypeOK, Idle
  <2> QED BY <2>1, <2>2, <2>3, ReaderMoves
<1>9. ASSUME NEW r \in Readers, CountRows(r) PROVE LedgerInv'
  <2> DEFINE n == Len(ledger[reader[r].account])
             h == [reader[r] EXCEPT !.step = "page", !.total = n]
  <2>1. reader[r].account \in Accounts /\ n \in Nat
    BY <1>0, <1>9 DEF CountRows, ReaderInv, Idle, TypeOK
  <2>2. reader' = [reader EXCEPT ![r] = h] /\ h \in History /\ UNCHANGED <<ledger, tx, clock>>
    BY <1>0, <1>9, <2>1 DEF CountRows, History, TypeOK
  <2>3. /\ h.step = "page" /\ h.account = reader[r].account /\ h.total = n /\ h.last = 0
        /\ reader'[r] = h /\ ledger' = ledger
    BY <1>0, <1>9, <2>2 DEF CountRows, ReaderInv, TypeOK, History
  <2> HIDE DEF h
  <2>4. ReaderInv(r)'
    BY <2>1, <2>3 DEF ReaderInv
  <2> QED BY <2>2, <2>4, ReaderMoves
<1>10. ASSUME NEW r \in Readers, FindPage(r) PROVE LedgerInv'
  <2> DEFINE rows == ledger[reader[r].account]
             h == [reader[r] EXCEPT !.step = IF reader[r].total > 0 THEN "last" ELSE "done",
                                    !.page = Page(rows, reader[r].offset)]
  <2>1. /\ reader[r].account \in Accounts
        /\ rows \in Seq(Row)
        /\ \A i, j \in DOMAIN rows : i < j => rows[i].at < rows[j].at
        /\ reader[r].total <= Len(rows)
        /\ reader[r].total \in Nat /\ reader[r].offset \in Nat /\ Len(rows) \in Nat
    BY <1>0, <1>10 DEF FindPage, ReaderInv, Idle, TypeOK, Chronological, History
  <2>2. /\ reader' = [reader EXCEPT ![r] = h]
        /\ h \in History
        /\ UNCHANGED <<ledger, tx, clock>>
    <3>1. Page(rows, reader[r].offset) \subseteq Nat
      BY <2>1 DEF Page
    <3> QED BY <1>0, <1>10, <3>1 DEF FindPage, History, TypeOK
  <2>3. reader[r].total > reader[r].offset =>
          Len(rows) - reader[r].offset \in Page(rows, reader[r].offset)
    BY <2>1, PageReaches
  <2>4. ReaderInv(r)'
    <3>1. /\ reader'[r] = h /\ h.total = reader[r].total /\ h.offset = reader[r].offset
          /\ h.account = reader[r].account /\ h.page = Page(rows, reader[r].offset)
          /\ h.step = IF reader[r].total > 0 THEN "last" ELSE "done"
          /\ ledger' = ledger
      BY <1>0, <2>2 DEF TypeOK, History
    <3> HIDE DEF h
    <3>2. h.total > h.offset => h.step = "last" /\ Len(rows) - h.offset \in h.page
      BY <2>1, <2>3, <3>1
    <3>3. h.total > h.offset =>
            \E i \in h.page : h.total - h.offset <= i /\ i + h.offset <= Len(rows)
      <4> SUFFICES ASSUME h.total > h.offset
                   PROVE  \E i \in h.page : h.total - h.offset <= i /\ i + h.offset <= Len(rows)
        OBVIOUS
      <4> HIDE DEF rows
      <4>1. /\ Len(rows) - h.offset \in h.page
            /\ h.total - h.offset <= Len(rows) - h.offset
            /\ Len(rows) - h.offset + h.offset <= Len(rows)
        BY <2>1, <3>1, <3>2
      <4> QED BY <4>1
    <3>4. reader[r].last = 0 /\ h.last = reader[r].last
      BY <1>0, <1>10 DEF FindPage, ReaderInv, h, History
    <3> QED BY <2>1, <3>1, <3>2, <3>3, <3>4 DEF ReaderInv, Idle
  <2> QED BY <2>2, <2>4, ReaderMoves
<1>11. ASSUME NEW r \in Readers, FindLast(r) PROVE LedgerInv'
  <2> DEFINE rows == ledger[reader[r].account]
  <2>1. /\ reader[r].account \in Accounts
        /\ rows # <<>> /\ rows \in Seq(Row) /\ Len(rows) \in Nat
        /\ reader[r].last = 0
    BY <1>0, <1>11, EmptySeq DEF FindLast, ReaderInv, Idle, TypeOK, History
  <2>2. Newest(rows) = Len(rows)
    BY <1>0, <2>1, BalanceFromLast
  <2>3. PICK last \in {Len(rows), 0} :
          reader' = [reader EXCEPT ![r] = [reader[r] EXCEPT !.step = "done", !.last = last]]
    <3>1. CASE reader' = [reader EXCEPT ![r].step = "done", ![r].last = Newest(rows)]
      <4>1. reader' = [reader EXCEPT ![r] = [reader[r] EXCEPT !.step = "done", !.last = Len(rows)]]
        BY <2>2, <3>1
      <4> QED BY <4>1
    <3>2. CASE reader' = [reader EXCEPT ![r].step = "done"]
      <4>1. [reader[r] EXCEPT !.step = "done"] = [reader[r] EXCEPT !.step = "done", !.last = 0]
        BY <1>0, <2>1 DEF History
      <4> QED BY <3>2, <4>1
    <3> QED BY <1>11, <3>1, <3>2 DEF FindLast
  <2> DEFINE h == [reader[r] EXCEPT !.step = "done", !.last = last]
  <2>4. /\ h \in History /\ h.step = "done" /\ h.last = last
        /\ h.account = reader[r].account /\ h.total = reader[r].total
        /\ h.offset = reader[r].offset /\ h.page = reader[r].page
    BY <1>0, <2>1 DEF History
  <2>5. reader' = [reader EXCEPT ![r] = h] /\ UNCHANGED <<ledger, tx, clock>> /\ reader'[r] = h
    BY <1>0, <1>11, <2>3 DEF FindLast, TypeOK
  <2> HIDE DEF h
  <2>6. ReaderInv(r)'
    BY <1>0, <1>11, <2>1, <2>3, <2>4, <2>5 DEF FindLast, ReaderInv, Idle
  <2> QED BY <2>4, <2>5, <2>6, ReaderMoves
<1>12. ASSUME NEW r \in Readers, Answer(r) PROVE LedgerInv'
  <2> DEFINE h == NoHistory
  <2>1. h \in History /\ h.step = "idle"
    BY <1>0 DEF NoHistory
  <2>2. reader' = [reader EXCEPT ![r] = h] /\ UNCHANGED <<ledger, tx, clock>> 
    BY <1>12 DEF Answer
  <2> HIDE DEF h
  <2>3. ReaderInv(r)'
    BY <1>0, <2>1, <2>2 DEF ReaderInv, TypeOK, Idle
  <2> QED BY <2>1, <2>2, <2>3, ReaderMoves
<1>13. CASE Crash
  <2>1. TypeOK' /\ Chronological' /\ LedgerExact'
    BY <1>0, <1>13 DEF Crash, TypeOK, Chronological, LedgerExact
  <2>2. OneWriter' /\ \A c \in Clients : TxInv(c)'
    BY <1>13 DEF Crash, OneWriter, TxInv, Current, WithSnapshot, Writing, Idle, NoAdjustment
  <2>3. \A r \in Readers : ReaderInv(r)'
    BY <1>13 DEF Crash, ReaderInv, Idle, NoHistory
  <2> QED BY <2>1, <2>2, <2>3, InvBySlotNext
<1>14. CASE UNCHANGED vars
  <2>1. TypeOK' /\ Chronological' /\ LedgerExact'
    BY <1>0, <1>14 DEF vars, TypeOK, Chronological, LedgerExact
  <2>2. OneWriter' /\ \A c \in Clients : TxInv(c)'
    BY <1>0, <1>14 DEF vars, OneWriter, TxInv, Current, WithSnapshot, Writing
  <2>3. \A r \in Readers : ReaderInv(r)'
    BY <1>0, <1>14 DEF vars, ReaderInv
  <2> QED BY <2>1, <2>2, <2>3, InvBySlotNext
<1> QED
  BY <1>2, <1>3, <1>4, <1>5, <1>6, <1>7, <1>8, <1>9, <1>10, <1>11, <1>12, <1>13, <1>14,
     CommitKeeps DEF Next

-----------------------------------------------------------------------------
(* The types of the variables, with a clock that moves on. *)
THEOREM TypeCorrect ==
  ASSUME ClockMovesOn
  PROVE  Spec => []TypeOK
<1>1. LedgerInv => TypeOK
  BY DEF LedgerInv
<1> QED BY InvInit, InvNext, <1>1, PTL DEF Spec

(* With a clock that moves on, no interleaving of adjustments, failures    *)
(* and crashes loses an adjustment or takes a balance below zero.          *)
THEOREM LedgerCorrect ==
  ASSUME ClockMovesOn
  PROVE  Spec => []LedgerExact
<1>1. LedgerInv => LedgerExact
  BY DEF LedgerInv
<1> QED BY InvInit, InvNext, <1>1, PTL DEF Spec

(* With such a clock, an answer to a history request never pairs a page    *)
(* with an older balance, or a total with an older page.                   *)
THEOREM HistoryCorrect ==
  ASSUME ClockMovesOn
  PROVE  Spec => []HistoryForward
<1>1. LedgerInv => HistoryForward
  BY DEF LedgerInv
<1> QED BY InvInit, InvNext, <1>1, PTL DEF Spec

(* A commit is a deposit into the bank; every other step leaves all        *)
(* balances alone.                                                         *)
LEMMA BankStep ==
  ASSUME LedgerInv, [Next]_vars
  PROVE  [Bank!BankNext]_([a \in Accounts |-> BalanceOf(ledger[a])])
<1>1. CASE ledger' = ledger
  BY <1>1
<1>2. ASSUME NEW c \in Clients, Commit(c)
      PROVE  Bank!BankNext
  <2> DEFINE a == tx[c].account
             row == tx[c].row
             balances == [b \in Accounts |-> BalanceOf(ledger[b])]
  <2>1. TypeOK /\ Chronological /\ LedgerExact /\ TxInv(c) /\ Writing(c)
    BY <1>2, InvBySlot DEF Commit, Writing
  <2>2. /\ a \in Accounts /\ row \in Row /\ ledger[a] \in Seq(Row)
        /\ row.after = BalanceOf(ledger[a]) + row.amount
        /\ row.after \in 0 .. MaxInt
        /\ row.amount \in -MaxInt .. MaxInt
        /\ \A i \in DOMAIN ledger[a] : ledger[a][i].at < row.at
        /\ \A i, j \in DOMAIN ledger[a] : i < j => ledger[a][i].at < ledger[a][j].at
    BY <2>1, CountersConstants
       DEF TxInv, Current, Writing, Idle, TypeOK, Adjustment, Chronological
  <2>3. BalanceOf(Append(ledger[a], row)) = row.after
    BY <2>2, BalanceAfterAppend
  <2>4. ledger' = [ledger EXCEPT ![a] = Append(ledger[a], row)]
    BY <1>2 DEF Commit
  <2> HIDE DEF a, row
  <2>5. [b \in Accounts |-> BalanceOf(ledger'[b])] = [balances EXCEPT ![a] = row.after]
    BY <2>1, <2>2, <2>3, <2>4 DEF TypeOK
  <2>6. balances[a] = BalanceOf(ledger[a])
    BY <2>2
  <2>7. balances[a] + row.amount = row.after
    BY <2>2, <2>6
  <2>8. Bank!Deposit(a, row.amount)
    BY <2>2, <2>5, <2>7 DEF Bank!Deposit
  <2> QED BY <2>2, <2>8 DEF Bank!BankNext
<1>3. (\E c \in Clients : Commit(c)) \/ ledger' = ledger
  BY DEF Next, vars, Begin, Read, Insufficient, Stamp, Insert, Fail, Commit, OtherWrite,
     Ask, CountRows, FindPage, FindLast, Answer, Crash
<1> QED BY <1>1, <1>2, <1>3

(* With such a clock, the counters are a bank that takes one adjustment at *)
(* a time.                                                                 *)
THEOREM CountersAreABank ==
  ASSUME ClockMovesOn
  PROVE  Spec => Promise
<1>1. Init => Bank!BankInit
  BY DEF Init, Bank!BankInit, BalanceOf
<1> QED
  BY InvInit, InvNext, BankStep, <1>1, PTL DEF Spec, Promise, Bank!BankSpec
=============================================================================
