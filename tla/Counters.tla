------------------------------ MODULE Counters ------------------------------
(***************************************************************************)
(* The counters of the users: an append-only table in which every row      *)
(* records an amount and the balance after it.  There is no stored balance:*)
(* the balance of an account is the balance_after of its newest row, and   *)
(* "newest" is ORDER BY created_at DESC, then by id.                       *)
(*                                                                         *)
(* AdjustCounters reads the newest row and inserts the next one inside a   *)
(* transaction.  The database is SQLite in WAL mode behind a pool of       *)
(* connections: a transaction reads from the snapshot its first SELECT     *)
(* took, and its INSERT fails with "database is locked" when another       *)
(* connection is writing, or has committed since that snapshot.            *)
(*                                                                         *)
(* GetCounterHistory is three queries on no common snapshot.               *)
(*                                                                         *)
(* created_at is the local wall clock, drawn by gorm when it builds the    *)
(* row, before the INSERT runs.  ClockSteps are the differences between    *)
(* successive readings: {1} is a clock that always moves on; 0 is a clock  *)
(* too coarse to tell two inserts apart, -1 one that is set back.          *)
(***************************************************************************)
EXTENDS Integers, Sequences, FiniteSets

CONSTANTS
  Accounts,     \* pairs of a user and a kind of counter
  NoAccount,    \* the account of an idle slot
  Clients,      \* slots of requests that adjust a counter
  Readers,      \* slots of requests that read a history
  Amounts,      \* amounts the requests ask for
  MaxInt,       \* the largest int: a sum beyond it wraps around
  Limit,        \* rows on a page of a history
  Offsets,      \* rows a history request skips
  ClockSteps,   \* how far the clock moves between two readings
  MaxClock,     \* bound of the clock
  MaxRows,      \* bound of the table
  DBFaults,     \* TRUE: a statement may fail
  Crashes       \* TRUE: the process may die and be started again

ASSUME CountersConstants ==
  /\ NoAccount \notin Accounts
  /\ MaxInt \in Nat
  /\ Amounts \subseteq (-MaxInt .. MaxInt) \ {0}
  /\ Limit \in Nat \ {0}
  /\ Offsets \subseteq Nat
  /\ ClockSteps \subseteq Int
  /\ MaxClock \in Nat
  /\ MaxRows \in Nat
  /\ DBFaults \in BOOLEAN
  /\ Crashes \in BOOLEAN

VARIABLES
  ledger,   \* ledger[a]: the committed rows of the account, in commit order
  tx,       \* tx[c]: the adjustment running in slot c
  reader,   \* reader[r]: the history request running in slot r
  clock     \* the last reading of the wall clock

vars == <<ledger, tx, reader, clock>>

Row == [amount: Int, after: Int, at: Int]

(***************************************************************************)
(* An adjustment: "read" before its SELECT, "stamp" between SELECT and     *)
(* building the row, "insert" before the INSERT, "commit" while it holds   *)
(* the write lock.  stale: somebody committed since its snapshot.          *)
(***************************************************************************)
Adjustment == [step: {"idle", "read", "stamp", "insert", "commit"},
               account: Accounts \cup {NoAccount}, row: Row, stale: BOOLEAN]

NoRow == [amount |-> 0, after |-> 0, at |-> 0]

(* A history request and its answer: total and last are as counted and as  *)
(* found, page holds positions in the ledger; last = 0 is "balance 0".     *)
History == [step: {"idle", "count", "page", "last", "done"},
            account: Accounts \cup {NoAccount}, offset: Nat,
            total: Nat, page: SUBSET Nat, last: Nat]

Idle(slot) == slot.step = "idle"

Writing(c) == tx[c].step = "commit"

(* The snapshots open now; a commit makes them stale. *)
WithSnapshot(c) == tx[c].step \in {"stamp", "insert"}

Outdated == [c \in Clients |->
  IF WithSnapshot(c) THEN [tx[c] EXCEPT !.stale = TRUE] ELSE tx[c]]

-----------------------------------------------------------------------------
(* int addition: two's complement. *)
Wrap(n) ==
  IF n > MaxInt THEN n - 2 * (MaxInt + 1)
  ELSE IF n < -MaxInt - 1 THEN n + 2 * (MaxInt + 1) ELSE n

(* Row i comes before row j under ORDER BY created_at DESC, id.  Ids made  *)
(* in the same millisecond count upwards.                                  *)
Newer(rows, i, j) ==
  \/ rows[i].at > rows[j].at
  \/ rows[i].at = rows[j].at /\ i < j

Newest(rows) ==
  CHOOSE i \in DOMAIN rows : \A j \in DOMAIN rows \ {i} : Newer(rows, i, j)

(* The balance_after of the newest row, 0 when there is none. *)
BalanceOf(rows) == IF rows = <<>> THEN 0 ELSE rows[Newest(rows)].after

(* Broken variant: the oldest rows first. *)
PageAscending(rows, offset) ==
  {i \in DOMAIN rows :
     Cardinality({j \in DOMAIN rows \ {i} : Newer(rows, i, j)})
       \in offset .. offset + Limit - 1}

(* The page after skipping offset rows, newest first. *)
Page(rows, offset) ==
  {i \in DOMAIN rows :
     Cardinality({j \in DOMAIN rows \ {i} : Newer(rows, j, i)})
       \in offset .. offset + Limit - 1}

-----------------------------------------------------------------------------
NoAdjustment == [step |-> "idle", account |-> NoAccount, row |-> NoRow, stale |-> FALSE]

NoHistory == [step |-> "idle", account |-> NoAccount, offset |-> 0,
              total |-> 0, page |-> {}, last |-> 0]

Init ==
  /\ ledger = [a \in Accounts |-> <<>>]
  /\ tx = [c \in Clients |-> NoAdjustment]
  /\ reader = [r \in Readers |-> NoHistory]
  /\ clock = 0

(* The bounds leave room for one more reading of the clock and one more row. *)
InFlight == Cardinality({c \in Clients : ~Idle(tx[c])})

Room ==
  /\ clock + InFlight < MaxClock
  /\ \A a \in Accounts : Len(ledger[a]) + InFlight < MaxRows

(* AdjustUserCounters has let the request through: an admin, an existing   *)
(* user, an amount other than zero.  The transaction begins.               *)
Begin(c, a, n) ==
  /\ Idle(tx[c])
  /\ Room
  /\ tx' = [tx EXCEPT ![c] = [NoAdjustment EXCEPT
              !.step = "read", !.account = a, !.row = [NoRow EXCEPT !.amount = n]]]
  /\ UNCHANGED <<ledger, reader, clock>>

Become(c, step, row) == tx' = [tx EXCEPT ![c] = [tx[c] EXCEPT !.step = step, !.row = row]]

(* Broken variant: the balance may go negative. *)
ReadUnchecked(c) ==
  /\ tx[c].step = "read"
  /\ Become(c, "stamp", [tx[c].row EXCEPT
              !.after = BalanceOf(ledger[tx[c].account]) + tx[c].row.amount])
  /\ UNCHANGED <<ledger, reader, clock>>

(* The SELECT takes the snapshot and finds the balance to start from. *)
Read(c) ==
  LET after == Wrap(BalanceOf(ledger[tx[c].account]) + tx[c].row.amount) IN
  /\ tx[c].step = "read"
  /\ after >= 0
  /\ Become(c, "stamp", [tx[c].row EXCEPT !.after = after])
  /\ UNCHANGED <<ledger, reader, clock>>

(* "insufficient counters": rolled back, and 400. *)
Insufficient(c) ==
  /\ tx[c].step = "read"
  /\ Wrap(BalanceOf(ledger[tx[c].account]) + tx[c].row.amount) < 0
  /\ tx' = [tx EXCEPT ![c] = NoAdjustment]
  /\ UNCHANGED <<ledger, reader, clock>>

(* gorm builds the row: created_at is the clock now. *)
Stamp(c) ==
  /\ tx[c].step = "stamp"
  /\ \E d \in ClockSteps :
       /\ clock + d \in 0 .. MaxClock
       /\ clock' = clock + d
       /\ Become(c, "insert", [tx[c].row EXCEPT !.at = clock + d])
  /\ UNCHANGED <<ledger, reader>>

(* Broken variant: SELECT and INSERT are not one transaction. *)
InsertOutsideTransaction(c) ==
  /\ tx[c].step = "insert"
  /\ \A d \in Clients : ~Writing(d)
  /\ tx' = [tx EXCEPT ![c].step = "commit"]
  /\ UNCHANGED <<ledger, reader, clock>>

(* The INSERT gets the write lock only if the snapshot is still the latest. *)
Insert(c) ==
  /\ tx[c].step = "insert"
  /\ ~tx[c].stale
  /\ \A d \in Clients : ~Writing(d)
  /\ tx' = [tx EXCEPT ![c].step = "commit"]
  /\ UNCHANGED <<ledger, reader, clock>>

(* Broken variant: the transaction is not rolled back. *)
FailWithoutRollback(c) ==
  /\ tx[c].step = "insert"
  /\ tx[c].stale \/ \E d \in Clients : Writing(d)
  /\ tx' = [tx EXCEPT ![c].step = "failed"]
  /\ UNCHANGED <<ledger, reader, clock>>

(* SQLITE_BUSY, or another failure: rolled back, and 500. *)
Fail(c) ==
  /\ \/ /\ tx[c].step = "insert"
        /\ tx[c].stale \/ \E d \in Clients : Writing(d)
     \/ DBFaults /\ tx[c].step \in {"read", "insert", "commit"}
  /\ tx' = [tx EXCEPT ![c] = NoAdjustment]
  /\ UNCHANGED <<ledger, reader, clock>>

Commit(c) ==
  /\ tx[c].step = "commit"
  /\ ledger' = [ledger EXCEPT ![tx[c].account] = Append(@, tx[c].row)]
  /\ tx' = [Outdated EXCEPT ![c] = NoAdjustment]
  /\ UNCHANGED <<reader, clock>>

(* Any other handler's write: sessions, metrics, users, tokens. *)
OtherWrite ==
  /\ \A c \in Clients : ~Writing(c)
  /\ tx' = Outdated
  /\ UNCHANGED <<ledger, reader, clock>>

-----------------------------------------------------------------------------
(* GetCounterHistory. *)
Ask(r, a, offset) ==
  /\ Idle(reader[r])
  /\ reader' = [reader EXCEPT ![r] =
       [NoHistory EXCEPT !.step = "count", !.account = a, !.offset = offset]]
  /\ UNCHANGED <<ledger, tx, clock>>

CountRows(r) ==
  /\ reader[r].step = "count"
  /\ reader' = [reader EXCEPT ![r].step = "page",
                              ![r].total = Len(ledger[reader[r].account])]
  /\ UNCHANGED <<ledger, tx, clock>>

FindPage(r) ==
  /\ reader[r].step = "page"
  /\ reader' = [reader EXCEPT
       ![r].step = IF reader[r].total > 0 THEN "last" ELSE "done",
       ![r].page = Page(ledger[reader[r].account], reader[r].offset)]
  /\ UNCHANGED <<ledger, tx, clock>>

(* The balance; when this query fails the answer keeps its balance of 0. *)
FindLast(r) ==
  /\ reader[r].step = "last"
  /\ \/ reader' = [reader EXCEPT ![r].step = "done",
                                 ![r].last = Newest(ledger[reader[r].account])]
     \/ DBFaults /\ reader' = [reader EXCEPT ![r].step = "done"]
  /\ UNCHANGED <<ledger, tx, clock>>

(* The answer is sent, or a query failed: 500. *)
Answer(r) ==
  /\ \/ reader[r].step = "done"
     \/ DBFaults /\ reader[r].step \in {"count", "page"}
  /\ reader' = [reader EXCEPT ![r] = NoHistory]
  /\ UNCHANGED <<ledger, tx, clock>>

(* The process dies and comes back; what was not committed is gone. *)
Crash ==
  /\ Crashes
  /\ tx' = [c \in Clients |-> NoAdjustment]
  /\ reader' = [r \in Readers |-> NoHistory]
  /\ UNCHANGED <<ledger, clock>>

Next ==
  \/ \E c \in Clients : \E a \in Accounts, n \in Amounts : Begin(c, a, n)
  \/ \E c \in Clients :
       Read(c) \/ Insufficient(c) \/ Stamp(c) \/ Insert(c) \/ Fail(c) \/ Commit(c)
  \/ \E r \in Readers : \E a \in Accounts, offset \in Offsets : Ask(r, a, offset)
  \/ \E r \in Readers : CountRows(r) \/ FindPage(r) \/ FindLast(r) \/ Answer(r)
  \/ OtherWrite
  \/ Crash

Spec == Init /\ [][Next]_vars

-----------------------------------------------------------------------------
(* Every reading of the clock is later than the one before it. *)
ClockMovesOn == ClockSteps \subseteq Nat \ {0}

(* The types of the variables. *)
TypeOK ==
  /\ ledger \in [Accounts -> Seq(Row)]
  /\ tx \in [Clients -> Adjustment]
  /\ reader \in [Readers -> History]
  /\ clock \in Int

(***************************************************************************)
(* Every row continues the one committed before it: its balance is the     *)
(* previous balance plus its amount, with no adjustment lost between them, *)
(* none applied twice, and never below zero or wrapped around.             *)
(***************************************************************************)
LedgerExact ==
  \A a \in Accounts : \A i \in DOMAIN ledger[a] :
    LET before == IF i = 1 THEN 0 ELSE ledger[a][i-1].after IN
    /\ ledger[a][i].after = before + ledger[a][i].amount
    /\ ledger[a][i].after \in 0 .. MaxInt

(***************************************************************************)
(* The three queries of a history age forwards only: the page is of a table*)
(* that has every row the total counted, and the balance is no older than  *)
(* the page.                                                               *)
(***************************************************************************)
HistoryForward ==
  \A r \in Readers :
    LET h == reader[r] IN
    h.step = "done" /\ h.total > h.offset =>
      \E i \in h.page : /\ h.total - h.offset <= i
                        /\ h.last # 0 => i + h.offset <= h.last

(***************************************************************************)
(* As long as the clock moves on, the balances behave like a bank that     *)
(* takes one adjustment at a time.                                         *)
(***************************************************************************)
Bank == INSTANCE CounterBank WITH
  balance <- [a \in Accounts |-> BalanceOf(ledger[a])]

Promise == Bank!BankSpec

(***************************************************************************)
(* The inductive invariant behind LedgerExact and Promise, for a clock that*)
(* moves on.                                                               *)
(***************************************************************************)

(* Rows are committed in the order of their created_at. *)
Chronological ==
  \A a \in Accounts : \A i \in DOMAIN ledger[a] :
    /\ ledger[a][i].at <= clock
    /\ \A j \in DOMAIN ledger[a] : i < j => ledger[a][i].at < ledger[a][j].at

(* A transaction whose snapshot is the latest still continues its account. *)
Current(c) == (WithSnapshot(c) /\ ~tx[c].stale) \/ Writing(c)

SnapshotsHold ==
  \A c \in Clients : Current(c) =>
    LET row == tx[c].row IN
    /\ row.after = BalanceOf(ledger[tx[c].account]) + row.amount
    /\ row.after \in 0 .. MaxInt
    /\ tx[c].step # "stamp" =>
         /\ row.at <= clock
         /\ \A a \in Accounts : \A i \in DOMAIN ledger[a] : ledger[a][i].at < row.at

OneWriter == \A c, d \in Clients : Writing(c) /\ Writing(d) => c = d

BusyAsAsked ==
  \A c \in Clients : ~Idle(tx[c]) => tx[c].account \in Accounts /\ tx[c].row.amount \in Amounts

(* A history under way has read prefixes of the ledger, each no shorter    *)
(* than the one before it, and not yet a balance.                          *)
ReadersBehind ==
  \A r \in Readers :
    LET h == reader[r] IN
    /\ ~Idle(h) => h.account \in Accounts
    /\ h.step \in {"page", "last"} => h.total <= Len(ledger[h.account])
    /\ h.step = "last" => h.total > 0
    /\ h.step \in {"count", "page", "last"} => h.last = 0
    /\ h.step = "last" /\ h.total > h.offset =>
         \E i \in h.page : h.total - h.offset <= i /\ i + h.offset <= Len(ledger[h.account])

LedgerInv ==
  /\ TypeOK
  /\ Chronological
  /\ SnapshotsHold
  /\ OneWriter
  /\ BusyAsAsked
  /\ ReadersBehind
  /\ LedgerExact
  /\ HistoryForward
=============================================================================
