----------------------------- MODULE CounterBank -----------------------------
(***************************************************************************)
(* What the counters promise: one balance per account (a user's counter of *)
(* one kind), adjusted atomically, never negative and never beyond what an *)
(* int holds.  Counters implements it, see Promise there.                  *)
(***************************************************************************)
EXTENDS Integers

CONSTANTS
  Accounts,   \* pairs of a user and a kind of counter
  MaxInt      \* the largest int

VARIABLE balance

BankInit == balance = [a \in Accounts |-> 0]

Deposit(a, n) ==
  /\ balance[a] + n \in 0 .. MaxInt
  /\ balance' = [balance EXCEPT ![a] = balance[a] + n]

(* One adjustment at a time. *)
BankNext ==
  \E a \in Accounts, n \in -MaxInt .. MaxInt : Deposit(a, n)

BankSpec == BankInit /\ [][BankNext]_balance
=============================================================================
