----------------------------- MODULE MCCounters -----------------------------
(* Counters on small sets of accounts and request slots. *)
EXTENDS Counters, TLC

(* What the configurations give the constants that a .cfg cannot spell. *)
MCAmounts == {-2, 1, 3}
MCMovesOn == {1}

(* Accounts and slots are only ever compared. *)
Symmetry == Permutations(Accounts) \cup Permutations(Clients)
=============================================================================
