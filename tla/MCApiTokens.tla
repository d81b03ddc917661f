----------------------------- MODULE MCApiTokens -----------------------------
(* ApiTokens on small sets of tokens and request slots. *)
EXTENDS ApiTokens, TLC

(* Tokens and slots are only ever compared. *)
Symmetry == Permutations(Tokens) \cup Permutations(Requests)
=============================================================================
