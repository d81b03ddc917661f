--------------------------- MODULE MCSessionStore ---------------------------
(* SessionStore on small sets of tokens and request slots. *)
EXTENDS SessionStore, TLC

(* Tokens and slots are only ever compared. *)
Symmetry == Permutations(Tokens) \cup Permutations(Requests)
=============================================================================
