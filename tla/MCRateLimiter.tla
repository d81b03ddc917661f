---------------------------- MODULE MCRateLimiter ----------------------------
(* RateLimiter on small sets of addresses, slots and objects. *)
EXTENDS RateLimiter, TLC

(* Addresses, slots and objects are only ever compared. *)
Symmetry == Permutations(Ips) \cup Permutations(Handlers) \cup Permutations(EntryIds)
=============================================================================
