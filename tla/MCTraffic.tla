----------------------------- MODULE MCTraffic -----------------------------
(* Traffic of one client before and after it logs in as a user who is      *)
(* called guest, and of a program on the gateway's own machine.            *)
EXTENDS Traffic

CONSTANTS far, local, agent, probe, bob

MCClients ==
  { [addr |-> far, key |-> agent, cookie |-> FALSE, user |-> NoUserId],
    [addr |-> far, key |-> agent, cookie |-> TRUE, user |-> bob],
    [addr |-> local, key |-> probe, cookie |-> FALSE, user |-> NoUserId] }

MCUsernames == [u \in {bob} |-> Guest]

MCCountry == [a \in {far, local} |-> "Spain"]

(* Early hints before an error. *)
MCAnswers == { <<103, 404>> }

MCRanges == { [from |-> 0, to |-> 1] }
=============================================================================
