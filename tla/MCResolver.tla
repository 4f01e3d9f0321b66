------------------------------ MODULE MCResolver ------------------------------
(* Instances of Resolver for TLC. *)
EXTENDS Resolver

CONSTANTS a1, a2, b1, b2, alpha, beta

\* Two requests for each of two hosts; or all for the same, as of one client.
TwoHosts == [r \in Requests |-> IF r \in {a1, a2} THEN alpha ELSE beta]
OneHost == [r \in Requests |-> alpha]
=============================================================================
