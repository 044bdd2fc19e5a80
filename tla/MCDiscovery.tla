----------------------------- MODULE MCDiscovery -----------------------------
(* Instances of Discovery for TLC. *)
EXTENDS Discovery

CONSTANTS h1, h2

\* The first key lives on one host, all others on the other.
TwoHosts == [k \in Key |-> IF k = 1 THEN h1 ELSE h2]
==============================================================================
