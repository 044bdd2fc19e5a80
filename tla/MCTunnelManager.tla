--------------------------- MODULE MCTunnelManager ---------------------------
(* Instances of TunnelManager for TLC. *)
EXTENDS TunnelManager, TLC

CONSTANTS h1, k1, k2, x1, x2

OneHost == [k \in Key |-> h1]
OwnPort == [k \in Key |-> IF k = k1 THEN x1 ELSE x2]

Symmetry ==
  Permutations(Client) \cup Permutations(Lease)
    \cup Permutations(Command) \cup Permutations(Monitor)
==============================================================================
