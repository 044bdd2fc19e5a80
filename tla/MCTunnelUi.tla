------------------------------ MODULE MCTunnelUi ------------------------------
(* Instances of TunnelUi for TLC. *)
EXTENDS TunnelUi, TLC

\* All keys alike: every one, or none, has autoconnect.
Symmetry == Permutations(Key) \cup Permutations(Command)
==============================================================================
