------------------------------ MODULE MCSshPool ------------------------------
(* Instance of SshPool for TLC: the model values are interchangeable. *)
EXTENDS SshPool, TLC

Symmetry == Permutations(Host) \cup Permutations(Client) \cup Permutations(Lease)
==============================================================================
