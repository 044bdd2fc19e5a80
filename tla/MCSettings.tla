------------------------------ MODULE MCSettings ------------------------------
(* Instances of Settings for TLC. *)
EXTENDS Settings

CONSTANT v

\* One container with an override and one without.
Drafts == {[k \in Key |-> IF k = 1 THEN [auto |-> FALSE, value |-> v] ELSE Unlisted]}
==============================================================================
