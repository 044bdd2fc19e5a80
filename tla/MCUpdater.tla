------------------------------ MODULE MCUpdater ------------------------------
(* Instances of Updater for TLC. *)
EXTENDS Updater, TLC

CONSTANTS v109, v110

\* Names in an order that their last numbers alone get wrong.
Names == (Dev :> <<0, 0, 0>>) @@ (v109 :> <<1, 0, 9>>) @@ (v110 :> <<1, 1, 0>>)
==============================================================================
