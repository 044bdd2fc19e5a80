---------------------------- MODULE TunnelService ----------------------------
(***************************************************************************)
(* What the TunnelManager promises to the user interface: each key is      *)
(* None, Alive or Reconnecting (type TunnelStatus of tunnel.go), and each  *)
(* Connect or Disconnect takes effect at one instant between its call and  *)
(* its answer.  TunnelManager.tla implements this specification.           *)
(***************************************************************************)
CONSTANTS Key, Command, None

VARIABLES status,   \* what Status(key) returns
          call,     \* how far each command is, then its answer
          arg,      \* the key of a Connect that has not taken effect
          ended     \* DisconnectAll has taken effect

serviceVars == <<status, call, arg, ended>>

ServiceTypeOK ==
  /\ status \in [Key -> {"None", "Alive", "Reconnecting"}]
  /\ call \in [Command -> {"idle", "connecting", "connected", "failed", "disconnected"}]
  /\ arg \in [Command -> Key \cup {None}]
  /\ ended \in BOOLEAN

ServiceInit ==
  /\ status = [k \in Key |-> "None"]
  /\ call = [p \in Command |-> "idle"]
  /\ arg = [p \in Command |-> None]
  /\ ended = FALSE

Answer(p, a) ==
  /\ call' = [call EXCEPT ![p] = a]
  /\ arg' = [arg EXCEPT ![p] = None]

\* A Connect of a live key answers at once.
Connect(p, k) ==
  /\ call[p] = "idle"
  /\ IF status[k] = "Alive" THEN Answer(p, "connected")
     ELSE /\ call' = [call EXCEPT ![p] = "connecting"]
          /\ arg' = [arg EXCEPT ![p] = k]
  /\ UNCHANGED <<status, ended>>

\* Another Connect takes effect later: the key is alive, whoever made it so.
Establish(p) ==
  /\ call[p] = "connecting"
  /\ status' = [status EXCEPT ![arg[p]] = "Alive"]
  /\ Answer(p, "connected")
  /\ UNCHANGED ended

Refuse(p) ==
  /\ call[p] = "connecting"
  /\ Answer(p, "failed")
  /\ UNCHANGED <<status, ended>>

Disconnect(p, k) ==
  /\ call[p] = "idle"
  /\ status' = [status EXCEPT ![k] = "None"]
  /\ Answer(p, "disconnected")
  /\ UNCHANGED ended

Deliver(p) ==
  /\ call[p] \in {"connected", "failed", "disconnected"}
  /\ Answer(p, "idle")
  /\ UNCHANGED <<status, ended>>

\* A live tunnel is never just gone: it is reconnecting first, and from there
\* it is revived or given up.
Turn(k, from, to) ==
  /\ status[k] = from
  /\ status' = [status EXCEPT ![k] = to]
  /\ UNCHANGED <<call, arg, ended>>

Die(k)    == Turn(k, "Alive", "Reconnecting")
Revive(k) == Turn(k, "Reconnecting", "Alive")
GiveUp(k) == Turn(k, "Reconnecting", "None")

End ==
  /\ ~ ended /\ ended' = TRUE
  /\ status' = [k \in Key |-> "None"]
  /\ UNCHANGED <<call, arg>>

ServiceNext ==
  \/ \E p \in Command, k \in Key : Connect(p, k) \/ Disconnect(p, k)
  \/ \E p \in Command : Establish(p) \/ Refuse(p) \/ Deliver(p)
  \/ \E k \in Key : Die(k) \/ Revive(k) \/ GiveUp(k)
  \/ End

ServiceSpec == ServiceInit /\ [][ServiceNext]_serviceVars

==============================================================================
