------------------------------- MODULE TunnelUi -------------------------------
(***************************************************************************)
(* The event loop of ui.go as far as it deals with tunnels.  The loop      *)
(* shows a state for each entry, hands Connect and Disconnect to           *)
(* goroutines, learns of their results by messages that arrive in any      *)
(* order, compares what it shows with the TunnelManager from time to time, *)
(* stands still while an SQL client has the terminal, and shuts down.      *)
(*                                                                         *)
(* The manager is the one of TunnelService.tla.  Keys act in the normal    *)
(* mode; in the modes that are left out (edit, filter, backup, ...) no key *)
(* concerns a tunnel and messages are handled just the same.               *)
(*                                                                         *)
(* As in SshPool, a definition without a comment right before another one  *)
(* is that one with a bug that a property named in PROJECT.json catches.   *)
(***************************************************************************)
EXTENDS TunnelService, Naturals, Functions

CONSTANTS Autoconnect, \* keys with autoconnect
          HasClient,   \* m.sqlClient: a psql or pgcli was found
          MaxClients   \* bound on SQL clients wanted, running or ended

ASSUME AutoKeys == Autoconnect \subseteq Key /\ None \notin Key
ASSUME ClientsBounded == HasClient \in BOOLEAN /\ MaxClients \in Nat

VARIABLES shown,      \* Status of the entry of each key, "absent" without one
          job,        \* what each goroutine was started for
          target,     \* the key it was started for
          launch,     \* m.pendingLaunch
          asked,      \* SQL clients the loop has yet to start
          running,    \* an SQL client has the terminal, the loop stands still
          failures,   \* sqlClientErrorMsg on their way
          checks,     \* tunnelHealthMsg on their way: timers and messages
          mode,       \* m.mode, then how the program ended
          quit,       \* a QuitMsg is on its way
          dissolve,   \* how far the DisconnectAll started by startDissolve is
          faded,      \* the animation of startDissolve is over
          rushed      \* not in the code: the user gave a command about an
                      \* entry while an earlier one was under way

entryVars  == <<shown, launch>>
jobVars    == <<job, target>>
clientVars == <<asked, running, failures, checks>>
exitVars   == <<mode, quit, dissolve, faded>>
loopVars   == <<serviceVars, entryVars, jobVars, clientVars, exitVars>>
uiVars     == <<loopVars, rushed>>

Shows == {"absent", "Ready", "Connecting", "Connected", "Error"}

UiTypeOK ==
  /\ ServiceTypeOK
  /\ shown \in [Key -> Shows]
  /\ job \in [Command -> {"none", "connect", "disconnect"}]
  /\ target \in [Command -> Key \cup {None}]
  /\ launch \in Key \cup {None}
  /\ asked \in 0 .. MaxClients
  /\ running \in BOOLEAN
  /\ failures \in 0 .. MaxClients
  /\ checks \in 1 .. 1 + MaxClients
  /\ mode \in {"normal", "confirm", "quitting", "gone", "panic"}
  /\ quit \in BOOLEAN
  /\ dissolve \in {"no", "closing", "closed", "seen"}
  /\ faded \in BOOLEAN /\ rushed \in BOOLEAN

UiInit ==
  /\ ServiceInit
  /\ shown = [k \in Key |-> "absent"]
  /\ job = [p \in Command |-> "none"]
  /\ target = [p \in Command |-> None]
  /\ launch = None
  /\ asked = 0 /\ running = FALSE /\ failures = 0
  /\ checks = 1
  /\ mode = "normal" /\ quit = FALSE
  /\ dissolve = "no" /\ faded = FALSE
  /\ rushed = FALSE

On    == mode \notin {"gone", "panic"}
Awake == On /\ ~ running

Active == {k \in Key : shown[k] \in {"Connected", "Connecting"}}

InFlight(k) == \E p \in Command : job[p] # "none" /\ target[p] = k

\* One goroutine for each key of K, to do w.
Spawned(K, w) ==
  \E f \in Injection(K, {p \in Command : job[p] = "none"}) :
    /\ job'    = [p \in Command |-> IF p \in Range(f) THEN w ELSE job[p]]
    /\ target' = [p \in Command |-> IF p \in Range(f)
                                    THEN CHOOSE k \in K : f[k] = p ELSE target[p]]

\* The loop is to start one more SQL client.
Ask == asked' = asked + 1 /\ UNCHANGED <<running, failures, checks>>

\* The bound MaxClients admits one more.  One check is always under way.
ClientsLeft ==
  asked + failures + checks + (IF running THEN 1 ELSE 0)
    + (IF launch = None THEN 0 ELSE 1) < 1 + MaxClients

------------------------------------------------------------------------------
(* The goroutines *)

Start(p) ==
  /\ call[p] = "idle" /\ On
  /\ \/ job[p] = "connect" /\ Connect(p, target[p])
     \/ job[p] = "disconnect" /\ Disconnect(p, target[p])
  /\ UNCHANGED <<jobVars, entryVars, clientVars, exitVars>>

\* What the manager does by itself.
Serve ==
  /\ On
  /\ \/ \E p \in Command : Establish(p) \/ Refuse(p)
     \/ \E k \in Key : Die(k) \/ Revive(k) \/ GiveUp(k)
  /\ UNCHANGED <<jobVars, entryVars, clientVars, exitVars>>

------------------------------------------------------------------------------
(* Messages *)

\* A message about a key without an entry changes no entry.
Show(k, s) == shown' = [shown EXCEPT ![k] = IF @ = "absent" THEN @ ELSE s]

\* tunnelConnectedMsg: an SQL client that waits for this tunnel is started.
Connected(k) ==
  /\ Show(k, "Connected")
  /\ IF shown[k] # "absent" /\ launch = k /\ HasClient
     THEN launch' = None /\ Ask
     ELSE UNCHANGED <<launch, clientVars>>

FailedStillWanted(k) ==
  /\ Show(k, "Error")
  /\ UNCHANGED <<launch, clientVars>>

\* tunnelErrorMsg
Failed(k) ==
  /\ Show(k, "Error")
  /\ launch' = IF launch = k THEN None ELSE launch
  /\ UNCHANGED clientVars

\* tunnelDisconnectedMsg
Disconnected(k) ==
  /\ Show(k, "Ready")
  /\ UNCHANGED <<launch, clientVars>>

Answered(p) ==
  /\ Awake
  /\ CASE call[p] = "connected" -> Connected(target[p])
       [] call[p] = "failed" -> Failed(target[p])
       [] call[p] = "disconnected" -> Disconnected(target[p])
       [] OTHER -> FALSE
  /\ Deliver(p)
  /\ job' = [job EXCEPT ![p] = "none"]
  /\ target' = [target EXCEPT ![p] = None]
  /\ UNCHANGED exitVars

\* The last message of a scan that found the keys of S: known entries keep
\* their state; the first entries of all are connected where configured.
Refreshed(S) ==
  LET first == \A k \in Key : shown[k] = "absent"
      auto  == IF first THEN Autoconnect \cap S ELSE {}
  IN /\ Awake
     /\ shown' = [k \in Key |-> IF k \notin S THEN "absent"
                                ELSE IF k \in auto THEN "Connecting"
                                ELSE IF shown[k] = "absent" THEN "Ready" ELSE shown[k]]
     /\ Spawned(auto, "connect")
     /\ UNCHANGED <<serviceVars, launch, clientVars, exitVars>>

CheckedAgain(k) ==
  IF shown[k] = "Connected" /\ status[k] # "Alive" THEN "Error"
  ELSE IF shown[k] = "Connecting" /\ status[k] = "Alive" THEN "Connected"
  ELSE shown[k]

\* checkTunnelHealth: what it shows for k afterwards ...
Checked(k) ==
  IF shown[k] = "Connected" /\ status[k] # "Alive" THEN "Connecting"
  ELSE IF shown[k] = "Connecting" /\ status[k] = "Alive" THEN "Connected"
  ELSE shown[k]

\* ... and the tunnels it connects anew.
CheckTunnelHealth ==
  /\ Awake
  /\ shown' = [k \in Key |-> Checked(k)]
  /\ Spawned({k \in Key : shown[k] = "Connected" /\ status[k] = "None"}, "connect")

HealthTickTwice ==
  /\ checks > 0
  /\ CheckTunnelHealth
  /\ checks' = checks + 1
  /\ UNCHANGED <<serviceVars, launch, asked, running, failures, exitVars>>

HealthTickLast ==
  /\ checks > 0
  /\ CheckTunnelHealth
  /\ checks' = checks - 1
  /\ UNCHANGED <<serviceVars, launch, asked, running, failures, exitVars>>

\* tunnelHealthMsg: a check, and the timer of the next one.
HealthTick ==
  /\ checks > 0
  /\ CheckTunnelHealth
  /\ UNCHANGED <<serviceVars, launch, clientVars, exitVars>>

\* sqlClientErrorMsg: a check only.
ClientFailed ==
  /\ failures > 0 /\ failures' = failures - 1
  /\ CheckTunnelHealth
  /\ UNCHANGED <<serviceVars, launch, asked, running, checks, exitVars>>

\* tea.ExecProcess: the loop stands still until the client ends; then comes a
\* sqlClientErrorMsg or a tunnelHealthMsg.
ClientStarts ==
  /\ Awake /\ asked > 0
  /\ asked' = asked - 1 /\ running' = TRUE
  /\ UNCHANGED <<serviceVars, jobVars, entryVars, failures, checks, exitVars>>

ClientEnds ==
  /\ running /\ running' = FALSE
  /\ \/ failures' = failures + 1 /\ UNCHANGED checks
     \/ checks' = checks + 1 /\ UNCHANGED failures
  /\ UNCHANGED <<serviceVars, jobVars, entryVars, asked, exitVars>>

------------------------------------------------------------------------------
(* Keys *)

ConnectEntry(k) ==
  /\ shown[k] \in {"Ready", "Error"}
  /\ shown' = [shown EXCEPT ![k] = "Connecting"]
  /\ Spawned({k}, "connect")

\* Space, or a double click: toggleTunnel.
Space(k) ==
  /\ Awake /\ mode = "normal"
  /\ \/ ConnectEntry(k)
     \/ /\ shown[k] = "Connected"
        /\ shown' = [shown EXCEPT ![k] = "Ready"]
        /\ Spawned({k}, "disconnect")
  /\ UNCHANGED <<serviceVars, launch, clientVars, exitVars>>

\* Enter on an entry whose credentials are complete.
Enter(k) ==
  /\ Awake /\ mode = "normal"
  /\ \/ /\ ConnectEntry(k)
        /\ launch' = IF HasClient THEN k ELSE launch
        /\ UNCHANGED clientVars
     \/ /\ shown[k] = "Connected" /\ HasClient
        /\ Ask
        /\ UNCHANGED <<entryVars, jobVars>>
  /\ HasClient => ClientsLeft
  /\ UNCHANGED <<serviceVars, exitVars>>

\* DisconnectAll closes the channel stop: the second call panics.
DisconnectAll ==
  IF ended THEN mode' = "panic" /\ UNCHANGED serviceVars
  ELSE End /\ UNCHANGED mode

\* startDissolve: DisconnectAll in a goroutine, and an animation.
StartDissolve ==
  /\ mode' = "quitting" /\ dissolve' = "closing"
  /\ UNCHANGED <<serviceVars, quit>>

\* Esc without a filter: a confirmation while something is connected, else
\* DisconnectAll in the loop itself and the end.
Esc ==
  /\ Awake /\ mode = "normal"
  /\ \/ /\ Active # {}
        /\ mode' = "confirm"
        /\ UNCHANGED <<serviceVars, quit, dissolve>>
     \/ /\ Active = {}
        /\ DisconnectAll
        /\ quit' = TRUE
        /\ UNCHANGED dissolve
  /\ UNCHANGED <<jobVars, entryVars, clientVars, faded>>

CtrlC ==
  /\ Awake
  /\ \/ mode = "normal" /\ Active # {} /\ StartDissolve
     \/ /\ (mode = "normal" /\ Active = {}) \/ mode = "quitting"
        /\ quit' = TRUE
        /\ UNCHANGED <<serviceVars, mode, dissolve>>
  /\ UNCHANGED <<jobVars, entryVars, clientVars, faded>>

\* updateConfirmQuit: y or Enter; any other key goes back.
Confirm ==
  /\ Awake /\ mode = "confirm"
  /\ \/ StartDissolve
     \/ mode' = "normal" /\ UNCHANGED <<serviceVars, quit, dissolve>>
  /\ UNCHANGED <<jobVars, entryVars, clientVars, faded>>

------------------------------------------------------------------------------
(* The end *)

ShutDown ==
  /\ On /\ dissolve = "closing" /\ dissolve' = "closed"
  /\ DisconnectAll
  /\ UNCHANGED <<jobVars, entryVars, clientVars, quit, faded>>

ShutDownUnrecorded ==
  /\ Awake /\ dissolve = "closed" /\ dissolve' = "no"
  /\ quit' = (quit \/ faded)
  /\ UNCHANGED <<serviceVars, jobVars, entryVars, clientVars, mode, faded>>

\* shutdownDoneMsg
ShutDownSeen ==
  /\ Awake /\ dissolve = "closed" /\ dissolve' = "seen"
  /\ quit' = (quit \/ faded)
  /\ UNCHANGED <<serviceVars, jobVars, entryVars, clientVars, mode, faded>>

FadeTickEarly ==
  /\ Awake /\ mode = "quitting"
  /\ faded' \in {faded, TRUE}
  /\ quit' = (quit \/ faded')
  /\ UNCHANGED <<serviceVars, jobVars, entryVars, clientVars, mode, dissolve>>

\* dissolveTickMsg: one frame, maybe the last.
FadeTick ==
  /\ Awake /\ mode = "quitting"
  /\ faded' \in {faded, TRUE}
  /\ quit' = (quit \/ (faded' /\ dissolve = "seen"))
  /\ UNCHANGED <<serviceVars, jobVars, entryVars, clientVars, mode, dissolve>>

QuitMsg ==
  /\ Awake /\ quit
  /\ mode' = "gone"
  /\ UNCHANGED <<serviceVars, jobVars, entryVars, clientVars, quit, dissolve, faded>>

------------------------------------------------------------------------------

Background ==
  \/ \E p \in Command : Start(p) \/ Answered(p)
  \/ Serve
  \/ ClientStarts
  \/ ClientEnds
  \/ ShutDown
  \/ ShutDownSeen
  \/ FadeTick
  \/ QuitMsg

Checks == HealthTick \/ ClientFailed

Leave == Esc \/ CtrlC \/ Confirm

\* No answer waits to be handled.
Prompt == \A p \in Command : call[p] \notin {"connected", "failed", "disconnected"}

\* Scans that find every known entry again.
Complete(S) == \A k \in Key \ S : shown[k] = "absent"

UserKeys ==
  \E k \in Key : (Space(k) \/ Enter(k)) /\ rushed' = (rushed \/ InFlight(k))

UiNext ==
  \/ UserKeys
  \/ /\ \/ Background \/ Checks \/ Leave
        \/ \E S \in SUBSET Key : Refreshed(S)
     /\ UNCHANGED rushed

UiSpec == UiInit /\ [][UiNext]_uiVars

\* The user interface when no entry ever vanishes, and an answer is handled
\* before a check that comes after it.
StableNext ==
  \/ UserKeys
  \/ /\ \/ Background \/ (Prompt /\ Checks) \/ Leave
        \/ \E S \in SUBSET Key : Complete(S) /\ Refreshed(S)
     /\ UNCHANGED rushed

StableSpec == UiInit /\ [][StableNext]_uiVars

(***************************************************************************)
(* Goroutines run, commands are answered (CommandsReturn of TunnelManager),*)
(* messages and timers are handled, and the user leaves an SQL client at   *)
(* last.  Handling is strongly fair: a message that waits is not passed    *)
(* over for ever by others, though clients stop the loop again and again,  *)
(* and a check waits for the goroutines that the bound Command admits.     *)
(***************************************************************************)
UiFairness ==
  /\ \A p \in Command : WF_loopVars(Start(p)) /\ SF_loopVars(Answered(p))
  /\ \A p \in Command : WF_loopVars(Serve /\ call'[p] # call[p])
  /\ SF_loopVars(HealthTick) /\ SF_loopVars(ClientFailed)
  /\ SF_loopVars(ClientStarts) /\ WF_loopVars(ClientEnds)
  /\ WF_loopVars(ShutDown) /\ SF_loopVars(ShutDownSeen)
  /\ SF_loopVars(FadeTick /\ faded') /\ SF_loopVars(QuitMsg)

FairUiSpec == UiSpec /\ UiFairness

FairStableSpec == StableSpec /\ UiFairness

------------------------------------------------------------------------------

\* A pending launch waits for a Connect of its key that is under way ...
Awaited ==
  launch = None \/ \E p \in Command : job[p] = "connect" /\ target[p] = launch

\* ... until it is answered, whatever the order of answers and whatever scans, checks
\* and other commands there are: the answer ends the wait, so that no later connection
\* of the key opens an SQL client unasked.  But for one case: when the Connect
\* succeeds after a scan has dropped the entry, the launch is left pending.
LaunchIsServed ==
  [][Awaited /\ ~ Awaited' =>
       /\ shown[launch] = "absent"
       /\ \E p \in Command : Answered(p) /\ call[p] = "connected" /\ target[p] = launch]_uiVars

\* While the user gives one command at a time for each key, an entry at rest that shows Ready
\* or Error has no tunnel, alive or reconnecting, that is thereby hidden.
RestIsHonest ==
  ~ rushed => \A k \in Key : ~ InFlight(k) /\ shown[k] \in {"Ready", "Error"} => status[k] = "None"

\* The program leaves the dissolve animation only after DisconnectAll has
\* returned, unless ctrl+c is pressed.
GraceBeforeQuit ==
  [][mode = "quitting" /\ ~ quit /\ quit' /\ ~ CtrlC => ended]_uiVars

\* An entry does not show Connected for ever without a tunnel.
ConnectedIsCorrected ==
  \A k \in Key :
    shown[k] = "Connected" /\ status[k] # "Alive" ~>
      shown[k] # "Connected" \/ status[k] = "Alive" \/ ~ On

\* Quitting ends: both halves of the shutdown come together.
QuitEnds == mode = "quitting" ~> ~ On

\* Health checks restart what the monitors gave up: "kicks off a Connect only
\* if the background monitor has given up".
GivenUpIsRetried ==
  \A k \in Key :
    k \in Active /\ status[k] = "None" ~>
      k \notin Active \/ status[k] # "None" \/ InFlight(k) \/ ended

==============================================================================
