---------------------------- MODULE TunnelUiProofs ----------------------------
(***************************************************************************)
(* Proofs about TunnelUi, for every set of keys and of goroutines and every *)
(* bound on SQL clients.  Of the event loop as it is: its state stays in   *)
(* its bounds, the end waits for DisconnectAll, and a pending launch waits *)
(* no longer than its Connect, but for the case that LaunchIsServed names. *)
(* Of the loop in the stable conditions of StableSpec: an entry at rest    *)
(* hides no tunnel.                                                        *)
(***************************************************************************)
EXTENDS TunnelUi, TLAPS

\* A goroutine has a key while it has a job, a Connect or a Disconnect is called
\* only for the job, and gets the answers of its kind.
JobShape ==
  \A p \in Command :
    /\ job[p] = "none" <=> target[p] = None
    /\ job[p] = "none" => call[p] = "idle"
    /\ job[p] = "connect" => call[p] \in {"idle", "connecting", "connected", "failed"}
    /\ job[p] = "disconnect" => call[p] \in {"idle", "disconnected"}
    /\ call[p] = "connecting" => arg[p] = target[p]

\* Clients asked for, running, or ended and not yet checked after.
ClientsFit ==
  /\ asked + failures + checks + (IF running THEN 1 ELSE 0)
       + (IF launch = None THEN 0 ELSE 1) <= 1 + MaxClients
  /\ launch # None => HasClient

\* shutdownDoneMsg comes after DisconnectAll.
ClosedIsEnded == dissolve \in {"closed", "seen"} => ended

UiInv == UiTypeOK /\ JobShape /\ ClientsFit /\ ClosedIsEnded

\* Where no entry vanishes, commands are about entries that are there.
EntriesStay == \A p \in Command : job[p] # "none" => shown[target[p]] # "absent"

\* Until a command is given while another is under way for the same key: there is
\* one goroutine for a key; a Connect finds no tunnel and is shown until it is
\* answered; a Disconnect is shown at once and leaves no tunnel; without either,
\* an entry that shows no tunnel has none.
OneAtATime ==
  ~ rushed => \A p, q \in Command : job[p] # "none" /\ target[p] = target[q] => p = q
ConnectIsShown ==
  ~ rushed => \A p \in Command : job[p] = "connect" =>
    /\ shown[target[p]] = "Connecting"
    /\ call[p] # "connected" => status[target[p]] = "None"
DisconnectIsShown ==
  ~ rushed => \A p \in Command : job[p] = "disconnect" =>
    /\ shown[target[p]] = "Ready"
    /\ call[p] = "disconnected" => status[target[p]] = "None"
NoneIsHidden ==
  ~ rushed => \A k \in Key :
    ~ InFlight(k) /\ shown[k] \in {"Ready", "Error", "absent"} => status[k] = "None"

Steady ==
  /\ EntriesStay /\ OneAtATime /\ ConnectIsShown /\ DisconnectIsShown /\ NoneIsHidden

StableInv == UiInv /\ Steady

------------------------------------------------------------------------------
(* Goroutines *)

\* Spawned starts one goroutine for each key of K, and touches no other.
LEMMA SpawnedOnes ==
  ASSUME UiTypeOK, JobShape, NEW K \in SUBSET Key, NEW w \in {"connect", "disconnect"}, Spawned(K, w)
  PROVE  /\ job' \in [Command -> {"none", "connect", "disconnect"}]
         /\ target' \in [Command -> Key \cup {None}]
         /\ \A p \in Command :
              \/ job'[p] = job[p] /\ target'[p] = target[p]
              \/ job[p] = "none" /\ job'[p] = w /\ target'[p] \in K
         /\ \A k \in K : \E p \in Command : job[p] = "none" /\ job'[p] = w /\ target'[p] = k
         /\ \A p, q \in Command :
              job[p] = "none" /\ job[q] = "none" /\ job'[p] # "none" /\ target'[p] = target'[q] => p = q
<1> DEFINE Idle == {p \in Command : job[p] = "none"}
<1>1. PICK f \in [K -> Idle] :
        /\ \A k, l \in K : f[k] = f[l] => k = l
        /\ job' = [p \in Command |-> IF p \in Range(f) THEN w ELSE job[p]]
        /\ target' = [p \in Command |-> IF p \in Range(f) THEN CHOOSE k \in K : f[k] = p ELSE target[p]]
  BY DEF Spawned, Injection, IsInjective
<1>2. Range(f) = {f[k] : k \in K}
  BY <1>1 DEF Range
<1>3. \A k \in K : /\ f[k] \in Command /\ job[f[k]] = "none" /\ f[k] \in Range(f)
                   /\ (CHOOSE l \in K : f[l] = f[k]) = k
  BY <1>1, <1>2
<1>4. \A p \in Range(f) : \E k \in K : p = f[k]
  BY <1>2
<1>5. \A k \in K : job'[f[k]] = w /\ target'[f[k]] = k
  BY <1>1, <1>3
<1>6. \A p \in Command \ Range(f) : job'[p] = job[p] /\ target'[p] = target[p]
  BY <1>1
<1>7. \A p \in Command : \/ p \notin Range(f) /\ job'[p] = job[p] /\ target'[p] = target[p]
                         \/ \E k \in K : /\ p = f[k] /\ job[p] = "none" /\ job'[p] = w
                                         /\ target'[p] = k
  BY <1>3, <1>4, <1>5, <1>6
<1>8. /\ job' \in [Command -> {"none", "connect", "disconnect"}]
      /\ target' \in [Command -> Key \cup {None}]
  <2>1. \A p \in Command : job'[p] \in {"none", "connect", "disconnect"} /\ target'[p] \in Key \cup {None}
    BY <1>7 DEF UiTypeOK
  <2> QED BY <1>1, <2>1
<1>9. ASSUME NEW p \in Command, NEW q \in Command,
             job[p] = "none", job[q] = "none", job'[p] # "none", target'[p] = target'[q]
      PROVE  p = q
  <2>1. PICK k \in K : p = f[k] /\ target'[p] = k
    BY <1>7, <1>9
  <2>2. target'[q] # None
    BY <1>9, <2>1, AutoKeys
  <2> QED BY <1>7, <1>9, <2>1, <2>2 DEF JobShape
<1> QED BY <1>3, <1>5, <1>7, <1>8, <1>9

\* A new goroutine has not called the manager yet.
LEMMA SpawnedKeeps ==
  ASSUME UiTypeOK, JobShape, NEW K \in SUBSET Key, NEW w \in {"connect", "disconnect"}, Spawned(K, w),
         UNCHANGED serviceVars
  PROVE  /\ job' \in [Command -> {"none", "connect", "disconnect"}]
         /\ target' \in [Command -> Key \cup {None}]
         /\ JobShape'
<1>1. UNCHANGED <<call, arg>>
  BY DEF serviceVars
<1>2. \A p \in Command :
        \/ job'[p] = job[p] /\ target'[p] = target[p]
        \/ job[p] = "none" /\ job'[p] = w /\ target'[p] \in Key
  BY SpawnedOnes
<1>3. JobShape'
  BY <1>1, <1>2, AutoKeys DEF JobShape
<1> QED BY <1>3, SpawnedOnes

------------------------------------------------------------------------------
(* The loop as it is *)

\* Sums of what the bound on clients bounds.
LEMMA Bounded ==
  ASSUME NEW a \in Nat, NEW b \in Nat, NEW c \in Nat, NEW d \in Nat, NEW e \in Nat, NEW M \in Nat,
         a + b + c + d + e <= 1 + M, c >= 1
  PROVE  a \in 0 .. M /\ b \in 0 .. M /\ c \in 1 .. 1 + M
OBVIOUS

LEMMA Lessened ==
  ASSUME NEW a \in Nat, NEW b \in Nat, NEW c \in Nat, NEW d \in Nat, NEW e \in Nat, NEW n \in Nat,
         NEW M \in Nat, n <= b, a + b + c + d + e <= 1 + M
  PROVE  a + n + c + d + e <= 1 + M
OBVIOUS

LEMMA UiStart == UiInit => UiInv
<1> SUFFICES ASSUME UiInit PROVE UiInv
  OBVIOUS
<1>1. ServiceTypeOK /\ JobShape /\ ClosedIsEnded
  BY DEF UiInit, ServiceInit, ServiceTypeOK, JobShape, ClosedIsEnded
<1>2. /\ shown \in [Key -> Shows] /\ job \in [Command -> {"none", "connect", "disconnect"}]
      /\ target \in [Command -> Key \cup {None}] /\ launch \in Key \cup {None}
  BY DEF UiInit, Shows
<1>4. asked \in 0 .. MaxClients /\ failures \in 0 .. MaxClients /\ checks \in 1 .. 1 + MaxClients
  <2>1. asked = 0 /\ failures = 0 /\ checks = 1
    BY DEF UiInit
  <2> QED BY <2>1, ClientsBounded
<1>5. UiTypeOK
  BY <1>1, <1>2, <1>4 DEF UiInit, UiTypeOK
<1>3. ClientsFit
  BY ClientsBounded DEF UiInit, ClientsFit
<1> QED BY <1>1, <1>3, <1>5 DEF UiInv

\* The manager.
LEMMA ServiceKeeps ==
  ASSUME UiInv, Serve \/ \E p \in Command : Start(p), rushed' \in BOOLEAN
  PROVE  UiInv'
<1>0. UiTypeOK /\ ServiceTypeOK /\ JobShape
  BY DEF UiInv, UiTypeOK
<1>1. UNCHANGED <<jobVars, entryVars, clientVars, exitVars>> /\ UNCHANGED ended
  BY DEF Serve, Start, Establish, Refuse, Die, Revive, GiveUp, Turn, Connect, Disconnect
<1>2. ServiceTypeOK' /\ JobShape'
  <2>1. ASSUME NEW p \in Command, Start(p) PROVE ServiceTypeOK' /\ JobShape'
    <3>1. target[p] \in Key /\ call[p] = "idle"
      BY <1>0, <2>1 DEF Start, JobShape, UiTypeOK
    <3>2. CASE job[p] = "connect" /\ Connect(p, target[p])
      BY <1>0, <1>1, <3>1, <3>2 DEF Connect, Answer, ServiceTypeOK, JobShape, jobVars
    <3>3. CASE job[p] = "disconnect" /\ Disconnect(p, target[p])
      BY <1>0, <1>1, <3>1, <3>3 DEF Disconnect, Answer, ServiceTypeOK, JobShape, jobVars
    <3> QED BY <2>1, <3>2, <3>3 DEF Start
  <2>2. ASSUME NEW p \in Command, Establish(p) \/ Refuse(p) PROVE ServiceTypeOK' /\ JobShape'
    <3>1. /\ call[p] = "connecting" /\ job[p] = "connect"
          /\ status' \in [Key -> {"None", "Alive", "Reconnecting"}]
          /\ \E a \in {"connected", "failed"} : Answer(p, a)
      BY <1>0, <2>2 DEF Establish, Refuse, ServiceTypeOK, JobShape, UiTypeOK
    <3> QED BY <1>0, <1>1, <3>1 DEF Answer, ServiceTypeOK, JobShape, jobVars
  <2>3. ASSUME NEW k \in Key, Die(k) \/ Revive(k) \/ GiveUp(k) PROVE ServiceTypeOK' /\ JobShape'
    BY <1>0, <1>1, <2>3 DEF Die, Revive, GiveUp, Turn, ServiceTypeOK, JobShape, jobVars
  <2> QED BY <2>1, <2>2, <2>3 DEF Serve
<1>3. UiTypeOK' /\ ClientsFit' /\ ClosedIsEnded'
  BY <1>0, <1>1, <1>2 DEF UiInv, UiTypeOK, ClientsFit, ClosedIsEnded, jobVars, entryVars, clientVars, exitVars
<1> QED BY <1>2, <1>3 DEF UiInv

\* Answers.  A client that is asked for takes the place of the pending launch.
LEMMA AnswerKeeps ==
  ASSUME UiInv, NEW p \in Command, Answered(p), rushed' \in BOOLEAN
  PROVE  UiInv'
<1>0. UiTypeOK /\ ServiceTypeOK /\ JobShape /\ ClientsFit
  BY DEF UiInv, UiTypeOK
<1>1. /\ Deliver(p) /\ UNCHANGED exitVars
      /\ job' = [job EXCEPT ![p] = "none"] /\ target' = [target EXCEPT ![p] = None]
      /\ Connected(target[p]) \/ Failed(target[p]) \/ Disconnected(target[p])
  BY DEF Answered
<1>2. ServiceTypeOK' /\ UNCHANGED ended
  BY <1>0, <1>1 DEF Deliver, Answer, ServiceTypeOK
<1>3. JobShape'
  BY <1>0, <1>1, AutoKeys DEF Deliver, Answer, ServiceTypeOK, JobShape, UiTypeOK
<1>4. shown' \in [Key -> Shows]
  BY <1>0, <1>1 DEF Connected, Failed, Disconnected, Show, UiTypeOK, Shows
<1>5. /\ launch' \in Key \cup {None} /\ UNCHANGED <<running, failures, checks>>
      /\ \/ UNCHANGED asked /\ launch' \in {launch, None}
         \/ asked' = asked + 1 /\ launch # None /\ launch' = None
  BY <1>0, <1>1, AutoKeys DEF Connected, Failed, Disconnected, Ask, clientVars, UiTypeOK, JobShape, Deliver
<1>6. ClientsFit' /\ asked' \in 0 .. MaxClients
  BY <1>0, <1>5, ClientsBounded DEF ClientsFit, UiTypeOK
<1>7. UiTypeOK'
  BY <1>0, <1>1, <1>2, <1>4, <1>5, <1>6 DEF UiTypeOK, exitVars
<1> QED BY <1>1, <1>2, <1>3, <1>6, <1>7 DEF UiInv, ClosedIsEnded, exitVars

\* What changes entries and starts goroutines, and leaves the rest alone.
LEMMA EntriesKeep ==
  ASSUME UiInv, NEW K \in SUBSET Key, NEW w \in {"connect", "disconnect"}, Spawned(K, w),
         shown' \in [Key -> Shows], launch' \in Key \cup {None},
         rushed' \in BOOLEAN, ClientsFit',
         failures' \in 0 .. failures,
         UNCHANGED <<serviceVars, asked, running, checks, exitVars>>
  PROVE  UiInv'
<1>0. UiTypeOK /\ JobShape
  BY DEF UiInv
<1>1. /\ job' \in [Command -> {"none", "connect", "disconnect"}]
      /\ target' \in [Command -> Key \cup {None}]
      /\ JobShape'
  BY <1>0, SpawnedKeeps
<1>2. UiTypeOK'
  BY <1>0, <1>1, ClientsBounded DEF UiTypeOK, ServiceTypeOK, serviceVars, exitVars
<1> QED BY <1>1, <1>2 DEF UiInv, ClosedIsEnded, serviceVars, exitVars

LEMMA ChecksKeep ==
  ASSUME UiInv, Checks, rushed' \in BOOLEAN
  PROVE  UiInv'
<1>0. UiTypeOK /\ ClientsFit
  BY DEF UiInv
<1>1. /\ shown' = [k \in Key |-> Checked(k)]
      /\ Spawned({k \in Key : shown[k] = "Connected" /\ status[k] = "None"}, "connect")
      /\ failures' \in 0 .. failures
      /\ UNCHANGED <<serviceVars, launch, asked, running, checks, exitVars>>
  BY <1>0 DEF Checks, HealthTick, ClientFailed, CheckTunnelHealth, clientVars, UiTypeOK
<1>2. shown' \in [Key -> Shows] /\ launch' \in Key \cup {None}
  BY <1>0, <1>1 DEF Checked, UiTypeOK, Shows
<1>3. ClientsFit'
  <2>1. /\ asked \in Nat /\ failures \in Nat /\ checks \in Nat /\ failures' \in Nat
        /\ failures' <= failures /\ MaxClients \in Nat
    BY <1>0, <1>1, ClientsBounded DEF UiTypeOK
  <2>2. /\ (IF running THEN 1 ELSE 0) \in Nat
        /\ (IF launch = None THEN 0 ELSE 1) \in Nat
    OBVIOUS
  <2> DEFINE run == IF running THEN 1 ELSE 0
             wait == IF launch = None THEN 0 ELSE 1
  <2>3. asked + failures + checks + run + wait <= 1 + MaxClients
    BY <1>0 DEF ClientsFit
  <2>4. run \in Nat /\ wait \in Nat
    BY <2>2
  <2>5. asked + failures' + checks + run + wait <= 1 + MaxClients
    <3> HIDE DEF run, wait
    <3> QED BY <2>1, <2>3, <2>4, Lessened
  <2> QED BY <1>0, <1>1, <2>5 DEF ClientsFit
<1>4. {k \in Key : shown[k] = "Connected" /\ status[k] = "None"} \in SUBSET Key
  OBVIOUS
<1> HIDE DEF Checks
<1> QED BY <1>1, <1>2, <1>3, <1>4, EntriesKeep

LEMMA RefreshKeeps ==
  ASSUME UiInv, NEW S \in SUBSET Key, Refreshed(S), rushed' \in BOOLEAN
  PROVE  UiInv'
<1>0. UiTypeOK /\ ClientsFit
  BY DEF UiInv
<1>1. PICK K \in SUBSET Key :
        /\ shown' = [k \in Key |-> IF k \notin S THEN "absent"
                                   ELSE IF k \in K THEN "Connecting"
                                   ELSE IF shown[k] = "absent" THEN "Ready" ELSE shown[k]]
        /\ Spawned(K, "connect")
        /\ UNCHANGED <<serviceVars, launch, clientVars, exitVars>>
  BY AutoKeys DEF Refreshed
<1>2. shown' \in [Key -> Shows] /\ launch' \in Key \cup {None} /\ failures' \in 0 .. failures
  BY <1>0, <1>1 DEF UiTypeOK, Shows, clientVars
<1>3. ClientsFit'
  BY <1>0, <1>1 DEF ClientsFit, clientVars
<1> QED BY <1>1, <1>2, <1>3, EntriesKeep DEF clientVars

LEMMA UserKeeps == ASSUME UiInv, UserKeys PROVE UiInv'
<1>0. UiTypeOK /\ ClientsFit /\ JobShape
  BY DEF UiInv
<1>1. PICK k \in Key : (Space(k) \/ Enter(k)) /\ rushed' = (rushed \/ InFlight(k))
  BY DEF UserKeys
<1>2. rushed' \in BOOLEAN
  BY <1>0, <1>1 DEF UiTypeOK, InFlight
<1>3. CASE Space(k)
  <2>1. /\ \E w \in {"connect", "disconnect"} : Spawned({k}, w)
        /\ shown' \in [Key -> Shows]
        /\ UNCHANGED <<serviceVars, launch, clientVars, exitVars>>
    BY <1>0, <1>3 DEF Space, ConnectEntry, UiTypeOK, Shows
  <2>2. ClientsFit' /\ failures' \in 0 .. failures /\ launch' \in Key \cup {None}
    BY <1>0, <2>1 DEF ClientsFit, clientVars, UiTypeOK
  <2> QED BY <1>2, <2>1, <2>2, EntriesKeep DEF clientVars
<1>4. CASE Enter(k)
  <2>1. CASE ConnectEntry(k) /\ launch' = IF HasClient THEN k ELSE launch
    <3>1. /\ Spawned({k}, "connect") /\ shown' \in [Key -> Shows]
          /\ launch' \in Key \cup {None} /\ UNCHANGED <<serviceVars, clientVars, exitVars>>
      BY <1>0, <1>4, <2>1 DEF Enter, ConnectEntry, UiTypeOK, Shows, Ask, clientVars, entryVars
    <3>2. HasClient => ClientsLeft
      BY <1>4 DEF Enter
    <3>3. ClientsFit' /\ failures' \in 0 .. failures
      BY <1>0, <2>1, <3>1, <3>2, AutoKeys, ClientsBounded DEF ClientsFit, ClientsLeft, clientVars, UiTypeOK
    <3> QED BY <1>2, <3>1, <3>3, EntriesKeep DEF clientVars
  <2>2. CASE HasClient /\ Ask /\ UNCHANGED <<entryVars, jobVars>>
    <3>1. ClientsLeft /\ UNCHANGED <<serviceVars, exitVars>>
      BY <1>4, <2>2 DEF Enter
    <3>2. ClientsFit' /\ asked' \in 0 .. MaxClients
      BY <1>0, <2>2, <3>1, ClientsBounded DEF ClientsFit, ClientsLeft, Ask, entryVars, UiTypeOK
    <3>3. UiTypeOK'
      BY <1>0, <1>2, <2>2, <3>1, <3>2
         DEF UiTypeOK, ServiceTypeOK, Ask, entryVars, jobVars, serviceVars, exitVars
    <3> QED BY <1>0, <2>2, <3>1, <3>2, <3>3
            DEF UiInv, JobShape, ClosedIsEnded, jobVars, serviceVars, exitVars
  <2> QED BY <1>4, <2>1, <2>2 DEF Enter
<1> QED BY <1>1, <1>3, <1>4

\* Clients, and the end.
LEMMA EndKeeps ==
  ASSUME UiInv, rushed' \in BOOLEAN,
         \/ ClientStarts \/ ClientEnds \/ ShutDown \/ ShutDownSeen
         \/ FadeTick \/ QuitMsg \/ Leave
  PROVE  UiInv'
<1>0. UiTypeOK /\ ServiceTypeOK /\ ClientsFit /\ JobShape /\ ClosedIsEnded
  BY DEF UiInv, UiTypeOK
<1>1. CASE ClientStarts \/ ClientEnds
  <2>1. UNCHANGED <<serviceVars, jobVars, entryVars, exitVars>>
    BY <1>1 DEF ClientStarts, ClientEnds
  <2>2. /\ asked' \in Nat /\ failures' \in Nat /\ checks' \in Nat \ {0} /\ running' \in BOOLEAN
        /\ asked' + failures' + checks' + (IF running' THEN 1 ELSE 0)
             = asked + failures + checks + (IF running THEN 1 ELSE 0)
    <3>1. asked \in Nat /\ failures \in Nat /\ checks \in Nat \ {0}
      BY <1>0, ClientsBounded DEF UiTypeOK
    <3>2. CASE ClientStarts
      BY <3>1, <3>2 DEF ClientStarts, Awake
    <3>3. CASE ClientEnds
      <4>0. running' \in BOOLEAN
        BY <3>3, Zenon DEF ClientEnds
      <4>1. (IF running THEN 1 ELSE 0) = 1 /\ (IF running' THEN 1 ELSE 0) = 0
        BY <3>3 DEF ClientEnds
      <4>2. /\ asked' = asked /\ running' = FALSE
            /\ \/ failures' = failures + 1 /\ checks' = checks
               \/ failures' = failures /\ checks' = checks + 1
        BY <3>3 DEF ClientEnds
      <4>3. CASE failures' = failures + 1 /\ checks' = checks
        <5>1. asked' \in Nat /\ failures' \in Nat /\ checks' \in Nat \ {0}
          BY <3>1, <4>2, <4>3
        <5>2. asked' + failures' + checks' + 0 = asked + failures + checks + 1
          BY <3>1, <4>2, <4>3
        <5> QED BY <4>0, <4>1, <5>1, <5>2
      <4>4. CASE failures' = failures /\ checks' = checks + 1
        <5>1. asked' \in Nat /\ failures' \in Nat /\ checks' \in Nat \ {0}
          BY <3>1, <4>2, <4>4
        <5>2. asked' + failures' + checks' + 0 = asked + failures + checks + 1
          BY <3>1, <4>2, <4>4
        <5> QED BY <4>0, <4>1, <5>1, <5>2
      <4> QED BY <4>2, <4>3, <4>4
    <3> QED BY <1>1, <3>2, <3>3
  <2>3. ClientsFit' /\ asked' \in 0 .. MaxClients /\ failures' \in 0 .. MaxClients /\ checks' \in 1 .. 1 + MaxClients
    <3> DEFINE run == IF running THEN 1 ELSE 0
               runs == IF running' THEN 1 ELSE 0
               wait == IF launch = None THEN 0 ELSE 1
    <3>1. asked \in Nat /\ failures \in Nat /\ checks \in Nat /\ MaxClients \in Nat
      BY <1>0, ClientsBounded DEF UiTypeOK
    <3>2. run \in Nat /\ runs \in Nat /\ wait \in Nat
      OBVIOUS
    <3>3. asked + failures + checks + run + wait <= 1 + MaxClients /\ (launch # None => HasClient)
      BY <1>0 DEF ClientsFit
    <3>4. asked' + failures' + checks' + runs = asked + failures + checks + run
      BY <2>2
    <3>5. launch' = launch
      BY <2>1 DEF entryVars
    <3> HIDE DEF run, runs, wait
    <3>0. asked' \in Nat /\ failures' \in Nat /\ checks' \in Nat /\ checks' >= 1
      BY <2>2
    <3>6. asked' + failures' + checks' + runs + wait <= 1 + MaxClients
      BY <3>0, <3>1, <3>2, <3>3, <3>4
    <3>7. asked' \in 0 .. MaxClients /\ failures' \in 0 .. MaxClients /\ checks' \in 1 .. 1 + MaxClients
      <4> HIDE <3>3, <3>4, <3>5
      <4> QED BY <3>0, <3>1, <3>2, <3>6, Bounded
    <3> QED BY <3>3, <3>5, <3>6, <3>7 DEF ClientsFit, runs, wait
  <2>4. UiTypeOK'
    BY <1>0, <2>1, <2>2, <2>3 DEF UiTypeOK, ServiceTypeOK, serviceVars, jobVars, entryVars, exitVars
  <2> QED BY <1>0, <2>1, <2>3, <2>4 DEF UiInv, JobShape, ClosedIsEnded, serviceVars, jobVars, exitVars
<1>2. CASE ShutDown \/ ShutDownSeen \/ FadeTick \/ QuitMsg \/ Leave
  <2>1. UNCHANGED <<jobVars, entryVars, clientVars>>
    BY <1>2 DEF ShutDown, ShutDownSeen, FadeTick, QuitMsg, Leave, Esc, CtrlC, Confirm
  <2>2. UNCHANGED <<call, arg>> /\ ServiceTypeOK' /\ (ended => ended')
    <3>1. UNCHANGED serviceVars \/ End
      BY <1>2 DEF ShutDown, ShutDownSeen, FadeTick, QuitMsg, Leave, Esc, CtrlC, Confirm, DisconnectAll, StartDissolve
    <3> QED BY <1>0, <3>1 DEF End, serviceVars, ServiceTypeOK
  <2>3. /\ mode' \in {"normal", "confirm", "quitting", "gone", "panic"}
        /\ quit' \in BOOLEAN /\ faded' \in BOOLEAN
        /\ dissolve' \in {"no", "closing", "closed", "seen"}
    BY <1>0, <1>2 DEF UiTypeOK, ShutDown, ShutDownSeen, FadeTick, QuitMsg, Leave, Esc, CtrlC, Confirm,
         DisconnectAll, StartDissolve
  <2>4. ClosedIsEnded'
    <3>1. dissolve' = "closed" => ended' \/ dissolve = "closed"
      BY <1>0, <1>2 DEF ShutDown, ShutDownSeen, FadeTick, QuitMsg, Leave, Esc, CtrlC, Confirm,
           DisconnectAll, StartDissolve, End, serviceVars
    <3>2. dissolve' = "seen" => dissolve \in {"closed", "seen"}
      BY <1>2 DEF ShutDown, ShutDownSeen, FadeTick, QuitMsg, Leave, Esc, CtrlC, Confirm, StartDissolve
    <3> QED BY <1>0, <2>2, <3>1, <3>2 DEF ClosedIsEnded
  <2>5. UiTypeOK' /\ ClientsFit' /\ JobShape'
    BY <1>0, <2>1, <2>2, <2>3 DEF UiTypeOK, ClientsFit, JobShape, jobVars, entryVars, clientVars
  <2> QED BY <2>4, <2>5 DEF UiInv
<1> QED BY <1>1, <1>2

LEMMA UiStep == UiInv /\ [UiNext]_uiVars => UiInv'
<1> SUFFICES ASSUME UiInv, [UiNext]_uiVars PROVE UiInv'
  OBVIOUS
<1>0. rushed \in BOOLEAN
  BY DEF UiInv, UiTypeOK
<1>1. CASE UserKeys
  BY <1>1, UserKeeps
<1>2. CASE Background /\ UNCHANGED rushed
  <2>1. rushed' \in BOOLEAN
    BY <1>0, <1>2
  <2> QED BY <1>2, <2>1, ServiceKeeps, AnswerKeeps, EndKeeps DEF Background
<1>3. CASE Checks /\ UNCHANGED rushed
  BY <1>0, <1>3, ChecksKeep
<1>4. CASE Leave /\ UNCHANGED rushed
  BY <1>0, <1>4, EndKeeps
<1>5. CASE (\E S \in SUBSET Key : Refreshed(S)) /\ UNCHANGED rushed
  BY <1>0, <1>5, RefreshKeeps
<1>6. CASE UNCHANGED uiVars
  BY <1>6 DEF UiInv, UiTypeOK, ServiceTypeOK, JobShape, ClientsFit, ClosedIsEnded,
       uiVars, loopVars, serviceVars, entryVars, jobVars, clientVars, exitVars
<1> QED BY <1>1, <1>2, <1>3, <1>4, <1>5, <1>6 DEF UiNext

LEMMA UiSafe == UiSpec => []UiInv
BY UiStart, UiStep, PTL DEF UiSpec

\* The loop never has more clients, failures and checks on their way than the user
\* asked for: each client that ends is followed by one message.
THEOREM UiTyped == UiSpec => []UiTypeOK
<1>1. UiInv => UiTypeOK
  BY DEF UiInv
<1> QED BY <1>1, UiSafe, PTL

\* The animation of startDissolve ends the program only after the DisconnectAll of
\* its goroutine, whichever of shutdownDoneMsg and the last dissolveTickMsg is first.
THEOREM GraceIsKept == UiSpec => GraceBeforeQuit
<1> DEFINE Grace == mode = "quitting" /\ ~ quit /\ quit' /\ ~ CtrlC => ended
<1>1. UiInv /\ [UiNext]_uiVars => [Grace]_uiVars
  <2> SUFFICES ASSUME UiInv, UiNext, mode = "quitting", ~ quit, quit', ~ CtrlC PROVE ended
    BY DEF Grace
  <2>1. \/ ShutDownSeen \/ FadeTick
    <3>1. CASE UserKeys
      BY <3>1 DEF UserKeys, Space, Enter
    <3>2. CASE Background
      <4>1. CASE \E p \in Command : Start(p) \/ Answered(p)
        BY <4>1 DEF Start, Answered, exitVars
      <4>2. CASE Serve \/ ClientStarts \/ ClientEnds \/ ShutDown \/ QuitMsg
        BY <4>2 DEF Serve, ClientStarts, ClientEnds, ShutDown, QuitMsg, exitVars
      <4> QED BY <3>2, <4>1, <4>2 DEF Background
    <3>3. CASE Checks
      BY <3>3 DEF Checks, HealthTick, ClientFailed, exitVars
    <3>4. CASE Leave
      BY <3>4 DEF Leave, Esc, Confirm, StartDissolve
    <3>5. CASE \E S \in SUBSET Key : Refreshed(S)
      BY <3>5 DEF Refreshed, exitVars
    <3> QED BY <3>1, <3>2, <3>3, <3>4, <3>5 DEF UiNext
  <2>2. dissolve \in {"closed", "seen"}
    BY <2>1 DEF ShutDownSeen, FadeTick
  <2> QED BY <2>2 DEF UiInv, ClosedIsEnded
<1> QED BY <1>1, UiSafe, PTL DEF UiSpec, GraceBeforeQuit

\* The answer to its Connect ends the wait of a pending launch, in whatever order the
\* messages, scans, checks and commands come, so that no later connection of the key
\* opens an SQL client unasked.  The one exception is part of the statement: a Connect
\* that succeeds for an entry that a scan has dropped (ui.go:260-264) leaves
\* pendingLaunch set with nothing that would clear it.
THEOREM LaunchServed == UiSpec => LaunchIsServed
<1> DEFINE Dropped == /\ shown[launch] = "absent"
                      /\ \E p \in Command : Answered(p) /\ call[p] = "connected" /\ target[p] = launch
<1>1. UiInv /\ [UiNext]_uiVars => [Awaited /\ ~ Awaited' => Dropped]_uiVars
  <2> SUFFICES ASSUME UiInv, UiNext, Awaited, ~ Awaited' PROVE Dropped
    OBVIOUS
  <2>0. UiTypeOK /\ ServiceTypeOK /\ JobShape /\ ClientsFit
    BY DEF UiInv, UiTypeOK
  <2>1. ~ UNCHANGED <<job, target, launch>>
    BY DEF Awaited
  <2>2. ASSUME NEW K \in SUBSET Key, NEW w \in {"connect", "disconnect"}, Spawned(K, w)
        PROVE  launch' # launch /\ ~ (w = "connect" /\ launch' \in K)
    <3>1. /\ \A p \in Command : job[p] # "none" => job'[p] = job[p] /\ target'[p] = target[p]
          /\ \A k \in K : \E p \in Command : job'[p] = w /\ target'[p] = k
      BY <2>0, <2>2, SpawnedOnes
    <3> QED BY <3>1 DEF Awaited
  <2>3. ~ UserKeys
    <3> SUFFICES ASSUME NEW k \in Key, Space(k) \/ Enter(k) PROVE FALSE
      BY DEF UserKeys
    <3>1. {k} \in SUBSET Key
      OBVIOUS
    <3>2. CASE Space(k)
      BY <2>2, <3>1, <3>2 DEF Space, ConnectEntry
    <3>3. CASE Enter(k)
      BY <2>1, <2>2, <3>1, <3>3 DEF Enter, ConnectEntry, entryVars, jobVars
    <3> QED BY <3>2, <3>3
  <2>4. ~ Checks
    <3> SUFFICES ASSUME Checks PROVE FALSE
      OBVIOUS
    <3>1. /\ Spawned({k \in Key : shown[k] = "Connected" /\ status[k] = "None"}, "connect")
          /\ launch' = launch
      BY DEF Checks, HealthTick, ClientFailed, CheckTunnelHealth, clientVars
    <3>2. {k \in Key : shown[k] = "Connected" /\ status[k] = "None"} \in SUBSET Key
      OBVIOUS
    <3> QED BY <2>2, <3>1, <3>2
  <2>5. ASSUME NEW S \in SUBSET Key, Refreshed(S) PROVE FALSE
    <3>1. PICK K \in SUBSET Key : Spawned(K, "connect")
      BY <2>5, AutoKeys DEF Refreshed
    <3>2. launch' = launch
      BY <2>5 DEF Refreshed
    <3> QED BY <2>2, <3>1, <3>2
  <2>6. ~ Leave
    BY <2>1 DEF Leave, Esc, CtrlC, Confirm, jobVars, entryVars
  <2>7. \A p \in Command : ~ Start(p)
    BY <2>1 DEF Start, jobVars, entryVars
  <2>8. ~ (Serve \/ ClientStarts \/ ClientEnds \/ ShutDown \/ ShutDownSeen \/ FadeTick \/ QuitMsg)
    BY <2>1 DEF Serve, ClientStarts, ClientEnds, ShutDown, ShutDownSeen, FadeTick, QuitMsg, jobVars, entryVars
  <2>9. PICK p \in Command : Answered(p)
    BY <2>3, <2>4, <2>5, <2>6, <2>7, <2>8 DEF UiNext, Background
  <2>10. launch # None /\ launch' = launch
    BY <2>9 DEF Awaited, Answered, Connected, Failed, Disconnected
  <2>11. PICK q \in Command : job[q] = "connect" /\ target[q] = launch
    BY <2>10 DEF Awaited
  <2>12. q = p
    <3>1. \A o \in Command \ {p} : job'[o] = job[o] /\ target'[o] = target[o]
      BY <2>0, <2>9 DEF Answered, UiTypeOK
    <3> QED BY <2>10, <2>11, <3>1 DEF Awaited
  <2>13. HasClient /\ call[p] \in {"connected", "failed"}
    BY <2>0, <2>9, <2>10, <2>11, <2>12 DEF ClientsFit, JobShape, Answered
  <2>14. call[p] = "connected" /\ Connected(launch)
    BY <2>9, <2>10, <2>11, <2>12, <2>13 DEF Answered, Failed
  <2>15. shown[launch] = "absent"
    BY <2>10, <2>13, <2>14 DEF Connected
  <2> QED BY <2>9, <2>11, <2>12, <2>14, <2>15
<1> QED BY <1>1, UiSafe, PTL DEF UiSpec, LaunchIsServed

\* The event loop uses the manager as TunnelService allows: it calls Connect and
\* Disconnect in goroutines, takes each answer once, and calls DisconnectAll; a
\* message, a key or a timer changes nothing else of what the manager has.
THEOREM UiUsesService == UiSpec => ServiceSpec
<1>1. UiInv /\ [UiNext]_uiVars => [ServiceNext]_serviceVars
  <2> SUFFICES ASSUME UiInv, UiNext PROVE ServiceNext \/ UNCHANGED serviceVars
    BY DEF uiVars, loopVars, serviceVars
  <2>1. ASSUME NEW p \in Command, Start(p) PROVE ServiceNext
    <3>1. target[p] \in Key
      BY <2>1 DEF UiInv, UiTypeOK, JobShape, Start
    <3> QED BY <2>1, <3>1 DEF Start, ServiceNext
  <2>2. ASSUME NEW p \in Command, Answered(p) PROVE ServiceNext
    BY <2>2 DEF Answered, ServiceNext
  <2>3. Serve => ServiceNext
    BY DEF Serve, ServiceNext
  <2>4. DisconnectAll => ServiceNext \/ UNCHANGED serviceVars
    BY DEF DisconnectAll, ServiceNext
  <2>5. Background => ServiceNext \/ UNCHANGED serviceVars
    BY <2>1, <2>2, <2>3, <2>4
       DEF Background, ClientStarts, ClientEnds, ShutDown, ShutDownSeen, FadeTick, QuitMsg
  <2>6. Leave => ServiceNext \/ UNCHANGED serviceVars
    BY <2>4 DEF Leave, Esc, CtrlC, Confirm, StartDissolve
  <2>7. UserKeys \/ Checks \/ (\E S \in SUBSET Key : Refreshed(S)) => UNCHANGED serviceVars
    BY DEF UserKeys, Space, Enter, Checks, HealthTick, ClientFailed, Refreshed
  <2> QED BY <2>5, <2>6, <2>7 DEF UiNext
<1>2. UiInit => ServiceInit
  BY DEF UiInit
<1> QED BY <1>1, <1>2, UiSafe, PTL DEF UiSpec, ServiceSpec

------------------------------------------------------------------------------
(* The loop in stable conditions *)

LEMMA StableStart == UiInit => StableInv
<1> SUFFICES ASSUME UiInit PROVE StableInv
  OBVIOUS
<1>1. EntriesStay /\ OneAtATime /\ ConnectIsShown /\ DisconnectIsShown
  BY DEF UiInit, EntriesStay, OneAtATime, ConnectIsShown, DisconnectIsShown
<1>2. NoneIsHidden
  BY DEF UiInit, ServiceInit, NoneIsHidden
<1> QED BY <1>1, <1>2, UiStart DEF StableInv, Steady

\* A goroutine that has a job has a key.
LEMMA TargetIsKey ==
  ASSUME UiInv, NEW p \in Command, job[p] # "none"
  PROVE  target[p] \in Key /\ job[p] \in {"connect", "disconnect"}
BY DEF UiInv, UiTypeOK, JobShape

\* Clients, DisconnectAll, the modes and a client started for a live tunnel are no
\* matter here.
LEMMA QuietSteady ==
  ASSUME StableInv, UNCHANGED <<jobVars, entryVars>>, UNCHANGED serviceVars \/ End,
         rushed => rushed'
  PROVE  Steady'
<1>1. /\ UNCHANGED <<job, target, shown, call>> /\ (~ rushed' => ~ rushed)
      /\ \A k \in Key : status[k] = "None" => status'[k] = "None"
  BY DEF StableInv, End, serviceVars, jobVars, entryVars
<1>2. \A k : InFlight(k)' = InFlight(k)
  BY <1>1 DEF InFlight
<1>3. EntriesStay' /\ OneAtATime'
  BY <1>1 DEF StableInv, Steady, EntriesStay, OneAtATime
<1>4. ConnectIsShown' /\ DisconnectIsShown'
  BY <1>1, TargetIsKey DEF StableInv, Steady, ConnectIsShown, DisconnectIsShown
<1>5. NoneIsHidden'
  BY <1>1, <1>2 DEF StableInv, Steady, NoneIsHidden
<1> QED BY <1>3, <1>4, <1>5 DEF Steady

\* The manager: a Connect makes its own key alive and is then answered; a tunnel
\* that is None stays so without one.
LEMMA ServiceSteady ==
  ASSUME StableInv, Serve \/ \E p \in Command : Start(p), UNCHANGED rushed
  PROVE  Steady'
<1>0. UiInv /\ UiTypeOK /\ ServiceTypeOK /\ JobShape /\ Steady
  BY DEF StableInv, UiInv, UiTypeOK
<1>1. UNCHANGED <<job, target, shown>>
  BY DEF Serve, Start, jobVars, entryVars
<1>2. \A k : InFlight(k)' = InFlight(k)
  BY <1>1 DEF InFlight
<1>3. EntriesStay' /\ OneAtATime'
  BY <1>0, <1>1 DEF Steady, EntriesStay, OneAtATime
<1>4. ASSUME ~ rushed
      PROVE  /\ \A p \in Command : job[p] = "connect" /\ call'[p] # "connected" => status'[target[p]] = "None"
             /\ \A p \in Command : job[p] = "disconnect" /\ call'[p] = "disconnected" => status'[target[p]] = "None"
             /\ \A k \in Key : ~ InFlight(k) /\ status[k] = "None" => status'[k] = "None"
  <2>0. /\ \A p \in Command : job[p] = "connect" /\ call[p] # "connected" => status[target[p]] = "None"
        /\ \A p \in Command : job[p] = "disconnect" /\ call[p] = "disconnected" => status[target[p]] = "None"
        /\ \A p, q \in Command : job[p] # "none" /\ target[p] = target[q] => p = q
    BY <1>0, <1>4 DEF Steady, ConnectIsShown, DisconnectIsShown, OneAtATime
  <2>1. ASSUME NEW p \in Command, Start(p)
        PROVE  /\ \A q \in Command : q # p => call'[q] = call[q]
               /\ \A k \in Key : status[k] = "None" => status'[k] = "None"
               /\ job[p] = "connect" /\ call'[p] # "connected" => status'[target[p]] = "None"
               /\ job[p] = "disconnect" => status'[target[p]] = "None"
    <3>1. target[p] \in Key /\ call[p] = "idle"
      BY <1>0, <2>1 DEF Start, JobShape, UiTypeOK
    <3>2. CASE job[p] = "connect" /\ Connect(p, target[p])
      BY <1>0, <2>0, <3>1, <3>2 DEF Connect, Answer, ServiceTypeOK
    <3>3. CASE job[p] = "disconnect" /\ Disconnect(p, target[p])
      BY <1>0, <3>1, <3>3 DEF Disconnect, Answer, ServiceTypeOK
    <3> QED BY <2>1, <3>2, <3>3 DEF Start
  <2>2. ASSUME NEW p \in Command, Establish(p)
        PROVE  /\ job[p] = "connect" /\ target[p] \in Key /\ call'[p] = "connected"
               /\ \A q \in Command : q # p => call'[q] = call[q]
               /\ \A k \in Key : k # target[p] => status'[k] = status[k]
    BY <1>0, <2>2 DEF Establish, Answer, ServiceTypeOK, JobShape, UiTypeOK
  <2>3. ASSUME NEW p \in Command, Refuse(p)
        PROVE  /\ UNCHANGED status /\ call[p] # "connected" /\ job[p] = "connect" /\ call'[p] = "failed"
               /\ \A q \in Command : q # p => call'[q] = call[q]
    BY <1>0, <2>3 DEF Refuse, Answer, ServiceTypeOK, JobShape, UiTypeOK
  <2>4. ASSUME NEW k \in Key, Die(k) \/ Revive(k) \/ GiveUp(k)
        PROVE  UNCHANGED call /\ \A l \in Key : status[l] = "None" => status'[l] = "None"
    BY <1>0, <2>4 DEF Die, Revive, GiveUp, Turn, ServiceTypeOK
  <2>5. CASE \E p \in Command : Start(p)
    BY <1>0, <2>0, <2>1, <2>5, TargetIsKey
  <2>6. CASE \E p \in Command : Establish(p)
    <3>1. PICK p \in Command : Establish(p)
      BY <2>6
    <3>2. InFlight(target[p])
      BY <2>2, <3>1 DEF InFlight
    <3>3. \A q \in Command : q # p /\ job[q] # "none" => target[q] # target[p]
      BY <2>0
    <3> QED BY <1>0, <2>0, <2>2, <3>1, <3>2, <3>3, TargetIsKey
  <2>7. CASE \E p \in Command : Refuse(p)
    BY <2>0, <2>3, <2>7
  <2>8. CASE \E k \in Key : Die(k) \/ Revive(k) \/ GiveUp(k)
    BY <1>0, <2>0, <2>4, <2>8, TargetIsKey
  <2> QED BY <2>5, <2>6, <2>7, <2>8 DEF Serve
<1>5. ConnectIsShown' /\ DisconnectIsShown' /\ NoneIsHidden'
  BY <1>0, <1>1, <1>2, <1>4 DEF Steady, ConnectIsShown, DisconnectIsShown, NoneIsHidden
<1> QED BY <1>3, <1>5 DEF Steady

\* What an answer shows is so.
LEMMA AnswerSteady ==
  ASSUME StableInv, NEW p \in Command, Answered(p), UNCHANGED rushed
  PROVE  Steady'
<1>0. UiInv /\ UiTypeOK /\ ServiceTypeOK /\ JobShape /\ Steady
  BY DEF StableInv, UiInv, UiTypeOK
<1>1. /\ UNCHANGED status
      /\ call' = [call EXCEPT ![p] = "idle"]
      /\ job' = [job EXCEPT ![p] = "none"] /\ target' = [target EXCEPT ![p] = None]
      /\ \/ call[p] = "connected" /\ Connected(target[p])
         \/ call[p] = "failed" /\ Failed(target[p])
         \/ call[p] = "disconnected" /\ Disconnected(target[p])
  BY DEF Answered, Deliver, Answer
<1>2. job[p] # "none" /\ target[p] \in Key /\ shown[target[p]] # "absent"
  <2>1. job[p] # "none"
    BY <1>0, <1>1 DEF JobShape
  <2> QED BY <1>0, <2>1, TargetIsKey DEF Steady, EntriesStay
<1>3. /\ job'[p] = "none" /\ target'[p] = None
      /\ \A q \in Command \ {p} : job'[q] = job[q] /\ target'[q] = target[q] /\ call'[q] = call[q]
  BY <1>0, <1>1 DEF UiTypeOK, ServiceTypeOK
<1>4. /\ \A k \in Key : k # target[p] => shown'[k] = shown[k]
      /\ call[p] = "connected" => shown'[target[p]] = "Connected"
      /\ call[p] = "failed" => shown'[target[p]] = "Error"
      /\ call[p] = "disconnected" => shown'[target[p]] = "Ready"
      /\ \A k \in Key : shown[k] # "absent" => shown'[k] # "absent"
  BY <1>0, <1>1, <1>2 DEF Connected, Failed, Disconnected, Show, UiTypeOK
<1>5. EntriesStay' /\ OneAtATime'
  <2>1. EntriesStay'
    BY <1>0, <1>3, <1>4, TargetIsKey DEF Steady, EntriesStay
  <2>2. OneAtATime'
    BY <1>0, <1>3, AutoKeys, TargetIsKey DEF Steady, OneAtATime
  <2> QED BY <2>1, <2>2
<1>6. ASSUME ~ rushed PROVE \A q \in Command \ {p} : job[q] # "none" => target[q] # target[p]
  BY <1>0, <1>6 DEF Steady, OneAtATime
<1>7. ConnectIsShown' /\ DisconnectIsShown'
  BY <1>0, <1>1, <1>3, <1>4, <1>6, TargetIsKey DEF Steady, ConnectIsShown, DisconnectIsShown
<1>8. NoneIsHidden'
  <2> SUFFICES ASSUME ~ rushed, NEW k \in Key, ~ InFlight(k)', shown'[k] \in {"Ready", "Error", "absent"}
               PROVE  status[k] = "None"
    BY <1>1 DEF NoneIsHidden
  <2>1. CASE k = target[p]
    <3>1. call[p] \in {"failed", "disconnected"}
      BY <1>1, <1>4, <2>1
    <3>2. \/ job[p] = "connect" /\ call[p] # "connected"
          \/ job[p] = "disconnect" /\ call[p] = "disconnected"
      BY <1>0, <1>2, <3>1, TargetIsKey DEF JobShape
    <3> QED BY <1>0, <2>1, <3>2 DEF Steady, ConnectIsShown, DisconnectIsShown
  <2>2. CASE k # target[p]
    <3>1. ~ InFlight(k)
      BY <1>3, <2>2 DEF InFlight
    <3> QED BY <1>0, <1>4, <2>2, <3>1 DEF Steady, NoneIsHidden
  <2> QED BY <2>1, <2>2
<1> QED BY <1>5, <1>7, <1>8 DEF Steady

\* A goroutine is started for a key that has none, whose entry shows what it is to
\* do, and no Connect where there may be a tunnel.
LEMMA SpawnSteady ==
  ASSUME StableInv, NEW K \in SUBSET Key, NEW w \in {"connect", "disconnect"}, Spawned(K, w),
         UNCHANGED serviceVars, rushed => rushed',
         \A k \in Key : shown[k] # "absent" => shown'[k] # "absent",
         \A k \in K : shown'[k] # "absent",
         ~ rushed' => \A k \in K :
           /\ ~ InFlight(k)
           /\ w = "connect" => shown'[k] = "Connecting" /\ status[k] = "None"
           /\ w = "disconnect" => shown'[k] = "Ready",
         ~ rushed' => \A k \in Key \ K :
           IF InFlight(k) THEN shown'[k] = shown[k]
           ELSE shown'[k] \in {"Ready", "Error", "absent"} => status[k] = "None"
  PROVE  Steady'
<1>0. UiInv /\ UiTypeOK /\ JobShape /\ Steady
  BY DEF StableInv, UiInv
<1>1. UNCHANGED <<status, call>>
  BY DEF serviceVars
<1>2. /\ \A p \in Command :
           \/ job'[p] = job[p] /\ target'[p] = target[p]
           \/ job[p] = "none" /\ job'[p] = w /\ target'[p] \in K
      /\ \A k \in K : \E p \in Command : job[p] = "none" /\ job'[p] = w /\ target'[p] = k
      /\ \A p, q \in Command :
           job[p] = "none" /\ job[q] = "none" /\ job'[p] # "none" /\ target'[p] = target'[q] => p = q
  BY <1>0, SpawnedOnes
<1>3. EntriesStay'
  <2> SUFFICES ASSUME NEW p \in Command, job'[p] # "none" PROVE shown'[target'[p]] # "absent"
    BY DEF EntriesStay
  <2>1. CASE job'[p] = job[p] /\ target'[p] = target[p]
    BY <1>0, <2>1, TargetIsKey DEF Steady, EntriesStay
  <2>2. CASE target'[p] \in K
    BY <2>2
  <2> QED BY <1>2, <2>1, <2>2
<1>4. ASSUME ~ rushed'
      PROVE  /\ \A p, q \in Command : job'[p] # "none" /\ target'[p] = target'[q] => p = q
             /\ \A p \in Command : job'[p] = "connect" =>
                  /\ shown'[target'[p]] = "Connecting"
                  /\ call[p] # "connected" => status[target'[p]] = "None"
             /\ \A p \in Command : job'[p] = "disconnect" =>
                  /\ shown'[target'[p]] = "Ready"
                  /\ call[p] = "disconnected" => status[target'[p]] = "None"
             /\ \A k \in Key : ~ InFlight(k)' /\ shown'[k] \in {"Ready", "Error", "absent"} => status[k] = "None"
  <2>0. ~ rushed
    BY <1>4
  <2>1. \A p \in Command : job[p] # "none" =>
          job'[p] = job[p] /\ target'[p] = target[p] /\ target[p] \in Key \ K
    <3>1. \A p \in Command : job[p] # "none" => target[p] \notin K
      BY <1>4 DEF InFlight
    <3> QED BY <1>0, <1>2, <3>1, TargetIsKey
  <2>2. \A p \in Command : job[p] = "none" =>
          \/ job'[p] = "none" /\ target'[p] = None
          \/ job'[p] = w /\ target'[p] \in K
    BY <1>0, <1>2 DEF JobShape
  <2>3. \A p, q \in Command : job'[p] # "none" /\ target'[p] = target'[q] => p = q
    <3> SUFFICES ASSUME NEW p \in Command, NEW q \in Command, job'[p] # "none", target'[p] = target'[q]
                 PROVE  p = q
      OBVIOUS
    <3>1. CASE job[p] # "none"
      <4>1. job[q] # "none"
        BY <2>1, <2>2, <3>1, AutoKeys
      <4> QED BY <1>0, <2>0, <2>1, <3>1, <4>1 DEF Steady, OneAtATime
    <3>2. CASE job[p] = "none"
      <4>1. target'[p] \in K
        BY <2>2, <3>2
      <4>2. job[q] = "none"
        BY <2>1, <4>1
      <4> QED BY <1>2, <3>2, <4>2
    <3> QED BY <3>1, <3>2
  <2>4. \A p \in Command : job[p] # "none" => shown'[target[p]] = shown[target[p]]
    BY <1>4, <2>1 DEF InFlight
  <2>5. \A p \in Command : job'[p] = "connect" =>
          /\ shown'[target'[p]] = "Connecting"
          /\ call[p] # "connected" => status[target'[p]] = "None"
    <3> SUFFICES ASSUME NEW p \in Command, job'[p] = "connect"
                 PROVE  /\ shown'[target'[p]] = "Connecting"
                        /\ call[p] # "connected" => status[target'[p]] = "None"
      OBVIOUS
    <3>1. CASE job[p] # "none"
      BY <1>0, <2>0, <2>1, <2>4, <3>1 DEF Steady, ConnectIsShown
    <3>2. CASE job[p] = "none"
      BY <1>4, <2>2, <3>2
    <3> QED BY <3>1, <3>2
  <2>6. \A p \in Command : job'[p] = "disconnect" =>
          /\ shown'[target'[p]] = "Ready"
          /\ call[p] = "disconnected" => status[target'[p]] = "None"
    <3> SUFFICES ASSUME NEW p \in Command, job'[p] = "disconnect"
                 PROVE  /\ shown'[target'[p]] = "Ready"
                        /\ call[p] = "disconnected" => status[target'[p]] = "None"
      OBVIOUS
    <3>1. CASE job[p] # "none"
      BY <1>0, <2>0, <2>1, <2>4, <3>1 DEF Steady, DisconnectIsShown
    <3>2. CASE job[p] = "none"
      <4>1. call[p] = "idle"
        BY <1>0, <3>2 DEF JobShape
      <4> QED BY <1>4, <2>2, <3>2, <4>1
    <3> QED BY <3>1, <3>2
  <2>7. ASSUME NEW k \in Key, ~ InFlight(k)', shown'[k] \in {"Ready", "Error", "absent"}
        PROVE  status[k] = "None"
    <3>1. k \notin K
      <4>1. \A p \in Command : job'[p] = w => target'[p] # k
        BY <2>7 DEF InFlight
      <4> QED BY <1>2, <4>1
    <3>2. ~ InFlight(k)
      BY <2>1, <2>7 DEF InFlight
    <3> QED BY <1>4, <2>7, <3>1, <3>2
  <2> QED BY <2>3, <2>5, <2>6, <2>7
<1>5. OneAtATime' /\ ConnectIsShown' /\ DisconnectIsShown' /\ NoneIsHidden'
  BY <1>1, <1>4 DEF OneAtATime, ConnectIsShown, DisconnectIsShown, NoneIsHidden
<1> QED BY <1>3, <1>3, <1>5 DEF Steady

LEMMA ConnectSteady ==
  ASSUME StableInv, NEW K \in SUBSET Key, Spawned(K, "connect"),
         UNCHANGED serviceVars, rushed => rushed',
         \A k \in Key : shown[k] # "absent" => shown'[k] # "absent",
         \A k \in K : shown'[k] # "absent",
         ~ rushed' => \A k \in K : ~ InFlight(k) /\ shown'[k] = "Connecting" /\ status[k] = "None",
         ~ rushed' => \A k \in Key \ K :
           IF InFlight(k) THEN shown'[k] = shown[k]
           ELSE shown'[k] \in {"Ready", "Error", "absent"} => status[k] = "None"
  PROVE  Steady'
<1>1. PICK w \in {"connect", "disconnect"} : w = "connect"
  OBVIOUS
<1>2. Spawned(K, w)
  BY <1>1
<1>3. ~ rushed' => \A k \in K :
        /\ ~ InFlight(k)
        /\ w = "connect" => shown'[k] = "Connecting" /\ status[k] = "None"
        /\ w = "disconnect" => shown'[k] = "Ready"
  BY <1>1
<1> QED BY <1>1, <1>2, <1>3, SpawnSteady

\* What a check may correct is at rest, for every answer was handled before.
LEMMA CheckSteady == ASSUME StableInv, Prompt, Checks, UNCHANGED rushed PROVE Steady'
<1> DEFINE K == {k \in Key : shown[k] = "Connected" /\ status[k] = "None"}
<1>0. UiInv /\ UiTypeOK /\ JobShape /\ Steady
  BY DEF StableInv, UiInv
<1>1. /\ shown' = [k \in Key |-> Checked(k)] /\ Spawned(K, "connect")
      /\ UNCHANGED serviceVars
  BY DEF Checks, HealthTick, ClientFailed, CheckTunnelHealth
<1>2. ASSUME ~ rushed, NEW p \in Command, job[p] # "none"
      PROVE  \/ shown[target[p]] = "Connecting" /\ status[target[p]] = "None"
             \/ shown[target[p]] = "Ready"
  BY <1>0, <1>2, TargetIsKey DEF Steady, ConnectIsShown, DisconnectIsShown, Prompt
<1>3. /\ \A k \in Key : shown[k] # "absent" => shown'[k] # "absent"
      /\ \A k \in K : shown'[k] = "Connecting" /\ status[k] = "None"
  BY <1>1 DEF Checked
<1>4. ~ rushed => \A k \in K : ~ InFlight(k)
  BY <1>2 DEF InFlight
<1>5. ASSUME ~ rushed, NEW k \in Key \ K
      PROVE  IF InFlight(k) THEN shown'[k] = shown[k]
             ELSE shown'[k] \in {"Ready", "Error", "absent"} => status[k] = "None"
  <2>1. CASE InFlight(k)
    BY <1>1, <1>2, <1>5, <2>1 DEF InFlight, Checked
  <2>2. CASE ~ InFlight(k)
    <3>1. shown'[k] \in {"Ready", "Error", "absent"} => shown[k] = shown'[k]
      BY <1>1 DEF Checked
    <3> QED BY <1>0, <1>5, <2>2, <3>1 DEF Steady, NoneIsHidden
  <2> QED BY <2>1, <2>2
<1>6. K \in SUBSET Key
  OBVIOUS
<1> HIDE DEF K, Checks
<1>7. /\ \A k \in K : shown'[k] # "absent"
      /\ UNCHANGED serviceVars /\ rushed' = rushed
  BY <1>1, <1>3
<1>8. ~ rushed' => \A k \in K : ~ InFlight(k) /\ shown'[k] = "Connecting" /\ status[k] = "None"
  BY <1>3, <1>4, <1>7
<1>9. ~ rushed' => \A k \in Key \ K :
        IF InFlight(k) THEN shown'[k] = shown[k]
        ELSE shown'[k] \in {"Ready", "Error", "absent"} => status[k] = "None"
  BY <1>5, <1>7
<1>10. Spawned(K, "connect")
  BY <1>1
<1> QED BY <1>3, <1>6, <1>7, <1>8, <1>9, <1>10, ConnectSteady

\* The first entries of all have no tunnels, and no entry that is known vanishes.
LEMMA RefreshSteady ==
  ASSUME StableInv, NEW S \in SUBSET Key, Complete(S), Refreshed(S), UNCHANGED rushed
  PROVE  Steady'
<1>0. UiInv /\ UiTypeOK /\ JobShape /\ Steady
  BY DEF StableInv, UiInv
<1>1. PICK K \in SUBSET Key :
        /\ K \subseteq S /\ (K # {} => \A k \in Key : shown[k] = "absent")
        /\ shown' = [k \in Key |-> IF k \notin S THEN "absent"
                                   ELSE IF k \in K THEN "Connecting"
                                   ELSE IF shown[k] = "absent" THEN "Ready" ELSE shown[k]]
        /\ Spawned(K, "connect")
        /\ UNCHANGED serviceVars
  <2> DEFINE auto == IF \A k \in Key : shown[k] = "absent" THEN Autoconnect \cap S ELSE {}
  <2>1. auto \in SUBSET Key /\ auto \subseteq S /\ (auto # {} => \A k \in Key : shown[k] = "absent")
    BY AutoKeys
  <2>2. /\ shown' = [k \in Key |-> IF k \notin S THEN "absent"
                                   ELSE IF k \in auto THEN "Connecting"
                                   ELSE IF shown[k] = "absent" THEN "Ready" ELSE shown[k]]
        /\ Spawned(auto, "connect")
        /\ UNCHANGED serviceVars
    BY DEF Refreshed
  <2> HIDE DEF auto
  <2> QED BY <2>1, <2>2
<1>2. \A k \in Key : shown[k] = "absent" => ~ InFlight(k)
  BY <1>0 DEF Steady, EntriesStay, InFlight
<1>3. \A k \in Key : ~ rushed /\ shown[k] = "absent" => status[k] = "None"
  BY <1>0, <1>2 DEF Steady, NoneIsHidden
<1>4. \A k \in Key : shown[k] # "absent" => k \in S /\ k \notin K /\ shown'[k] = shown[k]
  BY <1>1 DEF Complete
<1>5. \A k \in K : shown[k] = "absent" /\ shown'[k] = "Connecting"
  BY <1>1
<1>6. ASSUME ~ rushed, NEW k \in Key \ K
      PROVE  IF InFlight(k) THEN shown'[k] = shown[k]
             ELSE shown'[k] \in {"Ready", "Error", "absent"} => status[k] = "None"
  <2>1. CASE shown[k] = "absent"
    BY <1>2, <1>3, <1>6, <2>1
  <2>2. CASE shown[k] # "absent"
    BY <1>0, <1>4, <1>6, <2>2 DEF Steady, NoneIsHidden
  <2> QED BY <2>1, <2>2
<1>7. /\ \A k \in Key : shown[k] # "absent" => shown'[k] # "absent"
      /\ \A k \in K : shown'[k] # "absent"
      /\ UNCHANGED serviceVars /\ rushed' = rushed
  BY <1>1, <1>4, <1>5
<1>8. ~ rushed' => \A k \in K : ~ InFlight(k) /\ shown'[k] = "Connecting" /\ status[k] = "None"
  BY <1>2, <1>3, <1>5, <1>7
<1>9. ~ rushed' => \A k \in Key \ K :
        IF InFlight(k) THEN shown'[k] = shown[k]
        ELSE shown'[k] \in {"Ready", "Error", "absent"} => status[k] = "None"
  BY <1>6, <1>7
<1>10. Spawned(K, "connect")
  BY <1>1
<1> QED BY <1>7, <1>8, <1>9, <1>10, ConnectSteady

\* A command about an entry at rest finds what the entry shows; one about an entry
\* that is not is rushed.
LEMMA UserSteady == ASSUME StableInv, UserKeys PROVE Steady'
<1>0. UiInv /\ UiTypeOK /\ JobShape /\ Steady
  BY DEF StableInv, UiInv
<1>1. PICK k \in Key : (Space(k) \/ Enter(k)) /\ rushed' = (rushed \/ InFlight(k))
  BY DEF UserKeys
<1>2. (rushed => rushed') /\ (~ rushed' => ~ rushed /\ ~ InFlight(k))
  BY <1>1
<1>3. CASE UNCHANGED <<jobVars, entryVars, serviceVars>>
  BY <1>2, <1>3, QuietSteady
<1>4. ASSUME NEW w \in {"connect", "disconnect"}, NEW s \in {"Connecting", "Ready"},
             Spawned({k}, w), UNCHANGED serviceVars,
             shown' = [shown EXCEPT ![k] = s], shown[k] # "absent",
             w = "connect" => s = "Connecting" /\ shown[k] \in {"Ready", "Error"},
             w = "disconnect" => s = "Ready"
      PROVE  Steady'
  <2>2. shown'[k] = s /\ \A l \in Key : l # k => shown'[l] = shown[l]
    BY <1>0, <1>4 DEF UiTypeOK
  <2>3. ~ rushed' /\ w = "connect" => status[k] = "None"
    BY <1>0, <1>2, <1>4 DEF Steady, NoneIsHidden
  <2>4. ~ rushed' => \A l \in Key \ {k} :
          IF InFlight(l) THEN shown'[l] = shown[l]
          ELSE shown'[l] \in {"Ready", "Error", "absent"} => status[l] = "None"
    BY <1>0, <1>2, <2>2 DEF Steady, NoneIsHidden
  <2>5. {k} \in SUBSET Key
    OBVIOUS
  <2>6. /\ \A l \in Key : shown[l] # "absent" => shown'[l] # "absent"
        /\ \A l \in {k} : shown'[l] # "absent"
        /\ ~ rushed' => \A l \in {k} :
             /\ ~ InFlight(l)
             /\ w = "connect" => shown'[l] = "Connecting" /\ status[l] = "None"
             /\ w = "disconnect" => shown'[l] = "Ready"
    BY <1>2, <1>4, <2>2, <2>3
  <2> QED BY <1>2, <1>4, <2>4, <2>5, <2>6, SpawnSteady
<1>5. CASE Space(k)
  <2>1. UNCHANGED serviceVars
    BY <1>5 DEF Space
  <2>2. CASE ConnectEntry(k)
    <3>1. /\ shown' = [shown EXCEPT ![k] = "Connecting"] /\ Spawned({k}, "connect")
          /\ shown[k] \in {"Ready", "Error"} /\ shown[k] # "absent"
      BY <2>2 DEF ConnectEntry
    <3>2. PICK w \in {"connect", "disconnect"} : w = "connect"
      OBVIOUS
    <3>3. PICK s \in {"Connecting", "Ready"} : s = "Connecting"
      OBVIOUS
    <3>4. Spawned({k}, w)
      BY <3>1, <3>2
    <3>5. shown' = [shown EXCEPT ![k] = s]
      BY <3>1, <3>3
    <3>6. /\ w = "connect" => s = "Connecting" /\ shown[k] \in {"Ready", "Error"}
          /\ w = "disconnect" => s = "Ready"
      BY <3>1, <3>2, <3>3
    <3> QED BY <1>4, <2>1, <3>1, <3>2, <3>3, <3>4, <3>5, <3>6
  <2>3. CASE shown[k] = "Connected" /\ shown' = [shown EXCEPT ![k] = "Ready"] /\ Spawned({k}, "disconnect")
    <3>1. shown[k] # "absent"
      BY <2>3
    <3>2. PICK w \in {"connect", "disconnect"} : w = "disconnect"
      OBVIOUS
    <3>3. PICK s \in {"Connecting", "Ready"} : s = "Ready"
      OBVIOUS
    <3>4. Spawned({k}, w)
      BY <2>3, <3>2
    <3>5. shown' = [shown EXCEPT ![k] = s]
      BY <2>3, <3>3
    <3>6. /\ w = "connect" => s = "Connecting" /\ shown[k] \in {"Ready", "Error"}
          /\ w = "disconnect" => s = "Ready"
      BY <3>1, <3>2, <3>3
    <3> QED BY <1>4, <2>1, <3>1, <3>2, <3>3, <3>4, <3>5, <3>6
  <2> QED BY <1>5, <2>2, <2>3 DEF Space
<1>6. CASE Enter(k)
  <2>1. UNCHANGED serviceVars
    BY <1>6 DEF Enter
  <2>2. CASE ConnectEntry(k)
    <3>1. /\ shown' = [shown EXCEPT ![k] = "Connecting"] /\ Spawned({k}, "connect")
          /\ shown[k] \in {"Ready", "Error"} /\ shown[k] # "absent"
      BY <2>2 DEF ConnectEntry
    <3>2. PICK w \in {"connect", "disconnect"} : w = "connect"
      OBVIOUS
    <3>3. PICK s \in {"Connecting", "Ready"} : s = "Connecting"
      OBVIOUS
    <3>4. Spawned({k}, w)
      BY <3>1, <3>2
    <3>5. shown' = [shown EXCEPT ![k] = s]
      BY <3>1, <3>3
    <3>6. /\ w = "connect" => s = "Connecting" /\ shown[k] \in {"Ready", "Error"}
          /\ w = "disconnect" => s = "Ready"
      BY <3>1, <3>2, <3>3
    <3> QED BY <1>4, <2>1, <3>1, <3>2, <3>3, <3>4, <3>5, <3>6
  <2>3. CASE UNCHANGED <<entryVars, jobVars>>
    BY <1>3, <2>1, <2>3
  <2> QED BY <1>6, <2>2, <2>3 DEF Enter
<1> QED BY <1>1, <1>5, <1>6

LEMMA StableStep == StableInv /\ [StableNext]_uiVars => StableInv'
<1> SUFFICES ASSUME StableInv, [StableNext]_uiVars PROVE StableInv'
  OBVIOUS
<1>1. UiInv'
  <2>1. UiInv
    BY DEF StableInv
  <2>2. [UiNext]_uiVars
    BY DEF StableNext, UiNext
  <2> QED BY <2>1, <2>2, UiStep
<1> SUFFICES Steady'
  BY <1>1 DEF StableInv
<1>2. CASE UserKeys
  BY <1>2, UserSteady
<1>3. CASE Background /\ UNCHANGED rushed
  <2>1. CASE Serve \/ \E p \in Command : Start(p)
    BY <1>3, <2>1, ServiceSteady
  <2>2. CASE \E p \in Command : Answered(p)
    BY <1>3, <2>2, AnswerSteady
  <2>3. CASE ClientStarts \/ ClientEnds \/ ShutDown \/ ShutDownSeen \/ FadeTick \/ QuitMsg
    <3>1. UNCHANGED <<jobVars, entryVars>> /\ (UNCHANGED serviceVars \/ End)
      BY <2>3 DEF ClientStarts, ClientEnds, ShutDown, ShutDownSeen, FadeTick, QuitMsg, DisconnectAll
    <3> QED BY <1>3, <3>1, QuietSteady
  <2> QED BY <1>3, <2>1, <2>2, <2>3 DEF Background
<1>4. CASE Prompt /\ Checks /\ UNCHANGED rushed
  BY <1>4, CheckSteady
<1>5. CASE Leave /\ UNCHANGED rushed
  <2>1. UNCHANGED <<jobVars, entryVars>> /\ (UNCHANGED serviceVars \/ End)
    BY <1>5 DEF Leave, Esc, CtrlC, Confirm, DisconnectAll, StartDissolve
  <2> QED BY <1>5, <2>1, QuietSteady
<1>6. CASE (\E S \in SUBSET Key : Complete(S) /\ Refreshed(S)) /\ UNCHANGED rushed
  BY <1>6, RefreshSteady
<1>7. CASE UNCHANGED uiVars
  <2>1. UNCHANGED <<jobVars, entryVars>> /\ UNCHANGED serviceVars /\ UNCHANGED rushed
    BY <1>7 DEF uiVars, loopVars
  <2> QED BY <2>1, QuietSteady
<1> QED BY <1>2, <1>3, <1>4, <1>5, <1>6, <1>7 DEF StableNext

LEMMA StableSafe == StableSpec => []StableInv
BY StableStart, StableStep, PTL DEF StableSpec

\* While no entry vanishes, answers are handled before checks and the user gives one
\* command at a time for each key, an entry at rest that shows Ready or Error hides
\* no tunnel, though tunnels die, revive and are given up by themselves meanwhile.
THEOREM RestHonest == StableSpec => []RestIsHonest
<1>1. StableInv => RestIsHonest
  BY DEF StableInv, Steady, NoneIsHidden, RestIsHonest
<1> QED BY <1>1, StableSafe, PTL
===============================================================================
