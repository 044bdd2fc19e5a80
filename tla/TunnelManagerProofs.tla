------------------------- MODULE TunnelManagerProofs -------------------------
(***************************************************************************)
(* Proofs about TunnelManager, for every set of keys, hosts, ports,        *)
(* commands, monitors, tunnels and connections and every number of         *)
(* attempts.                                                               *)
(*                                                                         *)
(* TunnelInv is inductive.  PoolMoves, that a step of the manager is a     *)
(* step of the pool or leaves it alone, is what lets the invariant of the  *)
(* pool (SshPoolProofs) be used inside the manager.  Two things follow     *)
(* with nothing but TunnelInv: that every tunnel is watched, and that the  *)
(* manager implements TunnelService.                                       *)
(***************************************************************************)
EXTENDS TunnelManager, SshPoolProofs

\* What a goroutine has in hand, depending on where it is.
ProcShape ==
  \A p \in Proc :
    /\ p \in Command => pc[p] \in {"idle", "drain"} \cup Answers \cup Setting
    /\ p \in Monitor => pc[p] \notin Answers
    /\ pc[p] \in Setting \cup {"look", "arm", "watch", "check", "release", "retry", "forget"} =>
         key[p] \in Key
    /\ pc[p] \in {"setup", "register", "drain", "arm", "watch", "check", "release"} =>
         tun[p] \in Lease
    /\ pc[p] = "drain" /\ p \in Command => after[p] \in Answers
    /\ pc[p] = "drain" /\ p \in Monitor => after[p] \in {"look", "forget"} /\ key[p] \in Key

TunnelInv ==
  /\ PoolInv
  /\ ManagerTypeOK
  /\ ProcShape
  /\ AliveXorReconnecting

TunnelNext == RunningNext \/ StopAll \/ DisconnectAllNext

------------------------------------------------------------------------------

\* A step of the manager is a step of the pool or does not touch it.
LEMMA PoolMoves ==
  ASSUME TunnelInv, [TunnelNext]_vars
  PROVE  [Calls \/ Loss \/ CloseAll]_poolVars
<1> USE DEF TunnelInv
<1>1. ASSUME NEW p \in Proc, Connecting(p)
      PROVE  [Calls]_poolVars
  <2>1. CASE AcquireStep(p)
    <3>1. HostOf[key[p]] \in Host
      BY <2>1, KeyMaps DEF AcquireStep, ProcShape, Setting
    <3> QED BY <2>1, <3>1 DEF AcquireStep, Calls
  <2>2. CASE DialStep(p)
    BY <2>2 DEF DialStep, ProcShape, Calls
  <2>3. CASE ListenStep(p)
    BY <2>3 DEF ListenStep
  <2>4. CASE SetupFails(p)
    BY <2>4 DEF SetupFails, ProcShape, Calls
  <2>5. CASE DrainStep(p)
    BY <2>5 DEF DrainStep, ProcShape, Calls
  <2> QED BY <1>1, <2>1, <2>2, <2>3, <2>4, <2>5 DEF Connecting
<1>2. ASSUME NEW p \in Command, CommandNext(p)
      PROVE  [Calls]_poolVars
  BY <1>1, <1>2 DEF CommandNext, Proc, ConnectWins, ConnectLoses, Return
<1>3. ASSUME NEW m \in Monitor, MonitorNext(m)
      PROVE  [Calls]_poolVars
  <2>1. CASE ReleaseStep(m)
    BY <2>1 DEF ReleaseStep, ProcShape, Calls, Proc
  <2>2. CASE Connecting(m)
    BY <1>1, <2>2 DEF Proc
  <2>3. CASE ~ ReleaseStep(m) /\ ~ Connecting(m)
    BY <1>3, <2>3 DEF MonitorNext, Look, Arm, WatchStop, WatchDone, WatchDead, Check, Retry,
       ReviveWins, ReviveLoses, Forget
  <2> QED BY <2>1, <2>2, <2>3
<1>4. ASSUME NEW p \in Command, NEW k \in Key, ConnectCall(p, k) \/ DisconnectCall(p, k)
      PROVE  UNCHANGED poolVars
  BY <1>4 DEF ConnectCall, DisconnectCall
<1>5. ASSUME NEW l \in Lease, Accept(l) \/ LoopNext(l)
      PROVE  UNCHANGED poolVars
  BY <1>5 DEF LoopNext, Accept, AcceptFails, Forwarded, ForwardFails
<1>6. ASSUME NEW c \in Client, ConnectionNext(c)
      PROVE  Calls \/ Loss
  BY <1>6 DEF ConnectionNext, Calls, Loss
<1>7. CASE StopAll \/ DisconnectAllNext
  BY <1>7 DEF StopAll, DisconnectAllNext, TakeAll, CloseListeners, FinishAll
<1>8. CASE UNCHANGED vars
  BY <1>8 DEF vars
<1> QED BY <1>2, <1>3, <1>4, <1>5, <1>6, <1>7, <1>8 DEF TunnelNext, RunningNext

LEMMA TunnelInitInv == TunnelInit => TunnelInv
<1> SUFFICES ASSUME TunnelInit PROVE TunnelInv
  OBVIOUS
<1>1. PoolInv
  BY PoolInitInv DEF TunnelInit
<1>2. ManagerTypeOK
  <2>1. 0 \in 0 .. MaxAttempts - 1
    BY AttemptsPositive
  <2> QED BY <2>1 DEF TunnelInit, ManagerTypeOK
<1>3. ProcShape
  BY DEF TunnelInit, ProcShape, Answers, Setting
<1>4. AliveXorReconnecting
  BY DEF TunnelInit, AliveXorReconnecting
<1> QED BY <1>1, <1>2, <1>3, <1>4 DEF TunnelInv

\* The part of the invariant that belongs to the manager.
ManagerInv == ManagerTypeOK /\ ProcShape /\ AliveXorReconnecting

\* setupTunnel and the tearing down, by a command or a monitor, keep it.
LEMMA ConnectingInv ==
  ASSUME TunnelInv, NEW p \in Proc, Connecting(p)
  PROVE  ManagerInv'
<1> USE NoneIsNew, KeyMaps, ProcsApart, KeysApart DEF TunnelInv, ManagerInv, Alive, Goto, Rest, Proc, Answers, Setting, vars, mgrVars, netVars, procVars, endVars
<1>1. ASSUME AcquireStep(p)
      PROVE  ManagerInv'
  <2> USE <1>1 DEF AcquireStep
  <2>1. ManagerTypeOK'
    BY DEF ManagerTypeOK
  <2>2. ProcShape'
    BY DEF ManagerTypeOK, ProcShape
  <2>3. AliveXorReconnecting'
    BY DEF ManagerTypeOK, AliveXorReconnecting
  <2> QED BY <2>1, <2>2, <2>3 DEF ManagerInv
<1>2. ASSUME DialStep(p)
      PROVE  ManagerInv'
  <2> USE <1>2 DEF DialStep
  <2>1. ManagerTypeOK'
    BY DEF ManagerTypeOK
  <2>2. ProcShape'
    BY DEF ManagerTypeOK, ProcShape
  <2>3. AliveXorReconnecting'
    BY DEF ManagerTypeOK, AliveXorReconnecting
  <2> QED BY <2>1, <2>2, <2>3 DEF ManagerInv
<1>3. ASSUME ListenStep(p)
      PROVE  ManagerInv'
  <2> USE <1>3 DEF ListenStep
  <2>1. ManagerTypeOK'
    BY DEF ManagerTypeOK
  <2>2. ProcShape'
    BY DEF ManagerTypeOK, ProcShape
  <2>3. AliveXorReconnecting'
    BY DEF ManagerTypeOK, AliveXorReconnecting
  <2> QED BY <2>1, <2>2, <2>3 DEF ManagerInv
<1>4. ASSUME SetupFails(p)
      PROVE  ManagerInv'
  <2> USE <1>4 DEF SetupFails, SetupFailed
  <2>1. ManagerTypeOK'
    BY AttemptsPositive DEF ManagerTypeOK
  <2>2. ProcShape'
    BY DEF ManagerTypeOK, ProcShape
  <2>3. AliveXorReconnecting'
    BY DEF ManagerTypeOK, AliveXorReconnecting
  <2> QED BY <2>1, <2>2, <2>3 DEF ManagerInv
<1>5. ASSUME DrainStep(p)
      PROVE  ManagerInv'
  <2> USE <1>5 DEF DrainStep, Done
  <2>1. ManagerTypeOK'
    BY AttemptsPositive DEF ManagerTypeOK
  <2>2. ProcShape'
    BY DEF ManagerTypeOK, ProcShape
  <2>3. AliveXorReconnecting'
    BY DEF ManagerTypeOK, AliveXorReconnecting
  <2> QED BY <2>1, <2>2, <2>3 DEF ManagerInv
<1> QED BY <1>1, <1>2, <1>3, <1>4, <1>5 DEF Connecting

\* The steps of a command keep it.
LEMMA CommandInv ==
  ASSUME TunnelInv, NEW p \in Command,
         CommandNext(p) \/ \E k \in Key : ConnectCall(p, k) \/ DisconnectCall(p, k)
  PROVE  ManagerInv'
<1> USE NoneIsNew, KeyMaps, ProcsApart, KeysApart DEF TunnelInv, ManagerInv, Alive, Goto, Rest, Proc, Answers, Setting, vars, mgrVars, netVars, procVars, endVars
<1>1. ASSUME NEW k \in Key, ConnectCall(p, k)
      PROVE  ManagerInv'
  <2> USE <1>1 DEF ConnectCall
  <2>1. ManagerTypeOK'
    BY AttemptsPositive DEF ManagerTypeOK
  <2>2. ProcShape'
    BY DEF ManagerTypeOK, ProcShape
  <2>3. AliveXorReconnecting'
    BY DEF ManagerTypeOK, AliveXorReconnecting
  <2> QED BY <2>1, <2>2, <2>3 DEF ManagerInv
<1>2. ASSUME NEW k \in Key, DisconnectCall(p, k)
      PROVE  ManagerInv'
  <2> USE <1>2 DEF DisconnectCall, Unbound
  <2>1. ManagerTypeOK'
    BY AttemptsPositive DEF ManagerTypeOK
  <2>2. ProcShape'
    BY DEF ManagerTypeOK, ProcShape
  <2>3. AliveXorReconnecting'
    BY DEF ManagerTypeOK, AliveXorReconnecting
  <2> QED BY <2>1, <2>2, <2>3 DEF ManagerInv
<1>3. ASSUME ConnectWins(p)
      PROVE  ManagerInv'
  <2> USE <1>3 DEF ConnectWins, Track
  <2>0. key[p] \in Key /\ tun[p] \in Lease
    BY DEF ProcShape
  <2>1. PICK m \in Monitor : /\ pc[m] = "idle"
                            /\ pc' = [pc EXCEPT ![p] = "connected", ![m] = "look"]
                            /\ key' = [key EXCEPT ![p] = None, ![m] = key[p]]
    OBVIOUS
  <2>2. ManagerTypeOK'
    BY <2>0, <2>1 DEF ManagerTypeOK
  <2>3. ProcShape'
    BY <2>0, <2>1 DEF ManagerTypeOK, ProcShape
  <2>4. AliveXorReconnecting'
    BY <2>0 DEF ManagerTypeOK, AliveXorReconnecting
  <2> QED BY <2>2, <2>3, <2>4 DEF ManagerInv
<1>4. ASSUME ConnectLoses(p)
      PROVE  ManagerInv'
  <2> USE <1>4 DEF ConnectLoses, Unbound
  <2>1. ManagerTypeOK'
    BY DEF ManagerTypeOK
  <2>2. ProcShape'
    BY DEF ManagerTypeOK, ProcShape
  <2>3. AliveXorReconnecting'
    BY DEF ManagerTypeOK, AliveXorReconnecting
  <2> QED BY <2>1, <2>2, <2>3 DEF ManagerInv
<1>5. ASSUME Return(p)
      PROVE  ManagerInv'
  <2> USE <1>5 DEF Return
  <2>1. ManagerTypeOK'
    BY AttemptsPositive DEF ManagerTypeOK
  <2>2. ProcShape'
    BY DEF ManagerTypeOK, ProcShape
  <2>3. AliveXorReconnecting'
    BY DEF ManagerTypeOK, AliveXorReconnecting
  <2> QED BY <2>1, <2>2, <2>3 DEF ManagerInv
<1> QED BY <1>1, <1>2, <1>3, <1>4, <1>5, ConnectingInv DEF CommandNext

\* The steps of a monitor keep it.
LEMMA MonitorInv ==
  ASSUME TunnelInv, NEW m \in Monitor, MonitorNext(m)
  PROVE  ManagerInv'
<1> USE NoneIsNew, KeyMaps, ProcsApart, KeysApart DEF TunnelInv, ManagerInv, Alive, Goto, Rest, Proc, Answers, Setting, vars, mgrVars, netVars, procVars, endVars
<1>1. ASSUME Look(m)
      PROVE  ManagerInv'
  <2> USE <1>1 DEF Look
  <2>0. key[m] \in Key /\ tunnels[key[m]] \in Lease \cup {None} /\ 0 \in 0 .. MaxAttempts - 1
    BY AttemptsPositive DEF ProcShape, ManagerTypeOK
  <2>1. ManagerTypeOK'
    <3>1. CASE Alive(key[m])
      BY <2>0, <3>1 DEF ManagerTypeOK
    <3>2. CASE ~ Alive(key[m])
      BY <2>0, <3>2 DEF ManagerTypeOK
    <3> QED BY <3>1, <3>2
  <2>2. ProcShape'
    BY <2>0 DEF ManagerTypeOK, ProcShape
  <2>3. AliveXorReconnecting'
    BY DEF ManagerTypeOK, AliveXorReconnecting
  <2> QED BY <2>1, <2>2, <2>3 DEF ManagerInv
<1>2. ASSUME Arm(m)
      PROVE  ManagerInv'
  <2> USE <1>2 DEF Arm
  <2>0. HostOf[key[m]] \in Host /\ conns[HostOf[key[m]]] \in Client \cup {None}
    BY DEF ProcShape, PoolInv, PoolTypeOK
  <2>1. ManagerTypeOK'
    BY <2>0 DEF ManagerTypeOK
  <2>2. ProcShape'
    BY DEF ManagerTypeOK, ProcShape
  <2>3. AliveXorReconnecting'
    BY DEF ManagerTypeOK, AliveXorReconnecting
  <2> QED BY <2>1, <2>2, <2>3 DEF ManagerInv
<1>3. ASSUME WatchStop(m)
      PROVE  ManagerInv'
  <2> USE <1>3 DEF WatchStop
  <2>1. ManagerTypeOK'
    BY AttemptsPositive DEF ManagerTypeOK
  <2>2. ProcShape'
    BY DEF ManagerTypeOK, ProcShape
  <2>3. AliveXorReconnecting'
    BY DEF ManagerTypeOK, AliveXorReconnecting
  <2> QED BY <2>1, <2>2, <2>3 DEF ManagerInv
<1>4. ASSUME WatchDone(m)
      PROVE  ManagerInv'
  <2> USE <1>4 DEF WatchDone, Done
  <2>1. ManagerTypeOK'
    BY DEF ManagerTypeOK
  <2>2. ProcShape'
    BY DEF ManagerTypeOK, ProcShape
  <2>3. AliveXorReconnecting'
    BY DEF ManagerTypeOK, AliveXorReconnecting
  <2> QED BY <2>1, <2>2, <2>3 DEF ManagerInv
<1>5. ASSUME WatchDead(m)
      PROVE  ManagerInv'
  <2> USE <1>5 DEF WatchDead, Unbound
  <2>1. ManagerTypeOK'
    BY DEF ManagerTypeOK
  <2>2. ProcShape'
    BY DEF ManagerTypeOK, ProcShape
  <2>3. AliveXorReconnecting'
    BY DEF ManagerTypeOK, AliveXorReconnecting
  <2> QED BY <2>1, <2>2, <2>3 DEF ManagerInv
<1>6. ASSUME Check(m)
      PROVE  ManagerInv'
  <2> USE <1>6 DEF Check, TracksOwn
  <2>0. /\ key[m] \in Key /\ tun[m] \in Lease /\ pc[m] = "check"
        /\ 0 \in 0 .. MaxAttempts - 1
    BY AttemptsPositive DEF ProcShape
  <2>1. CASE tunnels[key[m]] # tun[m]
    <3>1. ManagerTypeOK'
      BY <2>0, <2>1 DEF ManagerTypeOK
    <3>2. ProcShape'
      BY <2>0, <2>1 DEF ManagerTypeOK, ProcShape
    <3>3. AliveXorReconnecting'
      BY <2>0, <2>1 DEF ManagerTypeOK, AliveXorReconnecting
    <3> QED BY <3>1, <3>2, <3>3 DEF ManagerInv
  <2>2. CASE tunnels[key[m]] = tun[m]
    <3>1. ManagerTypeOK'
      BY <2>0, <2>2 DEF ManagerTypeOK
    <3>2. ProcShape'
      BY <2>0, <2>2 DEF ManagerTypeOK, ProcShape
    <3>3. AliveXorReconnecting'
      BY <2>0, <2>2 DEF ManagerTypeOK, AliveXorReconnecting
    <3> QED BY <3>1, <3>2, <3>3 DEF ManagerInv
  <2> QED BY <2>1, <2>2
<1>7. ASSUME ReleaseStep(m)
      PROVE  ManagerInv'
  <2> USE <1>7 DEF ReleaseStep
  <2>1. ManagerTypeOK'
    BY DEF ManagerTypeOK
  <2>2. ProcShape'
    BY DEF ManagerTypeOK, ProcShape
  <2>3. AliveXorReconnecting'
    BY DEF ManagerTypeOK, AliveXorReconnecting
  <2> QED BY <2>1, <2>2, <2>3 DEF ManagerInv
<1>8. ASSUME Retry(m)
      PROVE  ManagerInv'
  <2> USE <1>8 DEF Retry
  <2>1. ManagerTypeOK'
    BY DEF ManagerTypeOK
  <2>2. ProcShape'
    BY DEF ManagerTypeOK, ProcShape
  <2>3. AliveXorReconnecting'
    BY DEF ManagerTypeOK, AliveXorReconnecting
  <2> QED BY <2>1, <2>2, <2>3 DEF ManagerInv
<1>9. ASSUME ReviveWins(m)
      PROVE  ManagerInv'
  <2> USE <1>9 DEF ReviveWins, MayRevive, Track
  <2>1. ManagerTypeOK'
    BY AttemptsPositive DEF ManagerTypeOK
  <2>2. ProcShape'
    BY DEF ManagerTypeOK, ProcShape
  <2>3. AliveXorReconnecting'
    BY DEF ManagerTypeOK, AliveXorReconnecting
  <2> QED BY <2>1, <2>2, <2>3 DEF ManagerInv
<1>10. ASSUME ReviveLoses(m)
      PROVE  ManagerInv'
  <2> USE <1>10 DEF ReviveLoses, MayRevive, Unbound
  <2>1. ManagerTypeOK'
    BY DEF ManagerTypeOK
  <2>2. ProcShape'
    BY DEF ManagerTypeOK, ProcShape
  <2>3. AliveXorReconnecting'
    BY DEF ManagerTypeOK, AliveXorReconnecting
  <2> QED BY <2>1, <2>2, <2>3 DEF ManagerInv
<1>11. ASSUME Forget(m)
      PROVE  ManagerInv'
  <2> USE <1>11 DEF Forget
  <2>1. ManagerTypeOK'
    BY AttemptsPositive DEF ManagerTypeOK
  <2>2. ProcShape'
    BY DEF ManagerTypeOK, ProcShape
  <2>3. AliveXorReconnecting'
    BY DEF ManagerTypeOK, AliveXorReconnecting
  <2> QED BY <2>1, <2>2, <2>3 DEF ManagerInv
<1> QED
  BY <1>1, <1>2, <1>3, <1>4, <1>5, <1>6, <1>7, <1>8, <1>9, <1>10, <1>11, ConnectingInv DEF MonitorNext

\* So does every step.
LEMMA TunnelStepInv ==
  ASSUME TunnelInv, [TunnelNext]_vars
  PROVE  TunnelInv'
<1>1. PoolInv'
  BY PoolMoves, PoolStepInv DEF TunnelInv
<1> USE NoneIsNew, KeyMaps, ProcsApart, KeysApart DEF TunnelInv, ManagerInv, Alive, Goto, Rest, Proc, Answers, Setting, vars, mgrVars, netVars, procVars, endVars
<1>2. ASSUME NEW l \in Lease, Accept(l) \/ LoopNext(l)
      PROVE  ManagerInv'
  <2> USE <1>2 DEF LoopNext, Accept, AcceptFails, Forwarded, ForwardFails, Unbound
  <2>1. ManagerTypeOK'
    BY DEF ManagerTypeOK
  <2>2. ProcShape'
    BY DEF ManagerTypeOK, ProcShape
  <2>3. AliveXorReconnecting'
    BY DEF ManagerTypeOK, AliveXorReconnecting
  <2> QED BY <2>1, <2>2, <2>3 DEF ManagerInv
<1>3. ASSUME NEW c \in Client, ConnectionNext(c)
      PROVE  ManagerInv'
  <2> USE <1>3 DEF ConnectionNext
  <2>1. ManagerTypeOK'
    BY DEF ManagerTypeOK
  <2>2. ProcShape'
    BY DEF ManagerTypeOK, ProcShape
  <2>3. AliveXorReconnecting'
    BY DEF ManagerTypeOK, AliveXorReconnecting
  <2> QED BY <2>1, <2>2, <2>3 DEF ManagerInv
<1>4. ASSUME StopAll \/ DisconnectAllNext
      PROVE  ManagerInv'
  <2>1. CASE StopAll
    BY <2>1 DEF StopAll, ManagerTypeOK, ProcShape, AliveXorReconnecting
  <2>2. CASE TakeAll
    BY <2>2 DEF TakeAll, ManagerTypeOK, ProcShape, AliveXorReconnecting
  <2>3. CASE CloseListeners
    BY <2>3 DEF CloseListeners, ManagerTypeOK, ProcShape, AliveXorReconnecting, Unbound
  <2>4. CASE FinishAll
    BY <2>4 DEF FinishAll, ManagerTypeOK, ProcShape, AliveXorReconnecting
  <2> QED BY <1>4, <2>1, <2>2, <2>3, <2>4 DEF DisconnectAllNext
<1>5. ASSUME UNCHANGED vars
      PROVE  ManagerInv'
  BY <1>5 DEF ManagerTypeOK, ProcShape, AliveXorReconnecting
<1>6. ManagerInv'
  BY <1>2, <1>3, <1>4, <1>5, CommandInv, MonitorInv DEF TunnelNext, RunningNext
<1> QED BY <1>1, <1>6

\* The types hold, and no key is ever both tracked and reconnecting: the
\* branches of tunnel.go that find a tunnel under a reconnecting key (lines
\* 321-326 and 344-351, with the unlocked delete) are never taken.
THEOREM TunnelSafe == TunnelSpec => [](TunnelTypeOK /\ AliveXorReconnecting)
<1>1. TunnelInv /\ [TunnelNext]_vars => TunnelInv'
  BY TunnelStepInv
<1>2. TunnelInv => TunnelTypeOK /\ AliveXorReconnecting
  BY DEF TunnelInv, PoolInv, TunnelTypeOK
<1>3. TunnelSpec => TunnelInit /\ [][TunnelNext]_vars
  BY DEF TunnelSpec, TunnelNext
<1> QED BY TunnelInitInv, <1>1, <1>2, <1>3, PTL

\* TunnelTypeOK by itself: all of the manager's and the pool's state stays in its
\* bounds, the count of attempts among them.
COROLLARY TunnelTyped == TunnelSpec => []TunnelTypeOK
BY TunnelSafe, PTL

\* The manager uses the pool as the pool expects: what is proved of PoolSpec
\* (no leaked connection, counts covered by leases) holds in the manager.
THEOREM TunnelUsesPool == TunnelSpec => PoolSpec
<1>1. TunnelInv /\ [TunnelNext]_vars => TunnelInv'
  BY TunnelStepInv
<1>2. TunnelInv /\ [TunnelNext]_vars => [Calls \/ Loss \/ CloseAll]_poolVars
  BY PoolMoves
<1>3. TunnelInit => PoolInit
  BY DEF TunnelInit
<1>4. TunnelSpec => TunnelInit /\ [][TunnelNext]_vars
  BY DEF TunnelSpec, TunnelNext
<1> QED BY TunnelInitInv, <1>1, <1>2, <1>3, <1>4, PTL DEF PoolSpec

\* So inside the manager, too, Acquire and Release leak no connection, and a
\* count stays covered by the tunnels it stands for.
COROLLARY TunnelPoolSafe ==
  TunnelSpec => [](LiveIsOwned /\ HeldLiveIsPooled /\ RefsCovered)
BY TunnelUsesPool, PoolSafe, PTL

\* LiveIsOwned by itself: a connection that is up is pooled or in the hands of the
\* Acquire that dialed it, whoever else dials the host meanwhile.
COROLLARY TunnelPoolOwned == TunnelSpec => []LiveIsOwned
BY TunnelPoolSafe, PTL

------------------------------------------------------------------------------
(* Every tunnel is watched: both invariants are inductive relative to       *)
(* TunnelInv, since a monitor leaves a key only when the key has another    *)
(* tunnel than the one it watched, or none.                                 *)

\* Monitor m is on, or on its way to, the tunnel of k.
Watches(m, k) ==
  key[m] = k /\
    (pc[m] = "look" \/ (tun[m] = tunnels[k] /\ pc[m] \in {"arm", "watch", "check"}))

\* Monitor m revives k or gives it up.
Serves(m, k) == key[m] = k /\ pc[m] \in {"release", "retry", "forget"} \cup Setting

WatchInv ==
  /\ stop \/ \A k \in Key : tunnels[k] # None => \E m \in Monitor : Watches(m, k)
  /\ \A k \in reconnecting : \E m \in Monitor : Serves(m, k)

LEMMA WatchInvSays == WatchInv <=> EveryTunnelMonitored /\ ReconnectingIsServed
BY DEF WatchInv, Watches, Serves, EveryTunnelMonitored, ReconnectingIsServed, Alive

\* Monitors that a step leaves alone go on with what they do.
LEMMA WatchFrame ==
  ASSUME TunnelInv, WatchInv,
         NEW P \in SUBSET Proc,
         \A m \in Monitor \ P : pc'[m] = pc[m] /\ key'[m] = key[m] /\ tun'[m] = tun[m],
         stop => stop',
         stop' \/ \A k \in Key : tunnels'[k] # None =>
           \/ tunnels'[k] = tunnels[k] /\ \A m \in Monitor \cap P : Watches(m, k) => Watches(m, k)'
           \/ \E m \in Monitor : Watches(m, k)',
         \A k \in reconnecting' :
           \/ k \in reconnecting /\ \A m \in Monitor \cap P : Serves(m, k) => Serves(m, k)'
           \/ \E m \in Monitor : Serves(m, k)'
  PROVE  WatchInv'
<1>1. ASSUME NEW k \in Key, ~ stop', tunnels'[k] # None
      PROVE  \E m \in Monitor : Watches(m, k)'
  <2>1. CASE tunnels'[k] = tunnels[k] /\ \A m \in Monitor \cap P : Watches(m, k) => Watches(m, k)'
    <3>1. PICK m \in Monitor : Watches(m, k)
      BY <1>1, <2>1 DEF WatchInv
    <3>2. Watches(m, k)'
      BY <2>1, <3>1 DEF Watches
    <3> QED BY <3>2
  <2> QED BY <1>1, <2>1
<1>2. ASSUME NEW k \in reconnecting'
      PROVE  \E m \in Monitor : Serves(m, k)'
  <2>1. CASE k \in reconnecting /\ \A m \in Monitor \cap P : Serves(m, k) => Serves(m, k)'
    <3>1. PICK m \in Monitor : Serves(m, k)
      BY <2>1 DEF WatchInv
    <3>2. Serves(m, k)'
      BY <2>1, <3>1 DEF Serves
    <3> QED BY <3>2
  <2> QED BY <1>2, <2>1
<1> QED BY <1>1, <1>2 DEF WatchInv

------------------------------------------------------------------------------

\* A command disturbs no monitor; the tunnel it registers gets a new one.
LEMMA CommandWatch ==
  ASSUME TunnelInv, WatchInv, NEW p \in Command,
         CommandNext(p) \/ \E k \in Key : ConnectCall(p, k) \/ DisconnectCall(p, k)
  PROVE  WatchInv'
<1> USE KeyMaps, ProcsApart, KeysApart DEF TunnelInv
<1>0. p \in Proc /\ p \notin Monitor /\ ManagerTypeOK /\ ProcShape
  BY DEF Proc
<1>1. ASSUME \A m \in Monitor : pc'[m] = pc[m] /\ key'[m] = key[m] /\ tun'[m] = tun[m],
             stop' = stop, reconnecting' \subseteq reconnecting,
             \A k \in Key : tunnels'[k] \in {None, tunnels[k]}
      PROVE  WatchInv'
  BY <1>1, WatchFrame, {} \in SUBSET Proc
<1>2. CASE AcquireStep(p) \/ DialStep(p) \/ ListenStep(p) \/ SetupFails(p) \/ ConnectLoses(p) \/ Return(p)
  <2>1. UNCHANGED mgrVars
    BY <1>2 DEF AcquireStep, DialStep, ListenStep, SetupFails, ConnectLoses, Return, mgrVars
  <2>2. \A m \in Monitor : pc'[m] = pc[m] /\ key'[m] = key[m] /\ tun'[m] = tun[m]
    BY <1>0, <1>2 DEF AcquireStep, DialStep, ListenStep, SetupFails, SetupFailed, ConnectLoses, Return,
       Rest, Goto, procVars, ManagerTypeOK, Proc
  <2> QED BY <1>1, <2>1, <2>2 DEF mgrVars
<1>3. CASE DrainStep(p)
  <2>1. UNCHANGED <<tunnels, stop>> /\ reconnecting' \subseteq reconnecting
    BY <1>3 DEF DrainStep
  <2>2. \A m \in Monitor : pc'[m] = pc[m] /\ key'[m] = key[m] /\ tun'[m] = tun[m]
    BY <1>0, <1>3 DEF DrainStep, Rest, Goto, ManagerTypeOK, Proc
  <2> QED BY <1>1, <2>1, <2>2
<1>4. ASSUME NEW k \in Key, ConnectCall(p, k)
      PROVE  WatchInv'
  <2>1. UNCHANGED mgrVars
    BY <1>4 DEF ConnectCall, mgrVars
  <2>2. \A m \in Monitor : pc'[m] = pc[m] /\ key'[m] = key[m] /\ tun'[m] = tun[m]
    BY <1>0, <1>4 DEF ConnectCall, Rest, Goto, ManagerTypeOK, Proc
  <2> QED BY <1>1, <2>1, <2>2 DEF mgrVars
<1>5. ASSUME NEW k \in Key, DisconnectCall(p, k)
      PROVE  WatchInv'
  <2>1. stop' = stop /\ tunnels' = [tunnels EXCEPT ![k] = None] /\ reconnecting' = reconnecting \ {k}
    BY <1>5 DEF DisconnectCall
  <2>2. \A m \in Monitor : pc'[m] = pc[m] /\ key'[m] = key[m] /\ tun'[m] = tun[m]
    BY <1>0, <1>5 DEF DisconnectCall, Rest, Goto, ManagerTypeOK, Proc
  <2> QED BY <1>0, <1>1, <2>1, <2>2 DEF ManagerTypeOK
<1>6. CASE ConnectWins(p)
  <2>1. PICK j \in Key : j = key[p]
    BY <1>0, <1>6 DEF ConnectWins, ProcShape, Setting
  <2>2. /\ stop' = stop
        /\ tunnels' = [tunnels EXCEPT ![j] = tun[p]]
        /\ reconnecting' = reconnecting \ {j}
        /\ tun' = [tun EXCEPT ![p] = None]
    BY <1>6, <2>1 DEF ConnectWins, Track
  <2>3. PICK n \in Monitor : /\ pc[n] = "idle"
                             /\ pc' = [pc EXCEPT ![p] = "connected", ![n] = "look"]
                             /\ key' = [key EXCEPT ![p] = None, ![n] = j]
    BY <1>6, <2>1 DEF ConnectWins
  <2>4. Watches(n, j)'
    BY <1>0, <2>3 DEF Watches, ManagerTypeOK, Proc
  <2>5. \A k \in Key : ~ Watches(n, k) /\ ~ Serves(n, k)
    BY <2>3 DEF Watches, Serves, Setting
  <2>6. \A m \in Monitor \ {p, n} : pc'[m] = pc[m] /\ key'[m] = key[m] /\ tun'[m] = tun[m]
    BY <1>0, <2>2, <2>3 DEF ManagerTypeOK, Proc
  <2>7. \A k \in Key : tunnels'[k] = tunnels[k] \/ k = j
    BY <1>0, <2>2 DEF ManagerTypeOK
  <2>8. {p, n} \in SUBSET Proc /\ reconnecting' \subseteq Key
    BY <1>0, <2>2 DEF Proc, ManagerTypeOK
  <2>9. \A k \in Key : tunnels'[k] # None =>
          \/ tunnels'[k] = tunnels[k] /\ \A m \in Monitor \cap {p, n} : Watches(m, k) => Watches(m, k)'
          \/ \E m \in Monitor : Watches(m, k)'
    BY <1>0, <2>4, <2>5, <2>7
  <2>10. \A k \in reconnecting' :
          \/ k \in reconnecting /\ \A m \in Monitor \cap {p, n} : Serves(m, k) => Serves(m, k)'
          \/ \E m \in Monitor : Serves(m, k)'
    BY <1>0, <2>2, <2>5, <2>8
  <2> HIDE DEF TunnelInv
  <2> QED BY <2>2, <2>6, <2>8, <2>9, <2>10, WatchFrame
<1> QED BY <1>2, <1>3, <1>4, <1>5, <1>6 DEF CommandNext, Connecting

------------------------------------------------------------------------------

\* What a step of monitor m has to show, when it moves no other monitor.
Moves(m) ==
  /\ \A n \in Monitor \ {m} : pc'[n] = pc[n] /\ key'[n] = key[n] /\ tun'[n] = tun[n]
  /\ stop' = stop
  /\ stop' \/ \A k \in Key : tunnels'[k] # None =>
       Watches(m, k)' \/ (tunnels'[k] = tunnels[k] /\ ~ Watches(m, k))
  /\ \A k \in reconnecting' : Serves(m, k)' \/ (k \in reconnecting /\ ~ Serves(m, k))

LEMMA MovesKeeps ==
  ASSUME TunnelInv, WatchInv, NEW m \in Monitor, Moves(m)
  PROVE  WatchInv'
<1>1. {m} \in SUBSET Proc
  BY DEF Proc
<1> QED BY <1>1, WatchFrame DEF Moves

\* A monitor leaves a tunnel only when the key tracks another or none, and a
\* reconnecting key only when it takes the flag away or has revived it.
LEMMA MonitorWatch ==
  ASSUME TunnelInv, WatchInv, NEW m \in Monitor, MonitorNext(m)
  PROVE  WatchInv'
<1> USE KeyMaps, ProcsApart, KeysApart DEF TunnelInv
<1>0. /\ m \in Proc /\ m \notin Command /\ ManagerTypeOK
      /\ pc[m] \in Setting \cup {"look", "arm", "watch", "check", "release", "retry", "forget"} =>
           key[m] \in Key
      /\ key[m] \in reconnecting => tunnels[key[m]] = None
      /\ reconnecting \subseteq Key
  BY DEF Proc, ProcShape, ManagerTypeOK, AliveXorReconnecting, Alive
<1> HIDE DEF TunnelInv
<1> USE DEF Moves, Watches, Serves, ManagerTypeOK, Setting, Alive, Goto, Rest, mgrVars, procVars
<1>1. CASE Look(m)
  <2>0. pc[m] = "look" /\ UNCHANGED mgrVars
    BY <1>1 DEF Look
  <2>1. CASE Alive(key[m])
    <3>1. /\ tun' = [tun EXCEPT ![m] = tunnels[key[m]]] /\ key' = key
          /\ pc' = [pc EXCEPT ![m] = "arm"]
      BY <1>1, <2>1 DEF Look
    <3> QED BY <1>0, <2>0, <3>1, MovesKeeps
  <2>2. CASE ~ Alive(key[m])
    <3>1. /\ tun' = [tun EXCEPT ![m] = None] /\ key' = [key EXCEPT ![m] = None]
          /\ pc' = [pc EXCEPT ![m] = "idle"]
      BY <1>1, <2>2 DEF Look
    <3> QED BY <1>0, <2>0, <2>2, <3>1, MovesKeeps
  <2> QED BY <2>1, <2>2
<1>2. CASE Arm(m)
  BY <1>0, <1>2, MovesKeeps DEF Arm
<1>3. CASE WatchStop(m)
  BY <1>0, <1>3, MovesKeeps DEF WatchStop
<1>4. CASE WatchDone(m)
  BY <1>0, <1>4, MovesKeeps DEF WatchDone, Done
<1>5. CASE WatchDead(m)
  BY <1>0, <1>5, MovesKeeps DEF WatchDead
<1>6. CASE Check(m)
  <2>0. pc[m] = "check" /\ stop' = stop
    BY <1>6 DEF Check
  <2>1. CASE TracksOwn(m)
    <3>1. /\ tunnels' = [tunnels EXCEPT ![key[m]] = None]
          /\ reconnecting' = reconnecting \cup {key[m]}
          /\ key' = key /\ tun' = tun /\ pc' = [pc EXCEPT ![m] = "release"]
      BY <1>6, <2>1 DEF Check
    <3> QED BY <1>0, <2>0, <3>1, MovesKeeps
  <2>2. CASE ~ TracksOwn(m)
    <3>1. /\ tun' = [tun EXCEPT ![m] = None] /\ key' = [key EXCEPT ![m] = None]
          /\ pc' = [pc EXCEPT ![m] = "idle"] /\ UNCHANGED mgrVars
      BY <1>6, <2>2 DEF Check
    <3> QED BY <1>0, <2>0, <2>2, <3>1, MovesKeeps DEF TracksOwn
  <2> QED BY <2>1, <2>2
<1>7. CASE ReleaseStep(m)
  BY <1>0, <1>7, MovesKeeps DEF ReleaseStep
<1>8. CASE Retry(m)
  <2>0. pc[m] = "retry" /\ UNCHANGED <<tunnels, stop, key, tun>>
    BY <1>8 DEF Retry
  <2>1. CASE stop \/ key[m] \notin reconnecting
    <3>1. reconnecting' = reconnecting /\ pc' = [pc EXCEPT ![m] = "forget"]
      BY <1>8, <2>1 DEF Retry
    <3> QED BY <1>0, <2>0, <3>1, MovesKeeps
  <2>2. CASE ~ stop /\ key[m] \in reconnecting
    <3>1. reconnecting' = reconnecting /\ pc' = [pc EXCEPT ![m] = "acquire"]
      BY <1>0, <1>8, <2>2 DEF Retry
    <3> QED BY <1>0, <2>0, <3>1, MovesKeeps
  <2> QED BY <2>1, <2>2
<1>9. CASE AcquireStep(m)
  BY <1>0, <1>9, MovesKeeps DEF AcquireStep
<1>10. CASE DialStep(m)
  BY <1>0, <1>10, MovesKeeps DEF DialStep
<1>11. CASE ListenStep(m)
  BY <1>0, <1>11, MovesKeeps DEF ListenStep
<1>12. CASE SetupFails(m)
  <2>1. UNCHANGED mgrVars /\ key' = key /\ tun' = [tun EXCEPT ![m] = None]
    BY <1>0, <1>12 DEF SetupFails, SetupFailed
  <2>2. pc[m] = "setup" /\ \E s \in {"retry", "forget"} : pc' = [pc EXCEPT ![m] = s]
    BY <1>0, <1>12 DEF SetupFails, SetupFailed
  <2> QED BY <1>0, <2>1, <2>2, MovesKeeps
<1>13. CASE DrainStep(m)
  <2>1. UNCHANGED <<tunnels, stop, key>> /\ reconnecting' \subseteq reconnecting
    BY <1>0, <1>13 DEF DrainStep
  <2>2. /\ pc[m] = "drain" /\ tun' = [tun EXCEPT ![m] = None]
        /\ pc' = [pc EXCEPT ![m] = after[m]]
    BY <1>0, <1>13 DEF DrainStep
  <2> QED BY <1>0, <2>1, <2>2, MovesKeeps
<1>14. CASE ReviveWins(m)
  BY <1>0, <1>14, MovesKeeps DEF ReviveWins, Track
<1>15. CASE ReviveLoses(m)
  BY <1>0, <1>15, MovesKeeps DEF ReviveLoses, MayRevive
<1>16. CASE Forget(m)
  BY <1>0, <1>16, MovesKeeps DEF Forget
<1> QED BY <1>1, <1>2, <1>3, <1>4, <1>5, <1>6, <1>7, <1>8, <1>9, <1>10, <1>11, <1>12, <1>13, <1>14, <1>15, <1>16 DEF MonitorNext, Connecting

\* Nothing else moves a monitor, and shutdown only forgets keys.
LEMMA WatchStep ==
  ASSUME TunnelInv, WatchInv, [TunnelNext]_vars
  PROVE  WatchInv'
<1>1. ASSUME UNCHANGED procVars, stop => stop', reconnecting' \subseteq reconnecting,
             \A k \in Key : tunnels'[k] \in {None, tunnels[k]}
      PROVE  WatchInv'
  <2>1. {} \in SUBSET Proc
    OBVIOUS
  <2> QED BY <1>1, <2>1, WatchFrame DEF procVars
<1>2. ASSUME NEW l \in Lease, Accept(l) \/ LoopNext(l)
      PROVE  WatchInv'
  <2>1. UNCHANGED procVars /\ UNCHANGED mgrVars
    BY <1>2 DEF LoopNext, Accept, AcceptFails, Forwarded, ForwardFails
  <2> QED BY <1>1, <2>1 DEF mgrVars
<1>3. ASSUME NEW c \in Client, ConnectionNext(c)
      PROVE  WatchInv'
  <2>1. UNCHANGED procVars /\ UNCHANGED mgrVars
    BY <1>3 DEF ConnectionNext
  <2> QED BY <1>1, <2>1 DEF mgrVars
<1>4. CASE StopAll
  BY <1>1, <1>4 DEF StopAll
<1>5. CASE TakeAll
  BY <1>1, <1>5 DEF TakeAll
<1>6. CASE CloseListeners \/ FinishAll
  <2>1. UNCHANGED procVars /\ UNCHANGED mgrVars
    BY <1>6 DEF CloseListeners, FinishAll
  <2> QED BY <1>1, <2>1 DEF mgrVars
<1>7. CASE UNCHANGED vars
  BY <1>1, <1>7 DEF vars, mgrVars
<1> QED BY <1>2, <1>3, <1>4, <1>5, <1>6, <1>7, CommandWatch, MonitorWatch
        DEF TunnelNext, RunningNext, DisconnectAllNext

\* Until shutdown every tracked tunnel has a monitor on it or on its way to it,
\* and a reconnecting key, shutdown or not, has one that revives it or gives it
\* up: in tunnel.go monitor and reconnectWithBackoff leave neither map behind.
THEOREM TunnelWatched == TunnelSpec => [](EveryTunnelMonitored /\ ReconnectingIsServed)
<1>1. TunnelInit => WatchInv
  BY DEF TunnelInit, WatchInv
<1>2. TunnelInv /\ [TunnelNext]_vars => TunnelInv'
  BY TunnelStepInv
<1>3. TunnelInv /\ WatchInv /\ [TunnelNext]_vars => WatchInv'
  BY WatchStep
<1>4. TunnelSpec => TunnelInit /\ [][TunnelNext]_vars
  BY DEF TunnelSpec, TunnelNext
<1> QED BY TunnelInitInv, WatchInvSays, <1>1, <1>2, <1>3, <1>4, PTL

\* ReconnectingIsServed by itself: no key stays in the reconnecting map, shown as
\* reconnecting, when reconnectWithBackoff has ended.
COROLLARY TunnelServed == TunnelSpec => []ReconnectingIsServed
BY TunnelWatched, PTL

------------------------------------------------------------------------------
(* The manager implements TunnelService: only TunnelInv is needed, since a  *)
(* key is never tracked and reconnecting at once, so that a revival and a   *)
(* death are single steps.                                                  *)

\* The variables of the service, as the manager has them.
StatusMap == [k \in Key |-> Status(k)]
CallMap   == [p \in Command |-> Call(p)]
ArgMap    == [p \in Command |-> IF pc[p] \in Setting THEN key[p] ELSE None]
EndedMap  == down \notin {"no", "stopped"}

Stutter == UNCHANGED <<StatusMap, CallMap, ArgMap, EndedMap>>

\* A step that leaves the maps alone changes no status.
LEMMA StatusKept ==
  ASSUME UNCHANGED <<tunnels, reconnecting>>
  PROVE  UNCHANGED StatusMap
BY DEF StatusMap, Status, Alive

\* A step that leaves the commands alone changes none of their calls.
LEMMA CallsKept ==
  ASSUME \A p \in Command : pc'[p] = pc[p] /\ key'[p] = key[p] /\ after'[p] = after[p]
  PROVE  UNCHANGED <<CallMap, ArgMap>>
BY DEF CallMap, ArgMap, Call

\* A step of one command changes only its own call.
LEMMA CallTurns ==
  ASSUME NEW p \in Command, NEW a, NEW k,
         \A q \in Command \ {p} : pc'[q] = pc[q] /\ key'[q] = key[q] /\ after'[q] = after[q],
         Call(p)' = a, (IF pc[p] \in Setting THEN key[p] ELSE None)' = k
  PROVE  CallMap' = [CallMap EXCEPT ![p] = a] /\ ArgMap' = [ArgMap EXCEPT ![p] = k]
<1>1. \A q \in Command \ {p} : Call(q)' = Call(q)
  BY DEF Call
<1> QED BY <1>1 DEF CallMap, ArgMap

\* A step that is over with reconnecting k only gives the key up.
LEMMA FlagDropped ==
  ASSUME TunnelInv, NEW k \in Key, UNCHANGED tunnels, reconnecting' = reconnecting \ {k}
  PROVE  \/ UNCHANGED StatusMap
         \/ StatusMap[k] = "Reconnecting" /\ StatusMap' = [StatusMap EXCEPT ![k] = "None"]
<1>1. CASE k \in reconnecting
  <2>1. ~ Alive(k)
    BY <1>1 DEF TunnelInv, AliveXorReconnecting
  <2> QED BY <1>1, <2>1 DEF StatusMap, Status, Alive
<1>2. CASE k \notin reconnecting
  BY <1>2 DEF StatusMap, Status, Alive
<1> QED BY <1>1, <1>2

------------------------------------------------------------------------------

LEMMA ServiceStart == TunnelInit => Service!ServiceInit
<1> SUFFICES ASSUME TunnelInit PROVE Service!ServiceInit
  OBVIOUS
<1>1. [k \in Key |-> Status(k)] = [k \in Key |-> "None"]
  BY DEF TunnelInit, Status, Alive
<1>2. \A p \in Command : pc[p] = "idle"
  BY DEF TunnelInit, Proc
<1>3. /\ [p \in Command |-> Call(p)] = [p \in Command |-> "idle"]
      /\ [p \in Command |-> IF pc[p] \in Setting THEN key[p] ELSE None] = [p \in Command |-> None]
  BY <1>2 DEF Call, Setting
<1>4. (down \notin {"no", "stopped"}) = FALSE
  BY DEF TunnelInit
<1> QED BY <1>1, <1>3, <1>4 DEF Service!ServiceInit

\* The steps of a command.
LEMMA CommandServes ==
  ASSUME TunnelInv, NEW p \in Command,
         CommandNext(p) \/ \E k \in Key : ConnectCall(p, k) \/ DisconnectCall(p, k)
  PROVE  Service!ServiceNext \/ Stutter
<1> USE DEF TunnelInv
<1>0. p \in Proc /\ p \notin Monitor /\ ManagerTypeOK /\ ProcShape
  BY ProcsApart DEF Proc
<1>1. CASE AcquireStep(p) \/ DialStep(p) \/ ListenStep(p)
  <2>1. UNCHANGED <<tunnels, reconnecting, down, key, after>>
    BY <1>1 DEF AcquireStep, DialStep, ListenStep, mgrVars, procVars, endVars
  <2>2. /\ pc[p] \in Setting /\ pc'[p] \in Setting
        /\ \A q \in Proc \ {p} : pc'[q] = pc[q]
    BY <1>0, <1>1 DEF AcquireStep, DialStep, ListenStep, Goto, procVars, Setting, ManagerTypeOK
  <2>3. UNCHANGED <<CallMap, ArgMap>>
    BY <2>1, <2>2 DEF CallMap, ArgMap, Call, Proc
  <2> QED BY <2>1, <2>3, StatusKept DEF Stutter, EndedMap
<1>2. CASE SetupFails(p)
  <2>1. UNCHANGED <<tunnels, reconnecting, down>> /\ Rest(p, "failed") /\ pc[p] = "setup"
    BY <1>2 DEF SetupFails, SetupFailed, mgrVars, endVars
  <2>2. /\ CallMap[p] = "connecting" /\ CallMap' = [CallMap EXCEPT ![p] = "failed"]
        /\ ArgMap' = [ArgMap EXCEPT ![p] = None]
    <3>1. CallMap[p] = "connecting"
      BY <2>1 DEF CallMap, Call, Setting
    <3> QED BY <1>0, <2>1, <3>1, CallTurns DEF Rest, Goto, Call, Setting, ManagerTypeOK, Proc
  <2>3. Service!Refuse(p)
    BY <2>1, <2>2, StatusKept DEF Service!Refuse, Service!Answer, StatusMap, CallMap, ArgMap
  <2> QED BY <2>3 DEF Service!ServiceNext
<1>3. CASE DrainStep(p)
  <2>1. /\ pc[p] = "drain" /\ after[p] \in Answers /\ Rest(p, after[p])
        /\ UNCHANGED <<tunnels, reconnecting, down>>
    BY <1>0, <1>3 DEF DrainStep, ProcShape, Answers, endVars
  <2>2. Call(p)' = Call(p) /\ (IF pc[p] \in Setting THEN key[p] ELSE None)' = None
    BY <1>0, <2>1 DEF Rest, Goto, Call, Setting, Answers, ManagerTypeOK
  <2>3. \A q \in Command \ {p} : pc'[q] = pc[q] /\ key'[q] = key[q] /\ after'[q] = after[q]
    BY <1>0, <2>1 DEF Rest, Goto, ManagerTypeOK, Proc
  <2>4. UNCHANGED <<CallMap, ArgMap>>
    BY <2>1, <2>2, <2>3 DEF CallMap, ArgMap, Call, Setting
  <2> QED BY <2>1, <2>4, StatusKept DEF Stutter, EndedMap
<1>4. CASE ConnectWins(p)
  <2>1. /\ pc[p] = "register" /\ key[p] \in Key /\ tun[p] \in Lease
        /\ tunnels' = [tunnels EXCEPT ![key[p]] = tun[p]] /\ reconnecting' = reconnecting \ {key[p]}
        /\ UNCHANGED <<down, after>>
    BY <1>0, <1>4 DEF ConnectWins, Track, ProcShape, Setting, endVars
  <2>2. /\ pc'[p] = "connected"
        /\ \A q \in Command \ {p} : pc'[q] = pc[q] /\ key'[q] = key[q]
    <3>1. PICK m \in Monitor : /\ pc' = [pc EXCEPT ![p] = "connected", ![m] = "look"]
                              /\ key' = [key EXCEPT ![p] = None, ![m] = key[p]]
      BY <1>4 DEF ConnectWins
    <3> QED BY <1>0, <3>1, ProcsApart DEF ManagerTypeOK, Proc
  <2>3. CallMap[p] = "connecting" /\ ArgMap[p] = key[p]
    BY <2>1 DEF CallMap, ArgMap, Call, Setting
  <2>4. CallMap' = [CallMap EXCEPT ![p] = "connected"] /\ ArgMap' = [ArgMap EXCEPT ![p] = None]
    BY <2>1, <2>2, CallTurns DEF Call, Setting
  <2>5. StatusMap' = [StatusMap EXCEPT ![ArgMap[p]] = "Alive"]
    BY <1>0, <2>1, <2>3, KeyMaps DEF StatusMap, Status, Alive, ManagerTypeOK
  <2>6. Service!Establish(p)
    BY <2>1, <2>3, <2>4, <2>5 DEF Service!Establish, Service!Answer, StatusMap, CallMap, ArgMap
  <2> QED BY <2>6 DEF Service!ServiceNext
<1>5. CASE ConnectLoses(p)
  <2>1. /\ pc[p] = "register" /\ key[p] \in Key /\ Alive(key[p])
        /\ pc' = [pc EXCEPT ![p] = "drain"] /\ after' = [after EXCEPT ![p] = "connected"]
        /\ UNCHANGED <<tunnels, reconnecting, down, key>>
    BY <1>0, <1>5 DEF ConnectLoses, Goto, ProcShape, Setting, mgrVars, endVars
  <2>2. CallMap[p] = "connecting" /\ ArgMap[p] = key[p]
    BY <2>1 DEF CallMap, ArgMap, Call, Setting
  <2>3. CallMap' = [CallMap EXCEPT ![p] = "connected"] /\ ArgMap' = [ArgMap EXCEPT ![p] = None]
    BY <1>0, <2>1, CallTurns DEF Call, Setting, ManagerTypeOK, Proc
  <2>4. StatusMap' = [StatusMap EXCEPT ![ArgMap[p]] = "Alive"]
    BY <2>1, <2>2 DEF StatusMap, Status, Alive
  <2>5. Service!Establish(p)
    BY <2>1, <2>2, <2>3, <2>4 DEF Service!Establish, Service!Answer, StatusMap, CallMap, ArgMap
  <2> QED BY <2>5 DEF Service!ServiceNext
<1>6. CASE Return(p)
  <2>1. pc[p] \in Answers /\ Rest(p, "idle") /\ UNCHANGED <<tunnels, reconnecting, down>>
    BY <1>6 DEF Return, mgrVars, endVars
  <2>2. /\ CallMap[p] \in {"connected", "failed", "disconnected"}
        /\ CallMap' = [CallMap EXCEPT ![p] = "idle"] /\ ArgMap' = [ArgMap EXCEPT ![p] = None]
    <3>1. CallMap[p] \in {"connected", "failed", "disconnected"}
      BY <2>1 DEF CallMap, Call, Setting, Answers
    <3> QED BY <1>0, <2>1, <3>1, CallTurns DEF Rest, Goto, Call, Setting, ManagerTypeOK, Proc
  <2>3. Service!Deliver(p)
    BY <2>1, <2>2, StatusKept DEF Service!Deliver, Service!Answer, StatusMap, CallMap, ArgMap
  <2> QED BY <2>3 DEF Service!ServiceNext
<1>7. ASSUME NEW k \in Key, ConnectCall(p, k)
      PROVE  Service!ServiceNext
  <2>1. pc[p] = "idle" /\ UNCHANGED <<tunnels, reconnecting, down>>
    BY <1>7 DEF ConnectCall, mgrVars, endVars
  <2>2. CallMap[p] = "idle" /\ StatusMap' = StatusMap
    BY <2>1, StatusKept DEF CallMap, Call, Setting
  <2>3. CASE Alive(k)
    <3>1. CallMap' = [CallMap EXCEPT ![p] = "connected"] /\ ArgMap' = [ArgMap EXCEPT ![p] = None]
      BY <1>0, <1>7, <2>3, CallTurns DEF ConnectCall, Rest, Goto, Call, Setting, ManagerTypeOK, Proc
    <3>2. StatusMap[k] = "Alive"
      BY <2>3 DEF StatusMap, Status
    <3>3. Service!Connect(p, k)
      BY <2>1, <2>2, <3>1, <3>2 DEF Service!Connect, Service!Answer, StatusMap, CallMap, ArgMap
    <3> QED BY <3>3 DEF Service!ServiceNext
  <2>4. CASE ~ Alive(k)
    <3>1. CallMap' = [CallMap EXCEPT ![p] = "connecting"] /\ ArgMap' = [ArgMap EXCEPT ![p] = k]
      BY <1>0, <1>7, <2>4, CallTurns DEF ConnectCall, Goto, Call, Setting, ManagerTypeOK, Proc
    <3>2. StatusMap[k] # "Alive"
      BY <2>4 DEF StatusMap, Status
    <3>3. Service!Connect(p, k)
      BY <2>1, <2>2, <3>1, <3>2 DEF Service!Connect, StatusMap, CallMap, ArgMap
    <3> QED BY <3>3 DEF Service!ServiceNext
  <2> QED BY <2>3, <2>4
<1>8. ASSUME NEW k \in Key, DisconnectCall(p, k)
      PROVE  Service!ServiceNext
  <2>1. /\ pc[p] = "idle" /\ UNCHANGED down
        /\ tunnels' = [tunnels EXCEPT ![k] = None] /\ reconnecting' = reconnecting \ {k}
    BY <1>8 DEF DisconnectCall, endVars
  <2>2. CallMap[p] = "idle"
    BY <2>1 DEF CallMap, Call, Setting
  <2>3. CallMap' = [CallMap EXCEPT ![p] = "disconnected"] /\ ArgMap' = [ArgMap EXCEPT ![p] = None]
    <3>1. CASE Alive(k)
      BY <1>0, <1>8, <3>1, CallTurns DEF DisconnectCall, Goto, Call, Setting, ManagerTypeOK, Proc
    <3>2. CASE ~ Alive(k)
      BY <1>0, <1>8, <3>2, CallTurns DEF DisconnectCall, Rest, Goto, Call, Setting, ManagerTypeOK, Proc
    <3> QED BY <3>1, <3>2
  <2>4. StatusMap' = [StatusMap EXCEPT ![k] = "None"]
    BY <1>0, <2>1 DEF StatusMap, Status, Alive, ManagerTypeOK
  <2>5. Service!Disconnect(p, k)
    BY <2>1, <2>2, <2>3, <2>4 DEF Service!Disconnect, Service!Answer, StatusMap, CallMap, ArgMap
  <2> QED BY <2>5 DEF Service!ServiceNext
<1> QED BY <1>1, <1>2, <1>3, <1>4, <1>5, <1>6, <1>7, <1>8 DEF CommandNext, Connecting

\* The steps of a monitor: a tunnel dies, is revived or is given up.
LEMMA MonitorServes ==
  ASSUME TunnelInv, NEW m \in Monitor, MonitorNext(m)
  PROVE  Service!ServiceNext \/ Stutter
<1>0. m \in Proc /\ m \notin Command /\ ManagerTypeOK /\ ProcShape
  BY ProcsApart DEF TunnelInv, Proc
<1>1. UNCHANGED <<CallMap, ArgMap, down>>
  <2> USE DEF MonitorNext, Connecting, AcquireStep, DialStep, ListenStep, SetupFails, SetupFailed,
              DrainStep, Look, Arm, WatchStop, WatchDone, WatchDead, Check, ReleaseStep, Retry,
              ReviveWins, ReviveLoses, Forget
  <2>1. UNCHANGED down
    BY DEF endVars
  <2>2. \A q \in Command : pc'[q] = pc[q] /\ key'[q] = key[q] /\ after'[q] = after[q]
    BY <1>0 DEF Rest, Goto, procVars, ManagerTypeOK, Proc
  <2> HIDE DEF MonitorNext, Connecting, AcquireStep, DialStep, ListenStep, SetupFails, SetupFailed,
               DrainStep, Look, Arm, WatchStop, WatchDone, WatchDead, Check, ReleaseStep, Retry,
               ReviveWins, ReviveLoses, Forget
  <2> QED BY <2>1, <2>2, CallsKept
<1>2. ASSUME UNCHANGED <<tunnels, reconnecting>>
      PROVE  Stutter
  BY <1>1, <1>2, StatusKept DEF Stutter, EndedMap
<1>3. ASSUME NEW k \in Key, UNCHANGED tunnels, reconnecting' = reconnecting \ {k}
      PROVE  Service!ServiceNext \/ Stutter
  <2>1. CASE UNCHANGED StatusMap
    BY <1>1, <2>1 DEF Stutter, EndedMap
  <2>2. CASE StatusMap[k] = "Reconnecting" /\ StatusMap' = [StatusMap EXCEPT ![k] = "None"]
    <3>1. Service!GiveUp(k)
      BY <1>1, <2>2 DEF Service!GiveUp, Service!Turn, StatusMap, CallMap, ArgMap
    <3> QED BY <3>1 DEF Service!ServiceNext
  <2> QED BY <1>3, <2>1, <2>2, FlagDropped
<1>4. CASE Check(m)
  <2>1. pc[m] = "check" /\ key[m] \in Key /\ tun[m] \in Lease
    BY <1>0, <1>4 DEF Check, ProcShape
  <2>2. CASE TracksOwn(m)
    <3>1. /\ tunnels[key[m]] # None /\ tunnels' = [tunnels EXCEPT ![key[m]] = None]
          /\ reconnecting' = reconnecting \cup {key[m]}
      BY <1>4, <2>1, <2>2, KeyMaps DEF Check, TracksOwn
    <3>2. StatusMap[key[m]] = "Alive" /\ StatusMap' = [StatusMap EXCEPT ![key[m]] = "Reconnecting"]
      BY <1>0, <2>1, <3>1 DEF StatusMap, Status, Alive, ManagerTypeOK
    <3>3. Service!Die(key[m])
      BY <1>1, <3>2 DEF Service!Die, Service!Turn, StatusMap, CallMap, ArgMap
    <3> QED BY <2>1, <3>3 DEF Service!ServiceNext
  <2>3. CASE ~ TracksOwn(m)
    BY <1>2, <1>4, <2>3 DEF Check, mgrVars
  <2> QED BY <2>2, <2>3
<1>5. CASE ReviveWins(m)
  <2>1. /\ key[m] \in reconnecting /\ tunnels[key[m]] = None /\ key[m] \in Key /\ tun[m] \in Lease
        /\ tunnels' = [tunnels EXCEPT ![key[m]] = tun[m]] /\ reconnecting' = reconnecting \ {key[m]}
    BY <1>0, <1>5 DEF ReviveWins, MayRevive, Track, Alive, ProcShape, Setting
  <2>2. StatusMap[key[m]] = "Reconnecting" /\ StatusMap' = [StatusMap EXCEPT ![key[m]] = "Alive"]
    BY <1>0, <2>1, KeyMaps DEF StatusMap, Status, Alive, ManagerTypeOK
  <2>3. Service!Revive(key[m])
    BY <1>1, <2>2 DEF Service!Revive, Service!Turn, StatusMap, CallMap, ArgMap
  <2> QED BY <2>1, <2>3 DEF Service!ServiceNext
<1>6. CASE Retry(m) \/ Forget(m) \/ DrainStep(m)
  <2>1. key[m] \in Key /\ UNCHANGED tunnels
    BY <1>0, <1>6 DEF Retry, Forget, DrainStep, ProcShape
  <2>2. UNCHANGED reconnecting \/ reconnecting' = reconnecting \ {key[m]}
    BY <1>6 DEF Retry, Forget, DrainStep
  <2> QED BY <1>2, <1>3, <2>1, <2>2
<1>7. CASE \/ AcquireStep(m) \/ DialStep(m) \/ ListenStep(m) \/ SetupFails(m)
           \/ Look(m) \/ Arm(m) \/ WatchStop(m) \/ WatchDone(m) \/ WatchDead(m)
           \/ ReleaseStep(m) \/ ReviveLoses(m)
  BY <1>2, <1>7 DEF AcquireStep, DialStep, ListenStep, SetupFails, Look, Arm, WatchStop, WatchDone,
     WatchDead, ReleaseStep, ReviveLoses, mgrVars
<1> QED BY <1>4, <1>5, <1>6, <1>7 DEF MonitorNext, Connecting

\* Every step of the manager is a step of the service, or none.
LEMMA StepServes ==
  ASSUME TunnelInv, [TunnelNext]_vars
  PROVE  Service!ServiceNext \/ Stutter
<1>1. ASSUME UNCHANGED <<mgrVars, procVars, endVars>>
      PROVE  Stutter
  BY <1>1, StatusKept, CallsKept DEF Stutter, EndedMap, mgrVars, procVars, endVars
<1>2. ASSUME NEW l \in Lease, Accept(l) \/ LoopNext(l)
      PROVE  Stutter
  BY <1>1, <1>2 DEF LoopNext, Accept, AcceptFails, Forwarded, ForwardFails
<1>3. ASSUME NEW c \in Client, ConnectionNext(c)
      PROVE  Stutter
  BY <1>1, <1>3 DEF ConnectionNext
<1>4. CASE StopAll \/ CloseListeners \/ FinishAll
  <2>1. UNCHANGED <<tunnels, reconnecting, pc, key, after>> /\ EndedMap' = EndedMap
    BY <1>4 DEF StopAll, CloseListeners, FinishAll, mgrVars, procVars, EndedMap
  <2> QED BY <2>1, StatusKept, CallsKept DEF Stutter
<1>5. CASE TakeAll
  <2>1. /\ EndedMap = FALSE /\ EndedMap' = TRUE
        /\ tunnels' = [k \in Key |-> None] /\ reconnecting' = {} /\ UNCHANGED <<pc, key, after>>
    BY <1>5 DEF TakeAll, EndedMap, procVars
  <2>2. UNCHANGED <<CallMap, ArgMap>>
    BY <2>1, CallsKept
  <2>3. StatusMap' = [k \in Key |-> "None"]
    BY <2>1 DEF StatusMap, Status, Alive
  <2>4. Service!End
    BY <2>1, <2>2, <2>3 DEF Service!End, StatusMap, CallMap, ArgMap, EndedMap
  <2> QED BY <2>4 DEF Service!ServiceNext
<1>6. CASE UNCHANGED vars
  BY <1>1, <1>6 DEF vars
<1> QED BY <1>2, <1>3, <1>4, <1>5, <1>6, CommandServes, MonitorServes
      DEF TunnelNext, RunningNext, DisconnectAllNext

\* The TunnelManager is linearizable, however its goroutines interleave: each
\* Connect and Disconnect takes effect at one instant between call and answer,
\* and a live tunnel is never just gone (what Status of tunnel.go shows of it).
THEOREM TunnelImplements == TunnelSpec => Implements
<1>1. TunnelInv /\ [TunnelNext]_vars => TunnelInv'
  BY TunnelStepInv
<1>2. TunnelInv /\ [TunnelNext]_vars => [Service!ServiceNext]_(Service!serviceVars)
  BY StepServes DEF Stutter, StatusMap, CallMap, ArgMap, EndedMap, Service!serviceVars
<1>3. TunnelSpec => TunnelInit /\ [][TunnelNext]_vars
  BY DEF TunnelSpec, TunnelNext
<1> QED BY TunnelInitInv, ServiceStart, <1>1, <1>2, <1>3, PTL DEF Implements, Service!ServiceSpec

==============================================================================
