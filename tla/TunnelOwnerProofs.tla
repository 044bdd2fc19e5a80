--------------------------- MODULE TunnelOwnerProofs ---------------------------
(***************************************************************************)
(* Proof that every lease of the pool has one owner in the TunnelManager,  *)
(* for every set of keys, commands, monitors and tunnels and with          *)
(* DisconnectAll at any time: no race leaks a connection or releases it    *)
(* twice.                                                                  *)
(*                                                                         *)
(* Seen from the leases the manager makes five kinds of moves: a goroutine *)
(* takes a free lease, puts it under a key, takes it from a key, gives it  *)
(* back, and DisconnectAll takes what all keys have.  OwnerInv is kept by  *)
(* each of the moves, and each step is one of them.                        *)
(*                                                                         *)
(* From the owners follow the ports, which are bound only for a lease that *)
(* has one, and with them what a quiet manager has left: nothing.          *)
(***************************************************************************)
EXTENDS TunnelManagerProofs

\* The lease a goroutine has to release, and the leases that are out there.
Mine == [p \in Proc |-> IF pc[p] \in Owning THEN tun[p] ELSE None]
Used == {l \in Lease : stage[l] # "out"}

OwnersUse ==
  /\ \A k \in Key : tunnels[k] # None => tunnels[k] \in Used
  /\ \A p \in Proc : Mine[p] # None => Mine[p] \in Used
  /\ doomed \subseteq Used

OwnersApart ==
  /\ \A k, j \in Key : tunnels[k] # None /\ tunnels[k] = tunnels[j] => k = j
  /\ \A p, q \in Proc : Mine[p] # None /\ Mine[p] = Mine[q] => p = q
  /\ \A k \in Key, p \in Proc : tunnels[k] # None => Mine[p] # tunnels[k]
  /\ \A l \in doomed : (\A k \in Key : tunnels[k] # l) /\ \A p \in Proc : Mine[p] # l

UsedOwned ==
  \A l \in Used :
    \/ \E k \in Key : tunnels[k] = l
    \/ \E p \in Proc : Mine[p] = l
    \/ l \in doomed

DoomedLater == down \in {"no", "stopped"} => doomed = {}

OwnerInv == OwnersUse /\ OwnersApart /\ UsedOwned /\ DoomedLater

OwnTypeOK ==
  /\ tunnels \in [Key -> Lease \cup {None}]
  /\ Mine \in [Proc -> Lease \cup {None}]
  /\ doomed \subseteq Lease /\ Used \subseteq Lease

------------------------------------------------------------------------------
(* The moves *)

NoMove == UNCHANGED <<tunnels, Mine, Used, doomed>>

TakesNew(p, l) ==
  /\ l \in Lease \ Used /\ Mine[p] = None
  /\ Used' = Used \cup {l}
  /\ Mine' = [Mine EXCEPT ![p] = l]
  /\ UNCHANGED <<tunnels, doomed>>

GivesBack(p) ==
  /\ Mine[p] # None
  /\ Used' = Used \ {Mine[p]}
  /\ Mine' = [Mine EXCEPT ![p] = None]
  /\ UNCHANGED <<tunnels, doomed>>

PutsUnder(p, k) ==
  /\ Mine[p] # None /\ tunnels[k] = None
  /\ tunnels' = [tunnels EXCEPT ![k] = Mine[p]]
  /\ Mine' = [Mine EXCEPT ![p] = None]
  /\ UNCHANGED <<Used, doomed>>

TakesFrom(p, k) ==
  /\ Mine[p] = None /\ tunnels[k] # None
  /\ Mine' = [Mine EXCEPT ![p] = tunnels[k]]
  /\ tunnels' = [tunnels EXCEPT ![k] = None]
  /\ UNCHANGED <<Used, doomed>>

TakesAll ==
  /\ doomed = {} /\ doomed' = {tunnels[k] : k \in Key} \ {None}
  /\ tunnels' = [k \in Key |-> None]
  /\ UNCHANGED <<Mine, Used>>

Move ==
  \/ NoMove
  \/ \E p \in Proc, l \in Lease : TakesNew(p, l)
  \/ \E p \in Proc : GivesBack(p)
  \/ \E p \in Proc, k \in Key : PutsUnder(p, k) \/ TakesFrom(p, k)
  \/ TakesAll

OwnedApart == OwnersUse /\ OwnersApart /\ UsedOwned

\* No move leaves a lease without an owner or gives it two.
LEMMA MoveKeeps ==
  ASSUME OwnTypeOK, OwnedApart, Move
  PROVE  OwnedApart'
<1> USE KeyMaps, KeysApart DEF OwnTypeOK, OwnedApart, OwnersUse, OwnersApart, UsedOwned
<1>1. CASE NoMove
  BY <1>1 DEF NoMove
<1>2. ASSUME NEW p \in Proc, NEW l \in Lease, TakesNew(p, l)
      PROVE  OwnedApart'
  BY <1>2 DEF TakesNew
<1>3. ASSUME NEW p \in Proc, GivesBack(p)
      PROVE  OwnedApart'
  BY <1>3 DEF GivesBack
<1>4. ASSUME NEW p \in Proc, NEW k \in Key, PutsUnder(p, k)
      PROVE  OwnedApart'
  BY <1>4 DEF PutsUnder
<1>5. ASSUME NEW p \in Proc, NEW k \in Key, TakesFrom(p, k)
      PROVE  OwnedApart'
  BY <1>5 DEF TakesFrom
<1>6. CASE TakesAll
  BY <1>6 DEF TakesAll
<1> HIDE DEF OwnedApart, OwnTypeOK
<1> QED BY <1>1, <1>2, <1>3, <1>4, <1>5, <1>6 DEF Move

------------------------------------------------------------------------------
(* Each step is a move *)

\* What a step of goroutine p of the pool's lease l does to Used.
LEMMA AcquireUses ==
  ASSUME PoolTypeOK, NEW l \in Lease, NEW h \in Host, AcquireShared(l, h) \/ AcquireMiss(l, h)
  PROVE  l \notin Used /\ Used' = Used \cup {l}
BY DEF PoolTypeOK, AcquireShared, AcquireMiss, Hold, Used, Stages

LEMMA ReleaseUses ==
  ASSUME PoolTypeOK, NEW l \in Lease, Release(l) \/ DialFails(l)
  PROVE  l \in Used /\ Used' = Used \ {l}
BY DEF PoolTypeOK, Release, DialFails, Drained, Used

LEMMA DialUses ==
  ASSUME PoolTypeOK, NEW l \in Lease,
         (\E c \in Client : DialOk(l, c)) \/ AcquireLost(l) \/ AcquireWon(l)
  PROVE  Used' = Used
BY DEF PoolTypeOK, DialOk, AcquireLost, AcquireWon, Hold, Used

LEMMA IdleUses ==
  ASSUME UNCHANGED stage
  PROVE  Used' = Used
BY DEF Used

LEMMA OwnType ==
  ASSUME TunnelInv
  PROVE  OwnTypeOK
BY DEF TunnelInv, ManagerTypeOK, ProcShape, OwnTypeOK, Mine, Used, Owning

\* Setting a tunnel up takes a new lease or gives it back, tearing one down
\* gives it back.
LEMMA ConnectingMoves ==
  ASSUME TunnelInv, NEW p \in Proc, Connecting(p)
  PROVE  Move
<1> USE KeyMaps DEF TunnelInv, Move
<1>0. PoolTypeOK /\ ManagerTypeOK /\ ProcShape
  BY DEF PoolInv
<1>1. CASE AcquireStep(p)
  <2>1. PICK l \in Lease :
          /\ AcquireShared(l, HostOf[key[p]]) \/ AcquireMiss(l, HostOf[key[p]])
          /\ tun' = [tun EXCEPT ![p] = l]
    BY <1>1 DEF AcquireStep
  <2>2. pc[p] = "acquire" /\ pc' = [pc EXCEPT ![p] = "setup"] /\ UNCHANGED <<tunnels, doomed>>
    BY <1>1 DEF AcquireStep, Goto, mgrVars, endVars
  <2>3. HostOf[key[p]] \in Host
    BY <1>0, <2>2 DEF ProcShape, Setting
  <2>4. l \notin Used /\ Used' = Used \cup {l}
    BY <1>0, <2>1, <2>3, AcquireUses
  <2>5. Mine[p] = None /\ Mine' = [Mine EXCEPT ![p] = l]
    BY <1>0, <2>1, <2>2 DEF ManagerTypeOK, Mine, Owning
  <2> QED BY <2>2, <2>4, <2>5 DEF TakesNew
<1>2. CASE DialStep(p)
  <2>1. UNCHANGED <<tunnels, pc, tun, doomed>> /\ tun[p] \in Lease
    BY <1>0, <1>2 DEF DialStep, mgrVars, procVars, endVars, ProcShape
  <2>2. Used' = Used
    BY <1>0, <1>2, <2>1, DialUses DEF DialStep
  <2>3. Mine' = Mine
    BY <2>1 DEF Mine
  <2> QED BY <2>1, <2>2, <2>3 DEF NoMove
<1>3. CASE ListenStep(p)
  <2>1. UNCHANGED <<tunnels, tun, doomed, stage>>
    BY <1>3 DEF ListenStep, mgrVars, poolVars, endVars
  <2>2. Mine' = Mine
    BY <1>0, <1>3 DEF ListenStep, Goto, ManagerTypeOK, Mine, Owning
  <2> QED BY <2>1, <2>2, IdleUses DEF NoMove
<1>4. CASE SetupFails(p)
  <2>1. tun[p] \in Lease /\ pc[p] = "setup" /\ UNCHANGED <<tunnels, doomed>>
    BY <1>0, <1>4 DEF SetupFails, ProcShape, mgrVars, endVars
  <2>2. Used' = Used \ {tun[p]}
    BY <1>0, <1>4, <2>1, ReleaseUses DEF SetupFails
  <2>3. Mine[p] = tun[p] /\ Mine' = [Mine EXCEPT ![p] = None]
    BY <1>0, <1>4, <2>1 DEF SetupFails, SetupFailed, Rest, Goto, ManagerTypeOK, Mine, Owning
  <2> QED BY <2>1, <2>2, <2>3 DEF GivesBack
<1>5. CASE DrainStep(p)
  <2>1. tun[p] \in Lease /\ pc[p] = "drain" /\ UNCHANGED <<tunnels, doomed>>
    BY <1>0, <1>5 DEF DrainStep, ProcShape, endVars
  <2>2. Used' = Used \ {tun[p]}
    BY <1>0, <1>5, <2>1, ReleaseUses DEF DrainStep
  <2>3. after[p] \notin Owning
    BY <1>0, <2>1, ProcsApart DEF ProcShape, Proc, Answers, Owning
  <2>4. Mine[p] = tun[p] /\ Mine' = [Mine EXCEPT ![p] = None]
    BY <1>0, <1>5, <2>1, <2>3 DEF DrainStep, Rest, Goto, ManagerTypeOK, Mine, Owning
  <2> QED BY <2>1, <2>2, <2>4 DEF GivesBack
<1> QED BY <1>1, <1>2, <1>3, <1>4, <1>5 DEF Connecting

\* Connect and Disconnect put a tunnel under a key or take it from there.
LEMMA CommandMoves ==
  ASSUME TunnelInv, NEW p \in Command,
         CommandNext(p) \/ \E k \in Key : ConnectCall(p, k) \/ DisconnectCall(p, k)
  PROVE  Move
<1> USE KeyMaps DEF TunnelInv
<1>0. p \in Proc /\ ManagerTypeOK /\ ProcShape
  BY DEF Proc
<1>1. ASSUME NEW k \in Key, ConnectCall(p, k)
      PROVE  Move
  <2>1. UNCHANGED <<tunnels, doomed, stage>>
    BY <1>1 DEF ConnectCall, mgrVars, poolVars, endVars
  <2>2. Mine' = Mine
    BY <1>0, <1>1 DEF ConnectCall, Rest, Goto, ManagerTypeOK, Mine, Owning
  <2> QED BY <2>1, <2>2, IdleUses DEF Move, NoMove
<1>2. ASSUME NEW k \in Key, DisconnectCall(p, k)
      PROVE  Move
  <2>1. /\ pc[p] = "idle" /\ tunnels' = [tunnels EXCEPT ![k] = None]
        /\ UNCHANGED <<doomed, stage>>
    BY <1>2 DEF DisconnectCall, poolVars, endVars
  <2>2. CASE Alive(k)
    <3>1. pc' = [pc EXCEPT ![p] = "drain"] /\ tun' = [tun EXCEPT ![p] = tunnels[k]]
      BY <1>2, <2>2 DEF DisconnectCall, Goto
    <3>2. Mine[p] = None /\ Mine' = [Mine EXCEPT ![p] = tunnels[k]]
      BY <1>0, <2>1, <3>1 DEF ManagerTypeOK, Mine, Owning
    <3> QED BY <1>0, <2>1, <2>2, <3>2, IdleUses DEF Move, TakesFrom, Alive
  <2>3. CASE ~ Alive(k)
    <3>1. Mine' = Mine
      BY <1>0, <1>2, <2>1, <2>3 DEF DisconnectCall, Rest, Goto, ManagerTypeOK, Mine, Owning
    <3>2. tunnels' = tunnels
      BY <1>0, <2>1, <2>3 DEF ManagerTypeOK, Alive
    <3> QED BY <2>1, <3>1, <3>2, IdleUses DEF Move, NoMove
  <2> QED BY <2>2, <2>3
<1>3. CASE ConnectWins(p)
  <2>1. /\ key[p] \in Key /\ tun[p] \in Lease /\ pc[p] = "register"
        /\ tunnels[key[p]] = None /\ tunnels' = [tunnels EXCEPT ![key[p]] = tun[p]]
        /\ UNCHANGED <<doomed, stage>>
    BY <1>0, <1>3 DEF ConnectWins, Track, Alive, ProcShape, Setting, poolVars, endVars
  <2>2. PICK m \in Monitor : pc[m] = "idle" /\ pc' = [pc EXCEPT ![p] = "connected", ![m] = "look"]
    BY <1>3 DEF ConnectWins
  <2>3. Mine[p] = tun[p] /\ Mine' = [Mine EXCEPT ![p] = None]
    BY <1>0, <1>3, <2>1, <2>2, ProcsApart DEF ConnectWins, ManagerTypeOK, Mine, Owning, Proc
  <2> QED BY <1>0, <2>1, <2>3, IdleUses DEF Move, PutsUnder
<1>4. CASE ConnectLoses(p)
  <2>1. UNCHANGED <<tunnels, doomed, stage, tun>>
    BY <1>4 DEF ConnectLoses, mgrVars, poolVars, endVars
  <2>2. Mine' = Mine
    BY <1>0, <1>4, <2>1 DEF ConnectLoses, Goto, ManagerTypeOK, Mine, Owning
  <2> QED BY <2>1, <2>2, IdleUses DEF Move, NoMove
<1>5. CASE Return(p)
  <2>1. UNCHANGED <<tunnels, doomed, stage>>
    BY <1>5 DEF Return, mgrVars, poolVars, endVars
  <2>2. Mine' = Mine
    BY <1>0, <1>5 DEF Return, Rest, Goto, ManagerTypeOK, Mine, Owning, Answers
  <2> QED BY <2>1, <2>2, IdleUses DEF Move, NoMove
<1> QED BY <1>0, <1>1, <1>2, <1>3, <1>4, <1>5, ConnectingMoves DEF CommandNext

\* A monitor takes a dead tunnel from its key, gives it back, and puts what it
\* set up under the key again.
LEMMA MonitorMoves ==
  ASSUME TunnelInv, NEW m \in Monitor, MonitorNext(m)
  PROVE  Move
<1> USE KeyMaps DEF TunnelInv
<1>0. m \in Proc /\ PoolTypeOK /\ ManagerTypeOK /\ ProcShape
  BY DEF Proc, PoolInv
<1>1. CASE Look(m) \/ Arm(m) \/ WatchStop(m) \/ WatchDone(m) \/ WatchDead(m) \/ Retry(m) \/ Forget(m)
  <2>1. UNCHANGED <<tunnels, doomed, stage>>
    BY <1>1 DEF Look, Arm, WatchStop, WatchDone, WatchDead, Retry, Forget, mgrVars, poolVars, endVars
  <2>2. Mine' = Mine
    <3>1. /\ pc[m] \notin Owning
          /\ \E s \in {"idle", "arm", "watch", "check", "forget", "look", "acquire"} :
               pc' = [pc EXCEPT ![m] = s]
      BY <1>1 DEF Look, Arm, WatchStop, WatchDone, WatchDead, Retry, Forget, Goto, Rest, Owning
    <3>2. \A q \in Proc \ {m} : tun'[q] = tun[q]
      BY <1>0, <1>1 DEF Look, Arm, WatchStop, WatchDone, WatchDead, Retry, Forget, Goto, Rest, ManagerTypeOK
    <3> QED BY <1>0, <3>1, <3>2 DEF ManagerTypeOK, Mine, Owning
  <2> QED BY <2>1, <2>2, IdleUses DEF Move, NoMove
<1>2. CASE Check(m)
  <2>1. pc[m] = "check" /\ key[m] \in Key /\ tun[m] \in Lease /\ UNCHANGED <<doomed, stage>>
    BY <1>0, <1>2 DEF Check, ProcShape, poolVars, endVars
  <2>2. CASE TracksOwn(m)
    <3>1. /\ tunnels[key[m]] = tun[m] /\ tunnels' = [tunnels EXCEPT ![key[m]] = None]
          /\ pc' = [pc EXCEPT ![m] = "release"] /\ tun' = tun
      BY <1>2, <2>2 DEF Check, TracksOwn, Goto
    <3>2. Mine[m] = None /\ Mine' = [Mine EXCEPT ![m] = tunnels[key[m]]]
      BY <1>0, <2>1, <3>1 DEF ManagerTypeOK, Mine, Owning
    <3> QED BY <1>0, <2>1, <3>1, <3>2, IdleUses DEF Move, TakesFrom
  <2>3. CASE ~ TracksOwn(m)
    <3>1. UNCHANGED tunnels
      BY <1>2, <2>3 DEF Check, mgrVars
    <3>2. Mine' = Mine
      BY <1>0, <1>2, <2>1, <2>3 DEF Check, Rest, Goto, ManagerTypeOK, Mine, Owning
    <3> QED BY <2>1, <3>1, <3>2, IdleUses DEF Move, NoMove
  <2> QED BY <2>2, <2>3
<1>3. CASE ReleaseStep(m)
  <2>1. tun[m] \in Lease /\ pc[m] = "release" /\ UNCHANGED <<tunnels, doomed>>
    BY <1>0, <1>3 DEF ReleaseStep, ProcShape, mgrVars, endVars
  <2>2. Used' = Used \ {tun[m]}
    BY <1>0, <1>3, <2>1, ReleaseUses DEF ReleaseStep
  <2>3. Mine[m] = tun[m] /\ Mine' = [Mine EXCEPT ![m] = None]
    BY <1>0, <1>3, <2>1 DEF ReleaseStep, Goto, ManagerTypeOK, Mine, Owning
  <2> QED BY <1>0, <2>1, <2>2, <2>3 DEF Move, GivesBack
<1>4. CASE ReviveWins(m)
  <2>1. /\ key[m] \in Key /\ tun[m] \in Lease /\ pc[m] = "register"
        /\ tunnels[key[m]] = None /\ tunnels' = [tunnels EXCEPT ![key[m]] = tun[m]]
        /\ UNCHANGED <<doomed, stage>>
    BY <1>0, <1>4 DEF ReviveWins, MayRevive, Track, Alive, ProcShape, Setting, poolVars, endVars
  <2>2. Mine[m] = tun[m] /\ Mine' = [Mine EXCEPT ![m] = None]
    BY <1>0, <1>4, <2>1 DEF ReviveWins, Goto, ManagerTypeOK, Mine, Owning
  <2> QED BY <1>0, <2>1, <2>2, IdleUses DEF Move, PutsUnder
<1>5. CASE ReviveLoses(m)
  <2>1. UNCHANGED <<tunnels, doomed, stage, tun>>
    BY <1>5 DEF ReviveLoses, mgrVars, poolVars, endVars
  <2>2. Mine' = Mine
    BY <1>0, <1>5, <2>1 DEF ReviveLoses, Goto, ManagerTypeOK, Mine, Owning
  <2> QED BY <2>1, <2>2, IdleUses DEF Move, NoMove
<1> QED BY <1>0, <1>1, <1>2, <1>3, <1>4, <1>5, ConnectingMoves DEF MonitorNext

------------------------------------------------------------------------------

\* OwnerInv is inductive, together with the invariant of the other theorems.
LEMMA OwnerStep ==
  ASSUME TunnelInv, OwnerInv, [TunnelNext]_vars
  PROVE  OwnerInv'
<1>0. OwnTypeOK
  BY OwnType
<1>1. ASSUME Move, UNCHANGED <<down, doomed>>
      PROVE  OwnerInv'
  BY <1>0, <1>1, MoveKeeps DEF OwnerInv, OwnedApart, DoomedLater
<1>2. ASSUME NEW p \in Command,
             CommandNext(p) \/ \E k \in Key : ConnectCall(p, k) \/ DisconnectCall(p, k)
      PROVE  OwnerInv'
  <2>1. UNCHANGED endVars
    BY <1>2 DEF CommandNext, Connecting, AcquireStep, DialStep, ListenStep, SetupFails, DrainStep,
       ConnectWins, ConnectLoses, Return, ConnectCall, DisconnectCall
  <2> QED BY <1>1, <1>2, <2>1, CommandMoves DEF endVars
<1>3. ASSUME NEW m \in Monitor, MonitorNext(m)
      PROVE  OwnerInv'
  <2>1. UNCHANGED endVars
    BY <1>3 DEF MonitorNext, Connecting, AcquireStep, DialStep, ListenStep, SetupFails, DrainStep,
       Look, Arm, WatchStop, WatchDone, WatchDead, Check, ReleaseStep, Retry, ReviveWins,
       ReviveLoses, Forget
  <2> QED BY <1>1, <1>3, <2>1, MonitorMoves DEF endVars
<1>4. ASSUME UNCHANGED <<tunnels, stage, pc, tun, doomed>>
      PROVE  OwnedApart'
  <2>1. Mine' = Mine /\ Used' = Used
    BY <1>4, IdleUses DEF Mine
  <2> QED BY <1>0, <1>4, <2>1, MoveKeeps DEF Move, NoMove, OwnerInv, OwnedApart
<1>5. ASSUME NEW l \in Lease, Accept(l) \/ LoopNext(l)
      PROVE  OwnerInv'
  BY <1>4, <1>5 DEF LoopNext, Accept, AcceptFails, Forwarded, ForwardFails,
     OwnerInv, OwnedApart, DoomedLater, poolVars, mgrVars, procVars, endVars
<1>6. ASSUME NEW c \in Client, ConnectionNext(c)
      PROVE  OwnerInv'
  BY <1>4, <1>6 DEF ConnectionNext, Drop, WaitReturns,
     OwnerInv, OwnedApart, DoomedLater, mgrVars, procVars, endVars
<1>7. CASE StopAll \/ CloseListeners \/ FinishAll
  BY <1>4, <1>7 DEF StopAll, CloseListeners, FinishAll, CloseAll,
     OwnerInv, OwnedApart, DoomedLater, poolVars, mgrVars, procVars
<1>8. CASE TakeAll
  <2>1. doomed = {} /\ down' = "taken" /\ UNCHANGED <<stage, pc, tun>>
    BY <1>8 DEF TakeAll, OwnerInv, DoomedLater, poolVars, procVars
  <2>2. Mine' = Mine /\ Used' = Used
    BY <2>1, IdleUses DEF Mine
  <2>3. Move
    BY <1>8, <2>1, <2>2 DEF TakeAll, Move, TakesAll
  <2> QED BY <1>0, <2>1, <2>3, MoveKeeps DEF OwnerInv, OwnedApart, DoomedLater
<1>9. CASE UNCHANGED vars
  BY <1>4, <1>9 DEF OwnerInv, OwnedApart, DoomedLater, vars, poolVars, mgrVars, procVars, endVars
<1> QED BY <1>2, <1>3, <1>5, <1>6, <1>7, <1>8, <1>9
      DEF TunnelNext, RunningNext, DisconnectAllNext

LEMMA OwnerInit == TunnelInit => OwnerInv
BY DEF TunnelInit, PoolInit, OwnerInv, OwnersUse, OwnersApart, UsedOwned, DoomedLater, Mine, Used, Owning

\* What OwnerInv says about the owners of a lease.
LEMMA OneOwnerEach ==
  ASSUME TunnelInv, OwnerInv
  PROVE  OneOwner
<1> SUFFICES ASSUME NEW l \in Lease
             PROVE  IF stage[l] = "out" THEN Owners(l) = {}
                    ELSE \E x \in Owners(l) : Owners(l) = {x}
  BY DEF OneOwner
<1> USE KeyMaps, KeysApart DEF OwnerInv, OwnersUse, OwnersApart, UsedOwned
<1>1. OwnTypeOK
  BY OwnType
<1>2. \A p \in Proc : (tun[p] = l /\ pc[p] \in Owning) <=> Mine[p] = l
  BY DEF Mine
<1>3. l \in Used <=> stage[l] # "out"
  BY DEF Used
<1>4. Owners(l) = {k \in Key : tunnels[k] = l} \cup {p \in Proc : Mine[p] = l}
                    \cup (IF l \in doomed THEN {None} ELSE {})
  BY <1>2 DEF Owners
<1>5. CASE l \notin Used
  BY <1>3, <1>4, <1>5
<1>6. CASE l \in Used
  <2>1. ASSUME NEW k \in Key, tunnels[k] = l
        PROVE  Owners(l) = {k}
    BY <1>4, <2>1
  <2>2. ASSUME NEW p \in Proc, Mine[p] = l
        PROVE  Owners(l) = {p}
    BY <1>4, <2>2
  <2>3. ASSUME l \in doomed
        PROVE  Owners(l) = {None}
    BY <1>4, <2>3
  <2> QED BY <1>3, <1>6, <2>1, <2>2, <2>3
<1> QED BY <1>5, <1>6

\* Whatever races: Connect against Connect, against a reconnection, against
\* Disconnect, and all of them against DisconnectAll, a lease of the pool is
\* released by exactly one of them (tunnel.go, Release on every path).
THEOREM TunnelOwners == TunnelSpec => []OneOwner
<1>1. TunnelInv /\ [TunnelNext]_vars => TunnelInv'
  BY TunnelStepInv
<1>2. TunnelInv /\ OwnerInv /\ [TunnelNext]_vars => OwnerInv'
  BY OwnerStep
<1>3. TunnelInv /\ OwnerInv => OneOwner
  BY OneOwnerEach
<1>4. TunnelSpec => TunnelInit /\ [][TunnelNext]_vars
  BY DEF TunnelSpec, TunnelNext
<1> QED BY TunnelInitInv, OwnerInit, <1>1, <1>2, <1>3, <1>4, PTL

------------------------------------------------------------------------------
(* Ports, and what a quiet manager has left: PortInv ties the listener of a *)
(* tunnel to its accept loop, and the loop to its lease; CountInv keeps the *)
(* tunnels that DisconnectAll took out of the counts of the pool once it    *)
(* has emptied the pool.                                                    *)

\* An accept loop ends by closing its listener, or because that was closed.
BoundIsServed == \A x \in Port : bound[x] # None => loop[bound[x]] # "exited"

\* A tunnel whose accept loop runs is past setupTunnel and not released yet.
ServedIsHeld ==
  /\ \A l \in Lease : loop[l] # "exited" => stage[l] = "held"
  /\ \A p \in Proc : pc[p] \in {"setup", "release"} => loop[tun[p]] = "exited"

\* DisconnectAll has waited for the accept loops of what it took.
DoomedEnd == down = "done" => \A l \in doomed : loop[l] = "exited"

\* A lease that is being dialed is in the hands of a setupTunnel.
DialedInSetup ==
  \A l \in Lease : stage[l] \in {"dialing", "dialed"} =>
    \E p \in Proc : pc[p] = "setup" /\ tun[p] = l

PortInv == BoundIsServed /\ ServedIsHeld /\ DoomedEnd /\ DialedInSetup

------------------------------------------------------------------------------

\* A step that starts no loop, ends no lease and takes nobody into or out of
\* setupTunnel or a release keeps PortInv.
LEMMA PortFrame ==
  ASSUME PortInv, UNCHANGED <<stage, loop, doomed>>,
         \A x \in Port : bound'[x] \in {bound[x], None},
         down' = "done" => down = "done",
         \A p \in Proc : pc'[p] \in {"setup", "release"} =>
           loop[tun'[p]] = "exited",
         \A p \in Proc : pc[p] = "setup" => pc'[p] = "setup" /\ tun'[p] = tun[p]
  PROVE  PortInv'
<1>1. BoundIsServed'
  BY DEF PortInv, BoundIsServed
<1>2. ServedIsHeld'
  BY DEF PortInv, ServedIsHeld
<1>3. DoomedEnd'
  BY DEF PortInv, DoomedEnd
<1>4. DialedInSetup'
  BY DEF PortInv, DialedInSetup
<1> QED BY <1>1, <1>2, <1>3, <1>4 DEF PortInv

\* Closing listeners only frees ports.
LEMMA UnboundFrees ==
  ASSUME NEW L
  PROVE  \A x \in Port : Unbound(L)[x] \in {bound[x], None}
BY DEF Unbound

\* setupTunnel and the tearing down keep it.
LEMMA ConnectingPort ==
  ASSUME TunnelInv, OwnerInv, PortInv, NEW p \in Proc, Connecting(p)
  PROVE  PortInv'
<1> USE KeyMaps DEF TunnelInv
<1>0. PoolTypeOK /\ ManagerTypeOK /\ ProcShape
  BY DEF PoolInv
<1>1. CASE AcquireStep(p)
  <2>1. PICK l \in Lease :
          /\ stage[l] = "out"
          /\ AcquireShared(l, HostOf[key[p]]) \/ AcquireMiss(l, HostOf[key[p]])
          /\ tun' = [tun EXCEPT ![p] = l]
    BY <1>1 DEF AcquireStep, Free
  <2>2. /\ pc[p] = "acquire" /\ pc' = [pc EXCEPT ![p] = "setup"]
        /\ UNCHANGED <<bound, loop, down, doomed>>
    BY <1>1 DEF AcquireStep, Goto, netVars, endVars
  <2>3. \E s \in {"held", "dialing"} : stage' = [stage EXCEPT ![l] = s]
    BY <2>1 DEF AcquireShared, AcquireMiss, Hold
  <2>4. loop[l] = "exited"
    BY <2>1 DEF PortInv, ServedIsHeld
  <2>5. BoundIsServed' /\ DoomedEnd'
    BY <2>2 DEF PortInv, BoundIsServed, DoomedEnd
  <2>6. ServedIsHeld'
    BY <1>0, <2>1, <2>2, <2>3, <2>4 DEF PortInv, ServedIsHeld, PoolTypeOK, ManagerTypeOK
  <2>7. DialedInSetup'
    BY <1>0, <2>1, <2>2, <2>3 DEF PortInv, DialedInSetup, PoolTypeOK, ManagerTypeOK
  <2> QED BY <2>5, <2>6, <2>7 DEF PortInv
<1>2. CASE DialStep(p)
  <2>1. /\ pc[p] = "setup" /\ tun[p] \in Lease
        /\ UNCHANGED <<pc, tun, bound, loop, down, doomed>>
    BY <1>0, <1>2 DEF DialStep, ProcShape, netVars, procVars, endVars
  <2>2. \E s \in {"dialed", "held"} : stage' = [stage EXCEPT ![tun[p]] = s]
    BY <1>2 DEF DialStep, DialOk, AcquireLost, AcquireWon, Hold
  <2>3. BoundIsServed' /\ DoomedEnd'
    BY <2>1 DEF PortInv, BoundIsServed, DoomedEnd
  <2>4. ServedIsHeld'
    BY <1>0, <2>1, <2>2 DEF PortInv, ServedIsHeld, PoolTypeOK, ManagerTypeOK
  <2>5. DialedInSetup'
    BY <1>0, <2>1, <2>2 DEF PortInv, DialedInSetup, PoolTypeOK, ManagerTypeOK
  <2> QED BY <2>3, <2>4, <2>5 DEF PortInv
<1>3. CASE ListenStep(p)
  <2>1. /\ pc[p] = "setup" /\ tun[p] \in Lease /\ stage[tun[p]] = "held"
        /\ bound' = [bound EXCEPT ![PortOf[key[p]]] = tun[p]]
        /\ loop' = [loop EXCEPT ![tun[p]] = "accepting"]
        /\ pc' = [pc EXCEPT ![p] = "register"]
        /\ UNCHANGED <<stage, tun, down, doomed>>
    BY <1>0, <1>3 DEF ListenStep, Goto, ProcShape, poolVars, endVars
  <2>2. Mine[p] = tun[p]
    BY <2>1 DEF Mine, Owning
  <2>3. \A q \in Proc \ {p} : pc[q] \in {"setup", "release"} => tun[q] # tun[p]
    BY <2>1, <2>2 DEF OwnerInv, OwnersApart, Mine, Owning
  <2>4. tun[p] \notin doomed
    BY <2>2 DEF OwnerInv, OwnersApart
  <2>5. BoundIsServed'
    BY <1>0, <2>1 DEF PortInv, BoundIsServed, ManagerTypeOK
  <2>6. ServedIsHeld'
    BY <1>0, <2>1, <2>3 DEF PortInv, ServedIsHeld, ManagerTypeOK
  <2>7. DoomedEnd'
    BY <1>0, <2>1, <2>4 DEF PortInv, DoomedEnd, ManagerTypeOK
  <2>8. DialedInSetup'
    BY <1>0, <2>1 DEF PortInv, DialedInSetup, ManagerTypeOK
  <2> QED BY <2>5, <2>6, <2>7, <2>8 DEF PortInv
<1>4. CASE SetupFails(p) \/ DrainStep(p)
  <2>1. /\ pc[p] \in {"setup", "drain"} /\ tun[p] \in Lease
        /\ loop[tun[p]] = "exited"
        /\ UNCHANGED <<bound, loop, down, doomed>>
    BY <1>0, <1>4 DEF SetupFails, DrainStep, Done, ProcShape, PortInv, ServedIsHeld, netVars, endVars
  <2>2. stage' = [stage EXCEPT ![tun[p]] = "out"]
    BY <1>4 DEF SetupFails, DrainStep, DialFails, Release, Drained
  <2>3. after[p] \notin {"setup", "release"} \/ pc[p] = "setup"
    BY <1>0, <2>1 DEF ProcShape, Proc, Answers
  <2>4. /\ pc'[p] \notin {"setup", "release"}
        /\ \A q \in Proc \ {p} : pc'[q] = pc[q] /\ tun'[q] = tun[q]
    BY <1>0, <1>4, <2>1, <2>3 DEF SetupFails, SetupFailed, DrainStep, Rest, Goto, ManagerTypeOK
  <2>5. \A l \in Lease \ {tun[p]} : stage'[l] = stage[l]
    BY <1>0, <2>2 DEF PoolTypeOK
  <2>6. stage'[tun[p]] = "out"
    BY <1>0, <2>1, <2>2 DEF PoolTypeOK
  <2>7. BoundIsServed' /\ DoomedEnd'
    BY <2>1 DEF PortInv, BoundIsServed, DoomedEnd
  <2>8. ServedIsHeld'
    BY <2>1, <2>4, <2>5 DEF PortInv, ServedIsHeld
  <2>9. DialedInSetup'
    BY <2>4, <2>5, <2>6 DEF PortInv, DialedInSetup
  <2> QED BY <2>7, <2>8, <2>9 DEF PortInv
<1> QED BY <1>1, <1>2, <1>3, <1>4 DEF Connecting

\* Connect and Disconnect keep it.
LEMMA CommandPort ==
  ASSUME TunnelInv, OwnerInv, PortInv, NEW p \in Command,
         CommandNext(p) \/ \E k \in Key : ConnectCall(p, k) \/ DisconnectCall(p, k)
  PROVE  PortInv'
<1>0. p \in Proc /\ ManagerTypeOK /\ ProcShape
  BY DEF TunnelInv, Proc
<1>1. CASE Connecting(p)
  BY <1>0, <1>1, ConnectingPort
<1>2. CASE ~ Connecting(p)
  <2>1. UNCHANGED <<stage, loop, down, doomed>>
    BY <1>2 DEF CommandNext, ConnectWins, ConnectLoses, Return, ConnectCall, DisconnectCall,
       poolVars, netVars, endVars
  <2>2. \A x \in Port : bound'[x] \in {bound[x], None}
    BY <1>2, UnboundFrees DEF CommandNext, ConnectWins, ConnectLoses, Return,
       ConnectCall, DisconnectCall, netVars
  <2>3. pc[p] # "setup" /\ pc'[p] \notin {"setup", "release"}
    <3>1. CASE ConnectWins(p)
      <4>1. PICK m \in Monitor : pc' = [pc EXCEPT ![p] = "connected", ![m] = "look"]
        BY <3>1 DEF ConnectWins
      <4> QED BY <1>0, <3>1, <4>1, ProcsApart DEF ConnectWins, ManagerTypeOK, Proc
    <3>2. CASE ~ ConnectWins(p)
      BY <1>0, <1>2, <3>2 DEF CommandNext, ConnectLoses, Return, ConnectCall, DisconnectCall,
         Rest, Goto, ManagerTypeOK, Answers
    <3> QED BY <3>1, <3>2
  <2>4. ASSUME NEW q \in Proc \ {p}
        PROVE  /\ pc'[q] = pc[q] \/ (pc[q] = "idle" /\ pc'[q] = "look")
               /\ tun'[q] = tun[q]
    <3>1. CASE ConnectWins(p)
      <4>1. PICK m \in Monitor : /\ pc[m] = "idle"
                                /\ pc' = [pc EXCEPT ![p] = "connected", ![m] = "look"]
        BY <3>1 DEF ConnectWins
      <4> QED BY <1>0, <3>1, <4>1 DEF ConnectWins, ManagerTypeOK
    <3>2. CASE ConnectLoses(p) \/ Return(p)
      BY <1>0, <3>2 DEF ConnectLoses, Return, Rest, Goto, ManagerTypeOK
    <3>3. ASSUME NEW k \in Key, ConnectCall(p, k)
          PROVE  pc'[q] = pc[q] /\ tun'[q] = tun[q]
      BY <1>0, <3>3 DEF ConnectCall, Rest, Goto, ManagerTypeOK
    <3>4. ASSUME NEW k \in Key, DisconnectCall(p, k)
          PROVE  pc'[q] = pc[q] /\ tun'[q] = tun[q]
      BY <1>0, <3>4 DEF DisconnectCall, Rest, Goto, ManagerTypeOK
    <3> QED BY <1>2, <3>1, <3>2, <3>3, <3>4 DEF CommandNext
  <2>5. \A q \in Proc : pc'[q] \in {"setup", "release"} => loop[tun'[q]] = "exited"
    BY <2>3, <2>4 DEF PortInv, ServedIsHeld
  <2>6. \A q \in Proc : pc[q] = "setup" => pc'[q] = "setup" /\ tun'[q] = tun[q]
    BY <2>3, <2>4
  <2> QED BY <2>1, <2>2, <2>5, <2>6, PortFrame
<1> QED BY <1>1, <1>2

\* So do the monitors: what one gives back it has waited for.
LEMMA MonitorPort ==
  ASSUME TunnelInv, OwnerInv, PortInv, NEW m \in Monitor, MonitorNext(m)
  PROVE  PortInv'
<1>0. m \in Proc /\ PoolTypeOK /\ ManagerTypeOK /\ ProcShape
  BY DEF TunnelInv, PoolInv, Proc
<1>1. CASE Connecting(m)
  BY <1>0, <1>1, ConnectingPort
<1>2. CASE ReleaseStep(m)
  <2>1. /\ pc[m] = "release" /\ tun[m] \in Lease /\ loop[tun[m]] = "exited"
        /\ pc' = [pc EXCEPT ![m] = "retry"] /\ tun' = [tun EXCEPT ![m] = None]
        /\ stage' = [stage EXCEPT ![tun[m]] = "out"]
        /\ UNCHANGED <<bound, loop, down, doomed>>
    BY <1>0, <1>2 DEF ReleaseStep, Release, Drained, Goto, ProcShape, PortInv, ServedIsHeld,
       netVars, endVars
  <2>2. BoundIsServed' /\ DoomedEnd'
    BY <2>1 DEF PortInv, BoundIsServed, DoomedEnd
  <2>3. ServedIsHeld'
    BY <1>0, <2>1 DEF PortInv, ServedIsHeld, PoolTypeOK, ManagerTypeOK
  <2>4. DialedInSetup'
    BY <1>0, <2>1 DEF PortInv, DialedInSetup, PoolTypeOK, ManagerTypeOK
  <2> QED BY <2>2, <2>3, <2>4 DEF PortInv
<1>3. CASE ~ Connecting(m) /\ ~ ReleaseStep(m)
  <2> USE DEF MonitorNext, Look, Arm, WatchStop, WatchDone, WatchDead, Check, Retry,
              ReviveWins, ReviveLoses, Forget
  <2>1. UNCHANGED <<stage, loop, down, doomed>>
    BY <1>3 DEF poolVars, netVars, endVars
  <2>2. \A x \in Port : bound'[x] \in {bound[x], None}
    BY <1>3, UnboundFrees DEF netVars
  <2>3. \A q \in Proc \ {m} : pc'[q] = pc[q] /\ tun'[q] = tun[q]
    BY <1>0, <1>3 DEF Rest, Goto, ManagerTypeOK
  <2>4. pc[m] # "setup" /\ pc'[m] # "setup"
    BY <1>0, <1>3 DEF Rest, Goto, ManagerTypeOK
  <2>5. pc'[m] = "release" => tun'[m] = tun[m] /\ loop[tun[m]] = "exited"
    BY <1>0, <1>3 DEF Rest, Goto, ManagerTypeOK, Done
  <2>6. \A q \in Proc : pc'[q] \in {"setup", "release"} => loop[tun'[q]] = "exited"
    BY <2>3, <2>4, <2>5 DEF PortInv, ServedIsHeld
  <2>7. \A q \in Proc : pc[q] = "setup" => pc'[q] = "setup" /\ tun'[q] = tun[q]
    BY <2>3, <2>4
  <2> HIDE DEF MonitorNext, Look, Arm, WatchStop, WatchDone, WatchDead, Check, Retry,
               ReviveWins, ReviveLoses, Forget
  <2> QED BY <2>1, <2>2, <2>6, <2>7, PortFrame
<1> QED BY <1>1, <1>2, <1>3

\* PortInv is inductive, together with the invariants of the other theorems.
LEMMA PortStep ==
  ASSUME TunnelInv, OwnerInv, PortInv, [TunnelNext]_vars
  PROVE  PortInv'
<1>0. ManagerTypeOK
  BY DEF TunnelInv
<1>1. ASSUME NEW l \in Lease, Accept(l) \/ LoopNext(l)
      PROVE  PortInv'
  <2>1. UNCHANGED <<stage, pc, tun, down, doomed>> /\ \A x \in Port : bound'[x] \in {bound[x], None}
    BY <1>1, UnboundFrees DEF LoopNext, Accept, AcceptFails, Forwarded, ForwardFails,
       poolVars, procVars, endVars
  <2>2. /\ \E s \in {"accepting", "dialing", "exited"} : loop' = [loop EXCEPT ![l] = s]
        /\ loop[l] # "exited"
    BY <1>1 DEF LoopNext, Accept, AcceptFails, Forwarded, ForwardFails
  <2>3. loop'[l] = "exited" => \A x \in Port : bound'[x] # l
    BY <1>0, <1>1, KeyMaps DEF LoopNext, Accept, AcceptFails, Forwarded, ForwardFails, ManagerTypeOK, Unbound
  <2>4. BoundIsServed'
    BY <1>0, <2>1, <2>2, <2>3 DEF PortInv, BoundIsServed, ManagerTypeOK
  <2>5. ServedIsHeld' /\ DoomedEnd' /\ DialedInSetup'
    BY <1>0, <2>1, <2>2 DEF PortInv, ServedIsHeld, DoomedEnd, DialedInSetup, ManagerTypeOK
  <2> QED BY <2>4, <2>5 DEF PortInv
<1>2. ASSUME UNCHANGED <<stage, loop, pc, tun>>,
             \A x \in Port : bound'[x] \in {bound[x], None},
             DoomedEnd'
      PROVE  PortInv'
  <2>1. BoundIsServed'
    BY <1>2 DEF PortInv, BoundIsServed
  <2>2. ServedIsHeld' /\ DialedInSetup'
    BY <1>2 DEF PortInv, ServedIsHeld, DialedInSetup
  <2> QED BY <1>2, <2>1, <2>2 DEF PortInv
<1>3. ASSUME NEW c \in Client, ConnectionNext(c)
      PROVE  PortInv'
  BY <1>2, <1>3 DEF ConnectionNext, Drop, WaitReturns, PortInv, DoomedEnd, netVars, procVars, endVars
<1>4. CASE StopAll \/ DisconnectAllNext
  BY <1>2, <1>4, UnboundFrees DEF StopAll, DisconnectAllNext, TakeAll, CloseListeners, FinishAll, CloseAll,
     PortInv, DoomedEnd, poolVars, netVars, procVars
<1>5. CASE UNCHANGED vars
  BY <1>2, <1>5 DEF PortInv, DoomedEnd, vars, poolVars, netVars, procVars, endVars
<1> QED BY <1>1, <1>3, <1>4, <1>5, CommandPort, MonitorPort DEF TunnelNext, RunningNext

LEMMA PortInit == TunnelInit => PortInv
BY DEF TunnelInit, PoolInit, PortInv, BoundIsServed, ServedIsHeld, DoomedEnd, DialedInSetup

\* A port is never listened on for a tunnel that was given back to the pool,
\* though the listener, the accept loop and the lease are ended by different
\* goroutines (tunnel.go, listener.Close(), <-tun.done and Release).
THEOREM TunnelPorts == TunnelSpec => []BoundIsHeld
<1>1. TunnelInv /\ [TunnelNext]_vars => TunnelInv'
  BY TunnelStepInv
<1>2. TunnelInv /\ OwnerInv /\ [TunnelNext]_vars => OwnerInv'
  BY OwnerStep
<1>3. TunnelInv /\ OwnerInv /\ PortInv /\ [TunnelNext]_vars => PortInv'
  BY PortStep
<1>4. TunnelInv /\ PortInv => BoundIsHeld
  BY DEF TunnelInv, ManagerTypeOK, PortInv, BoundIsServed, ServedIsHeld, BoundIsHeld
<1>5. TunnelSpec => TunnelInit /\ [][TunnelNext]_vars
  BY DEF TunnelSpec, TunnelNext
<1> QED BY TunnelInitInv, OwnerInit, PortInit, <1>1, <1>2, <1>3, <1>4, <1>5, PTL

------------------------------------------------------------------------------
(* The counts of the pool after DisconnectAll *)

\* The tunnels in D are not among those that a count stands for.
Besides(h, D) == Holders(h) \ D
CoveredBesides(D) == \A h \in Host : conns[h] # None => refs[h] <= Cardinality(Besides(h, D))

LEMMA BesidesFinite ==
  ASSUME NEW h, NEW D
  PROVE  IsFiniteSet(Besides(h, D)) /\ Cardinality(Besides(h, D)) \in Nat
BY FiniteLeases, FS_Subset, FS_CardinalityType DEF Holders, Besides

\* A lease outside of D that becomes held on a host adds one to them.
LEMMA HoldCovers ==
  ASSUME NEW l \in Lease, NEW g \in Host, NEW D, PoolTypeOK, stage[l] # "held", l \notin D,
         stage' = [stage EXCEPT ![l] = "held"], host' = [host EXCEPT ![l] = g]
  PROVE  \A h \in Host :
           Cardinality(Besides(h, D)') = Cardinality(Besides(h, D)) + (IF h = g THEN 1 ELSE 0)
<1> TAKE h \in Host
<1>1. CASE h = g
  <2>1. Besides(h, D)' = Besides(h, D) \cup {l} /\ l \notin Besides(h, D)
    BY <1>1 DEF Besides, Holders, PoolTypeOK
  <2> QED BY <1>1, <2>1, BesidesFinite, FS_AddElement
<1>2. CASE h # g
  <2>1. Besides(h, D)' = Besides(h, D)
    BY <1>2 DEF Besides, Holders, PoolTypeOK
  <2> QED BY <1>2, <2>1, BesidesFinite
<1> QED BY <1>1, <1>2

\* A step of the pool that leaves the tunnels in D held keeps the others counted.
LEMMA BesidesStep ==
  ASSUME PoolInv, NEW D, CoveredBesides(D), [Calls \/ Loss \/ CloseAll]_poolVars,
         \A d \in D : stage[d] = "held" /\ stage'[d] = "held"
  PROVE  CoveredBesides(D)'
<1>0. PoolTypeOK /\ StageShape
  BY DEF PoolInv
<1>1. ASSUME NEW l \in Lease, NEW h \in Host, AcquireShared(l, h)
      PROVE  CoveredBesides(D)'
  <2>1. l \notin D
    BY <1>1 DEF AcquireShared
  <2>2. \A g \in Host :
          Cardinality(Besides(g, D)') = Cardinality(Besides(g, D)) + (IF g = h THEN 1 ELSE 0)
    BY <1>0, <1>1, <2>1, HoldCovers DEF AcquireShared, Hold
  <2>3. /\ conns' = conns /\ refs' = [refs EXCEPT ![h] = @ + 1]
        /\ \A g \in Host : refs[g] \in Nat /\ Cardinality(Besides(g, D)) \in Nat
    BY <1>0, <1>1, BesidesFinite DEF AcquireShared, PoolTypeOK
  <2> QED BY <1>0, <2>2, <2>3 DEF CoveredBesides, PoolTypeOK
<1>2. ASSUME NEW l \in Lease, NEW h \in Host, AcquireMiss(l, h)
      PROVE  CoveredBesides(D)'
  <2>1. \A g \in Host : Besides(g, D)' = Besides(g, D)
    BY <1>0, <1>2 DEF AcquireMiss, PoolTypeOK, Besides, Holders
  <2> QED BY <1>0, <1>2, <2>1 DEF AcquireMiss, CoveredBesides, PoolTypeOK
<1>3. ASSUME NEW l \in Lease, (\E c \in Client : DialOk(l, c)) \/ DialFails(l)
      PROVE  CoveredBesides(D)'
  <2>1. \A g \in Host : Besides(g, D)' = Besides(g, D)
    BY <1>0, <1>3 DEF DialOk, DialFails, Drained, PoolTypeOK, Besides, Holders
  <2> QED BY <1>3, <2>1 DEF DialOk, DialFails, CoveredBesides
<1>4. ASSUME NEW l \in Lease, AcquireLost(l) \/ AcquireWon(l)
      PROVE  CoveredBesides(D)'
  <2>1. l \notin D /\ host[l] \in Host
    BY <1>0, <1>4 DEF AcquireLost, AcquireWon, StageShape
  <2>2. host' = [host EXCEPT ![l] = host[l]] /\ stage' = [stage EXCEPT ![l] = "held"] /\ stage[l] # "held"
    BY <1>0, <1>4 DEF AcquireLost, AcquireWon, Hold, PoolTypeOK
  <2>3. \A g \in Host :
          Cardinality(Besides(g, D)') = Cardinality(Besides(g, D)) + (IF g = host[l] THEN 1 ELSE 0)
    <3>1. PICK h \in Host : h = host[l]
      BY <2>1
    <3>2. host' = [host EXCEPT ![l] = h]
      BY <2>2, <3>1
    <3>3. \A g \in Host :
            Cardinality(Besides(g, D)') = Cardinality(Besides(g, D)) + (IF g = h THEN 1 ELSE 0)
      <4>1. stage' = [stage EXCEPT ![l] = "held"] /\ stage[l] # "held" /\ l \notin D
        BY <2>1, <2>2
      <4> QED BY <1>0, <3>2, <4>1, HoldCovers
    <3> QED BY <3>1, <3>3
  <2>4. \A g \in Host : refs[g] \in Nat /\ Cardinality(Besides(g, D)) \in Nat
    BY <1>0, BesidesFinite DEF PoolTypeOK
  <2>5. CASE AcquireLost(l)
    BY <1>0, <2>1, <2>3, <2>4, <2>5 DEF AcquireLost, CoveredBesides, PoolTypeOK
  <2>6. CASE AcquireWon(l)
    BY <1>0, <2>1, <2>3, <2>4, <2>6 DEF AcquireWon, CoveredBesides, PoolTypeOK
  <2> QED BY <1>4, <2>5, <2>6
<1>5. ASSUME NEW l \in Lease, Release(l)
      PROVE  CoveredBesides(D)'
  <2>1. /\ stage[l] = "held" /\ host[l] \in Host /\ Drained(l)
        /\ ReleaseHost(host[l])
    BY <1>0, <1>5 DEF Release, StageShape
  <2>2. l \notin D
    BY <1>0, <2>1 DEF Drained, PoolTypeOK
  <2>3. \A g \in Host \ {host[l]} : Besides(g, D)' = Besides(g, D)
    BY <1>0, <2>1, NoneIsNew DEF Drained, PoolTypeOK, Besides, Holders
  <2>4. ASSUME NEW g \in Host, g = host[l]
        PROVE  Cardinality(Besides(g, D)') = Cardinality(Besides(g, D)) - 1
    <3>1. Besides(g, D)' = Besides(g, D) \ {l} /\ l \in Besides(g, D)
      BY <1>0, <2>1, <2>2, <2>4, NoneIsNew DEF Drained, PoolTypeOK, Besides, Holders
    <3> QED BY <3>1, BesidesFinite, FS_RemoveElement
  <2>5. \A g \in Host : refs[g] \in Nat /\ Cardinality(Besides(g, D)) \in Nat
    BY <1>0, BesidesFinite DEF PoolTypeOK
  <2>6. CASE refs[host[l]] > 1
    <3>1. conns' = conns /\ refs' = [refs EXCEPT ![host[l]] = @ - 1]
      BY <2>1, <2>6 DEF ReleaseHost
    <3> QED BY <1>0, <2>1, <2>3, <2>4, <2>5, <3>1 DEF CoveredBesides, PoolTypeOK
  <2>7. CASE ~ refs[host[l]] > 1
    <3>1. conns' = [conns EXCEPT ![host[l]] = None] /\ refs' = [refs EXCEPT ![host[l]] = 0]
      BY <2>1, <2>7 DEF ReleaseHost
    <3> QED BY <1>0, <2>1, <2>3, <3>1 DEF CoveredBesides, PoolTypeOK
  <2> QED BY <2>6, <2>7
<1>6. CASE UNCHANGED <<conns, refs, stage, host>>
  BY <1>6 DEF CoveredBesides, Besides, Holders
<1>7. ASSUME NEW c \in Client, WaitReturns(c) \/ Drop(c)
      PROVE  CoveredBesides(D)'
  BY <1>6, <1>7 DEF WaitReturns, Drop
<1>8. CASE CloseAll
  BY <1>8 DEF CloseAll, CoveredBesides
<1>9. CASE UNCHANGED poolVars
  BY <1>6, <1>9 DEF poolVars
<1> QED BY <1>1, <1>2, <1>3, <1>4, <1>5, <1>7, <1>8, <1>9 DEF Calls, Loss

\* Once DisconnectAll has emptied the pool, what it took counts no more.
CountInv == down = "done" => CoveredBesides(doomed)

\* A tunnel that DisconnectAll took keeps its lease.
LEMMA DoomedHeld ==
  ASSUME TunnelInv, OwnerInv, PortInv
  PROVE  \A l \in doomed : stage[l] = "held"
<1> SUFFICES ASSUME NEW l \in doomed PROVE stage[l] = "held"
  OBVIOUS
<1>1. l \in Lease /\ stage[l] \in Stages /\ stage[l] # "out"
  BY DEF TunnelInv, PoolInv, PoolTypeOK, OwnerInv, OwnersUse, Used
<1>2. stage[l] \notin {"dialing", "dialed"}
  BY <1>1 DEF PortInv, DialedInSetup, OwnerInv, OwnersApart, Mine, Owning
<1> QED BY <1>1, <1>2 DEF Stages

LEMMA CountStep ==
  ASSUME TunnelInv, OwnerInv, PortInv, CountInv, [TunnelNext]_vars
  PROVE  CountInv'
<1>1. CASE FinishAll
  BY <1>1 DEF FinishAll, CloseAll, CountInv, CoveredBesides
<1>2. CASE ~ FinishAll
  <2>1. /\ UNCHANGED endVars \/ StopAll \/ TakeAll \/ CloseListeners
    BY <1>2 DEF TunnelNext, RunningNext, CommandNext, MonitorNext, Connecting,
       AcquireStep, DialStep, ListenStep, SetupFails, DrainStep, ConnectWins, ConnectLoses, Return,
       ConnectCall, DisconnectCall, Look, Arm, WatchStop, WatchDone, WatchDead, Check, ReleaseStep,
       Retry, ReviveWins, ReviveLoses, Forget, LoopNext, Accept, AcceptFails, Forwarded, ForwardFails,
       ConnectionNext, DisconnectAllNext, vars
  <2>2. CASE down' = "done"
    <3>1. down = "done" /\ doomed' = doomed
      BY <2>1, <2>2 DEF endVars, StopAll, TakeAll, CloseListeners
    <3>2. TunnelInv' /\ OwnerInv' /\ PortInv'
      BY TunnelStepInv, OwnerStep, PortStep
    <3>3. ASSUME NEW d \in doomed
          PROVE  stage[d] = "held" /\ stage'[d] = "held"
      <4>1. d \in Lease /\ stage'[d] \in Stages /\ stage'[d] # "out"
        BY <3>1, <3>2 DEF TunnelInv, PoolInv, PoolTypeOK, OwnerInv, OwnersUse, Used
      <4>2. stage'[d] \notin {"dialing", "dialed"}
        BY <3>1, <3>2, <4>1 DEF PortInv, DialedInSetup, OwnerInv, OwnersApart, Mine, Owning
      <4> QED BY <4>1, <4>2, DoomedHeld DEF Stages
    <3>4. CoveredBesides(doomed)
      BY <3>1 DEF CountInv
    <3>5. PICK D : D = doomed
      OBVIOUS
    <3>6. CoveredBesides(D)'
      BY <3>3, <3>4, <3>5, PoolMoves, BesidesStep DEF TunnelInv
    <3> QED BY <3>1, <3>5, <3>6 DEF CountInv, CoveredBesides, Besides
  <2>3. CASE down' # "done"
    BY <2>3 DEF CountInv
  <2> QED BY <2>2, <2>3
<1> QED BY <1>1, <1>2

\* What the invariants say of a manager where nothing is tracked or at work.
LEMMA QuietLemma ==
  ASSUME TunnelInv, OwnerInv, PortInv, CountInv
  PROVE  QuietIsEmpty
<1> SUFFICES ASSUME \A k \in Key : ~ Alive(k),
                    \A p \in Proc : pc[p] \in {"idle"} \cup Answers,
                    down \in {"no", "done"}
             PROVE  /\ \A x \in Port : bound[x] = None
                    /\ \A h \in Host : conns[h] = None
                    /\ \A c \in Client : link[c] # "live"
  BY DEF QuietIsEmpty
<1>0. PoolInv /\ PoolTypeOK /\ ManagerTypeOK
  BY DEF TunnelInv, PoolInv
<1>1. \A l \in Used : l \in doomed
  BY KeyMaps DEF OwnerInv, UsedOwned, Mine, Owning, Answers, Alive, Used
<1>2. \A l \in doomed : down = "done" /\ loop[l] = "exited"
  BY DEF OwnerInv, DoomedLater, PortInv, DoomedEnd
<1>3. ASSUME NEW x \in Port, bound[x] # None
      PROVE  FALSE
  <2>1. bound[x] \in Lease /\ loop[bound[x]] # "exited" /\ stage[bound[x]] = "held"
    BY <1>0, <1>3 DEF ManagerTypeOK, PortInv, BoundIsServed, ServedIsHeld
  <2> QED BY <1>1, <1>2, <2>1 DEF Used
<1>4. ASSUME NEW h \in Host, conns[h] # None
      PROVE  FALSE
  <2>1. refs[h] >= 1 /\ Holders(h) # {}
    <3>1. refs[h] \in 1 .. Cardinality(Holders(h))
      BY <1>0, <1>4 DEF PoolInv, RefsCovered
    <3> QED BY <3>1, HoldersFinite, FS_EmptySet
  <2>2. Holders(h) \subseteq doomed
    BY <1>1 DEF Holders, Used
  <2>3. Besides(h, doomed) = {} /\ refs[h] <= Cardinality(Besides(h, doomed))
    BY <1>2, <1>4, <2>1, <2>2 DEF CountInv, CoveredBesides, Besides
  <2>4. Cardinality(Besides(h, doomed)) = 0
    BY <2>3, FS_EmptySet
  <2> QED BY <2>1, <2>3, <2>4, <1>0 DEF PoolTypeOK
<1>5. ASSUME NEW c \in Client, link[c] = "live"
      PROVE  FALSE
  <2>1. PICK l \in Lease : stage[l] = "dialed"
    BY <1>0, <1>4, <1>5, NoneIsNew DEF PoolInv, LiveIsOwned
  <2> QED BY <1>1, <2>1, DoomedHeld DEF Used
<1> QED BY <1>3, <1>4, <1>5

LEMMA CountInit == TunnelInit => CountInv
BY DEF TunnelInit, CountInv

\* Whatever was connected, lost, revived and disconnected in whatever order, and
\* whether the program quits: once nothing is tracked and no goroutine is at work
\* no port is in use and no connection is pooled or up.
THEOREM TunnelQuiet == TunnelSpec => []QuietIsEmpty
<1>1. TunnelInv /\ [TunnelNext]_vars => TunnelInv'
  BY TunnelStepInv
<1>2. TunnelInv /\ OwnerInv /\ [TunnelNext]_vars => OwnerInv'
  BY OwnerStep
<1>3. TunnelInv /\ OwnerInv /\ PortInv /\ [TunnelNext]_vars => PortInv'
  BY PortStep
<1>4. TunnelInv /\ OwnerInv /\ PortInv /\ CountInv /\ [TunnelNext]_vars => CountInv'
  BY CountStep
<1>5. TunnelInv /\ OwnerInv /\ PortInv /\ CountInv => QuietIsEmpty
  BY QuietLemma
<1>6. TunnelSpec => TunnelInit /\ [][TunnelNext]_vars
  BY DEF TunnelSpec, TunnelNext
<1> QED BY TunnelInitInv, OwnerInit, PortInit, CountInit, <1>1, <1>2, <1>3, <1>4, <1>5, <1>6, PTL

==============================================================================
