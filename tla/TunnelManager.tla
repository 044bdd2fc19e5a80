---------------------------- MODULE TunnelManager ----------------------------
(***************************************************************************)
(* The TunnelManager of tunnel.go over the pool of SshPool.tla: Connect    *)
(* and Disconnect run as commands in goroutines of their own, every        *)
(* tunnel has a monitor goroutine that reconnects it when it dies and an   *)
(* accept loop that forwards connections, and DisconnectAll shuts the      *)
(* manager down.                                                           *)
(*                                                                         *)
(* A Lease of the pool is also the Tunnel that setupTunnel builds on it.   *)
(* One step is what a goroutine does between two points where another can  *)
(* be seen: a critical section, a blocking wait, a call into the pool.     *)
(*                                                                         *)
(* As in SshPool, a definition without a comment right before another one  *)
(* is that one with a bug that a property named in PROJECT.json catches.   *)
(***************************************************************************)
EXTENDS SshPool

CONSTANTS Key,          \* tunnel keys "host:container"
          HostOf,       \* the ssh host of a key
          PortOf,       \* the local port of a key
          Command,      \* goroutines that run the commands of the UI
          Monitor,      \* goroutines that run monitor
          MaxAttempts   \* maxAttempts of reconnectWithBackoff

ASSUME KeyMaps == HostOf \in [Key -> Host] /\ None \notin Lease
ASSUME AttemptsPositive == MaxAttempts \in Nat \ {0}
Proc == Command \cup Monitor

ASSUME ProcsApart == Command \cap Monitor = {}
ASSUME KeysApart == Key \cap Proc = {} /\ None \notin Key \cup Proc

Port == {PortOf[k] : k \in Key}

VARIABLES tunnels,       \* tm.tunnels: the tunnel tracked under each key
          reconnecting,  \* tm.reconnecting: the keys a monitor is reviving
          stop,          \* tm.stop is closed
          bound,         \* the tunnel that listens on each local port
          loop,          \* the accept loop of each tunnel ("exited": also
                         \* before it is started)
          pc,            \* where each goroutine is
          key,           \* the key it works for
          tun,           \* the tunnel it has in hand
          attempt,       \* attempt of reconnectWithBackoff
          dead,          \* the connection whose death a monitor waits for
          after,         \* where it goes once it has torn tun down
          down,          \* how far DisconnectAll is
          doomed         \* the tunnels DisconnectAll took

mgrVars  == <<tunnels, reconnecting, stop>>
netVars  == <<bound, loop>>
procVars == <<pc, key, tun, attempt, dead, after>>
endVars  == <<down, doomed>>
vars     == <<poolVars, mgrVars, netVars, procVars, endVars>>

Answers == {"connected", "failed", "disconnected"}
Setting == {"acquire", "setup", "register"}

\* The states in which a goroutine, and nobody else, has to release tun.
Owning == {"setup", "register", "drain", "release"}

ManagerTypeOK ==
  /\ tunnels \in [Key -> Lease \cup {None}]
  /\ reconnecting \subseteq Key
  /\ stop \in BOOLEAN
  /\ bound \in [Port -> Lease \cup {None}]
  /\ loop \in [Lease -> {"accepting", "dialing", "exited"}]
  /\ pc \in [Proc -> {"idle"} \cup Answers \cup Setting \cup
                {"drain", "look", "arm", "watch", "check", "release", "retry", "forget"}]
  /\ key \in [Proc -> Key \cup {None}]
  /\ tun \in [Proc -> Lease \cup {None}]
  /\ attempt \in [Proc -> 0 .. MaxAttempts - 1]
  /\ dead \in [Proc -> Client \cup {None}]
  /\ after \in [Proc -> Answers \cup {"idle", "look", "forget"}]
  /\ down \in {"no", "stopped", "taken", "closed", "done"}
  /\ doomed \subseteq Lease

TunnelTypeOK == PoolTypeOK /\ ManagerTypeOK

TunnelInit ==
  /\ PoolInit
  /\ tunnels = [k \in Key |-> None]
  /\ reconnecting = {}
  /\ stop = FALSE
  /\ bound = [x \in Port |-> None]
  /\ loop = [l \in Lease |-> "exited"]
  /\ pc = [p \in Proc |-> "idle"]
  /\ key = [p \in Proc |-> None]
  /\ tun = [p \in Proc |-> None]
  /\ attempt = [p \in Proc |-> 0]
  /\ dead = [p \in Proc |-> None]
  /\ after = [p \in Proc |-> "idle"]
  /\ down = "no"
  /\ doomed = {}

Alive(k) == tunnels[k] # None

\* A goroutine goes on at s; one that is idle again remembers nothing.
Goto(p, s) == pc' = [pc EXCEPT ![p] = s]

Rest(p, s) ==
  /\ Goto(p, s)
  /\ key' = [key EXCEPT ![p] = None]
  /\ tun' = [tun EXCEPT ![p] = None]
  /\ attempt' = [attempt EXCEPT ![p] = 0]
  /\ dead' = [dead EXCEPT ![p] = None]
  /\ after' = [after EXCEPT ![p] = "idle"]

UnboundNever(L) == bound

\* listener.Close() of every tunnel in L.
Unbound(L) == [x \in Port |-> IF bound[x] \in L THEN None ELSE bound[x]]

TrackFlagged(p) ==
  /\ tunnels' = [tunnels EXCEPT ![key[p]] = tun[p]]
  /\ UNCHANGED reconnecting

\* Registering tun under the key; the key is no longer reconnecting.
Track(p) ==
  /\ tunnels' = [tunnels EXCEPT ![key[p]] = tun[p]]
  /\ reconnecting' = reconnecting \ {key[p]}

\* A tunnel that no goroutine and no map refers to.
Free(l) ==
  /\ stage[l] = "out"
  /\ \A p \in Proc : tun[p] # l

------------------------------------------------------------------------------
(* setupTunnel, run by a Connect command or by a monitor *)

AcquireStep(p) ==
  /\ pc[p] = "acquire"
  /\ \E l \in Lease :
       /\ Free(l)
       /\ AcquireShared(l, HostOf[key[p]]) \/ AcquireMiss(l, HostOf[key[p]])
       /\ tun' = [tun EXCEPT ![p] = l]
  /\ Goto(p, "setup")
  /\ UNCHANGED <<mgrVars, netVars, key, attempt, dead, after, endVars>>

\* The dial answers, then Acquire settles whose connection is used.
DialStep(p) ==
  /\ pc[p] = "setup"
  /\ \/ \E c \in Client : DialOk(tun[p], c) /\ \A m \in Monitor : dead[m] # c
     \/ AcquireLost(tun[p])
     \/ AcquireWon(tun[p])
  /\ UNCHANGED <<mgrVars, netVars, procVars, endVars>>

\* The container's address is resolved, the port is free: the tunnel listens.
ListenStep(p) ==
  /\ pc[p] = "setup" /\ stage[tun[p]] = "held"
  /\ bound[PortOf[key[p]]] = None
  /\ bound' = [bound EXCEPT ![PortOf[key[p]]] = tun[p]]
  /\ loop' = [loop EXCEPT ![tun[p]] = "accepting"]
  /\ Goto(p, "register")
  /\ UNCHANGED <<poolVars, mgrVars, key, tun, attempt, dead, after, endVars>>

FailedOnceMore(p) ==
  IF p \in Command THEN Rest(p, "failed")
  ELSE /\ tun' = [tun EXCEPT ![p] = None]
       /\ attempt' = [attempt EXCEPT ![p] = @ + 1]
       /\ Goto(p, IF attempt[p] < MaxAttempts THEN "retry" ELSE "forget")
       /\ UNCHANGED <<key, dead, after>>

FailedUncounted(p) ==
  IF p \in Command THEN Rest(p, "failed")
  ELSE /\ tun' = [tun EXCEPT ![p] = None]
       /\ Goto(p, "retry")
       /\ UNCHANGED <<key, attempt, dead, after>>

\* setupTunnel gave up: a command reports it, a monitor tries again later.
SetupFailed(p) ==
  IF p \in Command THEN Rest(p, "failed")
  ELSE /\ tun' = [tun EXCEPT ![p] = None]
       /\ IF attempt[p] + 1 < MaxAttempts
          THEN /\ attempt' = [attempt EXCEPT ![p] = @ + 1]
               /\ Goto(p, "retry")
          ELSE /\ attempt' = [attempt EXCEPT ![p] = 0]
               /\ Goto(p, "forget")
       /\ UNCHANGED <<key, dead, after>>

FailsUnreleased(p) ==
  /\ pc[p] = "setup"
  /\ DialFails(tun[p]) \/ (stage[tun[p]] = "held" /\ UNCHANGED poolVars)
  /\ SetupFailed(p)
  /\ UNCHANGED <<mgrVars, netVars, endVars>>

\* The dial fails, the address does not resolve, or the port is taken.
SetupFails(p) ==
  /\ pc[p] = "setup"
  /\ DialFails(tun[p]) \/ Release(tun[p])
  /\ SetupFailed(p)
  /\ UNCHANGED <<mgrVars, netVars, endVars>>

------------------------------------------------------------------------------
(***************************************************************************)
(* Tearing down tun: listener.Close(), <-tun.done, pool.Release().  The    *)
(* close is part of the critical section that decides it: in between, an   *)
(* accept could as well have come before the decision, and a listen that   *)
(* finds the port taken is one of the ways SetupFails.                     *)
(***************************************************************************)

\* <-tun.done: the accept loop has ended.
Done(p) == loop[tun[p]] = "exited"

DrainStep(p) ==
  /\ pc[p] = "drain" /\ Done(p)
  /\ Release(tun[p])
  /\ reconnecting' = IF after[p] = "look" THEN reconnecting \ {key[p]} ELSE reconnecting
  /\ IF p \in Command THEN Rest(p, after[p])
     ELSE /\ Goto(p, after[p])
          /\ tun' = [tun EXCEPT ![p] = None]
          /\ after' = [after EXCEPT ![p] = "idle"]
          /\ attempt' = [attempt EXCEPT ![p] = 0]
          /\ UNCHANGED <<key, dead>>
  /\ UNCHANGED <<tunnels, stop, netVars, endVars>>

------------------------------------------------------------------------------
(* The commands *)

\* Connect: the status check.
ConnectCall(p, k) ==
  /\ pc[p] = "idle"
  /\ IF Alive(k) THEN Rest(p, "connected")
     ELSE /\ Goto(p, "acquire")
          /\ key' = [key EXCEPT ![p] = k]
          /\ UNCHANGED <<tun, attempt, dead, after>>
  /\ UNCHANGED <<poolVars, mgrVars, netVars, endVars>>

\* Connect: the tunnel is tracked and a monitor is started for it.
ConnectWins(p) ==
  /\ pc[p] = "register"
  /\ ~ Alive(key[p])
  /\ Track(p)
  /\ \E m \in Monitor :
       /\ pc[m] = "idle"
       /\ pc' = [pc EXCEPT ![p] = "connected", ![m] = "look"]
       /\ key' = [key EXCEPT ![p] = None, ![m] = key[p]]
  /\ tun' = [tun EXCEPT ![p] = None]
  /\ UNCHANGED <<poolVars, stop, netVars, attempt, dead, after, endVars>>

\* Connect: somebody tracked a tunnel under the key meanwhile.
ConnectLoses(p) ==
  /\ pc[p] = "register"
  /\ Alive(key[p])
  /\ bound' = Unbound({tun[p]})
  /\ Goto(p, "drain")
  /\ after' = [after EXCEPT ![p] = "connected"]
  /\ UNCHANGED <<poolVars, mgrVars, loop, key, tun, attempt, dead, endVars>>

\* Disconnect: the key is forgotten; what was tracked is torn down next.
DisconnectCall(p, k) ==
  /\ pc[p] = "idle"
  /\ tunnels' = [tunnels EXCEPT ![k] = None]
  /\ reconnecting' = reconnecting \ {k}
  /\ IF Alive(k)
     THEN /\ bound' = Unbound({tunnels[k]})
          /\ Goto(p, "drain")
          /\ tun' = [tun EXCEPT ![p] = tunnels[k]]
          /\ after' = [after EXCEPT ![p] = "disconnected"]
          /\ UNCHANGED <<key, attempt, dead>>
     ELSE Rest(p, "disconnected") /\ UNCHANGED bound
  /\ UNCHANGED <<poolVars, stop, loop, endVars>>

\* The answer of a command is delivered and its goroutine ends.
Return(p) ==
  /\ pc[p] \in Answers
  /\ Rest(p, "idle")
  /\ UNCHANGED <<poolVars, mgrVars, netVars, endVars>>

Connecting(p) ==
  \/ AcquireStep(p)
  \/ DialStep(p)
  \/ ListenStep(p)
  \/ SetupFails(p)
  \/ DrainStep(p)

CommandNext(p) ==
  \/ Connecting(p)
  \/ ConnectWins(p)
  \/ ConnectLoses(p)
  \/ Return(p)

------------------------------------------------------------------------------
(* The monitor of a tunnel *)

Look(m) ==
  /\ pc[m] = "look"
  /\ IF Alive(key[m])
     THEN /\ tun' = [tun EXCEPT ![m] = tunnels[key[m]]]
          /\ Goto(m, "arm")
          /\ UNCHANGED <<key, attempt, dead, after>>
     ELSE Rest(m, "idle")
  /\ UNCHANGED <<poolVars, mgrVars, netVars, endVars>>

\* pool.Dead(host): the channel of the connection pooled now, or a closed one.
Arm(m) ==
  /\ pc[m] = "arm"
  /\ dead' = [dead EXCEPT ![m] = conns[HostOf[key[m]]]]
  /\ Goto(m, "watch")
  /\ UNCHANGED <<poolVars, mgrVars, netVars, key, tun, attempt, after, endVars>>

WatchStopIgnored(m) ==
  /\ pc[m] = "watch" /\ stop
  /\ UNCHANGED vars

\* The select of monitor: shutdown, the end of the accept loop, or the death of
\* the connection, in which case the listener is closed.
WatchStop(m) ==
  /\ pc[m] = "watch" /\ stop
  /\ Rest(m, "idle")
  /\ UNCHANGED <<poolVars, mgrVars, netVars, endVars>>

WatchDone(m) ==
  /\ pc[m] = "watch" /\ Done(m)
  /\ Goto(m, "check")
  /\ dead' = [dead EXCEPT ![m] = None]
  /\ UNCHANGED <<poolVars, mgrVars, netVars, key, tun, attempt, after, endVars>>

WatchDead(m) ==
  /\ pc[m] = "watch" /\ (dead[m] # None => link[dead[m]] = "dead")
  /\ bound' = Unbound({tun[m]})
  /\ Goto(m, "check")
  /\ dead' = [dead EXCEPT ![m] = None]
  /\ UNCHANGED <<poolVars, mgrVars, loop, key, tun, attempt, after, endVars>>

TracksAny(m) == Alive(key[m])

\* current == tun: the tunnel the monitor watched is still the tracked one.
TracksOwn(m) == tunnels[key[m]] = tun[m]

\* When the accept loop has ended: unless the dead tunnel was disconnected or
\* replaced it is dropped, and its key is reconnecting from here on.
Check(m) ==
  /\ pc[m] = "check" /\ Done(m)
  /\ IF ~ TracksOwn(m)
     THEN Rest(m, "idle") /\ UNCHANGED mgrVars
     ELSE /\ tunnels' = [tunnels EXCEPT ![key[m]] = None]
          /\ reconnecting' = reconnecting \cup {key[m]}
          /\ Goto(m, "release")
          /\ UNCHANGED <<stop, key, tun, attempt, dead, after>>
  /\ UNCHANGED <<poolVars, netVars, endVars>>

ReleaseStep(m) ==
  /\ pc[m] = "release"
  /\ Release(tun[m])
  /\ tun' = [tun EXCEPT ![m] = None]
  /\ Goto(m, "retry")
  /\ UNCHANGED <<mgrVars, netVars, key, attempt, dead, after, endVars>>

\* One turn of reconnectWithBackoff: the wait is over or the manager stopped,
\* then the flag and the map are looked at under the lock.  The test of stop
\* and the critical section are one step: stop is not read in between.
Retry(m) ==
  /\ pc[m] = "retry"
  /\ IF stop \/ key[m] \notin reconnecting
     THEN UNCHANGED reconnecting /\ Goto(m, "forget")
     ELSE IF Alive(key[m])
     THEN reconnecting' = reconnecting \ {key[m]} /\ Goto(m, "look")
     ELSE UNCHANGED reconnecting /\ Goto(m, "acquire")
  /\ UNCHANGED <<poolVars, tunnels, stop, netVars, key, tun, attempt, dead, after, endVars>>

MayReviveAnyway(m) == ~ Alive(key[m])

\* The final check: nobody disconnected the key or revived it meanwhile.
MayRevive(m) == key[m] \in reconnecting /\ ~ Alive(key[m])

ReviveUnwatched(m) ==
  /\ pc[m] = "register" /\ MayRevive(m)
  /\ Track(m)
  /\ Rest(m, "idle")
  /\ UNCHANGED <<poolVars, stop, netVars, endVars>>

\* The new tunnel is tracked if the key is still to be revived.
ReviveWins(m) ==
  /\ pc[m] = "register" /\ MayRevive(m)
  /\ Track(m)
  /\ tun' = [tun EXCEPT ![m] = None]
  /\ attempt' = [attempt EXCEPT ![m] = 0]
  /\ Goto(m, "look")
  /\ UNCHANGED <<poolVars, stop, netVars, key, dead, after, endVars>>

\* Otherwise it is torn down; where a tunnel is tracked while the flag is
\* set, the flag is deleted afterwards, outside the lock (see DrainStep).
ReviveLoses(m) ==
  /\ pc[m] = "register" /\ ~ MayRevive(m)
  /\ bound' = Unbound({tun[m]})
  /\ Goto(m, "drain")
  /\ after' = [after EXCEPT ![m] = IF key[m] \in reconnecting THEN "look" ELSE "forget"]
  /\ UNCHANGED <<poolVars, mgrVars, loop, key, tun, attempt, dead, endVars>>

ForgetFlagged(m) ==
  /\ pc[m] = "forget"
  /\ Rest(m, "idle")
  /\ UNCHANGED <<poolVars, mgrVars, netVars, endVars>>

\* The monitor gives the key up.
Forget(m) ==
  /\ pc[m] = "forget"
  /\ reconnecting' = reconnecting \ {key[m]}
  /\ Rest(m, "idle")
  /\ UNCHANGED <<poolVars, tunnels, stop, netVars, endVars>>

MonitorNext(m) ==
  \/ Look(m)
  \/ Arm(m)
  \/ WatchStop(m)
  \/ WatchDone(m)
  \/ WatchDead(m)
  \/ Check(m)
  \/ ReleaseStep(m)
  \/ Retry(m)
  \/ Connecting(m)
  \/ ReviveWins(m)
  \/ ReviveLoses(m)
  \/ Forget(m)

------------------------------------------------------------------------------
(* The accept loop of a tunnel *)

Accept(l) ==
  /\ loop[l] = "accepting" /\ \E x \in Port : bound[x] = l
  /\ loop' = [loop EXCEPT ![l] = "dialing"]
  /\ UNCHANGED <<poolVars, mgrVars, bound, procVars, endVars>>

AcceptFails(l) ==
  /\ loop[l] = "accepting" /\ \A x \in Port : bound[x] # l
  /\ loop' = [loop EXCEPT ![l] = "exited"]
  /\ UNCHANGED <<poolVars, mgrVars, bound, procVars, endVars>>

Forwarded(l) ==
  /\ loop[l] = "dialing" /\ link[client[l]] = "live"
  /\ loop' = [loop EXCEPT ![l] = "accepting"]
  /\ UNCHANGED <<poolVars, mgrVars, bound, procVars, endVars>>

ForwardFailsOpen(l) ==
  /\ loop[l] = "dialing"
  /\ loop' = [loop EXCEPT ![l] = "exited"]
  /\ UNCHANGED <<poolVars, mgrVars, bound, procVars, endVars>>

\* The database cannot be dialed through the connection: the loop closes its
\* listener and ends.
ForwardFails(l) ==
  /\ loop[l] = "dialing"
  /\ loop' = [loop EXCEPT ![l] = "exited"]
  /\ bound' = Unbound({l})
  /\ UNCHANGED <<poolVars, mgrVars, procVars, endVars>>

LoopNext(l) == AcceptFails(l) \/ Forwarded(l) \/ ForwardFails(l)

------------------------------------------------------------------------------
(* DisconnectAll, once, and the world outside *)

StopAll ==
  /\ down = "no"
  /\ stop' = TRUE /\ down' = "stopped"
  /\ UNCHANGED <<poolVars, tunnels, reconnecting, netVars, procVars, doomed>>

TakeAll ==
  /\ down = "stopped" /\ down' = "taken"
  /\ doomed' = {tunnels[k] : k \in Key} \ {None}
  /\ tunnels' = [k \in Key |-> None]
  /\ reconnecting' = {}
  /\ UNCHANGED <<poolVars, stop, netVars, procVars>>

\* The loop over the taken tunnels that closes their listeners, as one step.
CloseListeners ==
  /\ down = "taken" /\ down' = "closed"
  /\ bound' = Unbound(doomed)
  /\ UNCHANGED <<poolVars, mgrVars, loop, procVars, doomed>>

FinishAll ==
  /\ down = "closed" /\ down' = "done"
  /\ \A l \in doomed : loop[l] = "exited"
  /\ CloseAll
  /\ UNCHANGED <<mgrVars, netVars, procVars, doomed>>

DisconnectAllNext == TakeAll \/ CloseListeners \/ FinishAll

ConnectionNext(c) ==
  /\ Drop(c) \/ WaitReturns(c)
  /\ UNCHANGED <<mgrVars, netVars, procVars, endVars>>

RunningNext ==
  \/ \E p \in Command, k \in Key : ConnectCall(p, k) \/ DisconnectCall(p, k)
  \/ \E p \in Command : CommandNext(p)
  \/ \E m \in Monitor : MonitorNext(m)
  \/ \E l \in Lease : Accept(l) \/ LoopNext(l)
  \/ \E c \in Client : ConnectionNext(c)

TunnelSpec == TunnelInit /\ [][RunningNext \/ StopAll \/ DisconnectAllNext]_vars

\* The manager until the program quits.
RunningSpec == TunnelInit /\ [][RunningNext]_vars

(***************************************************************************)
(* Goroutines that can go on do so: every dial, listen and remote command  *)
(* answers, one way or the other, and a lost connection is noticed.        *)
(* Nobody has to call a command, to connect to a port, or to quit.  The    *)
(* fairness of commands is strong because Monitor is bounded: a Connect    *)
(* that may start its monitor now and then never waits for it in the code. *)
(***************************************************************************)
Fairness ==
  /\ \A p \in Command : SF_vars(CommandNext(p))
  /\ \A m \in Monitor : WF_vars(MonitorNext(m))
  /\ \A l \in Lease : WF_vars(LoopNext(l))
  /\ \A c \in Client : WF_vars(WaitReturns(c) /\ UNCHANGED <<mgrVars, netVars, procVars, endVars>>)
  /\ WF_vars(DisconnectAllNext)

FairSpec == TunnelSpec /\ Fairness

------------------------------------------------------------------------------
(* Safety *)

\* A key that is reconnecting has no tunnel: Connect, Disconnect, monitors and
\* DisconnectAll keep the two maps apart.
AliveXorReconnecting == \A k \in reconnecting : ~ Alive(k)

\* Until shutdown some monitor is on, or on its way to, every tracked tunnel:
\* no interleaving of reconnects and commands leaves a tunnel unwatched.
EveryTunnelMonitored ==
  stop \/ \A k \in Key : Alive(k) =>
    \E m \in Monitor : key[m] = k /\
      (pc[m] = "look" \/ (tun[m] = tunnels[k] /\ pc[m] \in {"arm", "watch", "check"}))

\* A reconnecting key has a monitor that will revive it or give it up.
ReconnectingIsServed ==
  \A k \in reconnecting : \E m \in Monitor :
    key[m] = k /\ pc[m] \in {"release", "retry", "forget"} \cup Setting

\* Who has to release a tunnel: a key it is tracked under, a goroutine, or
\* (written None) DisconnectAll.
Owners(l) ==
  {k \in Key : tunnels[k] = l} \cup {p \in Proc : tun[p] = l /\ pc[p] \in Owning}
    \cup (IF l \in doomed THEN {None} ELSE {})

\* A lease of the pool has exactly one owner until it is released: whoever
\* loses a race, no reference is leaked and none is released twice.
OneOwner ==
  \A l \in Lease : IF stage[l] = "out" THEN Owners(l) = {}
                    ELSE \E x \in Owners(l) : Owners(l) = {x}

\* A port is listened on only for a tunnel that still holds its connection.
BoundIsHeld ==
  \A x \in Port : bound[x] # None =>
    stage[bound[x]] = "held" /\ loop[bound[x]] \in {"accepting", "dialing"}

\* When nothing is tracked and no goroutine runs, nothing is left behind: no
\* port in use, no connection pooled, none up.
QuietIsEmpty ==
  (/\ \A k \in Key : ~ Alive(k)
   /\ \A p \in Proc : pc[p] \in {"idle"} \cup Answers
   /\ down \in {"no", "done"}) =>
  (/\ \A x \in Port : bound[x] = None
   /\ \A h \in Host : conns[h] = None
   /\ \A c \in Client : link[c] # "live")

------------------------------------------------------------------------------
(* Liveness, under Fairness *)

\* Every Connect and Disconnect is answered: waiting for an accept loop to end
\* blocks nobody for ever.
CommandsReturn == \A p \in Command : pc[p] # "idle" ~> pc[p] = "idle"

\* A key does not stay reconnecting: it is revived, disconnected or given up.
ReconnectSettles == \A k \in Key : k \in reconnecting ~> k \notin reconnecting

\* DisconnectAll comes to its end ...
ShutdownEnds == stop ~> down = "done"

\* ... and every monitor does, those of tunnels connected too late included.
MonitorsEnd == \A m \in Monitor : stop ~> pc[m] = "idle"

------------------------------------------------------------------------------
(* The service the manager implements *)

Status(k) ==
  IF Alive(k) THEN "Alive" ELSE IF k \in reconnecting THEN "Reconnecting" ELSE "None"

Call(p) ==
  IF pc[p] \in Setting THEN "connecting"
  ELSE IF pc[p] = "drain" THEN after[p] ELSE pc[p]

Service == INSTANCE TunnelService WITH
  status <- [k \in Key |-> Status(k)],
  call   <- [p \in Command |-> Call(p)],
  arg    <- [p \in Command |-> IF pc[p] \in Setting THEN key[p] ELSE None],
  ended  <- down \notin {"no", "stopped"}

\* Every behaviour of the manager is one of the service.
Implements == Service!ServiceSpec

==============================================================================
