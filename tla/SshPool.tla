------------------------------- MODULE SshPool -------------------------------
(***************************************************************************)
(* The pool of shared SSH connections (type sshPool of sshclient.go): one  *)
(* connection per host, reference counted, dialed outside the lock.        *)
(*                                                                         *)
(* A Lease is one span from the start of an Acquire to the Release that    *)
(* pays it back; a Client is an *ssh.Client together with the dead channel *)
(* that its Wait goroutine closes.  Both are recycled: a lease that is out *)
(* and a client nobody refers to may be used again.                        *)
(*                                                                         *)
(* A definition without a comment that stands right before an action and   *)
(* looks like it (LoseUnclosed, WinUnchecked, ...) is that action with a   *)
(* plausible bug in it.  No specification uses it: PROJECT.json names the  *)
(* property that catches it.                                               *)
(***************************************************************************)
EXTENDS Naturals, FiniteSets

CONSTANTS Host,     \* SSH host names: the keys of the pool
          Client,   \* identities of ssh connections
          Lease,    \* spans from an Acquire to its Release
          None      \* no connection, no host

ASSUME NoneIsNew == None \notin Client /\ None \notin Host
ASSUME FiniteLeases == IsFiniteSet(Lease)

VARIABLES conns,    \* p.conns: the connection pooled for each host
          refs,     \* pc.refs of the pooled connection, 0 where there is none
          link,     \* what became of each connection
          stage,    \* how far each lease is
          client,   \* the connection a lease was given
          host      \* the host a lease is for

poolVars == <<conns, refs, link, stage, client, host>>

(***************************************************************************)
(* "down": the connection is over (closed by us, or lost) but the Wait     *)
(* goroutine has not closed the dead channel yet; "dead": it has, or the   *)
(* client was never dialed, which makes no difference to anybody.          *)
(***************************************************************************)
Links  == {"live", "down", "dead"}
Stages == {"out", "dialing", "dialed", "held"}

PoolTypeOK ==
  /\ conns  \in [Host -> Client \cup {None}]
  /\ refs   \in [Host -> Nat]
  /\ link   \in [Client -> Links]
  /\ stage  \in [Lease -> Stages]
  /\ client \in [Lease -> Client \cup {None}]
  /\ host   \in [Lease -> Host \cup {None}]

PoolInit ==
  /\ conns  = [h \in Host |-> None]
  /\ refs   = [h \in Host |-> 0]
  /\ link   = [c \in Client |-> "dead"]
  /\ stage  = [l \in Lease |-> "out"]
  /\ client = [l \in Lease |-> None]
  /\ host   = [l \in Lease |-> None]

------------------------------------------------------------------------------

\* The test `case <-pc.dead: ... default:` made on the pooled connection.
Usable(h) == conns[h] # None /\ link[conns[h]] # "dead"

\* client.Close(): the connection ends, its dead channel closes later.
Closed(C) == [c \in Client |-> IF c \in C /\ link[c] = "live" THEN "down" ELSE link[c]]

Holders(h) == {l \in Lease : stage[l] = "held" /\ host[l] = h}

\* A connection that a dial may return: nothing in the pool refers to it.
Fresh(c) ==
  /\ link[c] = "dead"
  /\ \A h \in Host : conns[h] # c
  /\ \A l \in Lease : client[l] # c

\* Lease l is given the connection pooled for h.
Hold(l, h, c) ==
  /\ stage'  = [stage  EXCEPT ![l] = "held"]
  /\ client' = [client EXCEPT ![l] = c]
  /\ host'   = [host   EXCEPT ![l] = h]

\* Lease l is over.
Drained(l) ==
  /\ stage'  = [stage  EXCEPT ![l] = "out"]
  /\ client' = [client EXCEPT ![l] = None]
  /\ host'   = [host   EXCEPT ![l] = None]

------------------------------------------------------------------------------

\* Acquire finds a connection that is not known to be dead and shares it.
AcquireShared(l, h) ==
  /\ stage[l] = "out" /\ Usable(h)
  /\ refs' = [refs EXCEPT ![h] = @ + 1]
  /\ Hold(l, h, conns[h])
  /\ UNCHANGED <<conns, link>>

\* Acquire finds nothing, or a dead connection that it drops; it will dial.
AcquireMiss(l, h) ==
  /\ stage[l] = "out" /\ ~ Usable(h)
  /\ conns' = [conns EXCEPT ![h] = None]
  /\ refs'  = [refs  EXCEPT ![h] = 0]
  /\ stage' = [stage EXCEPT ![l] = "dialing"]
  /\ host'  = [host  EXCEPT ![l] = h]
  /\ UNCHANGED <<link, client>>

\* dialSSH, without the lock: it answers with a new connection or an error.
DialOk(l, c) ==
  /\ stage[l] = "dialing" /\ Fresh(c)
  /\ link'   = [link   EXCEPT ![c] = "live"]
  /\ stage'  = [stage  EXCEPT ![l] = "dialed"]
  /\ client' = [client EXCEPT ![l] = c]
  /\ UNCHANGED <<conns, refs, host>>

DialFails(l) ==
  /\ stage[l] = "dialing"
  /\ Drained(l)
  /\ UNCHANGED <<conns, refs, link>>

LoseUnclosed(l) ==
  /\ stage[l] = "dialed" /\ Usable(host[l])
  /\ refs' = [refs EXCEPT ![host[l]] = @ + 1]
  /\ Hold(l, host[l], conns[host[l]])
  /\ UNCHANGED <<conns, link>>

\* Under the lock again: somebody else's connection is usable, ours is closed.
AcquireLost(l) ==
  /\ stage[l] = "dialed" /\ Usable(host[l])
  /\ refs' = [refs EXCEPT ![host[l]] = @ + 1]
  /\ link' = Closed({client[l]})
  /\ Hold(l, host[l], conns[host[l]])
  /\ UNCHANGED conns

WinUnchecked(l) ==
  /\ stage[l] = "dialed"
  /\ conns' = [conns EXCEPT ![host[l]] = client[l]]
  /\ refs'  = [refs  EXCEPT ![host[l]] = 1]
  /\ stage' = [stage EXCEPT ![l] = "held"]
  /\ UNCHANGED <<link, client, host>>

\* Under the lock again: nothing usable is pooled, ours is published.
AcquireWon(l) ==
  /\ stage[l] = "dialed" /\ ~ Usable(host[l])
  /\ conns' = [conns EXCEPT ![host[l]] = client[l]]
  /\ refs'  = [refs  EXCEPT ![host[l]] = 1]
  /\ stage' = [stage EXCEPT ![l] = "held"]
  /\ UNCHANGED <<link, client, host>>

ReleaseHostLate(h) ==
  IF conns[h] # None /\ refs[h] = 0
  THEN /\ conns' = [conns EXCEPT ![h] = None]
       /\ refs'  = [refs  EXCEPT ![h] = 0]
       /\ link'  = Closed({conns[h]})
  ELSE /\ refs'  = [refs  EXCEPT ![h] = IF @ = 0 THEN 0 ELSE @ - 1]
       /\ UNCHANGED <<conns, link>>

\* The effect of Release(sshHost) on the pool: the host, not the connection
\* the lease was given, decides which count goes down.
ReleaseHost(h) ==
  IF refs[h] > 1
  THEN /\ refs' = [refs EXCEPT ![h] = @ - 1]
       /\ UNCHANGED <<conns, link>>
  ELSE /\ conns' = [conns EXCEPT ![h] = None]
       /\ refs'  = [refs  EXCEPT ![h] = 0]
       /\ link'  = Closed({conns[h]})

Release(l) ==
  /\ stage[l] = "held"
  /\ ReleaseHost(host[l])
  /\ Drained(l)

------------------------------------------------------------------------------

\* The connection is lost: the peer or the network ends it.
Drop(c) ==
  /\ link[c] = "live"
  /\ link' = [link EXCEPT ![c] = "down"]
  /\ UNCHANGED <<conns, refs, stage, client, host>>

\* client.Wait() returns and the goroutine of Acquire closes the dead channel.
WaitReturns(c) ==
  /\ link[c] = "down"
  /\ link' = [link EXCEPT ![c] = "dead"]
  /\ UNCHANGED <<conns, refs, stage, client, host>>

CloseAll ==
  /\ link'  = Closed({conns[h] : h \in Host})
  /\ conns' = [h \in Host |-> None]
  /\ refs'  = [h \in Host |-> 0]
  /\ UNCHANGED <<stage, client, host>>

\* What the callers of the pool and its own goroutines do.
Calls ==
  \/ \E l \in Lease, h \in Host : AcquireShared(l, h) \/ AcquireMiss(l, h)
  \/ \E l \in Lease, c \in Client : DialOk(l, c)
  \/ \E l \in Lease : DialFails(l) \/ AcquireLost(l) \/ AcquireWon(l) \/ Release(l)
  \/ \E c \in Client : WaitReturns(c)

Loss == \E c \in Client : Drop(c)

PoolSpec == PoolInit /\ [][Calls \/ Loss \/ CloseAll]_poolVars

\* The pool before shutdown.
LossySpec == PoolInit /\ [][Calls \/ Loss]_poolVars

\* The pool over connections that only the pool itself ends.
ReliableSpec == PoolInit /\ [][Calls]_poolVars

------------------------------------------------------------------------------

\* A connection that is up is reachable by somebody who will close it: it is
\* pooled, or in the hands of the Acquire that has just dialed it.  (The
\* loser of a dial race and a dead entry that is replaced leak nothing.)
LiveIsOwned ==
  \A c \in Client : link[c] = "live" =>
    \/ \E h \in Host : conns[h] = c
    \/ \E l \in Lease : stage[l] = "dialed" /\ client[l] = c

\* A lease whose connection is up holds the pooled connection of its host:
\* two dials racing for a host never leave two working connections in use.
HeldLiveIsPooled ==
  \A l \in Lease : stage[l] = "held" /\ link[client[l]] = "live" =>
    conns[host[l]] = client[l]

\* The count of a pooled connection is between 1 and the number of leases on
\* its host, however often it was lost and replaced: when the last lease is
\* released the pool is empty.
RefsCovered ==
  \A h \in Host : conns[h] # None => refs[h] \in 1 .. Cardinality(Holders(h))

\* While no connection is lost the count is exactly the number of leases.
RefsExact ==
  \A h \in Host : conns[h] # None => refs[h] = Cardinality(Holders(h))

\* A Release never closes the connection another lease is using: the claim
\* "When refs reach zero the SSH connection is closed" taken as "only then".
ReleaseSparesHolders ==
  [][\A l \in Lease : Release(l) =>
       \A m \in Lease \ {l} : stage[m] = "held" => link'[client[m]] = link[client[m]]]_poolVars

==============================================================================
