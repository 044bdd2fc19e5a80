---------------------------- MODULE SshPoolProofs ----------------------------
(***************************************************************************)
(* Proofs about SshPool, for every set of hosts, connections and leases.   *)
(*                                                                         *)
(* PoolInv is the inductive invariant of PoolSpec: connections may be lost *)
(* at any time.  ExactInv strengthens it for ReliableSpec, where the count *)
(* of a connection is exact and a Release is shown to spare the others.    *)
(***************************************************************************)
EXTENDS SshPool, FiniteSetTheorems, TLAPS

\* What a lease knows at each stage.
StageShape ==
  \A l \in Lease :
    /\ stage[l] = "out" => client[l] = None /\ host[l] = None
    /\ stage[l] = "dialing" => client[l] = None /\ host[l] \in Host
    /\ stage[l] \in {"dialed", "held"} => client[l] \in Client /\ host[l] \in Host

UnpooledUncounted == \A h \in Host : conns[h] = None => refs[h] = 0

PoolInv ==
  /\ PoolTypeOK
  /\ StageShape
  /\ UnpooledUncounted
  /\ LiveIsOwned
  /\ HeldLiveIsPooled
  /\ RefsCovered

------------------------------------------------------------------------------

\* The leases held on a host are finitely many.
LEMMA HoldersFinite ==
  ASSUME NEW h \in Host
  PROVE  IsFiniteSet(Holders(h)) /\ Cardinality(Holders(h)) \in Nat
  BY FiniteLeases, FS_Subset, FS_CardinalityType DEF Holders

\* A lease that becomes held on a host adds one to its holders.
LEMMA HoldAddsOne ==
  ASSUME NEW l \in Lease, NEW g \in Host, PoolTypeOK, stage[l] # "held",
         stage' = [stage EXCEPT ![l] = "held"], host' = [host EXCEPT ![l] = g]
  PROVE  \A h \in Host :
           Cardinality(Holders(h)') = Cardinality(Holders(h)) + (IF h = g THEN 1 ELSE 0)
<1> TAKE h \in Host
<1>1. CASE h = g
  <2>1. Holders(h)' = Holders(h) \cup {l} /\ l \notin Holders(h)
    BY <1>1 DEF Holders, PoolTypeOK
  <2> QED BY <1>1, <2>1, HoldersFinite, FS_AddElement
<1>2. CASE h # g
  <2>1. Holders(h)' = Holders(h)
    BY <1>2 DEF Holders, PoolTypeOK
  <2> QED BY <1>2, <2>1, HoldersFinite
<1> QED BY <1>1, <1>2

\* A lease that is released takes one from its holders.
LEMMA DrainTakesOne ==
  ASSUME NEW l \in Lease, PoolTypeOK, stage[l] = "held", host[l] \in Host, Drained(l)
  PROVE  \A h \in Host :
           /\ h = host[l] => /\ l \in Holders(h)
                             /\ Cardinality(Holders(h)) >= 1
                             /\ Cardinality(Holders(h)') = Cardinality(Holders(h)) - 1
           /\ h # host[l] => Cardinality(Holders(h)') = Cardinality(Holders(h))
<1> TAKE h \in Host
<1>1. CASE h = host[l]
  <2>1. Holders(h)' = Holders(h) \ {l} /\ l \in Holders(h)
    BY <1>1, NoneIsNew DEF Holders, PoolTypeOK, Drained
  <2>2. Cardinality(Holders(h)') = Cardinality(Holders(h)) - 1
    BY <2>1, HoldersFinite, FS_RemoveElement
  <2>3. Cardinality(Holders(h)) # 0
    BY <2>1, HoldersFinite, FS_EmptySet
  <2> QED BY <1>1, <2>1, <2>2, <2>3, HoldersFinite
<1>2. CASE h # host[l]
  <2>1. Holders(h)' = Holders(h)
    BY <1>2 DEF Holders, PoolTypeOK, Drained
  <2> QED BY <1>2, <2>1, HoldersFinite
<1> QED BY <1>1, <1>2

\* A lease that is not held leaves the holders alone by going on or ending.
LEMMA OthersKeepHolders ==
  ASSUME NEW l \in Lease, PoolTypeOK, stage[l] # "held",
         NEW s \in Stages \ {"held"}, stage' = [stage EXCEPT ![l] = s],
         NEW h, \A m \in Lease \ {l} : host'[m] = host[m]
  PROVE  Holders(h)' = Holders(h)
  BY DEF Holders, PoolTypeOK

\* Closing connections only ends them.
LEMMA ClosedType ==
  ASSUME NEW C, PoolTypeOK
  PROVE  /\ Closed(C) \in [Client -> Links]
         /\ \A c \in Client : /\ Closed(C)[c] = "live" => link[c] = "live" /\ c \notin C
                              /\ c \notin C => Closed(C)[c] = link[c]
  BY DEF Closed, Links, PoolTypeOK

------------------------------------------------------------------------------

\* The initial pool satisfies the invariant.
LEMMA PoolInitInv == PoolInit => PoolInv
  BY NoneIsNew DEF PoolInit, PoolInv, PoolTypeOK, StageShape, UnpooledUncounted,
     LiveIsOwned, HeldLiveIsPooled, RefsCovered, Links, Stages

\* Every step of the pool keeps the invariant.
LEMMA PoolStepInv ==
  ASSUME PoolInv, [Calls \/ Loss \/ CloseAll]_poolVars
  PROVE  PoolInv'
<1> USE NoneIsNew DEF PoolInv
<1>1. ASSUME NEW l \in Lease, NEW h \in Host, AcquireShared(l, h)
      PROVE  PoolInv'
  <2> USE <1>1 DEF AcquireShared, Hold, Usable
  <2>0. conns[h] \in Client /\ refs[h] \in Nat
    BY DEF PoolTypeOK
  <2>1. PoolTypeOK'
    BY <2>0 DEF PoolTypeOK, Stages
  <2>2. StageShape'
    BY <2>0 DEF PoolTypeOK, StageShape
  <2>3. UnpooledUncounted'
    BY <2>0 DEF PoolTypeOK, UnpooledUncounted
  <2>4. LiveIsOwned'
    BY DEF PoolTypeOK, LiveIsOwned
  <2>5. HeldLiveIsPooled'
    BY DEF PoolTypeOK, HeldLiveIsPooled
  <2>6. \A g \in Host :
          Cardinality(Holders(g)') = Cardinality(Holders(g)) + (IF g = h THEN 1 ELSE 0)
    BY HoldAddsOne
  <2>7. RefsCovered'
    BY <2>0, <2>6, HoldersFinite DEF PoolTypeOK, RefsCovered
  <2> QED BY <2>1, <2>2, <2>3, <2>4, <2>5, <2>7
<1>2. ASSUME NEW l \in Lease, NEW h \in Host, AcquireMiss(l, h)
      PROVE  PoolInv'
  <2> USE <1>2 DEF AcquireMiss, Usable
  <2>1. PoolTypeOK'
    BY DEF PoolTypeOK, Stages
  <2>2. StageShape'
    BY DEF PoolTypeOK, StageShape
  <2>3. UnpooledUncounted'
    BY DEF PoolTypeOK, UnpooledUncounted
  <2>4. LiveIsOwned'
    BY DEF PoolTypeOK, LiveIsOwned
  <2>5. HeldLiveIsPooled'
    BY DEF PoolTypeOK, HeldLiveIsPooled, StageShape
  <2>6. \A g \in Host : Holders(g)' = Holders(g)
    BY OthersKeepHolders DEF PoolTypeOK, Stages
  <2>7. RefsCovered'
    BY <2>6 DEF PoolTypeOK, RefsCovered
  <2> QED BY <2>1, <2>2, <2>3, <2>4, <2>5, <2>7
<1>3. ASSUME NEW l \in Lease, NEW c \in Client, DialOk(l, c)
      PROVE  PoolInv'
  <2> USE <1>3 DEF DialOk, Fresh
  <2>1. PoolTypeOK'
    BY DEF PoolTypeOK, Stages, Links
  <2>2. StageShape'
    BY DEF PoolTypeOK, StageShape
  <2>3. UnpooledUncounted'
    BY DEF PoolTypeOK, UnpooledUncounted
  <2>4. LiveIsOwned'
    BY DEF PoolTypeOK, LiveIsOwned
  <2>5. HeldLiveIsPooled'
    BY DEF PoolTypeOK, HeldLiveIsPooled
  <2>6. \A g \in Host : Holders(g)' = Holders(g)
    BY OthersKeepHolders DEF PoolTypeOK, Stages
  <2>7. RefsCovered'
    BY <2>6 DEF PoolTypeOK, RefsCovered
  <2> QED BY <2>1, <2>2, <2>3, <2>4, <2>5, <2>7
<1>4. ASSUME NEW l \in Lease, DialFails(l)
      PROVE  PoolInv'
  <2> USE <1>4 DEF DialFails, Drained
  <2>1. PoolTypeOK'
    BY DEF PoolTypeOK, Stages
  <2>2. StageShape'
    BY DEF PoolTypeOK, StageShape
  <2>3. UnpooledUncounted'
    BY DEF PoolTypeOK, UnpooledUncounted
  <2>4. LiveIsOwned'
    BY DEF PoolTypeOK, LiveIsOwned
  <2>5. HeldLiveIsPooled'
    BY DEF PoolTypeOK, HeldLiveIsPooled
  <2>6. \A g \in Host : Holders(g)' = Holders(g)
    BY OthersKeepHolders DEF PoolTypeOK, Stages
  <2>7. RefsCovered'
    BY <2>6 DEF PoolTypeOK, RefsCovered
  <2> QED BY <2>1, <2>2, <2>3, <2>4, <2>5, <2>7
<1>5. ASSUME NEW l \in Lease, AcquireLost(l)
      PROVE  PoolInv'
  <2> USE <1>5 DEF AcquireLost, Hold, Usable
  <2>0. /\ host[l] \in Host /\ client[l] \in Client
        /\ conns[host[l]] \in Client /\ refs[host[l]] \in Nat
    BY DEF PoolTypeOK, StageShape
  <2>1. PoolTypeOK'
    BY <2>0, ClosedType DEF PoolTypeOK, Stages
  <2>2. StageShape'
    BY <2>0 DEF PoolTypeOK, StageShape
  <2>3. UnpooledUncounted'
    BY <2>0 DEF PoolTypeOK, UnpooledUncounted
  <2>4. LiveIsOwned'
    BY <2>0, ClosedType DEF PoolTypeOK, LiveIsOwned
  <2>5. HeldLiveIsPooled'
    BY <2>0, ClosedType DEF PoolTypeOK, HeldLiveIsPooled, StageShape
  <2>6. host' = [host EXCEPT ![l] = host[l]] /\ stage' = [stage EXCEPT ![l] = "held"]
    BY DEF PoolTypeOK
  <2>7. \A g \in Host :
          Cardinality(Holders(g)') = Cardinality(Holders(g)) + (IF g = host[l] THEN 1 ELSE 0)
    BY <2>0, <2>6, HoldAddsOne
  <2>8. RefsCovered'
    BY <2>0, <2>7, HoldersFinite DEF PoolTypeOK, RefsCovered
  <2> QED BY <2>1, <2>2, <2>3, <2>4, <2>5, <2>8
<1>6. ASSUME NEW l \in Lease, AcquireWon(l)
      PROVE  PoolInv'
  <2> USE <1>6 DEF AcquireWon, Usable
  <2>0. host[l] \in Host /\ client[l] \in Client
    BY DEF StageShape
  <2>1. PoolTypeOK'
    BY <2>0 DEF PoolTypeOK, Stages
  <2>2. StageShape'
    BY <2>0 DEF PoolTypeOK, StageShape
  <2>3. UnpooledUncounted'
    BY <2>0 DEF PoolTypeOK, UnpooledUncounted
  <2>4. LiveIsOwned'
    BY <2>0 DEF PoolTypeOK, LiveIsOwned
  <2>5. HeldLiveIsPooled'
    BY <2>0 DEF PoolTypeOK, HeldLiveIsPooled, StageShape
  <2>6. host' = [host EXCEPT ![l] = host[l]]
    BY DEF PoolTypeOK
  <2>7. \A g \in Host :
          Cardinality(Holders(g)') = Cardinality(Holders(g)) + (IF g = host[l] THEN 1 ELSE 0)
    BY <2>0, <2>6, HoldAddsOne
  <2>8. RefsCovered'
    BY <2>0, <2>7, HoldersFinite DEF PoolTypeOK, RefsCovered
  <2> QED BY <2>1, <2>2, <2>3, <2>4, <2>5, <2>8
<1>7. ASSUME NEW l \in Lease, Release(l)
      PROVE  PoolInv'
  <2> USE <1>7 DEF Release, ReleaseHost
  <2>0. host[l] \in Host /\ client[l] \in Client /\ refs[host[l]] \in Nat
    BY DEF StageShape, PoolTypeOK
  <2>1. PoolTypeOK'
    BY <2>0, ClosedType DEF PoolTypeOK, Drained, Stages
  <2>2. StageShape'
    BY <2>0 DEF PoolTypeOK, StageShape, Drained
  <2>3. UnpooledUncounted'
    BY <2>0 DEF PoolTypeOK, UnpooledUncounted
  <2>4. LiveIsOwned'
    BY <2>0, ClosedType DEF PoolTypeOK, LiveIsOwned, Drained
  <2>5. HeldLiveIsPooled'
    BY <2>0, ClosedType DEF PoolTypeOK, HeldLiveIsPooled, StageShape, Drained
  <2>6. RefsCovered'
    BY <2>0, DrainTakesOne, HoldersFinite DEF PoolTypeOK, RefsCovered
  <2> QED BY <2>1, <2>2, <2>3, <2>4, <2>5, <2>6
<1>8. ASSUME NEW c \in Client, WaitReturns(c) \/ Drop(c)
      PROVE  PoolInv'
  <2> USE <1>8 DEF WaitReturns, Drop
  <2>1. PoolTypeOK'
    BY DEF PoolTypeOK, Links
  <2>2. StageShape'
    BY DEF StageShape
  <2>3. UnpooledUncounted'
    BY DEF UnpooledUncounted
  <2>4. LiveIsOwned'
    BY DEF PoolTypeOK, LiveIsOwned
  <2>5. HeldLiveIsPooled'
    BY DEF PoolTypeOK, HeldLiveIsPooled, StageShape
  <2>6. RefsCovered'
    BY DEF RefsCovered, Holders
  <2> QED BY <2>1, <2>2, <2>3, <2>4, <2>5, <2>6
<1>9. CASE CloseAll
  <2> USE <1>9 DEF CloseAll
  <2>1. PoolTypeOK'
    BY ClosedType DEF PoolTypeOK
  <2>2. StageShape'
    BY DEF StageShape
  <2>3. UnpooledUncounted'
    BY DEF UnpooledUncounted
  <2>4. LiveIsOwned'
    BY ClosedType DEF PoolTypeOK, LiveIsOwned
  <2>5. HeldLiveIsPooled'
    BY ClosedType DEF PoolTypeOK, HeldLiveIsPooled, StageShape
  <2>6. RefsCovered'
    BY DEF RefsCovered
  <2> QED BY <2>1, <2>2, <2>3, <2>4, <2>5, <2>6
<1>10. CASE UNCHANGED poolVars
  BY <1>10 DEF poolVars, PoolTypeOK, StageShape, UnpooledUncounted, LiveIsOwned,
     HeldLiveIsPooled, RefsCovered, Holders
<1> QED
  BY <1>1, <1>2, <1>3, <1>4, <1>5, <1>6, <1>7, <1>8, <1>9, <1>10 DEF Calls, Loss

\* Whatever is lost, and whenever the pool is shut down: the pool leaks no
\* live connection (Acquire closes the loser of a race), the live connection
\* of a holder is the pooled one, and a count stays covered by its leases.
THEOREM PoolSafe ==
  PoolSpec => [](PoolTypeOK /\ LiveIsOwned /\ HeldLiveIsPooled /\ RefsCovered)
<1>1. PoolInv /\ [Calls \/ Loss \/ CloseAll]_poolVars => PoolInv'
  BY PoolStepInv
<1>2. PoolInv => PoolTypeOK /\ LiveIsOwned /\ HeldLiveIsPooled /\ RefsCovered
  BY DEF PoolInv
<1> QED BY PoolInitInv, <1>1, <1>2, PTL DEF PoolSpec

------------------------------------------------------------------------------
(***************************************************************************)
(* While only the pool ends connections, everything pooled is live, every  *)
(* lease holds the pooled connection of its host, and no connection has    *)
(* two places.                                                             *)
(***************************************************************************)

AllPooled == \A l \in Lease : stage[l] = "held" => client[l] = conns[host[l]]

PooledLive == \A h \in Host : conns[h] # None => link[conns[h]] = "live"

PooledApart ==
  \A h, g \in Host : conns[h] # None /\ conns[h] = conns[g] => h = g

DialedApart ==
  \A l \in Lease : stage[l] = "dialed" =>
    /\ link[client[l]] = "live"
    /\ \A h \in Host : conns[h] # client[l]
    /\ \A m \in Lease \ {l} : client[m] # client[l]

ExactInv ==
  /\ PoolInv
  /\ AllPooled
  /\ PooledLive
  /\ PooledApart
  /\ DialedApart
  /\ RefsExact

LEMMA ExactInitInv == PoolInit => ExactInv
  BY PoolInitInv, NoneIsNew DEF PoolInit, ExactInv, AllPooled, PooledLive,
     PooledApart, DialedApart, RefsExact

\* A host without a connection has no holders.
LEMMA UnpooledUnheld ==
  ASSUME ExactInv, NEW h \in Host, conns[h] = None
  PROVE  Holders(h) = {} /\ Cardinality(Holders(h)) = 0
<1>1. Holders(h) = {}
  BY NoneIsNew DEF ExactInv, PoolInv, AllPooled, StageShape, Holders
<1> QED BY <1>1, FS_EmptySet

\* A count of one leaves a host with a single holder.
LEMMA LastHolder ==
  ASSUME ExactInv, NEW l \in Lease, stage[l] = "held", ~ refs[host[l]] > 1
  PROVE  \A m \in Lease \ {l} : stage[m] = "held" => host[m] # host[l]
<1> DEFINE h == host[l]
<1>1. /\ h \in Host /\ client[l] \in Client /\ conns[h] = client[l]
      /\ refs[h] \in Nat
  BY DEF ExactInv, PoolInv, PoolTypeOK, StageShape, AllPooled
<1>2. l \in Holders(h)
  BY DEF Holders
<1>3. refs[h] = Cardinality(Holders(h))
  BY <1>1, NoneIsNew DEF ExactInv, RefsExact
<1>4. Cardinality(Holders(h)) # 0
  BY <1>1, <1>2, HoldersFinite, FS_EmptySet
<1>5. Cardinality(Holders(h)) = 1
  BY <1>1, <1>3, <1>4
<1>6. PICK x : Holders(h) = {x}
  BY <1>1, <1>5, HoldersFinite, FS_Singleton
<1> QED BY <1>2, <1>6 DEF Holders

\* A step of the pool keeps the stronger invariant.
LEMMA ExactStepInv ==
  ASSUME ExactInv, [Calls]_poolVars
  PROVE  ExactInv'
<1>0. PoolInv'
  BY PoolStepInv DEF ExactInv
<1> USE NoneIsNew DEF ExactInv, PoolInv
<1>1. ASSUME NEW l \in Lease, NEW h \in Host, AcquireShared(l, h)
      PROVE  ExactInv'
  <2> USE <1>1 DEF AcquireShared, Hold, Usable
  <2>0. conns[h] \in Client /\ refs[h] \in Nat
    BY DEF PoolTypeOK
  <2>1. AllPooled'
    BY DEF PoolTypeOK, AllPooled
  <2>2. PooledLive' /\ PooledApart'
    BY DEF PooledLive, PooledApart
  <2>3. DialedApart'
    BY DEF PoolTypeOK, DialedApart
  <2>4. \A g \in Host :
          Cardinality(Holders(g)') = Cardinality(Holders(g)) + (IF g = h THEN 1 ELSE 0)
    BY HoldAddsOne
  <2>5. RefsExact'
    BY <2>0, <2>4, HoldersFinite DEF PoolTypeOK, RefsExact
  <2> QED BY <1>0, <2>1, <2>2, <2>3, <2>5
<1>2. ASSUME NEW l \in Lease, NEW h \in Host, AcquireMiss(l, h)
      PROVE  ExactInv'
  <2> USE <1>2 DEF AcquireMiss, Usable
  <2>0. conns[h] = None /\ conns' = conns
    BY DEF PooledLive, PoolTypeOK
  <2>1. AllPooled'
    BY <2>0 DEF PoolTypeOK, AllPooled
  <2>2. PooledLive' /\ PooledApart'
    BY <2>0 DEF PooledLive, PooledApart
  <2>3. DialedApart'
    BY <2>0 DEF PoolTypeOK, DialedApart
  <2>4. \A g \in Host : Holders(g)' = Holders(g)
    BY OthersKeepHolders DEF PoolTypeOK, Stages
  <2>5. RefsExact'
    BY <2>0, <2>4 DEF PoolTypeOK, RefsExact
  <2> QED BY <1>0, <2>1, <2>2, <2>3, <2>5
<1>3. ASSUME NEW l \in Lease, NEW c \in Client, DialOk(l, c)
      PROVE  ExactInv'
  <2> USE <1>3 DEF DialOk, Fresh
  <2>1. AllPooled'
    BY DEF PoolTypeOK, AllPooled
  <2>2. PooledLive' /\ PooledApart'
    BY DEF PoolTypeOK, PooledLive, PooledApart
  <2>3. DialedApart'
    BY DEF PoolTypeOK, StageShape, DialedApart
  <2>4. \A g \in Host : Holders(g)' = Holders(g)
    BY OthersKeepHolders DEF PoolTypeOK, Stages
  <2>5. RefsExact'
    BY <2>4 DEF RefsExact
  <2> QED BY <1>0, <2>1, <2>2, <2>3, <2>5
<1>4. ASSUME NEW l \in Lease, DialFails(l)
      PROVE  ExactInv'
  <2> USE <1>4 DEF DialFails, Drained
  <2>1. AllPooled'
    BY DEF PoolTypeOK, AllPooled
  <2>2. PooledLive' /\ PooledApart'
    BY DEF PooledLive, PooledApart
  <2>3. DialedApart'
    BY DEF PoolTypeOK, DialedApart, StageShape
  <2>4. \A g \in Host : Holders(g)' = Holders(g)
    BY OthersKeepHolders DEF PoolTypeOK, Stages
  <2>5. RefsExact'
    BY <2>4 DEF RefsExact
  <2> QED BY <1>0, <2>1, <2>2, <2>3, <2>5
<1>5. ASSUME NEW l \in Lease, AcquireLost(l)
      PROVE  ExactInv'
  <2> USE <1>5 DEF AcquireLost, Hold, Usable
  <2>0. /\ host[l] \in Host /\ client[l] \in Client
        /\ conns[host[l]] \in Client /\ refs[host[l]] \in Nat
    BY DEF PoolTypeOK, StageShape
  <2>1. AllPooled'
    BY DEF PoolTypeOK, AllPooled
  <2>2. \A h \in Host : conns[h] # client[l]
    BY DEF DialedApart
  <2>3. PooledLive' /\ PooledApart'
    BY <2>2, ClosedType DEF PoolTypeOK, PooledLive, PooledApart
  <2>4. DialedApart'
    BY <2>0, <2>2, ClosedType DEF PoolTypeOK, StageShape, DialedApart
  <2>5. host' = [host EXCEPT ![l] = host[l]] /\ stage' = [stage EXCEPT ![l] = "held"]
    BY DEF PoolTypeOK
  <2>6. \A g \in Host :
          Cardinality(Holders(g)') = Cardinality(Holders(g)) + (IF g = host[l] THEN 1 ELSE 0)
    BY <2>0, <2>5, HoldAddsOne
  <2>7. RefsExact'
    BY <2>0, <2>6, HoldersFinite DEF PoolTypeOK, RefsExact
  <2> QED BY <1>0, <2>1, <2>3, <2>4, <2>7
<1>6. ASSUME NEW l \in Lease, AcquireWon(l)
      PROVE  ExactInv'
  <2> USE <1>6 DEF AcquireWon, Usable
  <2>0. host[l] \in Host /\ client[l] \in Client /\ conns[host[l]] = None
    BY DEF StageShape, PooledLive
  <2>1. Holders(host[l]) = {} /\ Cardinality(Holders(host[l])) = 0
    BY <2>0, UnpooledUnheld
  <2>2. AllPooled'
    BY <2>0, <2>1 DEF PoolTypeOK, StageShape, AllPooled, Holders
  <2>3. PooledLive' /\ PooledApart'
    BY <2>0 DEF PoolTypeOK, PooledLive, PooledApart, DialedApart
  <2>4. DialedApart'
    BY <2>0 DEF PoolTypeOK, StageShape, DialedApart
  <2>5. host' = [host EXCEPT ![l] = host[l]]
    BY DEF PoolTypeOK
  <2>6. \A g \in Host :
          Cardinality(Holders(g)') = Cardinality(Holders(g)) + (IF g = host[l] THEN 1 ELSE 0)
    BY <2>0, <2>5, HoldAddsOne
  <2>7. RefsExact'
    BY <2>0, <2>1, <2>6, HoldersFinite DEF PoolTypeOK, RefsExact
  <2> QED BY <1>0, <2>2, <2>3, <2>4, <2>7
<1>7. ASSUME NEW l \in Lease, Release(l)
      PROVE  ExactInv'
  <2> USE <1>7 DEF Release
  <2>0. /\ host[l] \in Host /\ client[l] \in Client /\ refs[host[l]] \in Nat
        /\ conns[host[l]] = client[l]
    BY DEF StageShape, PoolTypeOK, AllPooled
  <2>1. \A h \in Host :
          /\ h = host[l] => Cardinality(Holders(h)') = Cardinality(Holders(h)) - 1
          /\ h # host[l] => Cardinality(Holders(h)') = Cardinality(Holders(h))
    BY <2>0, DrainTakesOne
  <2>2. RefsExact'
    BY <2>0, <2>1, HoldersFinite DEF PoolTypeOK, RefsExact, ReleaseHost
  <2>3. CASE refs[host[l]] > 1
    <3>1. conns' = conns /\ link' = link
      BY <2>3 DEF ReleaseHost
    <3>2. AllPooled'
      BY <3>1 DEF PoolTypeOK, AllPooled, Drained
    <3>3. PooledLive' /\ PooledApart'
      BY <3>1 DEF PooledLive, PooledApart
    <3>4. DialedApart'
      BY <3>1 DEF PoolTypeOK, DialedApart, StageShape, Drained
    <3> QED BY <1>0, <2>2, <3>2, <3>3, <3>4
  <2>4. CASE ~ refs[host[l]] > 1
    <3>1. /\ conns' = [conns EXCEPT ![host[l]] = None]
          /\ link' = Closed({conns[host[l]]})
      BY <2>4 DEF ReleaseHost
    <3>2. AllPooled'
      BY <2>0, <2>4, <3>1, LastHolder DEF PoolTypeOK, StageShape, AllPooled, Drained
    <3>3. PooledLive' /\ PooledApart'
      BY <2>0, <3>1, ClosedType DEF PoolTypeOK, PooledLive, PooledApart
    <3>4. DialedApart'
      BY <2>0, <3>1, ClosedType DEF PoolTypeOK, DialedApart, StageShape, Drained
    <3> QED BY <1>0, <2>2, <3>2, <3>3, <3>4
  <2> QED BY <2>3, <2>4
<1>8. ASSUME NEW c \in Client, WaitReturns(c)
      PROVE  ExactInv'
  <2> USE <1>8 DEF WaitReturns
  <2>1. AllPooled'
    BY DEF AllPooled
  <2>2. PooledLive' /\ PooledApart'
    BY DEF PoolTypeOK, PooledLive, PooledApart
  <2>3. DialedApart'
    BY DEF PoolTypeOK, StageShape, DialedApart
  <2>4. RefsExact'
    BY DEF RefsExact, Holders
  <2> QED BY <1>0, <2>1, <2>2, <2>3, <2>4
<1>9. CASE UNCHANGED poolVars
  BY <1>0, <1>9 DEF poolVars, AllPooled, PooledLive, PooledApart, DialedApart,
     RefsExact, Holders
<1> QED BY <1>1, <1>2, <1>3, <1>4, <1>5, <1>6, <1>7, <1>8, <1>9 DEF Calls

\* While no connection is lost, the count of a pooled connection is the
\* number of leases on it.
THEOREM CountExact == ReliableSpec => []RefsExact
<1>1. ExactInv /\ [Calls]_poolVars => ExactInv'
  BY ExactStepInv
<1>2. ExactInv => RefsExact
  BY DEF ExactInv
<1> QED BY ExactInitInv, <1>1, <1>2, PTL DEF ReliableSpec

\* ... and no Release closes a connection that another lease holds.
THEOREM ReleaseSafe == ReliableSpec => ReleaseSparesHolders
<1> DEFINE Spares == \A l \in Lease : Release(l) =>
             \A m \in Lease \ {l} : stage[m] = "held" => link'[client[m]] = link[client[m]]
<1>1. ASSUME ExactInv, [Calls]_poolVars
      PROVE  [Spares]_poolVars
  <2> SUFFICES ASSUME NEW l \in Lease, Release(l), NEW m \in Lease \ {l}, stage[m] = "held"
               PROVE  link'[client[m]] = link[client[m]]
    OBVIOUS
  <2>1. /\ stage[l] = "held" /\ host[l] \in Host /\ host[m] \in Host
        /\ client[m] \in Client /\ client[m] = conns[host[m]]
    BY <1>1 DEF Release, ExactInv, PoolInv, StageShape, AllPooled
  <2>2. CASE refs[host[l]] > 1
    BY <2>2 DEF Release, ReleaseHost
  <2>3. CASE ~ refs[host[l]] > 1
    <3>1. host[m] # host[l]
      BY <1>1, <2>1, <2>3, LastHolder
    <3>2. client[m] # conns[host[l]]
      BY <1>1, <2>1, <3>1, NoneIsNew DEF ExactInv, PooledApart
    <3>3. link' = Closed({conns[host[l]]})
      BY <2>3 DEF Release, ReleaseHost
    <3> QED BY <1>1, <2>1, <3>2, <3>3, ClosedType DEF ExactInv, PoolInv
  <2> QED BY <2>2, <2>3
<1>2. ExactInv /\ [Calls]_poolVars => ExactInv'
  BY ExactStepInv
<1> QED BY ExactInitInv, <1>1, <1>2, PTL DEF ReliableSpec, ReleaseSparesHolders

==============================================================================
