------------------------------ MODULE Discovery ------------------------------
(***************************************************************************)
(* Finding the databases and giving them local ports: the scan of          *)
(* discovery.go, one goroutine per host, whose results stream into the     *)
(* event loop of ui.go; AssignPorts of ports.go; and the merge of a        *)
(* finished scan with the entries shown before.                            *)
(*                                                                         *)
(* A key "host:container" is the number of its place in the order in which *)
(* AssignPorts sorts them.  Each goroutine sends one message that counts,  *)
(* its last; the log lines before it are left out.                         *)
(*                                                                         *)
(* As in SshPool, a definition without a comment right before another one  *)
(* is that one with a bug that a property named in PROJECT.json catches.   *)
(***************************************************************************)
EXTENDS Naturals, Sequences, FiniteSets, SequencesExt

CONSTANTS Keys,        \* number of keys there may be
          Host,        \* configured hosts
          HostOf,      \* the host of each key
          Scan,        \* scans, of which several may be under way
          PortMin,     \* portRangeMin
          PortMax,     \* portRangeMax
          None

Key   == 1 .. Keys
Space == PortMax + 1    \* the values of a uint16: PortMax is its greatest

ASSUME KeysOfHosts == Keys \in Nat /\ IsFiniteSet(Host) /\ HostOf \in [Key -> Host]
ASSUME PortsExist == PortMin \in 1 .. PortMax /\ PortMax \in Nat /\ None \notin 0 .. PortMax

\* With more entries than port numbers AssignPorts would not end.
ASSUME PortsSuffice == IsFiniteSet(Scan) /\ Keys * Cardinality(Scan) <= Space

VARIABLES hash,         \* hashPort of each key
          active,       \* scans whose channel the loop still reads
          todo,         \* hosts of each scan whose last message is to come
          discovering,  \* m.discovering
          hostsDone,    \* m.hostsDone
          pending,      \* m.pendingEntries: how many entries of each key
          entries,      \* m.entries: keys and their LocalPort
          tunnel        \* the port on which the tunnel of a key listens

scanVars == <<active, todo, discovering, hostsDone, pending>>
discVars == <<hash, scanVars, entries, tunnel>>

DiscTypeOK ==
  /\ hash \in [Key -> PortMin .. PortMax]
  /\ active \subseteq Scan
  /\ todo \in [Scan -> SUBSET Host]
  /\ discovering \in BOOLEAN
  /\ hostsDone \in 0 .. Cardinality(Host) * Cardinality(Scan)
  /\ pending \in [Key -> 0 .. Cardinality(Scan)]
  /\ entries \in Seq([key : Key, port : 0 .. PortMax])
  /\ tunnel \in [Key -> (0 .. PortMax) \cup {None}]

------------------------------------------------------------------------------
(* AssignPorts *)

NextPortWide(p) == p + 1

\* port++ and the test for the end of the range, in uint16 arithmetic.
NextPort(p) == IF (p + 1) % Space > PortMax THEN PortMin ELSE (p + 1) % Space

\* The ports that are tried, from p on.
Walk(p) ==
  LET walk[n \in 0 .. Space] == IF n = 0 THEN p ELSE NextPort(walk[n - 1])
  IN walk

\* The first unused port from p on.
FreePort(p, used) ==
  Walk(p)[CHOOSE n \in 0 .. Space :
            Walk(p)[n] \notin used /\ \A m \in 0 .. n - 1 : Walk(p)[m] \in used]

AssignPortsBlindly(ks) == [i \in DOMAIN ks |-> hash[ks[i]]]

\* The ports given to a sorted list of keys.
AssignPorts(ks) ==
  LET given[n \in 0 .. Len(ks)] ==
        IF n = 0 THEN <<>>
        ELSE Append(given[n - 1], FreePort(hash[ks[n]], ToSet(given[n - 1])))
  IN given[Len(ks)]

\* The pending entries in the order AssignPorts puts them in.
SortedKeys(bag) == FlattenSeq([k \in Key |-> [i \in 1 .. bag[k] |-> k]])

Listed == {entries[i].key : i \in DOMAIN entries}

\* LocalPort of the entry of a listed key; of several, the last is taken.
PortOf(k) ==
  entries[CHOOSE i \in DOMAIN entries :
    entries[i].key = k /\ \A j \in DOMAIN entries : entries[j].key = k => j <= i].port

------------------------------------------------------------------------------
(* Scans *)

DiscInit ==
  /\ hash \in [Key -> PortMin .. PortMax]
  /\ \E s \in Scan : active = {s} /\ todo = [t \in Scan |-> IF t = s THEN Host ELSE {}]
  /\ discovering = TRUE
  /\ hostsDone = 0
  /\ pending = [k \in Key |-> 0]
  /\ entries = <<>>
  /\ tunnel = [k \in Key |-> None]

\* r: a new scan begins; what an older one sends is still read.
Refresh(s) ==
  /\ s \notin active
  /\ active' = active \cup {s}
  /\ todo' = [todo EXCEPT ![s] = Host]
  /\ discovering' = TRUE
  /\ hostsDone' = 0
  /\ pending' = [k \in Key |-> 0]
  /\ UNCHANGED <<hash, entries, tunnel>>

HostStays(s, h) ==
  /\ s \in active /\ h \in todo[s]
  /\ hostsDone' = hostsDone
  /\ UNCHANGED <<hash, scanVars, entries, tunnel>>

\* The last message of a host is handled.
HostReports(s, h) ==
  /\ s \in active /\ h \in todo[s]
  /\ todo' = [todo EXCEPT ![s] = @ \ {h}]
  /\ hostsDone' = hostsDone + 1
  /\ UNCHANGED <<hash, active, discovering, entries, tunnel>>

\* A host is done: the keys of K run there.
HostFinds(s, h, K) ==
  /\ HostReports(s, h)
  /\ pending' = [k \in Key |-> IF k \in K THEN pending[k] + 1 ELSE pending[k]]

\* A host is done: it cannot be dialed, or docker fails or takes too long.
HostFails(s, h) == HostReports(s, h) /\ UNCHANGED pending

\* What a finished scan leaves to show: known keys keep the port they had.
Merged ==
  LET ks == SortedKeys(pending)
      ports == AssignPorts(ks)
  IN [i \in DOMAIN ks |->
       [key |-> ks[i], port |-> IF ks[i] \in Listed THEN PortOf(ks[i]) ELSE ports[i]]]

MergedFresh ==
  LET ks == SortedKeys(pending)
      ports == AssignPorts(ks)
  IN [i \in DOMAIN ks |-> [key |-> ks[i], port |-> ports[i]]]

\* The scan is over and es is shown.
Finalize(s, es) ==
  /\ active' = active \ {s}
  /\ discovering' = FALSE
  /\ entries' = es
  /\ pending' = [k \in Key |-> 0]
  /\ UNCHANGED <<hash, todo, hostsDone, tunnel>>

FinishedFresh(s)    == s \in active /\ todo[s] = {} /\ Finalize(s, MergedFresh)
FinishedAppended(s) == s \in active /\ todo[s] = {} /\ Finalize(s, entries \o Merged)
FinishedEarly(s)    == s \in active /\ hostsDone > 0 /\ Finalize(s, Merged)
\* The done message comes when the channel is closed: every host has reported.
Finished(s) == s \in active /\ todo[s] = {} /\ Finalize(s, Merged)

------------------------------------------------------------------------------
(* The user *)

\* A tunnel is set up on the port of the entry if it is free, or taken down.
Connect(k) ==
  /\ k \in Listed /\ tunnel[k] = None
  /\ \A j \in Key : tunnel[j] # PortOf(k)
  /\ tunnel' = [tunnel EXCEPT ![k] = PortOf(k)]
  /\ UNCHANGED <<hash, scanVars, entries>>

Disconnect(k) ==
  /\ k \in Listed /\ tunnel[k] # None
  /\ tunnel' = [tunnel EXCEPT ![k] = None]
  /\ UNCHANGED <<hash, scanVars, entries>>

------------------------------------------------------------------------------

KeysOf(h) == {k \in Key : HostOf[k] = h}

Scanning == \E s \in Scan : Finished(s) \/ \E h \in Host :
              HostFails(s, h) \/ \E K \in SUBSET KeysOf(h) : HostFinds(s, h, K)

Tunnelling == \E k \in Key : Connect(k) \/ Disconnect(k)

DiscNext == Scanning \/ Tunnelling \/ \E s \in Scan : Refresh(s)

DiscoverySpec == DiscInit /\ [][DiscNext]_discVars

\* The user starts no scan while one is under way, and no known database
\* vanishes.
SteadyNext ==
  \/ Tunnelling
  \/ ~ discovering /\ \E s \in Scan : Refresh(s)
  \/ \E s \in Scan : Finished(s) \/ \E h \in Host :
       \/ KeysOf(h) \cap Listed = {} /\ HostFails(s, h)
       \/ \E K \in SUBSET KeysOf(h) :
            KeysOf(h) \cap Listed \subseteq K /\ HostFinds(s, h, K)

SteadySpec == DiscInit /\ [][SteadyNext]_discVars

\* Every host answers, or the dial or the query fails, and messages are read.
FairSteadySpec ==
  /\ SteadySpec
  /\ \A s \in Scan : WF_discVars(Finished(s))
  /\ \A s \in Scan, h \in Host :
       WF_discVars(\E K \in SUBSET KeysOf(h) :
         KeysOf(h) \cap Listed \subseteq K /\ HostFinds(s, h, K))

------------------------------------------------------------------------------

\* Discovery ends, whichever hosts fail, and the spinner stops.
DiscoveryEnds == discovering ~> ~ discovering

\* A scan is finalized when every host has reported since it began: "All hosts
\* finished - finalize."
FinalizesWhole == [][\A s \in Scan : Finished(s) => hostsDone = Cardinality(Host)]_discVars

\* No database is listed twice.
ListedOnce == \A i, j \in DOMAIN entries : entries[i].key = entries[j].key => i = j

\* The entry of a connected database shows the port its tunnel listens on:
\* "Merge: carry over status from active tunnels on refresh".
PortsAgree == \A k \in Listed : tunnel[k] # None => PortOf(k) = tunnel[k]

\* "AssignPorts assigns unique deterministic local ports to a list of entries":
\* what is shown where nothing was known has a port of its own each, whatever
\* the hashes, past the end of the range too.
FirstPortsUnique ==
  [][entries = <<>> =>
       \A i, j \in DOMAIN entries' : entries'[i].port = entries'[j].port => i = j]_discVars

==============================================================================
