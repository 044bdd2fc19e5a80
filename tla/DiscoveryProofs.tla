---------------------------- MODULE DiscoveryProofs ----------------------------
(***************************************************************************)
(* Proofs about Discovery, for every number of keys, every set of hosts,   *)
(* every range of ports and every choice of hashes.                        *)
(*                                                                         *)
(* The recursive functions of AssignPorts and SortedKeys are chosen by the *)
(* equation that defines them.  Iterated says that there is such a         *)
(* function, and Upwards, which stands for induction, what it computes.    *)
(***************************************************************************)
EXTENDS Discovery, FiniteSetTheorems, SequenceTheorems, WellFoundedInduction, TLAPS

------------------------------------------------------------------------------
(* Numbers *)

\* A set of numbers that is not empty has a least element.
LEMMA Least ==
  ASSUME NEW T \in SUBSET Nat, T # {}
  PROVE  \E n \in T : \A m \in T : n <= m
<1> DEFINE R == OpToRel(<, Nat)
<1>1. IsWellFoundedOn(R, Nat)
  BY NatLessThanWellFounded
<1>2. PICK n \in T : \A m \in T : ~ (<<m, n>> \in R)
  <2> HIDE DEF R
  <2> QED BY <1>1, WFMin
<1>3. ASSUME NEW m \in T PROVE n <= m
  <2>1. m \in Nat /\ n \in Nat /\ <<m, n>> \notin R
    BY <1>2
  <2>2. m < n => <<m, n>> \in R
    BY <2>1 DEF OpToRel
  <2> HIDE DEF R
  <2> QED BY <2>1, <2>2
<1> QED BY <1>3

\* A set that has 0, and each number up to N whose predecessor it has, has all.
LEMMA Upwards ==
  ASSUME NEW N \in Nat, NEW T, 0 \in T,
         \A n \in 1 .. N : n - 1 \in T => n \in T
  PROVE  0 .. N \subseteq T
<1> SUFFICES ASSUME NEW k \in 0 .. N, k \notin T PROVE FALSE
  OBVIOUS
<1> DEFINE U == {n \in 0 .. N : n \notin T}
<1>1. U \in SUBSET Nat /\ k \in U
  OBVIOUS
<1>2. PICK n \in U : \A m \in U : n <= m
  <2> HIDE DEF U
  <2> QED BY <1>1, Least
<1>3. n \in 1 .. N /\ n - 1 \in 0 .. N /\ n - 1 \notin U
  BY <1>2
<1> QED BY <1>2, <1>3

LEMMA UpTo ==
  ASSUME NEW n \in Nat
  PROVE  IsFiniteSet(1 .. n) /\ Cardinality(1 .. n) = n
BY FS_Interval

\* f starts with a and goes on as G says, up to N.
Iterates(f, N, a, G) == f[0] = a /\ \A n \in 1 .. N : f[n] = G[n][f[n - 1]]

\* There is such a function.
LEMMA Iterated ==
  ASSUME NEW N \in Nat, NEW S, NEW a \in S, NEW G \in [1 .. N -> [S -> S]]
  PROVE  \E f \in [0 .. N -> S] : Iterates(f, N, a, G)
<1> DEFINE T == {n \in 0 .. N : \E f \in [0 .. n -> S] : Iterates(f, n, a, G)}
<1>1. 0 \in T
  <2>1. /\ [m \in 0 .. 0 |-> a] \in [0 .. 0 -> S]
        /\ Iterates([m \in 0 .. 0 |-> a], 0, a, G)
    BY DEF Iterates
  <2> QED BY <2>1
<1>2. ASSUME NEW n \in 1 .. N, n - 1 \in T PROVE n \in T
  <2>1. PICK f \in [0 .. n - 1 -> S] : Iterates(f, n - 1, a, G)
    BY <1>2
  <2> DEFINE g == [m \in 0 .. n |-> IF m = n THEN G[n][f[n - 1]] ELSE f[m]]
  <2>2. n - 1 \in 0 .. n - 1 /\ f[n - 1] \in S /\ G[n] \in [S -> S]
    OBVIOUS
  <2>3. g \in [0 .. n -> S]
    <3>1. ASSUME NEW m \in 0 .. n PROVE g[m] \in S
      BY <2>2
    <3> QED BY <3>1
  <2>4. g[0] = a
    BY <2>1 DEF Iterates
  <2>5. ASSUME NEW m \in 1 .. n PROVE g[m] = G[m][g[m - 1]]
    <3>1. m - 1 \in 0 .. n /\ m - 1 # n /\ g[m - 1] = f[m - 1]
      OBVIOUS
    <3>2. CASE m = n
      BY <3>1, <3>2
    <3>3. CASE m # n
      <4>1. m \in 1 .. n - 1 /\ g[m] = f[m]
        BY <3>3
      <4> QED BY <2>1, <3>1, <4>1 DEF Iterates
    <3> QED BY <3>2, <3>3
  <2>6. Iterates(g, n, a, G)
    BY <2>4, <2>5 DEF Iterates
  <2> HIDE DEF g
  <2> QED BY <2>3, <2>6
<1>3. N \in T
  <2> HIDE DEF T
  <2>1. 0 .. N \subseteq T
    BY <1>1, <1>2, Upwards
  <2> QED BY <2>1
<1> QED BY <1>3

------------------------------------------------------------------------------
(* AssignPorts *)

\* port++ in uint16 arithmetic: after the greatest port comes 0.
LEMMA NextIs ==
  ASSUME NEW x \in 0 .. PortMax
  PROVE  NextPort(x) = IF x = PortMax THEN 0 ELSE x + 1
<1>1. CASE x = PortMax
  <2>1. (x + 1) % Space = 0
    BY <1>1, PortsExist DEF Space
  <2> QED BY <2>1, <1>1, PortsExist DEF NextPort
<1>2. CASE x < PortMax
  <2>1. (x + 1) % Space = x + 1
    BY <1>2, PortsExist DEF Space
  <2> QED BY <2>1, <1>2, PortsExist DEF NextPort
<1> QED BY <1>1, <1>2, PortsExist

LEMMA WalkIs ==
  ASSUME NEW p \in 0 .. PortMax
  PROVE  Walk(p) = [n \in 0 .. Space |-> IF p + n <= PortMax THEN p + n ELSE p + n - Space]
<1> DEFINE w == [n \in 0 .. Space |-> IF p + n <= PortMax THEN p + n ELSE p + n - Space]
           IsWalk(f) == f = [n \in 0 .. Space |-> IF n = 0 THEN p ELSE NextPort(f[n - 1])]
           f == CHOOSE g : IsWalk(g)
<1>1. Walk(p) = f
  BY Zenon DEF Walk
<1>2. IsWalk(w)
  <2>1. ASSUME NEW n \in 0 .. Space PROVE w[n] = IF n = 0 THEN p ELSE NextPort(w[n - 1])
    <3>1. CASE n = 0
      BY <3>1, PortsExist
    <3>2. CASE n # 0
      <4>1. n - 1 \in 0 .. Space /\ w[n - 1] \in 0 .. PortMax
        BY <3>2, PortsExist DEF Space
      <4>2. NextPort(w[n - 1]) = IF w[n - 1] = PortMax THEN 0 ELSE w[n - 1] + 1
        BY <4>1, NextIs
      <4> QED BY <3>2, <4>1, <4>2, PortsExist DEF Space
    <3> QED BY <3>1, <3>2
  <2> QED BY <2>1
<1>3. IsWalk(f)
  <2> HIDE DEF w, IsWalk
  <2>1. \E g : IsWalk(g)
    BY <1>2
  <2> QED BY <2>1
<1>4. ASSUME NEW n \in 0 .. Space PROVE f[n] = w[n]
  <2> DEFINE T == {m \in 0 .. Space : f[m] = w[m]}
  <2> HIDE DEF f, w
  <2>1. 0 \in T
    BY <1>2, <1>3, PortsExist DEF Space
  <2>2. \A m \in 1 .. Space : m - 1 \in T => m \in T
    BY <1>2, <1>3, PortsExist DEF Space
  <2> HIDE DEF T
  <2>3. 0 .. Space \subseteq T
    BY <2>1, <2>2, Upwards, PortsExist DEF Space
  <2> QED BY <2>3 DEF T
<1>5. f = [n \in 0 .. Space |-> f[n]]
  <2> HIDE DEF f
  <2> QED BY <1>3
<1> QED BY <1>1, <1>4, <1>5

\* If any port is left, FreePort finds one.
LEMMA FreePortIsFree ==
  ASSUME NEW p \in 0 .. PortMax, NEW used \in SUBSET (0 .. PortMax), used # 0 .. PortMax
  PROVE  FreePort(p, used) \in (0 .. PortMax) \ used
<1> DEFINE w == [n \in 0 .. Space |-> IF p + n <= PortMax THEN p + n ELSE p + n - Space]
           T == {n \in 0 .. Space : w[n] \notin used}
           First(n) == w[n] \notin used /\ \A m \in 0 .. n - 1 : w[m] \in used
<1>1. Walk(p) = w
  BY WalkIs
<1>2. \A n \in 0 .. Space : w[n] \in 0 .. PortMax
  BY PortsExist DEF Space
<1>3. T # {}
  <2>1. PICK q \in 0 .. PortMax : q \notin used
    OBVIOUS
  <2> HIDE DEF First
  <2>2. CASE q >= p
    <3>1. q - p \in 0 .. Space /\ w[q - p] = q
      BY <2>2, PortsExist DEF Space
    <3> QED BY <2>1, <3>1
  <2>3. CASE q < p
    <3>1. q - p + Space \in 0 .. Space /\ w[q - p + Space] = q
      BY <2>3, PortsExist DEF Space
    <3> QED BY <2>1, <3>1
  <2> HIDE DEF T
  <2> QED BY <2>1, <2>2, <2>3, PortsExist
<1>4. \E n \in 0 .. Space : First(n)
  <2>1. T \in SUBSET Nat
    BY PortsExist DEF Space
  <2>2. PICK n \in T : \A m \in T : n <= m
    <3> HIDE DEF T
    <3> QED BY <1>3, <2>1, Least
  <2>3. ASSUME NEW m \in 0 .. n - 1 PROVE w[m] \in used
    <3>1. m \in 0 .. Space /\ m \notin T
      BY <2>1, <2>2, PortsExist DEF Space
    <3> QED BY <3>1
  <2> QED BY <2>3
<1>5. FreePort(p, used) = w[CHOOSE n \in 0 .. Space : First(n)]
  <2> HIDE DEF w
  <2> QED BY <1>1 DEF FreePort
<1> DEFINE c == CHOOSE n \in 0 .. Space : First(n)
<1>6. c \in 0 .. Space /\ First(c)
  <2> HIDE DEF First
  <2> QED BY <1>4
<1> HIDE DEF c
<1>7. w[c] \in (0 .. PortMax) \ used
  BY <1>2, <1>6
<1> QED BY <1>5, <1>7 DEF c

\* Fewer entries than there are ports cannot use all.
LEMMA PortsAreLeft ==
  ASSUME NEW s \in Seq(0 .. PortMax), Len(s) < Space
  PROVE  ToSet(s) \in SUBSET (0 .. PortMax) /\ ToSet(s) # 0 .. PortMax
<1>1. s \in [1 .. Len(s) -> 0 .. PortMax] /\ Len(s) \in Nat
  BY LenProperties
<1>2. ToSet(s) \in SUBSET (0 .. PortMax)
  BY <1>1 DEF ToSet
<1>3. ASSUME ToSet(s) = 0 .. PortMax PROVE FALSE
  <2>1. s \in Surjection(1 .. Len(s), 0 .. PortMax)
    BY <1>1, <1>3 DEF ToSet, Surjection
  <2>2. IsFiniteSet(1 .. Len(s)) /\ Cardinality(1 .. Len(s)) = Len(s)
    BY <1>1, UpTo
  <2>3. Cardinality(0 .. PortMax) = Space
    BY FS_Interval, PortsExist DEF Space
  <2>4. Cardinality(0 .. PortMax) <= Len(s)
    BY <2>1, <2>2, FS_Surjection
  <2> QED BY <1>1, <2>3, <2>4, PortsExist DEF Space
<1> QED BY <1>2, <1>3

\* AssignPorts gives each entry a port and none twice, as long as there are no more
\* entries than port numbers: the loop that probes for a free one then ends.
THEOREM PortsAssigned ==
  ASSUME hash \in [Key -> PortMin .. PortMax],
         NEW ks \in Seq(Key), Len(ks) <= Space
  PROVE  /\ AssignPorts(ks) \in [1 .. Len(ks) -> 0 .. PortMax]
         /\ IsInjective(AssignPorts(ks))
<1> DEFINE N == Len(ks)
           Ports == Seq(0 .. PortMax)
           Give(n, s) == Append(s, FreePort(hash[ks[n]], ToSet(s)))
           IsGiven(f) == f = [n \in 0 .. N |-> IF n = 0 THEN <<>> ELSE Give(n, f[n - 1])]
           G == [n \in 1 .. N |-> [s \in Ports |-> IF Len(s) < Space THEN Give(n, s) ELSE s]]
<1>1. N \in Nat /\ N <= Space /\ ks \in [1 .. N -> Key]
  BY LenProperties
<1>2. ASSUME NEW n \in 1 .. N, NEW s \in Ports, Len(s) < Space
      PROVE  /\ Give(n, s) \in Ports /\ Len(Give(n, s)) = Len(s) + 1
             /\ IsInjective(s) => IsInjective(Give(n, s))
  <2> DEFINE q == FreePort(hash[ks[n]], ToSet(s))
  <2>1. hash[ks[n]] \in 0 .. PortMax
    BY <1>1, PortsExist
  <2>2. q \in (0 .. PortMax) \ ToSet(s)
    BY <1>2, <2>1, PortsAreLeft, FreePortIsFree
  <2> HIDE DEF q
  <2>3. \A i \in 1 .. Len(s) : s[i] # q
    BY <2>2, LenProperties DEF ToSet
  <2>4. /\ Append(s, q) \in Ports /\ Len(Append(s, q)) = Len(s) + 1
        /\ \A i \in 1 .. Len(s) : Append(s, q)[i] = s[i]
        /\ Append(s, q)[Len(s) + 1] = q
    BY <2>2, AppendProperties
  <2>5. IsInjective(s) => IsInjective(Append(s, q))
    <3>1. DOMAIN s = 1 .. Len(s) /\ Len(s) \in Nat
      BY LenProperties
    <3>2. DOMAIN Append(s, q) = 1 .. Len(s) + 1
      BY <2>4, LenProperties
    <3> QED BY <2>3, <2>4, <3>1, <3>2 DEF IsInjective
  <2> QED BY <2>4, <2>5 DEF q
<1>3. G \in [1 .. N -> [Ports -> Ports]]
  <2> HIDE DEF Give
  <2> QED BY <1>2
<1>4. PICK g \in [0 .. N -> Ports] : Iterates(g, N, <<>>, G)
  <2> HIDE DEF G, N
  <2>1. <<>> \in Ports
    BY EmptySeq
  <2>2. N \in Nat
    BY <1>1
  <2> HIDE DEF Ports
  <2> QED BY <1>3, <2>1, <2>2, Iterated
<1> DEFINE T == {n \in 0 .. N : Len(g[n]) = n}
<1>5. 0 .. N \subseteq T
  <2>1. 0 \in T
    BY <1>4 DEF Iterates
  <2>2. ASSUME NEW n \in 1 .. N, n - 1 \in T PROVE n \in T
    <3> HIDE DEF Give, Ports
    <3>1. n - 1 \in 0 .. N /\ Len(g[n - 1]) = n - 1 /\ n - 1 < Space
      BY <1>1, <2>2, PortsExist DEF Space
    <3>2. g[n] = Give(n, g[n - 1])
      BY <1>4, <3>1 DEF Iterates
    <3>3. Len(g[n]) = (n - 1) + 1
      BY <1>2, <3>1, <3>2
    <3> QED BY <3>3
  <2> HIDE DEF T
  <2> QED BY <1>1, <2>1, <2>2, Upwards
<1>6. \A n \in 1 .. N : g[n] = Give(n, g[n - 1])
  <2> HIDE DEF Give, Ports
  <2>1. ASSUME NEW n \in 1 .. N
        PROVE  n - 1 \in 0 .. N /\ Len(g[n - 1]) = n - 1 /\ n - 1 < Space
    <3>1. n - 1 \in 0 .. N /\ n - 1 \in T
      BY <1>1, <1>5
    <3> QED BY <1>1, <3>1, PortsExist DEF Space
  <2> QED BY <1>4, <2>1 DEF Iterates
<1>7. IsGiven(g)
  <2> HIDE DEF Give, Ports
  <2>1. ASSUME NEW n \in 0 .. N PROVE g[n] = IF n = 0 THEN <<>> ELSE Give(n, g[n - 1])
    BY <1>4, <1>6 DEF Iterates
  <2> QED BY <1>4, <2>1
<1> DEFINE f == CHOOSE h : IsGiven(h)
<1>8. AssignPorts(ks) = f[N]
  BY Zenon DEF AssignPorts
<1>9. IsGiven(f)
  <2> HIDE DEF IsGiven
  <2> QED BY <1>7
<1> DEFINE U == {n \in 0 .. N : f[n] \in Ports /\ Len(f[n]) = n /\ IsInjective(f[n])}
<1>10. 0 .. N \subseteq U
  <2> HIDE DEF f
  <2>1. 0 \in U
    <3>1. f[0] = <<>>
      BY <1>1, <1>9
    <3>2. 0 \in 0 .. N /\ <<>> \in Ports /\ Len(<<>>) = 0
      BY <1>1, EmptySeq
    <3>3. IsInjective(<<>>)
      BY DEF IsInjective
    <3> QED BY <3>1, <3>2, <3>3
  <2>2. ASSUME NEW n \in 1 .. N, n - 1 \in U PROVE n \in U
    <3> HIDE DEF Give, Ports
    <3>1. f[n] = Give(n, f[n - 1])
      BY <1>9
    <3>2. f[n - 1] \in Ports /\ Len(f[n - 1]) = n - 1 /\ IsInjective(f[n - 1])
      BY <2>2
    <3>3. n - 1 < Space
      BY <1>1, PortsExist DEF Space
    <3>4. f[n] \in Ports /\ Len(f[n]) = (n - 1) + 1 /\ IsInjective(f[n])
      BY <1>2, <3>1, <3>2, <3>3
    <3> QED BY <3>4
  <2> HIDE DEF U
  <2> QED BY <1>1, <2>1, <2>2, Upwards
<1> HIDE DEF f
<1>11. f[N] \in Ports /\ Len(f[N]) = N /\ IsInjective(f[N])
  <2>1. N \in U
    <3> HIDE DEF U
    <3> QED BY <1>1, <1>10
  <2> QED BY <2>1
<1>12. f[N] \in [1 .. N -> 0 .. PortMax]
  BY <1>11, LenProperties
<1> QED BY <1>8, <1>11, <1>12

------------------------------------------------------------------------------
(* SortedKeys *)

LEMMA SequenceIs ==
  ASSUME NEW n \in Nat, NEW S, NEW s \in [1 .. n -> S]
  PROVE  s \in Seq(S) /\ Len(s) = n
<1>1. s \in Seq(S)
  BY SeqDef
<1>2. DOMAIN s = 1 .. Len(s) /\ Len(s) \in Nat
  BY <1>1, LenProperties
<1> QED BY <1>1, <1>2

\* A key as often as a bag has it.
Times(bag) == [k \in Key |-> [i \in 1 .. bag[k] |-> k]]

\* The keys up to n, sorted.
UpToKey(flat, bag) ==
  flat[0] = <<>> /\ \A n \in 1 .. Keys : flat[n] = flat[n - 1] \o Times(bag)[n]

LEMMA TimesIs ==
  ASSUME NEW bag \in [Key -> Nat]
  PROVE  \A k \in Key : Times(bag)[k] \in Seq(Key) /\ Len(Times(bag)[k]) = bag[k]
<1>1. ASSUME NEW k \in Key
      PROVE  Times(bag)[k] \in Seq(Key) /\ Len(Times(bag)[k]) = bag[k]
  <2>1. bag[k] \in Nat /\ Times(bag)[k] \in [1 .. bag[k] -> Key]
    BY DEF Times
  <2> QED BY <2>1, SequenceIs
<1> QED BY <1>1

LEMMA SortedStepwise ==
  ASSUME NEW bag \in [Key -> Nat]
  PROVE  \E flat \in [0 .. Keys -> Seq(Key)] : UpToKey(flat, bag) /\ SortedKeys(bag) = flat[Keys]
<1> DEFINE seqs == Times(bag)
           S == Seq(Key)
           G == [n \in 1 .. Keys |-> [s \in S |-> s \o seqs[n]]]
           IsFlat(f) == f = [i \in 1 .. Len(seqs) |->
                              IF i = 1 THEN seqs[i] ELSE f[i - 1] \o seqs[i]]
           c == CHOOSE f : IsFlat(f)
<1>1. Keys \in Nat /\ Key = 1 .. Keys /\ <<>> \in S
  BY KeysOfHosts, EmptySeq DEF Key
<1>2. \A k \in 1 .. Keys : seqs[k] \in S
  BY <1>1, TimesIs
<1>3. seqs \in Seq(S) /\ Len(seqs) = Keys
  <2>1. seqs \in [1 .. Keys -> S]
    BY <1>1, <1>2 DEF Times
  <2> HIDE DEF seqs, S
  <2> QED BY <1>1, <2>1, SequenceIs
<1>4. \A s, t \in S : s \o t \in S
  BY ConcatProperties
<1>5. PICK flat \in [0 .. Keys -> S] : Iterates(flat, Keys, <<>>, G)
  <2> HIDE DEF seqs, S
  <2>1. G \in [1 .. Keys -> [S -> S]]
    BY <1>2, <1>4
  <2>2. Keys \in Nat /\ <<>> \in S
    BY <1>1
  <2> HIDE DEF G
  <2> QED BY <2>1, <2>2, Iterated
<1>6. flat[0] = <<>> /\ \A n \in 1 .. Keys : flat[n] = flat[n - 1] \o seqs[n]
  <2> HIDE DEF seqs, S
  <2>1. ASSUME NEW n \in 1 .. Keys PROVE flat[n] = flat[n - 1] \o seqs[n]
    <3>1. n - 1 \in 0 .. Keys /\ flat[n - 1] \in S
      BY <1>1, <1>5
    <3> QED BY <1>5, <3>1 DEF Iterates
  <2> QED BY <1>5, <2>1 DEF Iterates
<1>7. SortedKeys(bag) = IF Keys = 0 THEN seqs ELSE c[Keys]
  <2>1. SortedKeys(bag) = FlattenSeq(seqs)
    BY DEF SortedKeys, Times
  <2>2. FlattenSeq(seqs) = IF Len(seqs) = 0 THEN seqs ELSE c[Len(seqs)]
    <3> HIDE DEF seqs
    <3> QED BY Zenon DEF FlattenSeq
  <2> HIDE DEF seqs, c
  <2> QED BY <1>3, <2>1, <2>2
<1>8. CASE Keys = 0
  <2>1. Len(<<>>) = 0 /\ <<>> \in Seq(S)
    BY EmptySeq
  <2>2. seqs = <<>>
    <3> HIDE DEF seqs, S
    <3>1. \A i \in 1 .. Len(seqs) : seqs[i] = <<>>[i]
      BY <1>3, <1>8
    <3> QED BY <1>3, <1>8, <2>1, <3>1, SeqEqual
  <2> HIDE DEF seqs
  <2> QED BY <1>5, <1>6, <1>7, <1>8, <2>2 DEF UpToKey
<1>9. CASE Keys # 0
  <2> HIDE DEF S
  <2>1. flat[1] = seqs[1]
    <3>1. seqs[1] \in S /\ flat[1] = <<>> \o seqs[1]
      <4> HIDE DEF seqs
      <4>1. 1 \in 1 .. Keys /\ 1 - 1 = 0
        BY <1>1, <1>9
      <4> QED BY <1>2, <1>6, <4>1
    <3> QED BY <3>1, ConcatEmptySeq DEF S
  <2> HIDE DEF seqs
  <2> DEFINE w == [i \in 1 .. Len(seqs) |-> flat[i]]
  <2>2. IsFlat(w)
    <3>1. ASSUME NEW i \in 1 .. Len(seqs)
          PROVE  w[i] = IF i = 1 THEN seqs[i] ELSE w[i - 1] \o seqs[i]
      <4>1. CASE i = 1
        BY <2>1, <4>1
      <4>2. CASE i # 1
        <5>1. i \in 1 .. Keys /\ i - 1 \in 1 .. Len(seqs)
          BY <1>1, <1>3, <4>2
        <5> QED BY <1>6, <4>2, <5>1
      <4> QED BY <4>1, <4>2
    <3> QED BY <3>1
  <2>3. IsFlat(c)
    <3> HIDE DEF IsFlat, w
    <3> QED BY <2>2
  <2> DEFINE T == {n \in 0 .. Keys : n = 0 \/ c[n] = flat[n]}
  <2>4. 0 .. Keys \subseteq T
    <3> HIDE DEF c
    <3>1. 0 \in T
      BY <1>1
    <3>2. ASSUME NEW n \in 1 .. Keys, n - 1 \in T PROVE n \in T
      <4>1. n \in 1 .. Len(seqs) /\ n \in 0 .. Keys
        BY <1>1, <1>3
      <4>2. CASE n = 1
        BY <2>1, <2>3, <4>1, <4>2
      <4>3. CASE n # 1
        <5>1. c[n - 1] = flat[n - 1]
          BY <1>1, <3>2, <4>3
        <5> QED BY <1>6, <2>3, <4>1, <4>3, <5>1
      <4> QED BY <4>2, <4>3
    <3> HIDE DEF T
    <3> QED BY <1>1, <3>1, <3>2, Upwards
  <2>5. c[Keys] = flat[Keys]
    <3> HIDE DEF c
    <3> QED BY <1>1, <1>9, <2>4
  <2> HIDE DEF c
  <2> QED BY <1>5, <1>6, <1>7, <1>9, <2>5 DEF UpToKey, S, seqs
<1> QED BY <1>8, <1>9

\* No more entries than m of each key.
LEMMA SortedFits ==
  ASSUME NEW m \in Nat, NEW bag \in [Key -> 0 .. m]
  PROVE  SortedKeys(bag) \in Seq(Key) /\ Len(SortedKeys(bag)) <= Keys * m
<1>1. Keys \in Nat /\ Key = 1 .. Keys /\ <<>> \in Seq(Key) /\ Len(<<>>) = 0
  BY KeysOfHosts, EmptySeq DEF Key
<1>2. bag \in [Key -> Nat]
  OBVIOUS
<1>3. PICK flat \in [0 .. Keys -> Seq(Key)] :
        UpToKey(flat, bag) /\ SortedKeys(bag) = flat[Keys]
  BY <1>2, SortedStepwise
<1> DEFINE T == {n \in 0 .. Keys : Len(flat[n]) <= n * m}
<1>4. 0 \in T
  BY <1>1, <1>3 DEF UpToKey
<1>5. ASSUME NEW n \in 1 .. Keys, n - 1 \in T PROVE n \in T
  <2> DEFINE s == flat[n - 1]
             t == Times(bag)[n]
  <2>1. n - 1 \in 0 .. Keys /\ s \in Seq(Key) /\ Len(s) <= (n - 1) * m
    BY <1>1, <1>3, <1>5
  <2>2. t \in Seq(Key) /\ Len(t) = bag[n]
    BY <1>1, <1>2, TimesIs
  <2>3. flat[n] = s \o t
    BY <1>3 DEF UpToKey
  <2> HIDE DEF s, t
  <2>4. Len(flat[n]) = Len(s) + Len(t)
    BY <2>1, <2>2, <2>3, ConcatProperties
  <2>5. (n - 1) * m + m = n * m /\ n * m \in Nat /\ (n - 1) * m \in Nat
    BY <1>1
  <2>6. Len(flat[n]) <= n * m
    <3>1. Len(s) \in Nat /\ Len(t) \in Nat /\ Len(t) <= m
      BY <1>1, <2>1, <2>2, LenProperties
    <3>2. ASSUME NEW a \in Nat, NEW b \in Nat, NEW c \in Nat,
                 a <= c, b <= m
          PROVE  a + b <= c + m
      BY <3>2
    <3>3. Len(s) + Len(t) <= (n - 1) * m + m
      BY <2>1, <2>5, <3>1, <3>2
    <3> QED BY <2>4, <2>5, <3>3
  <2> QED BY <1>1, <2>6
<1>6. 0 .. Keys \subseteq T
  <2> HIDE DEF T
  <2> QED BY <1>1, <1>4, <1>5, Upwards
<1> QED BY <1>1, <1>3, <1>6

\* A set of keys, sorted: nothing else, and nothing twice.
LEMMA SortedOnce ==
  ASSUME NEW bag \in [Key -> 0 .. 1]
  PROVE  /\ IsInjective(SortedKeys(bag))
         /\ \A k \in Key : k \in ToSet(SortedKeys(bag)) <=> bag[k] = 1
<1>1. Keys \in Nat /\ Key = 1 .. Keys /\ <<>> \in Seq(Key) /\ Len(<<>>) = 0
  BY KeysOfHosts, EmptySeq DEF Key
<1>2. bag \in [Key -> Nat]
  OBVIOUS
<1>3. PICK flat \in [0 .. Keys -> Seq(Key)] :
        UpToKey(flat, bag) /\ SortedKeys(bag) = flat[Keys]
  BY <1>2, SortedStepwise
<1> DEFINE T == {n \in 0 .. Keys :
                   /\ IsInjective(flat[n])
                   /\ \A i \in DOMAIN flat[n] : flat[n][i] <= n
                   /\ \A k \in 1 .. n : k \in ToSet(flat[n]) <=> bag[k] = 1}
<1>4. 0 \in T
  BY <1>1, <1>3 DEF UpToKey, IsInjective
<1>5. ASSUME NEW n \in 1 .. Keys, n - 1 \in T PROVE n \in T
  <2> DEFINE s == flat[n - 1]
             t == Times(bag)[n]
  <2>1. n - 1 \in 0 .. Keys /\ s \in Seq(Key)
    BY <1>1
  <2>2. /\ IsInjective(s)
        /\ \A i \in DOMAIN s : s[i] <= n - 1
        /\ \A k \in 1 .. n - 1 : k \in ToSet(s) <=> bag[k] = 1
    BY <1>5
  <2>3. flat[n] = s \o t /\ t = [i \in 1 .. bag[n] |-> n]
    BY <1>1, <1>3 DEF UpToKey, Times
  <2>4. t \in Seq(Key) /\ Len(t) = bag[n]
    BY <1>1, <1>2, TimesIs
  <2> HIDE DEF s, t
  <2>5. /\ DOMAIN s = 1 .. Len(s) /\ Len(s) \in Nat
        /\ DOMAIN flat[n] = 1 .. Len(s) + bag[n]
        /\ \A i \in 1 .. Len(s) + bag[n] : flat[n][i] = IF i <= Len(s) THEN s[i] ELSE n
    <3>1. DOMAIN s = 1 .. Len(s) /\ Len(s) \in Nat
      BY <2>1, LenProperties
    <3>2. /\ flat[n] \in Seq(Key) /\ Len(flat[n]) = Len(s) + bag[n]
          /\ \A i \in 1 .. Len(s) + bag[n] :
               flat[n][i] = IF i <= Len(s) THEN s[i] ELSE t[i - Len(s)]
      <4>1. /\ s \o t \in Seq(Key) /\ Len(s \o t) = Len(s) + Len(t)
            /\ \A i \in 1 .. Len(s) + Len(t) :
                 (s \o t)[i] = IF i <= Len(s) THEN s[i] ELSE t[i - Len(s)]
        BY <2>1, <2>4, ConcatProperties
      <4>2. flat[n] = s \o t
        BY <2>3
      <4> HIDE <2>3
      <4> QED BY <2>4, <4>1, <4>2
    <3>3. DOMAIN flat[n] = 1 .. Len(s) + bag[n]
      BY <3>2, LenProperties
    <3>4. bag[n] \in 0 .. 1
      BY <1>1
    <3>5. \A i \in 1 .. Len(s) + bag[n] : i > Len(s) => t[i - Len(s)] = n
      BY <2>3, <3>1, <3>4
    <3>6. ASSUME NEW i \in 1 .. Len(s) + bag[n]
          PROVE  flat[n][i] = IF i <= Len(s) THEN s[i] ELSE n
      <4>1. i <= Len(s) \/ i > Len(s)
        BY <3>1, <3>4
      <4> QED BY <3>2, <3>5, <4>1
    <3> QED BY <3>1, <3>3, <3>6
  <2>6. bag[n] \in 0 .. 1 /\ n \in Nat
    BY <1>1
  <2>7. IsInjective(flat[n])
    BY <2>2, <2>5, <2>6 DEF IsInjective
  <2>8. \A i \in DOMAIN flat[n] : flat[n][i] <= n
    <3>1. \A i \in 1 .. Len(s) : s[i] \in Nat
      BY <1>1, <2>1, ElementOfSeq
    <3> QED BY <2>2, <2>5, <2>6, <3>1
  <2>9. ASSUME NEW k \in 1 .. n PROVE k \in ToSet(flat[n]) <=> bag[k] = 1
    <3>1. CASE k = n
      <4>1. \A i \in 1 .. Len(s) : s[i] # n
        <5>1. \A i \in 1 .. Len(s) : s[i] \in Nat
          BY <1>1, <2>1, ElementOfSeq
        <5> QED BY <2>2, <2>5, <2>6, <5>1
      <4> QED BY <2>5, <2>6, <3>1, <4>1 DEF ToSet
    <3>2. CASE k # n
      <4>1. k \in 1 .. n - 1
        BY <2>6, <3>2
      <4>2. k \in ToSet(flat[n]) => k \in ToSet(s)
        BY <2>5, <2>6, <3>2 DEF ToSet
      <4>3. ASSUME NEW i \in 1 .. Len(s) PROVE s[i] \in ToSet(flat[n])
        BY <2>5, <2>6 DEF ToSet
      <4>4. k \in ToSet(s) => k \in ToSet(flat[n])
        BY <2>5, <4>3 DEF ToSet
      <4> QED BY <2>2, <4>1, <4>2, <4>4
    <3> QED BY <3>1, <3>2
  <2> QED BY <1>1, <2>7, <2>8, <2>9
<1>6. 0 .. Keys \subseteq T
  <2> HIDE DEF T
  <2> QED BY <1>1, <1>4, <1>5, Upwards
<1> QED BY <1>1, <1>3, <1>6

------------------------------------------------------------------------------
(* What is shown *)

Entry == [key : Key, port : 0 .. PortMax]

KeysIn(es) == {es[i].key : i \in DOMAIN es}

\* PortOf, of any list of entries.
PortIn(es, k) ==
  es[CHOOSE i \in DOMAIN es :
    es[i].key = k /\ \A j \in DOMAIN es : es[j].key = k => j <= i].port

\* The port of a listed key is that of one of its entries.
LEMMA PortIsListed ==
  ASSUME NEW es \in Seq(Entry), NEW k \in KeysIn(es)
  PROVE  \E i \in DOMAIN es : es[i].key = k /\ PortIn(es, k) = es[i].port
<1> DEFINE N == Len(es)
           T == {n \in 0 .. N : N - n \in DOMAIN es /\ es[N - n].key = k}
           IsLast(i) == es[i].key = k /\ \A j \in DOMAIN es : es[j].key = k => j <= i
<1>1. N \in Nat /\ DOMAIN es = 1 .. N
  BY LenProperties
<1>2. PICK i \in DOMAIN es : es[i].key = k
  BY DEF KeysIn
<1>3. T \in SUBSET Nat /\ T # {}
  <2>1. N - i \in 0 .. N /\ N - (N - i) = i
    BY <1>1, <1>2
  <2>2. N - i \in T
    BY <1>2, <2>1
  <2> HIDE DEF N
  <2> QED BY <1>1, <2>2
<1>4. PICK n \in T : \A m \in T : n <= m
  <2> HIDE DEF T
  <2> QED BY <1>3, Least
<1>5. \E j \in DOMAIN es : IsLast(j)
  <2> HIDE DEF N
  <2>1. N - n \in DOMAIN es /\ es[N - n].key = k /\ n \in 0 .. N
    BY <1>4
  <2>2. ASSUME NEW j \in DOMAIN es, es[j].key = k PROVE j <= N - n
    <3>1. N - j \in 0 .. N /\ N - (N - j) = j
      BY <1>1
    <3>2. N - j \in T
      BY <2>2, <3>1
    <3>3. n <= N - j
      BY <1>4, <3>2
    <3> QED BY <1>1, <2>1, <3>3
  <2> QED BY <2>1, <2>2
<1> DEFINE c == CHOOSE j \in DOMAIN es : IsLast(j)
<1>6. c \in DOMAIN es /\ IsLast(c)
  <2> HIDE DEF IsLast
  <2> QED BY <1>5
<1>7. PortIn(es, k) = es[c].port
  BY DEF PortIn
<1> HIDE DEF c
<1> QED BY <1>6, <1>7

LEMMA ListedPort ==
  ASSUME DiscTypeOK, NEW k \in Listed
  PROVE  PortOf(k) \in 0 .. PortMax
<1>1. entries \in Seq(Entry) /\ Listed = KeysIn(entries)
  BY DEF DiscTypeOK, Entry, Listed, KeysIn
<1>2. PICK i \in DOMAIN entries : PortIn(entries, k) = entries[i].port
  BY <1>1, PortIsListed
<1>3. entries[i] \in Entry
  BY <1>1, LenProperties
<1> QED BY <1>2, <1>3 DEF PortOf, PortIn, Entry

\* Scans are counted by a number.
LEMMA ScansCounted ==
  /\ Cardinality(Scan) \in Nat /\ Keys \in Nat /\ Keys * Cardinality(Scan) <= Space
  /\ Cardinality(Host) \in Nat /\ Cardinality(Host) * Cardinality(Scan) \in Nat
<1>1. Cardinality(Scan) \in Nat /\ Cardinality(Host) \in Nat
  BY FS_CardinalityType, KeysOfHosts, PortsSuffice
<1>2. \A m, n \in Nat : m * n \in Nat
  OBVIOUS
<1> QED BY <1>1, <1>2, KeysOfHosts, PortsSuffice

\* What Merged lists, and on which ports.
LEMMA MergedIs ==
  ASSUME DiscTypeOK
  PROVE  /\ Merged \in Seq(Entry)
         /\ DOMAIN Merged = DOMAIN SortedKeys(pending)
         /\ \A i \in DOMAIN Merged :
              /\ Merged[i].key = SortedKeys(pending)[i]
              /\ Merged[i].key \in Listed => Merged[i].port = PortOf(Merged[i].key)
         /\ Listed = {} => \A i, j \in DOMAIN Merged : Merged[i].port = Merged[j].port => i = j
<1> DEFINE ks == SortedKeys(pending)
           ports == AssignPorts(ks)
           Port(i) == IF ks[i] \in Listed THEN PortOf(ks[i]) ELSE ports[i]
<1>1. ks \in Seq(Key) /\ Len(ks) <= Space
  <2>1. ks \in Seq(Key) /\ Len(ks) <= Keys * Cardinality(Scan)
    BY ScansCounted, SortedFits DEF DiscTypeOK
  <2>2. Len(ks) \in Nat /\ Keys * Cardinality(Scan) \in Nat /\ Space \in Nat
    BY <2>1, LenProperties, ScansCounted, PortsExist DEF Space
  <2> HIDE DEF ks
  <2> QED BY <2>1, <2>2, ScansCounted
<1>2. Merged = [i \in DOMAIN ks |-> [key |-> ks[i], port |-> Port(i)]]
  BY DEF Merged
<1> HIDE DEF ks
<1>3. ports \in [1 .. Len(ks) -> 0 .. PortMax] /\ IsInjective(ports)
  BY <1>1, PortsAssigned DEF DiscTypeOK
<1> HIDE DEF ports
<1>4. Len(ks) \in Nat /\ DOMAIN ks = 1 .. Len(ks) /\ ks \in [1 .. Len(ks) -> Key]
  BY <1>1, LenProperties
<1>5. \A k \in Listed : PortOf(k) \in 0 .. PortMax
  BY ListedPort
<1>6. \A i \in 1 .. Len(ks) : Port(i) \in 0 .. PortMax
  BY <1>3, <1>5
<1> HIDE DEF Port
<1>7. Merged \in [1 .. Len(ks) -> Entry]
  BY <1>2, <1>4, <1>6 DEF Entry
<1>8. Merged \in Seq(Entry)
  BY <1>4, <1>7, SequenceIs
<1>9. ASSUME NEW i \in DOMAIN Merged
      PROVE  /\ Merged[i].key = ks[i]
             /\ Merged[i].key \in Listed => Merged[i].port = PortOf(Merged[i].key)
             /\ Merged[i].key \notin Listed => Merged[i].port = ports[i]
  BY <1>2 DEF Port
<1>10. ASSUME Listed = {}, NEW i \in DOMAIN Merged, NEW j \in DOMAIN Merged,
              Merged[i].port = Merged[j].port
       PROVE  i = j
  <2>1. Merged[i].port = ports[i] /\ Merged[j].port = ports[j]
    BY <1>9, <1>10
  <2>2. i \in DOMAIN ports /\ j \in DOMAIN ports
    BY <1>3, <1>7
  <2> QED BY <1>3, <1>10, <2>1, <2>2 DEF IsInjective
<1> QED BY <1>2, <1>8, <1>9, <1>10 DEF ks

------------------------------------------------------------------------------
(* Any scans, several of them under way at once *)

\* A scan lists a key once: as often as it is pending, a scan is through with
\* its host.  The same for the hosts that were counted.
Through(k) == {s \in Scan : HostOf[k] \notin todo[s]}
Reported   == {p \in Scan \X Host : p[2] \notin todo[p[1]]}

PendingFits == \A k \in Key : pending[k] <= Cardinality(Through(k))
DoneFits    == hostsDone <= Cardinality(Reported)

DiscInv == DiscTypeOK /\ PendingFits /\ DoneFits

\* Sets of scans and of reports are no larger than those bounds.
LEMMA CountsFit ==
  /\ \A T \in SUBSET Scan : IsFiniteSet(T) /\ Cardinality(T) \in 0 .. Cardinality(Scan)
  /\ \A R \in SUBSET (Scan \X Host) :
       IsFiniteSet(R) /\ Cardinality(R) \in 0 .. Cardinality(Host) * Cardinality(Scan)
<1>1. ASSUME NEW T \in SUBSET Scan
      PROVE  IsFiniteSet(T) /\ Cardinality(T) \in 0 .. Cardinality(Scan)
  <2>1. IsFiniteSet(T) /\ Cardinality(T) <= Cardinality(Scan) /\ Cardinality(T) \in Nat
    BY PortsSuffice, FS_Subset, FS_CardinalityType
  <2> QED BY <2>1, ScansCounted
<1>2. ASSUME NEW R \in SUBSET (Scan \X Host)
      PROVE  /\ IsFiniteSet(R)
             /\ Cardinality(R) \in 0 .. Cardinality(Host) * Cardinality(Scan)
  <2>1. /\ IsFiniteSet(Scan \X Host)
        /\ Cardinality(Scan \X Host) = Cardinality(Scan) * Cardinality(Host)
    BY PortsSuffice, KeysOfHosts, FS_Product
  <2>2. IsFiniteSet(R) /\ Cardinality(R) <= Cardinality(Scan \X Host) /\ Cardinality(R) \in Nat
    BY <2>1, FS_Subset, FS_CardinalityType
  <2>3. Cardinality(Scan) * Cardinality(Host) = Cardinality(Host) * Cardinality(Scan)
    BY ScansCounted
  <2>4. Cardinality(Host) * Cardinality(Scan) \in Nat
    BY ScansCounted
  <2> QED BY <2>1, <2>2, <2>3, <2>4
<1> QED BY <1>1, <1>2

LEMMA CountedSets ==
  /\ \A k \in Key : Through(k) \in SUBSET Scan /\ Through(k)' \in SUBSET Scan
  /\ Reported \in SUBSET (Scan \X Host) /\ Reported' \in SUBSET (Scan \X Host)
BY DEF Through, Reported

LEMMA DiscInitially == DiscInit => DiscInv
<1> SUFFICES ASSUME DiscInit PROVE DiscInv
  OBVIOUS
<1>1. PICK s \in Scan : active = {s} /\ todo = [t \in Scan |-> IF t = s THEN Host ELSE {}]
  BY DEF DiscInit
<1>2. todo \in [Scan -> SUBSET Host]
  BY <1>1
<1>3. \A n \in Nat : 0 \in 0 .. n /\ 0 <= n
  OBVIOUS
<1>4. pending \in [Key -> 0 .. Cardinality(Scan)]
  BY <1>3, ScansCounted DEF DiscInit
<1>5. hostsDone \in 0 .. Cardinality(Host) * Cardinality(Scan)
  BY <1>3, ScansCounted DEF DiscInit
<1>6. entries \in Seq([key : Key, port : 0 .. PortMax])
  BY EmptySeq DEF DiscInit
<1>7. DiscTypeOK
  BY <1>1, <1>2, <1>4, <1>5, <1>6 DEF DiscInit, DiscTypeOK
<1>8. PendingFits /\ DoneFits
  BY CountsFit, CountedSets DEF DiscInit, PendingFits, DoneFits
<1> QED BY <1>7, <1>8 DEF DiscInv

\* The host of a report is counted, and counts for each of its keys.
LEMMA ReportCounts ==
  ASSUME DiscInv, NEW s \in Scan, NEW h \in Host, HostReports(s, h)
  PROVE  /\ todo' \in [Scan -> SUBSET Host]
         /\ Cardinality(Reported') = Cardinality(Reported) + 1
         /\ \A k \in Key : Cardinality(Through(k)') =
                Cardinality(Through(k)) + (IF HostOf[k] = h THEN 1 ELSE 0)
<1>1. todo \in [Scan -> SUBSET Host] /\ todo' = [todo EXCEPT ![s] = @ \ {h}] /\ h \in todo[s]
  BY DEF DiscInv, DiscTypeOK, HostReports
<1>2. todo' \in [Scan -> SUBSET Host]
  BY <1>1
<1>3. Reported' = Reported \cup {<<s, h>>} /\ <<s, h>> \notin Reported
  BY <1>1 DEF Reported
<1>4. Cardinality(Reported') = Cardinality(Reported) + 1
  BY <1>3, CountsFit, CountedSets, FS_AddElement
<1>5. ASSUME NEW k \in Key
      PROVE  Cardinality(Through(k)') =
               Cardinality(Through(k)) + (IF HostOf[k] = h THEN 1 ELSE 0)
  <2>1. Cardinality(Through(k)) \in Nat /\ IsFiniteSet(Through(k))
    BY CountsFit, CountedSets
  <2>2. CASE HostOf[k] = h
    <3>1. Through(k)' = Through(k) \cup {s} /\ s \notin Through(k)
      BY <1>1, <2>2 DEF Through
    <3> QED BY <2>1, <2>2, <3>1, FS_AddElement
  <2>3. CASE HostOf[k] # h
    <3>1. Through(k)' = Through(k)
      BY <1>1, <2>3 DEF Through
    <3> QED BY <2>1, <2>3, <3>1
  <2> QED BY <2>2, <2>3
<1> QED BY <1>2, <1>4, <1>5

\* What a scan does leaves the rest of the type as it is.
LEMMA DiscStep == DiscInv /\ [DiscNext]_discVars => DiscInv'
<1> SUFFICES ASSUME DiscInv, [DiscNext]_discVars PROVE DiscInv'
  OBVIOUS
<1> USE DEF DiscInv
<1>1. ASSUME NEW s \in Scan, NEW h \in Host, HostReports(s, h),
             pending' \in [Key -> Nat],
             \A k \in Key : /\ pending[k] <= pending'[k]
                           /\ pending'[k] <= pending[k] + (IF HostOf[k] = h THEN 1 ELSE 0)
      PROVE  DiscInv'
  <2>1. /\ todo' \in [Scan -> SUBSET Host]
        /\ Cardinality(Reported') = Cardinality(Reported) + 1
        /\ \A k \in Key : Cardinality(Through(k)') =
               Cardinality(Through(k)) + (IF HostOf[k] = h THEN 1 ELSE 0)
    BY <1>1, ReportCounts
  <2>2. hostsDone' <= Cardinality(Reported') /\ hostsDone' \in Nat
    <3>1. hostsDone \in Nat /\ Cardinality(Reported) \in Nat /\ hostsDone' = hostsDone + 1
      BY <1>1, CountsFit, CountedSets, ScansCounted DEF DiscTypeOK, HostReports
    <3> QED BY <2>1, <3>1 DEF DoneFits
  <2>3. hostsDone' \in 0 .. Cardinality(Host) * Cardinality(Scan)
    <3> DEFINE N == Cardinality(Host) * Cardinality(Scan)
    <3>1. Cardinality(Reported') \in 0 .. N /\ N \in Nat
      BY CountsFit, CountedSets, ScansCounted
    <3> HIDE DEF N
    <3>2. hostsDone' \in 0 .. N
      BY <2>2, <3>1
    <3> QED BY <3>2 DEF N
  <2>4. \A k \in Key : pending'[k] <= Cardinality(Through(k)')
    <3>1. ASSUME NEW k \in Key PROVE pending'[k] <= Cardinality(Through(k)')
      <4>1. /\ pending[k] \in Nat /\ pending'[k] \in Nat /\ Cardinality(Through(k)) \in Nat
            /\ pending[k] <= Cardinality(Through(k))
        BY <1>1, CountsFit, CountedSets DEF DiscTypeOK, PendingFits
      <4> QED BY <1>1, <2>1, <4>1
    <3> QED BY <3>1
  <2>5. pending' \in [Key -> 0 .. Cardinality(Scan)]
    <3>1. ASSUME NEW k \in Key PROVE pending'[k] \in 0 .. Cardinality(Scan)
      BY <1>1, <2>4, CountsFit, CountedSets
    <3> QED BY <1>1, <3>1
  <2>6. DiscTypeOK'
    BY <1>1, <2>1, <2>3, <2>5 DEF DiscTypeOK, HostReports
  <2> QED BY <2>2, <2>4, <2>6 DEF PendingFits, DoneFits
<1>2. ASSUME NEW s \in Scan, Finished(s) PROVE DiscInv'
  <2>1. entries' \in Seq([key : Key, port : 0 .. PortMax])
    BY <1>2, MergedIs DEF Finished, Finalize, Entry
  <2>2. pending' \in [Key -> 0 .. Cardinality(Scan)] /\ \A k \in Key : pending'[k] = 0
    BY <1>2, ScansCounted DEF Finished, Finalize
  <2>3. DiscTypeOK'
    BY <1>2, <2>1, <2>2 DEF Finished, Finalize, DiscTypeOK
  <2>4. PendingFits'
    BY <2>2, CountsFit, CountedSets DEF PendingFits
  <2>5. DoneFits'
    BY <1>2 DEF Finished, Finalize, DoneFits, Reported
  <2> QED BY <2>3, <2>4, <2>5
<1>3. ASSUME NEW s \in Scan, NEW h \in Host, HostFails(s, h) PROVE DiscInv'
  <2>1. pending \in [Key -> Nat]
    BY DEF DiscTypeOK
  <2>2. pending' = pending /\ HostReports(s, h)
    BY <1>3 DEF HostFails
  <2>3. pending' \in [Key -> Nat]
    BY <2>1, <2>2
  <2>4. \A k \in Key : /\ pending[k] <= pending'[k]
                      /\ pending'[k] <= pending[k] + (IF HostOf[k] = h THEN 1 ELSE 0)
    BY <2>1, <2>2
  <2> QED BY <1>1, <2>2, <2>3, <2>4
<1>4. ASSUME NEW s \in Scan, NEW h \in Host, NEW K \in SUBSET KeysOf(h), HostFinds(s, h, K)
      PROVE  DiscInv'
  <2>1. pending \in [Key -> Nat]
    BY DEF DiscTypeOK
  <2>2. /\ pending' = [k \in Key |-> IF k \in K THEN pending[k] + 1 ELSE pending[k]]
        /\ HostReports(s, h)
    BY <1>4 DEF HostFinds
  <2>3. \A k \in K : HostOf[k] = h
    BY <1>4 DEF KeysOf
  <2> QED BY <1>1, <2>1, <2>2, <2>3
<1>5. ASSUME NEW s \in Scan, Refresh(s) PROVE DiscInv'
  <2>1. pending' \in [Key -> 0 .. Cardinality(Scan)] /\ \A k \in Key : pending'[k] = 0
    BY <1>5, ScansCounted DEF Refresh
  <2>2. hostsDone' = 0 /\ 0 \in 0 .. Cardinality(Host) * Cardinality(Scan)
    <3> DEFINE N == Cardinality(Host) * Cardinality(Scan)
    <3>1. N \in Nat
      BY ScansCounted
    <3> HIDE DEF N
    <3>2. 0 \in 0 .. N
      BY <3>1
    <3> QED BY <1>5, <3>2 DEF Refresh, N
  <2>3. DiscTypeOK'
    BY <1>5, <2>1, <2>2 DEF Refresh, DiscTypeOK
  <2>4. PendingFits'
    BY <2>1, CountsFit, CountedSets DEF PendingFits
  <2>5. DoneFits'
    BY <2>2, CountsFit, CountedSets DEF DoneFits
  <2> QED BY <2>3, <2>4, <2>5
<1>6. ASSUME NEW k \in Key, Connect(k) \/ Disconnect(k) PROVE DiscInv'
  <2>1. k \in Listed => PortOf(k) \in 0 .. PortMax
    BY ListedPort
  <2>2. tunnel' \in [Key -> (0 .. PortMax) \cup {None}]
    BY <1>6, <2>1 DEF Connect, Disconnect, DiscTypeOK
  <2>3. UNCHANGED <<hash, scanVars, entries>>
    BY <1>6 DEF Connect, Disconnect
  <2> QED BY <2>2, <2>3 DEF scanVars, DiscTypeOK, PendingFits, DoneFits, Through, Reported
<1>7. CASE UNCHANGED discVars
  BY <1>7 DEF discVars, scanVars, DiscTypeOK, PendingFits, DoneFits, Through, Reported
<1> QED BY <1>2, <1>3, <1>4, <1>5, <1>6, <1>7 DEF DiscNext, Scanning, Tunnelling

\* DiscTypeOK: all of the state stays in its bounds, also with overlapping
\* scans: no port is given that is not a uint16, no key is pending more often
\* than there are scans.
THEOREM DiscoveryTyped == DiscoverySpec => []DiscTypeOK
<1>1. DiscoverySpec => []DiscInv
  BY DiscInitially, DiscStep, PTL DEF DiscoverySpec
<1> QED BY <1>1, PTL DEF DiscInv

\* FirstPortsUnique: however long the walks of AssignPorts, past the end of the
\* range too, where no entry was known before each gets a port of its own.
THEOREM PortsUnique == DiscoverySpec => FirstPortsUnique
<1> DEFINE Unique == entries = <<>> =>
             \A i, j \in DOMAIN entries' : entries'[i].port = entries'[j].port => i = j
<1>1. ASSUME DiscInv, [DiscNext]_discVars PROVE Unique
  <2> SUFFICES ASSUME entries = <<>>,
                      NEW i \in DOMAIN entries', NEW j \in DOMAIN entries',
                      entries'[i].port = entries'[j].port
               PROVE  i = j
    OBVIOUS
  <2>1. CASE \E s \in Scan : Finished(s)
    <3>1. entries' = Merged
      BY <2>1 DEF Finished, Finalize
    <3>2. Listed = {}
      BY DEF Listed
    <3> QED BY <1>1, <3>1, <3>2, MergedIs DEF DiscInv
  <2>2. CASE entries' = entries
    BY <2>2
  <2>3. (\E s \in Scan : Finished(s)) \/ entries' = entries
    BY <1>1 DEF DiscNext, Scanning, Tunnelling, HostFails, HostFinds, HostReports, Refresh,
                Connect, Disconnect, discVars
  <2> QED BY <2>1, <2>2, <2>3
<1>2. DiscoverySpec => []DiscInv
  BY DiscInitially, DiscStep, PTL DEF DiscoverySpec
<1>3. DiscoverySpec => [][Unique]_discVars
  BY <1>1, <1>2, PTL DEF DiscoverySpec
<1> QED BY <1>3 DEF FirstPortsUnique

------------------------------------------------------------------------------
(* One scan after the other, and no known database vanishes *)

OneScan == (discovering <=> active # {}) /\ \A s, t \in active : s = t

\* Every host is still to come or counted.
EveryHostCounts == \A s \in active : hostsDone + Cardinality(todo[s]) = Cardinality(Host)

\* Nothing is pending twice, or before its host has reported; what is listed
\* is pending again when it has.
KeysCounted ==
  \A s \in active, k \in Key :
    /\ pending[k] <= 1
    /\ HostOf[k] \in todo[s] => pending[k] = 0
    /\ k \in Listed /\ HostOf[k] \notin todo[s] => pending[k] = 1

TunnelsListed == \A k \in Key : tunnel[k] # None => k \in Listed

SteadyInv ==
  /\ DiscInv
  /\ OneScan /\ EveryHostCounts /\ KeysCounted
  /\ ListedOnce /\ TunnelsListed /\ PortsAgree

LEMMA SteadySteps == SteadyNext => DiscNext
BY DEF SteadyNext, DiscNext, Scanning

LEMMA SteadyInitially == DiscInit => SteadyInv
<1> SUFFICES ASSUME DiscInit PROVE SteadyInv
  OBVIOUS
<1>1. PICK s \in Scan : active = {s} /\ todo = [t \in Scan |-> IF t = s THEN Host ELSE {}]
  BY DEF DiscInit
<1>2. hostsDone = 0 /\ pending = [k \in Key |-> 0] /\ discovering = TRUE
      /\ entries = <<>> /\ tunnel = [k \in Key |-> None]
  BY DEF DiscInit
<1>3. Listed = {} /\ todo[s] = Host
  BY <1>1, <1>2 DEF Listed
<1>4. OneScan
  BY <1>1, <1>2 DEF OneScan
<1>5. EveryHostCounts
  BY <1>1, <1>2, <1>3, ScansCounted DEF EveryHostCounts
<1>6. KeysCounted
  BY <1>1, <1>2, <1>3, KeysOfHosts DEF KeysCounted
<1>7. ListedOnce /\ TunnelsListed /\ PortsAgree
  BY <1>2, <1>3 DEF ListedOnce, TunnelsListed, PortsAgree
<1> QED BY <1>4, <1>5, <1>6, <1>7, DiscInitially DEF SteadyInv

\* A finished scan lists all that was listed before, on the ports it had.
LEMMA MergedKeeps ==
  ASSUME SteadyInv, NEW s \in active, todo[s] = {}
  PROVE  /\ \A i, j \in DOMAIN Merged : Merged[i].key = Merged[j].key => i = j
         /\ Listed \subseteq KeysIn(Merged)
         /\ \A k \in Listed : PortIn(Merged, k) = PortOf(k)
<1> DEFINE ks == SortedKeys(pending)
<1>1. /\ Merged \in Seq(Entry) /\ DOMAIN Merged = DOMAIN ks
      /\ \A i \in DOMAIN Merged :
           /\ Merged[i].key = ks[i]
           /\ Merged[i].key \in Listed => Merged[i].port = PortOf(Merged[i].key)
  BY MergedIs DEF SteadyInv, DiscInv
<1>2. pending \in [Key -> 0 .. 1]
  <2>1. \A k \in Key : pending[k] \in Nat /\ pending[k] <= 1
    BY DEF SteadyInv, DiscInv, DiscTypeOK, KeysCounted
  <2> QED BY <2>1 DEF SteadyInv, DiscInv, DiscTypeOK
<1>3. IsInjective(ks) /\ \A k \in Key : k \in ToSet(ks) <=> pending[k] = 1
  BY <1>2, SortedOnce
<1>4. \A k \in Listed : k \in Key /\ pending[k] = 1
  <2>1. \A i \in DOMAIN entries : entries[i].key \in Key
    <3>1. entries \in Seq(Entry)
      BY DEF SteadyInv, DiscInv, DiscTypeOK, Entry
    <3>2. \A i \in DOMAIN entries : entries[i] \in Entry
      BY <3>1, LenProperties
    <3> QED BY <3>2 DEF Entry
  <2> QED BY <2>1 DEF SteadyInv, KeysCounted, Listed
<1> HIDE DEF ks
<1>5. \A i, j \in DOMAIN Merged : Merged[i].key = Merged[j].key => i = j
  BY <1>1, <1>3 DEF IsInjective
<1>6. ASSUME NEW k \in Listed PROVE k \in KeysIn(Merged)
  BY <1>1, <1>3, <1>4 DEF KeysIn, ToSet
<1>7. ASSUME NEW k \in Listed PROVE PortIn(Merged, k) = PortOf(k)
  <2>1. PICK i \in DOMAIN Merged : Merged[i].key = k /\ PortIn(Merged, k) = Merged[i].port
    BY <1>1, <1>6, PortIsListed
  <2> QED BY <1>1, <2>1
<1> QED BY <1>5, <1>6, <1>7

LEMMA SteadyStep == SteadyInv /\ [SteadyNext]_discVars => SteadyInv'
<1> SUFFICES ASSUME SteadyInv, [SteadyNext]_discVars PROVE SteadyInv'
  OBVIOUS
<1>1. DiscInv'
  BY SteadySteps, DiscStep DEF SteadyInv
<1>2. /\ active \subseteq Scan /\ todo \in [Scan -> SUBSET Host]
      /\ \A k \in Key : pending[k] \in Nat /\ HostOf[k] \in Host
      /\ tunnel \in [Key -> (0 .. PortMax) \cup {None}] /\ hostsDone \in Nat
  BY KeysOfHosts, ScansCounted DEF SteadyInv, DiscInv, DiscTypeOK
<1>3. ASSUME UNCHANGED <<entries, tunnel>>
      PROVE  ListedOnce' /\ TunnelsListed' /\ PortsAgree'
  BY <1>3 DEF SteadyInv, ListedOnce, TunnelsListed, PortsAgree, Listed, PortOf
<1>4. ASSUME UNCHANGED <<scanVars, entries>>
      PROVE  OneScan' /\ EveryHostCounts' /\ KeysCounted'
  BY <1>4 DEF SteadyInv, scanVars, OneScan, EveryHostCounts, KeysCounted, Listed
<1>5. ASSUME NEW s \in Scan, NEW h \in Host, HostReports(s, h),
             \A k \in Key : IF HostOf[k] = h
                           THEN pending'[k] \in 0 .. 1 /\ (k \in Listed => pending'[k] = 1)
                           ELSE pending'[k] = pending[k]
      PROVE  SteadyInv'
  <2>1. /\ s \in active /\ active' = active /\ discovering' = discovering
        /\ h \in todo[s] /\ todo'[s] = todo[s] \ {h} /\ hostsDone' = hostsDone + 1
        /\ Listed' = Listed
    BY <1>2, <1>5 DEF HostReports, Listed
  <2>2. \A t \in active : t = s
    BY <2>1 DEF SteadyInv, OneScan
  <2>3. OneScan'
    BY <2>1 DEF SteadyInv, OneScan
  <2>4. EveryHostCounts'
    <3>1. IsFiniteSet(todo[s]) /\ Cardinality(todo[s]) \in Nat
      BY <1>2, KeysOfHosts, FS_Subset, FS_CardinalityType
    <3>2. Cardinality(todo'[s]) = Cardinality(todo[s]) - 1
      BY <2>1, <3>1, FS_RemoveElement
    <3>3. hostsDone + Cardinality(todo[s]) = Cardinality(Host)
      BY <2>1 DEF SteadyInv, EveryHostCounts
    <3>4. hostsDone' + Cardinality(todo'[s]) = Cardinality(Host)
      BY <1>2, <2>1, <3>1, <3>2, <3>3
    <3> QED BY <2>1, <2>2, <3>4 DEF EveryHostCounts
  <2>5. KeysCounted'
    <3>1. ASSUME NEW k \in Key
          PROVE  /\ pending'[k] <= 1
                 /\ HostOf[k] \in todo'[s] => pending'[k] = 0
                 /\ k \in Listed' /\ HostOf[k] \notin todo'[s] => pending'[k] = 1
      <4>1. CASE HostOf[k] = h
        BY <1>5, <2>1, <4>1
      <4>2. CASE HostOf[k] # h
        BY <1>5, <2>1, <4>2 DEF SteadyInv, KeysCounted
      <4> QED BY <4>1, <4>2
    <3> QED BY <2>1, <2>2, <3>1 DEF KeysCounted
  <2>6. UNCHANGED <<entries, tunnel>>
    BY <1>5 DEF HostReports
  <2> QED BY <1>1, <1>3, <2>3, <2>4, <2>5, <2>6 DEF SteadyInv
<1>6. ASSUME NEW s \in Scan, NEW h \in Host, KeysOf(h) \cap Listed = {}, HostFails(s, h)
      PROVE  SteadyInv'
  <2>1. HostReports(s, h) /\ pending' = pending /\ s \in active /\ h \in todo[s]
    BY <1>6 DEF HostFails, HostReports
  <2>2. \A k \in Key : HostOf[k] = h => pending[k] = 0 /\ k \notin Listed
    BY <1>6, <2>1 DEF KeysOf, SteadyInv, KeysCounted
  <2> QED BY <1>5, <2>1, <2>2
<1>7. ASSUME NEW s \in Scan, NEW h \in Host, NEW K \in SUBSET KeysOf(h),
             KeysOf(h) \cap Listed \subseteq K, HostFinds(s, h, K)
      PROVE  SteadyInv'
  <2>1. /\ HostReports(s, h) /\ s \in active /\ h \in todo[s]
        /\ pending' = [k \in Key |-> IF k \in K THEN pending[k] + 1 ELSE pending[k]]
    BY <1>7 DEF HostFinds, HostReports
  <2>2. ASSUME NEW k \in Key
        PROVE  IF HostOf[k] = h
               THEN pending'[k] \in 0 .. 1 /\ (k \in Listed => pending'[k] = 1)
               ELSE pending'[k] = pending[k]
    <3>1. CASE HostOf[k] = h
      <4>1. pending[k] = 0
        BY <2>1, <3>1 DEF SteadyInv, KeysCounted
      <4>2. k \in Listed => k \in K
        BY <1>7, <3>1 DEF KeysOf
      <4> QED BY <2>1, <3>1, <4>1, <4>2
    <3>2. CASE HostOf[k] # h
      <4>1. k \notin K
        BY <1>7, <3>2 DEF KeysOf
      <4> QED BY <2>1, <3>2, <4>1
    <3> QED BY <3>1, <3>2
  <2> QED BY <1>5, <2>1, <2>2
<1>8. ASSUME NEW s \in Scan, Finished(s) PROVE SteadyInv'
  <2>1. /\ s \in active /\ todo[s] = {} /\ active' = active \ {s} /\ discovering' = FALSE
        /\ entries' = Merged /\ tunnel' = tunnel
    BY <1>8 DEF Finished, Finalize
  <2>2. active' = {}
    BY <2>1 DEF SteadyInv, OneScan
  <2>3. OneScan' /\ EveryHostCounts' /\ KeysCounted'
    BY <2>1, <2>2 DEF OneScan, EveryHostCounts, KeysCounted
  <2>4. /\ \A i, j \in DOMAIN Merged : Merged[i].key = Merged[j].key => i = j
        /\ Listed \subseteq KeysIn(Merged)
        /\ \A k \in Listed : PortIn(Merged, k) = PortOf(k)
    BY <2>1, MergedKeeps
  <2>5. Listed' = KeysIn(entries') /\ \A k \in Key : PortOf(k)' = PortIn(entries', k)
    BY DEF Listed, KeysIn, PortOf, PortIn
  <2>6. ListedOnce'
    BY <2>1, <2>4 DEF ListedOnce
  <2>7. TunnelsListed'
    BY <2>1, <2>4, <2>5 DEF SteadyInv, TunnelsListed
  <2>8. PortsAgree'
    <3>1. ASSUME NEW k \in Listed', tunnel'[k] # None PROVE PortOf(k)' = tunnel'[k]
      <4>1. k \in Key
        <5>1. entries' \in Seq(Entry)
          BY <1>1 DEF DiscInv, DiscTypeOK, Entry
        <5>2. \A i \in DOMAIN entries' : entries'[i] \in Entry
          BY <5>1, LenProperties
        <5> QED BY <5>2 DEF Listed, Entry
      <4>2. k \in Listed /\ PortOf(k) = tunnel[k]
        BY <2>1, <3>1, <4>1 DEF SteadyInv, TunnelsListed, PortsAgree
      <4> QED BY <2>1, <2>4, <2>5, <4>1, <4>2
    <3> QED BY <3>1 DEF PortsAgree
  <2> QED BY <1>1, <2>3, <2>6, <2>7, <2>8 DEF SteadyInv
<1>9. ASSUME NEW s \in Scan, ~ discovering, Refresh(s) PROVE SteadyInv'
  <2>1. /\ active' = {s} /\ discovering' = TRUE /\ hostsDone' = 0
        /\ todo'[s] = Host /\ \A k \in Key : pending'[k] = 0
    BY <1>2, <1>9 DEF Refresh, SteadyInv, OneScan
  <2>2. OneScan' /\ KeysCounted'
    BY <1>2, <2>1 DEF OneScan, KeysCounted
  <2>3. EveryHostCounts'
    BY <2>1, ScansCounted DEF EveryHostCounts
  <2>4. UNCHANGED <<entries, tunnel>>
    BY <1>9 DEF Refresh
  <2> QED BY <1>1, <1>3, <2>2, <2>3, <2>4 DEF SteadyInv
<1>10. ASSUME NEW k \in Key, Connect(k) \/ Disconnect(k) PROVE SteadyInv'
  <2>1. /\ UNCHANGED <<scanVars, entries>> /\ k \in Listed
        /\ \/ tunnel' = [tunnel EXCEPT ![k] = PortOf(k)]
           \/ tunnel' = [tunnel EXCEPT ![k] = None]
    BY <1>10 DEF Connect, Disconnect
  <2>2. Listed' = Listed /\ \A j \in Key : PortOf(j)' = PortOf(j)
    BY <2>1 DEF Listed, PortOf
  <2>3. \A j \in Key : tunnel'[j] # None =>
          j \in Listed /\ (tunnel'[j] = tunnel[j] \/ tunnel'[j] = PortOf(j))
    BY <1>2, <2>1 DEF SteadyInv, TunnelsListed
  <2>4. \A j \in Listed : j \in Key
    <3>1. entries \in Seq(Entry)
      BY DEF SteadyInv, DiscInv, DiscTypeOK, Entry
    <3>2. \A i \in DOMAIN entries : entries[i] \in Entry
      BY <3>1, LenProperties
    <3> QED BY <3>2 DEF Listed, Entry
  <2>5. ListedOnce' /\ TunnelsListed' /\ PortsAgree'
    BY <2>1, <2>2, <2>3, <2>4 DEF SteadyInv, ListedOnce, TunnelsListed, PortsAgree
  <2> QED BY <1>1, <1>4, <2>1, <2>5 DEF SteadyInv
<1>11. CASE UNCHANGED discVars
  BY <1>1, <1>3, <1>4, <1>11 DEF discVars, scanVars, SteadyInv
<1> QED BY <1>6, <1>7, <1>8, <1>9, <1>10, <1>11 DEF SteadyNext, Tunnelling

LEMMA SteadyAlways == SteadySpec => []SteadyInv
BY SteadyInitially, SteadyStep, PTL DEF SteadySpec

\* ListedOnce: no scan lists a database twice.
THEOREM DiscoveryOnce == SteadySpec => []ListedOnce
BY SteadyAlways, PTL DEF SteadyInv

\* PortsAgree: a refresh while databases are connected leaves each with the
\* port its tunnel listens on, whatever ports AssignPorts gives anew.
THEOREM PortsKept == SteadySpec => []PortsAgree
BY SteadyAlways, PTL DEF SteadyInv

\* FinalizesWhole: when the done message of a scan is handled, every host has
\* been counted since the scan began.
THEOREM ScansWhole == SteadySpec => FinalizesWhole
<1> DEFINE Whole == \A s \in Scan : Finished(s) => hostsDone = Cardinality(Host)
<1>1. ASSUME SteadyInv PROVE Whole
  <2>1. ASSUME NEW s \in Scan, Finished(s) PROVE hostsDone = Cardinality(Host)
    <3>1. s \in active /\ todo[s] = {}
      BY <2>1 DEF Finished
    <3>2. hostsDone + Cardinality({}) = Cardinality(Host)
      BY <1>1, <3>1 DEF SteadyInv, EveryHostCounts
    <3>3. Cardinality({}) = 0 /\ hostsDone \in Nat
      BY <1>1, FS_EmptySet, ScansCounted DEF SteadyInv, DiscInv, DiscTypeOK
    <3> QED BY <3>2, <3>3
  <2> QED BY <2>1
<1>2. SteadySpec => [][Whole]_discVars
  BY <1>1, SteadyAlways, PTL DEF SteadySpec
<1> QED BY <1>2 DEF FinalizesWhole
==============================================================================
