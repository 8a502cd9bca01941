---------------------------- MODULE GossipProofs ----------------------------
(***************************************************************************)
(* Proofs about Gossip, for any number of Nodes in any world: what is held *)
(* or on its way never is ahead of its owner (NobodyAhead), neighbors stay *)
(* reachable (NeighborsReachable), honest gossip is never malformed        *)
(* (NobodyAccused) and no record is replaced by an older one               *)
(* (VersionsNeverFall).                                                    *)
(*                                                                         *)
(* The argument: a step of Node n replaces n's database by some d and its  *)
(* IP index by some ips, and sends messages made from d.  SoundDatabase    *)
(* says which d and ips are harmless, SoundMessage which messages are.     *)
(* Every handler yields sound ones (one lemma per handler), and what is    *)
(* sound keeps the invariant (one lemma for all of them, StepIsSound).     *)
(***************************************************************************)
EXTENDS Gossip, FiniteSetTheorems, TLAPS

Databases == [Nodes -> Record \cup {Absent}]

\* What every Node's database looks like between handlers.
SoundBase ==
  \A n \in Nodes :
    /\ base[n][n] # Absent /\ base[n][n].addr
    /\ \A k \in Nodes :
         base[n][k] # Absent => base[n][k].version <= base[k][k].version
    /\ \A k \in base[n][n].neighbors :
         k # n /\ base[n][k] # Absent /\ base[n][k].addr
    /\ \A k \in ipIndex[n] : base[n][k] # Absent /\ base[n][k].addr

\* The form of gossip that n sends to k: finite, one record to a Node, none
\* about k, and either n's own record with its address is among them or
\* there is a single one, with its address.
WellFormed(n, k, g) ==
  /\ g \subseteq AGR /\ IsFiniteSet(g)
  /\ \A a, b \in g : a.key = b.key => a = b
  /\ \A a \in g : a.key # k
  /\ \/ \E a \in g : a.key = n /\ a.addr
     \/ \E a \in g : g = {a} /\ a.addr

\* What is on its way; and nobody sends anything to itself.
SoundNet ==
  \A n, k \in Nodes : \A g \in Range(net[n][k]) :
    /\ n # k
    /\ WellFormed(n, k, g)
    /\ \A a \in g : a.version <= base[a.key][a.key].version

SoundStreams ==
  /\ \A n \in Nodes : n \notin opened[n]
  /\ \A n \in Nodes : <<n, n>> \notin closing

\* The types, in the form in which steps preserve them.
GossipTypes ==
  /\ world \in Worlds
  /\ base \in [Nodes -> Databases]
  /\ ipIndex \in [Nodes -> SUBSET Nodes]
  /\ targets \in [Nodes -> SUBSET Nodes]
  /\ net \in [Nodes -> [Nodes -> Seq(SUBSET AGR)]]
  /\ opened \in [Nodes -> SUBSET Nodes]
  /\ closing \subseteq Nodes \X Nodes
  /\ started \subseteq Nodes
  /\ setbacks \in 0 .. MaxSetbacks

GossipInv == GossipTypes /\ SoundBase /\ SoundNet /\ SoundStreams

-----------------------------------------------------------------------------
(* Handling a message leaves n with database d and index ips.              *)

SoundDatabase(n, d, ips) ==
  /\ d \in Databases /\ ips \subseteq Nodes
  /\ d[n] # Absent /\ d[n].addr /\ d[n].version >= base[n][n].version
  /\ \A k \in Nodes \ {n} :
       d[k] # Absent => d[k].version <= base[k][k].version
  /\ \A k \in Nodes :
       d[k] # Absent /\ base[n][k] # Absent => d[k].version >= base[n][k].version
  /\ \A k \in d[n].neighbors : k # n /\ d[k] # Absent /\ d[k].addr
  /\ \A k \in ips : d[k] # Absent /\ d[k].addr

\* What n may send to k, its database being d.
SoundMessage(n, d, k, g) ==
  /\ WellFormed(n, k, g)
  /\ \A a \in g : d[a.key] # Absent /\ a.version <= d[a.key].version

-----------------------------------------------------------------------------
LEMMA NodesFinite == Nodes \subseteq Nat /\ IsFiniteSet(Nodes)
BY FS_Interval, GossipAssumption DEF Nodes

LEMMA RecordsTyped ==
  ASSUME NEW d \in Databases, NEW k \in Nodes, d[k] # Absent
  PROVE  /\ d[k] \in Record /\ d[k].version \in Nat
         /\ d[k].neighbors \subseteq Nodes /\ d[k].addr \in BOOLEAN
BY DEF Databases, Record

\* Sequences: what is left after taking the first message, and what there is
\* after sending one.
LEMMA TailHoldsLess ==
  ASSUME NEW S, NEW s \in Seq(S), s # <<>>
  PROVE  /\ Tail(s) \in Seq(S) /\ Head(s) \in Range(s)
         /\ \A x \in Range(Tail(s)) : x \in Range(s)
<1>1. Tail(s) \in Seq(S) /\ Len(Tail(s)) = Len(s) - 1 /\ Len(s) >= 1
  OBVIOUS
<1>2. \A i \in 1 .. Len(Tail(s)) : Tail(s)[i] = s[i + 1]
  OBVIOUS
<1>3. Head(s) = s[1]
  OBVIOUS
<1>4. DOMAIN s = 1 .. Len(s) /\ DOMAIN Tail(s) = 1 .. Len(Tail(s))
  BY <1>1
<1> QED BY <1>1, <1>2, <1>3, <1>4 DEF Range

LEMMA AppendHoldsOneMore ==
  ASSUME NEW S, NEW s \in Seq(S), NEW e \in S
  PROVE  /\ Append(s, e) \in Seq(S)
         /\ \A x \in Range(Append(s, e)) : x \in Range(s) \/ x = e
<1>1. Append(s, e) \in Seq(S) /\ Len(Append(s, e)) = Len(s) + 1
  OBVIOUS
<1>2. \A i \in 1 .. Len(s) + 1 :
        Append(s, e)[i] = IF i = Len(s) + 1 THEN e ELSE s[i]
  OBVIOUS
<1>3. DOMAIN s = 1 .. Len(s) /\ DOMAIN Append(s, e) = 1 .. Len(s) + 1
  BY <1>1
<1>4. Len(s) \in Nat
  OBVIOUS
<1> QED BY <1>1, <1>2, <1>3, <1>4 DEF Range

-----------------------------------------------------------------------------
(* What is sound keeps the invariant.                                      *)

\* The network w carries nothing that net does not.
NothingNew(w) ==
  /\ w \in [Nodes -> [Nodes -> Seq(SUBSET AGR)]]
  /\ \A n, k \in Nodes : \A g \in Range(w[n][k]) : g \in Range(net[n][k])

VersionsKept ==
  \A n, k \in Nodes :
    base[n][k] # Absent /\ base'[n][k] # Absent
      => base'[n][k].version >= base[n][k].version

\* What the handlers that change databases or send gossip do to both.
Kept ==
  /\ base' \in [Nodes -> Databases] /\ ipIndex' \in [Nodes -> SUBSET Nodes]
  /\ net' \in [Nodes -> [Nodes -> Seq(SUBSET AGR)]]
  /\ opened' \in [Nodes -> SUBSET Nodes]
  /\ SoundBase' /\ SoundNet' /\ (\A m \in Nodes : m \notin opened'[m])
  /\ VersionsKept

LEMMA DatabaseReplaced ==
  ASSUME GossipInv, NEW n \in Nodes, NEW d, NEW ips, SoundDatabase(n, d, ips),
         base' = [base EXCEPT ![n] = d], ipIndex' = [ipIndex EXCEPT ![n] = ips]
  PROVE  /\ base' \in [Nodes -> Databases] /\ ipIndex' \in [Nodes -> SUBSET Nodes]
         /\ SoundBase' /\ VersionsKept
         /\ \A k \in Nodes : base'[k][k] # Absent
                             /\ base'[k][k].version >= base[k][k].version
<1> USE DEF GossipInv, SoundDatabase
<1>1. base' \in [Nodes -> Databases] /\ ipIndex' \in [Nodes -> SUBSET Nodes]
  BY DEF GossipTypes
<1>2. base'[n] = d /\ \A m \in Nodes \ {n} : base'[m] = base[m]
  BY DEF GossipTypes
<1>3. ipIndex'[n] = ips /\ \A m \in Nodes \ {n} : ipIndex'[m] = ipIndex[m]
  BY DEF GossipTypes
<1>4. \A k \in Nodes : base'[k][k] # Absent
                       /\ base[k][k].version \in Nat /\ base'[k][k].version \in Nat
                       /\ base'[k][k].version >= base[k][k].version
  <2> TAKE k \in Nodes
  <2>1. base[k] \in Databases /\ base'[k] \in Databases
    BY <1>1 DEF GossipTypes
  <2>2. base[k][k] # Absent /\ base'[k][k] # Absent
    BY <1>2 DEF SoundBase
  <2>3. base[k][k].version \in Nat /\ base'[k][k].version \in Nat
    BY <2>1, <2>2, RecordsTyped
  <2> QED BY <1>2, <2>2, <2>3
<1>5. SoundBase'
  <2> SUFFICES ASSUME NEW m \in Nodes
               PROVE  /\ base'[m][m] # Absent /\ base'[m][m].addr
                      /\ \A k \in Nodes :
                           base'[m][k] # Absent => base'[m][k].version <= base'[k][k].version
                      /\ \A k \in base'[m][m].neighbors :
                           k # m /\ base'[m][k] # Absent /\ base'[m][k].addr
                      /\ \A k \in ipIndex'[m] : base'[m][k] # Absent /\ base'[m][k].addr
    BY DEF SoundBase
  <2>1. CASE m = n
    <3>1. \A k \in Nodes : base'[n][k] # Absent => base'[n][k].version <= base'[k][k].version
      <4> SUFFICES ASSUME NEW k \in Nodes, d[k] # Absent
                   PROVE  d[k].version <= base'[k][k].version
        BY <1>2
      <4>1. d[k].version \in Nat
        BY RecordsTyped
      <4>2. CASE k = n
        BY <4>1, <4>2, <1>2
      <4>3. CASE k # n
        BY <4>1, <4>3, <1>2
      <4> QED BY <4>2, <4>3
    <3> QED BY <2>1, <3>1, <1>2, <1>3
  <2>2. CASE m # n
    <3>1. base'[m] = base[m] /\ ipIndex'[m] = ipIndex[m] /\ base[m] \in Databases
      BY <2>2, <1>2, <1>3 DEF GossipTypes
    <3>2. \A k \in Nodes : base[m][k] # Absent => base[m][k].version <= base'[k][k].version
      <4> SUFFICES ASSUME NEW k \in Nodes, base[m][k] # Absent
                   PROVE  base[m][k].version <= base'[k][k].version
        OBVIOUS
      <4>1. base[m][k].version \in Nat
        BY <3>1, RecordsTyped
      <4>2. base[m][k].version <= base[k][k].version
        BY DEF SoundBase
      <4> QED BY <4>1, <4>2, <1>4
    <3> QED BY <3>1, <3>2 DEF SoundBase
  <2> QED BY <2>1, <2>2
<1>6. VersionsKept
  <2> SUFFICES ASSUME NEW m \in Nodes, NEW k \in Nodes,
                      base[m][k] # Absent, base'[m][k] # Absent
               PROVE  base'[m][k].version >= base[m][k].version
    BY DEF VersionsKept
  <2>1. base[m][k].version \in Nat
    BY RecordsTyped DEF GossipTypes
  <2> QED BY <2>1, <1>2
<1> QED BY <1>1, <1>4, <1>5, <1>6

LEMMA StepIsSound ==
  ASSUME GossipInv, NEW n \in Nodes, NEW d, NEW ips, SoundDatabase(n, d, ips),
         NEW w, NothingNew(w), NEW ks \in SUBSET (Nodes \ {n}), NEW msgs,
         \A k \in ks : SoundMessage(n, d, k, msgs[k]),
         base' = [base EXCEPT ![n] = d], ipIndex' = [ipIndex EXCEPT ![n] = ips],
         SendAll(w, n, ks, msgs)
  PROVE  Kept
<1>1. /\ base' \in [Nodes -> Databases] /\ ipIndex' \in [Nodes -> SUBSET Nodes]
      /\ SoundBase' /\ VersionsKept
      /\ \A k \in Nodes : base'[k][k] # Absent
                          /\ base'[k][k].version >= base[k][k].version
  BY Zenon, DatabaseReplaced
<1>2. /\ opened' \in [Nodes -> SUBSET Nodes]
      /\ \A m \in Nodes : m \notin opened'[m]
  BY DEF SendAll, GossipInv, GossipTypes, SoundStreams
<1>3. /\ \A m, k \in Nodes : ~(m = n /\ k \in ks) => net'[m][k] = w[m][k]
      /\ \A k \in ks : net'[n][k] = Append(w[n][k], msgs[k])
      /\ net' = [m \in Nodes |-> [k \in Nodes |->
                   IF m = n /\ k \in ks THEN Append(w[m][k], msgs[k]) ELSE w[m][k]]]
  BY Zenon DEF SendAll, NothingNew
<1>4. \A k \in ks : msgs[k] \in SUBSET AGR
  BY DEF SoundMessage, WellFormed
<1>5. \A m, k \in Nodes : w[m][k] \in Seq(SUBSET AGR)
  BY SMTT(30) DEF NothingNew
<1>6. \A k \in ks : /\ net'[n][k] \in Seq(SUBSET AGR)
                    /\ \A g \in Range(net'[n][k]) : g \in Range(w[n][k]) \/ g = msgs[k]
  BY <1>3, <1>4, <1>5, AppendHoldsOneMore
<1>7. net' \in [Nodes -> [Nodes -> Seq(SUBSET AGR)]]
  <2>1. \A m, k \in Nodes :
          (IF m = n /\ k \in ks THEN Append(w[m][k], msgs[k]) ELSE w[m][k])
            \in Seq(SUBSET AGR)
    BY Zenon, <1>3, <1>5, <1>6
  <2> QED BY <2>1, <1>3
<1>8. SoundNet'
  <2> SUFFICES ASSUME NEW m \in Nodes, NEW k \in Nodes, NEW g \in Range(net'[m][k])
               PROVE  /\ m # k
                      /\ WellFormed(m, k, g)
                      /\ \A a \in g : a.version <= base'[a.key][a.key].version
    BY DEF SoundNet, WellFormed
  <2>1. CASE g \in Range(w[m][k])
    <3>1. g \in Range(net[m][k])
      BY Zenon, <2>1 DEF NothingNew
    <3>2. m # k /\ WellFormed(m, k, g)
          /\ \A a \in g : a.version <= base[a.key][a.key].version
      BY Zenon, <3>1 DEF GossipInv, SoundNet
    <3>3. ASSUME NEW a \in g PROVE a.version <= base'[a.key][a.key].version
      <4>1. a.key \in Nodes /\ a.version \in Nat
        BY <3>2 DEF WellFormed, AGR
      <4>2. base[a.key] \in Databases /\ base'[a.key] \in Databases
            /\ base[a.key][a.key] # Absent /\ base'[a.key][a.key] # Absent
        BY Zenon, <4>1, <1>1 DEF GossipInv, GossipTypes, SoundBase
      <4>3. base[a.key][a.key].version \in Nat /\ base'[a.key][a.key].version \in Nat
        BY <4>1, <4>2, RecordsTyped
      <4> QED BY <4>1, <4>3, <3>2, <1>1
    <3> QED BY <3>2, <3>3
  <2>2. CASE g \notin Range(w[m][k])
    <3>1. m = n /\ k \in ks /\ g = msgs[k]
      BY Zenon, <2>2, <1>3, <1>6
    <3>2. m # k /\ WellFormed(m, k, g)
          /\ \A a \in g : d[a.key] # Absent /\ a.version <= d[a.key].version
      BY <3>1 DEF SoundMessage
    <3>3. ASSUME NEW a \in g PROVE a.version <= base'[a.key][a.key].version
      <4>1. a.key \in Nodes /\ a.version \in Nat
        BY <3>2 DEF WellFormed, AGR
      <4>2. base'[n][a.key] = d[a.key]
        BY DEF GossipInv, GossipTypes
      <4>3. d[a.key].version <= base'[a.key][a.key].version
        BY <4>1, <4>2, <3>2, <1>1 DEF SoundBase
      <4>4. d[a.key].version \in Nat /\ base'[a.key][a.key].version \in Nat
        BY <4>1, <1>1, <3>2, RecordsTyped DEF SoundDatabase
      <4> QED BY <4>1, <4>3, <4>4, <3>2
    <3> QED BY <3>2, <3>3
  <2> QED BY <2>1, <2>2
<1> QED BY ZenonT(30), <1>1, <1>2, <1>7, <1>8 DEF Kept

-----------------------------------------------------------------------------
(* What is sent is sound.                                                  *)

LEMMA DescribeTyped ==
  ASSUME NEW d \in Databases, NEW j \in Nodes, d[j] # Absent, NEW reveal \in BOOLEAN
  PROVE  /\ Describe(d, j, reveal) \in AGR
         /\ Describe(d, j, reveal).key = j
         /\ Describe(d, j, reveal).version = d[j].version
         /\ Describe(d, j, reveal).addr = (reveal /\ d[j].addr)
<1>1. /\ d[j].version \in Nat /\ d[j].neighbors \subseteq Nodes /\ d[j].addr \in BOOLEAN
  BY RecordsTyped
<1> QED BY <1>1 DEF Describe, AGR

LEMMA OneRecordSound ==
  ASSUME NEW d \in Databases, NEW n, NEW k \in Nodes, NEW a \in AGR,
         a.key # k, a.addr, d[a.key] # Absent, a.version <= d[a.key].version
  PROVE  SoundMessage(n, d, k, {a})
BY Zenon, FS_Singleton DEF SoundMessage, WellFormed

LEMMA DebutSound ==
  ASSUME NEW d \in Databases, NEW n \in Nodes, NEW k \in Nodes, NEW j \in Nodes,
         j # k, d[j] # Absent, d[j].addr
  PROVE  SoundMessage(n, d, k, {Describe(d, j, TRUE)})
<1> DEFINE a == Describe(d, j, TRUE)
<1>1. a \in AGR /\ a.key = j /\ a.version = d[j].version /\ a.addr
  BY Zenon, DescribeTyped
<1>2. d[j].version \in Nat
  BY RecordsTyped
<1> HIDE DEF a
<1>3. SoundMessage(n, d, k, {a})
  BY <1>1, <1>2, OneRecordSound
<1> QED BY <1>3 DEF a

LEMMA IntroductionSound ==
  ASSUME NEW d \in Databases, NEW n \in Nodes, NEW k \in Nodes, NEW j \in Nodes,
         n # k, j # k, n # j, d[n] # Absent, d[n].addr, d[j] # Absent
  PROVE  SoundMessage(n, d, k, {Describe(d, n, TRUE), Describe(d, j, TRUE)})
<1> DEFINE a == Describe(d, n, TRUE)
           b == Describe(d, j, TRUE)
<1>1. a \in AGR /\ a.key = n /\ a.version = d[n].version /\ a.addr
  BY Zenon, DescribeTyped
<1>2. b \in AGR /\ b.key = j /\ b.version = d[j].version
  BY Zenon, DescribeTyped
<1>3. d[n].version \in Nat /\ d[j].version \in Nat
  BY RecordsTyped
<1>4. IsFiniteSet({a, b})
  <2> HIDE DEF a, b
  <2>1. IsFiniteSet({a} \cup {b})
    BY Zenon, FS_Singleton, FS_AddElement
  <2>2. {a, b} = {a} \cup {b}
    OBVIOUS
  <2> QED BY <2>1, <2>2
<1> HIDE DEF a, b
<1>5. SoundMessage(n, d, k, {a, b})
  BY <1>1, <1>2, <1>3, <1>4 DEF SoundMessage, WellFormed
<1> QED BY <1>5 DEF a, b

LEMMA ProducedSound ==
  ASSUME NEW d \in Databases, NEW n \in Nodes, NEW k \in Nodes, n # k,
         d[n] # Absent, d[n].addr, d[k] # Absent
  PROVE  SoundMessage(n, d, k, Produce(d, n, k))
<1> DEFINE ks == (Keys(d) \cap ReferencedNodeKeys(d, n)) \ {k}
           Shown(j) == Describe(d, j, j = n \/ j \in d[k].neighbors)
           g == {Shown(j) : j \in ks}
<1>1. g = Produce(d, n, k)
  BY DEF Produce
<1>2. ks \subseteq Nodes /\ n \in ks /\ \A j \in ks : j # k /\ d[j] # Absent
  BY DEF Keys, ReferencedNodeKeys
<1>3. \A j \in ks : /\ Shown(j) \in AGR /\ Shown(j).key = j
                    /\ Shown(j).version = d[j].version
                    /\ Shown(j).version \in Nat
  <2> TAKE j \in ks
  <2> DEFINE reveal == j = n \/ j \in d[k].neighbors
  <2>1. reveal \in BOOLEAN /\ Shown(j) = Describe(d, j, reveal)
    OBVIOUS
  <2> HIDE DEF reveal, Shown
  <2>2. d[j].version \in Nat
    BY <1>2, RecordsTyped
  <2> QED BY <2>1, <2>2, <1>2, DescribeTyped
<1>4. Shown(n).addr
  <2>1. Shown(n) = Describe(d, n, TRUE)
    BY Zenon
  <2> QED BY Zenon, <2>1, DescribeTyped
<1>5. IsFiniteSet(g)
  <2> DEFINE show == [j \in ks |-> Shown(j)]
  <2>1. show \in Surjection(ks, g)
    <3> HIDE DEF Shown, ks
    <3> QED BY DEF Surjection
  <2>2. IsFiniteSet(ks)
    BY <1>2, NodesFinite, FS_Subset
  <2> HIDE DEF show, g, ks
  <2> QED BY <2>1, <2>2, FS_Surjection
<1> HIDE DEF Shown, ks
<1>6. \A a \in g : /\ a \in AGR /\ a = Shown(a.key) /\ a.key \in ks
                   /\ a.version = d[a.key].version /\ a.version \in Nat
  BY <1>3
<1>7. Shown(n) \in g /\ Shown(n).key = n
  BY <1>2, <1>3
<1> HIDE DEF g
<1>8. WellFormed(n, k, g)
  BY <1>2, <1>4, <1>5, <1>6, <1>7 DEF WellFormed
<1> QED BY <1>1, <1>2, <1>6, <1>8 DEF SoundMessage

\* Dead Nodes are nobody's neighbors, so that culling them harms nobody.
LEMMA CulledSound ==
  ASSUME NEW n \in Nodes, NEW d, NEW ips, SoundDatabase(n, d, ips),
         NEW culled \in SUBSET DeadNodes(d, n)
  PROVE  SoundDatabase(n, [k \in Nodes |-> IF k \in culled THEN Absent ELSE d[k]],
                       ips \ culled)
<1> DEFINE e == [k \in Nodes |-> IF k \in culled THEN Absent ELSE d[k]]
<1>1. n \notin culled /\ \A k \in d[n].neighbors : k \notin culled
  BY DEF DeadNodes, ReferencedNodeKeys, Keys, SoundDatabase
<1>2. e \in Databases
  BY DEF Databases, SoundDatabase
<1>3. e[n] = d[n] /\ \A k \in Nodes : e[k] # Absent => e[k] = d[k]
  BY <1>1
<1>4. \A k \in d[n].neighbors : k \in Nodes
  BY RecordsTyped DEF SoundDatabase
<1>5. /\ \A k \in d[n].neighbors : e[k] = d[k]
      /\ \A k \in ips \ culled : k \in Nodes /\ e[k] = d[k]
  BY <1>1, <1>4 DEF SoundDatabase
<1> HIDE DEF e
<1>6. SoundDatabase(n, e, ips \ culled)
  BY <1>2, <1>3, <1>4, <1>5 DEF SoundDatabase
<1> QED BY <1>6 DEF e

-----------------------------------------------------------------------------
(* The three ways in which a handler ends.                                 *)

LEMMA SameDatabaseSound ==
  ASSUME GossipInv, NEW n \in Nodes
  PROVE  SoundDatabase(n, base[n], ipIndex[n])
<1>1. base[n] \in Databases /\ ipIndex[n] \subseteq Nodes
  BY DEF GossipInv, GossipTypes
<1>2. \A k \in Nodes : base[n][k] # Absent => base[n][k].version \in Nat
  BY <1>1, RecordsTyped
<1> QED BY <1>1, <1>2 DEF GossipInv, SoundBase, SoundDatabase

LEMMA TakenIsNothingNew ==
  ASSUME GossipInv, NEW n \in Nodes, NEW f \in Nodes, net[f][n] # <<>>
  PROVE  NothingNew(Taken(n, f)) /\ Head(net[f][n]) \in Range(net[f][n])
<1> DEFINE w == Taken(n, f)
<1>1. net \in [Nodes -> [Nodes -> Seq(SUBSET AGR)]] /\ net[f][n] \in Seq(SUBSET AGR)
  BY ZenonT(30) DEF GossipInv, GossipTypes
<1>2. /\ Tail(net[f][n]) \in Seq(SUBSET AGR) /\ Head(net[f][n]) \in Range(net[f][n])
      /\ \A g \in Range(Tail(net[f][n])) : g \in Range(net[f][n])
  BY <1>1, TailHoldsLess
<1>3. /\ w \in [Nodes -> [Nodes -> Seq(SUBSET AGR)]]
      /\ w[f][n] = Tail(net[f][n])
      /\ \A m, k \in Nodes : ~(m = f /\ k = n) => w[m][k] = net[m][k]
  BY ZenonT(30), <1>1, <1>2 DEF Taken
<1> HIDE DEF w
<1>4. NothingNew(w)
  BY Zenon, <1>2, <1>3 DEF NothingNew
<1> QED BY <1>2, <1>4 DEF w

LEMMA NetIsNothingNew ==
  ASSUME GossipInv
  PROVE  NothingNew(net)
BY DEF GossipInv, GossipTypes, NothingNew

LEMMA IgnoreSound ==
  ASSUME GossipInv, NEW w, NothingNew(w), Ignore(w)
  PROVE  Kept
<1>1. net' = w /\ base' = base /\ ipIndex' = ipIndex /\ opened' = opened
  BY DEF Ignore
<1>2. SoundBase'
  BY <1>1 DEF GossipInv, SoundBase
<1>3. SoundNet'
  BY Zenon, <1>1 DEF GossipInv, SoundNet, NothingNew
<1>4. VersionsKept
  <2>1. \A n, k \in Nodes : base[n][k] # Absent => base[n][k].version \in Nat
    BY RecordsTyped DEF GossipInv, GossipTypes
  <2> QED BY <1>1, <2>1 DEF VersionsKept
<1> QED BY <1>1, <1>2, <1>3, <1>4 DEF Kept, GossipInv, GossipTypes, NothingNew, SoundStreams

LEMMA ReplySound ==
  ASSUME GossipInv, NEW n \in Nodes, NEW d, NEW ips, SoundDatabase(n, d, ips),
         NEW w, NothingNew(w), NEW k \in Nodes \ {n}, NEW g,
         SoundMessage(n, d, k, g), Reply(w, n, d, ips, k, g)
  PROVE  Kept
<1> DEFINE ks == {k}
           msgs == [j \in ks |-> g]
<1>1. \A j \in ks : SoundMessage(n, d, j, msgs[j])
  OBVIOUS
<1>2. /\ base' = [base EXCEPT ![n] = d] /\ ipIndex' = [ipIndex EXCEPT ![n] = ips]
      /\ SendAll(w, n, ks, msgs)
  BY DEF Reply
<1>3. ks \in SUBSET (Nodes \ {n})
  OBVIOUS
<1> HIDE DEF ks, msgs
<1> QED BY Zenon, <1>1, <1>2, <1>3, StepIsSound

LEMMA GossipToNeighborsSound ==
  ASSUME GossipInv, NEW n \in Nodes, NEW d, NEW ips, SoundDatabase(n, d, ips),
         NEW w, NothingNew(w), NEW changed \in BOOLEAN,
         SendGossipToNeighbors(w, n, d, ips, changed)
  PROVE  Kept
<1> DEFINE After(culled) == [k \in Nodes |-> IF k \in culled THEN Absent ELSE d[k]]
           Told(e) == {k \in e[n].neighbors : changed /\ e[k] # Absent /\ e[k].addr}
<1>1. PICK culled \in SUBSET (IF changed THEN DeadNodes(d, n) ELSE {}) :
        /\ base' = [base EXCEPT ![n] = After(culled)]
        /\ ipIndex' = [ipIndex EXCEPT ![n] = ips \ culled]
        /\ SendAll(w, n, Told(After(culled)),
                   [k \in Told(After(culled)) |-> Produce(After(culled), n, k)])
  BY Zenon DEF SendGossipToNeighbors
<1> DEFINE e == After(culled)
           ks == Told(e)
           msgs == [k \in ks |-> Produce(e, n, k)]
<1>2. SoundDatabase(n, e, ips \ culled)
  BY CulledSound
<1> HIDE DEF e
<1>3. /\ e \in Databases /\ e[n] # Absent /\ e[n].addr
      /\ \A k \in e[n].neighbors : k \in Nodes \ {n} /\ e[k] # Absent
  BY <1>2, RecordsTyped DEF SoundDatabase
<1>4. ks \in SUBSET (Nodes \ {n})
  BY <1>3
<1>5. \A k \in ks : SoundMessage(n, e, k, msgs[k])
  BY SMTT(30), <1>3, ProducedSound
<1>6. /\ base' = [base EXCEPT ![n] = e]
      /\ ipIndex' = [ipIndex EXCEPT ![n] = ips \ culled]
      /\ SendAll(w, n, ks, msgs)
  BY <1>1 DEF e
<1> HIDE DEF ks, msgs
<1> QED BY Zenon, <1>2, <1>4, <1>5, <1>6, StepIsSound

-----------------------------------------------------------------------------
(* The handlers.                                                           *)

LEMMA HalfNeighborSound ==
  ASSUME GossipInv, NEW n \in Nodes, NEW d, NEW ips, SoundDatabase(n, d, ips),
         NEW k \in Nodes \ {n}, d[k] # Absent, d[k].addr
  PROVE  SoundDatabase(n, AddHalfNeighbor(d, n, k), ips)
<1> DEFINE e == AddHalfNeighbor(d, n, k)
<1>1. d \in Databases /\ d[n] \in Record /\ d[n].version \in Nat
  BY RecordsTyped DEF SoundDatabase
<1>2. /\ e \in Databases /\ \A j \in Nodes \ {n} : e[j] = d[j]
      /\ e[n] # Absent /\ e[n].addr = d[n].addr
      /\ e[n].version = d[n].version + 1
      /\ e[n].neighbors = d[n].neighbors \cup {k}
  <2> DEFINE r == [d[n] EXCEPT !.neighbors = d[n].neighbors \cup {k}]
             s == [r EXCEPT !.version = d[n].version + 1]
  <2>1. r.version = d[n].version
    BY <1>1 DEF Record
  <2>2. e = [[d EXCEPT ![n] = r] EXCEPT ![n] = s]
    BY <1>1, <2>1 DEF AddHalfNeighbor, Databases
  <2>3. /\ s \in Record /\ s # Absent /\ s.version = d[n].version + 1
        /\ s.neighbors = d[n].neighbors \cup {k} /\ s.addr = d[n].addr
    <3>1. r \in Record /\ r.neighbors = d[n].neighbors \cup {k} /\ r.addr = d[n].addr
      BY <1>1 DEF Record
    <3> HIDE DEF r
    <3>2. /\ s \in Record /\ s.version = d[n].version + 1
          /\ s.neighbors = r.neighbors /\ s.addr = r.addr
      BY <1>1, <3>1 DEF Record
    <3>3. s # Absent
      BY <3>2, GossipAssumption DEF Record
    <3> QED BY <3>1, <3>2, <3>3
  <2> HIDE DEF r, s, e
  <2>4. /\ e = [d EXCEPT ![n] = s]
        /\ e[n] = s /\ \A j \in Nodes \ {n} : e[j] = d[j]
    BY Zenon, <1>1, <2>2 DEF Databases
  <2>5. e \in Databases
    BY SMTT(30), <1>1, <2>3, <2>4 DEF Databases
  <2> QED BY <2>3, <2>4, <2>5
<1> HIDE DEF e
<1>3. base[n][n].version \in Nat /\ d[n].version >= base[n][n].version
  BY RecordsTyped DEF GossipInv, GossipTypes, SoundBase, SoundDatabase
<1>4. e[n].version >= base[n][n].version
  BY <1>1, <1>2, <1>3
<1>5. \A j \in Nodes : e[j] # Absent /\ base[n][j] # Absent
                        => e[j].version >= base[n][j].version
  BY <1>2, <1>4 DEF SoundDatabase
<1>6. \A j \in e[n].neighbors : j # n /\ e[j] # Absent /\ e[j].addr
  <2>1. d[n].neighbors \subseteq Nodes
    BY <1>1 DEF Record
  <2> QED BY <2>1, <1>2 DEF SoundDatabase
<1>7. \A j \in ips : e[j] # Absent /\ e[j].addr
  BY Zenon, <1>2 DEF SoundDatabase
<1>8. SoundDatabase(n, e, ips)
  BY SMTT(30), <1>2, <1>4, <1>5, <1>6, <1>7 DEF SoundDatabase
<1> QED BY <1>8 DEF e

LEMMA FromAGRTyped ==
  ASSUME NEW a \in AGR
  PROVE  /\ FromAGR(a) \in Record /\ FromAGR(a) # Absent
         /\ FromAGR(a).version = a.version /\ FromAGR(a).addr = a.addr
         /\ a.key \in Nodes /\ a.version \in Nat /\ a.addr \in BOOLEAN
<1>1. /\ a.key \in Nodes /\ a.version \in Nat /\ a.neighbors \in SUBSET Nodes
      /\ a.addr \in BOOLEAN
  BY DEF AGR
<1>2. FromAGR(a) \in Record
  BY <1>1 DEF FromAGR, Record
<1>3. FromAGR(a) # Absent
  BY <1>2, GossipAssumption DEF Record
<1> QED BY <1>1, <1>2, <1>3 DEF FromAGR

LEMMA UpdateRecordTyped ==
  ASSUME NEW r \in Record, NEW a \in AGR
  PROVE  /\ UpdateRecord(r, a) \in Record /\ UpdateRecord(r, a) # Absent
         /\ UpdateRecord(r, a).version = a.version
         /\ UpdateRecord(r, a).addr = (r.addr \/ a.addr)
<1>1. /\ a.version \in Nat /\ a.neighbors \in SUBSET Nodes
      /\ (r.addr \/ a.addr) \in BOOLEAN
  BY DEF AGR, Record
<1>2. UpdateRecord(r, a) \in Record
  BY <1>1 DEF UpdateRecord, Record
<1>3. UpdateRecord(r, a) # Absent
  BY <1>2, GossipAssumption DEF Record
<1> QED BY <1>1, <1>2, <1>3 DEF UpdateRecord

\* Another Node's record r comes into n's database, or replaces an older one.
LEMMA OtherRecordSound ==
  ASSUME GossipInv, NEW n \in Nodes, NEW ips, SoundDatabase(n, base[n], ips),
         NEW f \in Nodes \ {n}, NEW r \in Record, r # Absent,
         r.version <= base[f][f].version,
         base[n][f] # Absent => r.version >= base[n][f].version,
         base[n][f] # Absent /\ base[n][f].addr => r.addr
  PROVE  /\ SoundDatabase(n, [base[n] EXCEPT ![f] = r], ips)
         /\ r.addr => SoundDatabase(n, [base[n] EXCEPT ![f] = r], ips \cup {f})
<1> DEFINE e == [base[n] EXCEPT ![f] = r]
<1>1. base[n] \in Databases
  BY DEF SoundDatabase
<1>2. e \in Databases /\ e[f] = r /\ \A k \in Nodes \ {f} : e[k] = base[n][k]
  BY <1>1 DEF Databases
<1>3. base[n][n].neighbors \subseteq Nodes
  BY SMTT(30), <1>1, RecordsTyped DEF SoundDatabase
<1> HIDE DEF e
<1>4. SoundDatabase(n, e, ips)
  BY SMTT(30), <1>2, <1>3 DEF SoundDatabase
<1>5. r.addr => SoundDatabase(n, e, ips \cup {f})
  BY SMTT(30), <1>2, <1>4 DEF SoundDatabase
<1> QED BY <1>4, <1>5 DEF e

\* A Node that was unknown becomes a neighbor.
LEMMA NewNeighborSound ==
  ASSUME GossipInv, NEW n \in Nodes, NEW f \in Nodes \ {n}, NEW a \in AGR,
         a.key = f, a.addr, a.version <= base[f][f].version, base[n][f] = Absent
  PROVE  SoundDatabase(n, AddHalfNeighbor([base[n] EXCEPT ![f] = FromAGR(a)], n, f),
                       ipIndex[n] \cup {f})
<1> DEFINE e == [base[n] EXCEPT ![f] = FromAGR(a)]
           ips == ipIndex[n] \cup {f}
<1>1. SoundDatabase(n, base[n], ipIndex[n])
  BY SameDatabaseSound
<1>2. SoundDatabase(n, e, ips)
  BY <1>1, FromAGRTyped, OtherRecordSound
<1>3. e[f] # Absent /\ e[f].addr
  BY <1>1, FromAGRTyped DEF SoundDatabase, Databases
<1> HIDE DEF e, ips
<1>4. SoundDatabase(n, AddHalfNeighbor(e, n, f), ips)
  BY <1>2, <1>3, HalfNeighborSound
<1> QED BY <1>4 DEF e, ips

LEMMA BetterAreNeighbors ==
  ASSUME NEW d, NEW n, NEW excluded
  PROVE  /\ MoreAppropriateNeighbors(d, n, excluded) \subseteq d[n].neighbors \ excluded
         /\ LeastConnected(d, d[n].neighbors \ excluded) \subseteq d[n].neighbors \ excluded
BY DEF MoreAppropriateNeighbors, LeastConnected, FullNeighborKeys

\* The record that n takes from f: what is known of it.
LEMMA ReceivedSound ==
  ASSUME GossipInv, NEW n \in Nodes, NEW f \in Nodes, NEW g \in Range(net[f][n])
  PROVE  /\ n # f /\ WellFormed(f, n, g) /\ g # {} /\ TheAGR(g) \in g
         /\ \A a \in g : /\ a \in AGR /\ a.key \in Nodes \ {n}
                         /\ a.version <= base[a.key][a.key].version
<1>1. n # f /\ WellFormed(f, n, g) /\ \A a \in g : a.version <= base[a.key][a.key].version
  BY DEF GossipInv, SoundNet
<1>2. g # {} /\ \A a \in g : a \in AGR /\ a.key \in Nodes \ {n}
  BY <1>1 DEF WellFormed, AGR
<1>3. TheAGR(g) \in g
  BY <1>2 DEF TheAGR
<1> QED BY <1>1, <1>2, <1>3

LEMMA TryAcceptDebutSound ==
  ASSUME GossipInv, NEW n \in Nodes, NEW f \in Nodes \ {n}, NEW a \in AGR,
         a.key = f, a.addr, a.version <= base[f][f].version, base[n][f] = Absent,
         NEW w, NothingNew(w), TryAcceptDebut(w, n, f, a)
  PROVE  Kept
<1> DEFINE d == AddHalfNeighbor([base[n] EXCEPT ![f] = FromAGR(a)], n, f)
           ips == ipIndex[n] \cup {f}
           lcn == LeastConnected(d, FullNeighborKeys(d, n) \ ({f} \cup a.neighbors))
<1>1. SoundDatabase(n, d, ips)
  BY NewNeighborSound
<1>2. \/ SendGossipToNeighbors(w, n, d, ips, TRUE)
      \/ \E k \in lcn : Reply(w, n, d, ips, f, {Describe(d, n, TRUE), Describe(d, k, TRUE)})
      \/ Reply(w, n, d, ips, f, DebutGossipResponse(d, n, f))
  BY Zenon DEF TryAcceptDebut
<1> HIDE DEF d, ips
<1>3. /\ d \in Databases /\ d[n] # Absent /\ d[n].addr /\ d[n].version \in Nat
      /\ \A k \in d[n].neighbors : k \in Nodes \ {n} /\ d[k] # Absent
  BY <1>1, RecordsTyped DEF SoundDatabase
<1>4. CASE SendGossipToNeighbors(w, n, d, ips, TRUE)
  BY Zenon, <1>1, <1>4, GossipToNeighborsSound
<1>5. ASSUME NEW k \in lcn,
             Reply(w, n, d, ips, f, {Describe(d, n, TRUE), Describe(d, k, TRUE)})
      PROVE  Kept
  <2>1. k \in d[n].neighbors /\ k # f
    BY DEF LeastConnected, FullNeighborKeys
  <2> DEFINE g == {Describe(d, n, TRUE), Describe(d, k, TRUE)}
  <2>2. SoundMessage(n, d, f, g)
    BY Zenon, <1>3, <2>1, IntroductionSound
  <2> HIDE DEF g
  <2>3. Reply(w, n, d, ips, f, g)
    BY <1>5 DEF g
  <2> QED BY <1>1, <2>2, <2>3, ReplySound
<1>6. CASE Reply(w, n, d, ips, f, DebutGossipResponse(d, n, f))
  <2> DEFINE r == [key |-> n, version |-> d[n].version, neighbors |-> {f}, addr |-> TRUE]
  <2>1. r \in AGR /\ r.key = n /\ r.addr /\ r.version = d[n].version
    BY <1>3 DEF AGR
  <2>2. DebutGossipResponse(d, n, f) = {r}
    BY DEF DebutGossipResponse
  <2> HIDE DEF r
  <2>3. SoundMessage(n, d, f, {r})
    BY <1>3, <2>1, OneRecordSound
  <2> DEFINE g == {r}
  <2> HIDE DEF g
  <2>4. Reply(w, n, d, ips, f, g) /\ SoundMessage(n, d, f, g)
    BY <1>6, <2>2, <2>3 DEF g
  <2> QED BY <1>1, <2>4, ReplySound
<1> QED BY ZenonT(30), <1>2, <1>4, <1>5, <1>6

LEMMA DebutHandlerSound ==
  ASSUME GossipInv, NEW n \in Nodes, NEW f \in Nodes, NEW g \in Range(net[f][n]),
         NEW w, NothingNew(w), DebutHandler(w, n, f, g),
         TheAGR(g).addr, TheAGR(g).key = f, f \notin Keys(base[n])
  PROVE  Kept
<1> DEFINE a == TheAGR(g)
           d == base[n]
           excluded == {f} \cup a.neighbors
           better == MoreAppropriateNeighbors(d, n, excluded)
           lcn == LeastConnected(d, d[n].neighbors \ excluded)
<1>1. /\ f \in Nodes \ {n} /\ a \in AGR /\ a.key = f /\ a.addr
      /\ a.version <= base[f][f].version /\ base[n][f] = Absent
  BY ReceivedSound DEF Keys
<1>2. SoundDatabase(n, d, ipIndex[n])
  BY SMTT(30), SameDatabaseSound
<1>3. /\ d \in Databases
      /\ \A k \in d[n].neighbors : k \in Nodes \ {n} /\ d[k] # Absent /\ d[k].addr
  BY <1>2, RecordsTyped DEF SoundDatabase
<1>4. better \subseteq d[n].neighbors \ excluded /\ lcn \subseteq d[n].neighbors \ excluded
  BY Zenon, BetterAreNeighbors
<1>5. \/ TryAcceptDebut(w, n, f, a)
      \/ \E k \in better \cup lcn : Reply(w, n, d, ipIndex[n], f, {Describe(d, k, TRUE)})
  BY Zenon DEF DebutHandler
<1> HIDE DEF a, better, lcn
<1>6. CASE TryAcceptDebut(w, n, f, a)
  BY SMTT(30), <1>1, <1>6, TryAcceptDebutSound
<1>7. ASSUME NEW k \in better \cup lcn, Reply(w, n, d, ipIndex[n], f, {Describe(d, k, TRUE)})
      PROVE  Kept
  <2> DEFINE msg == {Describe(d, k, TRUE)}
             ips == ipIndex[n]
  <2>1. SoundMessage(n, d, f, msg)
    BY Zenon, <1>1, <1>3, <1>4, DebutSound
  <2> HIDE DEF msg, d, ips
  <2>2. Reply(w, n, d, ips, f, msg) /\ SoundDatabase(n, d, ips)
    BY <1>2, <1>7 DEF msg, ips
  <2> QED BY <1>1, <2>1, <2>2, ReplySound
<1> QED BY Zenon, <1>5, <1>6, <1>7

LEMMA OwnDebutSound ==
  ASSUME NEW n \in Nodes, NEW d, NEW ips, SoundDatabase(n, d, ips), NEW k \in Nodes \ {n}
  PROVE  SoundMessage(n, d, k, ProduceDebut(d, n))
BY Zenon, DebutSound DEF SoundDatabase, ProduceDebut

LEMMA PassHandlerSound ==
  ASSUME GossipInv, NEW n \in Nodes, NEW f \in Nodes, NEW g \in Range(net[f][n]),
         NEW w, NothingNew(w), PassHandler(w, n, f, g)
  PROVE  /\ Kept /\ targets' \in [Nodes -> SUBSET Nodes]
         /\ setbacks' \in 0 .. MaxSetbacks
<1> DEFINE k == TheAGR(g).key
<1>1. k \in Nodes \ {n}
  BY SMTT(30), ReceivedSound
<1>2. \/ /\ \/ setbacks' = setbacks
            \/ setbacks < MaxSetbacks /\ setbacks' = setbacks + 1
         /\ targets' = [targets EXCEPT ![n] = @ \cup {k}]
         /\ Reply(w, n, base[n], ipIndex[n], k, ProduceDebut(base[n], n))
      \/ Ignore(w) /\ targets' = targets /\ setbacks' = setbacks
  BY DEF PassHandler
<1> HIDE DEF k
<1>3. setbacks \in 0 .. MaxSetbacks /\ targets \in [Nodes -> SUBSET Nodes] /\ MaxSetbacks \in Nat
  BY GossipAssumption DEF GossipInv, GossipTypes, MaxSetbacks, World
<1>4. targets' \in [Nodes -> SUBSET Nodes] /\ setbacks' \in 0 .. MaxSetbacks
  BY SMTT(30), <1>1, <1>2, <1>3
<1>5. ASSUME Reply(w, n, base[n], ipIndex[n], k, ProduceDebut(base[n], n)) PROVE Kept
  <2> DEFINE d == base[n]
             ips == ipIndex[n]
             msg == ProduceDebut(d, n)
  <2>1. SoundDatabase(n, d, ips) /\ Reply(w, n, d, ips, k, msg)
    BY <1>5, SameDatabaseSound
  <2> HIDE DEF d, ips
  <2>2. SoundMessage(n, d, k, msg)
    BY <2>1, <1>1, OwnDebutSound
  <2> HIDE DEF msg
  <2> QED BY SMTT(30), <1>1, <2>1, <2>2, ReplySound
<1>6. ASSUME Ignore(w) PROVE Kept
  BY <1>6, IgnoreSound
<1> QED BY <1>2, <1>4, <1>5, <1>6

LEMMA IntroducerUpdatedSound ==
  ASSUME GossipInv, NEW n \in Nodes, NEW f \in Nodes \ {n}, NEW a \in AGR,
         a.key = f, a.addr, a.version <= base[f][f].version
  PROVE  SoundDatabase(n, IntroducerUpdated(n, a),
                       IF base[n][f] = Absent THEN ipIndex[n] \cup {f} ELSE ipIndex[n])
<1>1. CASE base[n][f] = Absent
  <2>1. IntroducerUpdated(n, a) = AddHalfNeighbor([base[n] EXCEPT ![f] = FromAGR(a)], n, f)
    BY <1>1 DEF IntroducerUpdated
  <2> QED BY <1>1, <2>1, NewNeighborSound
<1>2. CASE base[n][f] # Absent /\ base[n][f].version < a.version
  <2> DEFINE r == UpdateRecord(base[n][f], a)
             e == [base[n] EXCEPT ![f] = r]
             ips == ipIndex[n]
  <2>1. SoundDatabase(n, base[n], ips)
    BY SameDatabaseSound
  <2>2. base[n] \in Databases /\ base[n][f] \in Record /\ base[n][f].version \in Nat
        /\ base[n][f].addr \in BOOLEAN
    BY SMTT(30), <1>2, <2>1, RecordsTyped DEF SoundDatabase
  <2>3. /\ r \in Record /\ r # Absent /\ r.version = a.version
        /\ r.addr = (base[n][f].addr \/ a.addr) /\ a.version \in Nat
    BY SMTT(30), <2>2, UpdateRecordTyped, FromAGRTyped
  <2> HIDE DEF r, ips
  <2>4. r.addr /\ r.version <= base[f][f].version /\ r.version >= base[n][f].version
    <3>1. r.addr
      BY Zenon, <2>3
    <3>2. r.version <= base[f][f].version
      BY <2>3
    <3> QED BY <1>2, <2>2, <2>3, <3>1, <3>2
  <2>5. SoundDatabase(n, e, ips)
    BY Zenon, <2>1, <2>3, <2>4, OtherRecordSound
  <2>6. e[f] = r
    BY <2>2 DEF Databases
  <2> HIDE DEF e
  <2>7. SoundDatabase(n, AddHalfNeighbor(e, n, f), ips)
    BY <2>3, <2>4, <2>5, <2>6, HalfNeighborSound
  <2>8. [base[n] EXCEPT ![a.key] = UpdateRecord(@, a)] = e
    BY DEF e, r
  <2>9. IntroducerUpdated(n, a) = e \/ IntroducerUpdated(n, a) = AddHalfNeighbor(e, n, f)
    BY <1>2, <2>8 DEF IntroducerUpdated
  <2> QED BY <1>2, <2>5, <2>7, <2>9 DEF ips
<1>3. CASE base[n][f] # Absent /\ ~(base[n][f].version < a.version)
  BY SMTT(30), <1>3, SameDatabaseSound DEF IntroducerUpdated
<1> QED BY SMTT(30), <1>1, <1>2, <1>3

LEMMA IntroductionHandlerSound ==
  ASSUME GossipInv, NEW n \in Nodes, NEW f \in Nodes, NEW g \in Range(net[f][n]),
         NEW w, NothingNew(w), IntroductionHandler(w, n, f, g),
         \A a \in g : a.addr, \E a \in g : a.key = f, \E a \in g : a.key # f
  PROVE  Kept
<1> DEFINE a == AGRAbout(g, f)
           introducee == CHOOSE k \in {b.key : b \in g} : k # f
           d == IntroducerUpdated(n, a)
           ips == IF base[n][f] = Absent THEN ipIndex[n] \cup {f} ELSE ipIndex[n]
           msg == ProduceDebut(d, n)
<1>1. a \in g /\ a.key = f
  BY DEF AGRAbout
<1>2. \E b \in g : introducee = b.key
  OBVIOUS
<1> HIDE DEF a, introducee
<1>3. introducee \in Nodes \ {n} /\ f \in Nodes \ {n}
  BY ZenonT(30), <1>2, ReceivedSound
<1>4. a \in AGR /\ a.addr /\ a.version <= base[f][f].version
  BY SMTT(30), <1>1, ReceivedSound
<1>5. SoundDatabase(n, d, ips)
  BY ZenonT(30), <1>1, <1>3, <1>4, IntroducerUpdatedSound
<1>6. Reply(w, n, d, ips, introducee, msg)
  BY DEF IntroductionHandler, a, introducee
<1> HIDE DEF d, ips
<1>7. SoundMessage(n, d, introducee, msg)
  BY <1>3, <1>5, OwnDebutSound
<1> HIDE DEF msg
<1> QED BY <1>3, <1>5, <1>6, <1>7, ReplySound

LEMMA LearnedSound ==
  ASSUME GossipInv, NEW n \in Nodes, NEW f \in Nodes, NEW g \in Range(net[f][n]),
         NEW new \in SUBSET g, \A a \in new : base[n][a.key] = Absent,
         NEW obsolete \in SUBSET g,
         \A a \in obsolete : /\ base[n][a.key] # Absent
                             /\ a.version > base[n][a.key].version
  PROVE  SoundDatabase(n, Learned(n, new, obsolete),
                       ipIndex[n] \cup {a.key : a \in {b \in new : b.addr}})
<1> DEFINE e == Learned(n, new, obsolete)
           ips == ipIndex[n] \cup {a.key : a \in {b \in new : b.addr}}
<1>1. /\ \A a \in g : /\ a \in AGR /\ a.key \in Nodes \ {n}
                      /\ a.version <= base[a.key][a.key].version
      /\ \A a, b \in g : a.key = b.key => a = b
  BY SMTT(30), ReceivedSound DEF WellFormed
<1>2. SoundDatabase(n, base[n], ipIndex[n]) /\ base[n] \in Databases
  BY SMTT(30), SameDatabaseSound DEF SoundDatabase
<1>3. \A k \in Nodes : base[n][k] # Absent =>
        base[n][k] \in Record /\ base[n][k].version \in Nat /\ base[n][k].addr \in BOOLEAN
  BY SMTT(30), <1>2, RecordsTyped
<1>4. ASSUME NEW a \in new
      PROVE  /\ e[a.key] = FromAGR(a) /\ e[a.key] \in Record /\ e[a.key] # Absent
             /\ e[a.key].version = a.version /\ e[a.key].addr = a.addr
  <2>1. AGRAbout(new, a.key) = a
    BY <1>1 DEF AGRAbout
  <2>2. e[a.key] = FromAGR(a)
    BY SMTT(30), <1>1, <2>1 DEF Learned
  <2> QED BY SMTT(30), <1>1, <2>2, FromAGRTyped
<1>5. ASSUME NEW a \in obsolete
      PROVE  /\ e[a.key] \in Record /\ e[a.key] # Absent
             /\ e[a.key].version = a.version
             /\ e[a.key].addr = (base[n][a.key].addr \/ a.addr)
  <2>1. AGRAbout(obsolete, a.key) = a
    BY <1>1 DEF AGRAbout
  <2>2. ~\E b \in new : b.key = a.key
    OBVIOUS
  <2>3. e[a.key] = UpdateRecord(base[n][a.key], a)
    BY <1>1, <2>1, <2>2 DEF Learned
  <2>4. base[n][a.key] \in Record
    BY <1>1, <1>3
  <2> QED BY <1>1, <2>3, <2>4, UpdateRecordTyped
<1>6. \A k \in Nodes : (\A a \in new \cup obsolete : a.key # k) => e[k] = base[n][k]
  BY DEF Learned
<1>7. e \in Databases
  <2>1. \A k \in Nodes : e[k] \in Record \cup {Absent}
    BY SMTT(30), <1>2, <1>4, <1>5, <1>6 DEF Databases
  <2>2. e = [k \in Nodes |-> e[k]]
    BY DEF Learned
  <2> HIDE DEF e
  <2> QED BY ZenonT(30), <2>1, <2>2 DEF Databases
<1>8. e[n] = base[n][n]
  BY ZenonT(30), <1>1, <1>6
<1> HIDE DEF e
<1>9. \A k \in Nodes \ {n} : e[k] # Absent => e[k].version <= base[k][k].version
  BY SMTT(30), <1>1, <1>2, <1>4, <1>5, <1>6 DEF SoundDatabase
<1>10. \A k \in Nodes : e[k] # Absent /\ base[n][k] # Absent
                          => e[k].version >= base[n][k].version
  <2> SUFFICES ASSUME NEW k \in Nodes, base[n][k] # Absent
               PROVE  e[k].version >= base[n][k].version
    OBVIOUS
  <2>1. CASE \E a \in obsolete : a.key = k
    <3>1. PICK a \in obsolete : a.key = k
      BY SMTT(30), <2>1
    <3>2. e[k].version = a.version /\ a.version > base[n][k].version /\ a.version \in Nat
      BY SMTT(30), <3>1, <1>1, <1>5, FromAGRTyped
    <3> QED BY <3>2, <1>3
  <2>2. CASE ~\E a \in obsolete : a.key = k
    <3>1. e[k] = base[n][k]
      BY <2>2, <1>6
    <3> QED BY <3>1, <1>3
  <2> QED BY <2>1, <2>2
<1>11. \A k \in Nodes : base[n][k] # Absent /\ base[n][k].addr => e[k] # Absent /\ e[k].addr
  <2> SUFFICES ASSUME NEW k \in Nodes, base[n][k] # Absent, base[n][k].addr
               PROVE  e[k] # Absent /\ e[k].addr
    OBVIOUS
  <2>1. CASE \E a \in obsolete : a.key = k
    <3>1. PICK a \in obsolete : a.key = k
      BY <2>1
    <3>2. e[k] # Absent /\ e[k].addr = (base[n][k].addr \/ a.addr)
      BY <3>1, <1>5
    <3> QED BY Zenon, <3>2
  <2>2. CASE ~\E a \in obsolete : a.key = k
    BY SMTT(30), <2>2, <1>6
  <2> QED BY <2>1, <2>2
<1>12. \A k \in e[n].neighbors : k # n /\ e[k] # Absent /\ e[k].addr
  BY SMTT(30), <1>2, <1>8, <1>11, RecordsTyped DEF SoundDatabase
<1>13. ips \subseteq Nodes /\ \A k \in ips : e[k] # Absent /\ e[k].addr
  BY SMTT(30), <1>1, <1>2, <1>4, <1>11 DEF SoundDatabase
<1>14. e[n] # Absent /\ e[n].addr /\ e[n].version >= base[n][n].version
  BY SMTT(30), <1>2, <1>8 DEF SoundDatabase
<1> HIDE DEF ips
<1>15. SoundDatabase(n, e, ips)
  BY ZenonT(30), <1>7, <1>9, <1>10, <1>12, <1>13, <1>14 DEF SoundDatabase
<1> QED BY SMTT(30), <1>15 DEF e, ips

LEMMA StandardGossipHandlerSound ==
  ASSUME GossipInv, NEW n \in Nodes, NEW f \in Nodes, NEW g \in Range(net[f][n]),
         NEW w, NothingNew(w), StandardGossipHandler(w, n, f, g)
  PROVE  Kept
<1> DEFINE filtered == {a \in g : a.key \in ComputePatch(n, g)}
           new == NewNodes(n, f, filtered)
           obsolete == ObsoleteNodes(n, filtered)
           d == Learned(n, new, obsolete)
           ips == ipIndex[n] \cup {a.key : a \in {b \in new : b.addr}}
           adds == /\ f \in ips
                   /\ Cardinality(FullNeighborKeys(d, n)) < MAX_DEGREE
                   /\ f \notin d[n].neighbors
           e == IF adds THEN AddHalfNeighbor(d, n, f) ELSE d
           changed == new \cup obsolete # {} \/ adds
<1>1. SendGossipToNeighbors(w, n, e, ips, changed)
  BY Zenon DEF StandardGossipHandler
<1>2. /\ new \in SUBSET g /\ \A a \in new : base[n][a.key] = Absent
      /\ obsolete \in SUBSET g
      /\ \A a \in obsolete : base[n][a.key] # Absent /\ a.version > base[n][a.key].version
  BY DEF NewNodes, ObsoleteNodes
<1> HIDE DEF new, obsolete
<1>3. SoundDatabase(n, d, ips)
  BY <1>2, LearnedSound
<1>4. f \in Nodes \ {n}
  BY ReceivedSound
<1>5. adds \in BOOLEAN /\ changed \in BOOLEAN /\ (adds => f \in ips)
  OBVIOUS
<1> HIDE DEF d, ips
<1>6. adds => SoundDatabase(n, AddHalfNeighbor(d, n, f), ips)
  BY Zenon, <1>3, <1>4, <1>5, HalfNeighborSound DEF SoundDatabase
<1>7. SoundDatabase(n, e, ips)
  BY <1>3, <1>5, <1>6
<1> HIDE DEF e, changed
<1> QED BY <1>1, <1>5, <1>7, GossipToNeighborsSound

\* What the handlers may rely on, by the class they are chosen for.
LEMMA Qualified ==
  ASSUME NEW n, NEW f, NEW g
  PROVE  /\ Qualification(n, f, g) = "debut" =>
              TheAGR(g).addr /\ TheAGR(g).key = f /\ TheAGR(g).key \notin Keys(base[n])
         /\ Qualification(n, f, g) = "introduction" =>
              (\A a \in g : a.addr) /\ (\E a \in g : a.key = f) /\ (\E a \in g : a.key # f)
         /\ Qualification(n, f, g) = "malformed" =>
              \/ Cardinality(g) = 1 /\ ~TheAGR(g).addr
              \/ Cardinality(g) = 2 /\ \A a \in g : a.key # f
              \/ \E a \in g : a.key = n
BY DEF Qualification

LEMMA RemoveNeighborSound ==
  ASSUME GossipInv, NEW n \in Nodes, NEW k \in Nodes \ {n}, k \in ipIndex[n]
  PROVE  SoundDatabase(n, RemoveNeighbor(n, k), ipIndex[n] \ {k})
<1> DEFINE d == base[n]
           hidden == [d[k] EXCEPT !.addr = FALSE]
           alone == [d[n] EXCEPT !.neighbors = d[n].neighbors \ {k}]
           next == IF k \in d[n].neighbors THEN d[n].version + 1 ELSE d[n].version
           own == [alone EXCEPT !.version = next]
           e == RemoveNeighbor(n, k)
           ips == ipIndex[n] \ {k}
<1>1. SoundDatabase(n, d, ipIndex[n])
  BY SameDatabaseSound
<1>2. /\ d \in Databases /\ d[n] \in Record /\ d[n].version \in Nat
      /\ d[k] \in Record /\ d[n].neighbors \subseteq Nodes
  BY <1>1, RecordsTyped DEF SoundDatabase
<1>3. hidden \in Record /\ hidden # Absent /\ hidden.version = d[k].version
  BY Zenon, <1>2, GossipAssumption DEF Record
<1>4. alone \in Record /\ alone.neighbors = d[n].neighbors \ {k}
      /\ alone.version = d[n].version /\ alone.addr = d[n].addr
  BY <1>2 DEF Record
<1>5. next \in Nat /\ next >= d[n].version
  BY <1>2
<1> HIDE DEF next
<1>6. own \in Record /\ own.version = next /\ own.neighbors = alone.neighbors
      /\ own.addr = alone.addr
  <2> HIDE DEF alone
  <2> QED BY <1>4, <1>5 DEF Record
<1>7. own # Absent
  BY Zenon, <1>6, GossipAssumption DEF Record
<1>8. e = [[[d EXCEPT ![k] = hidden] EXCEPT ![n] = alone] EXCEPT ![n] = own]
  BY Zenon, <1>2, <1>4 DEF RemoveNeighbor, Databases, next
<1> HIDE DEF hidden, alone, own, e
<1>9. /\ e \in Databases /\ e[n] = own /\ e[k] = hidden
      /\ \A j \in Nodes \ {n, k} : e[j] = d[j]
  BY SMTT(30), <1>2, <1>3, <1>4, <1>6, <1>8 DEF Databases
<1>10. \A j \in Nodes \ {n} : e[j] # Absent => d[j] # Absent /\ e[j].version = d[j].version
  BY <1>1, <1>3, <1>9 DEF SoundDatabase
<1>11. \A j \in ips : j \in Nodes /\ e[j] # Absent /\ e[j].addr
  BY Zenon, <1>1, <1>4, <1>6, <1>7, <1>9 DEF SoundDatabase
<1>12. \A j \in e[n].neighbors : j # n /\ e[j] # Absent /\ e[j].addr
  BY ZenonT(30), <1>1, <1>2, <1>4, <1>6, <1>9 DEF SoundDatabase
<1>13. \A j \in Nodes : e[j] # Absent /\ d[j] # Absent => e[j].version >= d[j].version
  <2>1. \A j \in Nodes : d[j] # Absent => d[j].version \in Nat
    BY SMTT(30), <1>2, RecordsTyped
  <2> QED BY SMTT(30), <2>1, <1>5, <1>6, <1>9, <1>10
<1> HIDE DEF ips
<1>14. SoundDatabase(n, e, ips)
  <2>1. e[n] # Absent /\ e[n].addr /\ e[n].version >= base[n][n].version
    BY Zenon, <1>1, <1>4, <1>5, <1>6, <1>7, <1>9 DEF SoundDatabase
  <2>2. \A j \in Nodes \ {n} : e[j] # Absent => e[j].version <= base[j][j].version
    BY <1>1, <1>10 DEF SoundDatabase
  <2> QED BY <2>1, <2>2, <1>9, <1>11, <1>12, <1>13 DEF SoundDatabase
<1> QED BY <1>14 DEF e, ips

-----------------------------------------------------------------------------
(* The steps of the network.                                               *)

LEMMA WorldTyped ==
  ASSUME GossipTypes
  PROVE  /\ MaxSetbacks \in Nat
         /\ \A n \in Nodes : Lists[n] \in SUBSET (Nodes \ {n})
<1>1. world \in World /\ \A n \in Nodes : n \notin world.lists[n]
  BY GossipAssumption DEF GossipTypes
<1> QED BY <1>1 DEF World, MaxSetbacks, Lists

LEMMA HandleStartMessageInv ==
  ASSUME GossipInv, NEW n \in Nodes, HandleStartMessage(n), UNCHANGED world
  PROVE  GossipInv' /\ VersionsKept
<1> DEFINE d == base[n]
           ips == ipIndex[n]
           ks == Lists[n]
           msgs == [k \in ks |-> ProduceDebut(d, n)]
<1>1. SoundDatabase(n, d, ips) /\ NothingNew(net)
  BY SameDatabaseSound, NetIsNothingNew
<1>2. ks \in SUBSET (Nodes \ {n})
  BY SMTT(30), WorldTyped DEF GossipInv
<1>3. /\ base' = [base EXCEPT ![n] = d] /\ ipIndex' = [ipIndex EXCEPT ![n] = ips]
      /\ SendAll(net, n, ks, msgs)
  BY DEF HandleStartMessage, GossipInv, GossipTypes
<1> HIDE DEF d, ips, ks
<1>4. \A k \in ks : SoundMessage(n, d, k, msgs[k])
  BY <1>1, <1>2, OwnDebutSound
<1> HIDE DEF msgs
<1>5. Kept
  BY ZenonT(30), <1>1, <1>2, <1>3, <1>4, StepIsSound
<1>6. /\ targets' = targets /\ closing' = closing /\ setbacks' = setbacks
      /\ started' = started \cup {n}
  BY DEF HandleStartMessage
<1> QED BY Zenon, <1>5, <1>6 DEF Kept, GossipInv, GossipTypes, SoundStreams, MaxSetbacks

LEMMA ReceiveGossipInv ==
  ASSUME GossipInv, NEW n \in Nodes, NEW f \in Nodes, ReceiveGossip(n, f), UNCHANGED world
  PROVE  GossipInv' /\ VersionsKept
<1> DEFINE g == Head(net[f][n])
           w == Taken(n, f)
           class == Qualification(n, f, g)
<1>0. net[f][n] # <<>>
  BY Zenon DEF ReceiveGossip
<1>1. g \in Range(net[f][n]) /\ NothingNew(w)
  BY <1>0, TakenIsNothingNew
<1>2. \/ PassHandler(w, n, f, g)
      \/ /\ \/ class = "debut" /\ DebutHandler(w, n, f, g)
            \/ class = "introduction" /\ IntroductionHandler(w, n, f, g)
            \/ Ignore(w)
            \/ StandardGossipHandler(w, n, f, g)
         /\ targets' = targets /\ setbacks' = setbacks
  BY Zenon DEF ReceiveGossip
<1>3. closing' = closing /\ started' = started
  BY DEF ReceiveGossip
<1> HIDE DEF g, w
<1>4. ASSUME Kept, targets' \in [Nodes -> SUBSET Nodes], setbacks' \in 0 .. MaxSetbacks
      PROVE  GossipInv' /\ VersionsKept
  BY Zenon, <1>3, <1>4 DEF Kept, GossipInv, GossipTypes, SoundStreams, MaxSetbacks
<1>5. CASE PassHandler(w, n, f, g)
  BY <1>1, <1>4, <1>5, PassHandlerSound
<1>6. ASSUME targets' = targets, setbacks' = setbacks, Kept
      PROVE  GossipInv' /\ VersionsKept
  BY Zenon, <1>4, <1>6 DEF GossipInv, GossipTypes
<1>7. ASSUME class = "debut", DebutHandler(w, n, f, g) PROVE Kept
  BY SMTT(30), <1>1, <1>7, Qualified, DebutHandlerSound
<1>8. ASSUME class = "introduction", IntroductionHandler(w, n, f, g) PROVE Kept
  BY SMTT(30), <1>1, <1>8, Qualified, IntroductionHandlerSound
<1>9. ASSUME Ignore(w) PROVE Kept
  BY <1>1, <1>9, IgnoreSound
<1>10. ASSUME StandardGossipHandler(w, n, f, g) PROVE Kept
  BY SMTT(30), <1>1, <1>10, StandardGossipHandlerSound
<1> QED BY ZenonT(30), <1>2, <1>5, <1>6, <1>7, <1>8, <1>9, <1>10

LEMMA HandleStreamShutdownInv ==
  ASSUME GossipInv, NEW n \in Nodes, NEW k \in Nodes, HandleStreamShutdown(n, k),
         UNCHANGED world
  PROVE  GossipInv' /\ VersionsKept
<1>1. n # k /\ closing' \subseteq closing
  BY DEF HandleStreamShutdown, GossipInv, SoundStreams
<1>2. /\ targets' = targets /\ started' = started /\ setbacks' = setbacks
  BY DEF HandleStreamShutdown
<1>3. \/ UNCHANGED <<base, ipIndex, net, opened>>
      \/ /\ k \in ipIndex[n]
         /\ SendGossipToNeighbors(net, n, RemoveNeighbor(n, k), ipIndex[n] \ {k},
                                  k \in base[n][n].neighbors)
  BY DEF HandleStreamShutdown
<1>4. CASE UNCHANGED <<base, ipIndex, net, opened>>
  <2>1. Ignore(net)
    BY <1>4 DEF Ignore
  <2> QED BY Zenon, <2>1, NetIsNothingNew, IgnoreSound, <1>1, <1>2
          DEF Kept, GossipInv, GossipTypes, SoundStreams, MaxSetbacks
<1>5. CASE /\ k \in ipIndex[n]
           /\ SendGossipToNeighbors(net, n, RemoveNeighbor(n, k), ipIndex[n] \ {k},
                                    k \in base[n][n].neighbors)
  <2> DEFINE d == RemoveNeighbor(n, k)
             ips == ipIndex[n] \ {k}
             changed == k \in base[n][n].neighbors
  <2>1. SoundDatabase(n, d, ips)
    BY SMTT(30), <1>1, <1>5, RemoveNeighborSound
  <2>2. SendGossipToNeighbors(net, n, d, ips, changed) /\ changed \in BOOLEAN
    BY <1>5
  <2> HIDE DEF d, ips, changed
  <2>3. Kept
    BY <2>1, <2>2, NetIsNothingNew, GossipToNeighborsSound
  <2> QED BY Zenon, <2>3, <1>1, <1>2 DEF Kept, GossipInv, GossipTypes, SoundStreams, MaxSetbacks
<1> QED BY SMTT(30), <1>3, <1>4, <1>5

LEMMA StreamBreaksInv ==
  ASSUME GossipInv, NEW n \in Nodes, NEW k \in Nodes, StreamBreaks(n, k), UNCHANGED world
  PROVE  GossipInv' /\ VersionsKept
<1>1. n # k
  BY DEF StreamBreaks, GossipInv, SoundStreams
<1>2. /\ base' = base /\ ipIndex' = ipIndex /\ targets' = targets /\ started' = started
      /\ setbacks < MaxSetbacks /\ setbacks' = setbacks + 1
      /\ opened' = [opened EXCEPT ![n] = @ \ {k}, ![k] = @ \ {n}]
      /\ net' = [net EXCEPT ![n][k] = <<>>, ![k][n] = <<>>]
      /\ closing' = closing \cup {<<n, k>>, <<k, n>>}
  BY DEF StreamBreaks
<1>3. net \in [Nodes -> [Nodes -> Seq(SUBSET AGR)]] /\ <<>> \in Seq(SUBSET AGR)
  BY SMTT(30) DEF GossipInv, GossipTypes
<1>4. /\ net' \in [Nodes -> [Nodes -> Seq(SUBSET AGR)]]
      /\ \A m, j \in Nodes : net'[m][j] = net[m][j] \/ net'[m][j] = <<>>
  BY Zenon, <1>2, <1>3
<1>5. Range(<<>>) = {}
  BY DEF Range
<1>6. NothingNew(net')
  BY Zenon, <1>4, <1>5 DEF NothingNew
<1>7. SoundNet'
  BY Zenon, <1>2, <1>6 DEF GossipInv, SoundNet, NothingNew
<1>8. SoundBase'
  BY <1>2 DEF GossipInv, SoundBase
<1>9. SoundStreams'
  BY SMTT(30), <1>1, <1>2 DEF GossipInv, GossipTypes, SoundStreams
<1>10. GossipTypes'
  <2>1. MaxSetbacks' = MaxSetbacks
    BY DEF MaxSetbacks
  <2>2. setbacks \in Nat /\ MaxSetbacks \in Nat
    <3>1. MaxSetbacks \in Nat
      BY WorldTyped DEF GossipInv
    <3> QED BY <3>1 DEF GossipInv, GossipTypes
  <2>3. setbacks' \in 0 .. MaxSetbacks'
    BY SMTT(30), <1>2, <2>1, <2>2
  <2>4. closing' \subseteq Nodes \X Nodes
    BY <1>2 DEF GossipInv, GossipTypes
  <2>5. opened \in [Nodes -> SUBSET Nodes]
    BY DEF GossipInv, GossipTypes
  <2>6. opened' \in [Nodes -> SUBSET Nodes]
    <3> DEFINE one == [opened EXCEPT ![n] = opened[n] \ {k}]
    <3>1. one \in [Nodes -> SUBSET Nodes] /\ one[k] = opened[k]
      BY <1>1, <2>5
    <3>2. opened' = [one EXCEPT ![k] = one[k] \ {n}]
      BY Zenon, <1>2
    <3> HIDE DEF one
    <3> QED BY <3>1, <3>2
  <2> QED BY Zenon, <2>3, <2>4, <2>6, <1>2, <1>4 DEF GossipInv, GossipTypes
<1>11. VersionsKept
  <2>1. \A m, j \in Nodes : base[m][j] # Absent => base[m][j].version \in Nat
    BY ZenonT(30), RecordsTyped DEF GossipInv, GossipTypes
  <2> QED BY <1>2, <2>1 DEF VersionsKept
<1> QED BY <1>7, <1>8, <1>9, <1>10, <1>11 DEF GossipInv

-----------------------------------------------------------------------------
(* The invariant and what follows from it.                                 *)

LEMMA InitInv ==
  ASSUME GossipInit
  PROVE  GossipInv
<1>1. world \in World /\ \A e \in world.settled : Cardinality(e) = 2
  BY GossipAssumption DEF GossipInit
<1>2. \A k \in Nodes : Old(k) \subseteq Nodes /\ k \notin Old(k)
                       /\ Cardinality(Old(k)) \in Nat
  <2> TAKE k \in Nodes
  <2>1. Old(k) \subseteq Nodes
    BY DEF Old
  <2>2. k \notin Old(k)
    <3> SUFFICES ASSUME {k} \in world.settled PROVE FALSE
      <4>1. {k, k} = {k}
        OBVIOUS
      <4> QED BY <4>1 DEF Old
    <3>1. Cardinality({k}) = 2
      BY <1>1
    <3>2. Cardinality({k}) = 1
      BY Zenon, FS_Singleton
    <3> QED BY <3>1, <3>2
  <2>3. Cardinality(Old(k)) \in Nat
    BY <2>1, NodesFinite, FS_Subset, FS_CardinalityType
  <2> QED BY <2>1, <2>2, <2>3
<1>3. \A n, k \in Nodes : k \in Old(n) <=> n \in Old(k)
  BY DEF Old
<1> DEFINE r(n, k) == [version |-> Cardinality(Old(k)), neighbors |-> Old(k),
                       addr |-> k = n \/ k \in Old(n)]
<1>4. \A n, k \in Nodes : /\ r(n, k) \in Record /\ r(n, k) # Absent
                          /\ r(n, k).version = Cardinality(Old(k))
                          /\ r(n, k).neighbors = Old(k)
                          /\ r(n, k).addr = (k = n \/ k \in Old(n))
  <2> SUFFICES ASSUME NEW n \in Nodes, NEW k \in Nodes
               PROVE  /\ r(n, k) \in Record /\ r(n, k) # Absent
                      /\ r(n, k).version = Cardinality(Old(k))
                      /\ r(n, k).neighbors = Old(k)
                      /\ r(n, k).addr = (k = n \/ k \in Old(n))
    BY Zenon
  <2>1. r(n, k) \in Record
    BY <1>2 DEF Record
  <2>2. r(n, k) # Absent
    BY Zenon, <2>1, GossipAssumption DEF Record
  <2> QED BY ZenonT(30), <2>1, <2>2
<1>5. base = [n \in Nodes |-> [k \in Nodes |->
                IF k = n \/ (Old(k) # {} /\ Old(n) # {}) THEN r(n, k) ELSE Absent]]
  BY SMTT(30) DEF GossipInit
<1> HIDE DEF r
<1>6. base \in [Nodes -> Databases]
  BY <1>4, <1>5 DEF Databases
<1>7. GossipTypes
  <2>1. MaxSetbacks \in Nat
    BY SMTT(30), <1>1 DEF World, MaxSetbacks
  <2>2. net \in [Nodes -> [Nodes -> Seq(SUBSET AGR)]]
    BY DEF GossipInit
  <2>3. /\ ipIndex \in [Nodes -> SUBSET Nodes] /\ targets \in [Nodes -> SUBSET Nodes]
        /\ opened \in [Nodes -> SUBSET Nodes] /\ closing \subseteq Nodes \X Nodes
        /\ started \subseteq Nodes
    BY SMTT(30), <1>2 DEF GossipInit
  <2>4. world \in Worlds /\ setbacks \in 0 .. MaxSetbacks
    BY SMTT(30), <2>1 DEF GossipInit
  <2> QED BY <1>6, <2>2, <2>3, <2>4 DEF GossipTypes
<1>8. SoundBase
  <2> SUFFICES ASSUME NEW n \in Nodes
               PROVE  /\ base[n][n] # Absent /\ base[n][n].addr
                      /\ \A k \in Nodes :
                           base[n][k] # Absent => base[n][k].version <= base[k][k].version
                      /\ \A k \in base[n][n].neighbors :
                           k # n /\ base[n][k] # Absent /\ base[n][k].addr
                      /\ \A k \in ipIndex[n] : base[n][k] # Absent /\ base[n][k].addr
    BY SMTT(30) DEF SoundBase
  <2>1. base[n][n] = r(n, n) /\ ipIndex[n] = {n} \cup Old(n)
    BY <1>5 DEF GossipInit
  <2>2. \A k \in Old(n) : base[n][k] = r(n, k) /\ k # n /\ k \in Nodes
    BY <1>2, <1>3, <1>5
  <2>3. \A k \in Nodes : base[n][k] # Absent => base[n][k].version <= base[k][k].version
    <3> SUFFICES ASSUME NEW k \in Nodes, base[n][k] # Absent
                 PROVE  base[n][k].version <= base[k][k].version
      OBVIOUS
    <3>1. base[n][k] = r(n, k) /\ base[k][k] = r(k, k)
      BY <1>5
    <3>2. Cardinality(Old(k)) \in Nat
      BY <1>2
    <3> QED BY <1>4, <3>1, <3>2
  <2>4. r(n, n) # Absent /\ r(n, n).neighbors = Old(n) /\ r(n, n).addr
    BY Zenon, <1>4
  <2>5. \A k \in Old(n) : r(n, k) # Absent /\ r(n, k).addr
    BY Zenon, <1>2, <1>4
  <2> QED BY ZenonT(30), <2>1, <2>2, <2>3, <2>4, <2>5
<1>9. SoundNet
  <2>1. \A n, k \in Nodes : net[n][k] = <<>>
    BY DEF GossipInit
  <2>2. Range(<<>>) = {}
    BY DEF Range
  <2> QED BY <2>1, <2>2 DEF SoundNet
<1>10. SoundStreams
  BY <1>2 DEF GossipInit, SoundStreams
<1> QED BY <1>7, <1>8, <1>9, <1>10 DEF GossipInv

LEMMA StepInv ==
  ASSUME GossipInv, [GossipNext]_gossipVars
  PROVE  GossipInv' /\ VersionsKept
<1>1. CASE GossipNext
  <2>1. UNCHANGED world
    BY <1>1 DEF GossipNext
  <2>2. ASSUME NEW n \in Nodes, HandleStartMessage(n) PROVE GossipInv' /\ VersionsKept
    BY <2>1, <2>2, HandleStartMessageInv
  <2>3. ASSUME NEW n \in Nodes, NEW k \in Nodes, ReceiveGossip(n, k)
        PROVE  GossipInv' /\ VersionsKept
    BY <2>1, <2>3, ReceiveGossipInv
  <2>4. ASSUME NEW n \in Nodes, NEW k \in Nodes, HandleStreamShutdown(n, k)
        PROVE  GossipInv' /\ VersionsKept
    BY SMTT(30), <2>1, <2>4, HandleStreamShutdownInv
  <2>5. ASSUME NEW n \in Nodes, NEW k \in Nodes, StreamBreaks(n, k)
        PROVE  GossipInv' /\ VersionsKept
    BY <2>1, <2>5, StreamBreaksInv
  <2> QED BY <1>1, <2>2, <2>3, <2>4, <2>5 DEF GossipNext, HandlerRuns
<1>2. CASE UNCHANGED gossipVars
  <2>1. Ignore(net)
    BY <1>2 DEF Ignore, gossipVars
  <2>2. Kept
    BY <2>1, NetIsNothingNew, IgnoreSound
  <2> QED BY <1>2, <2>2 DEF Kept, gossipVars, GossipInv, GossipTypes, SoundStreams, MaxSetbacks
<1> QED BY <1>1, <1>2

LEMMA GossipInvariant == GossipSpec => []GossipInv
<1>1. GossipInit => GossipInv
  BY InitInv
<1>2. GossipInv /\ [GossipNext]_gossipVars => GossipInv'
  BY StepInv
<1> QED BY <1>1, <1>2, PTL DEF GossipSpec

\* Databases hold records, and gossip has at most one record of a Node
\* (agrs_by_key of compute_patch relies on it), for any number of Nodes.
THEOREM GossipTypeCorrect == GossipSpec => []GossipTypeOK
<1>1. GossipInv => GossipTypeOK
  <2> SUFFICES ASSUME GossipInv PROVE GossipTypeOK
    OBVIOUS
  <2>1. \A g \in OnTheWay : \A a, b \in g : a.key = b.key => a = b
    BY DEF GossipInv, SoundNet, WellFormed, OnTheWay
  <2> QED BY ZenonT(30), <2>1 DEF GossipInv, GossipTypes, GossipTypeOK, Databases
<1> QED BY <1>1, GossipInvariant, PTL

\* However gossip crosses, is lost with its stream or comes late, nobody holds
\* or carries a record of a Node newer than the Node's own.
THEOREM OwnersAreAhead == GossipSpec => []NobodyAhead
<1>1. GossipInv => NobodyAhead
  <2> SUFFICES ASSUME GossipInv PROVE NobodyAhead
    OBVIOUS
  <2>1. \A g \in OnTheWay : \A a \in g : a.version <= base[a.key][a.key].version
    BY DEF GossipInv, SoundNet, OnTheWay
  <2> QED BY <2>1 DEF GossipInv, SoundBase, NobodyAhead
<1> QED BY <1>1, GossipInvariant, PTL

\* The expect() calls on a neighbor's record and address never fail: what a
\* Node counts as its neighbor is in its database, with its address.
THEOREM NeighborsStayReachable == GossipSpec => []NeighborsReachable
<1>1. GossipInv => NeighborsReachable
  BY ZenonT(30) DEF GossipInv, SoundBase, NeighborsReachable
<1> QED BY <1>1, GossipInvariant, PTL

\* No gossip that an honest Node has sent is malformed to the Node it reaches,
\* whatever has become of either in the meantime.
THEOREM HonestNodesNotAccused == GossipSpec => []NobodyAccused
<1>1. GossipInv => NobodyAccused
  <2> SUFFICES ASSUME GossipInv, NEW n \in Nodes, NEW f \in Nodes, net[f][n] # <<>>,
                      Qualification(n, f, Head(net[f][n])) = "malformed"
               PROVE  FALSE
    BY DEF NobodyAccused
  <2> DEFINE g == Head(net[f][n])
  <2>1. g \in Range(net[f][n])
    BY SMTT(30), TakenIsNothingNew
  <2> HIDE DEF g
  <2>2. WellFormed(f, n, g) /\ TheAGR(g) \in g /\ \A a \in g : a.key # n
    BY <2>1, ReceivedSound DEF WellFormed
  <2>3. ASSUME Cardinality(g) = 1, ~TheAGR(g).addr PROVE FALSE
    <3>1. PICK x : g = {x}
      BY <2>2, <2>3, FS_Singleton DEF WellFormed
    <3>2. TheAGR(g) = x /\ x.addr
      BY <2>2, <3>1 DEF WellFormed
    <3> QED BY <2>3, <3>2
  <2>4. ASSUME Cardinality(g) = 2, \A a \in g : a.key # f PROVE FALSE
    <3>1. PICK a \in g : g = {a}
      BY <2>2, <2>4 DEF WellFormed
    <3>2. Cardinality(g) = 1
      BY Zenon, <3>1, FS_Singleton
    <3> QED BY <2>4, <3>2
  <2> QED BY <2>2, <2>3, <2>4, Qualified DEF g
<1> QED BY <1>1, GossipInvariant, PTL

\* No step of any Node replaces a record it holds by an older one.
THEOREM RecordsAreReplacedByNewer == GossipSpec => VersionsNeverFall
<1>1. GossipInv /\ [GossipNext]_gossipVars
        => [\A n, k \in Nodes :
              (base[n][k] # Absent /\ base'[n][k] # Absent)
                => base'[n][k].version >= base[n][k].version]_gossipVars
  BY StepInv DEF VersionsKept
<1> QED BY <1>1, GossipInvariant, PTL DEF GossipSpec, VersionsNeverFall
=============================================================================
