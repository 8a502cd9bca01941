------------------------------- MODULE Gossip -------------------------------
(***************************************************************************)
(* The gossip by which Nodes learn of each other, for a whole network of   *)
(* Nodes that run the Neighborhood (node/src/neighborhood: gossip_acceptor,*)
(* gossip_producer, neighborhood_database, node_record and the handlers of *)
(* mod.rs that use them).                                                  *)
(*                                                                         *)
(* Every Node keeps a database of Node records.  A record is signed by the *)
(* Node it describes and numbered by its version; it names the half        *)
(* neighbors of that Node.  Gossip is a set of records.  A receiver tells  *)
(* Debut, Pass, Introduction and Standard gossip apart by what the records *)
(* say and by whom they came from, and each class has its handler.         *)
(*                                                                         *)
(* Every Node here accepts connections and has an IP address of its own,   *)
(* so that an address is identified with the key; a record knows the       *)
(* address or does not.  Rate packs, wallets and countries never change    *)
(* and are left out.  What gossip means for the connection progress is the *)
(* subject of Connections.                                                 *)
(***************************************************************************)
EXTENDS Integers, Sequences, FiniteSetsExt, Functions

CONSTANTS
  N,             \* number of Nodes
  PatchSize,     \* db_patch_size
  Worlds,        \* the circumstances a behaviour may find
  Absent         \* no record

Nodes == 1 .. N

\* lists[n]: the Nodes of n's --neighbors parameter; settled: pairs of Nodes
\* that are neighbors from the start; max: MAX_DEGREE, 5 in the code;
\* enough: 2 in the code, a neighbor with more is not a poor one; setbacks:
\* the bound on streams that break and passes that expire.
World == [lists : [Nodes -> SUBSET Nodes], settled : SUBSET SUBSET Nodes,
          max : Nat, enough : Nat, setbacks : Nat]

ASSUME GossipAssumption ==
  /\ N \in Nat /\ PatchSize \in Nat
  /\ Worlds \subseteq World
  /\ \A w \in Worlds : /\ \A n \in Nodes : n \notin w.lists[n]
                       /\ \A e \in w.settled : Cardinality(e) = 2
  /\ Absent \notin [version : Nat, neighbors : SUBSET Nodes, addr : BOOLEAN]

VARIABLES
  world,     \* the circumstances of this behaviour
  base,      \* base[n]: by_public_key of n's neighborhood database
  ipIndex,      \* ipIndex[n]: by_ip_addr of n's database
  targets,   \* targets[n]: previous_pass_targets of n
  net,       \* net[n][k]: gossip on its way from n to k
  opened,    \* opened[n]: Nodes to which n has opened a stream
  closing,   \* <<n, k>>: n will be told that its stream to k has closed
  started,   \* Nodes that have had their StartMessage
  setbacks     \* streams that have broken, passes that have expired

gossipVars ==
  <<world, base, ipIndex, targets, net, opened, closing, started, setbacks>>

Lists == world.lists
MAX_DEGREE == world.max
EnoughDegree == world.enough
MaxSetbacks == world.setbacks

Record == [version : Nat, neighbors : SUBSET Nodes, addr : BOOLEAN]

\* An AccessibleGossipRecord.
AGR == [key : Nodes, version : Nat, neighbors : SUBSET Nodes, addr : BOOLEAN]

\* The Nodes that k is a neighbor of from the start.
Old(k) == {j \in Nodes : {j, k} \in world.settled}

\* A network that has settled, in which everybody knows every record and the
\* addresses of neighbors, and Nodes that are about to start.  A Node
\* without a list has nothing to do when it starts.
GossipInit ==
  /\ world \in Worlds
  /\ base = [n \in Nodes |-> [k \in Nodes |->
               IF k = n \/ (Old(k) # {} /\ Old(n) # {})
                 THEN [version |-> Cardinality(Old(k)), neighbors |-> Old(k),
                       addr |-> k = n \/ k \in Old(n)]
                 ELSE Absent]]
  /\ ipIndex = [n \in Nodes |-> {n} \cup Old(n)]
  /\ targets = [n \in Nodes |-> {}]
  /\ net = [n \in Nodes |-> [k \in Nodes |-> <<>>]]
  /\ opened = [n \in Nodes |-> {k \in Old(n) : k < n}]
  /\ closing = {}
  /\ started = {n \in Nodes : Lists[n] = {}}
  /\ setbacks = 0

-----------------------------------------------------------------------------
(* NeighborhoodDatabase and NodeRecord, for a database d.                  *)

Keys(d) == {k \in Nodes : d[k] # Absent}

FullNeighborKeys(d, k) ==
  {j \in d[k].neighbors : d[j] # Absent /\ k \in d[j].neighbors}

\* A neighbor that is not in the database is assumed to be a full one.
GossipTargetDegree(d, k) ==
  Cardinality(FullNeighborKeys(d, k)) + Cardinality(d[k].neighbors \ Keys(d))

ReferencedNodeKeys(d, root) ==
  {root} \cup UNION {d[k].neighbors : k \in Keys(d)}

FromAGR(a) == [version |-> a.version, neighbors |-> a.neighbors, addr |-> a.addr]

\* add_half_neighbor of a key that is none yet, and the new signed version.
AddHalfNeighbor(d, root, k) ==
  [d EXCEPT ![root].neighbors = @ \cup {k}, ![root].version = @ + 1]

\* NodeRecord::update: the address, once known, stays.
UpdateRecord(r, a) ==
  [version |-> a.version, neighbors |-> a.neighbors, addr |-> r.addr \/ a.addr]

-----------------------------------------------------------------------------
(* GossipBuilder and GossipProducer.                                       *)

Describe(d, k, reveal) ==
  [key |-> k, version |-> d[k].version, neighbors |-> d[k].neighbors,
   addr |-> reveal /\ d[k].addr]

ProduceDebut(d, n) == {Describe(d, n, TRUE)}

\* Mutant: the target is told about itself.
ProduceWithTarget(d, n, target) ==
  {Describe(d, k, k = n \/ k \in d[target].neighbors) :
     k \in Keys(d) \cap ReferencedNodeKeys(d, n)}

\* All that n knows and that somebody refers to, except the target itself;
\* addresses only of n and of those the target is connected to.
Produce(d, n, target) ==
  {Describe(d, k, k = n \/ k \in d[target].neighbors) :
     k \in (Keys(d) \cap ReferencedNodeKeys(d, n)) \ {target}}

\* The network once n has taken the next gossip from f.
Taken(n, f) == [net EXCEPT ![f][n] = Tail(@)]

\* The network being w, n sends msgs[k] to every k of ks, and opens the
\* streams it lacks.
SendAll(w, n, ks, msgs) ==
  /\ net' = [w EXCEPT ![n] =
               [k \in Nodes |-> IF k \in ks THEN Append(w[n][k], msgs[k])
                                            ELSE w[n][k]]]
  /\ opened' = [opened EXCEPT ![n] = @ \cup {k \in ks : n \notin opened[k]}]

\* cull_dead_nodes: those of the Nodes nobody refers to that are old enough.
DeadNodes(d, n) == Keys(d) \ ReferencedNodeKeys(d, n)

\* n's database has become d.  If that is a change to talk about,
\* gossip_to_neighbors: every half neighbor whose address is known gets
\* gossip of its own, and if a minute has passed since the last time, dead
\* Nodes are culled first.
SendGossipToNeighbors(w, n, d, ips, changed) ==
  \E culled \in SUBSET (IF changed THEN DeadNodes(d, n) ELSE {}) :
    LET d2 == [k \in Nodes |-> IF k \in culled THEN Absent ELSE d[k]]
        ks == {k \in d2[n].neighbors : changed /\ d2[k] # Absent /\ d2[k].addr}
    IN  /\ base' = [base EXCEPT ![n] = d2]
        /\ ipIndex' = [ipIndex EXCEPT ![n] = ips \ culled]
        /\ SendAll(w, n, ks, [k \in ks |-> Produce(d2, n, k)])

\* handle_gossip_ignored.
Ignore(w) == net' = w /\ UNCHANGED <<base, ipIndex, opened>>

Reply(w, n, d, ips, k, g) ==
  /\ base' = [base EXCEPT ![n] = d]
  /\ ipIndex' = [ipIndex EXCEPT ![n] = ips]
  /\ SendAll(w, n, {k}, [j \in {k} |-> g])

-----------------------------------------------------------------------------
(* The qualification of gossip g that reaches n from f, by the handlers in *)
(* their order.                                                            *)

TheAGR(g) == CHOOSE a \in g : TRUE
AGRAbout(g, k) == CHOOSE a \in g : a.key = k

Qualification(n, f, g) ==
  LET single == Cardinality(g) = 1
      known == TheAGR(g).key \in Keys(base[n])
      pair == Cardinality(g) = 2 /\ \A a \in g : a.addr
  IN  CASE single /\ ~TheAGR(g).addr                        -> "malformed"
        [] single /\ TheAGR(g).addr /\ TheAGR(g).key # f    -> "pass"
        [] single /\ TheAGR(g).addr /\ TheAGR(g).key = f /\ ~known -> "debut"
        [] pair /\ \A a \in g : a.key # f                   -> "malformed"
        [] pair /\ (\E a \in g : a.key = f)
                /\ (\E a \in g : a.key # f /\ a.key \notin Keys(base[n]))
                                                            -> "introduction"
        [] OTHER -> IF \E a \in g : a.key = n THEN "malformed" ELSE "standard"

-----------------------------------------------------------------------------
(* The handlers, of gossip g that n has taken from f, leaving the network  *)
(* w.                                                                      *)

\* Which of ks have the fewest neighbors: the sort is unstable.
LeastConnected(d, ks) ==
  {k \in ks : \A j \in ks : GossipTargetDegree(d, k) <= GossipTargetDegree(d, j)}

MoreAppropriateNeighbors(d, n, excluded) ==
  {k \in LeastConnected(d, {j \in FullNeighborKeys(d, n) \ excluded :
                              GossipTargetDegree(d, j) > EnoughDegree}) :
     GossipTargetDegree(d, k) < GossipTargetDegree(d, n)}

\* Mutant: the version counts the change of the copy.
ResponseCounted(d, n, f) ==
  {[key |-> n, version |-> d[n].version + 1, neighbors |-> {f}, addr |-> TRUE]}

\* What create_debut_gossip_response signs: the version of the real record,
\* but only the debuting Node for a neighbor.
DebutGossipResponse(d, n, f) ==
  {[key |-> n, version |-> d[n].version, neighbors |-> {f}, addr |-> TRUE]}

TryAcceptDebut(w, n, f, a) ==
  LET d == AddHalfNeighbor([base[n] EXCEPT ![f] = FromAGR(a)], n, f)
      ips == ipIndex[n] \cup {f}
      lcn == LeastConnected(d, FullNeighborKeys(d, n) \ ({f} \cup a.neighbors))
  IN  \/ /\ a.neighbors # {}
         /\ SendGossipToNeighbors(w, n, d, ips, TRUE)
      \/ /\ a.neighbors = {}
         /\ lcn # {}
         /\ \E k \in lcn :
              Reply(w, n, d, ips, f, {Describe(d, n, TRUE), Describe(d, k, TRUE)})
      \/ /\ a.neighbors = {}
         /\ lcn = {}
         /\ Reply(w, n, d, ips, f, DebutGossipResponse(d, n, f))

DebutHandler(w, n, f, g) ==
  LET a == TheAGR(g)
      d == base[n]
      excluded == {f} \cup a.neighbors
      better == MoreAppropriateNeighbors(d, n, excluded)
      full == GossipTargetDegree(d, n) >= MAX_DEGREE
      lcn == LeastConnected(d, d[n].neighbors \ excluded)
  IN  \/ /\ better # {}
         /\ \E k \in better : Reply(w, n, d, ipIndex[n], f, {Describe(d, k, TRUE)})
      \/ /\ better = {}
         /\ ~full
         /\ TryAcceptDebut(w, n, f, a)
      \/ /\ better = {}
         /\ full
         /\ \E k \in lcn : Reply(w, n, d, ipIndex[n], f, {Describe(d, k, TRUE)})

\* On to the Node that the record is about, unless n has been passed to it
\* before and PASS_GOSSIP_EXPIRED_TIME has not gone by, or is waiting for it
\* already (connection_progress_peers: n's list, less the peers that have
\* passed n on since).
PassHandler(w, n, f, g) ==
  LET k == TheAGR(g).key
  IN  \/ /\ \/ k \notin targets[n] /\ UNCHANGED setbacks
            \/ /\ k \in targets[n] /\ setbacks < MaxSetbacks
               /\ setbacks' = setbacks + 1
         /\ targets' = [targets EXCEPT ![n] = @ \cup {k}]
         /\ Reply(w, n, base[n], ipIndex[n], k, ProduceDebut(base[n], n))
      \/ /\ k \in targets[n] \cup Lists[n]                 \* PassLoopFound
         /\ Ignore(w)
         /\ UNCHANGED <<targets, setbacks>>

\* IntroductionHandler: the introducer becomes a neighbor, unless its record
\* here is as recent as the one it sent; the introducee gets a Debut.
IntroducerUpdated(n, a) ==
  LET d == base[n]
  IN  CASE d[a.key] = Absent ->
             AddHalfNeighbor([d EXCEPT ![a.key] = FromAGR(a)], n, a.key)
        [] d[a.key] # Absent /\ d[a.key].version < a.version ->
             LET d2 == [d EXCEPT ![a.key] = UpdateRecord(@, a)]
             IN  IF a.key \in d[n].neighbors
                   THEN d2 ELSE AddHalfNeighbor(d2, n, a.key)
        [] OTHER -> d

IntroductionHandler(w, n, f, g) ==
  LET a == AGRAbout(g, f)
      introducee == CHOOSE k \in {b.key : b \in g} : k # f
      d == IntroducerUpdated(n, a)
      ips == IF base[n][f] = Absent THEN ipIndex[n] \cup {f} ELSE ipIndex[n]
  IN  Reply(w, n, d, ips, introducee, ProduceDebut(d, n))

\* compute_patch: the Nodes within PatchSize hops of n, along n's neighbors
\* and those the gossip gives, in the depth-first order of the code.
ComputePatch(n, g) ==
  LET Neighbors(k) ==
        IF k = n THEN base[n][n].neighbors ELSE AGRAbout(g, k).neighbors
      visit[h \in 0 .. PatchSize, ks \in SUBSET Nodes, patch \in SUBSET Nodes] ==
        IF ks = {} THEN patch
        ELSE LET k == Min(ks)
             IN  visit[h, ks \ {k},
                   CASE k \in patch -> patch
                     [] k \notin patch /\ h = 0 -> patch \cup {k}
                     [] k \notin patch /\ h > 0 ->
                          IF k # n /\ \A a \in g : a.key # k THEN patch
                          ELSE visit[h - 1, Neighbors(k), patch \cup {k}]]
  IN  visit[PatchSize, {n}, {}]

\* A new Node is added if its address is hidden, or is the very socket the
\* gossip came from: the stream is one that n has opened.
NewNodes(n, f, filtered) ==
  {a \in filtered : /\ base[n][a.key] = Absent
                    /\ a.addr => (a.key = f /\ f \in opened[n])}

\* Mutant: any other version replaces the record.
DifferingNodes(n, filtered) ==
  {a \in filtered : base[n][a.key] # Absent /\ a.version # base[n][a.key].version}

ObsoleteNodes(n, filtered) ==
  {a \in filtered : base[n][a.key] # Absent /\ a.version > base[n][a.key].version}

\* The database after identify_and_add_non_introductory_new_nodes and
\* identify_and_update_obsolete_nodes.
Learned(n, new, obsolete) ==
  [k \in Nodes |->
     IF \E a \in new : a.key = k THEN FromAGR(AGRAbout(new, k))
     ELSE IF \E a \in obsolete : a.key = k
       THEN UpdateRecord(base[n][k], AGRAbout(obsolete, k))
     ELSE base[n][k]]

StandardGossipHandler(w, n, f, g) ==
  LET patch == ComputePatch(n, g)
      filtered == {a \in g : a.key \in patch}
      new == NewNodes(n, f, filtered)
      obsolete == ObsoleteNodes(n, filtered)
      d == Learned(n, new, obsolete)
      ips == ipIndex[n] \cup {a.key : a \in {b \in new : b.addr}}
      adds == /\ f \in ips                     \* add_src_node_as_half_neighbor
              /\ Cardinality(FullNeighborKeys(d, n)) < MAX_DEGREE
              /\ f \notin d[n].neighbors
  IN  SendGossipToNeighbors(w, n, IF adds THEN AddHalfNeighbor(d, n, f) ELSE d,
                            ips, new \cup obsolete # {} \/ adds)

-----------------------------------------------------------------------------
(* The steps of the network.                                               *)

\* handle_start_message: a Debut to each of the --neighbors.
HandleStartMessage(n) ==
  /\ n \notin started
  /\ started' = started \cup {n}
  /\ SendAll(net, n, Lists[n],
             [k \in Lists[n] |-> ProduceDebut(base[n], n)])
  /\ UNCHANGED <<base, ipIndex, targets, closing, setbacks>>

\* A Debut with nobody to pass it to (GossipFailure NoSuitableNeighbors, see
\* Connections), and an Introduction to a Node that has all its neighbors.
Unsuitable(n, f, g, class) ==
  LET d == base[n]
      excluded == {f} \cup TheAGR(g).neighbors
  IN  \/ /\ class = "debut"
         /\ MoreAppropriateNeighbors(d, n, excluded) = {}
         /\ GossipTargetDegree(d, n) >= MAX_DEGREE
         /\ d[n].neighbors \subseteq excluded
      \/ /\ class = "introduction"
         /\ Cardinality(FullNeighborKeys(d, n)) >= MAX_DEGREE

\* handle_gossip; a Node that has not started does not listen yet.  A ban for
\* malformed gossip would only be logged; NobodyAccused says there is none.
ReceiveGossip(n, f) ==
  /\ n \in started
  /\ net[f][n] # <<>>
  /\ LET g == Head(net[f][n])
         w == Taken(n, f)
         class == Qualification(n, f, g)
     IN  \/ class = "pass" /\ PassHandler(w, n, f, g)
         \/ /\ \/ class = "debut" /\ DebutHandler(w, n, f, g)
               \/ /\ class = "introduction" /\ ~Unsuitable(n, f, g, class)
                  /\ IntroductionHandler(w, n, f, g)
               \/ Unsuitable(n, f, g, class) /\ Ignore(w)
               \/ class = "standard" /\ StandardGossipHandler(w, n, f, g)
            /\ UNCHANGED <<targets, setbacks>>
  /\ UNCHANGED <<closing, started>>

\* The stream between n and k breaks; what is on its way is lost.
StreamBreaks(n, k) ==
  /\ setbacks < MaxSetbacks
  /\ k \in opened[n]
  /\ setbacks' = setbacks + 1
  /\ opened' = [opened EXCEPT ![n] = @ \ {k}, ![k] = @ \ {n}]
  /\ net' = [net EXCEPT ![n][k] = <<>>, ![k][n] = <<>>]
  /\ closing' = closing \cup {<<n, k>>, <<k, n>>}
  /\ UNCHANGED <<base, ipIndex, targets, started>>

\* Mutant: the neighbor loses its address and stays a neighbor.
UnsetNodeAddr(n, k) == [base[n] EXCEPT ![k].addr = FALSE]

\* remove_neighbor of the database: the address goes, and the neighborship.
RemoveNeighbor(n, k) ==
  [base[n] EXCEPT
     ![k].addr = FALSE,
     ![n].neighbors = @ \ {k},
     ![n].version = IF k \in base[n][n].neighbors THEN @ + 1 ELSE @]

\* handle_stream_shutdown_msg, and remove_neighbor.
HandleStreamShutdown(n, k) ==
  /\ <<n, k>> \in closing
  /\ closing' = closing \ {<<n, k>>}
  /\ \/ k \notin ipIndex[n] /\ UNCHANGED <<base, ipIndex, net, opened>>
     \/ /\ k \in ipIndex[n]
        /\ SendGossipToNeighbors(net, n, RemoveNeighbor(n, k), ipIndex[n] \ {k},
                                 k \in base[n][n].neighbors)
  /\ UNCHANGED <<targets, started, setbacks>>

HandlerRuns ==
  \/ \E n \in Nodes : HandleStartMessage(n)
  \/ \E n, k \in Nodes : ReceiveGossip(n, k) \/ HandleStreamShutdown(n, k)

GossipNext ==
  /\ HandlerRuns \/ \E n, k \in Nodes : StreamBreaks(n, k)
  /\ UNCHANGED world

GossipSpec == GossipInit /\ [][GossipNext]_gossipVars

\* When HandlerRuns is enabled.
SomethingToHandle ==
  \/ started # Nodes
  \/ closing # {}
  \/ \E n, k \in Nodes : net[k][n] # <<>>

\* While some Node has something to handle, some Node handles something:
\* weak fairness of HandlerRuns, with its enabling condition written out.
GossipFairSpec ==
  GossipSpec /\ ([]<>~SomethingToHandle \/ []<><<HandlerRuns>>_gossipVars)

-----------------------------------------------------------------------------
(* Properties.                                                             *)

OnTheWay == UNION {UNION {Range(net[n][k]) : k \in Nodes} : n \in Nodes}

\* Databases hold records, and the network carries gossip that has at most
\* one record of a Node, as compute_patch supposes (agrs_by_key).
GossipTypeOK ==
  /\ world \in Worlds
  /\ base \in [Nodes -> [Nodes -> Record \cup {Absent}]]
  /\ ipIndex \in [Nodes -> SUBSET Nodes]
  /\ targets \in [Nodes -> SUBSET Nodes]
  /\ net \in [Nodes -> [Nodes -> Seq(SUBSET AGR)]]
  /\ opened \in [Nodes -> SUBSET Nodes]
  /\ closing \subseteq Nodes \X Nodes
  /\ started \subseteq Nodes
  /\ setbacks \in 0 .. MaxSetbacks
  /\ \A g \in OnTheWay : \A a, b \in g : a.key = b.key => a = b

\* Nobody holds, and nothing on its way carries, a record of a Node that is
\* newer than the one the Node itself holds: only root records get a new
\* version (increment_version is called on root_mut alone), so a stale copy
\* can always be superseded by its owner.
NobodyAhead ==
  /\ \A n, k \in Nodes :
       base[n][k] # Absent => base[n][k].version <= base[k][k].version
  /\ \A g \in OnTheWay : \A a \in g : a.version <= base[a.key][a.key].version

\* The neighbors a Node counts on are in its database with their addresses:
\* DebutHandler takes the address of a more appropriate neighbor by
\* expect("Preferred Node's NodeAddr disappeared"), and gossip goes to
\* every half neighbor through its address.
NeighborsReachable ==
  \A n \in Nodes : \A k \in base[n][n].neighbors :
    k # n /\ base[n][k] # Absent /\ base[n][k].addr

\* Nodes that follow the protocol never take each other for malefactors,
\* however their gossip crosses: what one of them has sent is never
\* qualified as malformed by the one that gets it.
NobodyAccused ==
  \A n, f \in Nodes :
    net[f][n] # <<>> => Qualification(n, f, Head(net[f][n])) # "malformed"

\* A record held in a database is replaced by newer ones only
\* (identify_and_update_obsolete_nodes, update_database): gossip that is
\* overtaken by newer gossip over another path does no harm.
VersionsNeverFall ==
  [][\A n, k \in Nodes :
       (base[n][k] # Absent /\ base'[n][k] # Absent)
         => base'[n][k].version >= base[n][k].version]_gossipVars

\* The gossip that a Node's arrival sets off dies down: what brings nothing
\* new is ignored and not passed on.
GossipDiesDown == <>[](\A n, k \in Nodes : net[n][k] = <<>>)

\* Every Node that has someone to debut to becomes a full neighbor of some
\* Node and knows it, while no stream breaks and there is room.
EveryoneJoins ==
  N <= MAX_DEGREE =>
    ([](setbacks = 0) =>
      <>[](\A n \in Nodes :
             Lists[n] # {} => FullNeighborKeys(base[n], n) # {}))
=============================================================================
