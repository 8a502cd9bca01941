----------------------------- MODULE MCNeighborhood -----------------------------
(* How a Node finds its neighbors, seen by itself and by the network: part *)
(* says whether a behaviour is one of Connections or one of Gossip; the     *)
(* other model stays as it started.                                         *)
EXTENDS Connections, Gossip

CONSTANTS p1, p2, p3

Journey(list, faults) == [initial |-> list, weather |-> faults]

\* Two initial Nodes, or one where the faults are many.
MCJourneys ==
  {Journey(<<p1, p2>>, {"unreachable"}),
   Journey(<<p1, p2>>, {"late"}),
   Journey(<<p1, p2>>, {"refusal"}),
   Journey(<<p1, p2>>, {"reunion", "passing"}),
   Journey(<<p1, p2>>, {"apart", "passing"}),
   Journey(<<p1>>, {"apart", "reunion", "passing"}),
   Journey(<<p1>>, {"late", "reunion"}),
   Journey(<<p1>>, {"crossing"}),
   Journey(<<p1>>, {"drop"})}

Known(two, three, four) == <<{}, two, three, four>>

AWorld(lists, settled, max, enough, breaks) ==
  [lists |-> lists, settled |-> settled, max |-> max, enough |-> enough,
   setbacks |-> breaks]

\* Room for all, without and with a broken stream; a newcomer that is passed
\* on; Nodes that take one neighbor each, where gossip crosses.
MCWorlds ==
  {AWorld(Known({1}, {1}, {}), {}, 5, 2, 0),
   AWorld(Known({}, {1}, {}), {{1, 2}}, 5, 2, 0),
   AWorld(Known({1}, {}, {}), {}, 5, 2, 1),
   AWorld(Known({}, {}, {1}), {{1, 2}, {1, 3}}, 4, 0, 0),
   AWorld(Known({}, {}, {1}), {{1, 2}, {2, 3}}, 2, 0, 0),
   AWorld(Known({}, {}, {1, 2}), {{1, 3}, {2, 3}}, 1, 0, 1),
   AWorld(Known({1}, {1}, {}), {}, 1, 0, 1),
   AWorld(Known({1}, {2}, {}), {}, 1, 0, 1)}

VARIABLE part

\* Where a model stays when a behaviour is not about it.
ConnStill ==
  LET j == CHOOSE k \in Journeys : "crossing" \in k.weather
  IN  initial = j.initial /\ weather = j.weather /\ ConnInit
GossipStill == world = (CHOOSE w \in Worlds : w.max < N) /\ GossipInit

NeighborhoodInit ==
  \/ part = "connections" /\ ConnInit /\ GossipStill
  \/ part = "gossip" /\ ConnStill /\ GossipInit

NeighborhoodNext ==
  /\ UNCHANGED part
  /\ \/ part = "connections" /\ ConnNext /\ UNCHANGED gossipVars
     \/ part = "gossip" /\ GossipNext /\ UNCHANGED connVars

Connecting(A) == part = "connections" /\ A

\* The fairness of both models, each where a behaviour is about it.
NeighborhoodFairSpec ==
  /\ NeighborhoodInit
  /\ [][NeighborhoodNext]_<<part, connVars, gossipVars>>
  /\ WF_connVars(Connecting(HandleMail))
  /\ WF_connVars(Connecting(HandleAskAboutDebutGossip))
  /\ \A p \in Peers :
       /\ WF_connVars(Connecting(TransmitDebut(p)))
       /\ WF_connVars(Connecting(ConnectSucceeds(p) \/ ConnectFails(p)))
       /\ WF_connVars(Connecting(\E o \in owing : /\ o[1] = p
                                                  /\ PeerAnswers(o) \/ PeerStaysSilent(o)))
  /\ \/ []<>~(part = "gossip" /\ SomethingToHandle)
     \/ []<><<part = "gossip" /\ HandlerRuns>>_gossipVars


\* Every initial Node comes to a result (EverySettles of Connections); gossip
\* dies down and every newcomer has found neighbors (Gossip).
NeighborhoodSettles ==
  /\ part = "connections" => EverySettles
  /\ part = "gossip" => GossipDiesDown /\ EveryoneJoins
=============================================================================
