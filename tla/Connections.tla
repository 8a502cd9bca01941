---------------------------- MODULE Connections ----------------------------
(***************************************************************************)
(* How a Node gets into the network: the connection progress that the      *)
(* Neighborhood keeps for every Node of --neighbors, and the overall       *)
(* connection stage it shows the user (node/src/neighborhood/mod.rs and    *)
(* overall_connection_status.rs).                                          *)
(*                                                                         *)
(* The Neighborhood sends a Debut to every initial Node.  What happens     *)
(* next reaches its mailbox from four sides: the futures of the            *)
(* StreamHandlerPool report every connection attempt, the gossip of peers  *)
(* is classified by the GossipAcceptor, which posts further messages to    *)
(* the same mailbox, a timer asks ten seconds after a connection whether   *)
(* anything has come back, and closed streams are announced.  The handlers *)
(* are steps; their orders are all possible.                               *)
(*                                                                         *)
(* Gossip is abstracted to the class it belongs to and the Node it is      *)
(* about; the neighborhood database to the four facts the classification   *)
(* looks at.  Gossip models both in full.                                  *)
(***************************************************************************)
EXTENDS Integers, Sequences, FiniteSets, SequencesExt

CONSTANTS
  Peers,        \* other Nodes, each with an IP address of its own
  Journeys,     \* lists of initial Nodes with the faults they are exposed to
  MaxMishaps,   \* bound: streams that break or cross in a behaviour
  Nobody        \* no peer: the target of an event that has none

\* "unreachable": connection attempts fail.  "late": a peer answers after
\* the timer of ten seconds.  "apart": passes come more than a minute apart.
\* "crossing": a peer debuts to us on a stream of its own.  "drop": streams
\* break.  "refusal": a Debut is refused by a Node that is none of the
\* initial ones, or for the second time.  "reunion": a peer introduces us or
\* passes us on to a Node that we have heard of before.  "passing": peers do
\* nothing but pass us on.
PossibleWeather ==
  {"unreachable", "late", "apart", "crossing", "drop", "refusal", "reunion",
   "passing"}

ASSUME ConnectionsAssumption ==
  /\ \A j \in Journeys : /\ j.initial \in Seq(Peers) /\ IsInjective(j.initial)
                         /\ j.weather \subseteq PossibleWeather
  /\ MaxMishaps \in Nat
  /\ Nobody \notin Peers

VARIABLES
  progress,   \* overall_connection_status.progress
  stage,      \* overall_connection_status.stage
  inbox,      \* mailbox of the Neighborhood
  timers,     \* AskAboutDebutGossipMessages on their way, oldest first
  outgoing,   \* peers to which a Debut of ours is on its way
  link,       \* link[p]: the stream to p in the StreamHandlerPool
  owing,      \* <<p, what>>: p has our Debut or our gossip, and may answer
  db,         \* keys in the neighborhood database
  byIp,       \* peers found by node_by_ip
  half,       \* half neighbors of the root
  listing,    \* peers whose record lists the root as neighbor
  deep,       \* peers beyond which enough hops are known
  passed,     \* previous_pass_targets
  starts,     \* StartMessages sent to the Accountant, counted to two
  mishaps,    \* streams that have broken or crossed
  status,     \* "running", "stopped" or "panicked"
  initial,    \* sequence of distinct peers: the --neighbors parameter
  weather     \* faults of this behaviour

connVars == <<progress, stage, inbox, timers, outgoing, link, owing, db, byIp,
              half, listing, deep, passed, starts, mishaps, status, initial,
              weather>>
dbVars == <<db, byIp, half, listing, deep>>
wireVars == <<outgoing, link, owing, mishaps>>

Failures == {"TcpConnectionFailed", "NoGossipResponseReceived", "PassLoopFound"}
Stages == {"StageZero", "TcpConnectionEstablished", "NeighborshipEstablished"}
            \cup Failures

\* usize::try_from of a ConnectionStage: -1 stands for Err.
StageNumber(s) ==
  CASE s = "StageZero" -> 0
    [] s = "TcpConnectionEstablished" -> 1
    [] s = "NeighborshipEstablished" -> 2
    [] OTHER -> -1

NewProgress(p) == [desc |-> p, peer |-> p, stage |-> "StageZero"]
ConnectionProgress == [desc : Peers, peer : Peers, stage : Stages]

CPM(p, event, target) ==
  [type |-> "cpm", from |-> p, event |-> event, target |-> target]
GossipFrom(p, kind, target) ==
  [type |-> "gossip", from |-> p, event |-> kind, target |-> target]
Removal(p, event) ==
  [type |-> "removal", from |-> p, event |-> event, target |-> Nobody]

ConnInit ==
  /\ \E j \in Journeys : initial = j.initial /\ weather = j.weather
  /\ progress = [i \in DOMAIN initial |-> NewProgress(initial[i])]
  /\ stage = "NotConnected"
  /\ inbox = <<>>
  /\ timers = <<>>
  /\ outgoing = ToSet(initial)
  /\ link = [p \in Peers |-> "none"]
  /\ owing = {}
  /\ db = {} /\ byIp = {} /\ half = {} /\ listing = {} /\ deep = {}
  /\ passed = {}
  /\ starts = 0
  /\ mishaps = 0
  /\ status = "running"

Running == status = "running"
FullNeighbors == half \cap listing

\* make_round_trip_route of search_for_a_new_route finds a route.
RouteExists(hs, ls, dp) == hs \cap ls \cap dp # {}

\* check_connectedness: stage and starts after the database became hs, ls, dp.
CheckConnectedness(hs, ls, dp) ==
  IF stage # "RouteFound" /\ RouteExists(hs, ls, dp)
    THEN /\ stage' = "RouteFound"
         /\ starts' = IF starts < 2 THEN starts + 1 ELSE starts
    ELSE UNCHANGED <<stage, starts>>

-----------------------------------------------------------------------------
(* The StreamHandlerPool: one stream for every IP address.                 *)

\* A Debut reaches the pool: it leaves on an open stream, or opens one.  A
\* Debut that meets a stream being opened is resubmitted until it is open.
TransmitDebut(p) ==
  /\ Running
  /\ p \in outgoing
  /\ link[p] \notin {"opening", "reopening"}
  /\ outgoing' = outgoing \ {p}
  /\ IF link[p] = "none"
       THEN link' = [link EXCEPT ![p] = "opening"] /\ UNCHANGED owing
       ELSE owing' = owing \cup {<<p, "debut">>} /\ UNCHANGED link
  /\ UNCHANGED <<progress, stage, inbox, timers, dbVars, passed, starts,
                 mishaps, status, initial, weather>>

\* Update gossip or relayed data for a half neighbor whose stream has broken,
\* looked up before its shutdown has reached the Neighborhood.
TransmitToNeighbor(p) ==
  /\ Running
  /\ p \in half
  /\ link[p] = "none"
  /\ link' = [link EXCEPT ![p] = "reopening"]
  /\ UNCHANGED <<progress, stage, inbox, timers, outgoing, owing, dbVars,
                 passed, starts, mishaps, status, initial, weather>>

\* StreamStartSuccessHandler::handle.
ConnectSucceeds(p) ==
  /\ Running
  /\ link[p] \in {"opening", "reopening", "crossed"}
  /\ link' = [link EXCEPT ![p] = "ours"]
  /\ owing' = owing \cup (IF link[p] = "reopening" THEN {} ELSE {<<p, "debut">>})
  /\ inbox' = Append(inbox, CPM(p, "TcpConnectionSuccessful", Nobody))
  /\ UNCHANGED <<progress, stage, timers, outgoing, dbVars, passed, starts,
                 mishaps, status, initial, weather>>

\* StreamStartFailureHandler::handle: the pool forgets the stream, and the
\* Neighborhood is told twice.  A Debut carries an empty key, so that its
\* RemoveNeighborMessage finds no neighbor.
ConnectFails(p) ==
  /\ Running
  /\ "unreachable" \in weather
  /\ link[p] \in {"opening", "reopening", "crossed"}
  /\ link' = [link EXCEPT ![p] = "none"]
  /\ inbox' = inbox
       \o (IF link[p] = "reopening" THEN <<Removal(p, "RemoveNeighbor")>> ELSE <<>>)
       \o <<CPM(p, "TcpConnectionFailed", Nobody)>>
  /\ UNCHANGED <<progress, stage, timers, outgoing, owing, dbVars, passed,
                 starts, mishaps, status, initial, weather>>

\* A stream to p breaks: its reader has the pool forget the writer, and the
\* Dispatcher tells the Neighborhood.
DropStream(p) ==
  /\ Running
  /\ "drop" \in weather
  /\ mishaps < MaxMishaps
  /\ mishaps' = mishaps + 1
  /\ link[p] \in {"ours", "theirs"}
  /\ link' = [link EXCEPT ![p] = "none"]
  /\ owing' = {o \in owing : o[1] # p}
  /\ inbox' = Append(inbox, Removal(p, "StreamShutdown"))
  /\ UNCHANGED <<progress, stage, timers, outgoing, dbVars, passed, starts,
                 status, initial, weather>>

-----------------------------------------------------------------------------
(* Peers.                                                                  *)

\* p opens a stream to us and debuts.
PeerDebuts(p) ==
  /\ Running
  /\ "crossing" \in weather
  /\ mishaps < MaxMishaps
  /\ mishaps' = mishaps + 1
  /\ link[p] \in {"none", "opening"}
  /\ \A i \in DOMAIN inbox : inbox[i].from # p
  /\ link' = [link EXCEPT ![p] = IF @ = "none" THEN "theirs" ELSE "crossed"]
  /\ inbox' = Append(inbox, GossipFrom(p, "debut", Nobody))
  /\ UNCHANGED <<progress, stage, timers, outgoing, owing, dbVars, passed,
                 starts, status, initial, weather>>

\* The answers to a Debut: a lone Node debuts back; one that we were
\* introduced to sends its database; one with a neighbor to introduce
\* introduces it; one with a better place for us passes us on; one that has
\* none refuses.  Gossip of ours is answered by gossip about itself.
NeverHeardOf(q) ==
  /\ q \notin ToSet(initial) \cup outgoing \cup passed
  /\ link[q] = "none"
  /\ \A i \in DOMAIN inbox : inbox[i].target # q

Targets(p) == {q \in Peers \ {p} : "reunion" \in weather \/ NeverHeardOf(q)}

RefusesFirst(p) ==
  /\ \E i \in DOMAIN progress : progress[i].desc = p
  /\ GossipFrom(p, "refusal", Nobody) \notin ToSet(inbox)

Answers(what, p) ==
  {GossipFrom(p, "pass", q) : q \in {t \in Targets(p) : what = "debut"}}
    \cup IF "passing" \in weather THEN {} ELSE
         {GossipFrom(p, "standard", Nobody)}
           \cup IF what = "gossip" THEN {} ELSE
                {GossipFrom(p, "debutBack", Nobody)}
                  \cup {GossipFrom(p, "introduction", q) : q \in Targets(p)}
                  \cup {m \in {GossipFrom(p, "refusal", Nobody)} :
                          "refusal" \in weather \/ RefusesFirst(p)}

PeerAnswers(o) ==
  /\ Running
  /\ o \in owing
  /\ \E m \in Answers(o[2], o[1]) : inbox' = Append(inbox, m)
  /\ owing' = owing \ {o}
  /\ UNCHANGED <<progress, stage, timers, outgoing, link, dbVars, passed,
                 starts, mishaps, status, initial, weather>>

PeerStaysSilent(o) ==
  /\ Running
  /\ o \in owing
  /\ owing' = owing \ {o}
  /\ UNCHANGED <<progress, stage, inbox, timers, outgoing, link, dbVars, passed,
                 starts, mishaps, status, initial, weather>>

-----------------------------------------------------------------------------
(* Handler<ConnectionProgressMessage> and Handler<AskAboutDebutGossip>.    *)

PeerAddrs == {progress[i].peer : i \in DOMAIN progress}

\* The position of the progress whose current peer is p, or 0.
ProgressByIp(p) == SelectInSeq(progress, LAMBDA c : c.peer = p)

\* get_connection_progress_to_modify: 0 stands for Err.
ConnectionProgressToModify(m) ==
  IF m.event = "PassGossipReceived" /\ m.target \in PeerAddrs
    THEN 0
    ELSE ProgressByIp(m.from)

\* The stage that update_connection_stage asks update_stage for.
StageFor(event) ==
  CASE event = "TcpConnectionSuccessful" -> "TcpConnectionEstablished"
    [] event \in {"IntroductionGossipReceived", "StandardGossipReceived"} ->
         "NeighborshipEstablished"
    [] OTHER -> event

\* update_stage panics unless a numbered stage is followed by the next one.
CanUpdateStage(s, t) ==
  StageNumber(s) >= 0 /\ StageNumber(t) >= 0 => StageNumber(t) = StageNumber(s) + 1

\* handle_pass_gossip panics in any other stage.
CanPass(s) == s \in {"StageZero", "TcpConnectionEstablished"}

Panic ==
  /\ status' = "panicked"
  /\ UNCHANGED <<progress, stage, timers, passed, starts, dbVars, wireVars, initial, weather>>

AskNobody(c) == timers
AskAboutDebutGossip(c) == Append(timers, c)

\* handle_pass_gossip: the new peer starts from nothing.
PassedTo(c, p) == [c EXCEPT !.peer = p, !.stage = "StageZero"]

UpdateConnectionStage(i, m) ==
  LET c == progress[i]
      t == StageFor(m.event)
      newC == [c EXCEPT !.stage = t]
  IN  IF m.event = "PassGossipReceived"
        THEN IF CanPass(c.stage)
               THEN /\ progress' = [progress EXCEPT ![i] = PassedTo(c, m.target)]
                    /\ UNCHANGED <<stage, timers, passed, starts, dbVars,
                                   wireVars, status, initial, weather>>
               ELSE Panic
        ELSE IF CanUpdateStage(c.stage, t)
               THEN /\ progress' = [progress EXCEPT ![i] = newC]
                    /\ timers' = IF m.event = "TcpConnectionSuccessful"
                                   THEN AskAboutDebutGossip(newC) ELSE timers
                    /\ stage' = IF t = "NeighborshipEstablished"
                                  THEN "ConnectedToNeighbor" ELSE stage
                    /\ UNCHANGED <<passed, starts, dbVars, wireVars, status, initial, weather>>
               ELSE Panic

HandleConnectionProgress ==
  /\ Running
  /\ inbox # <<>>
  /\ Head(inbox).type = "cpm"
  /\ inbox' = Tail(inbox)
  /\ LET i == ConnectionProgressToModify(Head(inbox))
     IN  IF i = 0
           THEN UNCHANGED <<progress, stage, timers, passed, starts, dbVars,
                            wireVars, status, initial, weather>>
           ELSE UpdateConnectionStage(i, Head(inbox))

\* The timer goes off: a progress that has not moved has had no answer.
\* Ten seconds are enough for an answer to come in and be handled, unless
\* the weather is "late".
InTime(c) ==
  /\ \A o \in owing : o[1] # c.peer
  /\ \A i \in DOMAIN inbox : inbox[i].from # c.peer

FailsWhenMoved(i, c) == i # 0

HasNotMoved(i, c) == i # 0 /\ progress[i] = c

HandleAskAboutDebutGossip ==
  /\ Running
  /\ timers # <<>>
  /\ "late" \in weather \/ InTime(Head(timers))
  /\ timers' = Tail(timers)
  /\ LET c == Head(timers)
         i == SelectInSeq(progress, LAMBDA x : x.desc = c.desc)
     IN  progress' = IF HasNotMoved(i, c)
                       THEN [progress EXCEPT ![i].stage = "NoGossipResponseReceived"]
                       ELSE progress
  /\ UNCHANGED <<stage, inbox, passed, starts, dbVars, wireVars, status, initial, weather>>

-----------------------------------------------------------------------------
(* Handlers of gossip, of refusals and of lost neighbors.                  *)

\* gossip_to_neighbors, on a database of these keys, addresses and neighbors:
\* produce may first cull a Node that is no neighbor and that nobody refers
\* to.  A neighbor that does not list us yet may answer.
GossipToNeighbors(ks, ips, hs, ls, dp) ==
  \E dead \in {{}} \cup {{q} : q \in ks \ hs} :
    /\ db' = ks \ dead
    /\ byIp' = ips \ dead
    /\ half' = hs
    /\ listing' = ls \ dead
    /\ deep' = dp \ dead
    /\ owing' = owing \cup
         {<<q, "gossip">> : q \in {r \in hs \ ls : link[r] \in {"ours", "theirs"}}}

\* DebutHandler: the first gossip of a Node that is not in the database is
\* taken for a Debut even when it answers ours, and no event is reported.
\* A Debut is answered; gossip that already names a neighbor is spread.
HandleDebut(m) ==
  LET p == m.from
  IN  /\ IF m.event = "debut"
           THEN /\ db' = db \cup {p} /\ byIp' = byIp \cup {p} /\ half' = half \cup {p}
                /\ owing' = owing \cup {<<p, "gossip">>}
                /\ UNCHANGED <<listing, deep>>
           ELSE \E dp \in {deep, deep \cup {p}} :
                  GossipToNeighbors(db \cup {p}, byIp \cup {p}, half \cup {p},
                                    listing \cup {p}, dp)
      /\ inbox' = Tail(inbox)
      /\ UNCHANGED <<outgoing, passed>>

\* PassHandler.
HandlePass(m) ==
  \E expired \in IF "apart" \in weather THEN BOOLEAN ELSE {FALSE} :
    LET loops == IF m.target \in passed THEN ~expired ELSE m.target \in PeerAddrs
    IN  /\ IF loops
             THEN /\ inbox' = Append(Tail(inbox), CPM(m.from, "PassLoopFound", Nobody))
                  /\ UNCHANGED <<passed, outgoing>>
             ELSE /\ inbox' = Append(Tail(inbox), CPM(m.from, "PassGossipReceived", m.target))
                  /\ passed' = passed \cup {m.target}
                  /\ outgoing' = outgoing \cup {m.target}
        /\ UNCHANGED <<dbVars, owing>>

\* IntroductionHandler: the introducer becomes a neighbor unless its record
\* is no newer than ours, and the introducee gets a Debut.
HandleIntroduction(m) ==
  LET p == m.from
  IN  /\ db' = db \cup {p}
      /\ byIp' = IF p \in db THEN byIp ELSE byIp \cup {p}
      /\ half' = IF p \in listing THEN half ELSE half \cup {p}
      /\ listing' = listing \cup {p}
      /\ inbox' = Append(Tail(inbox), CPM(p, "IntroductionGossipReceived", m.target))
      /\ outgoing' = outgoing \cup {m.target}
      /\ UNCHANGED <<deep, owing, passed>>


\* (false, true): the gossip makes its source a full neighbor.
BecomesFullNeighbor(p) == p \notin FullNeighbors

\* StandardGossipHandler.  An unknown source is entered only if its stream is
\* one we opened: otherwise its port is not the one of its record.  A source
\* that is known but not found by its IP address does not become a neighbor.
HandleStandard(m) ==
  LET p == m.from
      enters == p \notin db /\ link[p] = "ours"
      found == p \in byIp \/ enters
      lists == m.event # "debut"
  IN  /\ IF p \in db \/ enters
           THEN \E dp \in IF lists THEN {deep, deep \cup {p}} ELSE {deep} :
                  GossipToNeighbors(db \cup {p},
                                    IF enters THEN byIp \cup {p} ELSE byIp,
                                    IF found THEN half \cup {p} ELSE half,
                                    IF lists THEN listing \cup {p} ELSE listing, dp)
           ELSE UNCHANGED <<dbVars, owing>>
      /\ inbox' = IF found /\ lists /\ BecomesFullNeighbor(p)
                    THEN Append(Tail(inbox), CPM(p, "StandardGossipReceived", Nobody))
                    ELSE Tail(inbox)
      /\ UNCHANGED <<outgoing, passed>>

\* handle_gossip: the first handler that recognises the gossip gets it, and
\* then check_connectedness looks for a route unless one was found before.
HandleGossip ==
  /\ Running
  /\ inbox # <<>>
  /\ LET m == Head(inbox)
     IN  /\ m.type = "gossip"
         /\ m.event # "refusal"
         /\ \/ m.event \in {"debut", "debutBack"} /\ m.from \notin db /\ HandleDebut(m)
            \/ m.event = "pass" /\ HandlePass(m)
            \/ m.event = "introduction" /\ m.target \notin db /\ HandleIntroduction(m)
            \/ m.event \in {"debut", "debutBack"} /\ m.from \in db /\ HandleStandard(m)
            \/ m.event = "introduction" /\ m.target \in db /\ HandleStandard(m)
            \/ m.event = "standard" /\ HandleStandard(m)
  /\ CheckConnectedness(half', listing', deep')
  /\ UNCHANGED <<progress, timers, link, mishaps, status, initial, weather>>

\* handle_gossip_failure: the initial Node that refused is given up.
HandleGossipFailure ==
  /\ Running
  /\ inbox # <<>>
  /\ Head(inbox).type = "gossip"
  /\ Head(inbox).event = "refusal"
  /\ inbox' = Tail(inbox)
  /\ LET i == SelectInSeq(progress, LAMBDA c : c.desc = Head(inbox).from)
     IN  IF i = 0
           THEN Panic
           ELSE /\ progress' = RemoveAt(progress, i)
                /\ status' = IF Len(progress) = 1 THEN "stopped" ELSE status
                /\ UNCHANGED <<stage, timers, passed, starts, dbVars, wireVars, initial, weather>>

\* Handler<StreamShutdownMsg> and Handler<RemoveNeighborMessage>: the Node
\* loses its address and its neighborship.  Nothing looks at the stage.
HandleRemoval ==
  /\ Running
  /\ inbox # <<>>
  /\ Head(inbox).type = "removal"
  /\ inbox' = Tail(inbox)
  /\ LET p == Head(inbox).from
         known == IF Head(inbox).event = "StreamShutdown" THEN p \in byIp ELSE p \in db
     IN  IF known /\ p \in half
           THEN GossipToNeighbors(db, byIp \ {p}, half \ {p}, listing, deep)
           ELSE /\ byIp' = IF known THEN byIp \ {p} ELSE byIp
                /\ UNCHANGED <<db, half, listing, deep, owing>>
  /\ UNCHANGED <<progress, stage, timers, outgoing, link, passed, starts,
                 mishaps, status, initial, weather>>

-----------------------------------------------------------------------------
HandleMail ==
  \/ HandleConnectionProgress
  \/ HandleGossip
  \/ HandleGossipFailure
  \/ HandleRemoval

ConnNext ==
  \/ HandleMail
  \/ HandleAskAboutDebutGossip
  \/ \E p \in Peers :
       \/ TransmitDebut(p)
       \/ TransmitToNeighbor(p)
       \/ ConnectSucceeds(p)
       \/ ConnectFails(p)
       \/ DropStream(p)
       \/ PeerDebuts(p)
  \/ \E o \in owing : PeerAnswers(o) \/ PeerStaysSilent(o)

ConnSpec == ConnInit /\ [][ConnNext]_connVars

\* Actors and timers run, connection attempts end one way or the other, and
\* a peer answers or does not.
ConnFairSpec ==
  /\ ConnSpec
  /\ WF_connVars(HandleMail)
  /\ WF_connVars(HandleAskAboutDebutGossip)
  /\ \A p \in Peers :
       /\ WF_connVars(TransmitDebut(p))
       /\ WF_connVars(ConnectSucceeds(p) \/ ConnectFails(p))
       /\ WF_connVars(\E o \in owing : /\ o[1] = p
                                       /\ PeerAnswers(o) \/ PeerStaysSilent(o))

-----------------------------------------------------------------------------
(* Properties.                                                             *)

\* The variables keep to their types, and what the database says of a Node
\* it says of a Node that it has.
ConnTypeOK ==
  /\ progress \in Seq(ConnectionProgress)
  /\ stage \in {"NotConnected", "ConnectedToNeighbor", "RouteFound"}
  /\ timers \in Seq(ConnectionProgress)
  /\ outgoing \subseteq Peers
  /\ link \in [Peers -> {"none", "opening", "reopening", "crossed", "ours", "theirs"}]
  /\ owing \subseteq Peers \X {"debut", "gossip"}
  /\ byIp \subseteq db /\ half \subseteq db /\ listing \subseteq db /\ deep \subseteq db
  /\ db \subseteq Peers /\ passed \subseteq Peers
  /\ starts \in 0 .. 2
  /\ mishaps \in 0 .. MaxMishaps
  /\ status \in {"running", "stopped", "panicked"}

\* No two connection progresses are about the same peer, although peers pass
\* us on to Nodes of their own choice: an event of a peer has one progress
\* it can mean.
PeersDistinct ==
  \A i, j \in DOMAIN progress : progress[i].peer = progress[j].peer => i = j

\* What update_stage, handle_pass_gossip and handle_gossip_failure panic at
\* never happens while peers answer in time, on streams that we opened to
\* them and that hold, and send us to Nodes that are new to us and take us.
NoPanicInFairWeather ==
  weather \subseteq {"unreachable"} => status # "panicked"

\* The timer never takes back what was achieved: a progress fails for want of
\* an answer only as long as it waits for one, with the peer it asked about.
TimeoutOnlyWaiting ==
  [][\A i \in DOMAIN progress' :
        progress'[i].stage = "NoGossipResponseReceived" =>
          \E c \in ToSet(progress) :
            \/ c = progress'[i]
            \/ [c EXCEPT !.stage = "NoGossipResponseReceived"] = progress'[i]
               /\ c.stage = "TcpConnectionEstablished"]_connVars

\* The progress of every connection can be told, is not taken back by a timer,
\* and stays within what the code expects in fair weather.
ProgressIsSound == []PeersDistinct /\ []NoPanicInFairWeather /\ TimeoutOnlyWaiting

Settled(p) ==
  \/ status # "running"
  \/ \A i \in DOMAIN progress :
       progress[i].desc = p =>
         progress[i].stage \in Failures \cup {"NeighborshipEstablished"}

\* Every initial Node comes to a result: its progress establishes a
\* neighborship, possibly with a Node it was passed to, or fails, or is given
\* up.  (Where the peer was first to connect, no event would say so.)
EverySettles ==
  weather \subseteq {"unreachable"} =>
    \A p \in Peers : []<>(p \in ToSet(initial) => Settled(p))
=============================================================================
