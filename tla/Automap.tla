------------------------------- MODULE Automap -------------------------------
(***************************************************************************)
(* Automap opens a hole for the Node's port in the router of its network   *)
(* (automap/src/control_layer, automap/src/comm_layer).  The control asks  *)
(* each protocol at each router for the public address until one answers,  *)
(* then maps the port with it.  A housekeeping thread of the protocol      *)
(* renews the mapping before the router's lease runs out; it takes one     *)
(* command from its channel after each pause.  Two programs use the        *)
(* control: the Node (actor_system_factory.rs), which keeps the hole for   *)
(* as long as it lives, and the automap tool (main.rs), which removes it.  *)
(* A Tick is one pause of the thread's loop; `lease` counts in ticks.      *)
(***************************************************************************)
EXTENDS Naturals, Sequences, FiniteSets, SequencesExt

CONSTANTS
    Networks,    \* what the routers of a network do: records, see Network
    Clients,     \* the programs that may be running: "node", "tool"
    NoProtocol,  \* no protocol is known yet
    Lifetime,    \* DEFAULT_MAPPING_LIFETIME_SECONDS, in ticks
    PollDelay,   \* PUBLIC_IP_POLL_DELAY_SECONDS, in ticks
    MaxStarts    \* bound: how often the Node is started

ASSUME LifetimeAssumption == Lifetime \in Nat

VARIABLES
    who, network, starts,    \* the program, the network it is in, its starts
    at, todo,                \* where the program is, attempts still to make
    inner, usual, saved,     \* inner_opt, usual_protocol_opt, the saved one
    handler, commander,      \* change_handler_opt, each transactor's channel
    keeper,                  \* the housekeeping thread
    lease, lapse             \* the router's lease; ticks the hole was shut

control == <<at, todo, inner, usual, saved, handler, commander>>
amVars == <<who, network, starts, control, keeper, lease, lapse>>

Order == <<"pcp", "pmp", "igdp">>
Protocols == ToSet(Order)

\* A network: the routers each protocol finds, the attempts that are answered
\* with the public address, those that map a port, the longest lease PCP and
\* PMP grant, whether IGDP leases are permanent only, and whether a later
\* request may get lost.
Attempt(p, r) == [protocol |-> p, router |-> r]
NoAttempt == Attempt(NoProtocol, 0)
Permanent == Lifetime + 1

\* A MappingConfig; `set` tells it from None.
Config(next, interval) == [set |-> TRUE, next |-> next, interval |-> interval]
NoConfig == [set |-> FALSE, next |-> 0, interval |-> 0]
Command(kind, next, interval) ==
    [kind |-> kind, next |-> next, interval |-> interval]
Stop == Command("stop", 0, 0)

Thread(p, queue) ==
    [alive |-> TRUE, protocol |-> p, queue |-> queue, config |-> NoConfig,
     age |-> 0, poll |-> 0, turn |-> "rest"]
NoThread == [Thread(NoProtocol, <<>>) EXCEPT !.alive = FALSE]

Larger(a, b) == IF a > b THEN a ELSE b
Capped(n) == IF n > Lifetime THEN Lifetime ELSE n
-----------------------------------------------------------------------------
\* choose_working_protocol: the usual protocol first, then the others in
\* order; each protocol at each router it finds.
Attempts(known, net) ==
    LET others == SelectSeq(Order, LAMBDA p : p # known)
        protocols == IF known = NoProtocol THEN Order ELSE <<known>> \o others
    IN  FlattenSeq([i \in 1..Len(protocols) |->
            [j \in 1..Len(net.routers[protocols[i]]) |->
                Attempt(protocols[i], net.routers[protocols[i]][j])]])

AutomapInit ==
    /\ who \in Clients
    /\ network \in Networks
    /\ starts = 1
    /\ saved \in IF who = "node" THEN Protocols \cup {NoProtocol} ELSE {NoProtocol}
    /\ at = "seek" /\ todo = Attempts(saved, network)
    /\ inner = NoAttempt /\ usual = saved
    /\ handler = TRUE /\ commander = [p \in Protocols |-> FALSE]
    /\ keeper = NoThread
    /\ lease = 0 /\ lapse = 0

\* get_public_ip: the router answers the protocol's request with the address.
Answered(a) == a \in network.answers

\* stop_housekeeping_thread takes the transactor's channel, IGDP's only copies it.
Uncommanded(p) == [commander EXCEPT ![p] = p = "igdp"]

\* try_protocol at a router that answers: the thread is started with the
\* change handler, the protocol and the router become the control's choice.
TryAnswered ==
    /\ at = "seek" /\ todo # <<>> /\ Answered(Head(todo))
    /\ keeper' = Thread(Head(todo).protocol, <<>>)
    /\ handler' = FALSE
    /\ commander' = [commander EXCEPT ![Head(todo).protocol] = TRUE]
    /\ inner' = Head(todo) /\ usual' = Head(todo).protocol
    /\ at' = "found" /\ todo' = <<>>
    /\ UNCHANGED <<who, network, starts, saved, lease, lapse>>

\* try_protocol at a router that does not: the thread is started, told to stop
\* and joined for the change handler before the next attempt.
TryRefused ==
    /\ at = "seek" /\ todo # <<>> /\ ~Answered(Head(todo))
    /\ keeper' = Thread(Head(todo).protocol, <<Stop>>)
    /\ handler' = FALSE
    /\ commander' = Uncommanded(Head(todo).protocol)
    /\ at' = "join"
    /\ UNCHANGED <<who, network, starts, todo, inner, usual, saved, lease, lapse>>

Joined ==
    /\ at = "join" /\ ~keeper.alive
    /\ handler' = TRUE
    /\ todo' = Tail(todo) /\ at' = "seek"
    /\ UNCHANGED <<who, network, starts, inner, usual, saved, commander, keeper,
                   lease, lapse>>

\* exit_process, the tool's abort: the thread dies with the program.
Exits ==
    /\ at' = "exited" /\ todo' = <<>> /\ keeper' = NoThread
    /\ UNCHANGED <<who, network, starts, inner, usual, saved, handler, commander>>

\* AllProtocolsFailed.
GiveUpSearch ==
    /\ at = "seek" /\ todo = <<>>
    /\ Exits
    /\ UNCHANGED <<lease, lapse>>

\* maybe_save_usual_protocol.
SaveUsualProtocol ==
    /\ at = "found"
    /\ saved' = IF who = "node" THEN usual ELSE saved
    /\ at' = "map"
    /\ UNCHANGED <<who, network, starts, todo, inner, usual, handler, commander,
                   keeper, lease, lapse>>
-----------------------------------------------------------------------------
\* What a PCP or PMP router grants to a request for n ticks, and the
\* configuration the transaction leaves: renew after half of it.
Granted(n) == IF n < network.grant THEN n ELSE network.grant
PcpTransact(n) == Config(Granted(n), Granted(n) \div 2)
PmpAddMapping(n) == Config(Granted(n), Granted(n) \div 2)

\* An IGDP router gives what it is asked for or nothing at all.
IgdpAddPort(n) == Config(n, n \div 2)

\* The router leases for n ticks, the thread is sent the configuration by the
\* transactor and then the interval by the control.
Mapped(n, config, interval) ==
    /\ lease' = n
    /\ keeper' = [keeper EXCEPT !.queue =
            @ \o <<Command("config", config.next, config.interval),
                   Command("interval", 0, interval)>>]

MapWithPcp ==
    /\ inner.protocol = "pcp"
    /\ LET c == PcpTransact(Lifetime) IN Mapped(c.next, c, c.interval)
MapWithPmp ==
    /\ inner.protocol = "pmp"
    /\ LET c == PmpAddMapping(Lifetime) IN Mapped(c.next, c, c.interval)
MapWithIgdp ==
    /\ inner.protocol = "igdp" /\ ~network.permanent
    /\ LET c == IgdpAddPort(Lifetime) IN Mapped(c.next, c, c.interval)
\* PermanentLeasesOnly: mapped for no time, which means for good.
MapPermanently ==
    /\ inner.protocol = "igdp" /\ network.permanent
    /\ Mapped(Permanent, IgdpAddPort(0), Permanent)

\* add_mapping with the chosen protocol; there is no other one to fall back on.
AddMapping ==
    /\ at = "map" /\ inner \in network.maps
    /\ MapWithPcp \/ MapWithPmp \/ MapWithIgdp \/ MapPermanently
    /\ at' = IF who = "node" THEN "running" ELSE "probing"
    /\ UNCHANGED <<who, network, starts, todo, inner, usual, saved, handler,
                   commander, lapse>>

MappingRefused ==
    /\ at = "map" /\ inner \notin network.maps
    /\ Exits
    /\ UNCHANGED <<lease, lapse>>

\* delete_mapping: PMP maps the port for no time at all, and so sends the thread
\* a configuration again.
DeleteWithPmp ==
    /\ inner.protocol = "pmp"
    /\ LET c == PmpAddMapping(0)
       IN  keeper' = [keeper EXCEPT !.queue =
                        Append(@, Command("config", c.next, c.interval))]
DeleteWithPcp == inner.protocol = "pcp" /\ UNCHANGED keeper
DeleteWithIgdp == inner.protocol = "igdp" /\ UNCHANGED keeper

\* delete_mappings: the mapping is deleted, or the request fails,
DeleteMapping ==
    /\ at = "probing"
    /\ \/ lease' = 0 /\ (DeleteWithPmp \/ DeleteWithPcp \/ DeleteWithIgdp)
       \/ network.flaky /\ UNCHANGED <<lease, keeper>>
    /\ at' = "deleted"
    /\ UNCHANGED <<who, network, starts, todo, inner, usual, saved, handler,
                   commander, lapse>>

\* ... then the thread is told to stop, whatever came of the deletion,
StopHousekeeping ==
    /\ at = "deleted"
    /\ keeper' = [keeper EXCEPT !.queue = Append(@, Stop)]
    /\ commander' = Uncommanded(inner.protocol)
    /\ at' = "closing"
    /\ UNCHANGED <<who, network, starts, todo, inner, usual, saved, handler, lease,
                   lapse>>

\* ... and joined.
Closed ==
    /\ at = "closing" /\ ~keeper.alive
    /\ at' = "done"
    /\ UNCHANGED <<who, network, starts, todo, inner, usual, saved, handler,
                   commander, keeper, lease, lapse>>
-----------------------------------------------------------------------------
\* The thread renews when its configuration is older than the interval; IGDP
\* looks only once in a poll delay.
Polls == keeper.protocol = "igdp" => keeper.poll > PollDelay
Due == Polls /\ keeper.config.set /\ keeper.age > keeper.config.interval

Polled(k) == [k EXCEPT !.turn = "receive", !.poll = IF Polls THEN 0 ELSE @]

NotDue ==
    /\ keeper.alive /\ keeper.turn = "remap" /\ ~Due
    /\ keeper' = Polled(keeper)
    /\ UNCHANGED <<who, network, starts, control, lease, lapse>>

\* remap_port: PCP and PMP ask for the lifetime granted last, a second at least.
Renewed(c) ==
    /\ lease' = c.next
    /\ keeper' = Polled([keeper EXCEPT !.age = 0, !.config = c])
RemapWithPcp ==
    /\ keeper.protocol = "pcp"
    /\ Renewed(PcpTransact(Larger(keeper.config.next, 1)))
RemapWithPmp ==
    /\ keeper.protocol = "pmp"
    /\ Renewed(PmpAddMapping(Larger(keeper.config.next, 1)))
\* IGDP asks for as long as its interval; a permanent lease is left alone.
RemapWithIgdp ==
    /\ keeper.protocol = "igdp"
    /\ lease' = IF keeper.config.next > 0 THEN Larger(keeper.config.interval, 1)
                ELSE lease
    /\ keeper' = Polled([keeper EXCEPT !.age = 0])

Remap ==
    /\ keeper.alive /\ keeper.turn = "remap" /\ Due
    /\ RemapWithPcp \/ RemapWithPmp \/ RemapWithIgdp
    /\ UNCHANGED <<who, network, starts, control, lapse>>

\* The renewal fails: the change handler ends the Node; the tool's only logs.
RemapFails ==
    /\ keeper.alive /\ keeper.turn = "remap" /\ Due
    /\ network.flaky
    /\ \/ who = "node" /\ Exits
       \/ /\ who = "tool"
          /\ keeper' = Polled([keeper EXCEPT !.age = 0, !.config.next =
                IF keeper.protocol = "igdp" THEN @ ELSE Larger(@, 1)])
          /\ UNCHANGED <<who, network, starts, control>>
    /\ UNCHANGED <<lease, lapse>>

\* try_recv: one command, if there is one.  PMP changes the interval of a copy.
Obeyed(k, c) ==
    [k EXCEPT !.queue = Tail(@), !.turn = "rest", !.alive = c.kind # "stop",
        !.config = IF c.kind = "config" THEN Config(c.next, c.interval)
                   ELSE IF c.kind = "interval" /\ k.protocol # "pmp"
                   THEN [@ EXCEPT !.interval = c.interval]
                   ELSE @]

Receive ==
    /\ keeper.alive /\ keeper.turn = "receive"
    /\ keeper' = IF keeper.queue = <<>> THEN [keeper EXCEPT !.turn = "rest"]
                 ELSE Obeyed(keeper, Head(keeper.queue))
    /\ UNCHANGED <<who, network, starts, control, lease, lapse>>
-----------------------------------------------------------------------------
\* Time passes once the thread has done its loop.
Tick ==
    /\ keeper.alive => keeper.turn = "rest"
    /\ lease' = IF lease \in 1..Lifetime THEN lease - 1 ELSE lease
    /\ lapse' = IF at = "running" /\ lease' = 0 THEN Capped(lapse + 1) ELSE 0
    /\ keeper' = IF keeper.alive
                 THEN [keeper EXCEPT !.turn = "remap", !.age = Capped(@ + 1),
                                     !.poll = Capped(@ + 1)]
                 ELSE keeper
    /\ UNCHANGED <<who, network, starts, control>>

\* The user ends the Node.
ShutDown ==
    /\ at = "running"
    /\ Exits
    /\ lapse' = 0 /\ UNCHANGED lease

\* The Node starts again, perhaps in another network, with what it saved.
Restart ==
    /\ who = "node" /\ at = "exited" /\ starts < MaxStarts
    /\ starts' = starts + 1
    /\ network' \in Networks
    /\ at' = "seek" /\ todo' = Attempts(saved, network')
    /\ inner' = NoAttempt /\ usual' = saved
    /\ handler' = TRUE /\ commander' = [p \in Protocols |-> FALSE]
    /\ lease' = IF network' = network THEN lease ELSE 0
    /\ UNCHANGED <<who, saved, keeper, lapse>>

Client ==
    \/ TryAnswered \/ TryRefused \/ Joined \/ GiveUpSearch \/ SaveUsualProtocol
    \/ AddMapping \/ MappingRefused
    \/ DeleteMapping \/ StopHousekeeping \/ Closed
Housekeeping == NotDue \/ Remap \/ RemapFails \/ Receive
AutomapNext == Client \/ Housekeeping \/ Tick \/ ShutDown \/ Restart

AutomapSpec == AutomapInit /\ [][AutomapNext]_amVars

\* The threads run and time passes.
AutomapFairSpec ==
    /\ AutomapSpec
    /\ WF_amVars(Client)
    /\ WF_amVars(Housekeeping)
    /\ WF_amVars(Tick)
-----------------------------------------------------------------------------
\* Type correctness; a lease is permanent only where the router knows no other.
AutomapTypeOK ==
    /\ who \in Clients /\ network \in Networks /\ starts \in 1..MaxStarts
    /\ at \in {"seek", "join", "found", "map", "running", "probing", "deleted",
              "closing", "done", "exited"}
    /\ {usual, saved, inner.protocol} \subseteq Protocols \cup {NoProtocol}
    /\ handler \in BOOLEAN /\ commander \in [Protocols -> BOOLEAN]
    /\ keeper.turn \in {"rest", "remap", "receive"}
    /\ keeper.age \in 0..Lifetime /\ keeper.poll \in 0..Lifetime
    /\ lease \in 0..Lifetime \cup (IF network.permanent THEN {Permanent} ELSE {})
    /\ lapse \in 0..Lifetime

\* The change handler is in one place: with the control while it looks for a
\* protocol, and then no thread is alive and the next transactor holds no
\* channel of an earlier one; or with the thread of the chosen protocol, whose
\* channel the transactor holds.  So no expect() and no todo!() of the control
\* and the transactors is ever met.
HousekeeperFits ==
    /\ at = "seek" =>
        handler /\ ~keeper.alive /\ (todo # <<>> => ~commander[Head(todo).protocol])
    /\ at \in {"found", "map", "running", "probing", "deleted"} =>
        /\ ~handler /\ keeper.alive /\ keeper.protocol = inner.protocol
        /\ commander[inner.protocol]

\* The protocol chosen is the one that was usual at the last start, if it is
\* answered, else the first that is; and the router is its first to answer.
Answering(p) ==
    {i \in DOMAIN network.routers[p] :
        Attempt(p, network.routers[p][i]) \in network.answers}
ChoosesFirstToAnswer ==
    at = "found" =>
        /\ \E i \in Answering(inner.protocol) :
            /\ network.routers[inner.protocol][i] = inner.router
            /\ \A j \in Answering(inner.protocol) : i <= j
        /\ \/ inner.protocol = saved
           \/ /\ saved # NoProtocol => Answering(saved) = {}
              /\ \A i, j \in 1..3 : i < j /\ Order[j] = inner.protocol
                                     => Answering(Order[i]) = {}

\* While the Node runs, a hole made with PCP or PMP never closes: the thread
\* renews in time, whatever lifetime the router keeps granting and however its
\* commands wait.  An IGDP hole is renewed for no longer than the interval, so
\* it closes; it is shut only until the next poll, two loops more at most.
HoleStaysOpen ==
    at = "running" =>
        lapse <= IF inner.protocol = "igdp" THEN PollDelay + 2 ELSE 0

\* The search ends: each start gets the hole or ends the program.
SearchEnds == at = "seek" ~> at \in {"running", "probing", "exited"}

\* After delete_mappings the hole closes for good, though the thread may open
\* it again before it sees that it is to stop: no renewal comes after that and
\* the router's lease runs out.  (Permanent leases whose deletion got lost stay.)
HoleClosesForGood ==
    (at = "done" /\ ~(network.permanent /\ network.flaky)) ~> [](lease = 0)
=============================================================================
