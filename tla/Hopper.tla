------------------------------- MODULE Hopper -------------------------------
(***************************************************************************)
(* CORES packages on their way: the Hoppers of several Nodes, the routes   *)
(* they peel hop by hop, and the two books kept about every journey - what *)
(* the originating Node's ProxyServer reports as consumed, and what each   *)
(* relay and the exit report as provided (node/src/hopper, sub_lib/route,  *)
(* the reporting parts of proxy_server and proxy_client).                  *)
(*                                                                         *)
(* Cryptography is abstracted to who can read what: a hop, a payload and a *)
(* return-route ID carry the key they are encrypted to, and reading one    *)
(* with another key fails.  A key is <<Node, "main">> or <<Node, "alias">>.*)
(* `scene` never changes; it says which journeys a behaviour is about.     *)
(***************************************************************************)
EXTENDS Integers, Sequences, FiniteSets, SequencesExt

CONSTANTS
    HopperSize,     \* how many Nodes there are
    HopperWorlds,   \* records: trips, decentralized, troubles, and the bounds
                    \* requests of the client and answers of the servers
    MaxRequests,    \* bound: the most requests of a scene
    MaxTroubles     \* bound: packages lost, bans and expiries

VARIABLES
    scene,
    msgs,             \* packages in mailboxes and between Nodes
    chosen,           \* the trip of each request, by return-route ID
    returns,          \* IDs in ProxyServer.route_ids_to_return_routes
    stream_contexts,  \* ProxyClient.stream_contexts of the one stream
    pool,             \* requests the StreamHandlerPools are working on
    delinquent,       \* Nodes whose BAN_CACHE holds the Origin's wallet
    booked,             \* services the Origin reported as consumed
    claimed,          \* services the Nodes reported as provided
    asked, answered, arrived, troubles

hopperVars == <<scene, msgs, chosen, returns, stream_contexts, pool, delinquent,
                booked, claimed, asked, answered, arrived, troubles>>

HopperNodes == 1..HopperSize
Origin   == 1     \* the Node whose client asks
Services == {"routing over", "exit over", "routing back", "exit back"}
NoBooks  == [n \in HopperNodes |-> [s \in Services |-> 0]]
NoRoute  == <<>>
NoNode   == 0
NoTrip   == [over |-> <<>>, back |-> <<>>]

MainKey(n)  == <<n, "main">>
AliasKey(n) == <<n, "alias">>
Charge(books, n, s) == [books EXCEPT ![n][s] = @ + 1]
-----------------------------------------------------------------------------
(* Routes *)

(* A payer proves the wallet to one Node only: it signs that Node's key. *)
LiveHop(key, next, payer, component) ==
    [key |-> MainKey(key),
     hop |-> [public_key |-> next,
              payer      |-> IF payer THEN key ELSE NoNode,
              component  |-> component],
     id  |-> 0]

OverSegment(over, wallet) ==
    [i \in 1..(Len(over) - 1) |-> LiveHop(over[i], over[i + 1], wallet, "Hopper")]

BackSegment(back, wallet) ==
    [i \in 1..Len(back) |->
        LiveHop(back[i],
                IF i = Len(back) THEN NoNode ELSE back[i + 1],
                wallet,
                CASE i = Len(back) -> "ProxyServer"
                  [] i = 1 /\ i # Len(back) -> "ProxyClient"
                  [] OTHER -> "Hopper")]

ReturnRouteId(id) == [LiveHop(Origin, NoNode, FALSE, "none") EXCEPT !.id = id]

Garbage == LiveHop(NoNode, NoNode, FALSE, "none")

RoundTripSameWay(trip, wallet, id) ==
    OverSegment(trip.over, wallet) \o BackSegment(Reverse(trip.over), wallet)
                                   \o <<ReturnRouteId(id)>>

RoundTripRoute(trip, wallet, id) ==
    OverSegment(trip.over, wallet) \o BackSegment(trip.back, wallet)
                                   \o <<ReturnRouteId(id)>>

SingleHop(from, to) ==
    <<LiveHop(from, to, FALSE, "Hopper"), LiveHop(to, NoNode, FALSE, "Neighborhood")>>

CanRead(entry, key) == entry.key = key

(* Removing the top hop keeps the length: garbage goes to the end. *)
Shift(route) == Append(Tail(route), Garbage)

OwnsSecretKey(hop, n) == hop.payer = n
IsDelinquent(hop, n) == hop.payer # NoNode /\ n \in delinquent
-----------------------------------------------------------------------------
HopperInit ==
    /\ scene \in HopperWorlds
    /\ msgs = {}
    /\ chosen = [i \in 1..MaxRequests |-> NoTrip]
    /\ returns = {}
    /\ stream_contexts = [n \in HopperNodes |-> NoRoute]
    /\ pool = {}
    /\ delinquent = {}
    /\ booked = NoBooks
    /\ claimed = NoBooks
    /\ asked = 0
    /\ answered = 0
    /\ arrived = 0
    /\ troubles = 0

Package(box, at, route, payload, path) ==
    [box |-> box, at |-> at, route |-> route, payload |-> payload, path |-> path]

(* ProxyServer: one more data packet of the client, along the route the    *)
(* Neighborhood chose.  The services of the way over are reported now,     *)
(* those of the way back are remembered under the return-route ID.         *)
RoutingReports(books, keys, s) ==
    [n \in HopperNodes |->
        [books[n] EXCEPT ![s] = @ + Cardinality({i \in 2..(Len(keys) - 1) : keys[i] = n})]]

ReportOver(books, trip) ==
    IF scene.decentralized
      THEN Charge(RoutingReports(books, trip.over, "routing over"),
                  Last(trip.over), "exit over")
      ELSE books

TransmitToHopper(trip, data) ==
    LET id == asked + 1
    IN  /\ asked < scene.requests
        /\ trip \in scene.trips
        /\ asked' = id
        /\ chosen' = [chosen EXCEPT ![id] = trip]
        /\ returns' = returns \union {id}
        /\ booked' = ReportOver(booked, trip)
        /\ msgs' = msgs \union
             {Package("consuming", Origin,
                      RoundTripRoute(trip, scene.decentralized, id),
                      [kind |-> "ClientRequest", key |-> MainKey(Last(trip.over)),
                       data |-> data, serial |-> id, way |-> trip.over], <<>>)}
        /\ UNCHANGED <<scene, stream_contexts, pool, delinquent, claimed,
                       answered, arrived, troubles>>

(* Neighborhood: gossip goes to a Node whose address is given, with no payer. *)
SendGossip(n) ==
    /\ "gossip" \in scene.troubles /\ troubles < MaxTroubles /\ n # Origin
    /\ troubles' = troubles + 1
    /\ msgs' = msgs \union
         {Package("consuming", Origin, SingleHop(Origin, n),
                  [kind |-> "Gossip", key |-> MainKey(n), data |-> TRUE,
                   serial |-> troubles', way |-> <<Origin, n>>], <<>>)}
    /\ UNCHANGED <<scene, chosen, returns, stream_contexts, pool, delinquent, booked,
                   claimed, asked, answered, arrived>>
-----------------------------------------------------------------------------
(* ConsumingService: the package leaves for the Node its top hop names, or *)
(* comes straight back to this Hopper when that is this Node.              *)
Consume(m) ==
    /\ m \in msgs /\ m.box = "consuming"
    /\ msgs' = (msgs \ {m}) \union
         (IF CanRead(Head(m.route), MainKey(m.at))
            THEN {[m EXCEPT !.box = "routing", !.at = Head(m.route).hop.public_key,
                            !.route = Shift(m.route), !.path = Append(@, m.at)]}
            ELSE {})
    /\ UNCHANGED <<scene, chosen, returns, stream_contexts, pool, delinquent, booked,
                   claimed, asked, answered, arrived, troubles>>

(* route_expired_package: which component gets which kind of payload. *)
Recipient(component, payload, proven) ==
    CASE component = "ProxyClient" /\ payload.kind = "ClientRequest"
           /\ (~scene.decentralized \/ proven)              -> "proxy_client"
      [] component = "ProxyServer"
           /\ payload.kind \in {"ClientResponse", "DnsResolveFailed"} -> "proxy_server"
      [] component = "Neighborhood" /\ payload.kind = "Gossip" -> "neighborhood"
      [] OTHER                                              -> "nowhere"

PayloadKey(component, n) ==
    IF component = "ProxyServer" THEN AliasKey(n) ELSE MainKey(n)

Expired(m, hop) ==
    LET box == Recipient(hop.component, m.payload, OwnsSecretKey(hop, m.at))
    IN  IF IsDelinquent(hop, m.at) \/ m.payload.key # PayloadKey(hop.component, m.at)
             \/ box = "nowhere"
          THEN {}
          ELSE {[m EXCEPT !.box = box, !.path = Append(@, m.at)]}

OnwardHop(m, hop) ==
    {[m EXCEPT !.at = hop.public_key, !.route = Shift(m.route), !.path = Append(@, m.at)]}

RoutesExternally(m, hop) == OwnsSecretKey(hop, m.at) /\ ~IsDelinquent(hop, m.at)

RoutingService(payload) ==
    IF payload.kind = "ClientRequest" THEN "routing over" ELSE "routing back"

(* RoutingService: pass the package on and charge for it, refuse it, take  *)
(* it around once more, or open it for a component of this Node.           *)
RouteExternally(m) ==
    LET hop == Head(m.route).hop
    IN  /\ m \in msgs /\ m.box = "routing"
        /\ CanRead(Head(m.route), MainKey(m.at))
        /\ hop.component = "Hopper" /\ hop.public_key # m.at
        /\ msgs' = (msgs \ {m}) \union
                     (IF RoutesExternally(m, hop) THEN OnwardHop(m, hop) ELSE {})
        /\ claimed' = IF RoutesExternally(m, hop)
                        THEN Charge(claimed, m.at, RoutingService(m.payload))
                        ELSE claimed
        /\ UNCHANGED <<scene, chosen, returns, stream_contexts, pool, delinquent, booked,
                       asked, answered, arrived, troubles>>

RouteInternally(m) ==
    LET hop == Head(m.route).hop
    IN  /\ m \in msgs /\ m.box = "routing"
        /\ CanRead(Head(m.route), MainKey(m.at))
        /\ ~(hop.component = "Hopper" /\ hop.public_key # m.at)
        /\ msgs' = (msgs \ {m}) \union
                     (IF hop.component = "Hopper" THEN OnwardHop(m, hop) ELSE Expired(m, hop))
        /\ UNCHANGED <<scene, chosen, returns, stream_contexts, pool, delinquent, booked,
                       claimed, asked, answered, arrived, troubles>>
-----------------------------------------------------------------------------
(* ProxyClient of the exit Node *)

PayingWallet(route) == Head(route).hop.payer # NoNode

HandleClientRequest(m) ==
    /\ m \in msgs /\ m.box = "proxy_client"
    /\ msgs' = msgs \ {m}
    /\ stream_contexts' = [stream_contexts EXCEPT ![m.at] = m.route]
    /\ pool' = pool \union {[at |-> m.at, serial |-> m.payload.serial,
                             data |-> m.payload.data, wallet |-> PayingWallet(m.route)]}
    /\ UNCHANGED <<scene, chosen, returns, delinquent, booked, claimed, asked, answered,
                   arrived, troubles>>

(* The pool writes the request to the server and reports it if it holds data. *)
PoolWrites(p) ==
    /\ p \in pool
    /\ pool' = pool \ {p}
    /\ claimed' = IF p.data /\ p.wallet THEN Charge(claimed, p.at, "exit over") ELSE claimed
    /\ UNCHANGED <<scene, msgs, chosen, returns, stream_contexts, delinquent, booked, asked,
                   answered, arrived, troubles>>

(* The return-route ID in a route that only the Origin can read. *)
IdIn(route) == (CHOOSE e \in Range(route) : e.id # 0).id

Response(n, kind) ==
    LET route == stream_contexts[n]
    IN  Package("consuming", n, route,
                [kind |-> kind, key |-> AliasKey(Origin), data |-> TRUE,
                 serial |-> answered + 1, way |-> chosen[IdIn(route)].back], <<>>)

HandleServerData(n, last) ==
    /\ stream_contexts[n] # NoRoute
    /\ answered < scene.answers
    /\ answered' = answered + 1
    /\ msgs' = msgs \union {Response(n, "ClientResponse")}
    /\ claimed' = IF PayingWallet(stream_contexts[n])
                    THEN Charge(claimed, n, "exit back") ELSE claimed
    /\ stream_contexts' = IF last THEN [stream_contexts EXCEPT ![n] = NoRoute]
                                  ELSE stream_contexts
    /\ UNCHANGED <<scene, chosen, returns, pool, delinquent, booked, asked, arrived,
                   troubles>>

(* The pool could not resolve the host name of a request. *)
HandleDnsFailure(p) ==
    /\ p \in pool /\ p.data
    /\ pool' = pool \ {p}
    /\ IF stream_contexts[p.at] = NoRoute
         THEN UNCHANGED <<msgs, answered, stream_contexts>>
         ELSE /\ answered' = answered + 1
              /\ msgs' = msgs \union {Response(p.at, "DnsResolveFailed")}
              /\ stream_contexts' = [stream_contexts EXCEPT ![p.at] = NoRoute]
    /\ UNCHANGED <<scene, chosen, returns, delinquent, booked, claimed, asked, arrived,
                   troubles>>
-----------------------------------------------------------------------------
(* ProxyServer of the Origin: a response is booked under the services its  *)
(* return-route ID stands for; with an unknown ID it is ignored.           *)
GetReturnRouteInfoStale(m) ==
    IF returns = {} THEN NoRoute ELSE chosen[asked].back

GetReturnRouteInfo(m) ==
    LET rest == Shift(m.route)
    IN  IF CanRead(Head(rest), MainKey(m.at)) /\ Head(rest).id \in returns
          THEN chosen[Head(rest).id].back ELSE NoRoute

ReportBack(books, back) ==
    IF scene.decentralized
      THEN Charge(RoutingReports(books, back, "routing back"), Head(back), "exit back")
      ELSE books

HandleResponse(m) ==
    LET back == GetReturnRouteInfo(m)
    IN  /\ m \in msgs /\ m.box = "proxy_server"
        /\ msgs' = msgs \ {m}
        /\ booked' = IF back = NoRoute THEN booked ELSE ReportBack(booked, back)
        /\ arrived' = IF back = NoRoute THEN arrived ELSE arrived + 1
        /\ UNCHANGED <<scene, chosen, returns, stream_contexts, pool, delinquent,
                       claimed, asked, answered, troubles>>

HandleGossipPackage(m) ==
    /\ m \in msgs /\ m.box = "neighborhood"
    /\ msgs' = msgs \ {m}
    /\ UNCHANGED <<scene, chosen, returns, stream_contexts, pool, delinquent, booked,
                   claimed, asked, answered, arrived, troubles>>
-----------------------------------------------------------------------------
(* What goes wrong on the way *)

Trouble(kind) ==
    /\ kind \in scene.troubles
    /\ troubles < MaxTroubles
    /\ troubles' = troubles + 1
    /\ UNCHANGED <<scene, chosen, stream_contexts, pool, booked, claimed, asked,
                   answered, arrived>>

(* A stream between two Nodes breaks with the package in it. *)
LosePackage(m) ==
    /\ m \in msgs /\ m.box = "routing" /\ m.at # Last(m.path)
    /\ msgs' = msgs \ {m}
    /\ Trouble("loss") /\ UNCHANGED <<returns, delinquent>>

(* The Accountant of a Node bans the Origin's wallet. *)
Ban(n) ==
    /\ n \in HopperNodes \ (delinquent \union {Origin})
    /\ delinquent' = delinquent \union {n}
    /\ Trouble("ban") /\ UNCHANGED <<msgs, returns>>

(* A return route is older than the ProxyServer's cache keeps it. *)
ForgetReturnRoute(id) ==
    /\ id \in returns
    /\ returns' = returns \ {id}
    /\ Trouble("expiry") /\ UNCHANGED <<msgs, delinquent>>

HopperNext ==
    \/ \E trip \in scene.trips, data \in BOOLEAN : TransmitToHopper(trip, data)
    \/ \E n \in HopperNodes : SendGossip(n) \/ Ban(n)
    \/ \E m \in msgs :
          \/ Consume(m) \/ RouteExternally(m) \/ RouteInternally(m)
          \/ HandleClientRequest(m) \/ HandleResponse(m) \/ HandleGossipPackage(m)
          \/ LosePackage(m)
    \/ \E p \in pool : PoolWrites(p) \/ HandleDnsFailure(p)
    \/ \E n \in HopperNodes, last \in BOOLEAN : HandleServerData(n, last)
    \/ \E id \in 1..MaxRequests : ForgetReturnRoute(id)

HopperSpec == HopperInit /\ [][HopperNext]_hopperVars
-----------------------------------------------------------------------------
Boxes == {"consuming", "routing", "proxy_client", "proxy_server", "neighborhood"}

(* Type correctness of the mailboxes, the exit Nodes' contexts and the books. *)
HopperTypeOK ==
    /\ \A m \in msgs : m.box \in Boxes /\ m.at \in HopperNodes
    /\ \A n \in HopperNodes, s \in Services :
         booked[n][s] \in Nat /\ claimed[n][s] \in Nat
    /\ returns \subseteq 1..asked /\ asked <= MaxRequests /\ arrived <= answered
    /\ delinquent \subseteq HopperNodes \ {Origin}

(* A package visits the Nodes of its own way, in order, and only the last  *)
(* of them opens it: peeling hops can neither skip a Node, nor lead back,  *)
(* nor deliver a request or a response anywhere but at its destination.    *)
(* Nor can the way it has come be read off its route, which is as long at  *)
(* every Node as when it was constructed: garbage replaces used hops.      *)
KeepsToItsWay ==
    \A m \in msgs :
      /\ IsPrefix(m.path, m.payload.way)
      /\ m.box = "routing" => IsPrefix(Append(m.path, m.at), m.payload.way)
      /\ m.box \in {"proxy_client", "proxy_server", "neighborhood"}
           => m.path = m.payload.way /\ m.at = Last(m.payload.way)
      /\ Len(m.route) = IF m.payload.kind = "Gossip" THEN 2
                        ELSE LET id == IF m.payload.kind = "ClientRequest"
                                         THEN m.payload.serial ELSE IdIn(m.route)
                             IN  Len(chosen[id].over) + Len(chosen[id].back)

(* For the way over, no Node ever claims a service the Origin has not      *)
(* booked: the ProxyServer reports before the package leaves, so losses,   *)
(* bans and failed look-ups can only leave the Origin owing more.          *)
ClaimsOverAreBooked ==
    \A n \in HopperNodes, s \in {"routing over", "exit over"} :
      claimed[n][s] <= booked[n][s]

(* For the way back it is the other way round: a relay that charged for    *)
(* carrying a response is booked only when the response came home, so the  *)
(* Origin never books routing that no relay claims.                        *)
BackBookedIsClaimed ==
    \A n \in HopperNodes : booked[n]["routing back"] <= claimed[n]["routing back"]

(* When every package has been dealt with and nothing went wrong, every    *)
(* response has come home, the two books agree on all routing, and no Node *)
(* claims an exit service the Origin has not booked.                       *)
BooksMeet ==
    (msgs = {} /\ pool = {} /\ troubles = 0)
      => /\ arrived = answered
         /\ \A n \in HopperNodes :
              /\ \A s \in {"routing over", "routing back"} : claimed[n][s] = booked[n][s]
              /\ claimed[n]["exit back"] <= booked[n]["exit back"]

(* The two books that are kept about every journey agree as far as the     *)
(* Origin can know what became of it.                                      *)
BooksAgree == ClaimsOverAreBooked /\ BackBookedIsClaimed /\ BooksMeet
=============================================================================
