---------------------------- MODULE ProxyStreams ----------------------------
(***************************************************************************)
(* The ProxyServer of a consuming Node: browser connections, the stream    *)
(* keys that stand for them on the network, route queries to the           *)
(* Neighborhood, retries after a failure to resolve a host name, and the   *)
(* answers that are relayed to the browsers.  The handlers run one at a    *)
(* time off one FIFO mailbox; answers to route queries, exit Nodes,        *)
(* browsers and purge timers interleave with them.                         *)
(*                                                                         *)
(* A stream key is a hash of the browser's address, so a key is its        *)
(* address here: a connection that reuses an address gets its key again.   *)
(***************************************************************************)
EXTENDS Integers, Sequences, FiniteSets, Bags

CONSTANTS
    Addrs,        \* browser addresses
    Exits,        \* exit Nodes the Neighborhood may route to
    None,         \* no route, no retry entry
    MaxRetries,   \* DNS retries: 3 in a decentralized Node, 0 in zero-hop mode
    Kinds,        \* what browsers do: "plain", "tunnel" (CONNECT to 443), "refused"
    ProxyFaults,       \* "dns", "no_route", "bad_request", "loss", "close", "busy"
    MaxConns,     \* bound: connections per address
    MaxRequests,  \* bound: requests per connection
    MaxReplies,   \* bound: responses per connection
    MaxMail       \* bound: messages in the mailbox when another is accepted

ASSUME ProxyAssumption ==
    /\ IsFiniteSet(Addrs)
    /\ None \notin Exits
    /\ MaxRetries \in Nat
    /\ Kinds \subseteq {"plain", "tunnel", "refused"}
    /\ ProxyFaults \subseteq {"dns", "no_route", "bad_request", "loss", "close", "busy"}
    /\ MaxConns \in Nat /\ MaxRequests \in Nat /\ MaxReplies \in Nat /\ MaxMail \in Nat

VARIABLES
    browser,   \* each address: number of its connections so far, state and requests of the last
    writers,   \* addresses with a StreamWriter
    shown,     \* what each address's StreamWriter was given for its last connection
    mailbox,      \* the mailbox of the ProxyServer
    keys,      \* keys_and_addrs
    tunneled,  \* tunneled_hosts
    retries,   \* dns_failure_retries
    routes,    \* stream_key_routes
    ttl,       \* stream_key_ttl
    timers,    \* how many StreamKeyPurge messages are scheduled for each key
    offset,    \* browser_proxy_sequence_offset
    queries,   \* route queries the Neighborhood has not answered
    arrived,   \* request packets at exit Nodes, not yet looked at
    serving,   \* <<address, connection, exit>> that have an open stream to the server
    replies,   \* responses sent so far to each address's last connection
    attempts,  \* how often the first request of each last connection was sent
    hasWallet, \* whether there is a consuming wallet, or none is needed (zero-hop mode)
    panicked   \* the Node went down

browserVars == <<browser, writers, shown>>
keyVars == <<keys, tunneled, retries, routes, ttl, timers>>
exitVars == <<arrived, serving, replies, attempts>>
nodeVars == <<hasWallet, panicked>>
proxyVars == <<browserVars, mailbox, keyVars, offset, queries, exitVars, nodeVars>>

-----------------------------------------------------------------------------
(* Messages                                                                *)

\* Packet num of connection conn at addr: data, or the empty one that ends it
Request(a, c, n, what) == [addr |-> a, conn |-> c, num |-> n, what |-> what]
Requests == [addr : Addrs, conn : 1 .. MaxConns, num : 0 .. MaxRequests, what : {"data", "end"}]

ConnectMsg(a, good) == [type |-> "connect", addr |-> a, good |-> good]
ClientDataMsg(r) == [type |-> "data", request |-> r]
RouteResultMsg(a, x) == [type |-> "route_result", addr |-> a, exit |-> x]
DnsFailureMsg(a) == [type |-> "dns_failure", addr |-> a]
AnswerMsg(a, n, last) == [type |-> "response", addr |-> a, num |-> n, last |-> last]
ShutdownMsg(r, report) == [type |-> "shutdown", request |-> r, report |-> report]

Retries == [request : Requests, left : 0 .. MaxRetries]
Queries == [request : Requests, retire : BOOLEAN]
RequestPackets == [request : Requests, exit : Exits]

\* Another actor may put a message into the mailbox.
MayMail == Len(mailbox) < MaxMail
Mail(m) == MayMail /\ mailbox' = Append(mailbox, m)

\* The ProxyServer handles the first message of the mailbox.
Received(type) == ~panicked /\ mailbox # <<>> /\ Head(mailbox).type = type

-----------------------------------------------------------------------------
(* Browsers, with the StreamReader and StreamHandlerPool they talk to      *)

Idle(a) == browser[a].state # "open"

Connect(a, kind) ==
    /\ Idle(a)
    /\ browser[a].conn < MaxConns
    /\ browser' = [browser EXCEPT ![a] = [conn |-> @.conn + 1, state |-> "open", sent |-> 0]]
    /\ writers' = writers \cup {a}
    /\ shown' = [shown EXCEPT ![a] = <<>>]
    /\ IF kind = "plain" THEN UNCHANGED mailbox ELSE Mail(ConnectMsg(a, kind = "tunnel"))
    /\ replies' = [replies EXCEPT ![a] = 0]
    /\ attempts' = [attempts EXCEPT ![a] = 0]
    /\ UNCHANGED <<keyVars, offset, queries, arrived, serving, nodeVars>>

Send(a) ==
    /\ browser[a].state = "open"
    /\ browser[a].sent < MaxRequests
    /\ browser' = [browser EXCEPT ![a].sent = @ + 1]
    /\ Mail(ClientDataMsg(Request(a, browser[a].conn, browser[a].sent, "data")))
    /\ UNCHANGED <<writers, shown, keyVars, offset, queries, exitVars, nodeVars>>

\* The reader reads the end of the stream; the pool removes the writer and
\* reports to the other end unless the writer was gone already.
Close(a) ==
    /\ browser[a].state = "open"
    /\ "close" \in ProxyFaults \/ a \notin writers
    /\ browser' = [browser EXCEPT ![a].state = "closed"]
    /\ writers' = writers \ {a}
    /\ Mail(ShutdownMsg(Request(a, browser[a].conn, browser[a].sent, "end"), a \in writers))
    /\ UNCHANGED <<shown, keyVars, offset, queries, exitVars, nodeVars>>

\* A TransmitDataMsg to address a; the writer is removed after last_data.
ToBrowser(a, n, what, last) ==
    IF a \in writers
    THEN /\ shown' = [shown EXCEPT ![a] = Append(@, [num |-> n, what |-> what])]
         /\ writers' = IF last THEN writers \ {a} ELSE writers
    ELSE UNCHANGED <<shown, writers>>

-----------------------------------------------------------------------------
(* Stream keys                                                             *)

\* The retry entry outlives the key.
Purge(a) ==
    /\ keys' = keys \ {a}
    /\ routes' = [routes EXCEPT ![a] = None]
    /\ tunneled' = tunneled \ {a}
    /\ ttl' = ttl \ {a}

SchedulePurge(a) ==
    /\ ttl' = ttl \cup {a}
    /\ timers' = [timers EXCEPT ![a] = @ + 1]

\* The StreamKeyPurge message that was scheduled 30 seconds ahead
StreamKeyPurge(a) ==
    /\ ~panicked
    /\ timers[a] > 0
    /\ timers' = [timers EXCEPT ![a] = @ - 1]
    /\ Purge(a)
    /\ UNCHANGED <<browserVars, mailbox, retries, offset, queries, exitVars, nodeVars>>

-----------------------------------------------------------------------------
(* Requests                                                                *)

TlsConnect ==
    /\ Received("connect")
    /\ LET m == Head(mailbox)
           a == m.addr
       IN  IF m.good
           THEN /\ keys' = keys \cup {a}
                /\ tunneled' = tunneled \cup {a}
                /\ ToBrowser(a, 0, "connected", FALSE)
           ELSE /\ ToBrowser(a, 0, "bad_request", TRUE)
                /\ UNCHANGED <<keys, tunneled>>
    /\ offset' = TRUE
    /\ mailbox' = Tail(mailbox)
    /\ UNCHANGED <<browser, retries, routes, ttl, timers, queries, exitVars, nodeVars>>

IsFirstOfLast(r) == r.num = 0 /\ r.what = "data" /\ r.conn = browser[r.addr].conn

TransmitRequest(q, x) ==
    /\ arrived' = arrived (+) SetToBag({[request |-> q.request, exit |-> x]})
    /\ attempts' = IF IsFirstOfLast(q.request)
                   THEN [attempts EXCEPT ![q.request.addr] = @ + 1] ELSE attempts

\* The last packet sent, the ProxyServer tells itself to shut the stream down.
RetireMsg(q) == IF q.retire THEN <<ShutdownMsg(q.request, FALSE)>> ELSE <<>>

AskForRoute(q) == queries' = queries (+) SetToBag({q})

\* A request leaves its retry entry unless the key has one, and follows the
\* key's route or asks for one.
HandleNormalClientData(q, box) ==
    LET a == q.request.addr IN
    /\ keys' = keys \cup {a}
    /\ retries' = IF retries[a] # None THEN retries
                  ELSE [retries EXCEPT ![a] = [request |-> q.request, left |-> MaxRetries]]
    /\ IF routes[a] # None
       THEN /\ TransmitRequest(q, routes[a])
            /\ mailbox' = box \o RetireMsg(q)
            /\ UNCHANGED queries
       ELSE /\ AskForRoute(q)
            /\ mailbox' = box
            /\ UNCHANGED <<arrived, attempts>>


\* Without a consuming wallet the browser is told so; a payload that cannot be
\* made, or a host that is this machine, leaves only the key.
RejectClientData(q, box) ==
    LET a == q.request.addr IN
    /\ IF hasWallet
       THEN /\ "bad_request" \in ProxyFaults
            /\ keys' = keys \cup {a}
            /\ UNCHANGED <<writers, shown>>
       ELSE /\ ToBrowser(a, 0, "no_wallet", TRUE)
            /\ UNCHANGED keys
    /\ mailbox' = box
    /\ UNCHANGED <<retries, queries, arrived, attempts>>

InboundClientData ==
    /\ Received("data")
    /\ LET q == [request |-> Head(mailbox).request, retire |-> FALSE]
       IN  \/ hasWallet /\ HandleNormalClientData(q, Tail(mailbox)) /\ UNCHANGED <<writers, shown>>
           \/ RejectClientData(q, Tail(mailbox))
    /\ UNCHANGED <<browser, tunneled, routes, ttl, timers, offset, serving, replies, nodeVars>>

StreamShutdown ==
    /\ Received("shutdown")
    /\ LET m == Head(mailbox)
           a == m.request.addr
           q == [request |-> m.request, retire |-> TRUE]
       IN  IF a \notin keys
           THEN /\ mailbox' = Tail(mailbox)
                /\ UNCHANGED <<ttl, timers, keys, retries, queries, arrived, attempts, writers, shown>>
           ELSE /\ SchedulePurge(a)
                /\ IF m.report
                   THEN \/ hasWallet /\ HandleNormalClientData(q, Tail(mailbox)) /\ UNCHANGED <<writers, shown>>
                        \/ RejectClientData(q, Tail(mailbox))
                   ELSE /\ mailbox' = Tail(mailbox)
                        /\ UNCHANGED <<keys, retries, queries, arrived, attempts, writers, shown>>
    /\ UNCHANGED <<browser, tunneled, routes, offset, serving, replies, nodeVars>>

-----------------------------------------------------------------------------
(* Routes                                                                  *)

\* The Neighborhood answers: resolve_message() transmits the packet, or tells
\* the browser that there is no route, and mails the result to the ProxyServer.
RouteFound(q, x) ==
    /\ ~panicked
    /\ BagIn(q, queries)
    /\ queries' = queries (-) SetToBag({q})
    /\ TransmitRequest(q, x)
    /\ mailbox' = mailbox \o RetireMsg(q) \o <<RouteResultMsg(q.request.addr, x)>>
    /\ UNCHANGED <<browserVars, keyVars, offset, serving, replies, nodeVars>>

NoRouteFound(q) ==
    /\ ~panicked
    /\ "no_route" \in ProxyFaults
    /\ BagIn(q, queries)
    /\ queries' = queries (-) SetToBag({q})
    /\ ToBrowser(q.request.addr, 0, "no_route", TRUE)
    /\ mailbox' = Append(mailbox, RouteResultMsg(q.request.addr, None))
    /\ UNCHANGED <<browser, keyVars, offset, exitVars, nodeVars>>

\* A result for a key without a retry entry is a panic.
AddRouteResult ==
    /\ Received("route_result")
    /\ LET m == Head(mailbox) IN
       /\ panicked' = (retries[m.addr] = None)
       /\ routes' = IF retries[m.addr] # None /\ m.exit # None
                    THEN [routes EXCEPT ![m.addr] = m.exit] ELSE routes
    /\ mailbox' = Tail(mailbox)
    /\ UNCHANGED <<browserVars, keys, tunneled, retries, ttl, timers, offset, queries, exitVars, hasWallet>>

-----------------------------------------------------------------------------
(* Answers                                                                 *)


\* The entry that stays behind when a request is sent again
NextRetry(retry) == [retry EXCEPT !.left = @ - 1]

\* A host name could not be resolved: the request of the key's retry entry is
\* sent again over a new route, and when no retry is left the browser is told.
DnsResolveFailure ==
    /\ Received("dns_failure")
    /\ LET a == Head(mailbox).addr
           retry == retries[a]
       IN  \/ /\ a \notin keys \/ retry = None
              /\ UNCHANGED <<keys, tunneled, retries, routes, ttl, queries, writers, shown>>
           \/ /\ a \in keys /\ retry # None /\ retry.left > 0
              /\ AskForRoute([request |-> retry.request, retire |-> FALSE])
              /\ retries' = [retries EXCEPT ![a] = NextRetry(retry)]
              /\ UNCHANGED <<keys, tunneled, routes, ttl, writers, shown>>
           \/ /\ a \in keys /\ retry # None /\ retry.left = 0
              /\ retries' = [retries EXCEPT ![a] = None]
              /\ Purge(a)
              /\ ToBrowser(a, 0, "dns_failure", TRUE)
              /\ UNCHANGED queries
    /\ mailbox' = Tail(mailbox)
    /\ UNCHANGED <<browser, timers, offset, exitVars, nodeVars>>

\* Slip: the packet of a CONNECT is forgotten in the numbers.
BrowserNumberUnshifted(n) == n

\* The writer's packet 0 is the answer to a CONNECT, if there was one.
BrowserNumber(n) == n + (IF offset THEN 1 ELSE 0)

\* A response is relayed if its key is known and not about to be purged.
ClientResponse ==
    /\ Received("response")
    /\ LET m == Head(mailbox)
           a == m.addr
       IN  /\ retries' = [retries EXCEPT ![a] = None]
           /\ IF a \in keys \ ttl
              THEN /\ ToBrowser(a, BrowserNumber(m.num), "response", m.last)
                   /\ IF m.last THEN Purge(a) ELSE UNCHANGED <<keys, routes, tunneled, ttl>>
              ELSE UNCHANGED <<keys, routes, tunneled, ttl, writers, shown>>
    /\ mailbox' = Tail(mailbox)
    /\ UNCHANGED <<browser, timers, offset, queries, exitVars, nodeVars>>

-----------------------------------------------------------------------------
(* Exit Nodes and the network                                              *)

\* Unless this Node is busy, its mailbox and its route queries are worked off
\* before an exit Node's answer has crossed the network.
MayAnswer == "busy" \in ProxyFaults \/ (queries = EmptyBag /\ mailbox = <<>>)

Key(r) == <<r.addr, r.conn>>

\* A packet reaches the server if its stream's first packet did.
Serve(p) ==
    /\ BagIn(p, arrived)
    /\ arrived' = arrived (-) SetToBag({p})
    /\ serving' = IF p.request.num = 0 /\ p.request.what = "data"
                  THEN serving \cup {Append(Key(p.request), p.exit)} ELSE serving
    /\ UNCHANGED <<browserVars, mailbox, keyVars, offset, queries, replies, attempts, nodeVars>>

FailToResolve(p) ==
    /\ "dns" \in ProxyFaults
    /\ MayAnswer
    /\ BagIn(p, arrived)
    /\ p.request.what = "data"
    /\ Append(Key(p.request), p.exit) \notin serving
    /\ arrived' = arrived (-) SetToBag({p})
    /\ Mail(DnsFailureMsg(p.request.addr))
    /\ UNCHANGED <<browserVars, keyVars, offset, queries, serving, replies, attempts, nodeVars>>

\* A packet or its answer is lost, or the return route is no longer known.
LosePacket(p) ==
    /\ "loss" \in ProxyFaults
    /\ BagIn(p, arrived)
    /\ arrived' = arrived (-) SetToBag({p})
    /\ UNCHANGED <<browserVars, mailbox, keyVars, offset, queries, serving, replies, attempts, nodeVars>>

Respond(s, last) ==
    /\ s \in serving
    /\ MayAnswer
    /\ s[2] = browser[s[1]].conn
    /\ replies[s[1]] < MaxReplies
    /\ Mail(AnswerMsg(s[1], replies[s[1]], last))
    /\ replies' = [replies EXCEPT ![s[1]] = @ + 1]
    /\ serving' = IF last THEN serving \ {s} ELSE serving
    /\ UNCHANGED <<browserVars, keyVars, offset, queries, arrived, attempts, nodeVars>>

-----------------------------------------------------------------------------
(* The specification                                                       *)

ProxyInit ==
    /\ browser = [a \in Addrs |-> [conn |-> 0, state |-> "none", sent |-> 0]]
    /\ writers = {}
    /\ shown = [a \in Addrs |-> <<>>]
    /\ mailbox = <<>>
    /\ keys = {}
    /\ tunneled = {}
    /\ retries = [a \in Addrs |-> None]
    /\ routes = [a \in Addrs |-> None]
    /\ ttl = {}
    /\ timers = [a \in Addrs |-> 0]
    /\ offset = FALSE
    /\ queries = EmptyBag
    /\ arrived = EmptyBag
    /\ serving = {}
    /\ replies = [a \in Addrs |-> 0]
    /\ attempts = [a \in Addrs |-> 0]
    /\ hasWallet \in BOOLEAN
    /\ panicked = FALSE

BrowserSteps == \E a \in Addrs : (\E k \in Kinds : Connect(a, k)) \/ Send(a) \/ Close(a)

ProxyHandlers ==
    \/ TlsConnect
    \/ InboundClientData
    \/ StreamShutdown
    \/ AddRouteResult
    \/ DnsResolveFailure
    \/ ClientResponse

Neighborhood == \E q \in BagToSet(queries) : (\E x \in Exits : RouteFound(q, x)) \/ NoRouteFound(q)

Network ==
    \/ \E p \in BagToSet(arrived) : Serve(p) \/ FailToResolve(p) \/ LosePacket(p)
    \/ \E s \in serving, last \in BOOLEAN : Respond(s, last)

ProxyNext ==
    \/ BrowserSteps
    \/ ProxyHandlers
    \/ Neighborhood
    \/ Network
    \/ \E a \in Addrs : StreamKeyPurge(a)

ProxySpec == ProxyInit /\ [][ProxyNext]_proxyVars

\* The mailbox is worked off, timers fire, the Neighborhood answers, exit Nodes
\* look at their packets and answer the streams they serve.
ProxyFairness ==
    /\ WF_proxyVars(ProxyHandlers)
    /\ \A a \in Addrs : WF_proxyVars(StreamKeyPurge(a))
    /\ WF_proxyVars(Neighborhood)
    /\ WF_proxyVars(\E p \in BagToSet(arrived) : Serve(p) \/ FailToResolve(p))
    /\ WF_proxyVars(\E s \in serving, last \in BOOLEAN : Respond(s, last))

ProxyFairSpec == ProxySpec /\ ProxyFairness

-----------------------------------------------------------------------------
(* Properties                                                              *)

\* Only a known key tunnels or awaits its purge; retry entries and routes are
\* those of requests that were made.
ProxyTypeOK ==
    /\ browser \in [Addrs -> [conn : 0 .. MaxConns, state : {"none", "open", "closed"},
                               sent : 0 .. MaxRequests]]
    /\ writers \subseteq Addrs /\ keys \subseteq Addrs
    /\ tunneled \subseteq keys /\ ttl \subseteq keys
    /\ retries \in [Addrs -> Retries \cup {None}]
    /\ routes \in [Addrs -> Exits \cup {None}]
    /\ timers \in [Addrs -> Nat]
    /\ BagToSet(queries) \subseteq Queries
    /\ BagToSet(arrived) \subseteq RequestPackets

\* Every answer of the Neighborhood finds the retry entry of its stream key, as
\* the handler of AddRouteResultMessage demands.
RouteResultsExpected == ~panicked

\* What the ProxyServer makes up when there is no answer of a server to relay
Failures == {"no_wallet", "no_route", "dns_failure"}

\* What a browser's StreamWriter is given is numbered 0, 1, 2, ... without gap or
\* repetition, as the SequenceBuffer needs in order to pass it on: the answer to
\* a CONNECT, the responses of the server and the failures the ProxyServer makes
\* up.  The code has two exceptions.  Behind an answered CONNECT the failures are
\* numbered 0 as well, and are dropped as duplicates of that answer.  And
\* browser_proxy_sequence_offset is one flag for all browsers: once any of them
\* has sent a CONNECT, the others' numbers have a gap.
NumbersComplete ==
    \A a \in Addrs :
        LET connected == shown[a] # <<>> /\ shown[a][1].what = "connected"
            counted == {i \in DOMAIN shown[a] : connected => shown[a][i].what \notin Failures}
        IN  (offset => connected) =>
                {shown[a][i].num : i \in counted} = 0 .. Cardinality(counted) - 1

\* The first request of a connection is sent at most once more than there are
\* retries, whatever other requests of the stream fail to be resolved.
RetriesBounded == \A a \in Addrs : attempts[a] <= MaxRetries + 1


\* A key whose browser is gone is purged at last.
ClosedStreamsForgotten == \A a \in Addrs : browser[a].state = "closed" ~> a \notin keys

\* A browser that made a request gets to see something, be it a failure, or
\* goes away.
RequestsAnswered == \A a \in Addrs :
    browser[a].sent > 0 ~> (shown[a] # <<>> \/ browser[a].state = "closed")

=============================================================================
