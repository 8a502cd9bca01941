----------------------------- MODULE MCSurroundings -----------------------------
(* What the Node finds around it, one thing to a behaviour: part says        *)
(* whether it is about the router's hole, the machine's DNS settings, the    *)
(* table of countries, the bit queue in which it is packed, or the frames    *)
(* of the streams; the other models stay as they started.                    *)
EXTENDS Automap, DnsUtility, BitQueue, CountryBlocks, Framing

(* A small instance of Automap: networks with one or two routers. *)
Net(two, answers, maps, grant, permanent, flaky) ==
    [routers |-> [p \in Protocols |-> IF p # "igdp" /\ two THEN <<1, 2>> ELSE <<1>>],
     answers |-> answers, maps |-> maps, grant |-> grant, permanent |-> permanent, flaky |-> flaky]

\* PCP answers at the second router; IGDP only; PMP answers but does not map;
\* IGDP with permanent leases; PMP and IGDP, requests get lost; nobody answers.
MCNetworks ==
    {Net(TRUE, {Attempt("pcp", 2), Attempt("igdp", 1)}, {Attempt("pcp", 2)},
         Lifetime, FALSE, FALSE),
     Net(FALSE, {Attempt("igdp", 1)}, {Attempt("igdp", 1)}, 3, FALSE, FALSE),
     Net(FALSE, {Attempt("pmp", 1), Attempt("igdp", 1)}, {Attempt("igdp", 1)},
         3, FALSE, FALSE),
     Net(FALSE, {Attempt("igdp", 1)}, {Attempt("igdp", 1)}, 3, TRUE, FALSE),
     Net(FALSE, {Attempt("pmp", 1), Attempt("igdp", 1)},
         {Attempt("pmp", 1), Attempt("igdp", 1)}, Lifetime, FALSE, TRUE),
     Net(FALSE, {}, {}, 3, FALSE, FALSE)}

(* Instances of DnsUtility for TLC. *)
Line(mark, ip) == [mark |-> mark, ip |-> ip]
MCFiles == { <<Line(0, "a")>>,
             <<Line(0, "a"), Line(1, "b")>>,
             <<Line(0, "a"), Line(0, "b")>>,
             <<Line(0, Near), Line(0, "a")>>,
             <<Line(0, Loop), Line(0, "a")>>,
             <<Line(0, "a"), Line(0, Loop)>>,
             <<Line(1, "a")>> }

Iface(gate, dhcp, ns) == [gate |-> gate, dhcp |-> dhcp, ns |-> ns, bak |-> Absent]
MCRegistries == { <<Iface(1, Absent, <<"a">>), Iface(1, <<"a">>, <<>>)>>,
                  <<Iface(1, Absent, <<"a", "b">>), Iface(0, <<"b">>, <<"b">>)>>,
                  <<Iface(1, <<"a">>, <<>>), Iface(2, <<"b">>, <<>>)>>,
                  <<Iface(1, <<"a">>, <<>>), Iface(1, <<"a">>, <<"b", Loop>>)>> }

MCStores == { [addresses |-> a, bak |-> Absent, others |-> TRUE] :
              a \in {<<"a">>, <<"a", "b">>, <<>>, Absent, <<"a", Loop>>, <<Loop, "a">>} }

MCSkies == { {}, {"crash"}, {"deny"}, {"crash", "deny"},
             {"renewal", "crash"}, {"renewal", "deny"}, {"edit"}, {"edit", "deny"},
             {"deny", "stubborn"} }

(* Streams for the framers: pipelined requests with and without bodies, a   *)
(* chunked request, a CONNECT and what follows it, TLS records whose        *)
(* contents look like records, JSON with quotes, escapes and nesting; some  *)
(* with garbage between the units, some unsound.                            *)
Wire(port, units) == [port |-> port, units |-> units, cuts |-> "any", sound |-> TRUE]
Unsound(port, units) == [Wire(port, units) EXCEPT !.sound = FALSE]
Kind(port, units) == [Wire(port, units) EXCEPT !.cuts = "kind"]

Junk == <<0, 71, 3>>
Plain == GET \o CRLF \o CRLF
WithBody == GET \o CRLF \o <<ContentLength(2)>> \o CRLF \o CRLF \o GET
ChunkHead == GET \o CRLF \o <<Chunked>> \o CRLF \o CRLF
Chunk == <<Digit(2)>> \o CRLF \o <<CR, LF>> \o CRLF
BareChunk == <<Digit(1)>> \o CRLF \o <<7>>
FinalChunk == <<Digit(0)>> \o DOUBLE_CRLF
Bad == GET \o CRLF \o <<BadLength>> \o CRLF
Connect == CONNECT \o <<SP, 7>> \o CRLF \o CRLF
Hello == <<22, 3, 1, 0, 3, 22, 3, 1>>
Data == <<23, 3, 3, 0, 1, 3>>
Quoted == <<OB, BODY, DQ, CB, BS, DQ, SQ, OB, DQ, CB>>
Nested == <<OB, OB, BODY, CB, CB>>
Bodiless == <<OB, CB>>

MCWires ==
    {Wire("http", <<Plain, WithBody, Plain>>),
     Wire("http", <<Junk, WithBody, Junk, Plain>>),
     Wire("http", <<Junk, Junk, Junk, Plain>>),
     Wire("http", <<ChunkHead, Chunk, BareChunk, FinalChunk, WithBody>>),
     Kind("http", <<Connect, Plain>>),
     Unsound("http", <<Bad, Plain, WithBody>>),
     Unsound("http", <<ChunkHead, <<0, 7, 7>>, FinalChunk, Plain>>),
     Kind("tls", <<Connect, Hello, Data>>),
     Kind("tls", <<Junk, Hello, Data, Hello>>),
     Wire("tls", <<Connect, Hello, Data>>),
     Wire("clandestine", <<Quoted, Nested, Quoted>>),
     Wire("clandestine", <<<<0, CB, DQ>>, Quoted, <<0, SQ>>, Nested>>),
     Unsound("clandestine", <<Quoted, Bodiless, Nested>>)}

VARIABLE part

\* Where a model stays when a behaviour is not about it.
AutomapStill ==
  /\ who = "tool" /\ network = CHOOSE n \in Networks : TRUE
  /\ AutomapInit
DnsStill ==
  /\ platform = "macos" /\ sky = {} /\ dict = CHOOSE s \in Stores : TRUE
  /\ DnsInit
CountryStill == source = "csv" /\ CountryInit
FrStill == wire = (CHOOSE w \in Wires : TRUE) /\ FrInit

SurroundingsInit ==
  /\ part \in {"router", "dns", "queue", "countries", "frames"}
  /\ IF part = "router" THEN AutomapInit ELSE AutomapStill
  /\ IF part = "dns" THEN DnsInit ELSE DnsStill
  /\ QueueInit
  /\ IF part = "countries" THEN CountryInit ELSE CountryStill
  /\ IF part = "frames" THEN FrInit ELSE FrStill

SurroundingsNext ==
  /\ UNCHANGED part
  /\ \/ /\ part = "router" /\ AutomapNext
        /\ UNCHANGED <<dnsVars, queueVars, countryVars, frVars>>
     \/ /\ part = "dns" /\ DnsNext
        /\ UNCHANGED <<amVars, queueVars, countryVars, frVars>>
     \/ /\ part = "queue" /\ QueueNext
        /\ UNCHANGED <<amVars, dnsVars, countryVars, frVars>>
     \/ /\ part = "countries" /\ CountryNext
        /\ UNCHANGED <<amVars, dnsVars, queueVars, frVars>>
     \/ /\ part = "frames" /\ FrNext
        /\ UNCHANGED <<amVars, dnsVars, queueVars, countryVars>>

\* The fairness of Automap, where a behaviour is about it.
SurroundingsFairSpec ==
  /\ SurroundingsInit
  /\ [][SurroundingsNext]_<<part, amVars, dnsVars, queueVars, countryVars, frVars>>
  /\ WF_amVars(part = "router" /\ Client)
  /\ WF_amVars(part = "router" /\ Housekeeping)
  /\ WF_amVars(part = "router" /\ Tick)


=============================================================================
