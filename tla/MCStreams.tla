----------------------------- MODULE MCStreams -----------------------------
(* The ProxyServer and the StreamHandlerPool side by side.  They share no   *)
(* state in these models, so a behaviour is about one of them: part says    *)
(* which, and the other stays as it started.                                *)
EXTENDS MCProxyStreams, StreamPool

(* Three packets for one neighbor and two for one browser.                 *)
CONSTANTS n1, c1

MCTo == [p \in Packets |-> IF p <= 3 THEN n1 ELSE c1]
\* One of the neighbor's packets is gossip for a Node of which only the socket is known.
MCBySocket == Packets \cap {2, 4, 5}
MCLast == {p \in Packets : p = 5}

VARIABLE part

streamsVars == <<part, proxyVars, spVars>>

StreamsInit ==
    /\ part \in {"proxy", "pool"}
    /\ ProxyInit /\ PoolInit
    /\ part = "pool" => hasWallet

StreamsNext ==
    \/ part = "proxy" /\ ProxyNext /\ UNCHANGED <<part, spVars>>
    \/ part = "pool" /\ PoolNext /\ UNCHANGED <<part, proxyVars>>

StreamsSpec == StreamsInit /\ [][StreamsNext]_streamsVars

\* The fairness of the two, each where a behaviour is about it.
StreamsFairSpec ==
    /\ StreamsSpec
    /\ WF_proxyVars(part = "proxy" /\ ProxyHandlers)
    /\ \A a \in Addrs : WF_proxyVars(part = "proxy" /\ StreamKeyPurge(a))
    /\ WF_proxyVars(part = "proxy" /\ Neighborhood)
    /\ WF_proxyVars(part = "proxy" /\ \E p \in BagToSet(arrived) : Serve(p) \/ FailToResolve(p))
    /\ WF_proxyVars(part = "proxy" /\ \E s \in serving, last \in BOOLEAN : Respond(s, last))
    /\ WF_spVars(part = "pool" /\ Handlers)
    /\ WF_spVars(part = "pool" /\ (HandleNodeQuery \/ RemoveNeighbor))
    /\ \A p \in Packets : /\ WF_spVars(part = "pool" /\ Resubmit(p))
                          /\ WF_spVars(part = "pool" /\ ConnectEnds(p))
    /\ \A s \in Streams : WF_spVars(part = "pool" /\ WriterProceeds(s))

=============================================================================
