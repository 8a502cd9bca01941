----------------------------- MODULE MCServices -----------------------------
(* How services are found, claimed, booked and paid for, one thing to a     *)
(* behaviour: part says whether it is about routes, the Hopper's packages,  *)
(* receivables or the columns of a balance; the other models stay as they   *)
(* started.                                                                 *)
EXTENDS Routes, Hopper, Receivables, Balances

Rate(routing, exit) ==
  [routing_byte |-> routing, routing_service |-> 1,
   exit_byte |-> exit, exit_service |-> 2]

MCRates == <<Rate(1, 1), Rate(1, 3), Rate(2, 1), Rate(1, 1), Rate(3, 2)>>

\* The half neighbors of every Node when the links in both are full and
\* those in one are claimed by the first Node of the pair only.
Linked(nodes, both, one) ==
  [n \in nodes |-> {k \in AreaNodes : {n, k} \in both \/ <<n, k>> \in one}]

Groups(first, second) ==
  <<[country_codes |-> first, priority |-> 1],
    [country_codes |-> second, priority |-> 2]>>

One(codes) == <<[country_codes |-> codes, priority |-> 1]>>

Request(locations, fallback, show) ==
  [exit_locations |-> locations, fallback_routing |-> fallback,
   show_countries |-> show]

Ascending == <<1, 2, 3, 4, 5>>
Descending == <<5, 4, 3, 2, 1>>

Area(maps, requests, events, hops, order) ==
  [maps |-> maps, requests |-> requests, events |-> events, hops |-> hops,
   order |-> order, wallets |-> {TRUE}, routers |-> AreaNodes,
   country |-> <<"ZZ", "AU", "ZZ", "FR", "AU">>, rates |-> MCRates]

\* Every way to link the Nodes beyond the first two links.
Quiet ==
  LET links == {{2, 3}, {2, 4}, {2, 5}, {3, 4}, {3, 5}, {4, 5}}
  IN {Area({Linked(AreaNodes, {{1, 2}, {1, 3}} \cup more, {})},
           {Request(One({"FR"}), FALSE, FALSE),
            Request(Groups({"FR"}, {"AU"}), TRUE, FALSE)},
           {}, {1, 2, 3}, Ascending) : more \in SUBSET links}

Square == Linked(AreaNodes, {{1, 2}, {1, 3}, {2, 4}, {3, 5}}, {})
Row == Linked(1 .. 4, {{1, 2}, {2, 3}, {3, 4}}, {<<1, 4>>})
Triangle == Linked({1, 2, 3, 5}, {{1, 2}, {2, 3}, {1, 3}, {2, 5}}, {<<5, 1>>})
Alone == Linked({1}, {}, {})

France == Request(One({"FR"}), FALSE, FALSE)
Australia == Request(One({"AU"}), FALSE, FALSE)
Either == Request(Groups({"AU"}, {"FR"}), TRUE, FALSE)
Anywhere == Request(<<>>, TRUE, FALSE)
ShowMe == Request(<<>>, TRUE, TRUE)

\* Preferences that change with the database, queries that fail, and a Node
\* that gets its consuming wallet late.
Busy ==
  {Area({Square, Row, Triangle}, {France, Australia, Either, Anywhere, ShowMe},
        {}, {1, 2}, Descending),
   Area({Square, Triangle}, {France, Either, Anywhere}, {"shutdown"}, {1, 2},
        Ascending),
   Area({Alone, Square}, {Either, France, Anywhere}, {}, {1, 2}, Ascending),
   Area({Square, Row}, {Either}, {"query", "shutdown"}, {2}, Ascending),
   [Area({Square}, {}, {"query"}, {1, 2}, Descending) EXCEPT
     !.wallets = {FALSE}, !.routers = 2 .. 4]}

MCAreas == Quiet \cup Busy

(* Journeys of four Nodes: a two-hop trip there and back the same way, a   *)
(* three-hop trip that returns another way, and the zero-hop mode.         *)
Short  == [over |-> <<1, 2>>, back |-> <<2, 1>>]
Same   == [over |-> <<1, 2, 3>>, back |-> <<3, 2, 1>>]
Around == [over |-> <<1, 2, 3, 4>>, back |-> <<4, 2, 1>>]
Zero   == [over |-> <<1, 1>>, back |-> <<1, 1>>]

HopperWorld(trips, ills, most) ==
    [trips |-> trips, decentralized |-> TRUE, troubles |-> ills,
     requests |-> most, answers |-> most]

SomeHopperWorlds ==
    {HopperWorld({Short, Around}, {}, 2), HopperWorld({Same}, {"loss"}, 2),
     HopperWorld({Around}, {"loss", "expiry", "ban", "gossip"}, 1),
     [HopperWorld({Zero}, {"expiry"}, 2) EXCEPT !.decentralized = FALSE]}

(* Names for the debtors of small instances.                              *)
CONSTANTS w1, w2

(* Instances of Balances for TLC. *)
Term(debt, permanent, maturity, grace, interval, unban) ==
    [debt |-> debt, permanent |-> permanent, maturity |-> maturity,
     grace |-> grace, interval |-> interval, unban |-> unban]

\* A permanent debt within the lower column, of none and of just one gwei less.
SmallTerms == { Term(5, 2, 1, 1, 3, 2), Term(5, 0, 1, 2, 2, 1), Term(4, 2, 0, 1, 1, 4),
                Term(2, 2, 1, 1, 1, 2), Term(4, 1, 2, 1, 4, 1) }

\* Gwei that range queries are asked about.
MCLimits == {-9, -3, -1, 0, 1, 3, 9}

VARIABLE part

\* Where a model stays when a behaviour is not about it.
RoutesStill ==
  /\ area = CHOOSE a \in Areas : Alone \in a.maps
  /\ min_hops = 1
  /\ RoutesInit /\ database.half = Alone
HopperStill == scene = (CHOOSE s \in HopperWorlds : TRUE) /\ HopperInit
ReceivablesStill == chain = <<{}>> /\ Init
BalancesStill ==
  /\ table = CHOOSE t \in Tables : TRUE
  /\ terms = CHOOSE t \in Terms : CheckPaymentThresholds(t)
  /\ BalancesInit

ServicesInit ==
  /\ part \in {"routes", "hopper", "receivables", "balances"}
  /\ IF part = "routes" THEN RoutesInit ELSE RoutesStill
  /\ IF part = "hopper" THEN HopperInit ELSE HopperStill
  /\ IF part = "receivables" THEN Init ELSE ReceivablesStill
  /\ IF part = "balances" THEN BalancesInit ELSE BalancesStill

ServicesNext ==
  /\ UNCHANGED part
  /\ \/ /\ part = "routes" /\ RoutesNext
        /\ UNCHANGED <<hopperVars, vars, balancesVars>>
     \/ /\ part = "hopper" /\ HopperNext
        /\ UNCHANGED <<routesVars, vars, balancesVars>>
     \/ /\ part = "receivables" /\ Next
        /\ UNCHANGED <<routesVars, hopperVars, balancesVars>>
     \/ /\ part = "balances" /\ BalancesNext
        /\ UNCHANGED <<routesVars, hopperVars, vars>>

Receiving(A) == part = "receivables" /\ A

\* The fairness of Receivables, where a behaviour is about them.
ServicesFairSpec ==
  /\ ServicesInit
  /\ [][ServicesNext]_<<part, routesVars, hopperVars, vars, balancesVars>>
  /\ WF_vars(Receiving(ScanForReceivables))
  /\ WF_vars(Receiving(BeginScanStep))
  /\ WF_vars(Receiving(Restart))
  /\ \A s \in Scans : /\ WF_vars(Receiving(HandleRetrieveTransactions(s)))
                      /\ WF_vars(Receiving(BlockNumberAnswered(s)))
                      /\ SF_vars(Receiving(RangeRefused(s)))
                      /\ SF_vars(Receiving(LogsRetrieved(s)))
                      /\ WF_vars(Receiving(HandleReceivedPayments(s)))
                      /\ WF_vars(Receiving(HandleScanError(s)))


\* Bans are due and end when the debt is paid: BansAreDue and
\* PaidDebtorsReturn of Receivables.
BansAreKept ==
  /\ BansAreDue
  /\ part = "receivables" => PaidDebtorsReturn
=============================================================================
