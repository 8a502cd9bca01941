------------------------------- MODULE Routes -------------------------------
(***************************************************************************)
(* How the Neighborhood of one Node chooses round-trip routes over its      *)
(* database, and how the exit countries its user prefers bear on that       *)
(* choice (node/src/neighborhood/mod.rs).  A route query searches the       *)
(* database depth first, with the least undesirability found so far as its  *)
(* bound: first from the Node itself to an exit, then from that exit back.  *)
(* The preferences, the minimum number of hops and the database change      *)
(* between queries.                                                         *)
(*                                                                          *)
(* The Nodes are 1 .. Size and 1 is the Node itself (the root).  Keys,      *)
(* hostnames and payloads are abstracted: one payload size, and one host    *)
(* that exits may be unable to resolve.                                     *)
(***************************************************************************)
EXTENDS Integers, FiniteSets, Sequences, SequencesExt, FiniteSetsExt

CONSTANTS
  Size,       \* number of Nodes there are
  Areas,      \* the neighborhoods considered: the half neighbors the
              \* database may have (maps), the countries and rates of the
              \* Nodes, those that route data, the order of a HashSet, and the
              \* requests, numbers of hops, wallets and events that may come
  NoKey,      \* the absence of a target, and of a route
  Unset       \* locations_opt = None

Root == 1
AreaNodes == 1 .. Size
ZZ == "ZZ"    \* the country of a Node whose country_code_opt is None

VARIABLES
  area,       \* the neighborhood of this behavior; it never changes
  database,         \* neighborhood_database
  prefs,      \* user_exit_preferences
  min_hops,
  consuming_wallet,   \* is there a consuming wallet?
  canMakeRoutes,      \* overall_connection_status is RouteFound
  answer,     \* the last answer to a route query of the ProxyServer
  panicked,   \* a handler panicked, so the Node is down
  wanted      \* countries asked for since preferences were last given up

routesVars == <<area, database, prefs, min_hops, consuming_wallet, canMakeRoutes, answer,
          panicked, wanted>>

RESPONSE_UNDESIRABILITY_FACTOR == 1000
UNREACHABLE_HOST_PENALTY == 100000000
UNREACHABLE_COUNTRY_PENALTY == 100000000
COUNTRY_UNDESIRABILITY_FACTOR == 1000
I64_MAX == 2147483647   \* above every undesirability that occurs

-----------------------------------------------------------------------------
(* The database.  database.half has the known Nodes as its domain. *)

KnownNodes(d) == DOMAIN d.half

FullNeighborsOf(d, n) == {k \in d.half[n] \cap KnownNodes(d) : n \in d.half[k]}

CalculateCountryUndesirability(priority) ==
  COUNTRY_UNDESIRABILITY_FACTOR * (priority - 1)

\* assign_nodes_country_undesirability, of a Node of country cc with
\* undesirability u.
AssignCountryUndesirability(p, cc, u) ==
  IF p.locations_opt = Unset THEN u
  ELSE FoldLeft(LAMBDA so_far, location :
         IF \/ /\ p.fallback_preference = "ExitCountryWithFallback"
               /\ cc \notin p.exit_countries
            \/ cc = ZZ
         THEN UNREACHABLE_COUNTRY_PENALTY
         ELSE IF cc \in location.country_codes
         THEN CalculateCountryUndesirability(location.priority)
         ELSE so_far,
       u, p.locations_opt)

-----------------------------------------------------------------------------
(* What a Node costs. *)

RoutingCharge(n, payload_size) ==
  area.rates[n].routing_service + area.rates[n].routing_byte * payload_size

ExitCharge(n, payload_size) ==
  area.rates[n].exit_service + area.rates[n].exit_byte * payload_size

ExitRequestUndesirability(d, n, q) ==
  ExitCharge(n, q.payload_size)
    + (IF q.hostname /\ n \in d.unreachable THEN UNREACHABLE_HOST_PENALTY
                                            ELSE 0)
    + d.undesirability[n]

\* compute_initial_undesirability: the exit both exits and routes the answer.
InitialUndesirability(q) ==
  IF q.direction = "Over" THEN 0
  ELSE ExitCharge(q.source, q.payload_size)
         + RoutingCharge(q.source, q.payload_size)

\* compute_new_undesirability, of adding n with so many hops still to go.
NewUndesirability(d, q, n, hops_remaining) ==
  IF q.direction = "Over" /\ q.target = NoKey /\ hops_remaining = 0
  THEN ExitRequestUndesirability(d, n, q)
  ELSE RoutingCharge(n, q.payload_size)

-----------------------------------------------------------------------------
(* Which Nodes may end a segment. *)

LastKeyQualifies(q, n) == q.target \in {NoKey, n}

\* validate_last_node_not_too_close_to_first_node
NotTooClose(d, prefix) ==
  \/ Len(prefix) <= 2
  \/ Head(prefix) \notin d.half[Last(prefix)]

\* validate_country_code_when_fallback_routing
CountryWhenFallback(p, cc) ==
  \/ cc \in p.exit_countries
  \/ p.exit_countries \cap p.db_countries = {}

\* validate_last_node_country_code, when not researching
CountryQualifies(p, q, n) ==
  \/ p.fallback_preference = "Nothing"
  \/ /\ p.fallback_preference = "ExitCountryWithFallback"
     /\ CountryWhenFallback(p, area.country[n])
  \/ q.direction = "Back"
  \/ area.country[n] # ZZ /\ area.country[n] \in p.exit_countries


\* The neighbors routing_guts goes on to, in the order its HashSet gives
\* them: nobody twice, and no Node that will not route data, except the
\* originating Node at the end of the way back.
Onward(d, q, prefix) ==
  LET fit(n) == /\ n \in FullNeighborsOf(d, Last(prefix)) \ ToSet(prefix)
                /\ n \in area.routers \/ (q.direction = "Back" /\ n = q.target)
  IN SelectSeq(area.order, fit)

\* A targetless search that has no country to look for ends at min_hops.
Targetless(p, q) ==
  /\ q.target = NoKey
  /\ ~q.research
  /\ p.fallback_preference = "Nothing" \/ p.exit_countries = {}

-----------------------------------------------------------------------------
(* The search.  st carries what the recursion shares: the least            *)
(* undesirability found, the segments found, the exits seen by research.    *)

RECURSIVE RoutingEngine(_, _, _, _, _, _, _)

RoutingGuts(d, p, q, st, prefix, undesirability, hops_remaining) ==
  LET left == IF hops_remaining = 0 THEN 0 ELSE hops_remaining - 1
  IN FoldLeft(LAMBDA s, n :
       RoutingEngine(d, p, q, s, Append(prefix, n),
         undesirability + NewUndesirability(d, q, n, left), left),
       st, Onward(d, q, prefix))

RoutingEngine(d, p, q, st, prefix, undesirability, hops_remaining) ==
  LET last == Last(prefix)
      ends == hops_remaining = 0 /\ LastKeyQualifies(q, last)
                /\ NotTooClose(d, prefix)
      on(s) == RoutingGuts(d, p, q, s, prefix, undesirability, hops_remaining)
  IN IF undesirability > st.minimum /\ ~q.research THEN st
     ELSE IF ends /\ ~q.research /\ CountryQualifies(p, q, last)
     THEN [st EXCEPT !.minimum = Min({@, undesirability}),
                     !.found = Append(@, [nodes |-> prefix,
                                undesirability |-> undesirability])]
     ELSE IF ends /\ q.research
     THEN IF last \in st.exits THEN st
          ELSE on([st EXCEPT !.exits = @ \cup {last}])
     ELSE IF ~ends /\ hops_remaining = 0 /\ Targetless(p, q) THEN st
     ELSE on(st)

Run(d, p, q) ==
  RoutingEngine(d, p, q, [minimum |-> I64_MAX, found |-> <<>>, exits |-> {}],
                <<q.source>>, InitialUndesirability(q), q.minimum_hops)

\* The first segment found whatever it costs: the bound only prunes.
FirstSegment(d, p, q) ==
  LET st == Run(d, p, q)
  IN IF st.found = <<>> THEN NoKey ELSE Head(st.found).nodes

FindBestRouteSegment(d, p, q) ==
  LET st == Run(d, p, q)
      best == SelectSeq(st.found, LAMBDA s : s.undesirability <= st.minimum)
  IN IF best = <<>> THEN NoKey ELSE Head(best).nodes

Query(direction, source, target, hops, hostname) ==
  [direction |-> direction, source |-> source, target |-> target,
   minimum_hops |-> hops, hostname |-> hostname, research |-> FALSE,
   payload_size |-> IF direction = "Over" THEN 1
                    ELSE RESPONSE_UNDESIRABILITY_FACTOR]

FindExitLocations(d, p, hops) ==
  Run(d, p, [Query("Over", Root, NoKey, hops, FALSE) EXCEPT
              !.payload_size = 0, !.research = TRUE]).exits

InitDbCountries(d, p, hops) ==
  {area.country[n] : n \in FindExitLocations(d, p, hops)} \ {ZZ}

-----------------------------------------------------------------------------
(* A round trip. *)

\* calculate_expected_service, for the Node k of a segment.
ExpectedService(segment, k) ==
  CASE k = Root -> "Nothing"
    [] k # Root /\ k \in {Head(segment), Last(segment)} -> "Exit"
    [] OTHER -> "Routing"

ExpectedServices(segment) ==
  [i \in DOMAIN segment |-> ExpectedService(segment, segment[i])]

RoundTrip(d, p, hops, wallet, hostname) ==
  LET over == FindBestRouteSegment(d, p,
                Query("Over", Root, NoKey, hops, hostname))
      back == FindBestRouteSegment(d, p,
                Query("Back", Last(over), Root, hops, hostname))
  IN IF over = NoKey THEN NoKey
     ELSE IF back = NoKey THEN NoKey
     ELSE IF ~wallet /\ (Len(over) > 2 \/ Len(back) > 2) THEN NoKey
     ELSE [over |-> over, back |-> back,
           request |-> ExpectedServices(over),
           response |-> ExpectedServices(back)]

-----------------------------------------------------------------------------
NoPreferences ==
  [exit_countries |-> {}, fallback_preference |-> "Nothing",
   locations_opt |-> Unset, db_countries |-> {}]

RoutesInit ==
  /\ area \in Areas
  /\ \E m \in area.maps :
       database = [half |-> m, undesirability |-> [n \in DOMAIN m |-> 0],
             unreachable |-> {}]
  /\ min_hops \in area.hops
  /\ prefs = [NoPreferences EXCEPT
               !.db_countries = InitDbCountries(database, NoPreferences, min_hops)]
  /\ consuming_wallet \in area.wallets
  /\ canMakeRoutes =
       (RoundTrip(database, prefs, min_hops, consuming_wallet, FALSE) # NoKey)
  /\ answer = NoKey
  /\ panicked = FALSE
  /\ wanted = {}

\* search_for_a_new_route: the answer goes to nobody, the stage rises.
SearchForANewRoute(d, p, hops, stage) ==
  canMakeRoutes' =
    (stage \/ RoundTrip(d, p, hops, consuming_wallet, FALSE) # NoKey)

\* The ProxyServer asks for a route, to the host or to an address.
HandleRouteQueryMessage ==
  /\ "query" \in area.events
  /\ \E hostname \in BOOLEAN :
       answer' = RoundTrip(database, prefs, min_hops, consuming_wallet, hostname)
  /\ UNCHANGED <<area, database, prefs, min_hops, consuming_wallet, canMakeRoutes,
                 panicked, wanted>>

\* The exit of the last answer could not resolve the host.
HandleUpdateNodeRecordMetadata ==
  /\ answer # NoKey
  /\ LET exit == Last(answer.over)
     IN /\ panicked' = (exit \notin KnownNodes(database))
        /\ database' = IF panicked' THEN database
                 ELSE [database EXCEPT !.unreachable = @ \cup {exit}]
  /\ UNCHANGED <<area, prefs, min_hops, consuming_wallet, canMakeRoutes,
                 answer, wanted>>

-----------------------------------------------------------------------------
(* Preferences. *)

\* synchronize_exit_countries_and_return_missing, without what is missing.
\* Whether fallback is active is still what the previous request said.
SynchronizeExitCountries(p, codes) ==
  LET kept == {c \in codes : \/ c \in p.db_countries
                             \/ p.fallback_preference
                                  = "ExitCountryWithFallback"}
  IN [p EXCEPT !.exit_countries = (@ \ codes) \cup kept]

SynchronizeLocations(p, locations) ==
  FoldLeft(LAMBDA q, location :
             SynchronizeExitCountries(q, location.country_codes),
           p, locations)

FallbackPreference(request) ==
  IF request.exit_locations = <<>> THEN "Nothing"
  ELSE IF request.fallback_routing THEN "ExitCountryWithFallback"
  ELSE "ExitCountryNoFallback"

\* set_exit_locations_opt
ExitLocationsOpt(p, locations) ==
  IF p.exit_countries = {} /\ p.fallback_preference = "ExitCountryNoFallback"
  THEN Unset ELSE locations

\* set_country_undesirability_and_exit_countries, on the database ...
CountryUndesirability(d, p, locations) ==
  [d EXCEPT !.undesirability =
     [n \in KnownNodes(d) |->
        IF locations = <<>> THEN 0
        ELSE AssignCountryUndesirability(p, area.country[n], @[n])]]

\* ... and on the preferences: exit_countries is emptied when nothing is
\* asked for.
GivingUp(p, locations) ==
  IF locations = <<>> THEN [p EXCEPT !.exit_countries = {}] ELSE p

\* A UI asks for exit locations, or to be shown those there are.
HandleExitLocationMessage ==
  \E request \in area.requests :
    LET locations == request.exit_locations
        researched == [prefs EXCEPT
                        !.db_countries = InitDbCountries(database, prefs, min_hops)]
        synchronized == SynchronizeLocations(researched, locations)
        preferring == [synchronized EXCEPT
                        !.fallback_preference = FallbackPreference(request)]
        located == IF request.show_countries THEN preferring
                   ELSE [preferring EXCEPT
                          !.locations_opt =
                             ExitLocationsOpt(preferring, locations)]
        alone == Cardinality(KnownNodes(database)) = 1
    IN /\ prefs' = IF alone THEN located ELSE GivingUp(located, locations)
       /\ database' = IF alone THEN database
                ELSE CountryUndesirability(database, located, locations)
       /\ wanted' = IF locations = <<>>
                    THEN IF request.show_countries \/ alone THEN wanted ELSE {}
                    ELSE wanted \cup UNION {location.country_codes :
                                             location \in ToSet(locations)}
       /\ UNCHANGED <<area, min_hops, consuming_wallet, canMakeRoutes, answer,
                      panicked>>

\* ... or not: a RouteFound for the former min_hops is taken back.
StageBeforeSearch == FALSE

\* ConfigChange::UpdateMinHops
UpdateMinHops ==
  \E hops \in area.hops \ {min_hops} :
    LET researched == [prefs EXCEPT
                        !.db_countries = InitDbCountries(database, prefs, hops)]
        locations == prefs.locations_opt
        synchronized == SynchronizeLocations(researched, locations)
    IN /\ min_hops' = hops
       /\ prefs' = IF locations = Unset THEN researched
                   ELSE GivingUp(synchronized, locations)
       /\ database' = IF locations = Unset THEN database
                ELSE CountryUndesirability(database, synchronized, locations)
       /\ SearchForANewRoute(database', prefs', hops, StageBeforeSearch)
       /\ UNCHANGED <<area, consuming_wallet, answer, panicked, wanted>>

\* ConfigChange::UpdateWallets
UpdateWallets ==
  /\ ~consuming_wallet
  /\ consuming_wallet' = TRUE
  /\ UNCHANGED <<area, database, prefs, min_hops, canMakeRoutes, answer, panicked,
                 wanted>>

-----------------------------------------------------------------------------
(* The database changes. *)

\* Gossip was accepted: Nodes come with the undesirability the preferences
\* give them, Nodes isolated for long go, links change; then the countries
\* are researched and, when no route was found so far, a route is sought.
HandleAcceptedGossip ==
  \E m \in {m \in area.maps : m # database.half /\ DOMAIN m # {Root}} :
    LET d == [half |-> m,
              undesirability |->
                [n \in DOMAIN m |->
                   IF n \in KnownNodes(database) THEN database.undesirability[n]
                   ELSE AssignCountryUndesirability(prefs, area.country[n],
                                                    0)],
              unreachable |-> database.unreachable \cap DOMAIN m]
    IN /\ database' = d
       /\ prefs' = [prefs EXCEPT
                     !.db_countries = InitDbCountries(d, prefs, min_hops)]
       /\ IF canMakeRoutes THEN UNCHANGED canMakeRoutes
          ELSE SearchForANewRoute(d, prefs', min_hops, FALSE)
       /\ UNCHANGED <<area, min_hops, consuming_wallet, answer, panicked,
                      wanted>>

\* handle_stream_shutdown_msg: the neighborship with the peer is given up;
\* neither the countries nor the stage are looked at again.
HandleStreamShutdownMsg ==
  /\ "shutdown" \in area.events
  /\ \E neighbor \in database.half[Root] :
       database' = [database EXCEPT !.half[Root] = @ \ {neighbor}]
  /\ UNCHANGED <<area, prefs, min_hops, consuming_wallet, canMakeRoutes,
                 answer, panicked, wanted>>

RoutesNext ==
  /\ ~panicked
  /\ \/ HandleRouteQueryMessage
     \/ HandleUpdateNodeRecordMetadata
     \/ HandleExitLocationMessage
     \/ UpdateMinHops
     \/ UpdateWallets
     \/ HandleAcceptedGossip
     \/ HandleStreamShutdownMsg

RoutesSpec == RoutesInit /\ [][RoutesNext]_routesVars

-----------------------------------------------------------------------------
(* What the search ought to find, without a bound and without an order. *)

\* The ways out of q.source that never meet a Node twice.
Ways(d, q) ==
  LET longer[n \in 0 .. Size] ==
        IF n = 0 THEN {<<q.source>>}
        ELSE UNION {{Append(way, k) : k \in ToSet(Onward(d, q, way))} :
                     way \in longer[n - 1]}
  IN UNION {longer[n] : n \in 0 .. Size - 1}

Hops(way) == Len(way) - 1

WayQualifies(d, p, q, way) ==
  /\ IF Targetless(p, q) THEN Hops(way) = q.minimum_hops
                         ELSE Hops(way) >= q.minimum_hops
  /\ LastKeyQualifies(q, Last(way))
  /\ NotTooClose(d, way)
  /\ CountryQualifies(p, q, Last(way))

Undesirability(d, q, way) ==
  FoldFunctionOnSet(+, InitialUndesirability(q),
    [i \in DOMAIN way |->
       IF i = 1 THEN 0
       ELSE NewUndesirability(d, q, way[i],
              IF i - 1 >= q.minimum_hops THEN 0 ELSE q.minimum_hops - i + 1)],
    DOMAIN way)

LeastOf(d, p, q) ==
  LET ways == {way \in Ways(d, q) : WayQualifies(d, p, q, way)}
      found == FindBestRouteSegment(d, p, q)
  IN IF ways = {} THEN found = NoKey
     ELSE /\ found \in ways
          /\ \A way \in ways :
               Undesirability(d, q, found) <= Undesirability(d, q, way)

OverQuery(hostname) == Query("Over", Root, NoKey, min_hops, hostname)

-----------------------------------------------------------------------------
(* Properties. *)

\* The database, the preferences and the answers have their types; the
\* undesirability of a Node's country is never negative, on which pruning in
\* routing_engine relies.
RoutesTypeOK ==
  /\ Root \in KnownNodes(database) /\ KnownNodes(database) \subseteq AreaNodes
  /\ \A n \in KnownNodes(database) : database.half[n] \subseteq AreaNodes
  /\ DOMAIN database.undesirability = KnownNodes(database)
  /\ \A n \in KnownNodes(database) : database.undesirability[n] \in Nat
  /\ database.unreachable \subseteq AreaNodes
  /\ prefs.fallback_preference \in
       {"Nothing", "ExitCountryWithFallback", "ExitCountryNoFallback"}
  /\ prefs.locations_opt = Unset \/ \A i \in DOMAIN prefs.locations_opt :
       prefs.locations_opt[i].priority > 0
  /\ min_hops \in area.hops
  /\ {consuming_wallet, canMakeRoutes, panicked} \subseteq BOOLEAN
  /\ answer # NoKey => answer.over \in Seq(AreaNodes) /\ answer.back \in Seq(AreaNodes)

\* find_best_route_segment returns one of the least undesirable segments
\* there are, and none exactly when there is none, though routing_engine
\* prunes as it goes and stops at the first Node that qualifies: for the way
\* over, and for the way back from every Node that may be an exit.
LeastUndesirable ==
  /\ \A hostname \in BOOLEAN : LeastOf(database, prefs, OverQuery(hostname))
  /\ \A n \in KnownNodes(database) \ {Root} :
       LeastOf(database, prefs, Query("Back", n, Root, min_hops, FALSE))

\* make_round_trip_route seeks the way back only from the best exit.  Unless
\* this Node claims that exit as a neighbor and the exit does not claim this
\* Node, the way back is there.
WayBackFromBestExit ==
  LET over == FindBestRouteSegment(database, prefs, OverQuery(FALSE))
  IN \/ over = NoKey
     \/ Last(over) \in database.half[Root] /\ Root \notin database.half[Last(over)]
     \/ FindBestRouteSegment(database, prefs,
          Query("Back", Last(over), Root, min_hops, FALSE)) # NoKey

\* On both legs of an answer one and the same Node is expected to exit, the
\* one where they meet, and every other Node but this one to route.
OneExitPerRoundTrip ==
  answer # NoKey =>
    LET exit == Last(answer.over)
        served(segment, services) ==
          \A i \in DOMAIN segment :
            services[i] = IF segment[i] = Root THEN "Nothing"
                          ELSE IF segment[i] = exit THEN "Exit"
                          ELSE "Routing"
    IN /\ Head(answer.back) = exit /\ Last(answer.back) = Root
       /\ served(answer.over, answer.request)
       /\ served(answer.back, answer.response)

\* While fallback routing is off, a route exits only in a country that was
\* asked for since the preferences were last given up: what an earlier choice
\* left in exit_countries does not outlive an empty request, made when there
\* are other Nodes in the database.
ExitsOnlyWhereWanted ==
  LET over == FindBestRouteSegment(database, prefs, OverQuery(FALSE))
  IN (/\ prefs.fallback_preference = "ExitCountryNoFallback"
      /\ over # NoKey)
     => area.country[Last(over)] \in wanted

\* While fallback routing is on and db_countries is up to date, a route over
\* is found whenever some Node can be an exit at all.
FallbackFindsAnExit ==
  (/\ prefs.fallback_preference = "ExitCountryWithFallback"
   /\ prefs.db_countries = InitDbCountries(database, prefs, min_hops)
   /\ \E way \in Ways(database, OverQuery(FALSE)) :
        WayQualifies(database, NoPreferences, OverQuery(FALSE), way))
  => FindBestRouteSegment(database, prefs, OverQuery(FALSE)) # NoKey


=============================================================================
