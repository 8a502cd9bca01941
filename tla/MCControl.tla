----------------------------- MODULE MCControl -----------------------------
(* How a user controls the Node and what the Node keeps for them, one thing *)
(* to a behaviour: part says whether it is about the Daemon, a masq, the    *)
(* sockets of the user interfaces, the configuration or the database file;  *)
(* the other models stay as they started.                                   *)
EXTENDS Daemon, MasqCli, UiSupervisor, Configuration, Database

(* Two UIs, a Setup space of two contents, three launches. *)
CONSTANTS u1, u2, s1, s2, blank

DaemonWeathers == {{"patient", "setup"}, {"setup"}, {"stubborn"}}

(***************************************************************************)
(* MasqCli for TLC: quiet days, days on which the Node or the Daemon dies, *)
(* and a hasty user, with up to MaxCommands commands.                      *)
(***************************************************************************)
CliMoods == {{"send"}, {"crash"}, {"crash", "hasty"}, {"crash", "daemon"}, {"daemon", "send"},
             {"crash", "send"}}

(***************************************************************************)
(* UiSupervisor for TLC: two addresses, three connections, with and        *)
(* without user interfaces that are killed, with and without reuse.        *)
(***************************************************************************)
CONSTANTS a1, a2

SupClimates == {{}, {"death"}, {"death", "reuse"}}

(***************************************************************************)
(* Configuration for TLC: two passwords, one kind of disturbance at a time.*)
(***************************************************************************)
CONSTANTS p1, p2, none

ConfigClimes == {{}, {"neighbors"}, {"scan"}, {"crash"}, {"locked"}}

(* Instances of Database: the files the Node may find. *)
Money(p, r, f) == [payable |-> p, receivable |-> r, pending_payable |-> f]

\* Files of every version a migration starts from, with and without a wallet.
SoundFiles ==
    {NoFile,
     File(0, "none", 0, Money(<<4>>, <<>>, <<>>)),
     File(1, "seed", 0, Money(<<>>, <<5>>, <<>>)),
     File(2, "none", 0, Money(<<>>, <<>>, <<>>)),
     File(3, "seed", 0, Money(<<4>>, <<5>>, <<>>)),
     File(4, "key", 0, Money(<<4>>, <<>>, <<>>)),
     File(5, "none", 0, Money(<<4>>, <<5>>, <<6>>)),
     File(6, "key", SpecifiedRate, Money(<<4>>, <<5>>, <<6>>)),
     File(7, "key", SpecifiedRate * Gwei, Money(<<40, 41>>, <<50>>, <<>>)),
     File(8, "none", SpecifiedRate * Gwei, Money(<<>>, <<50, 51>>, <<>>)),
     File(9, "key", SpecifiedRate * Gwei, Money(<<40>>, <<50>>, <<60, 61>>)),
     File(11, "key", SpecifiedRate * Gwei, Money(<<>>, <<>>, <<>>))}

\* Files with two rows in a table.
CrowdedFiles ==
    {File(3, "seed", 0, Money(<<4, 7>>, <<5>>, <<>>)),
     File(6, "key", SpecifiedRate, Money(<<4>>, <<5, 8>>, <<>>))}

MCFiles == SoundFiles \cup CrowdedFiles
MCSeasons == {{}, {"crash"}, {"crash", "cut"}, {"race"}}

VARIABLE part

\* Where a model stays when a behaviour is not about it.
DaemonStill == weather = (CHOOSE w \in Weathers : TRUE) /\ DaemonInit
CliStill == mood = (CHOOSE m \in Moods : TRUE) /\ up = {"daemon"} /\ CliInit
SupStill == climate = (CHOOSE c \in Climates : TRUE) /\ SupInit
ConfigStill == clime = (CHOOSE c \in Climes : TRUE) /\ ConfigInit
DbStill == season = (CHOOSE s \in Seasons : TRUE) /\ db = NoFile /\ DbInit

ControlInit ==
  /\ part \in {"daemon", "masq", "sockets", "configuration", "database"}
  /\ IF part = "daemon" THEN DaemonInit ELSE DaemonStill
  /\ IF part = "masq" THEN CliInit ELSE CliStill
  /\ IF part = "sockets" THEN SupInit ELSE SupStill
  /\ IF part = "configuration" THEN ConfigInit ELSE ConfigStill
  /\ IF part = "database" THEN DbInit ELSE DbStill

ControlNext ==
  /\ UNCHANGED part
  /\ \/ /\ part = "daemon" /\ DaemonNext
        /\ UNCHANGED <<cliVars, supVars, configVars, dbVars>>
     \/ /\ part = "masq" /\ CliNext
        /\ UNCHANGED <<daemonVars, supVars, configVars, dbVars>>
     \/ /\ part = "sockets" /\ SupNext
        /\ UNCHANGED <<daemonVars, cliVars, configVars, dbVars>>
     \/ /\ part = "configuration" /\ ConfigNext
        /\ UNCHANGED <<daemonVars, cliVars, supVars, dbVars>>
     \/ /\ part = "database" /\ DbNext
        /\ UNCHANGED <<daemonVars, cliVars, supVars, configVars>>

\* The fairness of each model, where a behaviour is about it.
ControlFairSpec ==
  /\ ControlInit
  /\ [][ControlNext]_<<part, daemonVars, cliVars, supVars, configVars, dbVars>>
  /\ WF_daemonVars(part = "daemon" /\ DaemonStep)
  /\ \A pid \in Processes :
       /\ WF_daemonVars(part = "daemon" /\ WaitWithOutput(pid))
       /\ WF_daemonVars(part = "daemon" /\ KilledOne(pid) /\ NodeEnds(pid))
  /\ WF_cliVars(part = "masq" /\ ManagerStep)
  /\ WF_cliVars(part = "masq" /\ ServerReplies)
  /\ WF_cliVars(part = "masq" /\ ListenerNotices)
  /\ WF_cliVars(part = "masq" /\ SendMessage)
  /\ WF_cliVars(part = "masq" /\ ReceiveResult)
  /\ WF_cliVars(part = "masq" /\ Timeout)
  /\ WF_cliVars(part = "masq" /\ Disconnected)
  /\ WF_supVars(part = "sockets" /\ GatewayStep)
  /\ \A c \in Ids : WF_supVars(part = "sockets" /\ c \in Made /\ StreamStep(c))
  /\ WF_dbVars(part = "database" /\ CreateNext)
  /\ WF_dbVars(part = "database" /\ MigrateNext)
  /\ WF_dbVars(part = "database" /\ Commit)

\* Whoever waits for one of them is served in the end: the Daemon answers and
\* tells of the Node's end, commands of masq end, the gateway forgets clients
\* that have closed, and a Node gets its database.
WhoWaitsIsServed ==
  /\ part = "daemon" => EveryRequestAnswered /\ EndIsBroadcast
  /\ part = "masq" => EveryCommandEnds /\ LeavesDeadNode
  /\ part = "sockets" => ClosedIsForgotten
  /\ part = "database" => GetsItsFile
=============================================================================
