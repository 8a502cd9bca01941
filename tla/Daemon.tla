------------------------------- MODULE Daemon -------------------------------
(***************************************************************************)
(* The Daemon, the Node processes it launches and the user interfaces that *)
(* talk to it (node/src/daemon).  The Daemon is one actor with one mailbox:*)
(* requests of UIs and crash notifications of the threads that wait for    *)
(* child processes come in one order and are handled one by one.  A start  *)
(* order keeps the actor busy while the launch is verified; processes live *)
(* and die meanwhile.                                                      *)
(*                                                                         *)
(* Processes are numbered in the order of their launch; a Node's UI port   *)
(* is named by its process number.  `weather` never changes: "patient"     *)
(* says that requests and ends of processes do not cross in the mailbox,   *)
(* "stubborn" that a process may survive being killed, "setup" that UIs    *)
(* work on the Setup space.                                                *)
(***************************************************************************)
EXTENDS Integers, Sequences, FiniteSets

CONSTANTS
    Uis,            \* the user interfaces
    Setups,         \* contents of the Setup space the SetupReporter can produce
    EmptySetup,     \* the Setup space of a new Daemon
    Weathers,       \* sets of "patient", "stubborn", "setup"
    MaxProcesses,   \* bound: launches
    MaxRequests     \* bound: requests of UIs

VARIABLES
    weather,
    letters,          \* of the Daemon
    params,           \* Daemon.params
    node_process_id,  \* Daemon.node_process_id, 0 for None
    node_ui_port,     \* Daemon.node_ui_port, 0 for None
    launch,           \* the launch the start handler is in the middle of
    process,          \* the state of each process
    setupOf,          \* the Setup each process was started with
    told,             \* the Setup each UI was last sent
    waiting,          \* how many requests of each UI have no response yet
    announced,        \* processes whose crash was broadcast
    requested         \* requests made so far

daemonVars == <<weather, letters, params, node_process_id, node_ui_port, launch,
                process, setupOf, told, waiting, announced, requested>>

Processes == 1..MaxProcesses
NoLaunch  == [ui |-> "none", pid |-> 0, phase |-> "none"]
Idle      == launch = NoLaunch
Live      == {"booting", "serving", "killed"}
Quiet     == Idle /\ letters = <<>> /\ \A p \in Processes : process[p] # "dead"
-----------------------------------------------------------------------------
DaemonInit ==
    /\ weather \in Weathers
    /\ letters = <<>>
    /\ params = EmptySetup
    /\ node_process_id = 0 /\ node_ui_port = 0
    /\ launch = NoLaunch
    /\ process = [p \in Processes |-> "unborn"]
    /\ setupOf = [p \in Processes |-> EmptySetup]
    /\ told = [u \in Uis |-> EmptySetup]
    /\ waiting = [u \in Uis |-> 0]
    /\ announced = {}
    /\ requested = 0

(* A UI sends a request.  "setup" carries the Setup space that the         *)
(* SetupReporter makes of it, "other" is any message meant for the Node.   *)
UiRequest(u, kind, setup) ==
    /\ requested < MaxRequests
    /\ kind = "setup" => "setup" \in weather
    /\ "patient" \in weather => Quiet
    /\ requested' = requested + 1
    /\ waiting' = [waiting EXCEPT ![u] = @ + 1]
    /\ letters' = Append(letters, [kind |-> kind, ui |-> u, pid |-> 0, setup |-> setup])
    /\ UNCHANGED <<weather, params, node_process_id, node_ui_port, launch, process,
                   setupOf, told, announced>>
-----------------------------------------------------------------------------
(* port_if_node_is_running: a process that is gone is forgotten on the spot. *)
ProcessIsRunning(pid) == pid # 0 /\ process[pid] \in Live

CheckedNever(pid) == 0

Checked(pid) == IF ProcessIsRunning(pid) THEN pid ELSE 0

PortIfNodeIsRunning ==
    /\ node_process_id' = Checked(node_process_id)
    /\ node_ui_port' = IF node_process_id' = 0 THEN 0 ELSE node_ui_port

Responds(u) == waiting' = [waiting EXCEPT ![u] = @ - 1]

Next1(kind) == Idle /\ letters # <<>> /\ Head(letters).kind = kind
               /\ letters' = Tail(letters)

(* Every other UI is told of a change, unless there was no Setup before. *)
Told(u, new) ==
    [v \in Uis |-> IF v = u \/ (new # params /\ params # EmptySetup)
                     THEN new ELSE told[v]]

HandleSetup ==
    LET m   == Head(letters)
        new == IF Checked(node_process_id) # 0 THEN params ELSE m.setup
    IN  /\ Next1("setup")
        /\ PortIfNodeIsRunning
        /\ params' = new
        /\ told' = Told(m.ui, new)
        /\ Responds(m.ui)
        /\ UNCHANGED <<weather, launch, process, setupOf, announced, requested>>

HandleUnexpectedMessage ==
    /\ Next1("other")
    /\ PortIfNodeIsRunning
    /\ Responds(Head(letters).ui)
    /\ UNCHANGED <<weather, params, launch, process, setupOf, told, announced, requested>>

AlreadyRunning ==
    /\ Next1("start") /\ Checked(node_process_id) # 0
    /\ PortIfNodeIsRunning
    /\ Responds(Head(letters).ui)
    /\ UNCHANGED <<weather, params, launch, process, setupOf, told, announced, requested>>

(* The command could not be executed: the UI is told so. *)
CannotExecute ==
    /\ Next1("start") /\ Checked(node_process_id) = 0
    /\ PortIfNodeIsRunning
    /\ Responds(Head(letters).ui)
    /\ UNCHANGED <<weather, params, launch, process, setupOf, told, announced, requested>>

Exec ==
    /\ Next1("start") /\ Checked(node_process_id) = 0
    /\ PortIfNodeIsRunning
    /\ \E pid \in Processes :
         /\ process[pid] = "unborn" /\ \A p \in 1..(pid - 1) : process[p] # "unborn"
         /\ process' = [process EXCEPT ![pid] = "booting"]
         /\ setupOf' = [setupOf EXCEPT ![pid] = params]
         /\ launch' = [ui |-> Head(letters).ui, pid |-> pid, phase |-> "connect"]
    /\ UNCHANGED <<weather, params, told, waiting, announced, requested>>
-----------------------------------------------------------------------------
(* verify_launch, in the start handler: wait for the UI gateway of the     *)
(* Node; if it does not answer in time, kill a process that is still there *)
(* and wait for its end.                                                   *)
LaunchEnds(pid) ==
    /\ node_process_id' = pid /\ node_ui_port' = pid
    /\ Responds(launch.ui)
    /\ launch' = NoLaunch
    /\ UNCHANGED <<weather, letters, params, process, setupOf, told, announced, requested>>

Launched == launch.phase = "connect" /\ process[launch.pid] = "serving" /\ LaunchEnds(launch.pid)

CleanFailure == launch.phase = "connect" /\ ~ProcessIsRunning(launch.pid) /\ LaunchEnds(0)

KillProcess ==
    /\ launch.phase = "connect" /\ ProcessIsRunning(launch.pid)
    /\ launch' = [launch EXCEPT !.phase = "death"]
    /\ process' = [process EXCEPT ![launch.pid] = "killed"]
    /\ UNCHANGED <<weather, letters, params, node_process_id, node_ui_port, setupOf,
                   told, waiting, announced, requested>>

DirtyFailure == launch.phase = "death" /\ ~ProcessIsRunning(launch.pid) /\ LaunchEnds(0)

InterventionRequired ==
    /\ launch.phase = "death" /\ ProcessIsRunning(launch.pid)
    /\ "stubborn" \in weather
    /\ LaunchEnds(0)
-----------------------------------------------------------------------------
(* Processes and the threads that wait for them *)

NodeServes(pid) ==
    /\ process[pid] = "booting"
    /\ process' = [process EXCEPT ![pid] = "serving"]
    /\ UNCHANGED <<weather, letters, params, node_process_id, node_ui_port, launch,
                   setupOf, told, waiting, announced, requested>>

Crash(pid) == [kind |-> "crash", ui |-> "none", pid |-> pid, setup |-> EmptySetup]

NodeEnds(pid) ==
    /\ process[pid] \in Live
    /\ "patient" \in weather => letters = <<>>
    /\ process' = [process EXCEPT ![pid] = "dead"]
    /\ UNCHANGED <<weather, letters, params, node_process_id, node_ui_port, launch, setupOf,
                   told, waiting, announced, requested>>

WaitWithOutput(pid) ==
    /\ process[pid] = "dead"
    /\ process' = [process EXCEPT ![pid] = "reaped"]
    /\ letters' = Append(letters, Crash(pid))
    /\ UNCHANGED <<weather, params, node_process_id, node_ui_port, launch, setupOf,
                   told, waiting, announced, requested>>

CrashHandledUntold(pid) ==
    IF node_process_id # 0
      THEN node_process_id' = 0 /\ node_ui_port' = 0 /\ UNCHANGED announced
      ELSE UNCHANGED <<node_process_id, node_ui_port, announced>>

(* handle_crash_notification: whatever process the notification is about,  *)
(* the Daemon forgets the one it knows.                                    *)
CrashHandled(pid) ==
    IF node_process_id # 0 \/ node_ui_port # 0
      THEN /\ node_process_id' = 0 /\ node_ui_port' = 0
           /\ announced' = announced \union {pid}
      ELSE UNCHANGED <<node_process_id, node_ui_port, announced>>

HandleCrashNotification ==
    /\ Next1("crash")
    /\ CrashHandled(Head(letters).pid)
    /\ UNCHANGED <<weather, params, launch, process, setupOf, told, waiting, requested>>

DaemonStep ==
    \/ HandleSetup \/ HandleUnexpectedMessage \/ AlreadyRunning \/ CannotExecute \/ Exec
    \/ Launched \/ CleanFailure \/ KillProcess \/ DirtyFailure \/ InterventionRequired
    \/ HandleCrashNotification

DaemonNext ==
    \/ \E u \in Uis, s \in Setups : UiRequest(u, "setup", s)
    \/ \E u \in Uis, kind \in {"start", "other"} : UiRequest(u, kind, EmptySetup)
    \/ DaemonStep
    \/ \E pid \in Processes : NodeServes(pid) \/ NodeEnds(pid) \/ WaitWithOutput(pid)

DaemonSpec == DaemonInit /\ [][DaemonNext]_daemonVars

(* The actor keeps working, the verifier's waits are bounded by its clock, *)
(* a killed process dies unless it is stubborn, and waiting threads run.   *)
KilledOne(pid) == process[pid] = "killed" /\ "stubborn" \notin weather

DaemonFairSpec ==
    /\ DaemonSpec
    /\ WF_daemonVars(DaemonStep)
    /\ \A pid \in Processes :
         /\ WF_daemonVars(WaitWithOutput(pid))
         /\ WF_daemonVars(KilledOne(pid) /\ NodeEnds(pid))
-----------------------------------------------------------------------------
(* Type correctness; the process ID and the port are known or unknown      *)
(* together, as the expect of port_if_node_is_running requires.            *)
DaemonTypeOK ==
    /\ node_process_id \in 0..MaxProcesses /\ node_ui_port = node_process_id
    /\ params \in Setups \union {EmptySetup}
    /\ waiting \in [Uis -> 0..MaxRequests]
    /\ announced \subseteq Processes

(* As long as requests do not cross with ends of processes, at most one    *)
(* Node runs, the Daemon knows it, and the Setup space is the one it was   *)
(* started with.  A UI that has ever been sent the Setup space has the     *)
(* present one: a change made by one UI reaches all the others.            *)
OneNodeWithItsSetup ==
    /\ \A u \in Uis : told[u] # EmptySetup => told[u] = params
    /\ ("patient" \in weather /\ "stubborn" \notin weather)
      => LET alive == {p \in Processes : process[p] \in Live}
         IN  /\ Cardinality(alive) <= 1
             /\ \A p \in alive : launch.pid # p => node_process_id = p /\ setupOf[p] = params

(* Every request of a UI is answered, whatever the processes do. *)
EveryRequestAnswered == \A u \in Uis : waiting[u] > 0 ~> waiting[u] = 0

(* As long as requests do not cross with ends of processes, the end of the *)
(* Node that the Daemon knows is broadcast to the UIs.  (Otherwise a       *)
(* request that finds the process gone, port_if_node_is_running, forgets   *)
(* the Node and leaves nothing for the crash notification to announce.)    *)
EndIsBroadcast ==
    "patient" \in weather =>
        \A p \in Processes :
            process[p] = "dead" /\ node_process_id = p ~> p \in announced
=============================================================================
