----------------------------- MODULE DnsUtility -----------------------------
(***************************************************************************)
(* dns_utility, the command-line tool that points the machine's DNS at     *)
(* the Node (subvert), gives the former servers back (revert) and reports  *)
(* (inspect, status).  It has one modifier per platform: on Linux it edits *)
(* the lines of /etc/resolv.conf, on macOS one dictionary of the dynamic   *)
(* store, on Windows the registry key of every interface in turn, rolling  *)
(* back what it did when one of them fails.  Meanwhile the machine's own   *)
(* software may change the same settings.                                  *)
(***************************************************************************)
EXTENDS Integers, Sequences, FiniteSets, SequencesExt, FiniteSetsExt

CONSTANTS
    Platforms,   \* the platforms a behaviour may be about
    Skies,       \* what may go wrong: a set of sets of the
                 \* following: "crash" (killed), "deny" (a change is
                 \* refused), "stubborn" (so is its rollback), "renewal", "edit"
    Files,       \* the resolv.conf files to start from
    Registries,  \* the interfaces a Windows machine may start with
    Stores,      \* the dictionaries a macOS machine may start with
    MaxRuns,     \* bound: how often the tool is run
    MaxOutside   \* bound: how often other software changes the settings

\* Server addresses.  Near is one that begins like the loopback address
\* (127.0.0.11 begins with 127.0.0.1).
Loop == "127.0.0.1"
Near == "127.0.0.11"
Ips == {Loop, Near, "a", "b"}

\* A registry value or dictionary entry that does not exist.
Absent == <<"absent">>

VARIABLES
    platform,   \* which platform this behaviour is about (never changes)
    sky,        \* what may go wrong in it (never changes)
    file,       \* Linux: the nameserver lines, [mark, ip]
    reg,        \* Windows: per interface [gate, dhcp, ns, bak]
    dict,       \* macOS: [addresses, bak, others]
    tool,       \* the running tool
    outcome,    \* of the last run: "none", "ok", "error", "panic", "killed"
    done,       \* which action the last run was asked for
    configured, \* ghost: the servers the user had configured
    before,     \* ghost: the servers in force when the tool was started
    runs,       \* how often the tool was run
    outside     \* how often other software changed the settings

world == <<platform, sky>>
settings == <<file, reg, dict>>
dnsVars == <<platform, sky, file, reg, dict, tool, outcome, done, configured,
          before, runs, outside>>

NoTool == [op |-> "none", phase |-> "idle", todo |-> <<>>, past |-> <<>>,
           held |-> <<>>, next |-> <<>>]

(***************************************************************************)
(* Linux.  The mark of a line counts the '#' in front of "nameserver"; -1  *)
(* stands for a line whose first letter was cut off, which no resolver     *)
(* reads.  Only lines with mark 0 or 1 match the pattern for "existing".   *)
(***************************************************************************)
Active(lines) == SelectSeq(lines, LAMBDA l : l.mark = 0)
ActiveIps(lines) == [k \in DOMAIN Active(lines) |-> Active(lines)[k].ip]
Existing(line) == line.mark \in {0, 1}

\* revert looks for an active line by its beginning, so 127.0.0.11 matches.
MasqLines(lines) ==
    {k \in DOMAIN lines : lines[k].mark = 0 /\ lines[k].ip \in {Loop, Near}}

\* The result of computing new contents: an error, or the new lines.
Failure == [ok |-> FALSE, lines |-> <<>>]
Lines(l) == [ok |-> TRUE, lines |-> l]


SubvertContents(lines) ==
    LET ips == ActiveIps(lines) IN
    IF ips = <<>> THEN Failure
    ELSE IF Head(ips) = Loop THEN Lines(lines)
    ELSE IF Contains(ips, Loop) THEN Failure
    ELSE Lines(Append([k \in DOMAIN lines |->
                         IF Existing(lines[k]) THEN [lines[k] EXCEPT !.mark = @ + 1]
                                               ELSE lines[k]],
                      [mark |-> 0, ip |-> Loop]))

RevertContents(lines) ==
    LET masq == MasqLines(lines)
        left == RemoveAt(lines, Min(masq))
    IN  IF masq = {} THEN Lines(lines)
        ELSE IF Cardinality(masq) > 1 THEN Failure
        ELSE IF ~\E k \in DOMAIN left : Existing(left[k]) THEN Failure
        ELSE Lines([k \in DOMAIN left |->
                     IF Existing(left[k]) THEN [left[k] EXCEPT !.mark = @ - 1]
                                          ELSE left[k]])

(***************************************************************************)
(* Windows.                                                                *)
(***************************************************************************)
IsSubverted(ns) == ns # <<>> /\ Head(ns) = Loop
MakesNoSense(ns) == Contains(ns, Loop)

Gated(r) == {i \in DOMAIN r : r[i].gate # 0 /\ r[i].ns # Absent}
Gates(r) == {r[i].gate : i \in Gated(r)}

\* find_interfaces: {} stands for its error.
FindInterfaces(r) == IF Cardinality(Gates(r)) = 1 THEN Gated(r) ELSE {}
FindInterfacesToRevert(r) == {i \in DOMAIN r : r[i].bak # Absent}

\* What one interface asks: the DHCP servers unless others are configured.
ServersOf(r, i) == IF r[i].ns \in {Absent, <<>>} THEN r[i].dhcp ELSE r[i].ns

(***************************************************************************)
(* What inspect prints (Absent if it reports an error) and what status     *)
(* makes of it.                                                            *)
(***************************************************************************)
Inspect ==
    CASE platform = "linux" ->
            IF Active(file) = <<>> THEN Absent ELSE ActiveIps(file)
      [] platform = "macos" -> dict.addresses
      [] platform = "windows" ->
            LET lists == {ServersOf(reg, i) : i \in FindInterfaces(reg)}
            IN  IF Cardinality(lists) = 1 THEN CHOOSE l \in lists : TRUE ELSE Absent

StatusFromInspect ==
    IF Inspect = Absent THEN "error"
    ELSE IF Inspect = <<Loop>> THEN "subverted" ELSE "reverted"

\* The servers set in each place, whatever the platform.
InForce ==
    CASE platform = "linux" -> <<ActiveIps(file)>>
      [] platform = "macos" -> <<dict.addresses>>
      [] platform = "windows" -> [i \in DOMAIN reg |-> reg[i].ns]

-----------------------------------------------------------------------------
DnsInit ==
    /\ platform \in Platforms /\ sky \in Skies
    /\ file \in IF platform = "linux" THEN Files ELSE {<<>>}
    /\ reg \in IF platform = "windows" THEN Registries ELSE {<<>>}
    /\ dict \in IF platform = "macos" THEN Stores
                ELSE {[addresses |-> Absent, bak |-> Absent, others |-> FALSE]}
    /\ tool = NoTool /\ outcome = "none" /\ done = "none"
    /\ configured = InForce /\ before = InForce
    /\ runs = 0 /\ outside = 0

FinishRun(result) ==
    /\ tool' = NoTool
    /\ outcome' = result

\* The tool is started: go parses the action and perform_action makes the
\* modifier of the platform.
Begin(op) ==
    /\ tool.phase = "idle" /\ runs < MaxRuns
    /\ runs' = runs + 1 /\ done' = op /\ before' = InForce
    /\ UNCHANGED <<world, configured, outside>>

\* Linux: the file is read, the new contents are computed and the file is
\* cut to nothing (also when the contents are to stay as they are).
LinuxRead(op) ==
    /\ platform = "linux" /\ Begin(op)
    /\ LET new == IF op = "subvert" THEN SubvertContents(file)
                                    ELSE RevertContents(file)
       IN  \/ /\ ~new.ok \/ "deny" \in sky
              /\ FinishRun("error") /\ UNCHANGED settings
           \/ /\ new.ok
              /\ tool' = [NoTool EXCEPT !.op = op, !.phase = "write",
                                        !.next = new.lines]
              /\ file' = <<>> /\ outcome' = "none"
              /\ UNCHANGED <<reg, dict>>

\* Linux: the new contents are written.
LinuxWrite ==
    /\ tool.phase = "write"
    /\ file' = tool.next
    /\ FinishRun("ok")
    /\ UNCHANGED <<world, reg, dict, done, configured, before, runs, outside>>

\* macOS: what the modifier makes of the active addresses.
Standing(addresses) ==
    IF addresses \in {Absent, <<>>} THEN "none"
    ELSE IF Head(addresses) = Loop THEN "subverted"
    ELSE IF Contains(addresses, Loop) THEN "nonsense" ELSE "plain"

\* macOS: set_dns_info replaces the dictionary as a whole, so whatever else
\* it held is gone; without privilege it fails.
StoreReplace(addresses, bak) ==
    \/ /\ dict' = [addresses |-> addresses, bak |-> bak, others |-> FALSE]
       /\ outcome' = "ok"
    \/ /\ "deny" \in sky
       /\ outcome' = "error" /\ UNCHANGED dict

StoreSubvert ==
    /\ platform = "macos" /\ Begin("subvert")
    /\ LET standing == Standing(dict.addresses) IN
       \/ standing \in {"none", "nonsense"} /\ outcome' = "error" /\ UNCHANGED dict
       \/ standing = "subverted" /\ outcome' = "ok" /\ UNCHANGED dict
       \/ standing = "plain" /\ StoreReplace(<<Loop>>, dict.addresses)
    /\ UNCHANGED <<file, reg, tool>>

StoreRevert ==
    /\ platform = "macos" /\ Begin("revert")
    /\ LET standing == Standing(dict.addresses) IN
       \/ /\ standing = "none" \/ (standing = "subverted" /\ dict.bak = Absent)
          /\ outcome' = "error" /\ UNCHANGED dict
       \/ standing \in {"plain", "nonsense"} /\ outcome' = "ok" /\ UNCHANGED dict
       \/ /\ standing = "subverted" /\ dict.bak # Absent
          /\ StoreReplace(dict.bak, Absent)
    /\ UNCHANGED <<file, reg, tool>>

-----------------------------------------------------------------------------
InOrder(S) == SetToSortSeq(S, <)

\* Windows: the interfaces to change are found.
WinBegin(op) ==
    /\ platform = "windows" /\ Begin(op)
    /\ UNCHANGED settings
    /\ LET found == IF op = "subvert" THEN FindInterfaces(reg)
                                      ELSE FindInterfacesToRevert(reg)
       IN  \/ /\ found = {}
              /\ FinishRun(IF op = "subvert" THEN "error" ELSE "ok")
           \/ /\ found # {}
              /\ tool' = [NoTool EXCEPT !.op = op, !.phase = "first",
                                        !.todo = InOrder(found)]
              /\ outcome' = "none"

Now == Head(tool.todo)
Quiet == UNCHANGED <<world, file, dict, done, configured, before, runs, outside>>

\* The current interface is done with.
Onward ==
    IF Len(tool.todo) = 1
    THEN FinishRun("ok")
    ELSE /\ tool' = [tool EXCEPT !.phase = "first", !.todo = Tail(@),
                                 !.past = Append(@, Now)]
         /\ UNCHANGED outcome

\* The current interface failed: all of them so far are rolled back.
GiveUp ==
    /\ tool' = [tool EXCEPT !.phase = "rollback", !.past = <<>>,
                            !.todo = Append(tool.past, Now)]
    /\ UNCHANGED outcome

\* The current interface is rolled back; the tool ends with its error.
RolledBack ==
    IF Len(tool.todo) = 1
    THEN FinishRun("error")
    ELSE /\ tool' = [tool EXCEPT !.phase = "rollback", !.todo = Tail(@)]
         /\ UNCHANGED outcome

\* subvert_interface: the servers are backed up first.
WinBackUp ==
    /\ tool.op = "subvert" /\ tool.phase = "first" /\ Quiet
    /\ LET ns == reg[Now].ns IN
       \/ ns = Absent /\ FinishRun("panic") /\ UNCHANGED reg
       \/ ns # Absent /\ IsSubverted(ns) /\ Onward /\ UNCHANGED reg
       \/ ~IsSubverted(ns) /\ MakesNoSense(ns) /\ GiveUp /\ UNCHANGED reg
       \/ /\ ns # Absent /\ ~MakesNoSense(ns)
          /\ \/ /\ reg' = [reg EXCEPT ![Now].bak = ns]
                /\ tool' = [tool EXCEPT !.phase = "second"] /\ UNCHANGED outcome
             \/ /\ "deny" \in sky
                /\ GiveUp /\ UNCHANGED reg

\* subvert_interface: netsh is told the loopback address.
WinPoint ==
    /\ tool.op = "subvert" /\ tool.phase = "second" /\ Quiet
    /\ \/ reg' = [reg EXCEPT ![Now].ns = <<Loop>>] /\ Onward
       \/ "deny" \in sky /\ GiveUp /\ UNCHANGED reg

\* roll_back_subvert: the backup is deleted, then the servers are restored.
WinUnsubvert ==
    /\ tool.op = "subvert" /\ tool.phase = "rollback" /\ Quiet
    /\ \/ reg[Now].bak = Absent /\ RolledBack /\ UNCHANGED reg
       \/ /\ reg[Now].bak # Absent
          /\ \/ /\ reg' = [reg EXCEPT ![Now].bak = Absent]
                /\ tool' = [tool EXCEPT !.phase = "restore", !.held = reg[Now].bak]
                /\ UNCHANGED outcome
             \/ /\ "stubborn" \in sky
                /\ FinishRun("panic") /\ UNCHANGED reg

WinRestore ==
    /\ tool.op = "subvert" /\ tool.phase = "restore" /\ Quiet
    /\ LET ns == reg[Now].ns IN
       \/ ns = Absent /\ FinishRun("panic") /\ UNCHANGED reg
       \/ ns # Absent /\ ~IsSubverted(ns) /\ RolledBack /\ UNCHANGED reg
       \/ ns # Absent /\ IsSubverted(ns) /\
             \/ reg' = [reg EXCEPT ![Now].ns = tool.held] /\ RolledBack
             \/ "stubborn" \in sky /\ FinishRun("panic") /\ UNCHANGED reg

\* revert_interface: netsh is told the former servers.
WinGiveBack ==
    /\ tool.op = "revert" /\ tool.phase = "first" /\ Quiet
    /\ \/ /\ reg' = IF reg[Now].ns = Absent THEN reg
                    ELSE [reg EXCEPT ![Now].ns = reg[Now].bak]
          /\ tool' = [tool EXCEPT !.phase = "second"] /\ UNCHANGED outcome
       \/ /\ "deny" \in sky /\ reg[Now].ns # Absent
          /\ GiveUp /\ UNCHANGED reg

\* revert_interface: the backup is deleted.
WinForget ==
    /\ tool.op = "revert" /\ tool.phase = "second" /\ Quiet
    /\ \/ reg' = [reg EXCEPT ![Now].bak = Absent] /\ Onward
       \/ "deny" \in sky /\ GiveUp /\ UNCHANGED reg

\* roll_back_revert: the servers are backed up again, and then netsh is told
\* the loopback address again.
WinRedo ==
    /\ tool.op = "revert" /\ tool.phase = "rollback" /\ Quiet
    /\ LET ns == reg[Now].ns IN
       \/ ns = Absent /\ RolledBack /\ UNCHANGED reg
       \/ ns # Absent /\ IsSubverted(ns) /\ RolledBack /\ UNCHANGED reg
       \/ ns # Absent /\ ~IsSubverted(ns) /\
             \/ /\ reg' = [reg EXCEPT ![Now].bak = ns]
                /\ tool' = [tool EXCEPT !.phase = "restore"] /\ UNCHANGED outcome
             \/ "stubborn" \in sky /\ FinishRun("panic") /\ UNCHANGED reg

WinPointAgain ==
    /\ tool.op = "revert" /\ tool.phase = "restore" /\ Quiet
    /\ \/ reg' = [reg EXCEPT ![Now].ns = <<Loop>>] /\ RolledBack
       \/ "stubborn" \in sky /\ FinishRun("panic") /\ UNCHANGED reg

-----------------------------------------------------------------------------
\* The tool is killed between two of its steps.
Crash ==
    /\ "crash" \in sky /\ tool.phase # "idle"
    /\ FinishRun("killed")
    /\ UNCHANGED <<world, settings, done, configured, before, runs, outside>>

Outside ==
    /\ outside < MaxOutside /\ outside' = outside + 1
    /\ done' = "none"
    /\ UNCHANGED <<world, tool, outcome, before, runs>>

\* The DHCP client renews the lease: it writes a file, or a dictionary, of
\* its own; on Windows it keeps its servers apart from the configured ones.
Renewal ==
    /\ "renewal" \in sky /\ tool.phase = "idle" /\ Outside
    /\ file' = IF platform = "linux" THEN <<[mark |-> 0, ip |-> "b"]>> ELSE file
    /\ dict' = IF platform = "macos"
               THEN [addresses |-> <<"b">>, bak |-> Absent, others |-> TRUE] ELSE dict
    /\ reg' = [i \in DOMAIN reg |-> [reg[i] EXCEPT !.dhcp = <<"b">>]]
    /\ configured' = IF platform = "windows" THEN configured ELSE InForce'

\* The user or another program changes the servers itself: it puts a line in
\* front of the file, or gives an interface another server or none.
Edit ==
    /\ "edit" \in sky /\ Outside /\ tool.phase \notin {"write"}
    /\ \/ /\ platform = "linux"
          /\ file' = <<[mark |-> 0, ip |-> "b"]>> \o file
          /\ UNCHANGED reg
       \/ \E i \in DOMAIN reg, ns \in {<<"b">>, <<"b", Loop>>, Absent} :
             /\ reg' = [reg EXCEPT ![i].ns = ns]
             /\ UNCHANGED file
    /\ UNCHANGED <<dict, configured>>

DnsNext ==
    \/ \E op \in {"subvert", "revert"} : LinuxRead(op) \/ WinBegin(op)
    \/ LinuxWrite \/ StoreSubvert \/ StoreRevert
    \/ WinBackUp \/ WinPoint \/ WinUnsubvert \/ WinRestore
    \/ WinGiveBack \/ WinForget \/ WinRedo \/ WinPointAgain
    \/ Crash \/ Renewal \/ Edit

DnsSpec == DnsInit /\ [][DnsNext]_dnsVars

-----------------------------------------------------------------------------
Servers == UNION {[1..n -> Ips] : n \in 0..2} \cup {Absent}

\* Types: the marks, values, dictionary and phases stay in their ranges.
DnsTypeOK ==
    /\ platform \in Platforms /\ sky \in Skies
    /\ \A k \in DOMAIN file : file[k] \in [mark : -1..2, ip : Ips]
    /\ \A i \in DOMAIN reg :
         reg[i] \in [gate : 0..2, dhcp : Servers, ns : Servers, bak : Servers]
    /\ dict \in [addresses : Servers, bak : Servers, others : BOOLEAN]
    /\ tool.op \in {"none", "subvert", "revert"}
    /\ tool.phase \in {"idle", "write", "first", "second", "rollback", "restore"}
    /\ \A k \in DOMAIN tool.todo : tool.todo[k] \in DOMAIN reg
    /\ outcome \in {"none", "ok", "error", "panic", "killed"}

\* The user's own settings use the loopback address or one that looks alike.
OwnLoopback == \E i \in DOMAIN configured :
                  configured[i] # Absent /\ ToSet(configured[i]) \cap {Loop, Near} # {}

\* Whenever subvert has just reported success, on any platform and whatever
\* happened before, status says "subverted": the Node is the only server
\* asked (README of dns_utility: "Tells whether a user's DNS has been
\* subverted or not").
SubvertTakesEffect ==
    (outcome = "ok" /\ done = "subvert" /\ ~OwnLoopback)
      => StatusFromInspect = "subverted"

\* Whenever revert has just reported success, the servers the user had
\* configured are in force again on every interface: also after runs that
\* failed half-way, and on Windows and macOS after runs that were killed.
\* (On Linux a run killed between cutting and writing the file loses it; on
\* Windows so does a rollback that is killed or refused half-way.)
RevertGivesBack ==
    (/\ outcome = "ok" /\ done = "revert" /\ ~OwnLoopback
     /\ sky \cap {"edit", "stubborn"} = {} /\ ~({"crash", "deny"} \subseteq sky)
     /\ ~(platform = "linux" /\ "crash" \in sky))
      => InForce = configured

\* A run that ends with an error has changed no server: what it had done to
\* the interfaces before the one that failed is rolled back (subvert and
\* revert of win_dns_modifier.rs).  (After a kill, an edit or a rollback cut
\* short it may also undo what an earlier run had done.)
ErrorChangesNothing ==
    (/\ outcome = "error" /\ done # "none"
     /\ sky \cap {"crash", "edit", "stubborn"} = {})
      => InForce = before

\* While no interface makes the tool roll back, at every moment each interface still
\* has its servers or the backup holds them, so that a kill loses nothing:
\* the backup is written before the servers are overwritten, and deleted
\* after they are restored.  (roll_back_subvert deletes it first.)
BackedUpBeforeOverwritten ==
    (platform = "windows" /\ sky \cap {"deny", "edit"} = {} /\ ~OwnLoopback)
      => \A i \in DOMAIN reg : configured[i] \in {reg[i].ns, reg[i].bak}

=============================================================================
