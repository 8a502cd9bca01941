------------------------------- MODULE MasqCli -------------------------------
(***************************************************************************)
(* The masq command-line interface: the user's thread with one             *)
(* NodeConversation at a time, the ConnectionManagerThread, the            *)
(* ClientListener of the current connection, and the two servers it talks  *)
(* to, the Daemon and the Node (masq/src/communications).                  *)
(*                                                                         *)
(* The manager's thread takes from four channels in any order (select!);   *)
(* each channel is a queue.  A message of the user is meant for the Daemon *)
(* or for the Node; the Daemon answers what it understands and otherwise   *)
(* redirects, or refuses when no Node runs.  `mood` never changes: "crash" *)
(* says that the Node may die, "daemon" that the Daemon may, "hasty" that  *)
(* a transaction may time out although its answer is on the way, "send"    *)
(* that the user also gives the one command that is fire-and-forget.       *)
(***************************************************************************)
EXTENDS Integers, Sequences, FiniteSets

CONSTANTS
    Moods,          \* sets of "crash", "daemon", "hasty", "send"
    MaxCommands     \* bound: commands the user gives

VARIABLES
    mood,
    active_port,            \* "daemon", "node" or "none"
    conversations,          \* context IDs the manager can deliver to
    conversations_waiting,  \* those with a request under way
    next_context_id,
    demand,                 \* demand_tx -> demand_rx
    outgoing,               \* conversations_to_manager
    redirect_orders,        \* redirect_order_tx -> redirect_order_rx
    incoming,               \* listener_to_manager of the current connection
    results,                \* manager_to_conversation of each conversation
    server,                 \* requests the current server has not read yet
    up,                     \* the servers that run
    linkUp,                 \* whether the current connection is intact
    user,                   \* what the user's thread is doing
    manager,                \* "running", "ended" or "panicked"
    crashed,                \* the servers that have died
    outcomes                \* how the user's commands ended

cliVars == <<mood, active_port, conversations, conversations_waiting, next_context_id,
             demand, outgoing, redirect_orders, incoming, results, server, up,
             linkUp, user, manager, crashed, outcomes>>

Contexts == 1..MaxCommands
AtRest   == [phase |-> "rest", kind |-> "none", dest |-> "none", id |-> 0]
-----------------------------------------------------------------------------
CliInit ==
    /\ mood \in Moods
    /\ active_port = "daemon"
    /\ conversations = {} /\ conversations_waiting = {} /\ next_context_id = 1
    /\ demand = <<>> /\ outgoing = <<>> /\ redirect_orders = <<>> /\ incoming = <<>>
    /\ results = [c \in Contexts |-> <<>>]
    /\ server = <<>>
    /\ up \in {{"daemon"}, {"daemon", "node"}} /\ linkUp = TRUE /\ crashed = {}
    /\ user = AtRest
    /\ manager = "running"
    /\ outcomes = <<>>

(* The user gives a command: the thread demands a conversation. *)
StartConversation(kind, dest) ==
    /\ user = AtRest /\ Len(outcomes) < MaxCommands
    /\ demand = <<>>
    /\ kind = "send" => "send" \in mood
    /\ demand' = Append(demand, "Conversation")
    /\ user' = [phase |-> "demand", kind |-> kind, dest |-> dest, id |-> 0]
    /\ UNCHANGED <<mood, active_port, conversations, conversations_waiting,
                   next_context_id, outgoing, redirect_orders, incoming, results,
                   server, up, linkUp, manager, crashed, outcomes>>

ContextAfter(id) == id + 1

HandleConversationTrigger ==
    /\ manager = "running" /\ demand = <<"Conversation">>
    /\ demand' = <<>>
    /\ next_context_id' = ContextAfter(next_context_id)
    /\ conversations' = conversations \union {next_context_id}
    /\ user' = [user EXCEPT !.phase = "ready", !.id = next_context_id]
    /\ UNCHANGED <<mood, active_port, conversations_waiting, outgoing,
                   redirect_orders, incoming, results, server, up, linkUp,
                   manager, crashed, outcomes>>

(* transact and send: the message goes to the manager, the thread waits. *)
SendMessage ==
    /\ user.phase = "ready"
    /\ outgoing' = Append(outgoing, [kind |-> user.kind, dest |-> user.dest, id |-> user.id])
    /\ user' = [user EXCEPT !.phase = "wait"]
    /\ UNCHANGED <<mood, active_port, conversations, conversations_waiting,
                   next_context_id, demand, redirect_orders, incoming, results,
                   server, up, linkUp, manager, crashed, outcomes>>

(* The end of a command drops the conversation, which signs off. *)
CommandEnds(outcome) ==
    /\ outcomes' = Append(outcomes, [kind |-> user.kind, dest |-> user.dest, how |-> outcome])
    /\ outgoing' = Append(outgoing, [kind |-> "sign off", dest |-> "none", id |-> user.id])
    /\ user' = AtRest

Outcome(kind, r) ==
    CASE r = "answer"                     -> "answered"
      [] r = "refusal"                    -> "refused"
      [] r = "FiredAndForgotten"          -> "fired"
      [] kind = "send"                    -> "fired"
      [] OTHER                            -> "dropped"

ReceiveResult ==
    LET r == Head(results[user.id])
    IN  /\ user.phase = "wait" /\ results[user.id] # <<>>
        /\ results' = [results EXCEPT ![user.id] = Tail(@)]
        /\ IF r = "Resend"
             THEN /\ user' = [user EXCEPT !.phase = "ready"]
                  /\ UNCHANGED <<outgoing, outcomes>>
             ELSE CommandEnds(Outcome(user.kind, r))
        /\ UNCHANGED <<mood, active_port, conversations, conversations_waiting,
                       next_context_id, demand, redirect_orders, incoming, server,
                       up, linkUp, manager, crashed>>

(* The manager's end drops its senders: a transaction learns of a dropped  *)
(* connection, everything else panics.                                     *)
DropsCleanly ==
    user.phase = "ready" \/ (user.phase = "wait" /\ user.kind = "transact")

Disconnected ==
    /\ manager # "running" /\ user.phase \in {"demand", "ready", "wait"}
    /\ user.phase = "wait" => results[user.id] = <<>>
    /\ \/ DropsCleanly /\ CommandEnds("dropped")
       \/ /\ ~DropsCleanly
          /\ user' = [user EXCEPT !.phase = "panic"]
          /\ UNCHANGED <<outgoing, outcomes>>
    /\ UNCHANGED <<mood, active_port, conversations, conversations_waiting,
                   next_context_id, demand, redirect_orders, incoming, results,
                   server, up, linkUp, manager, crashed>>

(* Only transact gives up after a time; a patient one only when nothing    *)
(* that could still answer it is under way.                                *)
NothingUnderWay ==
    /\ outgoing = <<>> /\ redirect_orders = <<>> /\ incoming = <<>> /\ server = <<>>
    /\ linkUp

Timeout ==
    /\ user.phase = "wait" /\ user.kind = "transact" /\ results[user.id] = <<>>
    /\ manager = "running"
    /\ "hasty" \in mood \/ NothingUnderWay
    /\ CommandEnds("timeout")
    /\ UNCHANGED <<mood, active_port, conversations, conversations_waiting,
                   next_context_id, demand, redirect_orders, incoming, results,
                   server, up, linkUp, manager, crashed>>
-----------------------------------------------------------------------------
(* The ConnectionManagerThread *)

Tell(ids, r) == [c \in Contexts |-> IF c \in ids THEN Append(results[c], r) ELSE results[c]]

(* fallback: from the Node to the Daemon, which must be there, or from the *)
(* Daemon to nothing.  Only conversations with a request under way hear of *)
(* the first; the thread ends after the second.                            *)

FallbackToDaemon(then) ==
    /\ active_port = "node" /\ "daemon" \in up
    /\ active_port' = "daemon" /\ linkUp' = TRUE
    /\ incoming' = <<>> /\ server' = <<>>
    /\ results' = Tell(conversations_waiting, "Fatal")
    /\ conversations_waiting' = {} /\ manager' = then
    /\ UNCHANGED conversations

FallbackPanics ==
    /\ active_port = "node" /\ "daemon" \notin up
    /\ active_port' = "daemon" /\ manager' = "panicked"
    /\ UNCHANGED <<conversations, conversations_waiting, results, incoming, server, linkUp>>

FallbackToNothing(termination) ==
    /\ active_port = "daemon"
    /\ active_port' = "none" /\ manager' = "ended"
    /\ results' = Tell(conversations, termination)
    /\ conversations' = {} /\ conversations_waiting' = {}
    /\ UNCHANGED <<incoming, server, linkUp>>

Fallback(termination, then) ==
    FallbackToDaemon(then) \/ FallbackPanics \/ FallbackToNothing(termination)

(* A write to a broken connection may still go into the buffers. *)
WriteSucceeds(m) ==
    /\ server' = IF linkUp THEN Append(server, m) ELSE server
    /\ conversations_waiting' = IF m.kind = "transact"
                                  THEN conversations_waiting \union {m.id}
                                  ELSE conversations_waiting
    /\ results' = IF m.kind = "send" /\ m.id \in conversations
                    THEN Tell({m.id}, "FiredAndForgotten") ELSE results
    /\ UNCHANGED <<active_port, conversations, manager, incoming, linkUp>>

HandleOutgoingMessageBody ==
    LET m == Head(outgoing)
    IN  /\ manager = "running" /\ outgoing # <<>> /\ m.kind # "sign off"
        /\ outgoing' = Tail(outgoing)
        /\ \/ (m.kind = "transact" => m.id \in conversations) /\ WriteSucceeds(m)
           \/ (m.kind = "transact" => m.id \in conversations) /\ ~linkUp /\ Fallback("Fatal", "running")
        /\ UNCHANGED <<mood, next_context_id, demand, redirect_orders, up, user,
                       crashed, outcomes>>

SignedOffWaiting(id) == conversations_waiting
SignedOff(id) == conversations_waiting \ {id}

SignOff ==
    LET m == Head(outgoing)
    IN  /\ manager = "running" /\ outgoing # <<>> /\ m.kind = "sign off"
        /\ outgoing' = Tail(outgoing)
        /\ conversations' = conversations \ {m.id}
        /\ conversations_waiting' = SignedOff(m.id)
        /\ UNCHANGED <<mood, active_port, next_context_id, demand, redirect_orders,
                       incoming, results, server, up, linkUp, user, manager,
                       crashed, outcomes>>

(* The user leaves: the connection is closed, then the thread falls back   *)
(* once more (to the Daemon, when it was with the Node) and ends.          *)
Close ==
    /\ user = AtRest /\ outcomes # <<>> /\ manager = "running" /\ demand = <<>>
    /\ demand' = <<"Close">>
    /\ user' = [AtRest EXCEPT !.phase = "gone"]
    /\ UNCHANGED <<mood, active_port, conversations, conversations_waiting,
                   next_context_id, outgoing, redirect_orders, incoming, results,
                   server, up, linkUp, manager, crashed, outcomes>>

HandleClose ==
    /\ manager = "running" /\ demand = <<"Close">>
    /\ demand' = <<>>
    /\ Fallback("Graceful", "ended")
    /\ UNCHANGED <<mood, next_context_id, outgoing, redirect_orders, up, user, crashed,
                   outcomes>>

IsFatal(kind) == kind = "closed"

HandleIncomingMessageBody ==
    LET m == Head(incoming)
    IN  /\ manager = "running" /\ incoming # <<>>
        /\ CASE IsFatal(m.kind) ->
                  Fallback("Fatal", "running") /\ UNCHANGED redirect_orders
             [] m.kind = "redirect" ->
                  /\ redirect_orders' = Append(redirect_orders, m.id)
                  /\ incoming' = Tail(incoming)
                  /\ UNCHANGED <<active_port, conversations, conversations_waiting,
                                 results, server, linkUp, manager>>
             [] OTHER ->
                  /\ IF m.id \in conversations
                       THEN /\ results' = Tell({m.id}, m.kind)
                            /\ conversations_waiting' = conversations_waiting \ {m.id}
                            /\ conversations' = IF m.id = user.id THEN conversations
                                                ELSE conversations \ {m.id}
                       ELSE UNCHANGED <<results, conversations, conversations_waiting>>
                  /\ incoming' = Tail(incoming)
                  /\ UNCHANGED <<active_port, redirect_orders, server, linkUp, manager>>
        /\ UNCHANGED <<mood, next_context_id, demand, outgoing, up, user, crashed,
                       outcomes>>

(* handle_redirect_order: a new connection to the Node; the redirected     *)
(* conversation sends again, every other one under way is let down.        *)

Redirected(id) ==
    [c \in Contexts |->
        IF c \notin conversations_waiting THEN results[c]
        ELSE Append(results[c], IF c = id THEN "Resend" ELSE "Graceful")]

HandleRedirectOrder ==
    /\ manager = "running" /\ redirect_orders # <<>>
    /\ redirect_orders' = Tail(redirect_orders)
    /\ IF "node" \in up
         THEN /\ active_port' = "node" /\ linkUp' = TRUE
              /\ incoming' = <<>> /\ server' = <<>>
              /\ results' = Redirected(Head(redirect_orders))
              /\ conversations_waiting' = {}
         ELSE UNCHANGED <<active_port, linkUp, incoming, server, results,
                          conversations_waiting>>
    /\ UNCHANGED <<mood, conversations, next_context_id, demand, outgoing, up,
                   user, manager, crashed, outcomes>>
-----------------------------------------------------------------------------
(* The servers *)

(* A message out of conversation carries no context: its ID is 0.  The     *)
(* Node has no handler for the Daemon's messages and stays silent.         *)
Reply(m) ==
    LET id == IF m.kind = "transact" THEN m.id ELSE 0
    IN  CASE active_port = "daemon" /\ m.dest = "node" ->
               IF "node" \in up THEN <<[kind |-> "redirect", id |-> id]>>
               ELSE <<[kind |-> "refusal", id |-> id]>>
          [] active_port = m.dest /\ m.kind = "transact" -> <<[kind |-> "answer", id |-> id]>>
          [] OTHER -> <<>>

ServerReplies ==
    LET m == Head(server)
    IN  /\ server # <<>> /\ linkUp
        /\ server' = Tail(server)
        /\ incoming' = incoming \o Reply(m)
        /\ UNCHANGED <<mood, active_port, conversations, conversations_waiting,
                       next_context_id, demand, outgoing, redirect_orders, results,
                       up, linkUp, user, manager, crashed, outcomes>>

(* A server dies; a connection to it is then broken and its listener finds *)
(* out after what it has already received.                                 *)
ServerCrashes(which) ==
    /\ IF which = "node" THEN "crash" \in mood ELSE "daemon" \in mood
    /\ which \in up
    /\ up' = up \ {which} /\ crashed' = crashed \union {which}
    /\ IF active_port = which
         THEN linkUp' = FALSE /\ server' = <<>>
         ELSE UNCHANGED <<linkUp, server>>
    /\ UNCHANGED <<mood, active_port, conversations, conversations_waiting,
                   next_context_id, demand, outgoing, redirect_orders, incoming,
                   results, user, manager, outcomes>>

ListenerNotices ==
    /\ ~linkUp
    /\ \A i \in 1..Len(incoming) : incoming[i].kind # "closed"
    /\ incoming' = Append(incoming, [kind |-> "closed", id |-> 0])
    /\ UNCHANGED <<mood, active_port, conversations, conversations_waiting,
                   next_context_id, demand, outgoing, redirect_orders, results,
                   server, up, linkUp, user, manager, crashed, outcomes>>
-----------------------------------------------------------------------------
ManagerStep ==
    \/ HandleConversationTrigger \/ HandleClose \/ HandleOutgoingMessageBody \/ SignOff
    \/ HandleIncomingMessageBody \/ HandleRedirectOrder

CliNext ==
    \/ \E kind \in {"transact", "send"}, dest \in {"daemon", "node"} :
         StartConversation(kind, dest)
    \/ SendMessage \/ ReceiveResult \/ Timeout \/ Disconnected \/ Close
    \/ ManagerStep \/ ServerReplies \/ ListenerNotices
    \/ \E which \in {"node", "daemon"} : ServerCrashes(which)

CliSpec == CliInit /\ [][CliNext]_cliVars

CliFairSpec ==
    /\ CliSpec
    /\ WF_cliVars(ManagerStep) /\ WF_cliVars(ServerReplies) /\ WF_cliVars(ListenerNotices)
    /\ WF_cliVars(SendMessage) /\ WF_cliVars(ReceiveResult) /\ WF_cliVars(Timeout)
    /\ WF_cliVars(Disconnected)
-----------------------------------------------------------------------------
CliTypeOK ==
    /\ mood \in Moods /\ up \subseteq {"daemon", "node"} /\ crashed \subseteq {"daemon", "node"}
    /\ active_port \in {"daemon", "node", "none"} /\ linkUp \in BOOLEAN
    /\ manager \in {"running", "ended", "panicked"}
    /\ next_context_id \in 1..(MaxCommands + 1)
    /\ conversations \subseteq 1..(next_context_id - 1)
    /\ user.phase \in {"rest", "demand", "ready", "wait", "panic", "gone"}
    /\ \A i \in 1..Len(outcomes) :
         outcomes[i].how \in {"answered", "refused", "fired", "dropped", "timeout"}

(* conversations_waiting only names conversations the manager can still    *)
(* deliver to, whatever the order in which answers, sign-offs, redirects   *)
(* and lost connections arrive: the two expect("conversations_waiting      *)
(* mishandled") never fire.                                                *)
WaitingAreConversations == conversations_waiting \subseteq conversations

(* With servers that live and a user who does not give up early, a request *)
(* to the Node is answered by the Node, or refused by the Daemon because   *)
(* no Node runs: a redirect loses nothing and sends the request again      *)
(* where it belongs.  A request to the Daemon is answered until a redirect *)
(* has taken the user to the Node, and from then on never.                 *)
AnsweredUnlessCrash ==
    crashed = {} /\ {"hasty", "send"} \intersect mood = {} =>
        \A i \in 1..Len(outcomes) :
            outcomes[i].how =
                CASE outcomes[i].dest = "node" ->
                       IF "node" \in up THEN "answered" ELSE "refused"
                  [] "node" \in up /\ \E j \in 1..(i - 1) : outcomes[j].dest = "node" ->
                       "timeout"
                  [] OTHER -> "answered"

(* The user's thread panics, and the manager with it, only when the Daemon *)
(* has died: the death of the Node alone is always survived.               *)
NodeDeathSurvived ==
    "daemon" \in up =>
        /\ manager # "panicked" /\ user.phase # "panic"
        /\ manager = "ended" => user.phase = "gone"

(* Redirects and fallbacks lead a command to the server that it is meant   *)
(* for, or tell the user.                                                  *)
CommandsFindTheirServer ==
    WaitingAreConversations /\ AnsweredUnlessCrash /\ NodeDeathSurvived

(* Every command ends.  The exception is the fire-and-forget command while *)
(* the Node may die: when the write fails, fallback tells only the         *)
(* conversations that wait for an answer, and send waits without a limit.  *)
EveryCommandEnds ==
    ~({"crash", "send"} \subseteq mood) =>
        (user.phase \in {"demand", "ready", "wait"}
            ~> user.phase \in {"rest", "gone", "panic"})

(* When the Node has died, the manager does not stay with it: it returns   *)
(* to the Daemon, or ends.                                                 *)
LeavesDeadNode ==
    "node" \in crashed ~> active_port # "node" \/ manager # "running"
=============================================================================
