----------------------------- MODULE UiSupervisor -----------------------------
(***************************************************************************)
(* The UiGateway and its WebSocketSupervisor (node/src/ui_gateway): user   *)
(* interfaces that connect, ask, close or simply die, and the three maps   *)
(* that tell which client has which ID and which socket address.           *)
(*                                                                         *)
(* The gateway and the streams of its clients run on one thread, so a      *)
(* handler is one step although it gives up the lock on the way.  A        *)
(* connection is named by the client ID it gets.  "reuse" in `climate`     *)
(* says that a new user interface may get the socket address of a dead one.*)
(***************************************************************************)
EXTENDS Integers, Sequences, FiniteSets, Functions

CONSTANTS
    Addresses,      \* socket addresses of user interfaces
    Climates,       \* sets of "reuse", "death"
    MaxClients,     \* bound: connections made
    MaxTexts        \* bound: messages a user interface sends

VARIABLES
    climate,
    next_client_id,
    client_id_by_socket_addr,
    socket_addr_by_client_id,
    client_by_id,       \* IDs of the clients that can be written to
    link,               \* per connection: its address, whether its peer lives,
                        \* whether its stream is read, what it has not read yet
    from_ui,            \* NodeFromUiMessages in the gateway's mailbox
    to_ui,              \* NodeToUiMessages in the gateway's mailbox
    asked,              \* questions per connection
    answers,            \* answers that reached each connection
    panicked

maps    == <<client_id_by_socket_addr, socket_addr_by_client_id, client_by_id>>
supVars == <<climate, next_client_id, maps, link, from_ui, to_ui, asked, answers, panicked>>

Ids       == 0..(MaxClients - 1)
Made      == 0..(next_client_id - 1)
Restricted(f, S) == Restrict(f, DOMAIN f \ S)
-----------------------------------------------------------------------------
SupInit ==
    /\ climate \in Climates
    /\ next_client_id = 0
    /\ client_id_by_socket_addr = <<>> /\ socket_addr_by_client_id = <<>>
    /\ client_by_id = {}
    /\ link = <<>>
    /\ from_ui = <<>> /\ to_ui = <<>>
    /\ asked = [c \in Ids |-> 0] /\ answers = [c \in Ids |-> 0]
    /\ panicked = FALSE

(* handle_connection: a client with a fresh ID enters all three maps. *)
Enters(f, k, v) == [x \in DOMAIN f \union {k} |-> IF x = k THEN v ELSE f[x]]

IdAfter(id) == id + 1

HandleConnection(addr) ==
    /\ ~panicked /\ next_client_id < MaxClients
    /\ \A c \in Made : link[c].addr = addr => ~link[c].alive /\ ~link[c].stream
    /\ (\E c \in Made : link[c].addr = addr) =>
          "reuse" \in climate \/ addr \notin Range(socket_addr_by_client_id)
    /\ next_client_id' = IdAfter(next_client_id)
    /\ client_id_by_socket_addr' = Enters(client_id_by_socket_addr, addr, next_client_id)
    /\ socket_addr_by_client_id' = Enters(socket_addr_by_client_id, next_client_id, addr)
    /\ client_by_id' = client_by_id \union {next_client_id}
    /\ link' = Enters(link, next_client_id,
                      [addr |-> addr, alive |-> TRUE, stream |-> TRUE, inbox |-> <<>>])
    /\ UNCHANGED <<climate, from_ui, to_ui, asked, answers, panicked>>

(* A user interface sends a request, something that cannot be unmarshalled *)
(* ("bad", "bad in conversation"), or something that is not text.          *)
UiSends(c, what) ==
    /\ ~panicked /\ link[c].alive /\ asked[c] < MaxTexts
    /\ \A i \in 1..Len(link[c].inbox) : link[c].inbox[i] # "close"
    /\ link' = [link EXCEPT ![c].inbox = Append(@, what)]
    /\ asked' = [asked EXCEPT ![c] = @ + 1]
    /\ UNCHANGED <<climate, next_client_id, maps, from_ui, to_ui, answers, panicked>>

UiCloses(c) ==
    /\ ~panicked /\ link[c].alive
    /\ link' = [link EXCEPT ![c].inbox = Append(@, "close"), ![c].alive = FALSE]
    /\ UNCHANGED <<climate, next_client_id, maps, from_ui, to_ui, asked, answers, panicked>>

(* A user interface is killed: what it sent and nobody read is lost. *)
UiDies(c) ==
    /\ ~panicked /\ link[c].alive /\ "death" \in climate
    /\ link' = [link EXCEPT ![c].inbox = <<>>, ![c].alive = FALSE]
    /\ UNCHANGED <<climate, next_client_id, maps, from_ui, to_ui, asked, answers, panicked>>

(* handle_websocket_errors: the stream ends, the maps stay as they are. *)
StreamEnds(c) ==
    /\ ~panicked /\ ~link[c].alive /\ link[c].stream /\ link[c].inbox = <<>>
    /\ link' = [link EXCEPT ![c].stream = FALSE]
    /\ UNCHANGED <<climate, next_client_id, maps, from_ui, to_ui, asked, answers, panicked>>
-----------------------------------------------------------------------------
(* emergency_client_removal of each client that could not be written to;   *)
(* a client whose address is no longer known is a panic.                   *)
AddressesOf(cs) == {socket_addr_by_client_id[c] : c \in cs}

CanRemove(cs) ==
    /\ AddressesOf(cs) \subseteq DOMAIN client_id_by_socket_addr
    /\ Cardinality(AddressesOf(cs)) = Cardinality(cs)

EmergencyClientRemovalHalf(cs) ==
    /\ client_by_id' = client_by_id \ cs
    /\ socket_addr_by_client_id' = Restricted(socket_addr_by_client_id, cs)
    /\ UNCHANGED client_id_by_socket_addr

EmergencyClientRemoval(cs) ==
    /\ client_by_id' = client_by_id \ cs
    /\ socket_addr_by_client_id' = Restricted(socket_addr_by_client_id, cs)
    /\ client_id_by_socket_addr' = Restricted(client_id_by_socket_addr, AddressesOf(cs))

Targets(target) ==
    CASE target.who = "one"    -> client_by_id \intersect {target.id}
      [] target.who = "except" -> client_by_id \ {target.id}
      [] target.who = "all"    -> client_by_id

(* send_msg: the message goes to its targets.  A dead peer makes a write   *)
(* fail, but not necessarily the first; a write may also fail in a way     *)
(* that leaves the client where it is.                                     *)
SendToClients(msg, failing) ==
    LET targets == Targets(msg)
    IN  /\ failing \subseteq {c \in targets : ~link[c].alive}
        /\ answers' = [c \in Ids |-> IF msg.answer /\ c \in targets /\ link[c].alive
                                       THEN answers[c] + 1 ELSE answers[c]]

SendMsg(msg, failing) ==
    /\ SendToClients(msg, failing)
    /\ IF CanRemove(failing)
         THEN EmergencyClientRemoval(failing) /\ UNCHANGED panicked
         ELSE panicked' = TRUE /\ UNCHANGED maps

HandleNodeToUiMessage ==
    /\ ~panicked /\ to_ui # <<>>
    /\ to_ui' = Tail(to_ui)
    /\ \E failing \in SUBSET client_by_id : SendMsg(Head(to_ui), failing)
    /\ UNCHANGED <<climate, next_client_id, link, from_ui, asked>>

(* The gateway hands a request to the actors; the one it is meant for      *)
(* answers it, and now and then tells the other clients.                   *)
HandleNodeFromUiMessage ==
    /\ ~panicked /\ from_ui # <<>>
    /\ from_ui' = Tail(from_ui)
    /\ \E tell \in {<<>>, <<[who |-> "except", id |-> Head(from_ui), answer |-> FALSE]>>} :
         to_ui' = to_ui \o <<[who |-> "one", id |-> Head(from_ui), answer |-> TRUE]>> \o tell
    /\ UNCHANGED <<climate, next_client_id, maps, link, asked, answers, panicked>>

(* An actor broadcasts on its own account. *)
Broadcast ==
    /\ ~panicked /\ to_ui = <<>> /\ client_by_id # {}
    /\ to_ui' = <<[who |-> "all", id |-> 0, answer |-> FALSE]>>
    /\ UNCHANGED <<climate, next_client_id, maps, link, from_ui, asked, answers, panicked>>
-----------------------------------------------------------------------------
(* The stream of connection c.  It knows its client only by the address.   *)
Reads(c, what) ==
    /\ ~panicked /\ link[c].stream /\ link[c].inbox # <<>> /\ Head(link[c].inbox) = what
    /\ link' = [link EXCEPT ![c].inbox = Tail(@)]

HandleTextMessage(c) ==
    LET addr == link[c].addr
    IN  /\ Reads(c, "text")
        /\ from_ui' = IF addr \in DOMAIN client_id_by_socket_addr
                        THEN Append(from_ui, client_id_by_socket_addr[addr])
                        ELSE from_ui
        /\ UNCHANGED <<climate, next_client_id, maps, to_ui, asked, answers, panicked>>

(* A text that cannot be unmarshalled is answered at once, to a client     *)
(* whose address has just been looked up: its removal cannot panic.        *)
HandleBadText(c) ==
    LET addr == link[c].addr
    IN  /\ Reads(c, "bad")
        /\ IF addr \in DOMAIN client_id_by_socket_addr
             THEN \E failing \in SUBSET client_by_id :
                    /\ SendToClients([who |-> "one", id |-> client_id_by_socket_addr[addr],
                                      answer |-> TRUE], failing)
                    /\ EmergencyClientRemoval(failing)
             ELSE UNCHANGED <<maps, answers>>
        /\ UNCHANGED <<climate, next_client_id, from_ui, to_ui, asked, panicked>>

HandleOtherMessage(c) ==
    /\ Reads(c, "ping")
    /\ UNCHANGED <<climate, next_client_id, maps, from_ui, to_ui, asked, answers, panicked>>

(* close_connection panics when the client is gone from the stable. *)
CloseConnection(id) ==
    /\ socket_addr_by_client_id' = Restricted(socket_addr_by_client_id, {id})
    /\ client_by_id' = client_by_id \ {id}
    /\ panicked' = (id \notin client_by_id)

HandleCloseMessage(c) ==
    LET addr == link[c].addr
    IN  /\ Reads(c, "close")
        /\ client_id_by_socket_addr' = Restricted(client_id_by_socket_addr, {addr})
        /\ IF addr \in DOMAIN client_id_by_socket_addr
             THEN CloseConnection(client_id_by_socket_addr[addr])
             ELSE UNCHANGED <<socket_addr_by_client_id, client_by_id, panicked>>
        /\ UNCHANGED <<climate, next_client_id, from_ui, to_ui, asked, answers>>
-----------------------------------------------------------------------------
StreamStep(c) ==
    \/ StreamEnds(c) \/ HandleTextMessage(c) \/ HandleBadText(c)
    \/ HandleOtherMessage(c) \/ HandleCloseMessage(c)

GatewayStep == HandleNodeToUiMessage \/ HandleNodeFromUiMessage

SupNext ==
    \/ \E addr \in Addresses : HandleConnection(addr)
    \/ \E c \in Made :
         \/ \E what \in {"text", "bad", "ping"} : UiSends(c, what)
         \/ UiCloses(c) \/ UiDies(c) \/ StreamStep(c)
    \/ GatewayStep \/ Broadcast

SupSpec == SupInit /\ [][SupNext]_supVars

(* The gateway's thread keeps running its handler and its streams. *)
SupFairSpec ==
    /\ SupSpec
    /\ WF_supVars(GatewayStep)
    /\ \A c \in Ids : WF_supVars(c \in Made /\ StreamStep(c))
-----------------------------------------------------------------------------
SupTypeOK ==
    /\ climate \in Climates /\ next_client_id \in 0..MaxClients /\ panicked \in BOOLEAN
    /\ DOMAIN link = Made
    /\ client_by_id \subseteq Made
    /\ \A c \in DOMAIN socket_addr_by_client_id : c \in Made
    /\ \A addr \in DOMAIN client_id_by_socket_addr : client_id_by_socket_addr[addr] \in Made
    /\ asked \in [Ids -> 0..MaxTexts]

(* The three maps tell the same story: every client that can be written to *)
(* has an address, and the address leads back to it, whatever the order of *)
(* closing, dying and failed writes, so that no expectv of                 *)
(* emergency_client_removal and no panic of close_connection is reached.   *)
(* Addresses are not reused here.                                          *)
MapsAgree ==
    "reuse" \notin climate =>
        /\ ~panicked
        /\ DOMAIN socket_addr_by_client_id = client_by_id
        /\ \A c \in client_by_id :
             LET addr == socket_addr_by_client_id[c]
             IN  /\ addr = link[c].addr
                 /\ addr \in DOMAIN client_id_by_socket_addr
                 /\ client_id_by_socket_addr[addr] = c
        /\ \A addr \in DOMAIN client_id_by_socket_addr :
             /\ client_id_by_socket_addr[addr] \in client_by_id
             /\ socket_addr_by_client_id[client_id_by_socket_addr[addr]] = addr

(* A client that has closed its connection in good order is forgotten. *)
ClosedIsForgotten ==
    \A c \in Ids :
        ("reuse" \notin climate /\ c \in Made /\ \E i \in 1..Len(link[c].inbox) : link[c].inbox[i] = "close")
            ~> (c \notin client_by_id \/ panicked)
=============================================================================
