---------------------------- MODULE Configuration ----------------------------
(***************************************************************************)
(* The configuration table and the actors that write it at the same time,  *)
(* each over a connection of its own: the Configurator on behalf of the    *)
(* user interfaces (change of password, wallets, set-configuration), the   *)
(* Neighborhood (past neighbors) and the Accountant (start block, together *)
(* with the payments it has found).                                        *)
(*                                                                         *)
(* Every ConfigDao::set is a statement that commits on its own, so each is *)
(* a step and anything may come between two of them.  `clime` never        *)
(* changes and says what does: "neighbors" and "scan", a save of past      *)
(* neighbors or a receivable scan while the Configurator is at work;       *)
(* "crash", the Node dies; "locked", a statement finds the table locked.   *)
(***************************************************************************)
EXTENDS Integers, Sequences

CONSTANTS
    Passwords,      \* passwords the user uses
    NoPassword,     \* no password
    Climes,
    MaxAsked,    \* bound: requests to the Configurator
    MaxSaves,       \* bound: changes of the set of neighbors
    MaxHead       \* bound: blocks with a payment in them

ASSUME PasswordAssumption == NoPassword \notin Passwords

VARIABLES
    clime,
    config,         \* the table: per name the value, and the password it is under
    task,           \* what the Configurator is doing
    requests,       \* requests made so far
    mailbox,        \* ConfigChangeMsgs on their way to the Neighborhood
    neighborhood,   \* its db_password_opt, min_hops and neighbors
    save,           \* a set_past_neighbors under way
    head,           \* the newest block
    credited,       \* how often each block's payment has been credited
    scan            \* the block a receivable scan under way starts from, or 0

configVars == <<clime, config, task, requests, mailbox, neighborhood, save, head,
                credited, scan>>

(* The order in which the table gives its records. *)
Names == <<"consuming_wallet_private_key", "earning_wallet_address", "start_block",
           "past_neighbors", "min_hops">>

Encrypted == {"consuming_wallet_private_key", "past_neighbors"}

Value(v, password) == [value |-> v, under |-> password]
Absent == [value |-> 0, under |-> NoPassword]

(* The password that the encrypted example vouches for. *)
DbPassword == config["example_encrypted"].under

CheckPassword(password) == password = DbPassword

NoJob   == [op |-> "idle", new |-> NoPassword, todo |-> <<>>]
NoSave == [phase |-> "none", password |-> NoPassword, value |-> 0]
-----------------------------------------------------------------------------
ConfigInit ==
    /\ clime \in Climes
    /\ config = [n \in {Names[i] : i \in 1..Len(Names)} \union {"example_encrypted"} |->
                    IF n \in {"min_hops", "start_block"} THEN Value(1, NoPassword) ELSE Absent]
    /\ task = NoJob /\ requests = 0 /\ mailbox = <<>>
    /\ neighborhood = [password |-> NoPassword, min_hops |-> 1, neighbors |-> 0]
    /\ save = NoSave
    /\ head = 0 /\ credited = [b \in 1..MaxHead |-> 0] /\ scan = 0

(* A handler of the Configurator as the statements it will run.  Unless    *)
(* the clime says otherwise, nothing else is under way.                    *)
Undisturbed ==
    /\ "neighbors" \in clime \/ save = NoSave
    /\ "scan" \in clime \/ scan = 0

Begin(op, new, todo) ==
    /\ task = NoJob /\ requests < MaxAsked /\ Undisturbed
    /\ requests' = requests + 1
    /\ task' = [op |-> op, new |-> new, todo |-> todo]
    /\ UNCHANGED <<clime, config, mailbox, neighborhood, save, head, credited, scan>>

Refuse ==
    /\ task = NoJob /\ requests < MaxAsked
    /\ requests' = requests + 1
    /\ UNCHANGED <<clime, config, task, mailbox, neighborhood, save, head, credited, scan>>

(* reencrypt_record for one name.  A plain record is written back too. *)
ReencryptedFirst(n, new) ==
    IF n = "consuming_wallet_private_key" /\ config[n].value # 0
      THEN Value(config[n].value, new) ELSE config[n]

Reencrypted(n, new) ==
    IF n \in Encrypted /\ config[n].value # 0 THEN Value(config[n].value, new) ELSE config[n]

(* reencrypt_records reads and re-encrypts all the records before it       *)
(* writes the first, and panics when one is not under the old password;    *)
(* the example comes last.                                                 *)
Readable(password) ==
    \A n \in Encrypted : config[n].value # 0 => config[n].under = password

ChangeTodo(new) ==
    [i \in 1..Len(Names) |-> <<Names[i], Reencrypted(Names[i], new)>>]
        \o << <<"example_encrypted", Value(1, new)>> >>

ChangePassword(old, new) ==
    \/ CheckPassword(old) /\ Readable(old) /\ Begin("password", new, ChangeTodo(new))
    \/ ~CheckPassword(old) /\ Refuse

(* set_wallet_info: the two values must be new or the same as before. *)

WalletsTodo(v, password) ==
    << <<"consuming_wallet_private_key", Value(v, password)>>,
       <<"earning_wallet_address", Value(v, NoPassword)>> >>

WalletsFit(v, password) ==
    LET consuming == config["consuming_wallet_private_key"]
        earning   == config["earning_wallet_address"]
    IN  /\ consuming.value # 0 => consuming.under = password /\ consuming.value = v
        /\ earning.value \in {0, v}

SetWallets(v, password) ==
    \/ /\ CheckPassword(password) /\ WalletsFit(v, password)
       /\ Begin("wallets", NoPassword, WalletsTodo(v, password))
    \/ ~(CheckPassword(password) /\ WalletsFit(v, password)) /\ Refuse

SetMinHops(hops) ==
    Begin("min_hops", NoPassword, << <<"min_hops", Value(hops, NoPassword)>> >>)
-----------------------------------------------------------------------------
(* One statement of the handler. *)
RunStatement ==
    /\ task.todo # <<>>
    /\ config' = [config EXCEPT ![Head(task.todo)[1]] = Head(task.todo)[2]]
    /\ task' = [task EXCEPT !.todo = Tail(@)]
    /\ UNCHANGED <<clime, requests, mailbox, neighborhood, save, head, credited, scan>>

(* A statement that fails ends the handler; what went before it stays. *)
StatementFails ==
    /\ "locked" \in clime /\ task.todo # <<>>
    /\ task' = NoJob
    /\ UNCHANGED <<clime, config, requests, mailbox, neighborhood, save, head, credited,
                   scan>>

(* The end of a handler: the ConfigChangeMsg, then the reply. *)

Change ==
    CASE task.op = "password" -> <<[change |-> "UpdatePassword", password |-> task.new, hops |-> 0]>>
      [] task.op = "min_hops" -> <<[change |-> "UpdateMinHops", password |-> NoPassword,
                                   hops |-> config["min_hops"].value]>>
      [] OTHER               -> <<>>

Finish ==
    /\ task.op # "idle" /\ task.todo = <<>>
    /\ mailbox' = mailbox \o Change
    /\ task' = NoJob
    /\ UNCHANGED <<clime, config, requests, neighborhood, save, head, credited, scan>>
-----------------------------------------------------------------------------
HandleConfigChangeMsg ==
    LET msg == Head(mailbox)
    IN  /\ mailbox # <<>> /\ save = NoSave
        /\ mailbox' = Tail(mailbox)
        /\ neighborhood' = IF msg.change = "UpdatePassword"
                             THEN [neighborhood EXCEPT !.password = msg.password]
                             ELSE [neighborhood EXCEPT !.min_hops = msg.hops]
        /\ UNCHANGED <<clime, config, task, requests, save, head, credited, scan>>

(* curate_past_neighbors: nothing is saved without a password; the save    *)
(* checks the password first and writes later.                             *)
MayIntrude(what) == what \in clime \/ task = NoJob

CuratePastNeighbors ==
    /\ save = NoSave /\ neighborhood.neighbors < MaxSaves /\ MayIntrude("neighbors")
    /\ neighborhood' = [neighborhood EXCEPT !.neighbors = @ + 1]
    /\ save' = IF neighborhood.password # NoPassword /\ CheckPassword(neighborhood.password)
                 THEN [phase |-> "checked", password |-> neighborhood.password,
                       value |-> neighborhood.neighbors + 1]
                 ELSE NoSave
    /\ UNCHANGED <<clime, config, task, requests, mailbox, head, credited, scan>>

SetPastNeighbors ==
    /\ save # NoSave /\ MayIntrude("neighbors")
    /\ config' = [config EXCEPT !["past_neighbors"] = Value(save.value, save.password)]
    /\ save' = NoSave
    /\ UNCHANGED <<clime, task, requests, mailbox, neighborhood, head, credited, scan>>

SetPastNeighborsFails ==
    /\ save # NoSave /\ "locked" \in clime
    /\ save' = NoSave
    /\ UNCHANGED <<clime, config, task, requests, mailbox, neighborhood, head, credited,
                   scan>>
-----------------------------------------------------------------------------
NewBlock ==
    /\ head < MaxHead
    /\ head' = head + 1
    /\ UNCHANGED <<clime, config, task, requests, mailbox, neighborhood, save, credited,
                   scan>>

(* The BlockchainBridge reads the start block and retrieves what is there. *)
BeginScan ==
    /\ scan = 0 /\ MayIntrude("scan") /\ config["start_block"].value <= head
    /\ scan' = config["start_block"].value
    /\ UNCHANGED <<clime, config, task, requests, mailbox, neighborhood, save, head,
                   credited>>

StartBlockAfter(b) == b + 1

(* handle_new_received_payments: credit and new start block in one         *)
(* transaction.                                                            *)
HandleNewReceivedPayments ==
    /\ scan # 0 /\ MayIntrude("scan")
    /\ credited' = [b \in 1..MaxHead |-> IF b \in scan..head THEN credited[b] + 1
                                            ELSE credited[b]]
    /\ config' = [config EXCEPT !["start_block"] = Value(StartBlockAfter(head), NoPassword)]
    /\ scan' = 0
    /\ UNCHANGED <<clime, task, requests, mailbox, neighborhood, save, head>>

(* The Node dies and is started again with the password the table accepts. *)
StartAgain ==
    /\ task' = NoJob /\ mailbox' = <<>> /\ save' = NoSave /\ scan' = 0
    /\ neighborhood' = [neighborhood EXCEPT !.password = DbPassword,
                                            !.min_hops = config["min_hops"].value]
    /\ UNCHANGED <<clime, config, head, credited>>

CrashInJob == "crash" \in clime /\ task # NoJob /\ StartAgain /\ UNCHANGED requests

(* A change of password that meets a value it cannot decrypt panics. *)
ChangePasswordPanics ==
    /\ task = NoJob /\ requests < MaxAsked /\ ~Readable(DbPassword)
    /\ requests' = requests + 1
    /\ StartAgain
-----------------------------------------------------------------------------
ConfigStep == RunStatement \/ Finish

ConfigNext ==
    \/ \E old \in Passwords \union {NoPassword}, new \in Passwords : ChangePassword(old, new)
    \/ \E v \in 1..2, password \in Passwords : SetWallets(v, password)
    \/ \E hops \in 1..2 : SetMinHops(hops)
    \/ ConfigStep \/ StatementFails \/ HandleConfigChangeMsg
    \/ CuratePastNeighbors \/ SetPastNeighbors \/ SetPastNeighborsFails
    \/ NewBlock \/ BeginScan \/ HandleNewReceivedPayments
    \/ CrashInJob \/ ChangePasswordPanics

ConfigSpec == ConfigInit /\ [][ConfigNext]_configVars
-----------------------------------------------------------------------------
ConfigTypeOK ==
    /\ clime \in Climes
    /\ config["start_block"].value \in 1..(MaxHead + 1)
    /\ config["min_hops"].value \in 1..2
    /\ \A n \in DOMAIN config :
         /\ config[n].under \in Passwords \union {NoPassword}
         /\ n \in Encrypted /\ config[n].value # 0 => config[n].under # NoPassword

(* Whatever is encrypted is under the password that the example vouches    *)
(* for, whenever the Configurator is between two requests.  It needs that  *)
(* no save of past neighbors falls into a change of the password and that  *)
(* no change is cut short.                                                 *)
SecretsUnderPassword ==
    task = NoJob /\ clime \intersect {"neighbors", "crash", "locked"} = {} =>
        Readable(DbPassword)

(* The two wallets are there together or not at all, and are one pair: the *)
(* panics of get_wallet_addresses and send_updated_wallets_to_subs are out *)
(* of reach as long as no handler is cut short between its two statements. *)
WalletsInPairs ==
    task = NoJob /\ clime \intersect {"crash", "locked"} = {} =>
        config["consuming_wallet_private_key"].value = config["earning_wallet_address"].value

(* A payment is credited once, although the change of password writes back *)
(* the start block it has read: no scan falls into it here.                *)
CreditedOnce ==
    "scan" \notin clime => \A b \in 1..MaxHead : credited[b] <= 1

(* A Neighborhood that has read its mail knows the password of the         *)
(* database and its minimum of hops, after a restart as well.              *)
NeighborhoodUpToDate ==
    task = NoJob /\ mailbox = <<>> =>
        /\ neighborhood.password = DbPassword
        /\ neighborhood.min_hops = config["min_hops"].value

(* Between two requests of the Configurator the configuration is of one    *)
(* piece: secrets, wallets, start block and what the Neighborhood knows.   *)
ConfigurationAgrees ==
    SecretsUnderPassword /\ WalletsInPairs /\ CreditedOnce /\ NeighborhoodUpToDate
=============================================================================
