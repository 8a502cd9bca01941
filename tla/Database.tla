------------------------------- MODULE Database -------------------------------
(***************************************************************************)
(* The Node's database file: how it is created, how a file of an earlier   *)
(* schema is migrated, and who may open it (node/src/database).  The Node  *)
(* creates the file statement by statement, each committed on its own; it  *)
(* migrates an old one step by step in one transaction.  The Daemon opens  *)
(* the file too, but neither creates nor migrates it.  The Node may crash  *)
(* and be started again.  Money is kept as the amounts of the rows.        *)
(***************************************************************************)
EXTENDS Integers, Sequences, FiniteSets

CONSTANTS
    Files,     \* the files the Node may find, see File; NoFile is one
    Gwei,      \* the factor of gwei_to_wei
    MaxStarts, \* bound: how often the Node is started
    MaxLooks,  \* bound: how often the Daemon looks into the file
    Seasons    \* what may happen: sets of "crash", "cut" and "race"

VARIABLES
    season,    \* rigid: "crash": the Node may crash,
               \* "cut": even while it creates the file,
               \* "race": the Daemon may look while the Node creates
    db,        \* the file as other connections see it
    draft,     \* the file as the migrating transaction sees it
    node,      \* where the Node is, its next step, its password
    torn,      \* whether a creation was cut short
    starts,    \* how often the Node was started
    looks,     \* how often others looked into the file
    look       \* what the last of them found

dbVars == <<season, db, draft, node, torn, starts, looks, look>>

CurrentSchema == 10
Tables == {"payable", "receivable", "pending_payable"}
NoVersion == -1

\* A file: the tables and the config rows it has, the value of schema_version,
\* the amounts in the money tables, the rate pack, the unique index of the
\* pending payables, and the wallet: none, a seed with a derivation path, or a
\* private key, both under the password.
NoFile ==
    [exists |-> FALSE, tables |-> {}, rows |-> {}, version |-> NoVersion,
     money |-> [t \in Tables |-> <<>>], rate |-> 0, index |-> FALSE,
     wallet |-> "none"]

\* DEFAULT_RATE_PACK, in wei.
DefaultRate == 2

\* initialize_config: the rows of a new file, in the order of their creation.
ConfigRows ==
    <<"example_encrypted", "blockchain_service_url", "chain_name",
      "clandestine_port", "consuming_wallet_private_key",
      "earning_wallet_address", "neighborhood_mode", "schema_version",
      "start_block", "gas_price", "past_neighbors", "mapping_protocol",
      "min_hops", "payment_thresholds", "rate_pack", "scan_intervals",
      "max_block_count">>

\* create_database_tables: every statement a new file is made with.
Statement(kind, name) == [kind |-> kind, name |-> name]
Creation ==
    <<Statement("table", "config")>>
    \o [i \in 1..Len(ConfigRows) |-> Statement("row", ConfigRows[i])]
    \o <<Statement("table", "payable"), Statement("table", "pending_payable"),
         Statement("index", "pending_payable"), Statement("table", "receivable"),
         Statement("table", "banned")>>

Executed(d, s) ==
    [d EXCEPT
        !.tables = IF s.kind = "table" THEN @ \cup {s.name} ELSE @,
        !.rows = IF s.kind = "row" THEN @ \cup {s.name} ELSE @,
        !.index = IF s.kind = "index" THEN TRUE ELSE @,
        !.version = IF s = Statement("row", "schema_version") THEN CurrentSchema
                    ELSE @,
        !.rate = IF s = Statement("row", "rate_pack") THEN DefaultRate ELSE @]
-----------------------------------------------------------------------------
\* The migrations: what each of them makes of the file.
Added(d, names) == [d EXCEPT !.rows = @ \cup names]

Migrate_0_to_1(d) == Added(d, {"mapping_protocol"})
Migrate_1_to_2(d) == Added(d, {"chain_name"})
Migrate_2_to_3(d) == Added(d, {"blockchain_service_url", "neighborhood_mode"})

\* The seed is exchanged for the private key.
Migrate_3_to_4(d) ==
    [d EXCEPT
        !.rows = (@ \cup {"consuming_wallet_private_key"})
                 \ {"seed", "consuming_wallet_derivation_path",
                    "consuming_wallet_public_key"},
        !.wallet = IF @ = "seed" THEN "key" ELSE @]

\* The column of pending transactions makes room for a table of them.
Migrate_4_to_5(d) ==
    [d EXCEPT !.tables = @ \cup {"pending_payable"}, !.index = TRUE]

Migrate_5_to_6(d) ==
    [Added(d, {"payment_thresholds", "rate_pack", "scan_intervals"})
        EXCEPT !.rate = DefaultRate]

\* gwei become wei: the money tables are made anew and filled through an
\* auxiliary table each, which stays; the index goes with the old table.
Rescaled(amounts) == [i \in DOMAIN amounts |-> amounts[i] * Gwei]
Migrate_6_to_7PayablesOnly(d) ==
    [d EXCEPT
        !.tables = @ \cup {"compensatory_payable", "compensatory_receivable"},
        !.money = [t \in Tables |-> IF t = "pending_payable" THEN @[t]
                                    ELSE Rescaled(@[t])],
        !.rate = @ * Gwei,
        !.index = FALSE]
Migrate_6_to_7(d) ==
    [d EXCEPT
        !.tables = @ \cup {"compensatory_payable", "compensatory_receivable",
                           "compensatory_pending_payable"},
        !.money = [t \in Tables |-> Rescaled(@[t])],
        !.rate = @ * Gwei,
        !.index = FALSE]

Migrate_7_to_8(d) == Added(d, {"min_hops"})
Migrate_8_to_9(d) == Added(d, {"max_block_count"})
Migrate_9_to_10(d) == Added(d, {"max_block_count"})

\* list_of_migrations.
Migrated(v, d) ==
    CASE v = 0 -> Migrate_0_to_1(d)
      [] v = 1 -> Migrate_1_to_2(d)
      [] v = 2 -> Migrate_2_to_3(d)
      [] v = 3 -> Migrate_3_to_4(d)
      [] v = 4 -> Migrate_4_to_5(d)
      [] v = 5 -> Migrate_5_to_6(d)
      [] v = 6 -> Migrate_6_to_7(d)
      [] v = 7 -> Migrate_7_to_8(d)
      [] v = 8 -> Migrate_8_to_9(d)
      [] v = 9 -> Migrate_9_to_10(d)

\* The statement that fills an auxiliary table puts no comma between the rows:
\* it is a syntax error for more than one row.
MigrationFails(v, d) == v = 6 /\ \E t \in Tables : Len(d.money[t]) > 1

\* maybe_exchange_seed_for_private_key panics without the right password.
MigrationPanics(v, d) == v = 3 /\ d.wallet = "seed" /\ ~node.knows
-----------------------------------------------------------------------------
\* What a file of a version holds: the versions of each config row, from and to
\* (11 stands for any version after the current one).
Span ==
    [example_encrypted |-> <<0, 11>>, clandestine_port |-> <<0, 11>>,
     consuming_wallet_derivation_path |-> <<0, 3>>,
     consuming_wallet_public_key |-> <<0, 3>>, seed |-> <<0, 3>>,
     consuming_wallet_private_key |-> <<4, 11>>,
     earning_wallet_address |-> <<0, 11>>, schema_version |-> <<0, 11>>,
     start_block |-> <<0, 11>>, gas_price |-> <<0, 11>>,
     past_neighbors |-> <<0, 11>>, mapping_protocol |-> <<1, 11>>,
     chain_name |-> <<2, 11>>, blockchain_service_url |-> <<3, 11>>,
     neighborhood_mode |-> <<3, 11>>, payment_thresholds |-> <<6, 11>>,
     rate_pack |-> <<6, 11>>, scan_intervals |-> <<6, 11>>,
     min_hops |-> <<8, 11>>, max_block_count |-> <<9, 11>>]
RowsOf(v) == {n \in DOMAIN Span : Span[n][1] <= v /\ v <= Span[n][2]}
TablesOf(v) ==
    {"config", "payable", "receivable", "banned"}
    \cup IF v >= 5 THEN {"pending_payable"} ELSE {}
Whole(d) == d.rows = RowsOf(d.version) /\ TablesOf(d.version) \subseteq d.tables

\* A file an earlier Node of that version left.  Only one with a rate pack can
\* have rates its user specified.
SpecifiedRate == 3
File(v, wallet, rate, money) ==
    [exists |-> TRUE, tables |-> TablesOf(v), rows |-> RowsOf(v), version |-> v,
     money |-> money, rate |-> rate, index |-> v \in 5..6, wallet |-> wallet]
NoLook == [who |-> "nobody", found |-> "nothing", whole |-> FALSE]
-----------------------------------------------------------------------------
Down == [at |-> "down", step |-> 0, knows |-> FALSE]

DbInit ==
    /\ season \in Seasons
    /\ db \in Files
    /\ draft = NoFile
    /\ node = Down
    /\ torn = FALSE
    /\ starts = 0
    /\ looks = 0
    /\ look = NoLook

\* How an existing file answers to check_migrations_and_return_connection.
Unreadable(d) == "config" \notin d.tables \/ d.version = NoVersion

\* initialize_database, up to the creation or the migration: the file cannot be
\* read or is too new and the Node gives up, or it is current and is opened.
StartNode(knows) ==
    /\ node.at = "down"
    /\ starts < MaxStarts
    /\ starts' = starts + 1
    /\ IF ~db.exists
       THEN /\ db' = [db EXCEPT !.exists = TRUE]
            /\ node' = [at |-> "creating", step |-> 1, knows |-> knows]
            /\ UNCHANGED draft
       ELSE /\ node' =
                  IF Unreadable(db) \/ db.version > CurrentSchema THEN Down
                  ELSE [at |-> IF db.version = CurrentSchema THEN "open"
                               ELSE "migrating",
                        step |-> 0, knows |-> knows]
            /\ draft' = IF node'.at = "migrating" THEN db ELSE NoFile
            /\ UNCHANGED db
    /\ UNCHANGED <<season, torn, looks, look>>

\* create_database_tables: each statement is a transaction of its own.
CreateNext ==
    /\ node.at = "creating"
    /\ db' = Executed(db, Creation[node.step])
    /\ node' = IF node.step = Len(Creation)
               THEN [node EXCEPT !.at = "open", !.step = 0]
               ELSE [node EXCEPT !.step = @ + 1]
    /\ UNCHANGED <<season, draft, torn, starts, looks, look>>

\* initiate_migrations: one turn of its loop, migrate_semi_automated.  A failure
\* and a panic leave the transaction uncommitted.
MigrateNext ==
    /\ node.at = "migrating"
    /\ draft.version < CurrentSchema
    /\ IF MigrationFails(draft.version, draft) \/ MigrationPanics(draft.version, draft)
       THEN node' = Down /\ draft' = NoFile
       ELSE /\ draft' = [Migrated(draft.version, draft) EXCEPT !.version = @ + 1]
            /\ UNCHANGED node
    /\ UNCHANGED <<season, db, torn, starts, looks, look>>

\* commit, and double_check_migration_result, which reads the file again.
Commit ==
    /\ node.at = "migrating"
    /\ draft.version = CurrentSchema
    /\ db' = draft
    /\ draft' = NoFile
    /\ node' = IF db'.version = CurrentSchema THEN [node EXCEPT !.at = "open"] ELSE Down
    /\ UNCHANGED <<season, torn, starts, looks, look>>

\* The Node stops where it is.
NodeCrashes ==
    /\ "crash" \in season
    /\ node.at # "down"
    /\ node.at = "creating" => "cut" \in season
    /\ torn' = (torn \/ node.at = "creating")
    /\ node' = Down
    /\ draft' = NoFile
    /\ UNCHANGED <<season, db, starts, looks, look>>

\* What an opening without creation and migration finds: nothing, a file it
\* cannot read, one of another version, or what it looked for.  The Daemon
\* (migration_suppressed_with_error) uses no file of another version, the dump
\* of the configuration (migration_suppressed) does.
Found(who) ==
    IF ~db.exists THEN IF who = "daemon" THEN "ignored" ELSE "refused"
    ELSE IF Unreadable(db) THEN "panicked"
    ELSE IF db.version # CurrentSchema /\ who = "daemon" THEN "ignored"
    ELSE "read"

\* run_configuration of the Daemon's setup, and the dump of the configuration.
Look(who) ==
    /\ looks < MaxLooks
    /\ node.at = "creating" => "race" \in season
    /\ looks' = looks + 1
    /\ look' = [who |-> who, found |-> Found(who), whole |-> Whole(db)]
    /\ UNCHANGED <<season, db, draft, node, torn, starts>>

DbNext ==
    \/ \E knows \in BOOLEAN : StartNode(knows)
    \/ CreateNext
    \/ MigrateNext
    \/ Commit
    \/ NodeCrashes
    \/ \E who \in {"daemon", "dumper"} : Look(who)

DbSpec == DbInit /\ [][DbNext]_dbVars

\* A Node that runs goes on.
DbFairSpec ==
    /\ DbSpec
    /\ WF_dbVars(CreateNext)
    /\ WF_dbVars(MigrateNext)
    /\ WF_dbVars(Commit)
-----------------------------------------------------------------------------
(* Properties *)

\* Type invariant: a file is what one statement or migration after the other
\* made of it, the Node is in one of its phases.
DbTypeOK ==
    /\ season \in Seasons
    /\ \A d \in {db, draft} :
          /\ d.exists \in BOOLEAN
          /\ d.rows \subseteq DOMAIN Span
          /\ d.version \in {NoVersion} \cup 0..CurrentSchema + 1
          /\ DOMAIN d.money = Tables
          /\ d.wallet \in {"none", "seed", "key"}
    /\ node.at \in {"down", "creating", "migrating", "open"}
    /\ node.step \in 0..Len(Creation)
    /\ torn \in BOOLEAN
    /\ look.found \in {"nothing", "ignored", "refused", "panicked", "read"}

\* Whatever version a file was left in, whoever crashed or failed meanwhile:
\* the file has just the config rows and the tables of the version it names,
\* and a migrated one those of a new one (list_of_migrations against
\* create_database_tables) - unless a crash cut its creation short.
FileIsWhole ==
    db.exists /\ ~torn /\ node.at # "creating" => Whole(db)

\* A Node that runs has a file of the current version in front of it, as its
\* actors, which panic at any other (CreationBannedMigrationPanics), expect.
OpenIsCurrent == node.at = "open" => db.version = CurrentSchema

\* Nobody who opens the file finds it half made or panics over it, at whatever
\* moment of a migration they look - unless its creation is going on or was
\* cut short.
LooksAreSafe ==
    ~torn /\ "race" \notin season =>
        /\ look.found # "panicked"
        /\ look.found = "read" => look.whole

\* What the file says is owed: in gwei before version 7, in wei after.
InWei(d, amount) == IF d.version < 7 THEN amount * Gwei ELSE amount
Worth(d) ==
    [t \in Tables |-> [i \in DOMAIN d.money[t] |-> InWei(d, d.money[t][i])]]

\* No start, migration, failure or crash changes what is owed, what a rate pack
\* that was there demands, or loses the consuming wallet (Migrate_3_to_4 and
\* Migrate_6_to_7).
KeepsWhatItHad ==
    [][db.exists /\ db.version # NoVersion =>
          /\ Worth(db') = Worth(db)
          /\ "rate_pack" \in db.rows =>
                InWei(db', db'.rate) = InWei(db, db.rate)
          /\ (db'.wallet = "none") = (db.wallet = "none")]_dbVars

\* A file is migrated all the way or not at all: one that could not be migrated
\* still serves the Node it belonged to (initiate_migrations' one transaction).
MigratesAllTheWay ==
    [][db'.version # db.version => db'.version = CurrentSchema]_dbVars

\* A file survives whatever is done to it: it is whole and current for those
\* who open it, keeps its contents, and is migrated all the way.
FileSurvives ==
    /\ [](FileIsWhole /\ OpenIsCurrent /\ LooksAreSafe)
    /\ KeepsWhatItHad /\ MigratesAllTheWay

\* A Node that finds no file, or an old one it can migrate and for which it has
\* the password, gets its database, unless it crashes first.
GetsItsFile ==
    /\ (node.at = "creating" /\ "crash" \notin season) ~> (node.at = "open")
    /\ ( /\ node.at = "migrating" /\ node.knows /\ "crash" \notin season
         /\ \A t \in Tables : Len(db.money[t]) <= 1 )
        ~> (node.at = "open")
=============================================================================
