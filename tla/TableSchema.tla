----------------------------- MODULE TableSchema -----------------------------
(***************************************************************************)
(* Run up to the end of prepareTableSchema (prepare/prepare.go:45-106,     *)
(* prepare/tpcc_schema.go, prepare/tpcc_tiflash.go): nine tables, their    *)
(* rows in batches of INSERT IGNORE, a TiFlash replica of each, ANALYZE.   *)
(*                                                                         *)
(* TiDB keeps what a command did when the command fails, loses the reply   *)
(* of a statement or is killed, and the command is run again.  A row is    *)
(* known by the values of its primary key.                                 *)
(***************************************************************************)
EXTENDS Integers, Sequences, FiniteSetsExt

CONSTANTS Warehouses, Districts, Customers, Orders, LinesPerOrder, Items,
          BatchSize,        \* tpccInsertBatchSize
          Foreign,          \* tables that may exist before, defined otherwise
          Slow,             \* bound: tables whose replica takes its time
          MaxCommands       \* bound: runs of the command

ASSUME FixtureAssumption ==
    /\ {Warehouses, Districts, Customers, Orders, LinesPerOrder, Items, BatchSize,
        MaxCommands} \subseteq Nat \ {0}
    /\ Customers = Orders
    /\ Orders % 10 = 0          \* 7/10 of the orders are delivered, 3/10 are new

\* The order of tpccTableDDLs.
TableOrder == <<"warehouse", "district", "customer", "history", "new_order",
                "orders", "order_line", "stock", "item">>

\* Mutant: one table is missing from the list.
AnalyzeOrderShort == <<"warehouse", "district", "customer", "orders", "order_line", "item">>

AnalyzeOrder == <<"warehouse", "district", "customer", "orders", "order_line",
                  "stock", "item">>
Tables == {TableOrder[i] : i \in 1 .. Len(TableOrder)}
Seeded == Tables \ {"history"}

ASSUME TableAssumption == Foreign \subseteq Tables /\ Slow \subseteq Tables
-----------------------------------------------------------------------------
(***************************************************************************)
(* The fixture: the rows that one call of insertRows is given, in order.   *)
(***************************************************************************)

Delivered == (Orders * 7) \div 10

RowsOf(table, warehouse) ==
    CASE table = "warehouse" -> [i \in 1 .. Warehouses |-> <<i>>]
      [] table = "district" ->
            [i \in 1 .. Warehouses * Districts |->
                <<(i - 1) \div Districts + 1, ((i - 1) % Districts) + 1>>]
      [] table = "item" -> [i \in 1 .. Items |-> <<i>>]
      [] table \in {"customer", "orders"} -> [i \in 1 .. Customers |-> <<warehouse, 1, i>>]
      [] table = "new_order" ->
            [i \in 1 .. Customers - Delivered |-> <<warehouse, 1, Delivered + i>>]
      [] table = "order_line" ->
            [i \in 1 .. Customers * LinesPerOrder |->
                <<warehouse, 1, (i - 1) \div LinesPerOrder + 1, ((i - 1) % LinesPerOrder) + 1>>]
      [] table = "stock" -> [i \in 1 .. Items |-> <<warehouse, i>>]

\* Three calls of seedTPCCData, then five of seedTPCCWarehouse for every warehouse.
SeedCalls == 3 + 5 * Warehouses
SeedCall(c) ==
    IF c <= 3 THEN [table |-> <<"warehouse", "district", "item">>[c], warehouse |-> 1]
    ELSE [table |-> <<"customer", "orders", "new_order", "order_line", "stock">>[((c - 4) % 5) + 1],
          warehouse |-> (c - 4) \div 5 + 1]

RowsOfCall == [c \in 1 .. SeedCalls |-> RowsOf(SeedCall(c).table, SeedCall(c).warehouse)]

\* rows[start:end].
Batch(c, from) ==
    {RowsOfCall[c][i] : i \in (from + 1) .. Min({from + BatchSize, Len(RowsOfCall[c])})}

Fixture == [t \in Tables |->
    UNION {{RowsOfCall[c][i] : i \in 1 .. Len(RowsOfCall[c])} :
              c \in {d \in 1 .. SeedCalls : SeedCall(d).table = t}}]

\* tpccFixtureRowCount, the number that is logged.
FixtureRowCount ==
    Warehouses * (1 + Districts + Customers + Orders + (Orders * 3) \div 10
                    + Orders * LinesPerOrder + Items) + Items
-----------------------------------------------------------------------------
VARIABLES
    definition, \* definition[t]: "absent", "own", "keyless" or "columns" (lacks one)
    rows,       \* rows[t][k]: rows of table t with key k of the fixture
    replica,    \* tables with a TiFlash replica set
    available,  \* those whose replica is available
    analyzed,   \* tables whose statistics are of the rows they hold
    late,       \* batches of a killed command that TiDB still works on
    commands,   \* commands run so far
    parent,     \* the command's context: "live" or "cancelled"
    waitCtx,    \* the context of the wait: "live", or why it ended first
    point, index, start,    \* where the command is: step, loop index, start of the batch
    pending,    \* the tables that the last poll found not available
    failure     \* the error of prepareTableSchema

database == <<definition, rows, replica, available, analyzed, late>>
progress == <<point, index, start>>
schemaVars == <<database, commands, parent, waitCtx, progress, pending, failure>>

NoFailure == [kind |-> "none", cause |-> "none", tables |-> {}]
Failed(kind, cause, tables) == [kind |-> kind, cause |-> cause, tables |-> tables]

Statements == {"connect", "database", "create", "seed", "replicas", "poll", "analyze"}
SchemaPoints == Statements \cup {"pause", "done", "failed", "killed"}

\* A table of another definition may exist before the first command.
SchemaInit ==
    /\ definition \in [Tables -> {"absent", "keyless", "columns"}]
    /\ \A t \in Tables \ Foreign : definition[t] = "absent"
    /\ rows = [t \in Tables |-> [k \in Fixture[t] |-> 0]]
    /\ replica = {}
    /\ available = {}
    /\ analyzed = {}
    /\ late = {}
    /\ commands = 1
    /\ parent = "live"
    /\ waitCtx = "live"
    /\ point = "connect" /\ index = 1 /\ start = 0
    /\ pending = {}
    /\ failure = NoFailure
-----------------------------------------------------------------------------
SchemaFails(why) ==
    /\ failure' = why
    /\ point' = "failed"
    /\ UNCHANGED <<index, start>>

\* The loop over the tables goes on, or the one that follows begins.
NextOf(list, onward) ==
    /\ IF index < Len(list) THEN index' = index + 1 /\ UNCHANGED point
                            ELSE index' = 1 /\ point' = onward
    /\ UNCHANGED <<start, failure>>

\* The reply arrives, or TiDB has done its work and the reply is lost.
Answered(step) == step \/ SchemaFails(Failed("statement", "network", {}))

\* Nothing was done.  A context that has ended lets no statement through; an
\* INSERT that was sent may yet be carried out.
StatementRefused ==
    /\ point \in Statements \ {"poll"}
    /\ \/ UNCHANGED late
       \/ point = "seed" /\ late' = late \cup {[call |-> index, from |-> start]}
    /\ SchemaFails(Failed("statement", "network", {}))
    /\ UNCHANGED <<definition, rows, replica, available, analyzed, commands, parent, waitCtx, pending>>

\* Run: Open, Ping and Conn; then CREATE DATABASE and USE on that session.
Connect ==
    /\ point = "connect" /\ parent = "live"
    /\ point' = "database"
    /\ UNCHANGED <<database, commands, parent, waitCtx, index, start, pending, failure>>

SelectSchema ==
    /\ point = "database" /\ parent = "live"
    /\ point' = "create"
    /\ UNCHANGED <<database, commands, parent, waitCtx, index, start, pending, failure>>

\* CREATE TABLE IF NOT EXISTS: whatever has the name is left as it is.
CreateTable ==
    /\ point = "create" /\ parent = "live"
    /\ definition' = [definition EXCEPT ![TableOrder[index]] = IF @ = "absent" THEN "own" ELSE @]
    /\ Answered(NextOf(TableOrder, "seed"))
    /\ UNCHANGED <<rows, replica, available, analyzed, late, commands, parent, waitCtx, pending>>

\* Mutant: INSERT without IGNORE into a table without its primary key.
InsertBatchNoIgnore(c, from) ==
    LET t == SeedCall(c).table IN
    /\ definition[t] # "columns"
    /\ rows' = [rows EXCEPT ![t] = [k \in DOMAIN @ |-> IF k \in Batch(c, from) THEN @[k] + 1 ELSE @[k]]]
    /\ analyzed' = IF rows'[t] = rows[t] THEN analyzed ELSE analyzed \ {t}

\* INSERT IGNORE INTO: a row whose primary key exists is passed over; a table
\* without that key takes it again; a table that lacks a column refuses.
InsertBatch(c, from) ==
    LET t == SeedCall(c).table
        Accepts(k) == k \in Batch(c, from) /\ (definition[t] = "keyless" \/ rows[t][k] = 0)
    IN /\ definition[t] # "columns"
       /\ rows' = [rows EXCEPT ![t] = [k \in DOMAIN @ |-> IF Accepts(k) THEN @[k] + 1 ELSE @[k]]]
       /\ analyzed' = IF rows'[t] = rows[t] THEN analyzed ELSE analyzed \ {t}

NextBatch ==
    IF start + BatchSize < Len(RowsOfCall[index])
    THEN start' = start + BatchSize /\ UNCHANGED <<index, point>>
    ELSE /\ start' = 0
         /\ IF index < SeedCalls THEN index' = index + 1 /\ UNCHANGED point
                                 ELSE index' = 1 /\ point' = "replicas"

InsertRows ==
    /\ point = "seed" /\ parent = "live"
    /\ InsertBatch(index, start)
    /\ NextBatch
    /\ UNCHANGED <<definition, replica, available, late, commands, parent, waitCtx, pending, failure>>

\* ALTER TABLE ... SET TIFLASH REPLICA 1.
SetReplica ==
    /\ point = "replicas" /\ parent = "live"
    /\ replica' = replica \cup {TableOrder[index]}
    /\ available' = available \cup ({TableOrder[index]} \ Slow)
    /\ Answered(NextOf(TableOrder, "poll"))
    /\ UNCHANGED <<definition, rows, analyzed, late, commands, parent, waitCtx, pending>>

\* pendingTiFlashTables, on what information_schema answers.
Poll ==
    /\ point = "poll" /\ waitCtx = "live"
    /\ pending' = Tables \ available
    /\ point' = IF pending' = {} THEN "analyze" ELSE "pause"
    /\ UNCHANGED <<database, commands, parent, waitCtx, index, start, failure>>

\* Mutant: the deadline is told from other errors only in the pause.
PollErrorPlain(cause) == Failed("plain", cause, {})

\* Only a wait that has polled before can say what it was waiting for.
PollError(cause) ==
    IF cause = "deadline" /\ pending # {} THEN Failed("timed out", cause, pending)
                                          ELSE Failed("plain", cause, {})

PollFails ==
    /\ point = "poll"
    /\ \E cause \in {"network", waitCtx} \ {"live"} : SchemaFails(PollError(cause))
    /\ UNCHANGED <<database, commands, parent, waitCtx, pending>>

\* Both ends of the pause may be there at once: select takes either.
PauseElapses ==
    /\ point = "pause"
    /\ point' = "poll"
    /\ UNCHANGED <<database, commands, parent, waitCtx, index, start, pending, failure>>

PauseEnds ==
    /\ point = "pause" /\ waitCtx # "live"
    /\ SchemaFails(IF waitCtx = "deadline" THEN Failed("timed out", waitCtx, pending)
                                           ELSE Failed("plain", waitCtx, {}))
    /\ UNCHANGED <<database, commands, parent, waitCtx, pending>>

AnalyzeTable ==
    /\ point = "analyze" /\ parent = "live"
    /\ analyzed' = analyzed \cup {AnalyzeOrder[index]}
    /\ Answered(NextOf(AnalyzeOrder, "done"))
    /\ UNCHANGED <<definition, rows, replica, available, late, commands, parent, waitCtx, pending>>

SchemaStep == StatementRefused \/ Connect \/ SelectSchema \/ CreateTable \/ InsertRows
                 \/ SetReplica \/ Poll \/ PollFails \/ PauseElapses \/ PauseEnds
                 \/ AnalyzeTable
-----------------------------------------------------------------------------
(***************************************************************************)
(* What happens beside the command.                                        *)
(***************************************************************************)

\* Mutant: the wait is given the caller's context, which has no deadline.
WaitNeverExpires == FALSE /\ UNCHANGED schemaVars

\* The ten minutes of the wait are over.
WaitExpires ==
    /\ point \in {"poll", "pause"} /\ waitCtx = "live"
    /\ waitCtx' = "deadline"
    /\ UNCHANGED <<database, commands, parent, progress, pending, failure>>

\* SIGINT or SIGTERM.
SchemaInterrupt ==
    /\ parent = "live" /\ point \notin {"failed", "killed"}
    /\ parent' = "cancelled"
    /\ waitCtx' = IF point \in {"poll", "pause"} /\ waitCtx = "live" THEN "cancelled" ELSE waitCtx
    /\ UNCHANGED <<database, commands, progress, pending, failure>>

\* The process dies; an INSERT it has sent may yet be carried out.
Kill ==
    /\ point \in Statements \cup {"pause"}
    /\ \/ UNCHANGED late
       \/ point = "seed" /\ late' = late \cup {[call |-> index, from |-> start]}
    /\ point' = "killed"
    /\ UNCHANGED <<definition, rows, replica, available, analyzed, commands, parent,
                   waitCtx, index, start, pending, failure>>

LateInsert ==
    \E b \in late :
        /\ InsertBatch(b.call, b.from)
        /\ late' = late \ {b}
        /\ UNCHANGED <<definition, replica, available, commands, parent, waitCtx,
                       progress, pending, failure>>

ReplicaAvailable(t) ==
    /\ t \in replica \ available
    /\ available' = available \cup {t}
    /\ UNCHANGED <<definition, rows, replica, analyzed, late, commands, parent, waitCtx,
                   progress, pending, failure>>

SchemaEnvironment == WaitExpires \/ SchemaInterrupt \/ Kill \/ LateInsert
                        \/ (\E t \in Tables : ReplicaAvailable(t))

\* A new process: everything of the old one is gone.
StartAgain ==
    /\ commands < MaxCommands
    /\ commands' = commands + 1
    /\ parent' = "live"
    /\ waitCtx' = "live"
    /\ point' = "connect" /\ index' = 1 /\ start' = 0
    /\ pending' = {}
    /\ failure' = NoFailure
    /\ UNCHANGED database

RerunSchema == point \in {"done", "failed", "killed"} /\ StartAgain

SchemaNext == SchemaStep \/ SchemaEnvironment \/ RerunSchema

SchemaSpec == SchemaInit /\ [][SchemaNext]_schemaVars /\ WF_schemaVars(SchemaStep)
                 /\ WF_schemaVars(WaitExpires)
-----------------------------------------------------------------------------
(***************************************************************************)
(* Properties.                                                             *)
(***************************************************************************)

\* Every variable has its type.
SchemaTypeOK ==
    /\ definition \in [Tables -> {"absent", "own", "keyless", "columns"}]
    /\ \A t \in Tables : rows[t] \in [Fixture[t] -> 0 .. 2 * MaxCommands]
    /\ available \subseteq replica /\ replica \subseteq Tables
    /\ analyzed \subseteq Tables
    /\ late \subseteq [call : 1 .. SeedCalls, from : Nat]
    /\ commands \in 1 .. MaxCommands
    /\ parent \in {"live", "cancelled"}
    /\ waitCtx \in {"live", "deadline", "cancelled"}
    /\ point \in SchemaPoints
    /\ index \in 1 .. (SeedCalls + Len(TableOrder))
    /\ start \in Nat
    /\ pending \subseteq Tables
    /\ failure \in [kind : {"none", "statement", "timed out", "plain"},
                    cause : {"none", "network", "deadline", "cancelled"},
                    tables : SUBSET Tables]

\* However many commands failed, were killed or have a batch under way in TiDB, a
\* table with its primary key never holds a row twice, and once a command has
\* prepared the schema it holds the whole fixture, which is as large as the number
\* that is logged (tpcc_schema.go:281-324; README.md:160: "idempotent for its
\* generated primary-key rows").
FixtureIsExact ==
    /\ \A t \in Tables : definition[t] # "keyless" =>
          \A k \in Fixture[t] : /\ rows[t][k] <= 1
                                /\ point = "done" => rows[t][k] = 1
    /\ FixtureRowCount = MapThenSumSet(LAMBDA t : Cardinality(Fixture[t]), Tables)

\* When the schema is prepared every replica is available, although each was set
\* and became so on its own, and the statistics of the tables the command analyzes
\* are of all their rows, although batches of an earlier command may have come in
\* meanwhile (tpcc_schema.go:165-181).
SchemaIsReady ==
    point = "done" =>
        /\ available = Tables
        /\ \A t \in Seeded \ {"new_order"} : definition[t] # "keyless" => t \in analyzed

\* A wait that ran into its deadline says so, naming every table that is still not
\* available, whether the deadline met a poll or a pause; only one that never saw
\* an answer cannot (tpcc_tiflash.go:46-81).
WaitErrorNamesPending ==
    /\ failure.cause = "deadline" => (failure.kind = "timed out" <=> pending # {})
    /\ failure.kind = "timed out" =>
          failure.tables # {} /\ Tables \ available \subseteq failure.tables
=============================================================================
