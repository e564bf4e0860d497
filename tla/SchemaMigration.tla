--------------------------- MODULE SchemaMigration ---------------------------
(***************************************************************************)
(* SQLiteStore.migrate of internal/store/sqlite.go: the statements that    *)
(* bring a database of an earlier version to the present schema, as        *)
(* operators on the schema of a database.                                  *)
(*                                                                         *)
(* A schema has `tables' and, of their columns, those that were added      *)
(* since the first version, as <<table, column>>; `filled' are the tables  *)
(* that have rows.  The columns of the first version are always there.     *)
(***************************************************************************)
EXTENDS Integers, Sequences

NodeColumns ==
    <<"name", "storage_reserved_gb", "storage_available_gb", "vpn_public_key",
      "mesh_url", "status", "last_seen_at", "deleted_at">>

\* Faulty variant: a column of the schema that is not added to old tables.
RelayColumns_OneMissing ==
    <<"replication_factor", "version", "capabilities", "status",
      "last_seen", "last_seen_at", "created_at", "updated_at">>

RelayColumns ==
    <<"replication_factor", "version", "uptime_secs", "capabilities", "status",
      "last_seen", "last_seen_at", "created_at", "updated_at">>

\* The columns declared DEFAULT (datetime('now')).
TimeOfInsertion ==
    {<<"relays", c>> : c \in {"last_seen", "last_seen_at", "created_at", "updated_at"}}

\* The columns CREATE TABLE gives a new table.
Columns(table) ==
    IF table = "nodes" THEN {<<"nodes", NodeColumns[i]>> : i \in DOMAIN NodeColumns}
    ELSE {<<"relays", c>> : c \in
            {"replication_factor", "version", "uptime_secs", "capabilities", "status",
             "last_seen", "last_seen_at", "created_at", "updated_at"}}

Schema == Columns("nodes") \cup Columns("relays")

\* The added columns that have an index.
Indexed == {<<"nodes", "status">>, <<"relays", "status">>, <<"relays", "last_seen_at">>}

Create(table) == [kind |-> "create", table |-> table, columns |-> Columns(table)]
Alter(table, c) == [kind |-> "alter", table |-> table, columns |-> {<<table, c>>}]
Index(table, c) == [kind |-> "index", table |-> table, columns |-> {<<table, c>>}]

\* The statements of migrate, in order.
Statements ==
    <<Create("nodes"), Create("relays")>>
    \o [i \in DOMAIN NodeColumns |-> Alter("nodes", NodeColumns[i])]
    \o [i \in DOMAIN RelayColumns |-> Alter("relays", RelayColumns[i])]
    \o <<Index("nodes", "status"), Index("relays", "status"), Index("relays", "last_seen_at")>>

\* What SQLite accepts.  A column that exists cannot be added, nor one whose
\* default is not a constant when the table has rows.
Accepted(db, q) ==
    CASE q.kind = "create" -> TRUE
      [] q.kind = "alter" -> /\ q.columns \cap db.columns = {}
                             /\ q.table \in db.filled => q.columns \cap TimeOfInsertion = {}
      [] q.kind = "index" -> q.columns \subseteq db.columns

\* CREATE TABLE IF NOT EXISTS leaves a table that exists as it is.
Executed(db, q) ==
    CASE q.kind = "create" ->
            IF q.table \in db.tables THEN db
            ELSE [db EXCEPT !.tables = @ \cup {q.table}, !.columns = @ \cup q.columns]
      [] q.kind = "alter" -> [db EXCEPT !.columns = @ \cup q.columns]
      [] q.kind = "index" -> db

IsSchema(db) ==
    /\ db \in [tables: SUBSET {"nodes", "relays"}, columns: SUBSET Schema,
               filled: SUBSET {"nodes", "relays"}]
    /\ db.filled \subseteq db.tables

=============================================================================
