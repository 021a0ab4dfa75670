-------------------------- MODULE SchemaMigrations --------------------------
(***************************************************************************)
(* The Alembic revisions of the shared database, run up to the head or one *)
(* revision down while the services write rows.  env.py runs all of them   *)
(* in one transaction, so every call of `op' is a step that may fail and a *)
(* run that does not reach its end leaves nothing behind.                  *)
(*                                                                         *)
(* A schema is a set of triples <<table, column, type>>; columns are NOT   *)
(* NULL unless their type says otherwise, a server default is part of the  *)
(* type, and the unique constraint is a column of type "unique".           *)
(***************************************************************************)
EXTENDS Integers, Sequences

CONSTANTS
    Keys,        \* pairs (order_id, event_type)
    MaxRows,     \* bound: rows in `events', and notifications for a key
    MaxFaults    \* bound: runs that are killed or lose their connection

ASSUME BoundsAssumption == MaxRows \in Nat /\ MaxFaults \in Nat

VARIABLES
    revision,        \* alembic_version: 0 (none) to 4, the head
    schema,          \* the schema that is committed
    events,          \* number of rows in `events'
    notifications,   \* number of notifications for every key
    todo,            \* the calls of `op' the run has still to make
    target,          \* the revision the run leads to (the current one: no run)
    altered,         \* the schema inside the run's transaction
    faults

rowVars == <<events, notifications>>
runVars == <<todo, target, altered>>
vars == <<revision, schema, rowVars, runVars, faults>>

Unique == "uq_notifications_order_id_event_type"
Names == {"id", "type", "message", "created_at", "order_id", "user_id", "event_type",
          "event_occurred_at", "published_to_kafka", Unique}

-----------------------------------------------------------------------------
(* The operations of the revisions, and the revisions.                     *)

Change(drops, adds) == [drops |-> drops, adds |-> adds]
create_table(t, columns) == Change({}, {<<t, c, columns[c]>> : c \in DOMAIN columns})
drop_table(t)            == Change({t} \X Names, {})
add_column(t, c, type)   == Change({}, {<<t, c, type>>})
drop_column(t, c)        == Change({<<t, c>>}, {})
alter_column(t, c, type) == Change({<<t, c>>}, {<<t, c, type>>})

init_upgrade ==
    << create_table("events", [id |-> "uuid", type |-> "varchar_64",
                               message |-> "varchar_null", created_at |-> "timestamp_utc"]) >>
init_downgrade == << drop_table("events") >>

\* Faulty variant of tables_upgrade: the new columns are nullable, so that they can
\* be added to a table with rows.
tables_upgrade_nullable ==
    << create_table("notifications", [id |-> "uuid", user_id |-> "varchar_64",
          order_id |-> "varchar_64", event_type |-> "varchar_32",
          message |-> "varchar_512", created_at |-> "timestamp_utc"]),
       add_column("events", "order_id", "varchar_null"),
       drop_column("events", "type"),
       drop_column("events", "message") >>

tables_upgrade ==
    << create_table("notifications", [id |-> "uuid", user_id |-> "varchar_64",
          order_id |-> "varchar_64", event_type |-> "varchar_32",
          message |-> "varchar_512", created_at |-> "timestamp_utc"]),
       add_column("events", "order_id", "varchar_64"),
       add_column("events", "user_id", "varchar_64"),
       add_column("events", "event_type", "varchar_32"),
       add_column("events", "event_occurred_at", "timestamp"),
       add_column("events", "published_to_kafka", "boolean"),
       drop_column("events", "type"),
       drop_column("events", "message") >>
tables_downgrade ==
    << add_column("events", "message", "varchar_null"),
       add_column("events", "type", "varchar_64"),
       drop_column("events", "published_to_kafka"),
       drop_column("events", "event_occurred_at"),
       drop_column("events", "event_type"),
       drop_column("events", "user_id"),
       drop_column("events", "order_id"),
       drop_table("notifications") >>

\* Faulty variant of dates_upgrade: a column is forgotten.
dates_upgrade_forgets ==
    << alter_column("events", "created_at", "timestamptz_now"),
       alter_column("events", "event_occurred_at", "timestamptz") >>

dates_upgrade ==
    << alter_column("events", "created_at", "timestamptz_now"),
       alter_column("events", "event_occurred_at", "timestamptz"),
       alter_column("notifications", "created_at", "timestamptz_now") >>
dates_downgrade ==
    << alter_column("notifications", "created_at", "timestamp_utc"),
       alter_column("events", "event_occurred_at", "timestamp"),
       alter_column("events", "created_at", "timestamp_utc") >>

unique_upgrade   == << add_column("notifications", Unique, "unique") >>
unique_downgrade == << drop_column("notifications", Unique) >>

\* In the order of their down_revision.
Upgrades   == <<init_upgrade, tables_upgrade, dates_upgrade, unique_upgrade>>
Downgrades == <<init_downgrade, tables_downgrade, dates_downgrade, unique_downgrade>>
head == Len(Upgrades)

\* The calls that lead from one revision up to another.
Path(from, to) ==
    LET calls(n) == IF from < n /\ n <= to THEN Upgrades[n] ELSE <<>>
    IN  calls(1) \o calls(2) \o calls(3) \o calls(4)

\* What shared/db/schema declares and the services expect to find.
uuid_pk    == "uuid"
created_at == "timestamptz_now"
EventTable ==
    [id |-> uuid_pk, order_id |-> "varchar_64", user_id |-> "varchar_64",
     event_type |-> "varchar_32", created_at |-> created_at,
     event_occurred_at |-> "timestamptz", published_to_kafka |-> "boolean"]
NotificationTable ==
    [id |-> uuid_pk, user_id |-> "varchar_64", order_id |-> "varchar_64",
     event_type |-> "varchar_32", message |-> "varchar_512",
     created_at |-> created_at]

-----------------------------------------------------------------------------
(* What Postgres does.                                                     *)

HasRows(t) == IF t = "events" THEN events > 0 ELSE \E k \in Keys : notifications[k] > 0

\* A NOT NULL column without a default cannot be added to a table with rows, nor
\* the constraint to one with duplicates.
Refused(change) ==
    \E column \in change.adds :
        IF column[3] = "unique"
          THEN \E k \in Keys : notifications[k] > 1
          ELSE /\ HasRows(column[1]) /\ column[3] # "varchar_null"
               /\ <<column[1], column[2]>> \notin change.drops

Apply(s, change) ==
    {column \in s : <<column[1], column[2]>> \notin change.drops} \cup change.adds

Has(s, t) == \E column \in s : column[1] = t

\* What the run has altered is locked until its transaction ends.
Writable(t) ==
    /\ Has(schema, t)
    /\ {column \in schema : column[1] = t} = {column \in altered : column[1] = t}

Init ==
    /\ revision = 0
    /\ schema = {} /\ altered = {}
    /\ events = 0
    /\ notifications = [k \in Keys |-> 0]
    /\ todo = <<>>
    /\ target = 0
    /\ faults = 0

\* A service writes a row; at the head the constraint refuses a second key.
InsertEvent ==
    /\ Writable("events")
    /\ events < MaxRows
    /\ events' = events + 1
    /\ UNCHANGED <<revision, schema, notifications, runVars, faults>>

InsertNotification(k) ==
    /\ Writable("notifications")
    /\ notifications[k] < IF <<"notifications", Unique, "unique">> \in schema THEN 1 ELSE MaxRows
    /\ notifications' = [notifications EXCEPT ![k] = @ + 1]
    /\ UNCHANGED <<revision, schema, events, runVars, faults>>

-----------------------------------------------------------------------------
(* A run of alembic (env.py).                                              *)

Upgrade ==
    /\ target = revision /\ revision < head
    /\ target' = head
    /\ todo' = Path(revision, head)
    /\ altered' = schema
    /\ UNCHANGED <<revision, schema, rowVars, faults>>

Downgrade ==
    /\ target = revision /\ revision > 0
    /\ target' = revision - 1
    /\ todo' = Downgrades[revision]
    /\ altered' = schema
    /\ UNCHANGED <<revision, schema, rowVars, faults>>

Execute ==
    /\ todo # <<>>
    /\ ~Refused(Head(todo))
    /\ altered' = Apply(altered, Head(todo))
    /\ todo' = Tail(todo)
    /\ UNCHANGED <<revision, schema, rowVars, target, faults>>

\* Faulty variant of Rollback: there is no transaction around the revisions.
RollbackNothing ==
    /\ todo' = <<>>
    /\ target' = revision
    /\ schema' = altered
    /\ UNCHANGED <<revision, rowVars, altered>>

Rollback ==
    /\ todo' = <<>>
    /\ target' = revision
    /\ altered' = schema
    /\ UNCHANGED <<revision, schema, rowVars>>

ExecuteFail ==
    /\ todo # <<>>
    /\ Refused(Head(todo))
    /\ Rollback
    /\ UNCHANGED faults

\* The run is killed or loses its connection, at its COMMIT at the latest.
Abort ==
    /\ target # revision
    /\ faults < MaxFaults
    /\ faults' = faults + 1
    /\ Rollback

Commit ==
    /\ target # revision
    /\ todo = <<>>
    /\ revision' = target
    /\ schema' = altered
    /\ notifications' = IF Has(altered, "notifications") THEN notifications ELSE [k \in Keys |-> 0]
    /\ events' = IF Has(altered, "events") THEN events ELSE 0
    /\ UNCHANGED <<runVars, faults>>

-----------------------------------------------------------------------------
Next ==
    \/ InsertEvent \/ \E k \in Keys : InsertNotification(k)
    \/ Upgrade \/ Downgrade
    \/ Execute \/ ExecuteFail \/ Abort \/ Commit

Spec == Init /\ [][Next]_vars

-----------------------------------------------------------------------------
(* Properties.                                                             *)

\* What all the calls together make of a schema: the columns that were there or
\* that one of the calls added, unless a later call dropped them.
After(s, calls) ==
    LET kept(column, n) ==
            \A i \in n .. Len(calls) : <<column[1], column[2]>> \notin calls[i].drops
    IN  {column \in s : kept(column, 1)}
          \cup UNION {{column \in calls[n].adds : kept(column, n + 1)} : n \in DOMAIN calls}

\* A revision always stands for the same schema, the one a fresh database gets,
\* whatever ups and downs led to it and whichever call of them failed.
SchemaIsOfRevision == schema = After({}, Path(0, revision))

\* At the head the database is what the ORM declares.
HeadIsDeclared ==
    revision = head =>
        schema = Apply(create_table("events", EventTable).adds
                         \cup create_table("notifications", NotificationTable).adds,
                       add_column("notifications", Unique, "unique"))

\* An upgrade never takes data away: it keeps all rows, and drops a column only
\* of a table that has none, also when rows are written while it runs.
UpgradeKeepsData ==
    [][revision' > revision =>
          /\ UNCHANGED rowVars
          /\ \A column \in schema :
                HasRows(column[1]) =>
                    \E c \in schema' : c[1] = column[1] /\ c[2] = column[2]]_vars
=============================================================================
