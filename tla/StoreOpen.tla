------------------------------ MODULE StoreOpen ------------------------------
(***************************************************************************)
(* store.Open (src/internal/store/store.go): every statement commits by    *)
(* itself, any of them may fail, and the process may die between any two.  *)
(* HA standbys that become leader, and a restarted process, open the same  *)
(* database, which may be new or of an earlier version of the program.     *)
(* Columns are abstracted: a table is complete, or lacks a required column *)
(* or still has a removed one.                                             *)
(***************************************************************************)
EXTENDS Naturals, FiniteSets

CONSTANTS Processes,   \* processes that open the database
          Indexes,     \* the names in initIndexes
          MaxFaults    \* bound: failing statements and deaths

VARIABLES tables,      \* what each table is
          migrations,  \* the table schema_migrations exists
          indexes,     \* the indexes that exist
          pc,          \* where Open stands in each process
          prior,       \* the tables were made by an earlier version
          faults       \* number of faults so far

vars == <<tables, migrations, indexes, pc, prior, faults>>

Tables == {"sessions", "messages"}

(***************************************************************************)
(* pc: closed (before Open, or after an error), configure, init, check,    *)
(* columns, indexes, open, and refused, the error of checkSchema.          *)
(***************************************************************************)

\* A new file, or one an earlier version has left.
Init ==
  /\ tables \in [Tables -> {"absent", "complete", "lacking", "removed"}]
  /\ tables["sessions"] # "removed"
  /\ migrations \in BOOLEAN
  /\ prior = (migrations \/ \E t \in Tables : tables[t] # "absent")
  /\ ~prior \/ migrations
     \/ \E t \in Tables : tables[t] \in {"lacking", "removed"}
  /\ indexes = {}
  /\ pc = [p \in Processes |-> "closed"]
  /\ faults = 0

Goto(p, from, to) == pc[p] = from /\ pc' = [pc EXCEPT ![p] = to]

Open(p) == /\ Goto(p, "closed", "configure")
           /\ UNCHANGED <<tables, migrations, indexes, prior, faults>>

Configure(p) == /\ Goto(p, "configure", "init")
                /\ UNCHANGED <<tables, migrations, indexes, prior, faults>>

\* CREATE TABLE IF NOT EXISTS, sessions before messages.
CreateTable(p, t) ==
  /\ pc[p] = "init" /\ tables[t] = "absent"
  /\ t = "messages" => tables["sessions"] # "absent"
  /\ tables' = [tables EXCEPT ![t] = "complete"]
  /\ UNCHANGED <<migrations, indexes, pc, prior, faults>>

\* Seeded fault: if there is one table, there are all.
TablesExistSome(p) ==
  /\ \E t \in Tables : tables[t] # "absent"
  /\ Goto(p, "init", "check")
  /\ UNCHANGED <<tables, migrations, indexes, prior, faults>>

TablesExist(p) ==
  /\ \A t \in Tables : tables[t] # "absent"
  /\ Goto(p, "init", "check")
  /\ UNCHANGED <<tables, migrations, indexes, prior, faults>>

\* checkSchema reads sqlite_master, then the columns of each table.
CheckMigrations(p) ==
  /\ Goto(p, "check", IF migrations THEN "refused" ELSE "columns")
  /\ UNCHANGED <<tables, migrations, indexes, prior, faults>>

\* Seeded fault: removed columns are not looked for.
CheckRequired(p) ==
  /\ Goto(p, "columns", IF \E t \in Tables : tables[t] = "lacking"
                        THEN "refused" ELSE "indexes")
  /\ UNCHANGED <<tables, migrations, indexes, prior, faults>>

CheckColumns(p) ==
  /\ Goto(p, "columns", IF \A t \in Tables : tables[t] = "complete"
                        THEN "indexes" ELSE "refused")
  /\ UNCHANGED <<tables, migrations, indexes, prior, faults>>

\* CREATE INDEX IF NOT EXISTS.
CreateIndex(p, x) ==
  /\ pc[p] = "indexes" /\ x \in Indexes \ indexes
  /\ indexes' = indexes \cup {x}
  /\ UNCHANGED <<tables, migrations, pc, prior, faults>>

IndexesExist(p) ==
  /\ indexes = Indexes
  /\ Goto(p, "indexes", "open")
  /\ UNCHANGED <<tables, migrations, indexes, prior, faults>>

\* A statement fails (db.Close), or the process dies, and may try again.
Fails(p) ==
  /\ pc[p] \notin {"closed", "refused"}
  /\ faults < MaxFaults /\ faults' = faults + 1
  /\ pc' = [pc EXCEPT ![p] = "closed"]
  /\ UNCHANGED <<tables, migrations, indexes, prior>>

Close(p) == /\ Goto(p, "open", "closed")
            /\ UNCHANGED <<tables, migrations, indexes, prior, faults>>

OpenStep(p) ==
  \/ Open(p) \/ Configure(p) \/ TablesExist(p) \/ CheckMigrations(p)
  \/ CheckColumns(p) \/ IndexesExist(p)
  \/ \E t \in Tables : CreateTable(p, t)
  \/ \E x \in Indexes : CreateIndex(p, x)

Next == \E p \in Processes : OpenStep(p) \/ Fails(p) \/ Close(p)

Spec == Init /\ [][Next]_vars
-----------------------------------------------------------------------------
(***************************************************************************)
(* Properties.                                                             *)
(***************************************************************************)
\* Who has opened the database finds all it needs, whoever else has stopped
\* half way through, and never works on a database of another version.
OpenedIsUsable ==
  \A p \in Processes : pc[p] = "open" =>
    /\ ~prior
    /\ \A t \in Tables : tables[t] = "complete"
    /\ indexes = Indexes

\* A database this version began to make is accepted by every later Open,
\* wherever the process that made it died (init and initIndexes are repeatable).
OwnIsNeverRefused == ~prior => \A p \in Processes : pc[p] # "refused"
=============================================================================
