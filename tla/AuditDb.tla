------------------------------ MODULE AuditDb ------------------------------
(***************************************************************************)
(* etc/db_admin.py on its SQLite file: init, reset and stats, run by       *)
(* operators at the same time, or killed half way.                         *)
(*                                                                         *)
(* Of SQLite (external): CREATE TABLE commits by itself; the first DELETE  *)
(* takes the write lock until commit or rollback; a statement that finds   *)
(* the lock taken, or its table missing, raises; `with conn` rolls back    *)
(* when its body raises, as does the next one to open the file when the    *)
(* process was killed.  vacuum changes no row and is left out.             *)
(***************************************************************************)
EXTENDS Naturals, Sequences, SequencesExt

CONSTANTS Operators,   \* runs of the script at one time
          Schema,      \* the tables of SCHEMA, in their order
          Unknown,     \* a name that is no table
          MaxRows,     \* bound of this model: rows of a table
          Requests     \* what --tables asks for: sequences of names

Tables == ToSet(Schema)

ASSUME SchemaAssumption ==
  /\ Schema \in Seq(Tables) /\ Schema # <<>>
  /\ Unknown \notin Tables /\ MaxRows \in Nat
  /\ Requests \subseteq Seq(Tables \cup {Unknown})

VARIABLES file,    \* is there a file?
          tables,  \* its tables, and how many rows each has
          run,     \* what each operator's run is doing
          cleared  \* tables deleted from and not committed, for each run

dbVars == <<file, tables, run, cleared>>

\* A run has its command, the tables it still has to see to, and the ones it
\* was asked for.
Run == [cmd : {"idle", "init", "reset"}, todo : Seq(Tables \cup {Unknown}),
        asked : SUBSET Tables]
Idle == [cmd |-> "idle", todo |-> <<>>, asked |-> {}]

DbTypeOK ==
  /\ file \in BOOLEAN
  /\ DOMAIN tables \subseteq Tables /\ \A t \in DOMAIN tables : tables[t] \in 0 .. MaxRows
  /\ run \in [Operators -> Run]
  /\ cleared \in [Operators -> SUBSET Tables]

DbInit ==
  /\ file = FALSE /\ tables = <<>>
  /\ run = [o \in Operators |-> Idle]
  /\ cleared = [o \in Operators |-> {}]

\* Who holds the write lock.
Locked == \E o \in Operators : cleared[o] # {}
LockedByOther(o) == \E p \in Operators \ {o} : cleared[p] # {}

----------------------------------------------------------------------------
StartInit(o) ==
  /\ run[o].cmd = "idle"
  /\ run' = [run EXCEPT ![o] = [cmd |-> "init", todo |-> Schema, asked |-> Tables]]
  /\ file' = TRUE
  /\ UNCHANGED <<tables, cleared>>

\* CREATE TABLE IF NOT EXISTS
Created(t) ==
  [u \in DOMAIN tables \cup {t} |-> IF u \in DOMAIN tables THEN tables[u] ELSE 0]

CreateTable(o) ==
  /\ run[o].cmd = "init" /\ run[o].todo # <<>> /\ ~Locked
  /\ tables' = Created(Head(run[o].todo))
  /\ run' = [run EXCEPT ![o].todo = Tail(@)]
  /\ UNCHANGED <<file, cleared>>

EndInit(o) ==
  /\ run[o].cmd = "init" /\ run[o].todo = <<>>
  /\ run' = [run EXCEPT ![o] = Idle]
  /\ UNCHANGED <<file, tables, cleared>>

\* reset does nothing when there is no file.
StartReset(o, names) ==
  /\ run[o].cmd = "idle" /\ file
  /\ run' = [run EXCEPT ![o] = [cmd |-> "reset", todo |-> names,
                                asked |-> ToSet(names) \cap Tables]]
  /\ UNCHANGED <<file, tables, cleared>>

Resetting(o) == run[o].cmd = "reset" /\ run[o].todo # <<>>

\* "unknown table ... skipping"
SkipTable(o) ==
  /\ Resetting(o) /\ Head(run[o].todo) \notin Tables
  /\ run' = [run EXCEPT ![o].todo = Tail(@)]
  /\ UNCHANGED <<file, tables, cleared>>

\* Mutant: each table is emptied for good at once.
DeleteForGood(o) ==
  LET t == Head(run[o].todo) IN
  /\ Resetting(o) /\ t \in DOMAIN tables /\ ~LockedByOther(o)
  /\ tables' = [tables EXCEPT ![t] = 0]
  /\ run' = [run EXCEPT ![o].todo = Tail(@)]
  /\ UNCHANGED <<file, cleared>>

\* DELETE FROM
DeleteRows(o) ==
  LET t == Head(run[o].todo) IN
  /\ Resetting(o) /\ t \in DOMAIN tables /\ ~LockedByOther(o)
  /\ cleared' = [cleared EXCEPT ![o] = @ \cup {t}]
  /\ run' = [run EXCEPT ![o].todo = Tail(@)]
  /\ UNCHANGED <<file, tables>>

\* conn.commit()
Commit(o) ==
  /\ run[o].cmd = "reset" /\ run[o].todo = <<>>
  /\ tables' = [t \in DOMAIN tables |-> IF t \in cleared[o] THEN 0 ELSE tables[t]]
  /\ cleared' = [cleared EXCEPT ![o] = {}]
  /\ run' = [run EXCEPT ![o] = Idle]
  /\ UNCHANGED file

\* A statement raises: no such table, or the database is locked.
StatementRaises(o) ==
  /\ run[o].todo # <<>> /\ Head(run[o].todo) \in Tables
  /\ \/ run[o].cmd = "init" /\ Locked
     \/ run[o].cmd = "reset" /\ (LockedByOther(o) \/ Head(run[o].todo) \notin DOMAIN tables)
  /\ cleared' = [cleared EXCEPT ![o] = {}]
  /\ run' = [run EXCEPT ![o] = Idle]
  /\ UNCHANGED <<file, tables>>

Killed(o) ==
  /\ run[o].cmd # "idle"
  /\ cleared' = [cleared EXCEPT ![o] = {}]
  /\ run' = [run EXCEPT ![o] = Idle]
  /\ UNCHANGED <<file, tables>>

\* Whoever keeps the tables inserts a row.
InsertRow(t) ==
  /\ t \in DOMAIN tables /\ tables[t] < MaxRows /\ ~Locked
  /\ tables' = [tables EXCEPT ![t] = @ + 1]
  /\ UNCHANGED <<file, run, cleared>>

DbNext ==
  \/ \E o \in Operators :
       \/ StartInit(o) \/ CreateTable(o) \/ EndInit(o)
       \/ \E names \in Requests : StartReset(o, names)
       \/ SkipTable(o) \/ DeleteRows(o) \/ Commit(o)
       \/ StatementRaises(o) \/ Killed(o)
  \/ \E t \in Tables : InsertRow(t)

DbSpec == DbInit /\ [][DbNext]_dbVars

----------------------------------------------------------------------------
(***************************************************************************)
(* Properties.                                                             *)
(***************************************************************************)

\* Rows are lost only when some reset empties all the tables it was asked to
\* empty, at once: one that raises on the way, is killed or meets another run
\* leaves every row where it was (db_admin.py:96-107).
ResetIsAllOrNothing ==
  [][\A t \in DOMAIN tables :
       tables'[t] < tables[t] =>
         \E o \in Operators : /\ run[o].cmd = "reset" /\ t \in run[o].asked
                              /\ \A u \in run[o].asked :
                                   u \in DOMAIN tables /\ tables'[u] = 0]_dbVars

=============================================================================
