------------------------------- MODULE Schema --------------------------------
(***************************************************************************)
(* Opening the SQLite ledger: NewSQLiteStore runs the pending migrations   *)
(* through golang-migrate, which is not part of the repository; its Up is  *)
(* modelled from how runMigrations uses it and marked external.            *)
(*                                                                         *)
(* Up reads the version once, then for each later migration marks the      *)
(* version dirty, applies the file and marks it clean: three transactions. *)
(* Nothing keeps two processes (the timer's and a manual run) from opening *)
(* the file at the same time, and no busy timeout is set: a transaction    *)
(* that meets another one fails at once.                                   *)
(***************************************************************************)
EXTENDS Integers

CONSTANTS
  Procs,      \* processes that open the file
  Migrations  \* number of migration files (5 in the code)

ASSUME SchemaAssumption == Migrations \in Nat \ {0}

VARIABLES
  version,     \* schema_migrations.version; 0 for none
  dirty,       \* schema_migrations.dirty
  tables,      \* migrations whose tables exist
  opening,     \* of each process: where its NewSQLiteStore is
  next,        \* of each process: the migration it is at
  interrupted  \* some process stopped between marking a version and cleaning it

schemaVars == <<version, dirty, tables, opening, next, interrupted>>

All == 1..Migrations
Halfway == {"apply", "clean"}
Opening == {"closed", "mark", "open"} \cup Halfway

SchemaTypeOK ==
  /\ version \in 0..Migrations /\ dirty \in BOOLEAN /\ tables \in SUBSET All
  /\ opening \in [Procs -> Opening] /\ next \in [Procs -> All]
  /\ interrupted \in BOOLEAN

SchemaInit ==
  /\ version = 0 /\ dirty = FALSE /\ tables = {}
  /\ opening = [p \in Procs |-> "closed"] /\ next = [p \in Procs |-> 1]
  /\ interrupted = FALSE

UpAnyway(p) ==
  /\ opening[p] = "closed"
  /\ IF version = Migrations
     THEN opening' = [opening EXCEPT ![p] = "open"] /\ UNCHANGED next
     ELSE /\ opening' = [opening EXCEPT ![p] = "mark"]
          /\ next' = [next EXCEPT ![p] = version + 1]
  /\ UNCHANGED <<version, dirty, tables, interrupted>>

\* Up reads the version. A dirty one is an error (OpenFails); without pending
\* migrations it is ErrNoChange, and the store is open.
Up(p) ==
  /\ opening[p] = "closed" /\ ~dirty
  /\ IF version = Migrations
     THEN opening' = [opening EXCEPT ![p] = "open"] /\ UNCHANGED next
     ELSE /\ opening' = [opening EXCEPT ![p] = "mark"]
          /\ next' = [next EXCEPT ![p] = version + 1]
  /\ UNCHANGED <<version, dirty, tables, interrupted>>

\* SetVersion(v, true).
MarkDirty(p) ==
  /\ opening[p] = "mark" /\ opening' = [opening EXCEPT ![p] = "apply"]
  /\ version' = next[p] /\ dirty' = TRUE
  /\ UNCHANGED <<tables, next, interrupted>>

\* The file, in one transaction; every statement of it is IF NOT EXISTS.
Apply(p) ==
  /\ opening[p] = "apply" /\ opening' = [opening EXCEPT ![p] = "clean"]
  /\ tables' = tables \cup {next[p]}
  /\ UNCHANGED <<version, dirty, next, interrupted>>

MarkDone(p) ==
  /\ opening[p] = "clean"
  /\ version' = next[p] /\ UNCHANGED dirty
  /\ IF next[p] = Migrations
     THEN opening' = [opening EXCEPT ![p] = "open"] /\ UNCHANGED next
     ELSE /\ opening' = [opening EXCEPT ![p] = "mark"]
          /\ next' = [next EXCEPT ![p] = @ + 1]
  /\ UNCHANGED <<tables, interrupted>>

\* SetVersion(v, false), and on to the next file.
MarkClean(p) ==
  /\ opening[p] = "clean"
  /\ version' = next[p] /\ dirty' = FALSE
  /\ IF next[p] = Migrations
     THEN opening' = [opening EXCEPT ![p] = "open"] /\ UNCHANGED next
     ELSE /\ opening' = [opening EXCEPT ![p] = "mark"]
          /\ next' = [next EXCEPT ![p] = @ + 1]
  /\ UNCHANGED <<tables, interrupted>>

\* The process lets go of the file: it is closed, the call failed (SQLITE_BUSY,
\* a dirty version, no such directory), or the process is killed.
LetGo(p) ==
  /\ opening' = [opening EXCEPT ![p] = "closed"]
  /\ interrupted' = (interrupted \/ opening[p] \in Halfway)
  /\ UNCHANGED <<version, dirty, tables, next>>

SchemaNext ==
  \E p \in Procs : Up(p) \/ MarkDirty(p) \/ Apply(p) \/ MarkClean(p) \/ LetGo(p)

SchemaSpec == SchemaInit /\ [][SchemaNext]_schemaVars

-----------------------------------------------------------------------------
(* Properties *)

\* A process whose store is open has every table, whichever processes migrated
\* the file, however their transactions interleaved, and wherever they stopped.
OpenHasTables == \A p \in Procs : opening[p] = "open" => tables = All

\* The version is left dirty, and so every later start fails, only if a process
\* was stopped or met a lock between marking a version and cleaning it: starts
\* at the same time do no harm by themselves.
DirtyHasCause ==
  dirty /\ (\A p \in Procs : opening[p] \notin Halfway) => interrupted
=============================================================================
