----------------------------- MODULE Migrations -----------------------------
(***************************************************************************)
(* The start of the indexer's container on a database of an older release, *)
(* on its own or on none: docker-entrypoint.sh, run-sql.ts and             *)
(* run-migrations.ts beside one another, db/schemaMigrations.ts, and the   *)
(* restart policy of docker-compose.yml.  Of the data the files rewrite    *)
(* there is one instruction, which 3_update_failed_instruction_status.sql  *)
(* is about.                                                               *)
(***************************************************************************)
EXTENDS Common

CONSTANTS
  Releases,     \* the last file of the releases the database may come from
  Empty,        \* whether there may be no database yet
  MaxFaults     \* bound on crashes and failed queries

\* The files of db/migrations as readdir lists them: by name.
Readdir == <<10, 11, 1, 2, 3, 4, 5, 6, 7, 8, 9>>
Shipped == ToSet(Readdir)
\* The schema of an empty database: there is no file 0.
NoSchema == {0}

ASSUME MigrationsAssumption ==
  /\ Releases \subseteq Shipped \union {0}
  /\ Empty \in BOOLEAN /\ MaxFaults \in Nat

VARIABLES
  schema,       \* NoSchema, or the files whose changes the tables have
  recorded,     \* the numbers in the table migrations
  phase,        \* of docker-entrypoint.sh: Down, Migrations, Starting, Node
  sql,          \* of run-sql.ts, in the background: Off, Waiting, Applied
  faults,
  cStatus,      \* the chain: the status of the instruction
  instruction   \* the row: [status, failureReason], the reason as a Boolean

vars == <<schema, recorded, phase, sql, faults, cStatus, instruction>>

\* A release brings its own schema up, and records its files when it starts
\* again on a database that exists.
Init ==
  /\ \/ Empty /\ schema = NoSchema /\ recorded = {}
     \/ \E last \in Releases : schema = 1..last /\ recorded \in {{}, 1..last}
  /\ phase = "Down" /\ sql = "Off" /\ faults = 0
  /\ cStatus = "Created"
  /\ instruction = [status |-> "Created", failureReason |-> FALSE]

Fault == faults < MaxFaults /\ faults' = faults + 1
NoFault == UNCHANGED faults
\* Every way out of the entrypoint ends the container and run-sql with it.
Ends == phase' = "Down" /\ sql' = "Off"

\* npm run build; npm run sql in the background.
Start ==
  /\ phase = "Down"
  /\ phase' = "Migrations" /\ sql' = "Waiting"
  /\ UNCHANGED <<schema, recorded, faults, cStatus, instruction>>

\* Mutant: a database that is not ready is an error.
Unready_Exits == "Down"
\* run-migrations.ts returns and exits with 0.
Unready == "Starting"

\* dbIsReady(postgres, 1): the table events is not there, or the query failed.
SkipMigrations ==
  /\ phase = "Migrations"
  /\ \/ schema = NoSchema /\ NoFault
     \/ Fault
  /\ phase' = Unready
  /\ UNCHANGED <<schema, recorded, sql, cStatus, instruction>>

lastMigration == Max(recorded \union {0})
Pending(last) == FilterOut(Readdir, 1..last)

\* 11_handle_classic_ticker_claimed.sql selects by the column event_id_text,
\* which 5_add_enum_text_columns.sql adds.
Uses(f) == IF f = 11 THEN {5} ELSE {}
Runs(files) ==
  \A i \in DOMAIN files :
    Uses(files[i]) \subseteq schema \union ToSet(SubSeq(files, 1, i - 1))

\* Mutant: a query for each file; a failure in between keeps those before it.
Batches_PerFile(files) == {ToSet(SubSeq(files, 1, i)) : i \in 0..Len(files)}
\* The files and the inserts into migrations are one query: all or nothing.
Batches(files) == {{}, ToSet(files)}

\* File 3: an instruction with a failure reason is set to Failed.
Rewritten(files) ==
  IF 3 \in files /\ instruction.failureReason
    THEN [instruction EXCEPT !.status = "Failed"] ELSE instruction

\* schemaMigrations: the last number is 0 when the table is empty, and when
\* the query for it fails.  A batch that fails ends the entrypoint (set -e).
schemaMigrations ==
  /\ phase = "Migrations" /\ schema # NoSchema
  /\ \E last \in {lastMigration, 0} :
       LET files == Pending(last)
       IN \E done \in Batches(files) :
            /\ done = ToSet(files) => Runs(files)
            /\ IF last = lastMigration /\ (done = ToSet(files) \/ ~Runs(files))
                 THEN NoFault ELSE Fault
            /\ schema' = schema \union done /\ recorded' = recorded \union done
            /\ instruction' = Rewritten(done)
            /\ IF done = ToSet(files) THEN phase' = "Starting" /\ UNCHANGED sql
                                      ELSE Ends
  /\ UNCHANGED cStatus

\* The engine makes the tables of an empty database, and refuses tables that
\* are not those of its schema.
NodeStarts ==
  /\ phase = "Starting"
  /\ IF schema \in {NoSchema, Shipped}
       THEN schema' = Shipped /\ phase' = "Node" /\ UNCHANGED sql
       ELSE Ends /\ UNCHANGED schema
  /\ UNCHANGED <<recorded, faults, cStatus, instruction>>

\* dbIsReady(postgres): it waits for the tables, then applies compat.sql.
SqlApplied ==
  /\ sql = "Waiting" /\ schema # NoSchema
  /\ sql' = "Applied"
  /\ UNCHANGED <<schema, recorded, phase, faults, cStatus, instruction>>

\* No tables in 100 seconds, or compat.sql failed: the entrypoint is killed.
SqlKills ==
  /\ sql = "Waiting" /\ Fault
  /\ Ends
  /\ UNCHANGED <<schema, recorded, cStatus, instruction>>

\* The container dies or is stopped; the connection that migrates with it.
Crash ==
  /\ phase # "Down" /\ Fault
  /\ Ends
  /\ UNCHANGED <<schema, recorded, cStatus, instruction>>

\* An instruction that failed stays open and may be executed later.
Open == phase = "Node" /\ cStatus \in {"Created", "Failed"}
handleFailedToExecuteInstruction ==
  /\ Open
  /\ cStatus' = "Failed"
  /\ instruction' = [status |-> "Failed", failureReason |-> TRUE]
  /\ UNCHANGED <<schema, recorded, phase, sql, faults>>

handleInstructionFinalizedEvent ==
  /\ Open
  /\ cStatus' = "Executed"
  /\ instruction' = [instruction EXCEPT !.status = "Executed"]
  /\ UNCHANGED <<schema, recorded, phase, sql, faults>>

Next ==
  \/ Start \/ SkipMigrations \/ schemaMigrations \/ NodeStarts
  \/ SqlApplied \/ SqlKills \/ Crash
  \/ handleFailedToExecuteInstruction \/ handleInstructionFinalizedEvent

Spec == Init /\ [][Next]_vars

\* docker-compose.yml: restart: always; and each process goes on.
FairSpec ==
  /\ Spec
  /\ WF_vars(Start)
  /\ WF_vars(SkipMigrations \/ schemaMigrations)
  /\ WF_vars(NodeStarts)

-----------------------------------------------------------------------------
\* A start resumes after the highest number recorded, while the files are
\* applied in the order of their names: whatever fails in a batch, no file up
\* to that number is left out, for it would be for good.
NothingSkipped == \A f \in 1..lastMigration : f \in schema

\* "To successfully restart SQ, we need to write queries": once nothing fails
\* any more the indexer comes up, on the schema of its release, and stays.
ComesUp == <>[](phase = "Node" /\ schema = Shipped)

\* "[T]he entity's state appears as if it was originally designed": while the
\* node runs, the instruction has the status the chain gave it last.
StatusSurvives == phase = "Node" => instruction.status = cStatus
=============================================================================
