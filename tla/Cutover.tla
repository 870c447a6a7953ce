------------------------------ MODULE Cutover ------------------------------
(***************************************************************************)
(* Blue/green publication of an ingestion run over two stores that share   *)
(* no transaction: the Qdrant collections behind the alias                 *)
(* `sltda_documents`, and the PostgreSQL tables behind their names.        *)
(*                                                                         *)
(* Three procedures work on them: an ingestion run (ingestion/pipeline.py, *)
(* its storage effects, ending in cutover.execute_cutover), a rollback     *)
(* (cutover.execute_rollback) and the clean-up job                         *)
(* (cutover.cleanup_old_data).  Every statement that commits on its own is *)
(* an action, and each procedure may stop between any two of them: an      *)
(* exception that leaves it, or a crash of its container.                  *)
(*                                                                         *)
(* Contents are abstracted to the set of runs whose rows they hold; run 0  *)
(* is what was served when the system was deployed.                        *)
(***************************************************************************)
EXTENDS Naturals

CONSTANTS
    Tables,      \* names in _SWAP_TABLES
    Created,     \* those the migrations create under their live name
    Staged,      \* those the migrations also create as <name>_staging
    Gate,        \* those whose staging table the smoke tests want non-empty
    Documents,   \* the table every processed document writes to
    MaxRun,      \* bound: ingestion runs in a behaviour
    Serial,      \* TRUE: the operator never runs two procedures at once
    Runbook      \* TRUE: rollback is only called inside its 48 hour window

ASSUME TablesAssumption ==
    /\ Documents \in Gate
    /\ Gate \subseteq Staged
    /\ Staged \subseteq Created
    /\ Created \subseteq Tables
    /\ MaxRun \in Nat
    /\ Serial \in BOOLEAN
    /\ Runbook \in BOOLEAN

VARIABLES
    collection,  \* what STAGING_COLLECTION ("next") and PREVIOUS_COLLECTION ("prev") hold
    alias,       \* the collection LIVE_ALIAS points to
    catalog,     \* per table, what stands under its live, _staging and _old names
    meta,        \* the row of system_metadata
    run,         \* where the ingestion run stands
    release,     \* number of the current or latest ingestion run
    rollback,    \* where execute_rollback stands
    cleanup,     \* where cleanup_old_data stands
    toDrop       \* the tables cleanup_old_data has not dropped yet

vars == <<collection, alias, catalog, meta, run, release, rollback, cleanup, toDrop>>

-----------------------------------------------------------------------------
\* A table or a collection: not there, or there with the rows of some runs.
Absent == [there |-> FALSE, rows |-> {}]
Holding(runs) == [there |-> TRUE, rows |-> runs]
Relation == {Absent} \cup [there : {TRUE}, rows : SUBSET Nat]

Names == [live : Relation, staging : Relation, old : Relation]

RunStates == {"idle", "wiping", "loading", "synced", "upserted", "ready",
              "aliased", "marked", "swapped", "reverting"}
Statuses  == {"none", "qdrant_done", "postgres_done", "complete"}
Windows   == {"never", "open", "past"}  \* rollback_expires_at: NULL, ahead, behind

TypeOK ==
    /\ collection \in [next : Relation, prev : Relation]
    /\ alias \in {"none", "next", "prev"}
    /\ catalog \in [Tables -> Names]
    /\ meta \in [active : {"sltda_documents", "next", "prev"}, status : Statuses,
                 available : BOOLEAN, window : Windows]
    /\ run \in RunStates
    /\ release \in Nat
    /\ rollback \in {"idle", "aliased"}
    /\ cleanup \in {"idle", "dropping"}
    /\ toDrop \subseteq Tables

\* The migrations create the tables.  No code creates PREVIOUS_COLLECTION: a
\* deployment has it, holding the data served so far, or it does not.
Init ==
    /\ \/ /\ collection = [next |-> Absent, prev |-> Absent]
          /\ alias = "none"
       \/ /\ collection = [next |-> Absent, prev |-> Holding({0})]
          /\ alias = "prev"
    /\ catalog = [t \in Tables |->
                    [live    |-> IF t \in Created THEN Holding({0}) ELSE Absent,
                     staging |-> IF t \in Staged THEN Holding({}) ELSE Absent,
                     old     |-> Absent]]
    /\ meta = [active |-> "sltda_documents", status |-> "none",
               available |-> FALSE, window |-> "never"]
    /\ run = "idle"
    /\ release = 0
    /\ rollback = "idle"
    /\ cleanup = "idle"
    /\ toDrop = {}

\* What a search through the alias finds.
Served == IF alias = "none" THEN Absent ELSE collection[alias]

AllIdle == run = "idle" /\ rollback = "idle" /\ cleanup = "idle"

-----------------------------------------------------------------------------
\* Qdrant's reassign_alias: an unknown target is an error.
AliasMovesTo(target) ==
    /\ collection[target].there
    /\ alias' = target

SetStatusMisspelt(status) ==
    meta' = [meta EXCEPT !.status = IF status = "complete" THEN "completed" ELSE status]

SetStatus(status) == meta' = [meta EXCEPT !.status = status]

(***************************************************************************)
(* The ingestion run.  Its advisory lock keeps two runs apart: one `run`.  *)
(***************************************************************************)

\* ensure_staging_collection, first call.  Qdrant drops the aliases of a
\* collection it deletes.
DropStagingCollection ==
    /\ run = "idle"
    /\ Serial => AllIdle
    /\ release < MaxRun
    /\ run' = "wiping"
    /\ release' = release + 1
    /\ collection' = [collection EXCEPT !.next = Absent]
    /\ alias' = IF alias = "next" THEN "none" ELSE alias
    /\ UNCHANGED <<catalog, meta, rollback, cleanup, toDrop>>

\* ensure_staging_collection, second call.
CreateStagingCollection ==
    /\ run = "wiping"
    /\ run' = "loading"
    /\ collection' = [collection EXCEPT !.next = Holding({})]
    /\ UNCHANGED <<alias, catalog, meta, release, rollback, cleanup, toDrop>>

\* The document loop: pg_sync inserts into the _staging tables of the families
\* the documents belong to, on top of whatever rows they have.  Every document
\* writes documents_staging: without it all of them fail and the run aborts.
SyncStagingTables ==
    /\ run = "loading"
    /\ \E written \in SUBSET Staged :
        /\ Documents \in written
        /\ \A t \in written : catalog[t].staging.there
        /\ catalog' = [t \in Tables |->
                         IF t \in written
                         THEN [catalog[t] EXCEPT !.staging = Holding(@.rows \cup {release})]
                         ELSE catalog[t]]
    /\ run' = "synced"
    /\ UNCHANGED <<collection, alias, meta, release, rollback, cleanup, toDrop>>

\* upsert_chunks and the point count check.  With no chunk at all nothing is
\* upserted, the expected count is 0 and the check is skipped.
UpsertChunks ==
    /\ run = "synced"
    /\ \E points \in {{}, {release}} :
         collection' = [collection EXCEPT !.next = Holding(points)]
    /\ run' = "upserted"
    /\ UNCHANGED <<alias, catalog, meta, release, rollback, cleanup, toDrop>>

SmokeTestsPass ==
    /\ run = "upserted"
    /\ \A t \in Gate : catalog[t].staging.there /\ catalog[t].staging.rows # {}
    /\ run' = "ready"
    /\ UNCHANGED <<collection, alias, catalog, meta, release, rollback, cleanup, toDrop>>

\* Mutant: the exception of step 1 is swallowed.
MoveAliasUnchecked ==
    /\ run = "ready"
    /\ AliasMovesTo("next") \/ UNCHANGED alias
    /\ run' = "aliased"
    /\ UNCHANGED <<collection, catalog, meta, release, rollback, cleanup, toDrop>>

\* execute_cutover, step 1.
MoveAlias ==
    /\ run = "ready"
    /\ AliasMovesTo("next")
    /\ run' = "aliased"
    /\ UNCHANGED <<collection, catalog, meta, release, rollback, cleanup, toDrop>>

MarkQdrantDone ==
    /\ run = "aliased"
    /\ SetStatus("qdrant_done")
    /\ run' = "marked"
    /\ UNCHANGED <<collection, alias, catalog, release, rollback, cleanup, toDrop>>

\* ALTER TABLE IF EXISTS t RENAME TO t_old; ... t_staging RENAME TO t.  A
\* rename onto a taken name is an error, a rename of a missing table is none.
SwapClashes == \E t \in Tables : catalog[t].live.there /\ catalog[t].old.there
SwappedByCopy(names) ==      \* mutant: CREATE TABLE t AS SELECT * FROM t_staging
    [live    |-> names.staging,
     staging |-> names.staging,
     old     |-> IF names.live.there THEN names.live ELSE names.old]
Swapped(names) ==
    [live    |-> names.staging,
     staging |-> Absent,
     old     |-> IF names.live.there THEN names.live ELSE names.old]

\* The rename transaction commits; the acknowledgement may be lost, and then
\* the code sees an exception although the tables have moved.
SwapTables ==
    /\ run = "marked"
    /\ ~SwapClashes
    /\ catalog' = [t \in Tables |-> Swapped(catalog[t])]
    /\ meta' = [active |-> "next", status |-> "postgres_done",
                available |-> TRUE, window |-> "open"]
    /\ run' \in {"swapped", "reverting"}
    /\ UNCHANGED <<collection, alias, release, rollback, cleanup, toDrop>>

\* Mutant: the handler logs and falls through.
SwapFailureSwallowed ==
    /\ run = "marked"
    /\ run' = "swapped"
    /\ UNCHANGED <<collection, alias, catalog, meta, release, rollback, cleanup, toDrop>>

\* The transaction rolls back: a taken name, or any other database error.
SwapFails ==
    /\ run = "marked"
    /\ run' = "reverting"
    /\ UNCHANGED <<collection, alias, catalog, meta, release, rollback, cleanup, toDrop>>

\* The compensation; when it fails too the run stops (RunStops).
RevertAlias ==
    /\ run = "reverting"
    /\ AliasMovesTo("prev")
    /\ run' = "idle"
    /\ UNCHANGED <<collection, catalog, meta, release, rollback, cleanup, toDrop>>

MarkComplete ==
    /\ run = "swapped"
    /\ SetStatus("complete")
    /\ run' = "idle"
    /\ UNCHANGED <<collection, alias, catalog, release, rollback, cleanup, toDrop>>

\* An abort (too many parse failures, point count, smoke tests), a dry run's
\* end, an exception of any statement, or a crash.
RunStops ==
    /\ run # "idle"
    /\ run' = "idle"
    /\ UNCHANGED <<collection, alias, catalog, meta, release, rollback, cleanup, toDrop>>

-----------------------------------------------------------------------------
(***************************************************************************)
(* execute_rollback.  The code checks neither rollback_available nor the   *)
(* window; with Runbook the operator does.                                 *)
(***************************************************************************)
RollbackAlias ==
    /\ rollback = "idle"
    /\ Serial => AllIdle
    /\ Runbook => meta.available /\ meta.window = "open"
    /\ AliasMovesTo("prev")
    /\ rollback' = "aliased"
    /\ UNCHANGED <<collection, catalog, meta, run, release, cleanup, toDrop>>

RestoreOverwrites == FALSE   \* mutant: DROP TABLE IF EXISTS t_staging first
RestoreClashes == \E t \in Tables : catalog[t].live.there /\ catalog[t].staging.there
Restored(names) ==
    [live    |-> names.old,
     staging |-> IF names.live.there THEN names.live ELSE names.staging,
     old     |-> Absent]

\* Mutants: the metadata update forgets a column.
RollbackKeepsAvailable ==
    /\ rollback = "aliased"
    /\ ~RestoreClashes
    /\ catalog' = [t \in Tables |-> Restored(catalog[t])]
    /\ meta' = [meta EXCEPT !.active = "prev", !.status = "none"]
    /\ rollback' = "idle"
    /\ UNCHANGED <<collection, alias, run, release, cleanup, toDrop>>

RollbackKeepsActive ==
    /\ rollback = "aliased"
    /\ ~RestoreClashes
    /\ catalog' = [t \in Tables |-> Restored(catalog[t])]
    /\ meta' = [meta EXCEPT !.status = "none", !.available = FALSE]
    /\ rollback' = "idle"
    /\ UNCHANGED <<collection, alias, run, release, cleanup, toDrop>>

RollbackTables ==
    /\ rollback = "aliased"
    /\ ~RestoreClashes
    /\ catalog' = [t \in Tables |-> Restored(catalog[t])]
    /\ meta' = [meta EXCEPT !.active = "prev", !.status = "none", !.available = FALSE]
    /\ rollback' = "idle"
    /\ UNCHANGED <<collection, alias, run, release, cleanup, toDrop>>

\* The rename transaction fails, or a crash: no compensation.
RollbackStops ==
    /\ rollback = "aliased"
    /\ rollback' = "idle"
    /\ UNCHANGED <<collection, alias, catalog, meta, run, release, cleanup, toDrop>>

-----------------------------------------------------------------------------
(***************************************************************************)
(* cleanup_old_data.  One read decides; each DROP commits on its own.      *)
(***************************************************************************)
CleanupIgnoresWindow ==      \* mutant: rollback_expires_at is not compared
    /\ cleanup = "idle"
    /\ Serial => AllIdle
    /\ meta.available
    /\ cleanup' = "dropping"
    /\ toDrop' = Tables
    /\ UNCHANGED <<collection, alias, catalog, meta, run, release, rollback>>

CleanupReads ==
    /\ cleanup = "idle"
    /\ Serial => AllIdle
    /\ meta.available
    /\ meta.window = "past"
    /\ cleanup' = "dropping"
    /\ toDrop' = Tables
    /\ UNCHANGED <<collection, alias, catalog, meta, run, release, rollback>>

DropOld(t) ==
    /\ cleanup = "dropping"
    /\ t \in toDrop
    /\ catalog' = [catalog EXCEPT ![t].old = Absent]
    /\ toDrop' = toDrop \ {t}
    /\ UNCHANGED <<collection, alias, meta, run, release, rollback, cleanup>>

CleanupCloses ==
    /\ cleanup = "dropping"
    /\ toDrop = {}
    /\ meta' = [meta EXCEPT !.available = FALSE]
    /\ cleanup' = "idle"
    /\ UNCHANGED <<collection, alias, catalog, run, release, rollback, toDrop>>

CleanupStops ==
    /\ cleanup = "dropping"
    /\ cleanup' = "idle"
    /\ toDrop' = {}
    /\ UNCHANGED <<collection, alias, catalog, meta, run, release, rollback>>

\* 48 hours pass.
WindowPasses ==
    /\ meta.window = "open"
    /\ meta' = [meta EXCEPT !.window = "past"]
    /\ UNCHANGED <<collection, alias, catalog, run, release, rollback, cleanup, toDrop>>

-----------------------------------------------------------------------------
IngestionRun ==
    \/ DropStagingCollection
    \/ CreateStagingCollection
    \/ SyncStagingTables
    \/ UpsertChunks
    \/ SmokeTestsPass
    \/ MoveAlias
    \/ MarkQdrantDone
    \/ SwapTables
    \/ SwapFails
    \/ RevertAlias
    \/ MarkComplete
    \/ RunStops

Rollback == RollbackAlias \/ RollbackTables \/ RollbackStops

Cleanup ==
    \/ CleanupReads
    \/ \E t \in Tables : DropOld(t)
    \/ CleanupCloses
    \/ CleanupStops

Next == IngestionRun \/ Rollback \/ Cleanup \/ WindowPasses

Spec == Init /\ [][Next]_vars

-----------------------------------------------------------------------------
(***************************************************************************)
(* Properties.                                                             *)
(***************************************************************************)

\* Every table the migrations staged stays there for the tools to read: no
\* order of runs, failures, crashes, rollbacks in the window and clean-ups
\* leaves the live name without a table (cutover.py:61-68, 124-130, 177).
ServingTablesStay == \A t \in Staged : catalog[t].live.there

\* As long as the metadata offers a rollback and its window is open, the
\* rollback has something to restore: every migrated table still has its _old
\* twin, and it holds only rows older than those being served
\* (cutover.py:5, 75-76, 177).
RollbackReady ==
    meta.available /\ meta.window = "open" =>
        /\ \A t \in Created : catalog[t].old.there
        /\ \A m \in catalog[Documents].old.rows, n \in catalog[Documents].live.rows : m < n

\* cutover_status and active_qdrant_collection are written by different
\* statements of different procedures and still tell the same story.
StatusMatchesActive ==
    /\ meta.status \in {"postgres_done", "complete"} => meta.active = "next"
    /\ meta.status = "none" => meta.active # "next"

\* When "complete" is recorded, the alias serves the staging collection and the
\* live tables hold the rows of the run whose vectors it has (cutover.py:98).
CompleteMeansAligned ==
    [][ meta.status # "complete" /\ meta'.status = "complete" =>
          /\ alias' = "next"
          /\ Served'.rows \subseteq catalog'[Documents].live.rows ]_vars

\* The procedures implement the two-step publication of BlueGreen: whatever
\* stops between two statements, tables follow the index forward and back.
BG == INSTANCE BlueGreen WITH
        index    <- Served,
        tables   <- catalog[Documents].live,
        retained <- catalog[Documents].old
ImplementsBlueGreen == BG!Spec

\* The rows of one run stand under at most one of a table's three names: the
\* renames move a table and never leave two readers a copy of it
\* (cutover.py:61-68, 124-130).
OneNamePerRun ==
    \A t \in Tables :
        LET names == catalog[t] IN
        /\ names.live.rows \cap names.staging.rows = {}
        /\ names.live.rows \cap names.old.rows = {}
        /\ names.staging.rows \cap names.old.rows = {}

RowsOf(names) == names.live.rows \cup names.staging.rows \cup names.old.rows

\* Published or staged rows are only ever lost in a clean-up: a cutover or a
\* rollback that would overwrite a table fails instead, whatever else runs.
OnlyCleanupLosesRows ==
    [][ cleanup = "idle" => \A t \in Tables : RowsOf(catalog[t]) \subseteq RowsOf(catalog'[t]) ]_vars

\* "Never touches the live sltda_documents collection" (qdrant_upsert.py:33):
\* after a completed cutover, preparing the next staging collection does not
\* change what the alias serves.
StagingLeavesLiveAlone ==
    [][ AllIdle /\ meta.status = "complete" /\ run' = "wiping" => Served' = Served ]_vars

\* "health returns degraded on incomplete cutover": with nothing running, an
\* index and tables of different runs show in cutover_status.
SplitIsVisible ==
    AllIdle /\ Served.there /\ ~(Served.rows \subseteq catalog[Documents].live.rows)
        => meta.status \notin {"none", "complete"}
=============================================================================
