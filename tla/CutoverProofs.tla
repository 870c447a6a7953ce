--------------------------- MODULE CutoverProofs ---------------------------
(***************************************************************************)
(* Proofs about Cutover, for every set of tables, every number of runs and *)
(* every interleaving the constants allow.                                 *)
(***************************************************************************)
EXTENDS Cutover, TLAPS

\* Relations and the names of a table, as the actions build and read them.
LEMMA AbsentIsRelation == Absent \in Relation
BY DEF Relation

LEMMA HoldingIsRelation ==
    ASSUME NEW runs \in SUBSET Nat
    PROVE  Holding(runs) \in Relation
BY DEF Relation, Holding

LEMMA RelationRows ==
    ASSUME NEW r \in Relation
    PROVE  /\ r.there \in BOOLEAN
           /\ r.rows \in SUBSET Nat
           /\ r.there => r = [there |-> TRUE, rows |-> r.rows]
<1>1. CASE r = Absent
  BY <1>1 DEF Absent
<1>2. CASE r \in [there : {TRUE}, rows : SUBSET Nat]
  <2>1. r.there = TRUE /\ r.rows \in SUBSET Nat /\ r = [there |-> r.there, rows |-> r.rows]
    BY <1>2
  <2> QED BY <2>1
<1> QED BY <1>1, <1>2 DEF Relation

LEMMA NamesRecord ==
    ASSUME NEW l \in Relation, NEW s \in Relation, NEW o \in Relation
    PROVE  [live |-> l, staging |-> s, old |-> o] \in Names
BY DEF Names

LEMMA NamesFields ==
    ASSUME NEW n \in Names
    PROVE  /\ n.live \in Relation
           /\ n.staging \in Relation
           /\ n.old \in Relation
           /\ n = [live |-> n.live, staging |-> n.staging, old |-> n.old]
BY DEF Names

LEMMA MovedNames ==
    ASSUME NEW n \in Names
    PROVE  Swapped(n) \in Names /\ Restored(n) \in Names
BY AbsentIsRelation, NamesFields, NamesRecord DEF Swapped, Restored

\* The names of a table that receives the rows of one more run.
LEMMA SyncedNames ==
    ASSUME NEW n \in Names, NEW r \in Nat
    PROVE  /\ [n EXCEPT !.staging = Holding(@.rows \cup {r})]
                = [live |-> n.live, staging |-> Holding(n.staging.rows \cup {r}), old |-> n.old]
           /\ [n EXCEPT !.staging = Holding(@.rows \cup {r})] \in Names
<1>1. [n EXCEPT !.staging = Holding(@.rows \cup {r})]
        = [live |-> n.live, staging |-> Holding(n.staging.rows \cup {r}), old |-> n.old]
  BY NamesFields
<1>2. Holding(n.staging.rows \cup {r}) \in Relation
  BY NamesFields, RelationRows, HoldingIsRelation
<1> QED BY <1>1, <1>2, NamesFields, NamesRecord

LEMMA DroppedNames ==
    ASSUME NEW n \in Names
    PROVE  /\ [n EXCEPT !.old = Absent]
                = [live |-> n.live, staging |-> n.staging, old |-> Absent]
           /\ [n EXCEPT !.old = Absent] \in Names
<1>1. [n EXCEPT !.old = Absent] = [live |-> n.live, staging |-> n.staging, old |-> Absent]
  BY NamesFields
<1> QED BY <1>1, NamesFields, NamesRecord, AbsentIsRelation

LEMMA TypeInit == Init => TypeOK
<1> SUFFICES ASSUME Init PROVE TypeOK
  OBVIOUS
<1>1. Absent \in Relation /\ Holding({}) \in Relation /\ Holding({0}) \in Relation
  BY AbsentIsRelation, HoldingIsRelation
<1>2. collection \in [next : Relation, prev : Relation]
  BY <1>1 DEF Init
<1>3. catalog \in [Tables -> Names]
  BY <1>1, NamesRecord DEF Init
<1> QED BY <1>2, <1>3 DEF Init, TypeOK, RunStates, Statuses, Windows

LEMMA TypeStep == TypeOK /\ [Next]_vars => TypeOK'
<1> SUFFICES ASSUME TypeOK, [Next]_vars PROVE TypeOK'
  OBVIOUS
<1> USE DEF TypeOK, RunStates, Statuses, Windows
<1>1. CASE IngestionRun
  <2>1. CASE DropStagingCollection
    BY <2>1, AbsentIsRelation DEF DropStagingCollection
  <2>2. CASE CreateStagingCollection
    BY <2>2, HoldingIsRelation DEF CreateStagingCollection
  <2>3. CASE SyncStagingTables
    <3>1. PICK written \in SUBSET Staged :
            /\ \A t \in written : catalog[t].staging.there
            /\ catalog' = [t \in Tables |->
                             IF t \in written
                             THEN [catalog[t] EXCEPT !.staging = Holding(@.rows \cup {release})]
                             ELSE catalog[t]]
      BY <2>3 DEF SyncStagingTables
    <3>2. ASSUME NEW t \in Tables, t \in written
          PROVE [catalog[t] EXCEPT !.staging = Holding(@.rows \cup {release})] \in Names
      BY SyncedNames
    <3>3. catalog' \in [Tables -> Names]
      BY <3>1, <3>2
    <3> QED BY <2>3, <3>3 DEF SyncStagingTables
  <2>4. CASE UpsertChunks
    <3>1. PICK points \in {{}, {release}} :
            collection' = [collection EXCEPT !.next = Holding(points)]
      BY <2>4 DEF UpsertChunks
    <3>2. Holding(points) \in Relation
      BY <3>1, HoldingIsRelation
    <3> QED BY <2>4, <3>1, <3>2 DEF UpsertChunks
  <2>5. CASE SmokeTestsPass
    BY <2>5 DEF SmokeTestsPass
  <2>6. CASE MoveAlias
    BY <2>6 DEF MoveAlias, AliasMovesTo
  <2>7. CASE MarkQdrantDone
    BY <2>7 DEF MarkQdrantDone, SetStatus
  <2>8. CASE SwapTables
    <3>1. \A t \in Tables : Swapped(catalog[t]) \in Names
      BY MovedNames
    <3> QED BY <2>8, <3>1 DEF SwapTables
  <2>9. CASE SwapFails
    BY <2>9 DEF SwapFails
  <2>10. CASE RevertAlias
    BY <2>10 DEF RevertAlias, AliasMovesTo
  <2>11. CASE MarkComplete
    BY <2>11 DEF MarkComplete, SetStatus
  <2>12. CASE RunStops
    BY <2>12 DEF RunStops
  <2> QED BY <1>1, <2>1, <2>2, <2>3, <2>4, <2>5, <2>6, <2>7, <2>8, <2>9,
             <2>10, <2>11, <2>12 DEF IngestionRun
<1>2. CASE Rollback
  <2>1. CASE RollbackAlias
    BY <2>1 DEF RollbackAlias, AliasMovesTo
  <2>2. CASE RollbackTables
    <3>1. \A t \in Tables : Restored(catalog[t]) \in Names
      BY MovedNames
    <3> QED BY <2>2, <3>1 DEF RollbackTables
  <2>3. CASE RollbackStops
    BY <2>3 DEF RollbackStops
  <2> QED BY <1>2, <2>1, <2>2, <2>3 DEF Rollback
<1>3. CASE Cleanup
  <2>1. CASE CleanupReads
    BY <2>1 DEF CleanupReads
  <2>2. ASSUME NEW t \in Tables, DropOld(t) PROVE TypeOK'
    <3>1. [catalog[t] EXCEPT !.old = Absent] \in Names
      BY DroppedNames
    <3>2. catalog' \in [Tables -> Names]
      BY <2>2, <3>1 DEF DropOld
    <3>3. toDrop' \subseteq Tables
      BY <2>2 DEF DropOld
    <3> QED BY <2>2, <3>2, <3>3 DEF DropOld
  <2>3. CASE CleanupCloses
    BY <2>3 DEF CleanupCloses
  <2>4. CASE CleanupStops
    BY <2>4 DEF CleanupStops
  <2> QED BY <1>3, <2>1, <2>2, <2>3, <2>4 DEF Cleanup
<1>4. CASE WindowPasses
  BY <1>4 DEF WindowPasses
<1>5. CASE UNCHANGED vars
  BY <1>5 DEF vars
<1> QED BY <1>1, <1>2, <1>3, <1>4, <1>5 DEF Next

\* Type correctness of the two stores and the three procedures, however they
\* overlap.
THEOREM TypeCorrect == Spec => []TypeOK
BY TypeInit, TypeStep, PTL DEF Spec

-----------------------------------------------------------------------------
(***************************************************************************)
(* The inductive invariant of the serial, runbook-abiding deployment.  The *)
(* names of the tables go through three phases: Fresh as the migrations    *)
(* (or a rollback) leave them, Published after a cutover, Retired once the *)
(* clean-up may have dropped some _old table.                              *)
(***************************************************************************)
Exclusive ==
    /\ run # "idle" => rollback = "idle" /\ cleanup = "idle"
    /\ rollback # "idle" => cleanup = "idle"

FreshNames(t) ==
    /\ catalog[t].live.there <=> t \in Created
    /\ catalog[t].staging.there <=> t \in Staged
    /\ ~catalog[t].old.there

PublishedNames(t) ==
    /\ catalog[t].live.there <=> t \in Staged
    /\ ~catalog[t].staging.there
    /\ catalog[t].old.there <=> t \in Created

RetiredNames(t) ==
    /\ catalog[t].live.there <=> t \in Staged
    /\ ~catalog[t].staging.there

Fresh ==
    /\ \A t \in Tables : FreshNames(t)
    /\ catalog[Documents].live = Holding({0})
    /\ 0 \notin catalog[Documents].staging.rows

Published ==
    /\ \A t \in Tables : PublishedNames(t)
    /\ catalog[Documents].old = Holding({0})
    /\ 0 \notin catalog[Documents].live.rows

Retired == \A t \in Tables : RetiredNames(t)

CatalogPhase ==
    /\ Fresh \/ Retired
    /\ meta.available => Retired
    /\ meta.available /\ meta.window = "open" => Published
    /\ rollback = "aliased" => Published
    /\ cleanup = "dropping" => meta.available /\ meta.window = "past"
    /\ run \in {"synced", "upserted", "ready", "aliased", "marked"} =>
         Fresh /\ release \in catalog[Documents].staging.rows
    /\ run = "swapped" => Published /\ release \in catalog[Documents].live.rows
    /\ run = "reverting" => Fresh \/ Published

IndexPhase ==
    /\ collection.prev \in {Absent, Holding({0})}
    /\ alias # "none" => collection[alias].there
    /\ run \in {"wiping", "loading", "synced", "upserted", "ready"} => alias # "next"
    /\ run \in {"aliased", "marked", "swapped"} => alias = "next"
    /\ run \in {"upserted", "ready", "aliased", "marked", "swapped"} =>
         collection.next.rows \subseteq {release}
    /\ rollback = "aliased" => alias = "prev"

MetaPhase ==
    /\ StatusMatchesActive
    /\ run = "swapped" => meta.active = "next"
    /\ run # "idle" => release # 0

IInv == TypeOK /\ Exclusive /\ CatalogPhase /\ IndexPhase /\ MetaPhase

\* Facts about the phases.
LEMMA DocumentsTable == Documents \in Staged /\ Documents \in Created /\ Documents \in Tables
BY TablesAssumption

LEMMA PhasesDiffer == (Published => Retired) /\ ~(Fresh /\ Retired)
BY DocumentsTable DEF Published, PublishedNames, Retired, RetiredNames, Fresh, FreshNames

LEMMA PhasesKept ==
    ASSUME UNCHANGED catalog
    PROVE  (Fresh' <=> Fresh) /\ (Published' <=> Published) /\ (Retired' <=> Retired)
BY DEF Published, PublishedNames, Retired, RetiredNames, Fresh, FreshNames

LEMMA PhaseInit == TypeOK /\ Init => IInv
<1> SUFFICES ASSUME TypeOK, Init PROVE IInv
  OBVIOUS
<1>1. Fresh
  BY DocumentsTable, TablesAssumption DEF Fresh, FreshNames, Init, Holding, Absent
<1> QED BY <1>1 DEF Init, IInv, Exclusive, CatalogPhase, IndexPhase, MetaPhase,
                    StatusMatchesActive, Holding, Absent

\* The document loop only runs in a fresh catalog, and leaves it fresh.
LEMMA SyncKeepsFresh ==
    ASSUME IInv, SyncStagingTables
    PROVE  Fresh /\ Fresh' /\ release \in catalog'[Documents].staging.rows
<1> USE DEF IInv
<1>1. PICK written \in SUBSET Staged :
        /\ Documents \in written
        /\ \A t \in written : catalog[t].staging.there
        /\ catalog' = [t \in Tables |->
                         IF t \in written
                         THEN [catalog[t] EXCEPT !.staging = Holding(@.rows \cup {release})]
                         ELSE catalog[t]]
  BY DEF SyncStagingTables
<1>2. Fresh
  BY <1>1, DocumentsTable DEF CatalogPhase, Retired, RetiredNames
<1>3. release # 0 /\ release \in Nat
  BY DEF SyncStagingTables, MetaPhase, TypeOK
<1>4. ASSUME NEW t \in Tables
      PROVE  /\ catalog'[t].live = catalog[t].live
             /\ catalog'[t].old = catalog[t].old
             /\ catalog'[t].staging = IF t \in written
                                      THEN Holding(catalog[t].staging.rows \cup {release})
                                      ELSE catalog[t].staging
  <2>1. catalog[t] \in Names
    BY DEF TypeOK
  <2>2. catalog'[t] = IF t \in written
                      THEN [catalog[t] EXCEPT !.staging = Holding(@.rows \cup {release})]
                      ELSE catalog[t]
    BY <1>1
  <2> QED BY <2>1, <2>2, <1>3, SyncedNames
<1>5. ASSUME NEW t \in Tables PROVE FreshNames(t)'
  BY <1>1, <1>2, <1>4 DEF Fresh, FreshNames, Holding
<1>6. catalog'[Documents].staging.rows = catalog[Documents].staging.rows \cup {release}
  <2>1. catalog'[Documents].staging = Holding(catalog[Documents].staging.rows \cup {release})
    BY <1>1, <1>4, DocumentsTable
  <2> QED BY <2>1 DEF Holding
<1> QED BY <1>2, <1>3, <1>4, <1>5, <1>6, DocumentsTable DEF Fresh

\* The swap publishes a fresh catalog.
LEMMA SwapPublishes ==
    ASSUME IInv, SwapTables
    PROVE  Fresh /\ Published' /\ release \in catalog'[Documents].live.rows
<1>1. Fresh /\ release \in catalog[Documents].staging.rows
  BY DEF IInv, CatalogPhase, SwapTables
<1>2. ASSUME NEW t \in Tables
      PROVE  /\ catalog'[t].live = catalog[t].staging
             /\ catalog'[t].staging = Absent
             /\ catalog'[t].old = IF catalog[t].live.there THEN catalog[t].live ELSE catalog[t].old
  BY DEF SwapTables, Swapped
<1>3. ASSUME NEW t \in Tables PROVE PublishedNames(t)'
  BY <1>1, <1>2 DEF Fresh, FreshNames, PublishedNames, Absent
<1> QED BY <1>1, <1>2, <1>3, DocumentsTable DEF Fresh, FreshNames, Published

\* The rollback takes a published catalog back to a fresh one.
LEMMA RollbackFreshens ==
    ASSUME IInv, RollbackTables
    PROVE  Published /\ Fresh'
<1>1. Published
  BY DEF IInv, CatalogPhase, RollbackTables
<1>2. ASSUME NEW t \in Tables
      PROVE  /\ catalog'[t].live = catalog[t].old
             /\ catalog'[t].staging = IF catalog[t].live.there THEN catalog[t].live
                                                               ELSE catalog[t].staging
             /\ catalog'[t].old = Absent
  BY DEF RollbackTables, Restored
<1>3. ASSUME NEW t \in Tables PROVE FreshNames(t)'
  BY <1>1, <1>2 DEF Published, PublishedNames, FreshNames, Absent
<1> QED BY <1>1, <1>2, <1>3, DocumentsTable DEF Fresh, Published, PublishedNames

LEMMA DropKeepsRetired ==
    ASSUME TypeOK, Retired, NEW d \in Tables, DropOld(d)
    PROVE  Retired'
<1>1. ASSUME NEW t \in Tables
      PROVE  catalog'[t].live = catalog[t].live /\ catalog'[t].staging = catalog[t].staging
  <2>1. catalog[t] \in Names
    BY DEF TypeOK
  <2>2. catalog'[t] = IF t = d THEN [catalog[t] EXCEPT !.old = Absent] ELSE catalog[t]
    BY DEF DropOld, TypeOK
  <2> QED BY <2>1, <2>2, DroppedNames
<1> QED BY <1>1 DEF Retired, RetiredNames

LEMMA PhaseStep ==
    ASSUME Serial, Runbook, IInv, [Next]_vars
    PROVE  IInv'
<1>1. TypeOK /\ TypeOK'
  BY TypeStep DEF IInv
<1> SUFFICES Exclusive' /\ CatalogPhase' /\ IndexPhase' /\ MetaPhase'
  BY <1>1 DEF IInv
<1> USE DEF IInv, Exclusive, CatalogPhase, IndexPhase, MetaPhase, StatusMatchesActive
<1>2. CASE IngestionRun
  <2>1. CASE DropStagingCollection
    <3>1. collection'.next = Absent /\ collection'.prev = collection.prev
      BY <2>1, <1>1 DEF DropStagingCollection, TypeOK
    <3>2. alias \in {"none", "next", "prev"} /\ release \in Nat /\ release' = release + 1
      BY <2>1, <1>1 DEF DropStagingCollection, TypeOK
    <3>3. Exclusive' /\ MetaPhase'
      BY <2>1, <3>2 DEF DropStagingCollection, AllIdle
    <3>4. CatalogPhase'
      BY <2>1, PhasesKept DEF DropStagingCollection, AllIdle
    <3>5. IndexPhase'
      BY <2>1, <3>1, <3>2 DEF DropStagingCollection, AllIdle
    <3> QED BY <3>3, <3>4, <3>5
  <2>2. CASE CreateStagingCollection
    <3>1. collection'.next.there /\ collection'.prev = collection.prev
      BY <2>2, <1>1 DEF CreateStagingCollection, TypeOK, Holding
    <3>2. IndexPhase'
      BY <2>2, <1>1, <3>1 DEF CreateStagingCollection, TypeOK
    <3> QED BY <2>2, <3>2, PhasesKept DEF CreateStagingCollection
  <2>3. CASE SyncStagingTables
    BY <2>3, <1>1, SyncKeepsFresh, PhasesDiffer DEF SyncStagingTables
  <2>4. CASE UpsertChunks
    <3>1. PICK points \in {{}, {release}} :
            collection' = [collection EXCEPT !.next = Holding(points)]
      BY <2>4 DEF UpsertChunks
    <3>2. /\ collection'.next = Holding(points)
          /\ collection'.prev = collection.prev
      BY <3>1, <1>1 DEF TypeOK
    <3>3. collection'.next.there /\ collection'.next.rows \subseteq {release}
      BY <3>1, <3>2 DEF Holding
    <3>4. IndexPhase'
      BY <2>4, <1>1, <3>2, <3>3 DEF UpsertChunks, TypeOK
    <3> QED BY <2>4, <3>4, PhasesKept DEF UpsertChunks
  <2>5. CASE SmokeTestsPass
    BY <2>5, <1>1, PhasesKept, PhasesDiffer DEF SmokeTestsPass
  <2>6. CASE MoveAlias
    BY <2>6, <1>1, PhasesKept, PhasesDiffer DEF MoveAlias, AliasMovesTo
  <2>7. CASE MarkQdrantDone
    BY <2>7, <1>1, PhasesKept, PhasesDiffer DEF MarkQdrantDone, SetStatus, TypeOK
  <2>8. CASE SwapTables
    <3>1. Published' /\ Retired' /\ release \in catalog'[Documents].live.rows
      <4>1. Published' => Retired'
        BY PhasesDiffer, PTL
      <4> QED BY <2>8, <4>1, SwapPublishes
    <3>2. /\ meta' = [active |-> "next", status |-> "postgres_done",
                      available |-> TRUE, window |-> "open"]
          /\ run' \in {"swapped", "reverting"}
      BY <2>8 DEF SwapTables
    <3>3. CatalogPhase'
      BY <2>8, <3>1, <3>2 DEF SwapTables
    <3>4. IndexPhase'
      BY <2>8, <3>2 DEF SwapTables
    <3>5. Exclusive' /\ MetaPhase'
      BY <2>8, <3>2 DEF SwapTables
    <3> QED BY <3>3, <3>4, <3>5
  <2>9. CASE SwapFails
    BY <2>9, <1>1, PhasesKept, PhasesDiffer DEF SwapFails
  <2>10. CASE RevertAlias
    BY <2>10, <1>1, PhasesKept, PhasesDiffer DEF RevertAlias, AliasMovesTo
  <2>11. CASE MarkComplete
    BY <2>11, <1>1, PhasesKept, PhasesDiffer DEF MarkComplete, SetStatus, TypeOK
  <2>12. CASE RunStops
    BY <2>12, <1>1, PhasesKept, PhasesDiffer DEF RunStops
  <2> QED BY <1>2, <2>1, <2>2, <2>3, <2>4, <2>5, <2>6, <2>7, <2>8, <2>9, <2>10, <2>11, <2>12 DEF IngestionRun
<1>3. CASE Rollback
  <2>1. CASE RollbackAlias
    BY <2>1, <1>1, PhasesKept, PhasesDiffer DEF RollbackAlias, AliasMovesTo, AllIdle
  <2>2. CASE RollbackTables
    BY <2>2, <1>1, RollbackFreshens, PhasesDiffer DEF RollbackTables, TypeOK
  <2>3. CASE RollbackStops
    BY <2>3, <1>1, PhasesKept, PhasesDiffer DEF RollbackStops
  <2> QED BY <1>3, <2>1, <2>2, <2>3 DEF Rollback
<1>4. CASE Cleanup
  <2>1. CASE CleanupReads
    BY <2>1, <1>1, PhasesKept, PhasesDiffer DEF CleanupReads, AllIdle
  <2>2. ASSUME NEW d \in Tables, DropOld(d)
        PROVE  Exclusive' /\ CatalogPhase' /\ IndexPhase' /\ MetaPhase'
    <3>1. Retired /\ Retired'
      BY <2>2, <1>1, DropKeepsRetired DEF DropOld
    <3> QED BY <2>2, <3>1, PhasesDiffer DEF DropOld
  <2>3. CASE CleanupCloses
    BY <2>3, <1>1, PhasesKept, PhasesDiffer DEF CleanupCloses, TypeOK
  <2>4. CASE CleanupStops
    BY <2>4, <1>1, PhasesKept, PhasesDiffer DEF CleanupStops
  <2> QED BY <1>4, <2>1, <2>2, <2>3, <2>4 DEF Cleanup
<1>5. CASE WindowPasses
  BY <1>5, <1>1, PhasesKept, PhasesDiffer DEF WindowPasses, TypeOK
<1>6. CASE UNCHANGED vars
  BY <1>6, PhasesKept DEF vars
<1> QED BY <1>2, <1>3, <1>4, <1>5, <1>6 DEF Next

\* Under the serial schedule and the runbook every reachable state is in one of
\* the phases, with the index and the metadata that go with it.
THEOREM PhasesInvariant ==
    ASSUME Serial, Runbook
    PROVE  Spec => []IInv
<1>1. Init => IInv
  BY TypeInit, PhaseInit
<1>2. IInv /\ [Next]_vars => IInv'
  BY PhaseStep
<1> QED BY <1>1, <1>2, PTL DEF Spec

\* What the tools read is there, whatever fails between the procedures' steps.
THEOREM TablesServed ==
    ASSUME Serial, Runbook
    PROVE  Spec => []ServingTablesStay
<1>1. IInv => ServingTablesStay
  BY TablesAssumption DEF IInv, CatalogPhase, Fresh, FreshNames, Retired, RetiredNames,
                          ServingTablesStay
<1> QED BY <1>1, PhasesInvariant, PTL

\* An offered rollback can be carried out, and goes back to older rows.
THEOREM RollbackIsReady ==
    ASSUME Serial, Runbook
    PROVE  Spec => []RollbackReady
<1>1. ASSUME IInv PROVE RollbackReady
  <2> SUFFICES ASSUME Published PROVE RollbackReady
    BY <1>1 DEF IInv, CatalogPhase, RollbackReady
  <2>1. \A t \in Created : catalog[t].old.there
    BY TablesAssumption DEF Published, PublishedNames
  <2>2. catalog[Documents].old.rows = {0}
    BY DEF Published, Holding
  <2>3. catalog[Documents].live.rows \in SUBSET Nat
    <3>1. catalog[Documents].live \in Relation
      BY <1>1, DocumentsTable, NamesFields DEF IInv, TypeOK
    <3> QED BY <3>1, RelationRows
  <2>4. 0 \notin catalog[Documents].live.rows
    BY DEF Published
  <2> QED BY <2>1, <2>2, <2>3, <2>4 DEF RollbackReady
<1> QED BY <1>1, PhasesInvariant, PTL

\* The two metadata columns agree at every step.
THEOREM MetadataAgrees ==
    ASSUME Serial, Runbook
    PROVE  Spec => []StatusMatchesActive
<1>1. IInv => StatusMatchesActive
  BY DEF IInv, MetaPhase
<1> QED BY <1>1, PhasesInvariant, PTL

\* "complete" is only recorded over an aligned index and tables.
THEOREM CompleteIsAligned ==
    ASSUME Serial, Runbook
    PROVE  Spec => CompleteMeansAligned
<1> DEFINE Aligned == meta.status # "complete" /\ meta'.status = "complete" =>
                        /\ alias' = "next"
                        /\ Served'.rows \subseteq catalog'[Documents].live.rows
<1>1. IInv /\ [Next]_vars => [Aligned]_vars
  <2> SUFFICES ASSUME IInv, Next, meta.status # "complete", meta'.status = "complete"
               PROVE  alias' = "next" /\ Served'.rows \subseteq catalog'[Documents].live.rows
    OBVIOUS
  <2>1. MarkComplete
    <3>1. meta \in [active : {"sltda_documents", "next", "prev"}, status : Statuses,
                    available : BOOLEAN, window : Windows]
      BY DEF IInv, TypeOK
    <3>2. CASE IngestionRun
      BY <3>1, <3>2 DEF IngestionRun, DropStagingCollection, CreateStagingCollection,
         SyncStagingTables, UpsertChunks, SmokeTestsPass, MoveAlias, MarkQdrantDone, SetStatus,
         SwapTables, SwapFails, RevertAlias, RunStops
    <3>3. CASE Rollback
      BY <3>1, <3>3 DEF Rollback, RollbackAlias, RollbackTables, RollbackStops
    <3>4. CASE Cleanup
      BY <3>1, <3>4 DEF Cleanup, CleanupReads, DropOld, CleanupCloses, CleanupStops
    <3>5. CASE WindowPasses
      BY <3>1, <3>5 DEF WindowPasses
    <3> QED BY <3>2, <3>3, <3>4, <3>5 DEF Next
  <2> QED BY <2>1 DEF MarkComplete, IInv, CatalogPhase, IndexPhase, Served
<1> QED BY <1>1, PhasesInvariant, PTL DEF CompleteMeansAligned, Spec

-----------------------------------------------------------------------------
(***************************************************************************)
(* Refinement: each statement of the three procedures is a step of the     *)
(* abstract publication, or none.                                          *)
(***************************************************************************)
LEMMA RefinedInit == Init => BG!Init
<1> SUFFICES ASSUME Init PROVE BG!Init
  OBVIOUS
<1>1. catalog[Documents].live = Holding({0}) /\ catalog[Documents].old = Absent
  BY DocumentsTable DEF Init
<1>2. Served = Absent \/ Served = Holding({0})
  BY DEF Init, Served
<1> QED BY <1>1, <1>2 DEF BG!Init, BG!Absent, Holding, Absent

\* What an absent index or table looks like, and the only content the previous
\* collection can have.
LEMMA AbsentRelation ==
    ASSUME NEW r \in Relation, ~r.there
    PROVE  r = Absent
BY DEF Relation

LEMMA PreviousIsDeployed ==
    ASSUME IInv, collection.prev.there
    PROVE  collection.prev = Holding({0})
BY DEF IInv, IndexPhase, Absent

LEMMA RefinedStep ==
    ASSUME Serial, Runbook, IInv, [Next]_vars
    PROVE  [BG!Next]_(BG!vars)
<1> DEFINE tables   == catalog[Documents].live
           retained == catalog[Documents].old
<1>1. CASE UNCHANGED <<Served, tables, retained>>
  BY <1>1 DEF BG!vars
<1>2. CASE DropStagingCollection
  <2>1. tables' = tables /\ retained' = retained
    BY <1>2 DEF DropStagingCollection
  <2>2. CASE alias = "next"
    <3>1. Served.there /\ Served' = Absent
      BY <1>2, <2>2 DEF DropStagingCollection, IInv, IndexPhase, Served
    <3> QED BY <2>1, <3>1 DEF BG!Next, BG!Lose, BG!Absent, Absent
  <2>3. CASE alias # "next"
    <3>1. Served' = Served
      BY <1>2, <2>3 DEF DropStagingCollection, Served, IInv, TypeOK
    <3> QED BY <2>1, <3>1, <1>1
  <2> QED BY <2>2, <2>3
<1>3. CASE CreateStagingCollection \/ UpsertChunks
  <2>1. alias # "next" /\ alias' = alias /\ catalog' = catalog /\ collection'.prev = collection.prev
    BY <1>3 DEF CreateStagingCollection, UpsertChunks, IInv, IndexPhase, TypeOK
  <2>2. Served' = Served
    BY <2>1 DEF Served, IInv, TypeOK
  <2> QED BY <2>1, <2>2, <1>1
<1>4. CASE SyncStagingTables
  <2>1. PICK written \in SUBSET Staged :
          catalog' = [t \in Tables |->
                        IF t \in written
                        THEN [catalog[t] EXCEPT !.staging = Holding(@.rows \cup {release})]
                        ELSE catalog[t]]
    BY <1>4 DEF SyncStagingTables
  <2>2. catalog[Documents] \in Names /\ release \in Nat
    BY DocumentsTable DEF IInv, TypeOK
  <2>3. tables' = tables /\ retained' = retained
    BY <2>1, <2>2, DocumentsTable, SyncedNames
  <2> QED BY <1>4, <2>3, <1>1 DEF SyncStagingTables, Served
<1>5. CASE MoveAlias
  <2>1. /\ Served' = collection.next
        /\ collection.next.there
        /\ collection.next.rows \subseteq {release}
        /\ release # 0
    BY <1>5 DEF MoveAlias, AliasMovesTo, Served, IInv, IndexPhase, MetaPhase
  <2>2. tables.rows = {0}
    BY <1>5 DEF MoveAlias, IInv, CatalogPhase, Fresh, Holding
  <2>3. tables' = tables /\ retained' = retained
    BY <1>5 DEF MoveAlias
  <2> QED BY <2>1, <2>2, <2>3 DEF BG!Next, BG!Advance
<1>6. CASE SwapTables
  <2>1. /\ Served = collection.next
        /\ Served' = Served
        /\ Served.there
        /\ Served.rows \subseteq {release}
        /\ release # 0
    BY <1>6 DEF SwapTables, Served, IInv, IndexPhase, MetaPhase
  <2>2. Fresh /\ release \in catalog[Documents].staging.rows
    BY <1>6 DEF SwapTables, IInv, CatalogPhase
  <2>3. /\ tables = Holding({0})
        /\ ~retained.there
        /\ catalog[Documents].staging.there
        /\ 0 \notin catalog[Documents].staging.rows
    BY <2>2, DocumentsTable DEF Fresh, FreshNames
  <2>4. tables' = catalog[Documents].staging /\ retained' = tables
    BY <1>6, <2>3, DocumentsTable DEF SwapTables, Swapped, Holding
  <2> QED BY <2>1, <2>2, <2>3, <2>4 DEF BG!Next, BG!Publish, Holding
<1>7. CASE RevertAlias \/ RollbackAlias
  <2>1. Served' = collection.prev /\ collection.prev.there /\ catalog' = catalog
    BY <1>7 DEF RevertAlias, RollbackAlias, AliasMovesTo, Served
  <2>2. Fresh \/ Published
    BY <1>7 DEF RevertAlias, RollbackAlias, IInv, CatalogPhase
  <2>3. tables = Holding({0}) \/ retained = Holding({0})
    BY <2>2 DEF Fresh, Published
  <2>4. Served' = tables \/ Served' = retained
    BY <2>1, <2>3, PreviousIsDeployed
  <2> QED BY <2>1, <2>4 DEF BG!Next, BG!Withdraw
<1>8. CASE RollbackTables
  <2>1. Published /\ alias = "prev" /\ collection.prev.there
    BY <1>8 DEF RollbackTables, IInv, CatalogPhase, IndexPhase
  <2>2. Served = Holding({0}) /\ retained = Holding({0}) /\ Served' = Served
    BY <1>8, <2>1, PreviousIsDeployed DEF RollbackTables, Served, Published
  <2>3. tables' = retained /\ retained' = Absent
    BY <1>8, DocumentsTable DEF RollbackTables, Restored
  <2> QED BY <2>2, <2>3 DEF BG!Next, BG!Restore, BG!Absent, Absent, Holding
<1>9. ASSUME NEW t \in Tables, DropOld(t) PROVE [BG!Next]_(BG!vars)
  <2>1. catalog[Documents] \in Names /\ retained \in Relation
    BY DocumentsTable, NamesFields DEF IInv, TypeOK
  <2>2. Served' = Served
    BY <1>9 DEF DropOld, Served
  <2>3. catalog'[Documents] = IF t = Documents THEN [catalog[Documents] EXCEPT !.old = Absent]
                                               ELSE catalog[Documents]
    BY <1>9, DocumentsTable DEF DropOld, IInv, TypeOK
  <2>4. tables' = tables /\ (retained' = Absent \/ retained' = retained)
    BY <2>1, <2>3, DroppedNames
  <2>5. CASE retained.there /\ retained' = Absent
    BY <2>2, <2>4, <2>5 DEF BG!Next, BG!Forget, BG!Absent, Absent
  <2>6. CASE retained' = retained
    BY <2>2, <2>4, <2>6, <1>1
  <2> QED BY <2>1, <2>4, <2>5, <2>6, AbsentRelation
<1>10. CASE \/ SmokeTestsPass \/ MarkQdrantDone \/ SwapFails \/ MarkComplete \/ RunStops
            \/ RollbackStops \/ CleanupReads \/ CleanupCloses \/ CleanupStops
            \/ WindowPasses \/ UNCHANGED vars
  <2>1. UNCHANGED <<collection, alias, catalog>>
    BY <1>10 DEF SmokeTestsPass, MarkQdrantDone, SwapFails, MarkComplete, RunStops,
       RollbackStops, CleanupReads, CleanupCloses, CleanupStops, WindowPasses, vars
  <2> QED BY <2>1, <1>1 DEF Served
<1> QED BY <1>2, <1>3, <1>4, <1>5, <1>6, <1>7, <1>8, <1>9, <1>10
        DEF Next, IngestionRun, Rollback, Cleanup

\* The three procedures, stopped anywhere, implement the abstract publication.
THEOREM Refinement ==
    ASSUME Serial, Runbook
    PROVE  Spec => ImplementsBlueGreen
<1>1. IInv /\ [Next]_vars => [BG!Next]_(BG!vars)
  BY RefinedStep
<1> QED BY <1>1, RefinedInit, PhasesInvariant, PTL DEF ImplementsBlueGreen, BG!Spec, Spec

-----------------------------------------------------------------------------
(***************************************************************************)
(* However the procedures overlap and whoever calls them: the invariant    *)
(* behind OneNamePerRun is that no name holds rows of a run that has not   *)
(* begun to write, so that the rows a run adds to the staging table stand  *)
(* nowhere else.                                                           *)
(***************************************************************************)
Apart(names) ==
    /\ names.live.rows \cap names.staging.rows = {}
    /\ names.live.rows \cap names.old.rows = {}
    /\ names.staging.rows \cap names.old.rows = {}

NotWritten(r) == r > release \/ (r = release /\ run \in {"wiping", "loading"})

Written(names) == \A r \in RowsOf(names) : ~NotWritten(r)

RowsInv ==
    /\ TypeOK
    /\ \A t \in Tables : Apart(catalog[t]) /\ Written(catalog[t])

LEMMA MovedApart ==
    ASSUME NEW n \in Names, Apart(n)
    PROVE  /\ Apart(Swapped(n)) /\ RowsOf(Swapped(n)) \subseteq RowsOf(n)
           /\ Apart(Restored(n)) /\ RowsOf(Restored(n)) \subseteq RowsOf(n)
BY DEF Apart, Swapped, Restored, RowsOf, Absent

LEMMA RowsInit == Init => RowsInv
<1> SUFFICES ASSUME Init PROVE RowsInv
  OBVIOUS
<1>1. ASSUME NEW t \in Tables
      PROVE  /\ catalog[t].live.rows \subseteq {0}
             /\ catalog[t].staging.rows = {}
             /\ catalog[t].old.rows = {}
  BY DEF Init, Holding, Absent
<1>2. release = 0 /\ run = "idle"
  BY DEF Init
<1> QED BY <1>1, <1>2, TypeInit DEF RowsInv, Apart, Written, NotWritten, RowsOf

\* A step that leaves the tables alone cannot make a written row unwritten.
LEMMA RowsKept ==
    ASSUME RowsInv, TypeOK', UNCHANGED catalog,
           \/ release' = release /\ (run' \in {"wiping", "loading"} => run \in {"wiping", "loading"})
           \/ release' = release + 1
    PROVE  RowsInv'
<1>1. release \in Nat
  BY DEF RowsInv, TypeOK
<1>2. ASSUME NEW t \in Tables, NEW r \in RowsOf(catalog[t]) PROVE ~NotWritten(r)'
  <2>1. catalog[t] \in Names
    BY DEF RowsInv, TypeOK
  <2>2. r \in Nat
    <3>1. /\ catalog[t].live.rows \in SUBSET Nat
          /\ catalog[t].staging.rows \in SUBSET Nat
          /\ catalog[t].old.rows \in SUBSET Nat
      BY <2>1, NamesFields, RelationRows
    <3> QED BY <3>1 DEF RowsOf
  <2>3. ~NotWritten(r)
    BY DEF RowsInv, Written
  <2> QED BY <1>1, <2>2, <2>3 DEF NotWritten
<1>3. ASSUME NEW t \in Tables PROVE Apart(catalog'[t]) /\ Written(catalog[t])'
  BY <1>2 DEF RowsInv, Written
<1> QED BY <1>3 DEF RowsInv

\* A step that gives each table some of its own rows back, apart.
LEMMA RowsMoved ==
    ASSUME RowsInv, TypeOK', UNCHANGED release,
           run' \in {"wiping", "loading"} => run \in {"wiping", "loading"},
           \A t \in Tables : /\ Apart(catalog'[t])
                             /\ RowsOf(catalog'[t]) \subseteq RowsOf(catalog[t])
    PROVE  RowsInv'
BY DEF RowsInv, Written, NotWritten

LEMMA RowsStep == RowsInv /\ [Next]_vars => RowsInv'
<1> SUFFICES ASSUME RowsInv, [Next]_vars PROVE RowsInv'
  OBVIOUS
<1>1. TypeOK /\ TypeOK'
  BY TypeStep DEF RowsInv
<1>2. CASE SyncStagingTables
  <2>1. PICK written \in SUBSET Staged :
          catalog' = [t \in Tables |->
                        IF t \in written
                        THEN [catalog[t] EXCEPT !.staging = Holding(@.rows \cup {release})]
                        ELSE catalog[t]]
    BY <1>2 DEF SyncStagingTables
  <2>2. /\ run = "loading" /\ run' = "synced"
        /\ release' = release /\ release \in Nat
    BY <1>1, <1>2 DEF SyncStagingTables, TypeOK
  <2>3. ASSUME NEW t \in Tables PROVE Apart(catalog[t])' /\ Written(catalog[t])'
    <3>1. catalog[t] \in Names /\ Apart(catalog[t]) /\ Written(catalog[t])
      BY <1>1 DEF TypeOK, RowsInv
    <3>2. release \notin RowsOf(catalog[t])
      BY <3>1, <2>2 DEF Written, NotWritten
    <3>3. CASE t \in written
      <4>1. /\ catalog'[t].live = catalog[t].live
            /\ catalog'[t].old = catalog[t].old
            /\ catalog'[t].staging = Holding(catalog[t].staging.rows \cup {release})
        <5>1. catalog'[t] = [catalog[t] EXCEPT !.staging = Holding(@.rows \cup {release})]
          BY <2>1, <3>3
        <5> QED BY <5>1, <3>1, <2>2, SyncedNames
      <4>2. catalog'[t].staging.rows = catalog[t].staging.rows \cup {release}
        BY <4>1 DEF Holding
      <4>3. Apart(catalog'[t])
        BY <4>1, <4>2, <3>1, <3>2 DEF Apart, RowsOf
      <4>4. RowsOf(catalog'[t]) = RowsOf(catalog[t]) \cup {release}
        BY <4>1, <4>2 DEF RowsOf
      <4> QED BY <4>3, <4>4, <3>1, <2>2 DEF Written, NotWritten
    <3>4. CASE t \notin written
      <4>1. catalog'[t] = catalog[t]
        BY <2>1, <3>4
      <4> QED BY <4>1, <3>1, <2>2 DEF Written, NotWritten
    <3> QED BY <3>3, <3>4
  <2> QED BY <1>1, <2>3 DEF RowsInv
<1>3. CASE SwapTables \/ RollbackTables
  <2>1. ASSUME NEW t \in Tables
        PROVE  Apart(catalog'[t]) /\ RowsOf(catalog'[t]) \subseteq RowsOf(catalog[t])
    <3>1. catalog[t] \in Names /\ Apart(catalog[t])
      BY <1>1 DEF TypeOK, RowsInv
    <3>2. catalog'[t] = Swapped(catalog[t]) \/ catalog'[t] = Restored(catalog[t])
      BY <1>3 DEF SwapTables, RollbackTables
    <3> QED BY <3>1, <3>2, MovedApart
  <2>2. release' = release /\ (run' \in {"wiping", "loading"} => run \in {"wiping", "loading"})
    BY <1>3 DEF SwapTables, RollbackTables
  <2> QED BY <1>1, <2>1, <2>2, RowsMoved
<1>4. ASSUME NEW d \in Tables, DropOld(d) PROVE RowsInv'
  <2>1. ASSUME NEW t \in Tables
        PROVE  Apart(catalog'[t]) /\ RowsOf(catalog'[t]) \subseteq RowsOf(catalog[t])
    <3>1. catalog[t] \in Names /\ Apart(catalog[t])
      BY <1>1 DEF TypeOK, RowsInv
    <3>2. catalog'[t] = IF t = d THEN [catalog[t] EXCEPT !.old = Absent] ELSE catalog[t]
      BY <1>1, <1>4 DEF DropOld, TypeOK
    <3>3. \/ catalog'[t] = catalog[t]
          \/ catalog'[t] = [live |-> catalog[t].live, staging |-> catalog[t].staging, old |-> Absent]
      BY <3>1, <3>2, DroppedNames
    <3> QED BY <3>1, <3>3 DEF Apart, RowsOf, Absent
  <2> QED BY <1>1, <1>4, <2>1, RowsMoved DEF DropOld
<1>5. CASE \/ DropStagingCollection \/ CreateStagingCollection \/ UpsertChunks
           \/ SmokeTestsPass \/ MoveAlias \/ MarkQdrantDone \/ SwapFails \/ RevertAlias
           \/ MarkComplete \/ RunStops \/ RollbackAlias \/ RollbackStops
           \/ CleanupReads \/ CleanupCloses \/ CleanupStops \/ WindowPasses \/ UNCHANGED vars
  <2>1. /\ UNCHANGED catalog
        /\ \/ release' = release /\ (run' \in {"wiping", "loading"} => run \in {"wiping", "loading"})
           \/ release' = release + 1
    BY <1>5 DEF DropStagingCollection, CreateStagingCollection, UpsertChunks,
       SmokeTestsPass, MoveAlias, MarkQdrantDone, SwapFails, RevertAlias,
       MarkComplete, RunStops, RollbackAlias, RollbackStops,
       CleanupReads, CleanupCloses, CleanupStops, WindowPasses, vars
  <2> QED BY <1>1, <2>1, RowsKept
<1> QED BY <1>2, <1>3, <1>4, <1>5 DEF Next, IngestionRun, Rollback, Cleanup

\* No interleaving of runs, rollbacks and clean-ups leaves the rows of one run
\* under two names of a table.
THEOREM RowsHaveOneName == Spec => []OneNamePerRun
<1>1. RowsInv => OneNamePerRun
  BY DEF RowsInv, Apart, OneNamePerRun
<1> QED BY <1>1, RowsInit, RowsStep, PTL DEF Spec

\* Only the clean-up loses rows: the renames that would overwrite a table fail.
THEOREM RowsSurvive == Spec => OnlyCleanupLosesRows
<1> DEFINE Kept == cleanup = "idle" =>
                     \A t \in Tables : RowsOf(catalog[t]) \subseteq RowsOf(catalog'[t])
<1>1. TypeOK /\ [Next]_vars => [Kept]_vars
  <2> SUFFICES ASSUME TypeOK, Next, cleanup = "idle", NEW t \in Tables
               PROVE  RowsOf(catalog[t]) \subseteq RowsOf(catalog'[t])
    OBVIOUS
  <2>1. /\ catalog[t] \in Names
        /\ ~catalog[t].live.there => catalog[t].live = Absent
        /\ ~catalog[t].staging.there => catalog[t].staging = Absent
        /\ ~catalog[t].old.there => catalog[t].old = Absent
    <3>1. catalog[t] \in Names
      BY DEF TypeOK
    <3> QED BY <3>1, NamesFields, AbsentRelation
  <2>2. CASE SyncStagingTables
    <3>1. PICK written \in SUBSET Staged :
            catalog' = [s \in Tables |->
                          IF s \in written
                          THEN [catalog[s] EXCEPT !.staging = Holding(@.rows \cup {release})]
                          ELSE catalog[s]]
      BY <2>2 DEF SyncStagingTables
    <3>2. CASE t \in written
      <4>1. catalog'[t] = [catalog[t] EXCEPT !.staging = Holding(@.rows \cup {release})]
        BY <3>1, <3>2
      <4>2. /\ catalog'[t].live = catalog[t].live
            /\ catalog'[t].old = catalog[t].old
            /\ catalog'[t].staging = Holding(catalog[t].staging.rows \cup {release})
        BY <4>1, <2>1, SyncedNames DEF TypeOK
      <4>3. catalog'[t].staging.rows = catalog[t].staging.rows \cup {release}
        BY <4>2 DEF Holding
      <4> QED BY <4>2, <4>3 DEF RowsOf
    <3>3. CASE t \notin written
      BY <3>1, <3>3
    <3> QED BY <3>2, <3>3
  <2>3. CASE SwapTables
    <3>1. catalog'[t] = Swapped(catalog[t]) /\ ~(catalog[t].live.there /\ catalog[t].old.there)
      BY <2>3 DEF SwapTables, SwapClashes
    <3> QED BY <3>1, <2>1 DEF Swapped, RowsOf, Absent
  <2>4. CASE RollbackTables
    <3>1. /\ catalog'[t] = Restored(catalog[t])
          /\ ~(catalog[t].live.there /\ catalog[t].staging.there)
      BY <2>4 DEF RollbackTables, RestoreClashes
    <3> QED BY <3>1, <2>1 DEF Restored, RowsOf, Absent
  <2>5. CASE UNCHANGED catalog
    BY <2>5
  <2>6. \/ SyncStagingTables \/ SwapTables \/ RollbackTables \/ UNCHANGED catalog
    BY DEF Next, IngestionRun, Rollback, Cleanup, DropStagingCollection,
       CreateStagingCollection, UpsertChunks, SmokeTestsPass, MoveAlias, MarkQdrantDone,
       SwapFails, RevertAlias, MarkComplete, RunStops, RollbackAlias, RollbackStops,
       CleanupReads, DropOld, CleanupCloses, CleanupStops, WindowPasses
  <2> QED BY <2>2, <2>3, <2>4, <2>5, <2>6
<1> QED BY <1>1, TypeCorrect, PTL DEF OnlyCleanupLosesRows, Spec

=============================================================================
