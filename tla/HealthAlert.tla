---------------------------- MODULE HealthAlert ----------------------------
(***************************************************************************)
(* health.py: the checks of several server instances, each of which looks  *)
(* at its components one after the other, and the Slack alert they gate    *)
(* through one row of system_metadata.  The row is read by one statement   *)
(* and written by another, each on its own.                                *)
(***************************************************************************)
EXTENDS Naturals, FiniteSets

CONSTANTS
    Checkers  \* what polls: each on an instance, one check at a time

ASSUME HealthAlertAssumption == IsFiniteSet(Checkers) /\ Checkers # {}

VARIABLES
    up,        \* the shared components that answer: "postgres" and "qdrant"
    cutover,   \* whether cutover_status tells of an incomplete cutover
    warning,   \* each checker's own: its pool, disk or files, or Gemini for it
    at,        \* where its check stands
    pgOk,      \* its local `pg_ok`
    overall,   \* its local `overall`
    stored,    \* last_slack_alert_status; NULL is read as "healthy"
    repeats,   \* for the properties: alerts ordered since stored last changed
    told       \* and the status a checker alerted, as long as it reports no other

alertVars == <<up, cutover, warning, at, pgOk, overall, stored, repeats, told>>
world == <<up, cutover, warning>>

-----------------------------------------------------------------------------
Statuses == {"healthy", "degraded", "unhealthy"}

AlertTypeOK ==
    /\ up \in SUBSET {"postgres", "qdrant"}
    /\ cutover \in BOOLEAN
    /\ warning \in [Checkers -> BOOLEAN]
    /\ at \in [Checkers -> {"idle", "qdrant", "metadata", "row", "write", "notify"}]
    /\ pgOk \in [Checkers -> BOOLEAN]
    /\ overall \in [Checkers -> Statuses]
    /\ stored \in Statuses
    /\ repeats \in Nat
    /\ told \in [Checkers -> Statuses]

AlertInit ==
    /\ up \in SUBSET {"postgres", "qdrant"}
    /\ cutover \in BOOLEAN
    /\ warning \in [Checkers -> BOOLEAN]
    /\ at = [c \in Checkers |-> "idle"]
    /\ pgOk = [c \in Checkers |-> FALSE]
    /\ overall = [c \in Checkers |-> "healthy"]
    /\ stored = "healthy"
    /\ repeats = 0
    /\ told = [c \in Checkers |-> "healthy"]

-----------------------------------------------------------------------------
\* Mutant: a status of its own for warnings.
DegradeToWarning(current) == IF current = "unhealthy" THEN "unhealthy" ELSE "warning"

\* _degrade.
Degrade(current) == IF current = "unhealthy" THEN "unhealthy" ELSE "degraded"

\* The check goes on to `next`.
Find(c, next, status) ==
    /\ at' = [at EXCEPT ![c] = next]
    /\ overall' = [overall EXCEPT ![c] = status]
    /\ UNCHANGED <<world, stored, repeats, told>>

\* A check ends; a checker that reports another status than it alerted has news.
Report(c, status) ==
    told' = [told EXCEPT ![c] = IF @ = status THEN @ ELSE "healthy"]

\* The reply is assembled, and the locals are gone.
Return(c) ==
    /\ at' = [at EXCEPT ![c] = "idle"]
    /\ pgOk' = [pgOk EXCEPT ![c] = FALSE]
    /\ overall' = [overall EXCEPT ![c] = "healthy"]

\* SELECT 1.
CheckPostgres(c) ==
    /\ at[c] = "idle"
    /\ pgOk' = [pgOk EXCEPT ![c] = "postgres" \in up]
    /\ Find(c, "qdrant", IF "postgres" \in up THEN "healthy" ELSE "unhealthy")

\* Qdrant answers or not; Gemini, the document store and the disk are then looked
\* at without another await.
CheckQdrant(c) ==
    /\ at[c] = "qdrant"
    /\ LET status == IF "qdrant" \in up THEN overall[c] ELSE "unhealthy"
       IN  Find(c, "metadata", IF warning[c] THEN Degrade(status) ELSE status)
    /\ UNCHANGED pgOk

\* Without PostgreSQL, at the first look, there is no alert.
ReturnWithoutPostgres(c) ==
    /\ at[c] = "metadata" /\ ~pgOk[c]
    /\ Return(c)
    /\ Report(c, overall[c])
    /\ UNCHANGED <<world, stored, repeats>>

\* The cutover status; a failing statement leaves it unknown, which is no trouble.
CheckMetadata(c) ==
    /\ at[c] = "metadata" /\ pgOk[c]
    /\ Find(c, "row", IF cutover /\ "postgres" \in up THEN Degrade(overall[c]) ELSE overall[c])
    /\ UNCHANGED pgOk

\* SELECT last_slack_alert_status.
ReadRow(c) ==
    /\ at[c] = "row" /\ overall[c] # "healthy"
    /\ "postgres" \in up
    /\ overall[c] # stored
    /\ at' = [at EXCEPT ![c] = "write"]
    /\ UNCHANGED <<world, pgOk, overall, stored, repeats, told>>

\* Already alerted, or the row cannot be read.
NoAlert(c) ==
    /\ at[c] = "row" /\ overall[c] # "healthy"
    /\ "postgres" \in up => overall[c] = stored
    /\ Return(c)
    /\ Report(c, overall[c])
    /\ UNCHANGED <<world, stored, repeats>>

\* The row becomes `status`; `ordered` alerts come with it.
Store(status, ordered) ==
    /\ stored' = status
    /\ repeats' = (IF stored = status THEN repeats ELSE 0) + ordered

\* Mutant: the row is not written before the alert.
WriteNothing(c) ==
    /\ at[c] = "write"
    /\ "postgres" \in up
    /\ Store(stored, 1)
    /\ at' = [at EXCEPT ![c] = "notify"]
    /\ UNCHANGED <<world, pgOk, overall, told>>

\* UPDATE, whatever the row says by now.
WriteRow(c) ==
    /\ at[c] = "write"
    /\ "postgres" \in up
    /\ Store(overall[c], 1)
    /\ at' = [at EXCEPT ![c] = "notify"]
    /\ UNCHANGED <<world, pgOk, overall, told>>

\* An exception, before or after PostgreSQL committed: no alert either way.
WriteFails(c) ==
    /\ at[c] = "write"
    /\ "postgres" \notin up
    /\ Return(c)
    /\ Report(c, overall[c])
    /\ Store(overall[c], 0) \/ UNCHANGED <<stored, repeats>>
    /\ UNCHANGED world

\* create_task(notify_health_changed): Slack answers or not.
Notify(c) ==
    /\ at[c] = "notify"
    /\ Return(c)
    /\ told' = [told EXCEPT ![c] = overall[c]]
    /\ UNCHANGED <<world, stored, repeats>>

\* The process ends with the row written and nobody told.
NotifyLost(c) ==
    /\ at[c] = "notify"
    /\ Return(c)
    /\ told' = [told EXCEPT ![c] = "healthy"]
    /\ UNCHANGED <<world, stored, repeats>>

\* Mutant: a healthy check leaves the row.
LeaveHealthy(c) ==
    /\ at[c] = "row" /\ overall[c] = "healthy"
    /\ Return(c)
    /\ Report(c, "healthy")
    /\ UNCHANGED <<world, stored, repeats>>

\* A healthy check resets the row, if it can.
ResetRow(c) ==
    /\ at[c] = "row" /\ overall[c] = "healthy"
    /\ Return(c)
    /\ Report(c, "healthy")
    /\ IF "postgres" \in up THEN Store("healthy", 0) ELSE UNCHANGED <<stored, repeats>>
    /\ UNCHANGED world

CheckHealth(c) ==
    \/ CheckPostgres(c) \/ CheckQdrant(c) \/ CheckMetadata(c)
    \/ ReturnWithoutPostgres(c) \/ ReadRow(c) \/ NoAlert(c)
    \/ WriteRow(c) \/ WriteFails(c) \/ Notify(c) \/ NotifyLost(c) \/ ResetRow(c)

\* Services fail and recover, cutovers stop and are mended, hosts fill up.
WorldChanges ==
    /\ \/ \E s \in SUBSET {"postgres", "qdrant"} : up' = s /\ UNCHANGED <<cutover, warning>>
       \/ cutover' = ~cutover /\ UNCHANGED <<up, warning>>
       \/ \E c \in Checkers :
            warning' = [warning EXCEPT ![c] = ~@] /\ UNCHANGED <<up, cutover>>
    /\ UNCHANGED <<at, pgOk, overall, stored, repeats, told>>

AlertNext == (\E c \in Checkers : CheckHealth(c)) \/ WorldChanges

\* Load balancers and monitors poll on, and a check's statements end.
AlertSpec == AlertInit /\ [][AlertNext]_alertVars /\ \A c \in Checkers : WF_alertVars(CheckHealth(c))

-----------------------------------------------------------------------------
\* Read and write of the row are not one step, so checks that overlap alert
\* one transition several times: as many as overlap, and no more.
RepeatsBounded == repeats <= Cardinality(Checkers)

\* When the world stands still, PostgreSQL answers and all checkers come to the
\* same, the row settles on it, whatever overlapping checks wrote late.
Rule(c) ==
    IF "qdrant" \notin up THEN "unhealthy"
    ELSE IF cutover \/ warning[c] THEN "degraded" ELSE "healthy"

RowSettles ==
    <>[][FALSE]_world =>
        \A s \in Statuses :
            <>[]("postgres" \in up /\ \A c \in Checkers : Rule(c) = s) => <>[](stored = s)

\* "Server health degraded / unhealthy (state-change only, not every poll)"
\* (notifications.py:10), "DB-backed, safe for multi-instance" (health.py:178):
\* a checker alerts a status again only after it has reported another.
AlertsOnChange ==
    [][\A c \in Checkers : at[c] = "write" /\ at'[c] = "notify" => told[c] # overall[c]]_alertVars
=============================================================================
