-------------------------- MODULE ArchiveAdmission --------------------------
(***************************************************************************)
(* The intake, review, admission and rollback of archive files             *)
(* (archive_intake_store.rs on PostgreSQL, with the HR screen's edits of   *)
(* hr_employee_store.rs).  Each request is a process of its own that runs  *)
(* one READ COMMITTED transaction.  A transaction whose reads can be stale *)
(* when its writes land is two actions, Begin (the statement snapshot) and *)
(* Commit (the writes); every other one holds the row locks it decides     *)
(* under and is a single action.                                           *)
(*                                                                         *)
(* An issue is a member of MappingIssue (required fields and columns that  *)
(* the mapping leaves unclear, which map-fields recomputes) or OtherIssue  *)
(* (the remaining guidance, and every anomaly).  A staged row is reduced   *)
(* to its business key, NoKey when a required field is missing.            *)
(***************************************************************************)
EXTENDS Naturals, Sequences, FiniteSets

CONSTANTS
    Intake,          \* archive intakes (one uploaded file each)
    Row,             \* row numbers of a file's staged rows
    Key,             \* business keys of the canonical tables
    NoKey,           \* the key of a row that lacks a required field
    NoIntake,        \* the source of a row entered by hand
    MappingIssue,    \* review issues about the field mapping
    OtherIssue,      \* every other review issue
    OfferedTargets,  \* database targets the uploaded files are classified to
    RollbackScopes,  \* "all" recovery points, or one selected by its id
    MaxInFlight,     \* bound: transactions running at the same time
    MaxJournal       \* bound: admissions plus rollbacks of one intake

Issue == MappingIssue \cup OtherIssue
StagingTargets == {"hr_employee", "hr_attendance", "payroll_input"}
Targets == StagingTargets \cup {"archive_blob", "needs_mapping"}

ASSUME ConstantsAssumption ==
    /\ NoIntake \notin Intake
    /\ NoKey \notin Key
    /\ MappingIssue \cap OtherIssue = {}
    /\ OfferedTargets \subseteq Targets
    /\ RollbackScopes \subseteq {"all", "one"}
    /\ MaxInFlight \in Nat
    /\ MaxJournal \in Nat

VARIABLES
    status,     \* archive_intake.status, "absent" before the upload
    ready,      \* archive_intake.postgres_ready
    target,     \* archive_intake.database_target
    period,     \* whether archive_intake.payroll_period is set
    issues,     \* the open rows of archive_intake_issue
    rowKey,     \* the staged rows' business keys
    verdict,    \* the staged rows' validation_status, "none" for no row
    canon,      \* the canonical tables
    point,      \* archive_admission_recovery_point, one per intake and key
    journal,    \* the audit rows of the intake, in commit order
    admitting,  \* intakes whose admission transaction is in flight
    snap,       \* the canonical rows each such admission's snapshot holds
    resolving,  \* <<intake, issue>> whose resolution is in flight
    seen,       \* the open issues each such resolution's snapshot holds
    skipped     \* history: the keys whose available recovery point some
                \* rollback of the intake was not asked to consume

intakeVars == <<status, ready, target, period>>
stagingVars == <<rowKey, verdict>>
vars == <<intakeVars, issues, stagingVars, canon, point, journal,
          admitting, snap, resolving, seen, skipped>>

Statuses == {"absent", "needs_guidance", "ready_for_staging", "archived",
             "admitted", "rejected"}
Open == {"pending_review", "valid"}
Verdicts == Open \cup {"none", "invalid", "admitted"}
Closed == {"admitted", "rejected"}

\* A canonical row: the intake it came from, whether the HR screen edited
\* it since, and its admission_status.  NoRow stands for no row.
CanonRow == [source : Intake \cup {NoIntake}, edited : BOOLEAN,
             adm : {"none", "admitted", "replaced", "reversed"}]
NoRow == [source |-> NoIntake, edited |-> FALSE, adm |-> "none"]
ManualRow == [source |-> NoIntake, edited |-> FALSE, adm |-> "admitted"]
Live(row) == row.adm \in {"admitted", "replaced"}

\* A recovery point.  Its action is 'insert' exactly when before = NoRow.
Point == [state : {"none", "available", "restored"}, before : CanonRow]
NoPoint == [state |-> "none", before |-> NoRow]

NoSnapshot == [k \in Key |-> NoRow]
LastOp(i) == IF journal[i] = <<>> THEN "none" ELSE journal[i][Len(journal[i])]

-----------------------------------------------------------------------------
(* Shared steps of the transactions *)

InFlight == Cardinality(admitting) + Cardinality(resolving)
HasWorker == InFlight < MaxInFlight

\* (Mutant: the refresh counts the mapping issues only.)
ReviewStatusOfMapping(t, open) ==
    IF open \cap MappingIssue # {} THEN "needs_guidance"
    ELSE IF t \in StagingTargets THEN "ready_for_staging" ELSE "archived"

\* What the review state becomes when `open` is the set of open issues.
ReviewStatus(t, open) ==
    IF open # {} THEN "needs_guidance"
    ELSE IF t \in StagingTargets THEN "ready_for_staging" ELSE "archived"
ReviewReady(t, open) == t \in StagingTargets /\ open = {}

RefreshReview(i, open) ==
    /\ status' = [status EXCEPT ![i] = ReviewStatus(target[i], open)]
    /\ ready' = [ready EXCEPT ![i] = ReviewReady(target[i], open)]

OpenRows(i) == {r \in Row : verdict[i][r] \in Open}
AdmissibleRows(i) == {r \in OpenRows(i) : rowKey[i][r] # NoKey}
AdmittedKeys(i) == {rowKey[i][r] : r \in AdmissibleRows(i)}

\* ON CONFLICT DO UPDATE refuses a statement that meets one key twice.
DistinctKeys(i) ==
    \A r, s \in AdmissibleRows(i) : rowKey[i][r] = rowKey[i][s] => r = s

Record(i, op) == journal' = [journal EXCEPT ![i] = Append(@, op)]

-----------------------------------------------------------------------------
(* Actions *)

\* "add": classify the file, stage its rows, open its issues.  A staging
\* target without rows always has an issue (no_rows_detected), a file
\* that could not be classified too (choose_business_area).
AddIntake(i, t, open, dated, rows, keys) ==
    /\ status[i] = "absent"
    /\ HasWorker
    /\ t \in StagingTargets /\ rows = {} => open \cap OtherIssue # {}
    /\ t \notin StagingTargets => rows = {} /\ open \cap MappingIssue = {}
    /\ t = "needs_mapping" => open # {}
    /\ t # "payroll_input" => dated
    /\ \A r \in Row \ rows : keys[r] = NoKey
    /\ target' = [target EXCEPT ![i] = t]
    /\ period' = [period EXCEPT ![i] = dated]
    /\ status' = [status EXCEPT ![i] = ReviewStatus(t, open)]
    /\ ready' = [ready EXCEPT ![i] = ReviewReady(t, open)]
    /\ issues' = [issues EXCEPT ![i] = open]
    /\ rowKey' = [rowKey EXCEPT ![i] = keys]
    /\ verdict' = [verdict EXCEPT ![i] =
          [r \in Row |-> IF r \in rows THEN "pending_review" ELSE "none"]]
    /\ UNCHANGED <<canon, point, journal, admitting, snap, resolving, seen, skipped>>

\* "resolve", up to the count of the issues still open: the UPDATE of the
\* issue holds that issue's row lock only.
ResolveBegin(i, q) ==
    /\ q \in issues[i]
    /\ <<i, q>> \notin resolving
    /\ HasWorker
    /\ resolving' = resolving \cup {<<i, q>>}
    /\ seen' = [seen EXCEPT ![i][q] = issues[i] \ {q}]
    /\ UNCHANGED <<intakeVars, issues, stagingVars, canon, point, journal,
                   admitting, snap, skipped>>

\* The UPDATE of the intake waits for its row lock, then writes the verdict
\* on the issues counted before the wait.
ResolveCommit(i, q) ==
    /\ <<i, q>> \in resolving
    /\ i \notin admitting
    /\ issues' = [issues EXCEPT ![i] = @ \ {q}]
    /\ RefreshReview(i, seen[i][q])
    /\ resolving' = resolving \ {<<i, q>>}
    /\ seen' = [seen EXCEPT ![i][q] = {}]
    /\ UNCHANGED <<target, period, stagingVars, canon, point, journal,
                   admitting, snap, skipped>>

ResolveAbort(i, q) ==
    /\ <<i, q>> \in resolving
    /\ resolving' = resolving \ {<<i, q>>}
    /\ seen' = [seen EXCEPT ![i][q] = {}]
    /\ UNCHANGED <<intakeVars, issues, stagingVars, canon, point, journal,
                   admitting, snap, skipped>>

\* "map-fields": under the intake's lock, whatever its status, recompute
\* the mapping issues from the operator's decisions.
StillOpen(i, unclear) == (issues[i] \ MappingIssue) \cup unclear

MapFields(i, unclear) ==
    /\ status[i] # "absent"
    /\ target[i] \in StagingTargets
    /\ i \notin admitting
    /\ \A q \in MappingIssue : <<i, q>> \notin resolving
    /\ HasWorker
    /\ issues' = [issues EXCEPT ![i] = StillOpen(i, unclear)]
    /\ RefreshReview(i, StillOpen(i, unclear))
    /\ UNCHANGED <<target, period, stagingVars, canon, point, journal,
                   admitting, snap, resolving, seen, skipped>>

\* "admit", up to the snapshot the before images are read from: it can
\* only commit later if some row is open and no key is met twice.
AdmitBegin(i) ==
    /\ i \notin admitting
    /\ HasWorker
    /\ status[i] = "ready_for_staging"
    /\ ready[i]
    /\ target[i] \in StagingTargets
    /\ target[i] = "payroll_input" => period[i]
    /\ OpenRows(i) # {}
    /\ DistinctKeys(i)
    /\ Len(journal[i]) < MaxJournal
    /\ admitting' = admitting \cup {i}
    /\ snap' = [snap EXCEPT ![i] = canon[target[i]]]
    /\ UNCHANGED <<intakeVars, issues, stagingVars, canon, point, journal,
                   resolving, seen, skipped>>

\* The canonical rows after intake i's upsert, from the rows then current.
Upserted(i) ==
    [k \in Key |->
        IF k \in AdmittedKeys(i)
        THEN [source |-> i, edited |-> FALSE,
              adm |-> IF canon[target[i]][k] = NoRow THEN "admitted"
                      ELSE "replaced"]
        ELSE canon[target[i]][k]]

\* (Mutant: ON CONFLICT DO NOTHING, a second admission keeps the old points.)
CapturedOnce(i) ==
    [k \in Key |-> IF k \in AdmittedKeys(i) /\ point[i][k].state = "none"
                   THEN [state |-> "available", before |-> snap[i][k]]
                   ELSE point[i][k]]

\* (Mutant: the before images are read after the upsert.)
CapturedAfterUpsert(i) ==
    [k \in Key |-> IF k \in AdmittedKeys(i)
                   THEN [state |-> "available", before |-> Upserted(i)[k]]
                   ELSE point[i][k]]

\* (Mutant: recovery points for overwritten rows only, none for inserts.)
CapturedReplacedOnly(i) ==
    [k \in Key |-> IF k \in AdmittedKeys(i) /\ snap[i][k] # NoRow
                   THEN [state |-> "available", before |-> snap[i][k]]
                   ELSE point[i][k]]

\* The recovery points captured with it, from the statement's snapshot.
Captured(i) ==
    [k \in Key |-> IF k \in AdmittedKeys(i)
                   THEN [state |-> "available", before |-> snap[i][k]]
                   ELSE point[i][k]]

\* (Mutant: the reject_invalid step is missing.)
DecidedWithoutReject(i) ==
    [r \in Row |-> IF r \in AdmissibleRows(i) THEN "admitted" ELSE verdict[i][r]]

\* The staged rows after admission: taken, or refused as incomplete.
Decided(i) ==
    [r \in Row |-> IF r \in AdmissibleRows(i) THEN "admitted"
                   ELSE IF r \in OpenRows(i) THEN "invalid"
                   ELSE verdict[i][r]]

AdmitCommit(i) ==
    /\ i \in admitting
    /\ canon' = [canon EXCEPT ![target[i]] = Upserted(i)]
    /\ point' = [point EXCEPT ![i] = Captured(i)]
    /\ verdict' = [verdict EXCEPT ![i] = Decided(i)]
    /\ status' = [status EXCEPT ![i] =
          IF OpenRows(i) = AdmissibleRows(i) THEN "admitted" ELSE "rejected"]
    /\ ready' = [ready EXCEPT ![i] = FALSE]
    /\ Record(i, "admission")
    /\ admitting' = admitting \ {i}
    /\ snap' = [snap EXCEPT ![i] = NoSnapshot]
    /\ UNCHANGED <<target, period, issues, rowKey, resolving, seen, skipped>>

\* A crash, a lost connection or a deadlock victim: nothing is written.
AdmitAbort(i) ==
    /\ i \in admitting
    /\ admitting' = admitting \ {i}
    /\ snap' = [snap EXCEPT ![i] = NoSnapshot]
    /\ UNCHANGED <<intakeVars, issues, stagingVars, canon, point, journal,
                   resolving, seen, skipped>>

Available(i) == {k \in Key : point[i][k].state = "available"}

\* The recovery points a rollback may be asked to consume.
Selections(i) ==
    (IF "all" \in RollbackScopes THEN {Available(i)} ELSE {})
    \cup (IF "one" \in RollbackScopes THEN {{k} : k \in Available(i)} ELSE {})

\* A 'replace' is restored if its row still exists, an 'insert' is reversed
\* if its row still exists and is not reversed already.
Reversible(i, k) ==
    LET row == canon[target[i]][k]
    IN IF point[i][k].before = NoRow THEN Live(row) ELSE row # NoRow

\* (Mutant: the rollback restores replaced rows and forgets inserted ones.)
UndoneReplacedOnly(i, keys) ==
    [k \in Key |-> IF k \notin keys \/ point[i][k].before = NoRow
                   THEN canon[target[i]][k] ELSE point[i][k].before]

\* The canonical rows after the rollback of `keys`.
Undone(i, keys) ==
    [k \in Key |->
        IF k \notin keys THEN canon[target[i]][k]
        ELSE IF point[i][k].before = NoRow
             THEN [canon[target[i]][k] EXCEPT !.adm = "reversed"]
             ELSE point[i][k].before]

Consumed(i, keys) ==
    [k \in Key |-> IF k \in keys THEN [point[i][k] EXCEPT !.state = "restored"]
                   ELSE point[i][k]]

Reopened(i) ==
    [r \in Row |-> IF verdict[i][r] = "admitted" THEN "valid" ELSE verdict[i][r]]

Rollback(i, selected) ==
    LET touched == {k \in selected : Reversible(i, k)}
    IN /\ i \notin admitting
       /\ HasWorker
       /\ status[i] \in Closed
       /\ target[i] \in StagingTargets
       /\ Len(journal[i]) < MaxJournal
       /\ selected \in Selections(i)
       /\ touched # {}
       /\ canon' = [canon EXCEPT ![target[i]] = Undone(i, touched)]
       /\ point' = [point EXCEPT ![i] = Consumed(i, touched)]
       /\ verdict' = [verdict EXCEPT ![i] = Reopened(i)]
       /\ status' = [status EXCEPT ![i] = "ready_for_staging"]
       /\ ready' = [ready EXCEPT ![i] = TRUE]
       /\ Record(i, "rollback")
       /\ skipped' = [skipped EXCEPT ![i] = @ \cup (Available(i) \ selected)]
       /\ UNCHANGED <<target, period, issues, rowKey, admitting, snap,
                      resolving, seen>>

\* The HR screen edits or deletes a live employee row, whoever it is from.
HrUpdate(k) ==
    /\ HasWorker
    /\ Live(canon["hr_employee"][k])
    /\ canon' = [canon EXCEPT !["hr_employee"][k].edited = TRUE]
    /\ UNCHANGED <<intakeVars, issues, stagingVars, point, journal,
                   admitting, snap, resolving, seen, skipped>>

HrRemove(k) ==
    /\ HasWorker
    /\ Live(canon["hr_employee"][k])
    /\ canon' = [canon EXCEPT !["hr_employee"][k] = NoRow]
    /\ UNCHANGED <<intakeVars, issues, stagingVars, point, journal,
                   admitting, snap, resolving, seen, skipped>>

-----------------------------------------------------------------------------
(* Specification *)

\* The HR roster may already hold employees entered by hand.
Init ==
    /\ status = [i \in Intake |-> "absent"]
    /\ ready = [i \in Intake |-> FALSE]
    /\ target = [i \in Intake |-> "needs_mapping"]
    /\ period = [i \in Intake |-> TRUE]
    /\ issues = [i \in Intake |-> {}]
    /\ rowKey = [i \in Intake |-> [r \in Row |-> NoKey]]
    /\ verdict = [i \in Intake |-> [r \in Row |-> "none"]]
    /\ \E roster \in SUBSET Key :
         canon = [t \in StagingTargets |-> [k \in Key |->
                    IF t = "hr_employee" /\ k \in roster
                    THEN ManualRow ELSE NoRow]]
    /\ point = [i \in Intake |-> [k \in Key |-> NoPoint]]
    /\ journal = [i \in Intake |-> <<>>]
    /\ admitting = {}
    /\ snap = [i \in Intake |-> NoSnapshot]
    /\ resolving = {}
    /\ seen = [i \in Intake |-> [q \in Issue |-> {}]]
    /\ skipped = [i \in Intake |-> {}]

Next ==
    \/ \E i \in Intake, t \in OfferedTargets, open \in SUBSET Issue,
          dated \in BOOLEAN, rows \in SUBSET Row,
          keys \in [Row -> Key \cup {NoKey}] :
        AddIntake(i, t, open, dated, rows, keys)
    \/ \E i \in Intake, unclear \in SUBSET MappingIssue : MapFields(i, unclear)
    \/ \E i \in Intake : AdmitBegin(i) \/ AdmitCommit(i) \/ AdmitAbort(i)
    \/ \E i \in Intake, selected \in SUBSET Key : Rollback(i, selected)
    \/ \E i \in Intake, q \in Issue :
        \/ ResolveBegin(i, q)
        \/ ResolveCommit(i, q)
        \/ ResolveAbort(i, q)
    \/ \E k \in Key : HrUpdate(k) \/ HrRemove(k)

Spec == Init /\ [][Next]_vars

-----------------------------------------------------------------------------
(* Invariants and action properties *)

\* Types, and the CHECK constraint of archive_intake: an intake is ready
\* for PostgreSQL only in status ready_for_staging and with a staging target.
TypeOK ==
    /\ status \in [Intake -> Statuses]
    /\ ready \in [Intake -> BOOLEAN]
    /\ target \in [Intake -> Targets]
    /\ period \in [Intake -> BOOLEAN]
    /\ issues \in [Intake -> SUBSET Issue]
    /\ rowKey \in [Intake -> [Row -> Key \cup {NoKey}]]
    /\ verdict \in [Intake -> [Row -> Verdicts]]
    /\ canon \in [StagingTargets -> [Key -> CanonRow]]
    /\ point \in [Intake -> [Key -> Point]]
    /\ journal \in [Intake -> Seq({"admission", "rollback"})]
    /\ admitting \in SUBSET Intake
    /\ snap \in [Intake -> [Key -> CanonRow]]
    /\ resolving \in SUBSET (Intake \X Issue)
    /\ seen \in [Intake -> [Issue -> SUBSET Issue]]
    /\ skipped \in [Intake -> SUBSET Key]
    /\ \A i \in Intake : ready[i] => /\ status[i] = "ready_for_staging"
                                     /\ target[i] \in StagingTargets

\* The audit trail of an intake alternates, admission first: no file is
\* admitted twice without a rollback in between, none is rolled back twice.
\* Nothing in admit_postgres_intake looks at the journal: it holds because
\* an admission decides every open row and only a rollback reopens rows.
JournalAlternates ==
    \A i \in Intake :
        /\ journal[i] # <<>> => journal[i][1] = "admission"
        /\ \A n \in 1..(Len(journal[i]) - 1) : journal[i][n + 1] # journal[i][n]

\* A closed intake has decided all its rows and its last operation was the
\* admission, whatever reviews, mappings and rollbacks ran before or beside.
ClosedIntakeDecided ==
    \A i \in Intake : status[i] \in Closed =>
        /\ LastOp(i) = "admission"
        /\ OpenRows(i) = {}

\* What was admitted can be taken back: while a staged row counts as
\* admitted, the recovery point of its key is available.
AdmittedRowsReversible ==
    \A i \in Intake, r \in Row : verdict[i][r] = "admitted" =>
        /\ rowKey[i][r] \in Key
        /\ point[i][rowKey[i][r]].state = "available"

\* Provenance: a canonical row that names an intake as its source sits in
\* that intake's table, under the key of one of its accepted staged rows,
\* and the intake holds a recovery point for it.  It must survive before
\* images that travel through snapshots and recovery points of others.
SourcedBy(i, t, k) ==
    /\ target[i] = t
    /\ point[i][k].state # "none"
    /\ \E r \in Row : rowKey[i][r] = k /\ verdict[i][r] \in {"valid", "admitted"}

Provenance ==
    \A t \in StagingTargets, k \in Key :
        LET i == canon[t][k].source IN i \in Intake => SourcedBy(i, t, k)

\* Once nothing of an intake is in flight, its review state is the one its
\* open issues call for (refresh_postgres_intake_review_state): never ready
\* with an issue open, never held back with none.
ReviewVerdictCurrent ==
    \A i \in Intake :
        /\ status[i] \notin Closed \cup {"absent"}
        /\ \A q \in Issue : <<i, q>> \notin resolving
        => status[i] = ReviewStatus(target[i], issues[i])

\* An issue that only a person can settle (any but an unclear mapping) is
\* never skipped: no file is past its review, admitted or rolled back while
\* one is open.  It must survive verdicts that are written on stale counts:
\* a resolution writes what it counted before it waited for the intake.
PastReview == {"ready_for_staging", "archived"} \cup Closed

ReviewNotSkipped ==
    \A i \in Intake : status[i] \in PastReview => issues[i] \cap OtherIssue = {}

\* The live rows that name an intake, and the keys it shares: another file
\* of the same table was admitted under the key too.
Own(i, row) == row.source = i /\ Live(row)
Contested(i, k) ==
    \E j \in Intake \ {i} : target[j] = target[i] /\ point[j][k].state # "none"

\* After its rollback, nothing an intake brought in is live, except under
\* keys that a rollback was not asked to restore, or that another file was
\* admitted under too.
RolledBackLeavesNothing ==
    \A i \in Intake : LastOp(i) = "rollback" =>
        \A t \in StagingTargets, k \in Key :
            Own(i, canon[t][k]) => k \in skipped[i] \/ Contested(i, k)

\* An available recovery point leads back to what was there before the
\* intake: its before image is not a live row of the same intake, unless a
\* rollback left the key out or another file was admitted under it.
BeforeImageForeign ==
    \A i \in Intake, k \in Key :
        point[i][k].state = "available" /\ Own(i, point[i][k].before) =>
            k \in skipped[i] \/ Contested(i, k)

\* As long as rows count as admitted, the intake stays in a status from
\* which the rollback endpoint accepts it.
AdmissionStaysReversible ==
    \A i \in Intake :
        (\E r \in Row : verdict[i][r] = "admitted") => status[i] \in Closed
=============================================================================
