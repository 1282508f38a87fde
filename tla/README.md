# Payroll (Bitween) - verification project

TLA+ models of this repository, the TLC runs that check them, and the theorems
proved about them with TLAPS. Paths are relative to the repository; a line
number names the code a statement is about. `PROJECT.json` maps every
definition to the lines it models.

## 1. The system

A Rust workspace (`crates/payroll-api`, `crates/workflow-core`) of libraries
and short-lived *store programs*, a Node preview server
(`apps/bitween-platform-ui/preview/server.js`) that starts one store program
per API call with `spawnSync`, a browser UI, a desktop shell, and a phone app
for workers (`apps/worker-mobile`). State is kept in PostgreSQL (migrations
001-008), in the RustFS object store, in local JSON files when no database is
configured, and in the phone's secure store. The deployment runs two replicas of
the API, so two requests on one intake, one template or one employee do overlap. In one
replica they do as well wherever a route awaits: the body of a request, an upload.

| component | state | operations | interacts with |
|---|---|---|---|
| Archive intake, review, admission, rollback (`archive_intake_store.rs`) | intake status, readiness, issues, staged rows, recovery points, audit; the canonical employee, attendance and payroll tables | add, resolve, map-fields, admit, rollback | HR store (same employee table), source sync (queues an item), migrations |
| HR employee store (`hr_employee_store.rs`) | employee rows | add, update, remove | archive admission |
| Source-file sync (`archive_intake_store.rs`, `server.js`) | sync items, derived RustFS objects | source-sync-plan, PUT, source-sync-complete, source-sync-fail | admission and rollback, RustFS |
| Migration runner (`postgres_repository.rs`) | migration ledger, schema, advisory lock | apply_required_migrations, in every store program and `postgres_migrate` | all stores |
| Offline queue of the worker app (`localQueue.ts`, `RequestScreen.tsx`, `App.tsx`) | queue in the secure store, login | submit, enqueue, sync, login, logout, restart | the mobile API, which is not in the repository |
| Workflow templates (`workflow_template_store.rs`) | template, versions with their steps and edges, data records | add/update/delete step, rollback, execute | local file or PostgreSQL; migrations |
| Session validation and policy (`auth_session*.rs`, `auth_policy.rs`, `bin/auth_session_validate.rs`, `bin/authz_decision.rs`) | revocations, audit rows, the environment of the server | validate, audit, decide, act, revoke, restart | every guarded route of the server; the platform view gives it the state of the cycle |
| Platform view model (`platform_view.rs`) | none; the deployment's flags | cycle state, readiness, next actions, workstream, gates, tiers | authorisation asks it for the state of the cycle |
| Business trips and permissions (`business_trip.rs`, `business_trip_permissions.rs`) | rows their callers keep, in today's or a former shape | migrate, view, move, match a source; who may see, manage, evaluate, close | documents share the permissions |
| Workflow documents (`workflow_forms.rs`, `workflow_follow_up.rs`, `workflow_inbox.rs`) | none; document, steps and to-dos are the caller's | check a form, make fields, plan follow-ups, sort into boxes | permissions; the store that acts on the answers is not in the repository |
| Payroll requests (`request.rs`, `policy*.rs`, `access.rs`, `execution_plan.rs`, `response.rs`, `run.rs`, `service.rs`) | the host's policy settings | parse, validate, authorise, plan, answer | calculators |
| Payroll calculators (`earnings.rs`, `social_insurance.rs`, `salary.rs`, `deductions.rs`, `attendance.rs`) | none | figures of a slip, deductions, attendance rows | requests, reconciliation |
| Ledger import and payroll run (`payroll_ledger_import.rs`, `payroll_run.rs`, `reconciliation.rs`) | the period's rows of `payroll_input`, the importer's intakes | import worker by worker, run | the archive's admission and rollback write the same rows |
| Invoice audit, EDI insurance, fixed and workplace hours, site benefits | none | compare and fill the cells of files | - |
| Preview server: routes, rate limit | rate-limit buckets | one store call per route | all stores |
| Preferences; audit worker; UI; deployment | - | one upsert; a report; presentation; configuration | - |

### What is hard

* **Admission and rollback.** One SQL statement takes its before images from
  the statement's snapshot and upserts rows that may have changed since. Recovery
  points are kept per intake and key, overwritten by the next admission, consumed
  singly or together, and name rows that other intakes or the HR screen rewrote.
  Review status is recomputed by transactions that need not see each other.
* **Source sync.** A loop of awaits over a plan read once. The request may die at
  any await, or hang in an upload; another request may hold the same items; admissions go on
  queuing, and their items carry the time at which they began, not that of their commit.
* **Migrations.** Programs of different builds start at once on a fresh
  database; any may die between the SQL, its ledger row and the COMMIT, or lose
  the answer to the COMMIT.
* **Offline queue.** Load, await, save-everything, by two functions and no lock; an entry that
  does not parse is replaced by an empty one in the middle of a load.
* **Workflow templates.** Load everything in many statements, change one thing,
  save everything by upsert, with no lock and no look at what is there.
* **Sessions.** Lookup, audit row, decision and store are four programs or
  statements; a revocation, an expiry or a restart may come between any two. The policy is a
  document somebody wrote, checked on loading, against a cycle described by flags that
  may contradict each other.
* **Trips and documents.** Rows outlive the crate that reads them: every function
  migrates what it is given, every predicate falls back to former names, and the two
  must agree. Forms, follow-ups, boxes and permissions are four derivations of one
  document.
* **Payroll.** Three engines round and tax the same pay differently; a request is
  validated and planned in separate calls under settings that may change; the rows of
  a month are written by an importer that commits each worker and by the archive.

The hazards, each at its line with the properties that watch it, are listed in
`PROJECT.json`.

### What would make each component correct

* Admission: a closed intake has decided every row; its audit alternates; what
  it admitted can be taken back; every canonical row can be traced to the file
  it came from; a rollback leaves nothing of the file behind; no issue that needs a person
  is skipped, and none that is settled holds a file back.
* Source sync: items settle in the order of operations that do not overlap, a
  workbook is never older than its operation, requests end, and an item fails
  only because its upload failed.
* Migrations: each migration runs once, ledger and schema agree, nobody starts
  before its own build's migrations are in, nobody waits for ever.
* Offline queue: what the worker was told is queued stays until the server's answer names it.
* Workflow templates: a published version can run (steps, no dangling edge, no
  cycle), numbers have no gaps, a version becomes final, a rollback restores what
  it names, the evidence of an execution is not lost and is there once.
* Sessions: nothing is done for a token that was revoked when its request arrived,
  nor without an audit row; a policy that loads grants nothing it then denies, and
  a contradictory cycle shuts what the workflow guards.
* Platform view: what it offers next is what the authorisation of that step allows.
* Trips: statuses and KPI fit, recorded moments stay, one source is one trip,
  migration comes to rest and takes nobody's trip away, rights nest.
* Documents: who must decide was asked, fields follow the form, the requester
  finds the document, rights nest and exclude, however an id is written.
* Payroll: the answers to one request fit together; figures can be given back to their
  engines, up to what rounding loses; what an importer printed is what a run reports; a run covers the month.

## 2. Modules

| module | models | theorems in |
|---|---|---|
| `ArchiveAdmission` | intake, review, admission, rollback on PostgreSQL; the HR screen's edits and deletions | `ArchiveAdmissionProofs` |
| `SourceSync` | the source-syncs route, the plan, RustFS, completion and failure | `SyncProofs` |
| `MigrationLedger` | the migration runner | `MigrationLedgerProofs` |
| `SchemaLedger` | what the runner promises its callers (abstract) | - |
| `OfflineQueue` | submission, enqueue, sync, login, restart of the worker app | `SyncProofs` |
| `WorkflowTemplates` | the template store on PostgreSQL: load, bootstrap, edits, execution, rollback, save | `WorkflowTemplatesProofs` |
| `AuthPolicy` | the operations, the built-in policy, the loading of a document, the decision | (operators) |
| `PlatformView` | cycle state, readiness, actions, workstream, gates from flags | (operators) |
| `AuthSession` | a request from arrival over validation, audit and decision to its store; revocation, clock, restart; composes `AuthPolicy` and `PlatformView` | `AuthSessionProofs` |
| `TripPermissions` | roles and scopes, every permission predicate of trips and documents | (operators) |
| `BusinessTrips` | migration, view, moves, matching of sources, over `TripPermissions` | `BusinessTripsProofs` |
| `DocumentFlow` | forms, fields, follow-ups, boxes, and a document's way through them, over `TripPermissions` | `DocumentFlowProofs` |
| `PayrollCalculation` | earnings, insurance, tax, deductions, attendance rows | `PayrollProofs` |
| `PayrollService` | a request from payload to plan and answer, over `PayrollCalculation` | `PayrollProofs` |
| `PayrollLedger` | import, archive admission and rollback of the month's rows, the run and its reconciliation, over `PayrollCalculation` | `PayrollProofs` |
| `PayrollMonth` | puts `PayrollService` and `PayrollLedger` side by side | `PayrollProofs` |

`MC*` modules hold what only TLC needs: symmetry sets, migration lists, deployments,
rows, forms, ledgers and payloads. `SourceSync` and `OfflineQueue` share no name, so that
one module can hold the proofs of both; they are the two parts that queue and send.
Definitions marked *(Mutant: ...)* are plausible bugs; nothing uses them except
the mutation of the definition below them, which must make TLC find the property
named in `PROJECT.json` violated.

### ArchiveAdmission

A request is a process and a READ COMMITTED transaction. Where a transaction
decides and writes under the row locks it holds (rollback under the intake's
`FOR UPDATE`, map-fields, the HR edits) it is one action. Where what it read can
be stale when it writes, it is two:

* `ResolveBegin` / `ResolveCommit`: the UPDATE of `archive_intake` counts the
  open issues in its own snapshot, then may wait for the intake's row lock.
  PostgreSQL re-evaluates the row it waited for, not the CTE that counted.
* `AdmitBegin` / `AdmitCommit`: the single admission statement reads
  `existing_rows` in its snapshot, while `ON CONFLICT DO UPDATE` takes the
  canonical row as it is when it gets to it. The intake's row is locked in
  between, hence `i \notin admitting` in every other writer of the intake.

`canon` is the three canonical tables, by target and business key; a row keeps
its `source_intake_id`, whether the HR screen edited it, and `admission_status`.
`point` is the recovery points, `journal` the audit rows in commit order,
`verdict` the `validation_status` of the staged rows. `skipped` is history: the keys whose
available point some rollback of the intake was not asked to restore (`record_ids`). A staged row is reduced to
its business key (`NoKey`: a required field is missing). Issues are two sets,
those that map-fields recomputes and the others. The intake statement is an
atomic INSERT; what the file classifier can produce is constrained in
`AddIntake` to the combinations `add_postgres_intake` produces.

Abstractions: the three admission functions and the three reversal functions
are one definition each, as they differ only in columns; employees added by hand
have keys of their own (`employee-<nanoseconds>`), so they appear in `Init` and
not as an action; `updated_by`, payload contents and row counts are left out.
`AdmitAbort` and `ResolveAbort` stand for everything that ends a transaction
without a commit: an SQL error, a deadlock victim, the server's 15 s timeout that
kills the store program. A commit whose caller timed out is a plain commit.

What a rollback owes is stated for any files, any choice of points and any overlap, with two
exceptions that the code makes and nothing else: a key in `skipped`, and a key that another file
of the table was admitted under too (`Contested`). Under those, a file's own row can come back:
A then B admit a key, A is rolled back, then B, and B's recovery point restores A's row as
live; or a point left out is overwritten by the next admission with the file's own row.

Bounds: `MaxInFlight` transactions at once, `MaxJournal` admissions plus
rollbacks per intake. Two transactions suffice for every race between a pair
of operations; four journal entries allow admit, roll back, admit again, roll back again.

### SourceSync

One item per admission or rollback. An operation is two actions: `Begin`, the BEGIN of its
transaction, and `Queue(t)`, its commit with the item; between them it waits for the intake's
row lock, so operations may commit in another order than they began. Items are numbered as they
are committed; `made[n]` is the transaction that made item n, which is what `created_at = now()`
records and `Older` compares. (Two transactions do not begin at the same microsecond.) An
operation is also the only writer of the staged rows' verdicts, in the transaction of its item:
the "version" of the rows is the number of items, and a workbook is
the version it shows. A request reads its plan in one statement, then per item
awaits the PUT, runs the completion and goes on, or reports a failure and
throws. `UploadFailed` may have stored the object. `Crash` loses the request.

`SettlesInOrder` is what is left of the order: an item settles after every item whose operation
was over before its own began. Operations that overlap are planned by BEGIN and may settle in either order.

`CompletionColumns` and `SyncColumns` are the columns the completion's UPDATE
names and the table has. The UPDATE names `synced_at`, which no migration
creates, so `CompletionAccepted` is false and every completion ends in the catch
block. The model computes this instead of stating it, so that a repaired list of
columns gives the model of the repaired code: with `synced_at` in `SyncColumns`
the completion and the rest of the loop come to life.

Fairness: weak, on `Complete` and `Fail`: a store program ends, or is killed after 15 s. None
on the upload: `putRustFsObject` (`server.js:946`) sets no timeout and does not listen for an
aborted response, so it may never settle and the request hangs. `RequestEnds` is therefore about
requests whose uploads are answered. None on `Plan`, `Begin`, `Queue`, `Crash`: nothing
makes anyone ask.

### MigrationLedger and SchemaLedger

Programs start as any build, restart as any other, and may stop anywhere. The
transaction of one migration is four steps under the advisory lock: lookup,
SQL, ledger row, COMMIT. `wrote` is what the open transaction holds; `Commit`
makes it visible; `CommitUnanswered` makes it visible and the program gives up.
`asked` is the snapshot of the lock statement and only the mutant uses it, to show
what READ COMMITTED is pinned for (`postgres_migration_begin_sql`).
Migrations of a build are a sequence of checksums; the run has an old build, one
with a migration more, and one in which an applied migration was edited.

`SchemaLedger` is the contract: one history of migrations that only grows, each
appended by a build that agrees with all before it, and a program let through
only when its build's list is in it. `KeepsPromise` is that module's
specification under the mapping *ready = the programs that are done, with their
build*.

Fairness: weak on a program's own steps, strong on `Acquire`. PostgreSQL queues
the waiters of a lock in order, so one that waits is served though the lock is
taken and freed over and over. No fairness on `Start`, `Abort`,
`CommitUnanswered`.

### OfflineQueue

`enqueueOfflineRequest` and `syncQueuedOfflineRequests` are each a load, an
await and a save of the whole queue; `form` and `sync` say between which two a
submission or a sync is. The busy flag of a form disables its own button only; leaving the tab
and coming back makes a new form, and a login starts a sync whatever the form is doing. So any
number of operations may be under way, and nothing in the model keeps them apart.

* The server is external: its answer names any subset of a batch, with statuses the app does not
  look at: `Remaining` drops whatever is named (`localQueue.ts:59`). What the server did with it is
  therefore not in the model, and what is promised is that a request stays until it is *named*.
  A POST or an answer may be lost.
* `Spoil` leaves an entry that is no array in JSON, from outside the app. A load then either counts
  it as empty (it parses to something else) or, in its catch block, saves an empty queue first
  (`localQueue.ts:22`): `EnqueueClears`, `SyncClears`, a save with a load before it that any other operation
  may come in between.
* `named`, `spoiled` and `crossed` are history; `crossed` holds the requests during whose own
  enqueue, from load to save, another operation was under way. Such a request may be lost, though the
  worker was told that it is queued, as may every request in an entry that was spoiled. What overlaps later loses nothing.

### WorkflowTemplates

A request is a store program: `LoadSteps` and `LoadRest` are the statements of
`load_postgres_store`, `Bootstrap` fills an empty store, and `AddStep` ...
`RollbackTemplate` each change the loaded template, publish it as the next
version and save it in one transaction (`Publish`, `SaveVersion`). `mem` is what
the program holds, `history` the version rows with their nodes, edges and data
records, `active` the template's `active_version`. `default_store` makes one
template and nothing makes another, so the store is that template.

* The load is split between the nodes and the edges of the active version. What
  comes after the edges (data records, history) goes with them, which leaves out
  loads that tear between those. They matter only when a version is saved again
  during the load, that is when requests overlap; then a record decides nothing,
  and a torn copy of an old version is checked for cycles and dangling edges by
  the rollback that would publish it.
* A save deletes and inserts the nodes and edges of its version and upserts its
  data records. Two records of one id are upserted in the order of the load, which
  `updated_at` leaves open between records of one transaction: `Upserted` keeps any.
* `DataRecord.key` is what an id is made of: the scope when a step is executed
  (`data_record_id`), the version row when it is read back
  (`load_postgres_data_records`). It is what `SameId` compares.
* `next` of a step is a set: no operation decides by the order. Titles, lanes,
  positions, owners and SLOs are left out; `Offered` holds the combinations of
  status and enabled flag that an edit may ask for, one that the code accepts and
  the table refuses (`ready`) among them.
* Two overlapping edits publish under one number and the later save replaces the version of the
  earlier. `Final(v)` says when that is over: v is published, and every request that had loaded the store
  before is done. From then on v stays (`HistoryImmutable`), whoever overlaps.
* `apart` remembers whether two requests ever overlapped. The properties about
  rollback and evidence are stated for runs in which none did.
* `Leave` is every request that saves nothing: reads, refused edits, failed
  statements, a killed program.

`MaxVersion` bounds the published versions: a bootstrap, an edit, and an edit or
rollback after it. `LoadSteps` is guarded by it too, so that a run does not load what it
could not save.

### AuthPolicy, PlatformView and AuthSession

A deployment is the environment the server was started with: token, verifier's settings,
policy document, resource scope, flags. `Arrive`, `Validate`, `Audit`, `Decide`, `Act` are the
steps of one request: the server spawns each program with `spawnSync` and waits. After the decision it
awaits the body (`readJsonBody`), and other requests run; they share nothing with this one but what
`Revoke`, `Tick` and `Stop`/`Start` change, which may come between any two steps.
`late` in a request remembers that its token was revoked when it arrived;
`audited`, that its audit row was written.

* A signature or hash is a yes or no of the token. What the claims, the
  discovery document and the assertion are checked for is modelled check by check.
* `AuditRowOk`: the verifier takes an `acr` in any case, the CHECK constraint of the
  audit table only the canonical spelling, so such a session verifies and is refused.
* `LoadPolicy` is the parser: a document's operations and roles are sequences, as
  written, since which of two spellings of one name counts is what
  `KeyOrderIrrelevant` is about. `Decision` keeps the order of the checks of
  `evaluate_authorization`; the answer is the first reason that applies.
* The sign counter is compared with the deployment's, which nothing updates; nothing
  under `src/` writes `jwt_revocation`, so `Revoke` is an external operator. The second
  validation, in the store's environment, is left out: nothing reads its outcome.
* One clock is assumed for server and database.

Bounds: three moments, three operations (two with different windows and one without),
all 128 settings of the seven cycle flags, and deployments that differ mostly in one thing at
a time for the checks of the verifier.

### TripPermissions, BusinessTrips and DocumentFlow

The crate is pure. In `BusinessTrips` the variables are the rows that callers keep
and their clock; `Import`, `Upgrade` and `Transition` are a caller that stores what
`migrate_business_trip_record` and `transition_trip_status` return. `Raw` is rows as they may be
handed in, of today and with former names, with statuses and KPI that do not fit.
`Field` is the fields that ids, tenants, people, places, times, status, KPI and source are read
from; `title`, `traveler_name`, the `escalation_*` fields and `follow_up_source_keys`, which the
migration carries along and nothing here depends on, are left out. Two trips are enough for matching sources.

In `DocumentFlow` the store that acts on the crate's answers is external: it is modelled
only by the inputs the functions take (status, steps, line). A text is the key it was
typed under, so that it can be traced from form to field; an amount parses or does
not; a date is a number. Two submissions and lines with repetition and with the
requester on them. The six forms are the built-in ones, and a form may be handed in with keys
that its schema does not have (`Form` is any set of forms).

An id is kept as it was written: `Padded` says which ids have blanks around them and what
`clean()` leaves (`Id`; an approver may be blank). The permissions and the follow-ups read the cleaned
document and caller (`Cleaned`, `Caller`), the inbox compares what is written (`supplied`,
`workflow_inbox.rs:191`). So a requester whose id the document has with blanks finds it in no box,
and `RequesterFindsDocument` is about one named as the document names them; that nobody finds a
document in two of the four shelves, and that whoever may approve finds it in the box to approve, is for everybody.
`Shadowed` is a key from outside the schema that `build_document_fields` searches earlier.

`Submit`, `Approve`, `Refuse` and the withdrawal are guarded by the permission
predicates, which `TripPermissions` has once for trips and documents.

### PayrollCalculation, PayrollService, PayrollLedger and PayrollMonth

`PayrollCalculation` computes the figures of pay with exact fractions where the code has f64
and rounds each where the code does (ties to even where it rounds to the nearest).
Amounts are whole won and the hours of a slip whole hours.

Attendance is different, since `attendance.rs:253` adds f64 hours and rounds their sum, in minutes,
to a unit. Times are in ticks of 1/30,000 hour: 500 to a minute, 3 to the fourth decimal of
an hour that `round_hours` keeps. A total that lies midway between two units goes up or down as the
last bits of the sum have it, and those depend on the order of the records: `Nearest` holds both
multiples, `RoundedHours` the hours that may come of a total, and the calculator returns one of the set
`InvoiceRows` for each worker. Every property holds for each of them.

`PayrollService` has the facade's calls: `ValidateRunPayload`, `AuthorizeRunRequest`,
`PlanRunRequest`, `AnswerRun`, and the two calculators. The facade keeps nothing; the
variables are what one caller holds. `ChangeSettings` may come between validation and plan.
The rows of the attendance calculator are grouped by worker (name key, else name); a row
adds up over the places of its records in the input, so that two equal records count twice.
`SlipAssumption`, `AttendanceAssumption` and `LedgerAssumption` say that figures are
whole, and hours of overtime not negative.

`PayrollLedger` is one period of `payroll_input`. The importer is `StartImport` (intake
looked up), `InsertIntake`, one `UpsertWorker` per worker, each committed on its own,
`FinishImport`; `FailImport` may come at any of them. `TakeBeforeImage`, `AdmitSheet` and
`RollBackSheet` are the archive's statements on the same rows, reduced to what they do to a row; as in
`ArchiveAdmission`, the before image is taken in the snapshot and the upsert meets the row as it is by
then, so an importer may write in between. A run reads the
rows in one statement and writes nothing, so it is the operator `ReconcilePeriod`.

The service and the ledger share no state; `PayrollMonth` holds both. `MCPayroll` lets one
take steps while the other is where it began, asks for a decision or a plan, and gives calculator inputs
under empty settings; the importers are interchangeable (`LikeImporters`).

## 3. Runs

| run | question | result |
|---|---|---|
| `admission_core` | two files, one key, hr and payroll targets, HR edits, two transactions at once | `JournalAlternates`, `ClosedIntakeDecided`, `AdmittedRowsReversible`, `Provenance`, `ReviewNotSkipped` hold |
| `admission_files` | two files, two rows, two keys, rollback of everything or of one point, two transactions at once | `RolledBackLeavesNothing`, `BeforeImageForeign` hold |
| `review_overlap` | does the review status always fit the open issues? | `ReviewVerdictCurrent` violated, see findings |
| `source_sync` | two requests, plans of two, three operations that begin and commit in any order, crashes, failures, hanging uploads | `SettlesInOrder`, `WorkbookShowsOperation`, `RequestEnds` hold |
| `migration_builds` | two programs, three builds, crashes, lost answers | the three invariants, `Settles` and the refinement hold |
| `offline_overlapping` | three requests, two syncs, any overlap, spoiled entries | `QueuedIsKept` holds |
| `workflow_edits` | two requests, three steps, three versions, any interleaving | `GraphsSound`, `HistoryGapless`, `HistoryImmutable`, and without overlap `RollbackRestores`, `EvidenceCarried` hold |
| `trips` | two trips from today's and former rows, viewers of every role | `KpiFollowsStatus`, `MigrationSettles`, `OneTripPerSource`, `RightsNest`, `StampsAreKept`, `NobodyLosesTheTrip` hold |
| `documents` | six forms with and without extra keys, three lines, ids with blanks, two submissions, staff on and off the line, administrators of two tenants | `DecidersWereAsked`, `FieldsFollowSchema`, `RequesterFindsDocument`, `DocumentRightsNest` hold |
| `auth_requests` | all settings of the cycle's flags, policy documents, verifier settings, revocation, expiry, restart | `ActsAreAccountedFor`, `NoDeadGrant`, `InconsistentCycleShuts`, `KeyOrderIrrelevant`, `ViewFitsCycle` hold |
| `payroll` | payloads, settings and callers; slips and attendance; a month, two importers, three ledgers, two sheets | `AnswersAgree`, `FiguresReproduce`, `LedgerReachesTheRun` hold |
| `payroll_replaced` | does a run read every live row? | violated, see findings |

What several properties say, where the name is short:

* `ActsAreAccountedFor`: where the revocation table is in use, nothing is done for a
  token revoked before its request arrived, nor without an audit row. (A revocation
  that arrives after the lookup is in time for the next request only: that is what
  the code promises, and the property says no more.)
* `NoDeadGrant`: `parse_roles` checks grants against ceilings when a document is
  loaded, `evaluate_authorization` once more for each request; the second check never
  decides, so the two agree, on operations that a document names and that it leaves out.
* `ViewFitsCycle`: the workstream and the gate of authorisation derive the
  cycle's state separately; away from the inconsistent state the only step offered is
  the current one and belongs to the state the gate sees.
* `NobodyLosesTheTrip`: the fallbacks of the permission predicates and those of
  the migration agree, so that no step takes a trip from one who could see or manage it.
* `ReviewNotSkipped`: verdicts are written on counts that are stale by the time the row lock is
  granted; they err on the safe side only. The other side is `review_overlap`.
* `FieldsFollowSchema`: `build_document_fields` searches keys in an order of its own and
  the schemas map keys to fields; for every form, and with any keys besides, both come to the same
  field, unless an extra key shadows it.
* `AnswersAgree`: a plan that is ok leads from the request's own sources to the payroll
  with no unused step, one that is not ok comes only from an "auto" request under a policy
  that names a source the request lacks, and while the policy is the same the plan is of
  the validated type; rights nest.
* `FiguresReproduce`: figures given back to their engine as presets give the same figures,
  and the raw overtime amount within one won, unless the engine would take it for a number of
  hours (`is_likely_hours`: up to 300 and not near 1.5 times the wage); an attendance row given back as one record
  gives the row; records in another order give it too, but for its name and totals that lie midway between two
  units; and it is within half a unit, and the one tick that four decimals take, of its records.
* `LedgerReachesTheRun`: while a finished importer's ledger stands, a run reports the
  printed totals, refunds with their sign, and a line matches exactly when the worker's net
  follows from the components.

`TypeOK` of the modules that have one is not listed in a run, as it is proved
(`TypeCorrect`, or as a conjunct of `IInv`); it may be added to any cfg.

Why these sizes: before images, recovery points and provenance relate one key to
at most two files at a time (the writer and the one written over), and longer
chains are covered by the proofs, which have no bound. A plan of two over three items has
items in and after it, two plans overlap in one, and of three operations two overlap while one is over. Two programs are enough for a
lock and its waiter; three builds are the ways two lists can relate (prefix,
extension, conflict). Three steps are enough for a cycle that a placement closes
and for a deletion that joins two neighbours, and three versions for a rollback
over an edit. Two trips are enough for one source meeting another; two submissions for a
to-do planned twice. Two importers meet in one row and two sheets overlap on one worker
or lie on two. The slips lie below, at and above the limits and brackets of the calculators.
`CHECK_DEADLOCK FALSE` is set where the bounds on journal, queue,
versions, rounds, time or calls let the system stop; the migration, offline and
session models are checked for deadlock.

### Counterexamples without a run of their own

Some statements fail, and TLC shows how. These configurations are kept beside the
modules, to be run by hand (`tlc -config X.cfg M`):

* `ArchiveAdmission_remap.cfg` (`AdmissionStaysReversible`).
  `apply_postgres_field_mappings` (`archive_intake_store.rs:1590`) looks at no status: an
  admitted intake becomes needs_guidance or ready_for_staging, and the rollback
  endpoint then refuses it (line 2667) while its rows stay live.
  `docs/ARCHIVE_INTAKE_CLOUD_NATIVE.md:178` says rollback is live for admitted and rejected intakes.
* `SourceSync_failed.cfg` (`FailedMeansUploadFailed`). `complete_postgres_source_sync`
  (line 2529) sets `synced_at`, which no migration creates: every completion
  errors, and an item whose workbook was stored is marked failed, for good.
* `WorkflowTemplates_records.cfg` (`OneRecordPerScope`). Read back from PostgreSQL a data
  record has another id (`workflow_template_store.rs:1696`) than an execution looks for
  (line 935): executing a step again for the same scope adds a record. The
  in-memory test at line 3646 says there is one.

## 4. What is proved

For any sets of intakes, rows, keys, issues, programs, builds, steps, requests,
deployments, documents, raw rows, viewers and lines, and any value of the bounds, from the
named ASSUMEs of the modules, and where a theorem has an ASSUME of its own, from that.
TLC evaluates every named ASSUME in the runs.

**ArchiveAdmissionProofs.**
`TypeCorrect`, `ClosedDecided`, `AuditAlternates`, `AdmittedReversible`,
`CanonTraced`, `NothingSkipped`, `BeforeImagesForeign`, `RollbackIsComplete`, each for any files and
any number of transactions at once. The properties are not inductive.
`LifeInv` adds what an open admission
knows (the intake is still ready, with an open row, because its row is locked)
and that an intake whose last operation was an admission has no open row; with it
a second admission is impossible although nothing in the code looks at the
audit. For provenance `TraceInv` follows a source through every place it can
hide: canonical rows, the snapshots of admissions in flight, and the before images
of recovery points, which rollbacks put back. `SeenInv` says that a resolution under way has seen
every issue for a person that is still open, but its own. For the rollbacks, `CleanAt` says
of a key what a file's point, its open admission and its canonical row may be; `CleanInv` that this holds
of every key that is neither left out by a rollback nor contested, and those only grow (`SkippedKept`,
`ContestKept`).

**SyncProofs, source sync.** `TypeCorrect`, `SettledInOrder`, `WorkbookCurrent`, with the missing
column and without it. `BeforeIsOlder`: the items committed before a transaction began are older than its
own, by the order of the plan; `PlansHaveNoGap`: an item a request skipped, whose operation was over before that of
one it has still to sync began, is settled; `BodiesCoverPlans`: the workbooks of a plan were made when all
its items existed. That the oldest item of a plan exists (`LeastElement`) comes from the
well-foundedness of finite sets, since induction is out of the prover's reach.

**MigrationLedgerProofs.**
`Inductive`, `TypeCorrect`, `Reapplied`, `LedgerIsTrue`, `DoneIsApplied` and
`Refinement` (`Spec => KeepsPromise`). `Place` says what a program knows at each
point of its list; the key step is that the migration a transaction holds is the
next one of the schema (`NextNumber`): the rows before it are recorded, and the
ledger is exactly the schema.

**SyncProofs, offline queue.** `QueuedKept`, for any number of operations, overlapping as they may.
`UncrossedIsAlone`: an enqueue that nothing has crossed is the only operation under way; so what it
saves is what the store holds and itself, and from then on (`CopiesHave`) every copy that an operation
loads has the request, and nobody is about to empty the store.

**WorkflowTemplatesProofs.**
`Inductive`, `TypeCorrect`, `PublishedGraphsSound` (`GraphsSound`) and
`NumberedWithoutGaps` (`HistoryGapless`), with requests overlapping freely. `Held`
says what a program holds between its load and its save: the version it loaded
exists and is among those it knows, and the graph has steps and no cycle. That
covers a load that takes nodes and edges of different saves: the edges are those of
one published graph cut down to the loaded nodes, and taking edges away makes no
cycle (`FewerEdges`); an edge to a node that is not there makes the save fail.
`NextVersionIsNext` shows that the next number a program computes is at most one
past the published ones, so a save repeats a number or extends the row, and never
leaves a gap. `VersionsStay` is about overlapping requests too: whoever may still save has
loaded a final version, and publishes past the versions it knows (`FinalStep`). `RollbacksRestore` and
`EvidenceStays` are about requests that do not overlap (`apart`): `ApartInv` says that then at most one request is under way and holds
what is published (the active version, the whole history, evidence for every step that has
some), so that the number it publishes under is new. `PlaceAfterGraph`, `WithoutGraph` and `AdvanceGraph` say what the edits
keep of a graph.

**AuthSessionProofs.** `AccountedFor`: `LateStops` says how far a request with a revoked token
gets at each stage; `RevocationsFit`, with `OneTokenPerId`, that a revocation ends no
earlier than its token, so that a lookup that no longer finds it meets a token that no longer
verifies. `GrantsNeverDead` and `InconsistencyShuts` are about every document a
deployment may have: the lemmas before them say what of a document that loads ends up in the
policy. `DocumentsUnordered` turns the keys of a document around and shows that each still
stands for the same member, because colliding ones are refused. `ViewsAgree` derives the
status of each step of the close from the flags (`CloseStep`): an offered step has every flag
before its own set, so that it is the first that is not completed and its state is the gate's.

**BusinessTripsProofs.** All properties of the run: `KpiFollows`, `MigrationRests`,
`OneTrip`, `StampsKept`, `NobodyLoses`, `RightsNested`. `RowsStored` says that stored values are
rows, `Sourced` that their sources are never empty once normalised, `Rested` describes a row in
which migration finds nothing to do, and migration is shown to lead there and to leave such a row
alone. `NobodyLoses` assumes that every viewer has a user id or an admin view: for one without
either the predicates compare two absent ids. `Keeps` says what of a row the
predicates read, and that it survives a migration and a move.

**DocumentFlowProofs.** All properties of the run: `DecidersAsked`, `FieldsFollow`,
`RequesterFinds`, `RightsNested`. `Shape` is the type of the document; `LineAsked` says that
everybody on the line, not only who is in turn, has a to-do under the cleaned id, which is what makes it
inductive; `CleanedSteps`, that cleaning ids changes neither who is in turn nor what is pending; `Filled`, that a submitted form had no errors and gave the fields.

**PayrollProofs.** All properties of the `payroll` run: `AnswersFit`, `LedgerReported`,
`FiguresHold`, for payloads, ledgers, slips and attendance of any size.

* Sums are folds over finite sets, and what a fold computes is an induction, which the
  prover cannot instantiate. So a sum is read off a table of the sums of all subsets
  (`SumTable`), and what is said of every table is shown by a smallest subset that would
  refute it (`SmallestSubset`). From the table come the lemmas the rest needs: a sum is the
  same under other names for its elements (`SumRenamed`), and sums that differ
  in one place differ by as much (`SumDiffersAt`).
* `RoundedNearest`: `Rounded(amount, num, den)`, which splits the quotient so that it never
  forms the product, is within one half of `amount * num / den`. With it `OverlapBack`
  bounds the half premium on hours that are both overtime and night, from hours and from their
  pay, by one won. For attendance, `TwoNearest` and `OneNearest` say that a total has one nearest multiple
  unless it lies midway, `UnitsInHours` and `RoundedOnce` that four decimals of an hour lose neither the multiple nor
  more than a tick; `HalfOff`, `TurnedRows` and `RowsAgain` follow.
* `LedgerReported` rests on `LedgerInv`: a row that carries a worker's hash has his figures,
  and so has every before image of a recovery point; only a worker's own row carries his hash,
  and all that happens to it later is that it is reversed or put back. So a ledger that stands
  lies in the rows, each worker under a key of his own, and the run's sum over keys is the
  import's over workers. It assumes `NoneIsNoFunction`: the marker for what is absent is told from
  records, which TLC has by construction for a model value.
* `AnswersFit` rests on `AnswerInv`: what a caller holds was made from each other, whatever
  settings changed in between; `PolicyNormal` says that normalising a resolved policy again
  leaves its basis as it is.
* `FiguresHold` takes slips and attendance as the calculators get them; that premiums not
  positive are computed again, that no bracket of the tax table gives a tax between nil and 8000
  won (`TableTax`), and that the local tax of a tax there is positive (`LocalTax`) is what makes
  presets work, and each has its lemma.

Only model-checked: the liveness properties `RequestEnds` and `Settles`, as the prover
does not handle fairness.

## 5. Findings

**A run leaves out replaced rows** (`payroll_replaced`, `RunCoversPeriod`). An archive
admission that overwrites a row of `payroll_input` leaves it "replaced"
(`archive_intake_store.rs:2317`); `payroll_run` reads `admission_status = 'admitted'` only
(`payroll_run.rs:115`), so that worker is missing from the month, and a month of such rows has no
report. `hr_employee_store.rs:253` treats every row that is not "reversed" as live.

**The last two issues, resolved at once** (`review_overlap`, `ReviewVerdictCurrent`).
`resolve_postgres_intake_issue` takes no lock on the intake before it counts
(`archive_intake_store.rs:1582`): two requests that resolve its last two issues each count the other's
as open, and the later writes needs_guidance over an intake that then has no open issue. Nothing recomputes the
status after that but map-fields. `HANDOFF.md:84` says that a resolution recomputes the status from the remaining open issues.

The counterexamples of section 3 are disagreements of the same kind.

### Observations

Facts met while modelling, which no property speaks for or against.

* Documents: cc users find a document in the circulate and completed boxes though
  `can_view_document` leaves cc out; the scope of a document ignores its own
  `legal_tenant_id`, that of a trip uses it; the follow-up of an approval does not fall
  back to `period_start` for its to-dos; a resubmission on a reordered line leaves the to-dos of the
  former one under other keys; a document submitted on an empty line can be decided by nobody.
* Admission: an HR edit that commits between the snapshot of the before images and the upsert
  (`archive_intake_store.rs:2009-2022`) is not in the before image, and a rollback loses it.
* Attendance: records of 6, 12 and 18 minutes with unit 8 give 40 minutes in one order and 32 in the other.
* Trips: an imported row with KPI not_applicable completes without `completed_at`.
* Sessions: a policy document with an id of its own makes every JWT session
  policy_version_untrusted, as a verified session always carries the built-in id; a session with an
  `acr` in another spelling verifies, and its audit row is refused; an empty window makes a
  granted operation unreachable; under contradictory flags the workstream may offer a step that
  the gate, which sees "inconsistent", shuts.
* Calculators: just above the last bracket (10,000,000) the table's tax falls from 2,100,000 to
  255,000; local tax is rounded to tens from a preset and to won from the table; the slip
  taxes before insurance and the deduction engine after it; a preset of nil or less is ignored; a
  raw overtime amount of up to 300 won is taken for hours and not paid, though 300 won may be what
  an hour was paid at a low wage; the
  pension floor can make a tiny pay's net negative.
* Ledger: a row the archive admitted has no components, so a deduction in it never
  reconciles; the intake of an import is found by period, file and number of workers, not by
  content; upserts commit one by one, so that a failed or overlapping import leaves a mixed month; keys
  that meet twice collapse into a row and are counted twice in the totals.
* Requests: a validation says that a request can run though its plan is not ok, when the policy's
  basis names a source the request lacks; a site policy set before the aliases of its workplace is
  stored under a name that is never looked up.

## 6. Not modelled

* The local JSON store of intakes: the code refuses admission and rollback there.
* The local file of workflow templates (hermetic review only), the preflight and
  validation reports and the analytics, which change nothing; the audit table of
  templates, which nothing reads back.
* Mapping templates and the inference behind issues: text heuristics; the model
  lets any issue appear that the target allows.
* The fields of employees: an HR edit is one action that marks the row edited, so
  lost updates between two edits of one employee are not seen.
* Row-level security and tenants in the stores: every query carries the tenant; one
  tenant is modelled. The scopes of sessions, trips and payroll requests are modelled.
* Invoice audit, EDI, fixed and workplace hours, site benefits: they compare and fill
  the cells of files in one pass and keep nothing.
* The sync of the offline queue when the network returns: nothing in the app
  does it, so no fairness for it would be justified.
* Preferences, the API contract, UI, deployment, the rate limiter: one upsert, a constant
  document, presentation, configuration, a counter of one replica.

## 7. Plan

Written: everything in the table of section 2. What is left, in the order of what it would add:

1. `EmployeeEdits`: field-level lost updates of the HR store, composed with
   admission.
2. `AdmissionWithSync`: `ArchiveAdmission` composed with `SourceSync`, so that
   the version of the rows is derived.
3. The invoice audit against a reference definition over bounded tables.
4. Abstract specifications that `OfflineQueue` (an outbox that loses nothing) and
   `SourceSync` (one version per operation, in order) implement, with the refinements proved
   as that of `MigrationLedger` is.
