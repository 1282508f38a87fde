---------------------------- MODULE BusinessTrips ----------------------------
(***************************************************************************)
(* The life of business trips (business_trip.rs).  The crate is pure: its  *)
(* callers keep the rows, hand one to a function with the time, and store  *)
(* what comes back.  The rows may be older than the crate: fields under    *)
(* former names, statuses that do not fit together.  Every function first  *)
(* migrates the row it is given.                                           *)
(***************************************************************************)
EXTENDS TripPermissions

CONSTANTS
    Trip,      \* ids of rows
    Raw,       \* rows as they may be handed in
    Store,     \* the tenant whose store this is
    MaxTime    \* bound: the last moment

TripStatus == {"draft", "planned", "approved", "in_progress", "diary_due",
               "overdue", "completed", "cancelled"}
KpiStatus  == {"blocked", "ready", "reflected", "not_applicable"}
SourceKind == {"workflow", "gw_import", "manual"}
Stamp == {"actual_start", "actual_end", "diary_due_at", "overdue_at", "completed_at"}

\* The fields that a row may have.
Field == {"trip_id", "id", "tenant_id", "origin_tenant_id", "legal_tenant_id",
          "tenant_origin_id", "legal_entity_id", "entity_id", "status", "kpi",
          "requester_id", "traveler_user_id", "traveler_id", "executor_id", "site_id",
          "department_id", "org_unit_id", "planned_start", "planned_end",
          "period_start", "period_end", "plan_document_id", "approved_document_id",
          "source", "dedupe_key", "created_at", "updated_at",
          "approver_ids", "approval_user_ids"} \cup Stamp

ASSUME RowsAssumption == \A row \in Raw : row = [f \in Field |-> row[f]]
ASSUME TripsAssumption == MaxTime \in Nat \ {0} /\ Store # None

VARIABLES
    trips,  \* the stored rows, None where there is none
    now     \* the clock of the callers

vars == <<trips, now>>

-----------------------------------------------------------------------------
(* Normalisation *)

NormalStatus(status) == IF status \in TripStatus THEN status ELSE "draft"
NormalKpi(kpi)       == IF kpi \in KpiStatus THEN kpi ELSE "blocked"

\* A row without a source has a manual one.
NormalSource(source) ==
    IF source = None
    THEN [kind |-> "manual", document |-> None, dedupe |-> None]
    ELSE [kind     |-> IF source.kind \in SourceKind THEN source.kind ELSE "manual",
          document |-> source.document,
          dedupe   |-> FirstSet(<<source.dedupe, source.document>>)]

\* (Mutant: only cancellation is looked at.)
KpiUnlessCancelled(status, kpi) ==
    IF status = "cancelled" THEN "not_applicable" ELSE kpi

\* Only a completed trip is ready for the KPIs or reflected in them, and a
\* cancelled one never counts.
KpiOf(status, kpi) ==
    IF status = "cancelled" THEN "not_applicable"
    ELSE IF status # "completed" /\ kpi \in {"ready", "reflected"} THEN "blocked"
    ELSE kpi

\* (Mutant: the oldest name wins.)
RequesterByOldName(row) ==
    FirstSet(<<row.traveler_id, row.traveler_user_id, row.requester_id>>)
RequesterOf(row) ==
    FirstSet(<<row.requester_id, row.traveler_user_id, row.traveler_id>>)

\* A row in today's shape: former names give way, gaps are filled.
Migrate(row, tenant, t, id) ==
    LET key       == FirstSet(<<row.trip_id, row.id, id>>)
        source    == NormalSource(row.source)
        requester == RequesterOf(row)
        status    == NormalStatus(row.status)
    IN  [row EXCEPT
          !.trip_id = key, !.id = key,
          !.tenant_id = FirstSet(<<row.tenant_id, tenant>>),
          !.origin_tenant_id = FirstSet(<<row.origin_tenant_id, row.legal_tenant_id,
                                 row.tenant_origin_id, row.tenant_id, tenant>>),
          !.legal_entity_id = FirstSet(<<row.legal_entity_id, row.entity_id>>),
          !.status = status,
          !.kpi = KpiOf(status, NormalKpi(row.kpi)),
          !.requester_id = requester,
          !.traveler_user_id = FirstSet(<<row.traveler_user_id, requester>>),
          !.planned_start = FirstSet(<<row.planned_start, row.period_start>>),
          !.planned_end   = FirstSet(<<row.planned_end, row.period_end>>),
          !.period_start  = FirstSet(<<row.period_start, row.planned_start>>),
          !.period_end    = FirstSet(<<row.period_end, row.planned_end>>),
          !.plan_document_id = FirstSet(<<row.plan_document_id, row.approved_document_id>>),
          !.source = source,
          !.dedupe_key = FirstSet(<<row.dedupe_key, source.dedupe, key>>),
          !.created_at = FirstSet(<<row.created_at, t>>),
          !.updated_at = FirstSet(<<row.updated_at, t>>)]

\* What a reader is shown of a row; it lends its own tenant.
ViewModel(row, t, id) == Migrate(row, row.tenant_id, t, id)

-----------------------------------------------------------------------------
(* Transitions *)

TripMoves == {<<"draft", "planned">>, <<"draft", "cancelled">>,
              <<"planned", "approved">>, <<"planned", "cancelled">>,
              <<"approved", "in_progress">>, <<"approved", "cancelled">>,
              <<"in_progress", "diary_due">>, <<"in_progress", "overdue">>,
              <<"diary_due", "completed">>, <<"diary_due", "overdue">>,
              <<"overdue", "completed">>, <<"overdue", "cancelled">>}

CanMove(from, to) == <<NormalStatus(from), NormalStatus(to)>> \in TripMoves

\* The moments a move records unless they are recorded already.
StampsOf(row, to) ==
    CASE to = "in_progress" -> {"actual_start"}
      [] to = "diary_due"   -> {"actual_start", "actual_end", "diary_due_at"}
      [] to = "overdue"     -> {"overdue_at"}
      [] to = "completed" /\ row.kpi = "blocked" -> {"actual_end", "completed_at"}
      [] OTHER -> {}

\* (Mutant: every move records its moments anew.)
RecordAnew(stamp, t) == t
Recorded(stamp, t) == FirstSet(<<stamp, t>>)

\* A field of a migrated row after its move.
MovedField(old, f, to, t) ==
    CASE f = "status"     -> to
      [] f = "updated_at" -> t
      [] f \in StampsOf(old, to) -> Recorded(old[f], t)
      [] f = "kpi" -> IF to = "completed" /\ old.kpi = "blocked" THEN "ready"
                      ELSE IF to = "cancelled" THEN "not_applicable"
                      ELSE old.kpi
      [] OTHER -> old[f]

Moved(row, to, t) ==
    LET old == Migrate(row, row.tenant_id, t, row.trip_id)
    IN  [f \in DOMAIN old |-> MovedField(old, f, to, t)]

\* (Mutant: only the keys are compared.)
KeyMatches(row, source) ==
    LET wanted == NormalSource(source)
    IN  /\ wanted.dedupe # None
        /\ wanted.dedupe \in {row.dedupe_key, NormalSource(row.source).dedupe}

\* A row stands for a source if it names the same key or the same document.
SourceMatches(row, source) ==
    LET wanted == NormalSource(source)
        has    == NormalSource(row.source)
    IN  \/ wanted.dedupe # None /\ wanted.dedupe \in {row.dedupe_key, has.dedupe}
        \/ wanted.document # None /\ has.document = wanted.document

-----------------------------------------------------------------------------
(* Callers *)

\* Names, moments and sources are not empty.
ASSUME NothingIsEmpty ==
    /\ None \notin Trip /\ None \notin 1..MaxTime
    /\ \A row \in Raw : NormalSource(row.source) # None

Stored == {id \in Trip : trips[id] # None}

Init ==
    /\ trips = [id \in Trip |-> None]
    /\ now = 1

\* A row from elsewhere is kept unless a row stands for its source already.
Import(id, row) ==
    /\ id \notin Stored
    /\ \A other \in Stored : ~SourceMatches(trips[other], row.source)
    /\ trips' = [trips EXCEPT ![id] = row]
    /\ UNCHANGED now

\* A caller brings a row up to date in the store it keeps it in.
Upgrade(id) ==
    /\ id \in Stored
    /\ trips' = [trips EXCEPT ![id] = Migrate(@, Store, now, id)]
    /\ UNCHANGED now

\* To the status it has: the row is migrated.  To one that is out of reach:
\* an error, and nothing to store.
Transition(id, target) ==
    /\ id \in Stored
    /\ LET from == NormalStatus(trips[id].status)
           to   == NormalStatus(target)
       IN  \/ /\ from = to
              /\ trips' = [trips EXCEPT ![id] = Migrate(@, @.tenant_id, now, @.trip_id)]
           \/ /\ from # to /\ CanMove(from, to)
              /\ trips' = [trips EXCEPT ![id] = Moved(@, to, now)]
    /\ UNCHANGED now

Tick == now < MaxTime /\ now' = now + 1 /\ UNCHANGED trips

Next ==
    \/ \E id \in Trip, row \in Raw : Import(id, row)
    \/ \E id \in Trip : Upgrade(id)
    \/ \E id \in Trip, target \in TripStatus : Transition(id, target)
    \/ Tick

Spec == Init /\ [][Next]_vars

-----------------------------------------------------------------------------
(* Invariants *)

\* What readers are shown of the stored rows, whatever shape they are in.
Shown(id) == ViewModel(trips[id], now, id)

\* Every row is shown with a status, a KPI status and a kind of source the
\* crate knows, and a trip counts for the KPIs only once it is completed and
\* never when it is cancelled, whatever an older row says and however it came
\* to its status (migrate_business_trip_record, transition_trip_status).
KpiFollowsStatus ==
    \A id \in Stored :
        /\ Shown(id).status \in TripStatus /\ Shown(id).kpi \in KpiStatus
        /\ Shown(id).source.kind \in SourceKind
        /\ Shown(id).kpi \in {"ready", "reflected"} => Shown(id).status = "completed"
        /\ Shown(id).status = "cancelled" => Shown(id).kpi = "not_applicable"

\* Migration comes to rest: what a reader is shown of a migrated row is that
\* row, at any later time and whatever id and tenant the reader falls back to.
MigrationSettles ==
    \A id \in Stored, other \in Trip, t \in now..MaxTime :
        LET row == Migrate(trips[id], Store, now, id)
        IN  Migrate(row, Store, t, other) = row /\ ViewModel(row, t, other) = row

\* One source is one trip: two stored rows never name the same document or the
\* same key in their sources (business_trip_source_matches before an import).
OneTripPerSource ==
    \A id, other \in Stored :
        LET a == NormalSource(trips[id].source)
            b == NormalSource(trips[other].source)
        IN  id # other => /\ a.document # None => a.document # b.document
                          /\ a.dedupe # None => a.dedupe # b.dedupe

-----------------------------------------------------------------------------
(* Action properties *)

\* A recorded moment stays: no move, repetition or migration rewrites when a
\* trip began, ended, fell due or was completed.
StampsAreKept ==
    [][\A id \in Stored, s \in Stamp :
          trips[id][s] # None => trips'[id][s] = trips[id][s]]_vars

\* The people of a viewer set, as [p, profile, theirs].
CONSTANT Viewer

\* Nobody loses a trip to its migration: whoever could see or manage the row
\* as it was stored can do so after any step (the fallbacks of the permission
\* predicates agree with those of the migration).
NobodyLosesTheTrip ==
    [][\A id \in Stored : trips'[id] # trips[id] => \A v \in Viewer :
          /\ CanViewTrip(v.p, v.profile, v.theirs, trips[id], Store)
               => CanViewTrip(v.p, v.profile, v.theirs, trips'[id], Store)
          /\ CanManageTrip(v.p, v.profile, trips[id], Store)
               => CanManageTrip(v.p, v.profile, trips'[id], Store)]_vars

\* The rights over a trip nest: who manages it sees it, who evaluates whether
\* it is overdue sees it and may run the evaluation, and a month is closed only
\* by somebody who sees the report of its site.
RightsNest ==
    \A id \in Stored, v \in Viewer :
        /\ CanManageTrip(v.p, v.profile, trips[id], Store)
             => CanViewTrip(v.p, v.profile, v.theirs, trips[id], Store)
        /\ CanEvaluateOverdue(v.p, v.profile, trips[id], Store)
             => /\ CanViewTrip(v.p, v.profile, v.theirs, trips[id], Store)
                /\ CanRunOverdueEvaluator(v.p, v.profile)
        /\ CanCloseMonth(v.p, v.profile, trips[id].site_id)
             => CanViewSiteReport(v.p, v.profile, trips[id].site_id)
        /\ CanAdministerTrips(v.p, v.profile) /\ TripInScope(v.p, trips[id], Store)
             => CanManageTrip(v.p, v.profile, trips[id], Store)
=============================================================================
