--------------------------- MODULE MCBusinessTrips ---------------------------
\* Instances of BusinessTrips for TLC.
EXTENDS BusinessTrips, TLC

CONSTANTS t1, t2, store, legal, d1, d2, k1, ann, bob, boss, site, dept

\* A row of today with nothing in it.
Blank == [f \in {"trip_id", "id", "tenant_id", "origin_tenant_id", "legal_tenant_id",
        "tenant_origin_id", "legal_entity_id", "entity_id", "status", "kpi",
        "requester_id", "traveler_user_id", "traveler_id", "executor_id", "site_id",
        "department_id", "org_unit_id", "planned_start", "planned_end",
        "period_start", "period_end", "plan_document_id", "approved_document_id",
        "source", "dedupe_key", "created_at", "updated_at"} \cup Stamp |-> None]
      @@ [approver_ids |-> {}, approval_user_ids |-> {boss}]

FromDoc(doc, key) == [kind |-> "workflow", document |-> doc, dedupe |-> key]

\* A draft from a document, a former row under its old names, rows whose status
\* and KPI do not fit, a row that is already on its way.
SomeRows ==
    {[Blank EXCEPT !.status = "draft", !.requester_id = ann, !.site_id = site,
                   !.source = FromDoc(src[1], src[2])] :
            src \in {<<d1, None>>, <<d1, k1>>, <<d2, k1>>}}
    \cup {[Blank EXCEPT !.status = st[1], !.kpi = st[2], !.traveler_user_id = ann,
                        !.traveler_id = bob, !.legal_tenant_id = legal,
                        !.planned_start = 1, !.entity_id = legal, !.org_unit_id = dept,
                        !.source = [kind |-> "erp", document |-> d1, dedupe |-> None]] :
            st \in {<<"done", "ready">>, <<"in_progress", "ready">>, <<"cancelled", "unknown">>}}
    \cup {[Blank EXCEPT !.status = "diary_due", !.kpi = "not_applicable",
                        !.tenant_id = store, !.requester_id = bob, !.traveler_user_id = ann,
                        !.overdue_at = 1, !.id = d2, !.period_start = 2,
                        !.approved_document_id = d2]}

Profile(roles, sites, depts, manager) ==
    [roles |-> roles, sites |-> sites, depts |-> {}, orgUnits |-> depts,
     viewerSites |-> {}, viewerDepts |-> depts, manager |-> manager]

\* The requester is boss's report; one viewer works in finance.
SomeViewers ==
    {[p |-> [user |-> u, tenant |-> t, role |-> "user"], profile |-> q,
      theirs |-> Profile({}, {}, {}, boss)] :
        u \in {ann, bob, boss}, t \in {store, legal},
        q \in {None, Profile({"approver"}, {}, {}, None),
               Profile({"site_manager"}, {site}, {}, None),
               Profile({"department_manager", "viewer"}, {}, {dept}, None)}}
    \cup {[p |-> [user |-> None, tenant |-> None, role |-> "finance_team"],
           profile |-> None, theirs |-> None]}

Symmetry == Permutations(Trip)
=============================================================================
