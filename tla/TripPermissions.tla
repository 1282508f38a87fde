--------------------------- MODULE TripPermissions ---------------------------
(***************************************************************************)
(* Who may do what with a business trip and its documents: the decisions   *)
(* of business_trip_permissions.rs, as predicates over a viewer, a trip or *)
(* a document, and the tenant whose store they are read from.              *)
(*                                                                         *)
(* A viewer is a principal with its profile: [user, tenant, role] and      *)
(* [roles, sites, depts, orgUnits, viewerSites, viewerDepts, manager], or  *)
(* None for somebody without a profile.  None also stands for every field  *)
(* that is empty after trimming.                                           *)
(***************************************************************************)
EXTENDS Integers, Sequences

CONSTANT None  \* an empty text, or a profile that does not exist

\* (Mutant: the list is read from its end.)
LastSet(values) ==
    LET set == {i \in DOMAIN values : values[i] # None}
    IN  IF set = {} THEN None
        ELSE values[CHOOSE i \in set : \A j \in set : j <= i]

\* The first value that is not empty; None when all are.
FirstSet(values) ==
    IF \E i \in DOMAIN values : values[i] # None
    THEN values[CHOOSE i \in DOMAIN values :
                  /\ values[i] # None
                  /\ \A j \in DOMAIN values : values[j] # None => i <= j]
    ELSE None

\* The system role a login carries; aliases and unknown names fall to staff.
NormalRole(role) ==
    CASE role \in {"finance", "finance_team"} -> "finance"
      [] role = "admin" -> "admin"
      [] OTHER -> "staff"

\* Workflow roles: those of the profile and those the system role brings;
\* somebody with neither is a requester.
WorkflowRoles(p, profile) ==
    LET own == IF profile = None THEN {} ELSE profile.roles \ {None}
        brought == CASE NormalRole(p.role) = "admin" ->
                          {"admin", "executive", "approver", "finance", "hr"}
                     [] NormalRole(p.role) = "finance" ->
                          {"finance", "approver", "executive"}
                     [] OTHER -> {}
    IN  IF own \cup brought = {} THEN {"requester"} ELSE own \cup brought

HasAdminView(roles) == roles \cap {"admin", "executive", "finance"} # {}

-----------------------------------------------------------------------------
(* Legal scope *)

\* The row must lie in the store it is read from.  Its people are those of the
\* tenant it comes from, those of the store, and users without a tenant.
TripInScope(p, trip, store) ==
    /\ trip.tenant_id \in {None, store}
    /\ LET origin == FirstSet(<<trip.origin_tenant_id, trip.legal_tenant_id,
                                trip.tenant_id, store>>)
       IN  \/ p.tenant \in {None, origin}
           \/ p.tenant = store /\ store # origin

IsTripDocument(doc) ==
    doc.type = "BUSINESS_TRIP_REQUEST" \/ doc.trip_id # None

\* A document of a trip has the scope of its origin; its own legal tenant is
\* not asked, only the one its content names.  Other documents have no scope.
DocumentInScope(p, doc, store) ==
    \/ ~IsTripDocument(doc)
    \/ LET origin == FirstSet(<<doc.origin_tenant_id, doc.content_origin_tenant_id,
                                doc.content_legal_tenant_id, store>>)
       IN  TripInScope(p, [tenant_id |-> store, origin_tenant_id |-> origin,
                           legal_tenant_id |-> None], store)

-----------------------------------------------------------------------------
(* Documents *)

CanViewDocument(p, profile, doc, store) ==
    LET roles == WorkflowRoles(p, profile)
    IN  /\ DocumentInScope(p, doc, store)
        /\ \/ HasAdminView(roles)
           \/ p.user # None /\ doc.requester = p.user
           \/ p.user # None /\ \E i \in DOMAIN doc.steps : doc.steps[i].approver = p.user
           \/ /\ profile # None
              /\ doc.site # None /\ doc.site \in profile.sites
              /\ roles \cap {"site_manager", "hr"} # {}

\* (Mutant: a document in review can still be edited.)
EditUntilDecided(p, profile, doc, store) ==
    /\ DocumentInScope(p, doc, store)
    /\ p.user # None /\ doc.requester = p.user
    /\ doc.status \notin {"approved", "closed"}

CanEditDocument(p, profile, doc, store) ==
    /\ DocumentInScope(p, doc, store)
    /\ p.user # None /\ doc.requester = p.user
    /\ doc.status \in {"draft", "requested_changes"}

CanSubmitDocument(p, profile, doc, store) == CanEditDocument(p, profile, doc, store)

\* The first pending step decides whose turn it is.
Pending(doc) == {i \in DOMAIN doc.steps : doc.steps[i].status = "pending"}
Current(doc) == CHOOSE i \in Pending(doc) : \A j \in Pending(doc) : i <= j

\* "mayApprove": the caller's own right to approve in the workflow at all,
\* which lets an administrator decide in place of the approver.
CanApproveDocument(p, profile, doc, store, mayApprove) ==
    /\ DocumentInScope(p, doc, store)
    /\ doc.status \in {"submitted", "in_review"}
    /\ Pending(doc) # {}
    /\ \/ p.user # None /\ doc.steps[Current(doc)].approver = p.user
       \/ mayApprove /\ HasAdminView(WorkflowRoles(p, profile))

-----------------------------------------------------------------------------
(* Trips *)

Requester(trip)  == FirstSet(<<trip.requester_id, trip.traveler_user_id>>)
Department(trip) == FirstSet(<<trip.department_id, trip.org_unit_id>>)
Approvers(trip)  == IF trip.approver_ids = {} THEN trip.approval_user_ids
                    ELSE trip.approver_ids
Departments(profile) == IF profile.depts = {} THEN profile.orgUnits
                        ELSE profile.depts

\* Somebody responsible for the trip's site or department.
RunsPlaceOf(profile, roles, trip) ==
    /\ profile # None
    /\ \/ /\ trip.site_id # None /\ trip.site_id \in profile.sites
          /\ roles \cap {"site_manager", "hr"} # {}
       \/ /\ Department(trip) # None /\ Department(trip) \in Departments(profile)
          /\ roles \cap {"department_manager", "site_manager", "hr"} # {}

\* "theirs": the profile of the trip's requester, None when there is none.
CanViewTrip(p, profile, theirs, trip, store) ==
    LET roles == WorkflowRoles(p, profile)
    IN  /\ TripInScope(p, trip, store)
        /\ \/ HasAdminView(roles)
           \/ p.user \in {Requester(trip), trip.executor_id}
           \/ "approver" \in roles /\ p.user \in Approvers(trip)
           \/ /\ profile # None
              /\ Requester(trip) # None
              /\ theirs # None /\ theirs.manager = p.user
           \/ RunsPlaceOf(profile, roles, trip)
           \/ /\ profile # None /\ "viewer" \in roles
              /\ \/ trip.site_id # None /\ trip.site_id \in profile.viewerSites
                 \/ /\ Department(trip) # None
                    /\ Department(trip) \in profile.viewerDepts

CanManageTrip(p, profile, trip, store) ==
    /\ TripInScope(p, trip, store)
    /\ \/ HasAdminView(WorkflowRoles(p, profile))
       \/ p.user \in {Requester(trip), trip.executor_id}

CanAdministerTrips(p, profile) == HasAdminView(WorkflowRoles(p, profile))

\* (Mutant: the department managers are forgotten.)
SiteRunsEvaluator(p, profile) ==
    WorkflowRoles(p, profile) \cap {"admin", "executive", "finance",
                                    "site_manager", "hr"} # {}

CanRunOverdueEvaluator(p, profile) ==
    LET roles == WorkflowRoles(p, profile)
    IN  \/ HasAdminView(roles)
        \/ roles \cap {"site_manager", "department_manager", "hr"} # {}

CanEvaluateOverdue(p, profile, trip, store) ==
    LET roles == WorkflowRoles(p, profile)
    IN  /\ TripInScope(p, trip, store)
        /\ HasAdminView(roles) \/ RunsPlaceOf(profile, roles, trip)

-----------------------------------------------------------------------------
(* Reports and tasks *)

CanViewSiteReport(p, profile, site) ==
    \/ HasAdminView(WorkflowRoles(p, profile))
    \/ profile # None /\ site \in profile.sites

CanCloseMonth(p, profile, site) ==
    /\ WorkflowRoles(p, profile) \cap {"admin", "finance", "site_manager"} # {}
    /\ CanViewSiteReport(p, profile, site)

CanManageTask(p, profile, executor) ==
    "admin" \in WorkflowRoles(p, profile) \/ p.user = executor
=============================================================================
