----------------------------- MODULE AuthPolicy -----------------------------
(***************************************************************************)
(* The authorisation policy of crates/payroll-api/src/auth_policy.rs: the  *)
(* built-in matrix of operations and roles, the policy document that may   *)
(* replace it, and the decision.  Everything here is a pure operator; the  *)
(* requests that ask for decisions are in AuthSession.                     *)
(*                                                                         *)
(* A JSON object is the sequence of its members, so that a key given twice *)
(* is representable.  The spelling of a key or of a value (case, hyphens,  *)
(* surrounding blanks) is its field "spelt"; what it is parsed to is its   *)
(* field "name".                                                           *)
(***************************************************************************)
EXTENDS Integers, Sequences

CONSTANTS None, Invalid, BuiltinId

\* AuthAcrLevel and AuthDataClass, in the order the code derives for them.
AcrRank   == [routine |-> 0, elevated |-> 1, sensitive |-> 2, critical |-> 3]
ClassRank == [internal |-> 0, employee_restricted |-> 1,
              payroll_confidential |-> 2, tenant_critical |-> 3]
AcrLevel  == DOMAIN AcrRank
DataClass == DOMAIN ClassRank

\* AuthWorkflowState; "inconsistent" is the one a document cannot name.
CycleState    == {"open", "inputs_closed", "calculated", "approval_pending",
                  "approved", "archived"}
WorkflowState == CycleState \cup {"inconsistent"}

-----------------------------------------------------------------------------
(* The operations, and what the built-in policy asks of each.              *)

RoutineOps == {"read_workspace", "user_preference_update", "workflow_template_read"}
HrOps      == {"hr_employee_read", "hr_employee_write"}
ArchiveOps == {"archive_read", "archive_upload", "archive_review",
               "archive_admit", "archive_rollback", "archive_sync"}
PayrollOps == {"workflow_template_write", "workflow_step_execute", "payroll_run",
               "payroll_export", "payroll_policy_change", "approval_signing"}
Operation  == RoutineOps \cup HrOps \cup ArchiveOps \cup PayrollOps
                \cup {"tenant_destructive_change"}

BuiltinAcr(op) ==
    IF op \in RoutineOps THEN "routine"
    ELSE IF op \in HrOps \cup {"archive_read", "archive_upload"} THEN "elevated"
    ELSE IF op = "tenant_destructive_change" THEN "critical"
    ELSE "sensitive"

BuiltinClass(op) ==
    IF op \in RoutineOps THEN "internal"
    ELSE IF op \in HrOps \cup ArchiveOps THEN "employee_restricted"
    ELSE IF op \in PayrollOps THEN "payroll_confidential"
    ELSE "tenant_critical"

BuiltinScope(op) ==
    op \notin {"read_workspace", "user_preference_update", "payroll_policy_change",
               "workflow_template_read", "workflow_template_write",
               "tenant_destructive_change"}

\* The states of the payroll cycle an operation is open in; None is every state.
BuiltinWindow(op) ==
    IF op \in {"workflow_template_write", "payroll_policy_change"}
      THEN {"open", "approved", "archived"}
    ELSE IF op = "workflow_step_execute"
      THEN {"open", "inputs_closed", "calculated", "approval_pending"}
    ELSE IF op = "payroll_run" THEN {"inputs_closed", "calculated"}
    ELSE IF op = "payroll_export" THEN {"approved", "archived"}
    ELSE IF op = "approval_signing" THEN {"calculated", "approval_pending"}
    ELSE None

BuiltinOp(op) == [acr |-> BuiltinAcr(op), class |-> BuiltinClass(op),
                  scope |-> BuiltinScope(op), window |-> BuiltinWindow(op)]

\* normalize_role: the names folded onto a role's canonical one.
RoleAlias == [payroll_ops |-> "payroll_operator", payroll_lead |-> "payroll_manager",
              hr_ops |-> "hr_operator", people_manager |-> "hr_manager",
              approver |-> "approval_signer", security_admin |-> "it_security_admin",
              tenant_admin |-> "it_security_admin",
              product_platform_lead |-> "platform_owner",
              customer_support |-> "support_sre"]
NormalizeRole(name) == IF name \in DOMAIN RoleAlias THEN RoleAlias[name] ELSE name

Role(ceiling, extra) == [ceiling |-> ceiling, grants |-> RoutineOps \cup extra]

BuiltinRoles ==
    [payroll_operator  |-> Role("payroll_confidential",
                             {"archive_read", "archive_upload", "archive_review",
                              "payroll_run", "workflow_step_execute", "payroll_export"}),
     payroll_manager   |-> Role("payroll_confidential",
                             ArchiveOps \cup (PayrollOps \ {"approval_signing"})),
     hr_operator       |-> Role("employee_restricted",
                             HrOps \cup {"archive_read", "archive_upload", "archive_review"}),
     hr_manager        |-> Role("employee_restricted", HrOps \cup ArchiveOps),
     approval_signer   |-> Role("payroll_confidential",
                             {"workflow_step_execute", "approval_signing"}),
     it_security_admin |-> Role("tenant_critical",
                             {"workflow_template_write", "tenant_destructive_change"}),
     platform_owner    |-> [ceiling |-> "tenant_critical", grants |-> {"*"}],
     support_sre       |-> Role("internal", {})]

Builtin == [id |-> BuiltinId, roles |-> BuiltinRoles,
            ops |-> [op \in Operation |-> BuiltinOp(op)]]

\* (Mutant: an operation the document leaves out is open in every state.)
OpPolicyNoWindow(ops, op) ==
    IF op \in DOMAIN ops THEN ops[op] ELSE [BuiltinOp(op) EXCEPT !.window = None]

\* What a policy asks of an operation: an operation its document leaves out
\* keeps the built-in requirements, its workflow window among them.
OpPolicy(ops, op) == IF op \in DOMAIN ops THEN ops[op] ELSE BuiltinOp(op)

-----------------------------------------------------------------------------
(* Loading a document: from_env, from_json, parse_operations, parse_roles. *)
(* A document is [id, ops, roles]; a member of ops is [key, acr, class,    *)
(* scope, window], a member of roles [key, ceiling, grants].               *)

\* The member a key of an object stands for: of two members with one
\* canonical key the later replaces the earlier.
LastNamed(keys, key) ==
    CHOOSE i \in DOMAIN keys : keys[i] = key /\ \A j \in DOMAIN keys : keys[j] = key => j <= i

OpKey(key)   == key.name
RoleKey(key) == NormalizeRole(key.name)

OpEntryOk(entry) ==
    /\ entry.key.name \in Operation
    /\ entry.acr \in AcrLevel
    /\ entry.class \in DataClass
    /\ entry.scope \in BOOLEAN
    /\ entry.window # None => entry.window \subseteq CycleState

OpValue(entry) == [acr |-> entry.acr, class |-> entry.class,
                   scope |-> entry.scope, window |-> entry.window]

\* reject_duplicate_json_keys and the collision guards together: no two keys
\* of an object are the same key, as written or once normalised.
OpKeysDistinct(doc) ==
    \A i, j \in DOMAIN doc.ops :
        OpKey(doc.ops[i].key) = OpKey(doc.ops[j].key) => i = j

\* (Mutant: role keys collide only when they are written the same way.)
RoleSpellingsDistinct(doc) ==
    \A i, j \in DOMAIN doc.roles : doc.roles[i].key = doc.roles[j].key => i = j

RoleKeysDistinct(doc) ==
    \A i, j \in DOMAIN doc.roles :
        RoleKey(doc.roles[i].key) = RoleKey(doc.roles[j].key) => i = j

\* The operations a grant lets a role exercise.
Granted(grant) == IF grant = "*" THEN Operation ELSE {grant}

\* (Mutant: the wildcard's ceiling is not compared with the operations.)
RoleEntryOkWildcard(entry, ops) ==
    /\ entry.ceiling \in DataClass
    /\ \A grant \in entry.grants :
          /\ grant \in Operation \cup {"*"}
          /\ grant # "*" =>
                ClassRank[entry.ceiling] >= ClassRank[OpPolicy(ops, grant).class]

\* A grant the role's ceiling can never exercise is a configuration error.
RoleEntryOk(entry, ops) ==
    /\ entry.ceiling \in DataClass
    /\ \A grant \in entry.grants :
          /\ grant \in Operation \cup {"*"}
          /\ \A op \in Granted(grant) :
                ClassRank[entry.ceiling] >= ClassRank[OpPolicy(ops, op).class]

RoleValue(entry) == [ceiling |-> entry.ceiling, grants |-> entry.grants]

ParsedOps(doc) ==
    LET keys == [i \in DOMAIN doc.ops |-> OpKey(doc.ops[i].key)]
    IN  [k \in {keys[i] : i \in DOMAIN keys} |-> OpValue(doc.ops[LastNamed(keys, k)])]

ParsedRoles(doc) ==
    LET keys == [i \in DOMAIN doc.roles |-> RoleKey(doc.roles[i].key)]
    IN  [k \in {keys[i] : i \in DOMAIN keys} |-> RoleValue(doc.roles[LastNamed(keys, k)])]

DocumentOk(doc) ==
    /\ doc.id # None
    /\ \A i \in DOMAIN doc.ops : OpEntryOk(doc.ops[i])
    /\ OpKeysDistinct(doc)
    /\ doc.roles # <<>>
    /\ \A i \in DOMAIN doc.roles : RoleEntryOk(doc.roles[i], ParsedOps(doc))
    /\ RoleKeysDistinct(doc)

\* Unset or blank is the built-in policy; set and unreadable or invalid is an
\* error, never the built-in policy.
LoadPolicy(doc) ==
    IF doc = None THEN Builtin
    ELSE IF doc = Invalid \/ ~DocumentOk(doc) THEN Invalid
    ELSE [id |-> doc.id, roles |-> ParsedRoles(doc), ops |-> ParsedOps(doc)]

-----------------------------------------------------------------------------
(* The decision.  A request is [policy, op, acr, role, actor, resource,    *)
(* state]; a blank name is None; actor and resource are                    *)
(* [tenant, legal, workplace].                                             *)

StepUpOk(policy, op, acr) ==
    acr # None /\ AcrRank[acr] >= AcrRank[OpPolicy(policy.ops, op).acr]

SamePart(left, right) == left # None /\ left = right

ScopeAllows(policy, r) ==
    /\ SamePart(r.actor.tenant, r.resource.tenant)
    /\ SamePart(r.actor.legal, r.resource.legal)
    /\ OpPolicy(policy.ops, r.op).scope =>
          SamePart(r.actor.workplace, r.resource.workplace)

WorkflowAllows(policy, op, state) ==
    LET window == OpPolicy(policy.ops, op).window
    IN  window = None \/ state \in window

Permits(policy, role, op) ==
    /\ role \in DOMAIN policy.roles
    /\ policy.roles[role].grants \cap {"*", op} # {}

\* evaluate_authorization: the first check that fails gives the reason.
Decision(policy, r) ==
    LET role == NormalizeRole(r.role) IN
    IF policy = Invalid THEN "authz_policy_invalid"
    ELSE IF r.policy # policy.id THEN "policy_version_untrusted"
    ELSE IF ~StepUpOk(policy, r.op, r.acr)
      THEN IF r.acr = None THEN "acr_missing" ELSE "step_up_required"
    ELSE IF r.role = None THEN "role_missing"
    ELSE IF ~Permits(policy, role, r.op) THEN "rbac_denied"
    ELSE IF ~ScopeAllows(policy, r) THEN "abac_scope_denied"
    ELSE IF ClassRank[policy.roles[role].ceiling]
              < ClassRank[OpPolicy(policy.ops, r.op).class] THEN "abac_data_denied"
    ELSE IF ~WorkflowAllows(policy, r.op, r.state) THEN "pbac_workflow_denied"
    ELSE "authorized"
=============================================================================
