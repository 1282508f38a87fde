------------------------- MODULE AuthSessionProofs --------------------------
(***************************************************************************)
(* Proofs about AuthSession and the policy it loads, for any deployments   *)
(* and any documents: no operation is carried out for a token revoked      *)
(* before its request, the class ceiling of a role never decides, an       *)
(* inconsistent cycle shuts every operation that has a window, the order   *)
(* of a document's keys means nothing, and the workstream fits the cycle.  *)
(***************************************************************************)
EXTENDS AuthSession, TLAPS

-----------------------------------------------------------------------------
(* What a request under way is known to be *)

Stages == {"validate", "audit", "decide", "act"}

RequestShape ==
    \/ request = Idle
    \/ /\ request.stage \in Stages
       /\ request \in [stage : Stages, op : {request.op}, session : {request.session},
                       audited : {request.audited}, late : {request.late}]

\* A revocation ends when its token does.
RevocationsFit ==
    \A r \in revoked : \E d \in Deployment :
        d.token # None /\ r.jti = d.token.jti /\ r.until = d.token.exp

\* A request with a revoked token gets as far as the decision, without a
\* session.
LateStops ==
    request # Idle /\ UsesTable(deployment) =>
        /\ request.stage = "validate" /\ request.late =>
              /\ deployment.token # None
              /\ \E r \in revoked : /\ r.tenant = deployment.token.scope.tenant
                                    /\ r.jti = deployment.token.jti
        /\ request.stage = "audit" => ~request.late
        /\ request.stage = "decide" /\ request.session.verified =>
              ~request.late /\ request.audited
        /\ request.stage = "act" => ~request.late /\ request.audited

IInv ==
    /\ deployment \in Deployment
    /\ RequestShape
    /\ RevocationsFit
    /\ LateStops
    /\ ActsAreAccountedFor

-----------------------------------------------------------------------------
(* One lemma per step *)

LEMMA InitInv == Init => IInv
BY DEF Init, IInv, RequestShape, RevocationsFit, LateStops, ActsAreAccountedFor

LEMMA ArriveStep == ASSUME IInv, NEW op \in Asked, Arrive(op) PROVE IInv'
<1>1. /\ request' = [stage |-> "validate", op |-> op, session |-> NoSession,
                     audited |-> FALSE, late |-> request'.late]
      /\ request'.late = \E r \in revoked : /\ deployment.token # None
                                            /\ r.tenant = deployment.token.scope.tenant
                                            /\ r.jti = deployment.token.jti
  BY DEF Arrive
<1>2. RequestShape'
  <2>1. /\ request'.stage = "validate" /\ request'.op = op
        /\ request'.session = NoSession /\ request'.audited = FALSE
    BY <1>1
  <2> QED BY <1>1, <2>1 DEF RequestShape, Stages
<1>3. LateStops'
  BY <1>1 DEF LateStops, Arrive
<1> QED BY <1>2, <1>3 DEF Arrive, IInv, RevocationsFit, ActsAreAccountedFor

\* A step that takes a request to its decision.
LEMMA DecisionShape ==
    ASSUME RequestShape, request # Idle, NEW session, ToDecision(session)
    PROVE  /\ RequestShape' /\ request'.stage = "decide" /\ request'.session = session
           /\ request'.late = request.late /\ request'.audited = request.audited
BY DEF RequestShape, ToDecision, Stages

LEMMA LateIsRevoked ==
    ASSUME IInv, request.stage = "validate", request # Idle, request.late,
           UsesTable(deployment), Verifies(deployment, now)
    PROVE  Revoked(deployment.token)
<1>1. PICK r \in revoked : /\ r.tenant = deployment.token.scope.tenant
                           /\ r.jti = deployment.token.jti
  BY DEF IInv, LateStops
<1>2. PICK d \in Deployment : d.token # None /\ r.jti = d.token.jti /\ r.until = d.token.exp
  BY <1>1 DEF IInv, RevocationsFit
<1>3. deployment \in Deployment /\ deployment.token # None
  BY DEF IInv, LateStops
<1>4. r.until = deployment.token.exp
  BY <1>1, <1>2, <1>3, OneTokenPerId
<1>5. deployment.token.exp > now
  BY DEF Verifies, ClaimsOk
<1> QED BY <1>1, <1>4, <1>5 DEF Revoked

LEMMA ValidateStep == ASSUME IInv, Validate PROVE IInv'
<1>1. request.stage = "validate" /\ request # Idle /\ RequestShape
  BY DEF Validate, IInv, Idle
<1>2. UNCHANGED <<now, deployment, revoked, acted>>
  BY DEF Validate
<1>3. ASSUME NEW session, ToDecision(session),
             UsesTable(deployment) => ~session.verified
      PROVE  IInv'
  <2>1. /\ RequestShape' /\ request'.stage = "decide" /\ request'.session = session
    BY <1>1, <1>3, DecisionShape
  <2>2. LateStops'
    BY <2>1, <1>2, <1>3 DEF LateStops, UsesTable
  <2> QED BY <2>1, <2>2, <1>2 DEF IInv, RevocationsFit, ActsAreAccountedFor, UsesTable
<1>4. ~NoSession.verified
  BY DEF NoSession
<1>5. CASE ToDecision(NoSession)
  BY <1>3, <1>4, <1>5
<1>6. CASE deployment.source = "bypass" /\ ToDecision(BypassSession(deployment))
  BY <1>3, <1>6 DEF UsesTable
<1>7. CASE deployment.source = "env" /\ ToDecision(deployment.given)
  BY <1>3, <1>7 DEF UsesTable
<1>8. CASE deployment.mode = "off" /\ ToDecision(SessionOf(deployment.token))
  BY <1>3, <1>8 DEF UsesTable
<1>9. CASE /\ Verifies(deployment, now) /\ ~Revoked(deployment.token)
           /\ request' = [request EXCEPT !.stage = "audit"]
  <2>1. /\ RequestShape' /\ request'.stage = "audit" /\ request'.late = request.late
    BY <1>1, <1>9 DEF RequestShape, Stages
  <2>2. UsesTable(deployment) => ~request.late
    BY <1>1, <1>9, LateIsRevoked
  <2>3. LateStops'
    BY <2>1, <2>2, <1>2 DEF LateStops, UsesTable
  <2> QED BY <2>1, <2>3, <1>2 DEF IInv, RevocationsFit, ActsAreAccountedFor, UsesTable
<1> QED BY <1>5, <1>6, <1>7, <1>8, <1>9 DEF Validate

LEMMA AuditStep == ASSUME IInv, Audit PROVE IInv'
<1>1. request.stage = "audit" /\ request # Idle /\ RequestShape
  BY DEF Audit, IInv, Idle
<1>2. UNCHANGED <<now, deployment, revoked, acted>>
  BY DEF Audit
<1>3. UsesTable(deployment) => ~request.late
  BY <1>1 DEF IInv, LateStops
<1>4. CASE ToDecision(NoSession)
  <2>1. /\ RequestShape' /\ request'.stage = "decide" /\ request'.session = NoSession
    BY <1>1, <1>4, DecisionShape
  <2>2. LateStops'
    BY <2>1, <1>2 DEF LateStops, UsesTable, NoSession
  <2> QED BY <2>1, <2>2, <1>2 DEF IInv, RevocationsFit, ActsAreAccountedFor, UsesTable
<1>5. CASE request' = [request EXCEPT !.stage = "decide", !.audited = TRUE,
                                      !.session = SessionOf(deployment.token)]
  <2>1. /\ RequestShape' /\ request'.stage = "decide"
        /\ request'.late = request.late /\ request'.audited = TRUE
    BY <1>1, <1>5 DEF RequestShape, Stages
  <2>2. LateStops'
    BY <2>1, <1>2, <1>3 DEF LateStops, UsesTable
  <2> QED BY <2>1, <2>2, <1>2 DEF IInv, RevocationsFit, ActsAreAccountedFor, UsesTable
<1> QED BY <1>4, <1>5 DEF Audit

LEMMA DecideStep == ASSUME IInv, Decide PROVE IInv'
<1>1. request.stage = "decide" /\ request # Idle /\ RequestShape
  BY DEF Decide, IInv, Idle
<1>2. UNCHANGED <<now, deployment, revoked, acted>>
  BY DEF Decide
<1>3. CASE request' = Idle
  BY <1>2, <1>3 DEF IInv, RequestShape, RevocationsFit, LateStops, ActsAreAccountedFor, UsesTable
<1>4. CASE /\ Allowed(deployment, request.session, request.op, now)
           /\ request' = [request EXCEPT !.stage = "act"]
  <2>1. /\ RequestShape' /\ request'.stage = "act"
        /\ request'.late = request.late /\ request'.audited = request.audited
    BY <1>1, <1>4 DEF RequestShape, Stages
  <2>2. request.session.verified
    BY <1>4 DEF Allowed, Authenticated
  <2>3. LateStops'
    BY <2>1, <2>2, <1>1, <1>2 DEF IInv, LateStops, UsesTable
  <2> QED BY <2>1, <2>3, <1>2 DEF IInv, RevocationsFit, ActsAreAccountedFor, UsesTable
<1> QED BY <1>3, <1>4 DEF Decide

LEMMA ActStep == ASSUME IInv, Act PROVE IInv'
<1>1. request.stage = "act" /\ request # Idle
  BY DEF Act, IInv, Idle
<1>2. UsesTable(deployment) => ~request.late /\ request.audited
  BY <1>1 DEF IInv, LateStops
<1>3. acted'.late = request.late /\ acted'.audited = request.audited /\ request' = Idle
  BY DEF Act
<1> QED BY <1>2, <1>3 DEF Act, IInv, RequestShape, RevocationsFit, LateStops,
                          ActsAreAccountedFor, UsesTable

LEMMA RevokeStep == ASSUME IInv, Revoke PROVE IInv'
<1>1. UNCHANGED <<now, deployment, request, acted>> /\ revoked \subseteq revoked'
  BY DEF Revoke
<1>2. RevocationsFit'
  BY DEF Revoke, IInv, RevocationsFit
<1>3. LateStops'
  BY <1>1 DEF IInv, LateStops, UsesTable
<1> QED BY <1>1, <1>2, <1>3 DEF IInv, RequestShape, ActsAreAccountedFor, UsesTable

LEMMA StepInv == IInv /\ [Next]_vars => IInv'
<1> SUFFICES ASSUME IInv, [Next]_vars PROVE IInv'
  OBVIOUS
<1>1. CASE Tick
  BY <1>1 DEF Tick, IInv, RequestShape, RevocationsFit, LateStops, ActsAreAccountedFor, UsesTable
<1>2. CASE Stop
  BY <1>2 DEF Stop, IInv, RequestShape, RevocationsFit, LateStops, ActsAreAccountedFor, UsesTable
<1>3. ASSUME NEW d \in Deployment, Start(d) PROVE IInv'
  BY <1>3 DEF Start, IInv, RequestShape, RevocationsFit, LateStops, ActsAreAccountedFor
<1>4. CASE UNCHANGED vars
  BY <1>4 DEF vars, IInv, RequestShape, RevocationsFit, LateStops, ActsAreAccountedFor, UsesTable
<1> QED BY <1>1, <1>2, <1>3, <1>4, ArriveStep, ValidateStep, AuditStep, DecideStep,
           ActStep, RevokeStep DEF Next

LEMMA SpecInv == Spec => []IInv
BY InitInv, StepInv, PTL DEF Spec

\* Where the revocation table is in use, no operation is carried out for a
\* token revoked before its request arrived, nor without an audit row, however
\* lookup, audit, decision, revocations and the clock interleave.
THEOREM AccountedFor == Spec => []ActsAreAccountedFor
<1>1. IInv => ActsAreAccountedFor
  BY DEF IInv
<1> QED BY <1>1, SpecInv, PTL

-----------------------------------------------------------------------------
(* The policy a document gives *)

LEMMA ObjectDomain == ASSUME NEW s, IsObject(s) PROVE DOMAIN s = 1..Len(s) /\ Len(s) \in Nat
BY DEF IsObject

\* The parsed roles and operations of a document without colliding keys: each
\* is the only member of its canonical name.
LEMMA ParsedRole ==
    ASSUME NEW doc, RoleKeysDistinct(doc), DOMAIN doc.roles \subseteq Nat,
           NEW k \in DOMAIN ParsedRoles(doc)
    PROVE  \E i \in DOMAIN doc.roles :
              /\ RoleKey(doc.roles[i].key) = k
              /\ ParsedRoles(doc)[k] = RoleValue(doc.roles[i])
              /\ \A j \in DOMAIN doc.roles : RoleKey(doc.roles[j].key) = k => j = i
<1> DEFINE keys == [i \in DOMAIN doc.roles |-> RoleKey(doc.roles[i].key)]
<1>1. PICK i \in DOMAIN doc.roles : keys[i] = k
  BY DEF ParsedRoles
<1>2. \A j \in DOMAIN keys : keys[j] = k => j = i
  BY <1>1 DEF RoleKeysDistinct
<1>3. keys[LastNamed(keys, k)] = k /\ LastNamed(keys, k) \in DOMAIN keys
  <2>1. i \in DOMAIN keys /\ keys[i] = k /\ \A j \in DOMAIN keys : keys[j] = k => j <= i
    BY <1>1, <1>2
  <2> QED BY <2>1 DEF LastNamed
<1>4. LastNamed(keys, k) = i
  BY <1>2, <1>3
<1>5. ParsedRoles(doc)[k] = RoleValue(doc.roles[LastNamed(keys, k)])
  BY DEF ParsedRoles
<1> QED BY <1>1, <1>2, <1>4, <1>5

LEMMA ParsedOp ==
    ASSUME NEW doc, OpKeysDistinct(doc), DOMAIN doc.ops \subseteq Nat,
           NEW k \in DOMAIN ParsedOps(doc)
    PROVE  \E i \in DOMAIN doc.ops :
              /\ doc.ops[i].key.name = k
              /\ ParsedOps(doc)[k] = OpValue(doc.ops[i])
              /\ \A j \in DOMAIN doc.ops : doc.ops[j].key.name = k => j = i
<1> DEFINE keys == [i \in DOMAIN doc.ops |-> OpKey(doc.ops[i].key)]
<1>1. PICK i \in DOMAIN doc.ops : keys[i] = k
  BY DEF ParsedOps
<1>2. \A j \in DOMAIN keys : keys[j] = k => j = i
  BY <1>1 DEF OpKeysDistinct
<1>3. keys[LastNamed(keys, k)] = k /\ LastNamed(keys, k) \in DOMAIN keys
  <2>1. i \in DOMAIN keys /\ keys[i] = k /\ \A j \in DOMAIN keys : keys[j] = k => j <= i
    BY <1>1, <1>2
  <2> QED BY <2>1 DEF LastNamed
<1>4. LastNamed(keys, k) = i
  BY <1>2, <1>3
<1>5. ParsedOps(doc)[k] = OpValue(doc.ops[LastNamed(keys, k)])
  BY DEF ParsedOps
<1> QED BY <1>1, <1>2, <1>4, <1>5 DEF OpKey

\* The rank of a class is a number, so that a ceiling can be compared.
LEMMA ClassRanked ==
    ASSUME NEW doc, DocumentOk(doc), DOMAIN doc.ops \subseteq Nat, NEW op \in Operation
    PROVE  OpPolicy(ParsedOps(doc), op).class \in DataClass
<1>1. CASE op \in DOMAIN ParsedOps(doc)
  <2>1. PICK i \in DOMAIN doc.ops : ParsedOps(doc)[op] = OpValue(doc.ops[i])
    BY <1>1, ParsedOp DEF DocumentOk
  <2> QED BY <1>1, <2>1 DEF DocumentOk, OpEntryOk, OpPolicy, OpValue
<1>2. CASE op \notin DOMAIN ParsedOps(doc)
  BY <1>2 DEF OpPolicy, BuiltinOp, BuiltinClass, DataClass, ClassRank
<1> QED BY <1>1, <1>2

LEMMA RanksAreNumbers == \A class \in DataClass : ClassRank[class] \in Int
BY DEF DataClass, ClassRank

\* Every grant of a policy is one the ceiling of its role can exercise.
GrantsLive(policy) ==
    \A role \in DOMAIN policy.roles : \A op \in Operation :
        policy.roles[role].grants \cap {"*", op} # {} =>
            ~(ClassRank[policy.roles[role].ceiling] < ClassRank[OpPolicy(policy.ops, op).class])

LEMMA DocumentGrants ==
    ASSUME NEW doc, IsDocument(doc), doc # None, LoadPolicy(doc) # Invalid
    PROVE  GrantsLive(LoadPolicy(doc))
<1>1. /\ DocumentOk(doc) /\ DOMAIN doc.ops \subseteq Nat /\ DOMAIN doc.roles \subseteq Nat
      /\ LoadPolicy(doc) = [id |-> doc.id, roles |-> ParsedRoles(doc), ops |-> ParsedOps(doc)]
  BY ObjectDomain DEF LoadPolicy, IsDocument
<1> SUFFICES ASSUME NEW role \in DOMAIN ParsedRoles(doc), NEW op \in Operation,
                    ParsedRoles(doc)[role].grants \cap {"*", op} # {}
             PROVE  ~(ClassRank[ParsedRoles(doc)[role].ceiling]
                        < ClassRank[OpPolicy(ParsedOps(doc), op).class])
  BY <1>1 DEF GrantsLive
<1>2. PICK i \in DOMAIN doc.roles : ParsedRoles(doc)[role] = RoleValue(doc.roles[i])
  BY <1>1, ParsedRole DEF DocumentOk
<1>3. RoleEntryOk(doc.roles[i], ParsedOps(doc))
  BY <1>1 DEF DocumentOk
<1>4. PICK grant \in doc.roles[i].grants : grant \in {"*", op}
  BY <1>2 DEF RoleValue
<1>5. op \in Granted(grant)
  BY <1>4 DEF Granted
<1>6. /\ ParsedRoles(doc)[role].ceiling \in DataClass
      /\ ClassRank[ParsedRoles(doc)[role].ceiling] >= ClassRank[OpPolicy(ParsedOps(doc), op).class]
  BY <1>2, <1>3, <1>4, <1>5 DEF RoleEntryOk, RoleValue
<1> QED BY <1>1, <1>6, ClassRanked, RanksAreNumbers

LEMMA BuiltinGrants == GrantsLive(Builtin)
<1> SUFFICES ASSUME NEW role \in DOMAIN BuiltinRoles, NEW op \in Operation,
                    BuiltinRoles[role].grants \cap {"*", op} # {}
             PROVE  ~(ClassRank[BuiltinRoles[role].ceiling] < ClassRank[BuiltinClass(op)])
  BY DEF GrantsLive, Builtin, OpPolicy, BuiltinOp
<1>1. ClassRank[BuiltinClass(op)] =
        IF op \in RoutineOps THEN 0
        ELSE IF op \in HrOps \cup ArchiveOps THEN 1
        ELSE IF op \in PayrollOps THEN 2 ELSE 3
  BY DEF ClassRank, BuiltinClass
<1>2. op \in BuiltinRoles[role].grants \/ "*" \in BuiltinRoles[role].grants
  OBVIOUS
<1>3. CASE role = "payroll_operator"
  BY <1>1, <1>2, <1>3 DEF BuiltinRoles, Role, ClassRank, RoutineOps, HrOps, ArchiveOps, PayrollOps
<1>4. CASE role = "payroll_manager"
  BY <1>1, <1>2, <1>4 DEF BuiltinRoles, Role, ClassRank, RoutineOps, HrOps, ArchiveOps, PayrollOps
<1>5. CASE role = "hr_operator"
  BY <1>1, <1>2, <1>5 DEF BuiltinRoles, Role, ClassRank, RoutineOps, HrOps, ArchiveOps, PayrollOps
<1>6. CASE role = "hr_manager"
  BY <1>1, <1>2, <1>6 DEF BuiltinRoles, Role, ClassRank, RoutineOps, HrOps, ArchiveOps, PayrollOps
<1>7. CASE role = "approval_signer"
  BY <1>1, <1>2, <1>7 DEF BuiltinRoles, Role, ClassRank, RoutineOps, HrOps, ArchiveOps, PayrollOps
<1>8. CASE role \in {"it_security_admin", "platform_owner"}
  BY <1>1, <1>8 DEF BuiltinRoles, Role, ClassRank
<1>9. CASE role = "support_sre"
  BY <1>1, <1>2, <1>9 DEF BuiltinRoles, Role, ClassRank, RoutineOps
<1> QED BY <1>3, <1>4, <1>5, <1>6, <1>7, <1>8, <1>9 DEF BuiltinRoles

\* Whatever document a server is started with, the class ceiling of a role
\* never decides a request: a document that grants an operation beyond it
\* does not load.
THEOREM GrantsNeverDead == Spec => []NoDeadGrant
<1>1. IInv => NoDeadGrant
  <2> SUFFICES ASSUME IInv PROVE NoDeadGrant
    OBVIOUS
  <2> DEFINE policy == PolicyOf(deployment)
  <2> SUFFICES ASSUME policy # Invalid, NEW role \in DOMAIN policy.roles, NEW op \in Operation
               PROVE  Decision(policy, BestRequest(policy, role, op, State(deployment)))
                        # "abac_data_denied"
    BY DEF NoDeadGrant
  <2>1. GrantsLive(policy)
    <3>1. IsDocument(deployment.document)
      BY DocumentsAssumption DEF IInv
    <3> QED BY <3>1, DocumentGrants, BuiltinGrants DEF PolicyOf, LoadPolicy
  <2> DEFINE r == BestRequest(policy, role, op, State(deployment))
             own == NormalizeRole(role)
  <2>2. r.op = op /\ r.role = role
    BY DEF BestRequest
  <2>3. Permits(policy, own, op) =>
          ~(ClassRank[policy.roles[own].ceiling] < ClassRank[OpPolicy(policy.ops, op).class])
    BY <2>1 DEF GrantsLive, Permits
  <2>4. ASSUME NEW p, NEW q, q.op = op, q.role = role,
               Permits(p, own, op) =>
                 ~(ClassRank[p.roles[own].ceiling] < ClassRank[OpPolicy(p.ops, op).class])
        PROVE  Decision(p, q) # "abac_data_denied"
    BY <2>4 DEF Decision
  <2> QED BY <2>2, <2>3, <2>4
<1> QED BY <1>1, SpecInv, PTL

-----------------------------------------------------------------------------
(* The workflow windows *)

WindowOf(doc, op) == OpPolicy(LoadPolicy(doc).ops, op).window

LEMMA WindowWritten ==
    ASSUME NEW doc, IsDocument(doc), LoadPolicy(doc) # Invalid, NEW op \in Operation
    PROVE  /\ WrittenWindows(doc, op) = {WindowOf(doc, op)}
           /\ WindowOf(doc, op) # None => "inconsistent" \notin WindowOf(doc, op)
<1>1. BuiltinWindow(op) # None => "inconsistent" \notin BuiltinWindow(op)
  BY DEF BuiltinWindow
<1>2. CASE doc = None
  BY <1>1, <1>2 DEF LoadPolicy, Builtin, OpPolicy, BuiltinOp, WrittenWindows, WindowOf
<1>3. CASE doc # None
  <2>1. /\ DocumentOk(doc) /\ LoadPolicy(doc).ops = ParsedOps(doc)
        /\ DOMAIN doc.ops \subseteq Nat
    BY <1>3, ObjectDomain DEF LoadPolicy, IsDocument
  <2>2. CASE op \in DOMAIN ParsedOps(doc)
    <3>1. PICK i \in DOMAIN doc.ops :
              /\ doc.ops[i].key.name = op
              /\ ParsedOps(doc)[op] = OpValue(doc.ops[i])
              /\ \A j \in DOMAIN doc.ops : doc.ops[j].key.name = op => j = i
      BY <2>1, <2>2, ParsedOp DEF DocumentOk
    <3>2. WindowOf(doc, op) = doc.ops[i].window
      BY <2>1, <2>2, <3>1 DEF WindowOf, OpPolicy, OpValue
    <3>3. WrittenWindows(doc, op) = {doc.ops[i].window}
      BY <1>3, <3>1 DEF WrittenWindows
    <3>4. doc.ops[i].window # None => "inconsistent" \notin doc.ops[i].window
      BY <2>1 DEF DocumentOk, OpEntryOk, CycleState
    <3> QED BY <3>2, <3>3, <3>4
  <2>3. CASE op \notin DOMAIN ParsedOps(doc)
    <3>1. \A i \in DOMAIN doc.ops : doc.ops[i].key.name # op
      BY <2>3 DEF ParsedOps, OpKey
    <3>2. WrittenWindows(doc, op) = {BuiltinWindow(op)}
      BY <1>3, <3>1 DEF WrittenWindows
    <3>3. WindowOf(doc, op) = BuiltinWindow(op)
      BY <2>1, <2>3 DEF WindowOf, OpPolicy, BuiltinOp
    <3> QED BY <1>1, <3>2, <3>3
  <2> QED BY <2>2, <2>3
<1> QED BY <1>2, <1>3

\* While the flags of the payroll cycle contradict each other, no role is
\* authorised for an operation with a workflow window, whatever the document.
THEOREM InconsistencyShuts == Spec => []InconsistentCycleShuts
<1>1. IInv => InconsistentCycleShuts
  <2> DEFINE policy == PolicyOf(deployment)
             doc == deployment.document
  <2> SUFFICES ASSUME IInv, State(deployment) = "inconsistent", policy # Invalid,
                      NEW role \in DOMAIN policy.roles, NEW op \in Operation,
                      Decision(policy, BestRequest(policy, role, op, State(deployment)))
                        = "authorized"
               PROVE  WrittenWindows(doc, op) = {None}
    BY DEF InconsistentCycleShuts
  <2>1. WorkflowAllows(policy, op, "inconsistent")
    BY DEF Decision, BestRequest
  <2>2. IsDocument(doc) /\ policy = LoadPolicy(doc)
    BY DocumentsAssumption DEF IInv, PolicyOf
  <2>3. WindowOf(doc, op) = None \/ "inconsistent" \in WindowOf(doc, op)
    BY <2>1, <2>2 DEF WorkflowAllows, WindowOf
  <2>4. /\ WrittenWindows(doc, op) = {WindowOf(doc, op)}
        /\ WindowOf(doc, op) # None => "inconsistent" \notin WindowOf(doc, op)
    BY <2>2, WindowWritten
  <2> QED BY <2>3, <2>4
<1> QED BY <1>1, SpecInv, PTL
-----------------------------------------------------------------------------
(* The order of a document's keys *)

\* The members of s stand in t, each at the mirrored place.
Mirrored(s, t) ==
    /\ IsObject(s) /\ IsObject(t)
    /\ Len(t) = Len(s)
    /\ \A i \in 1..Len(s) : t[Len(s) + 1 - i] = s[i] /\ s[Len(s) + 1 - i] = t[i]

LEMMA ReversedMirrors == ASSUME NEW s, IsObject(s) PROVE Mirrored(s, Reversed(s))
<1> DEFINE S == {s[i] : i \in DOMAIN s}
           t == Reversed(s)
<1>1. s \in Seq(S) /\ DOMAIN s = 1..Len(s) /\ Len(s) \in Nat
  BY ObjectDomain DEF IsObject
<1>2. \A i \in 1..Len(s) : Len(s) + 1 - i \in 1..Len(s) /\ Len(s) + 1 - (Len(s) + 1 - i) = i
  BY <1>1
<1> HIDE DEF S
<1>3. t = [i \in 1..Len(s) |-> s[Len(s) + 1 - i]]
  BY <1>1 DEF Reversed
<1>4. \A i \in 1..Len(s) : t[i] = s[Len(s) + 1 - i] /\ t[Len(s) + 1 - i] = s[i]
  BY <1>2, <1>3
<1>5. t \in Seq({t[i] : i \in DOMAIN t}) /\ Len(t) = Len(s)
  <2> DEFINE T == {t[i] : i \in DOMAIN t}
             n == Len(s)
  <2>1. DOMAIN t = 1..n /\ n \in Nat
    BY <1>1, <1>3
  <2>2. t = [i \in 1..n |-> t[i]] /\ \A i \in 1..n : t[i] \in T
    BY <1>3, <2>1
  <2> HIDE DEF T, t, n
  <2>3. t \in [1..n -> T]
    BY <2>2
  <2>4. t \in Seq(T) /\ Len(t) = n
    BY <2>1, <2>3
  <2> QED BY <2>4 DEF T, n
<1> QED BY <1>1, <1>4, <1>5 DEF Mirrored, IsObject

\* Two documents that differ in the order of their keys only.
SameMembers(doc, other) ==
    /\ doc.id = other.id
    /\ Mirrored(doc.ops, other.ops)
    /\ Mirrored(doc.roles, other.roles)

LEMMA OpsUnordered ==
    ASSUME NEW doc, NEW other, SameMembers(doc, other), OpKeysDistinct(doc)
    PROVE  OpKeysDistinct(other) /\ ParsedOps(other) = ParsedOps(doc)
<1> DEFINE n == Len(doc.ops)
           m(i) == n + 1 - i
<1>1. /\ DOMAIN doc.ops = 1..n /\ DOMAIN other.ops = 1..n /\ n \in Nat
      /\ \A i \in 1..n : m(i) \in 1..n /\ other.ops[i] = doc.ops[m(i)]
                         /\ other.ops[m(i)] = doc.ops[i]
  BY ObjectDomain DEF SameMembers, Mirrored
<1>2. \A i, j \in 1..n : m(i) = m(j) => i = j
  BY <1>1
<1> HIDE DEF n, m
<1>3. OpKeysDistinct(other)
  <2>1. ASSUME NEW i \in 1..n, NEW j \in 1..n,
               OpKey(other.ops[i].key) = OpKey(other.ops[j].key)
        PROVE  i = j
    <3>1. other.ops[i] = doc.ops[m(i)] /\ other.ops[j] = doc.ops[m(j)]
      BY <1>1
    <3>2. m(i) \in DOMAIN doc.ops /\ m(j) \in DOMAIN doc.ops
      BY <1>1
    <3>3. OpKey(doc.ops[m(i)].key) = OpKey(doc.ops[m(j)].key)
      BY <2>1, <3>1
    <3>4. m(i) = m(j)
      BY <3>2, <3>3 DEF OpKeysDistinct
    <3> QED BY <1>2, <3>4
  <2>2. DOMAIN other.ops = 1..n
    BY <1>1
  <2> QED BY <2>1, <2>2 DEF OpKeysDistinct
<1>4. DOMAIN ParsedOps(other) = DOMAIN ParsedOps(doc)
  <2>1. /\ DOMAIN ParsedOps(doc) = {OpKey(doc.ops[i].key) : i \in 1..n}
        /\ DOMAIN ParsedOps(other) = {OpKey(other.ops[i].key) : i \in 1..n}
    BY <1>1 DEF ParsedOps
  <2>2. /\ \A i \in 1..n : \E j \in 1..n : other.ops[j] = doc.ops[i]
        /\ \A i \in 1..n : \E j \in 1..n : doc.ops[j] = other.ops[i]
    BY <1>1
  <2>3. {OpKey(doc.ops[i].key) : i \in 1..n} = {OpKey(other.ops[i].key) : i \in 1..n}
    BY <2>2
  <2> QED BY <2>1, <2>3
<1>5. ASSUME NEW k \in DOMAIN ParsedOps(doc)
      PROVE  ParsedOps(other)[k] = ParsedOps(doc)[k]
  <2>0. DOMAIN doc.ops \subseteq Nat /\ DOMAIN other.ops \subseteq Nat
    BY <1>1
  <2>1. PICK i \in DOMAIN doc.ops :
            /\ doc.ops[i].key.name = k
            /\ ParsedOps(doc)[k] = OpValue(doc.ops[i])
            /\ \A j \in DOMAIN doc.ops : doc.ops[j].key.name = k => j = i
    BY <2>0, ParsedOp
  <2>2. PICK j \in DOMAIN other.ops :
            /\ other.ops[j].key.name = k
            /\ ParsedOps(other)[k] = OpValue(other.ops[j])
    BY <1>3, <1>4, <2>0, ParsedOp
  <2>3. m(j) \in DOMAIN doc.ops /\ other.ops[j] = doc.ops[m(j)]
    BY <1>1, <2>2
  <2>4. doc.ops[m(j)].key.name = k
    BY <2>2, <2>3
  <2>5. m(j) = i
    BY <2>1, <2>3, <2>4
  <2>6. other.ops[j] = doc.ops[i]
    BY <2>3, <2>5
  <2> QED BY <2>1, <2>2, <2>6
<1>6. /\ ParsedOps(doc) = [k \in DOMAIN ParsedOps(doc) |-> ParsedOps(doc)[k]]
      /\ ParsedOps(other) = [k \in DOMAIN ParsedOps(other) |-> ParsedOps(other)[k]]
  BY DEF ParsedOps
<1>7. ParsedOps(other) = ParsedOps(doc)
  BY <1>4, <1>5, <1>6
<1> QED BY <1>3, <1>7

LEMMA RolesUnordered ==
    ASSUME NEW doc, NEW other, SameMembers(doc, other), RoleKeysDistinct(doc)
    PROVE  RoleKeysDistinct(other) /\ ParsedRoles(other) = ParsedRoles(doc)
<1> DEFINE n == Len(doc.roles)
           m(i) == n + 1 - i
<1>1. /\ DOMAIN doc.roles = 1..n /\ DOMAIN other.roles = 1..n /\ n \in Nat
      /\ \A i \in 1..n : m(i) \in 1..n /\ other.roles[i] = doc.roles[m(i)]
                         /\ other.roles[m(i)] = doc.roles[i]
  BY ObjectDomain DEF SameMembers, Mirrored
<1>2. \A i, j \in 1..n : m(i) = m(j) => i = j
  BY <1>1
<1> HIDE DEF n, m
<1>3. RoleKeysDistinct(other)
  <2>1. ASSUME NEW i \in 1..n, NEW j \in 1..n,
               RoleKey(other.roles[i].key) = RoleKey(other.roles[j].key)
        PROVE  i = j
    <3>1. other.roles[i] = doc.roles[m(i)] /\ other.roles[j] = doc.roles[m(j)]
      BY <1>1
    <3>2. m(i) \in DOMAIN doc.roles /\ m(j) \in DOMAIN doc.roles
      BY <1>1
    <3>3. RoleKey(doc.roles[m(i)].key) = RoleKey(doc.roles[m(j)].key)
      BY <2>1, <3>1
    <3>4. m(i) = m(j)
      BY <3>2, <3>3 DEF RoleKeysDistinct
    <3> QED BY <1>2, <3>4
  <2>2. DOMAIN other.roles = 1..n
    BY <1>1
  <2> QED BY <2>1, <2>2 DEF RoleKeysDistinct
<1>4. DOMAIN ParsedRoles(other) = DOMAIN ParsedRoles(doc)
  <2>1. /\ DOMAIN ParsedRoles(doc) = {RoleKey(doc.roles[i].key) : i \in 1..n}
        /\ DOMAIN ParsedRoles(other) = {RoleKey(other.roles[i].key) : i \in 1..n}
    BY <1>1 DEF ParsedRoles
  <2>2. /\ \A i \in 1..n : \E j \in 1..n : other.roles[j] = doc.roles[i]
        /\ \A i \in 1..n : \E j \in 1..n : doc.roles[j] = other.roles[i]
    BY <1>1
  <2>3. {RoleKey(doc.roles[i].key) : i \in 1..n} = {RoleKey(other.roles[i].key) : i \in 1..n}
    BY <2>2
  <2> QED BY <2>1, <2>3
<1>5. ASSUME NEW k \in DOMAIN ParsedRoles(doc)
      PROVE  ParsedRoles(other)[k] = ParsedRoles(doc)[k]
  <2>0. DOMAIN doc.roles \subseteq Nat /\ DOMAIN other.roles \subseteq Nat
    BY <1>1
  <2>1. PICK i \in DOMAIN doc.roles :
            /\ RoleKey(doc.roles[i].key) = k
            /\ ParsedRoles(doc)[k] = RoleValue(doc.roles[i])
            /\ \A j \in DOMAIN doc.roles : RoleKey(doc.roles[j].key) = k => j = i
    BY <2>0, ParsedRole
  <2>2. PICK j \in DOMAIN other.roles :
            /\ RoleKey(other.roles[j].key) = k
            /\ ParsedRoles(other)[k] = RoleValue(other.roles[j])
    BY <1>3, <1>4, <2>0, ParsedRole
  <2>3. m(j) \in DOMAIN doc.roles /\ other.roles[j] = doc.roles[m(j)]
    BY <1>1, <2>2
  <2>4. RoleKey(doc.roles[m(j)].key) = k
    BY <2>2, <2>3
  <2>5. m(j) = i
    BY <2>1, <2>3, <2>4
  <2>6. other.roles[j] = doc.roles[i]
    BY <2>3, <2>5
  <2> QED BY <2>1, <2>2, <2>6
<1>6. /\ ParsedRoles(doc) = [k \in DOMAIN ParsedRoles(doc) |-> ParsedRoles(doc)[k]]
      /\ ParsedRoles(other) = [k \in DOMAIN ParsedRoles(other) |-> ParsedRoles(other)[k]]
  BY DEF ParsedRoles
<1>7. ParsedRoles(other) = ParsedRoles(doc)
  BY <1>4, <1>5, <1>6
<1> QED BY <1>3, <1>7

\* A document is accepted or not, whatever the order of its keys.
LEMMA AcceptedUnordered ==
    ASSUME NEW doc, NEW other, SameMembers(doc, other), DocumentOk(doc)
    PROVE  DocumentOk(other)
<1>1. OpKeysDistinct(other) /\ RoleKeysDistinct(other) /\ ParsedOps(other) = ParsedOps(doc)
  BY OpsUnordered, RolesUnordered DEF DocumentOk
<1>2. \A i \in DOMAIN other.ops : \E j \in DOMAIN doc.ops : other.ops[i] = doc.ops[j]
  <2>1. /\ DOMAIN doc.ops = 1..Len(doc.ops) /\ DOMAIN other.ops = 1..Len(doc.ops)
        /\ \A i \in 1..Len(doc.ops) : /\ Len(doc.ops) + 1 - i \in 1..Len(doc.ops)
                                      /\ other.ops[i] = doc.ops[Len(doc.ops) + 1 - i]
    BY ObjectDomain DEF SameMembers, Mirrored
  <2> QED BY <2>1
<1>3. \A i \in DOMAIN other.roles : \E j \in DOMAIN doc.roles : other.roles[i] = doc.roles[j]
  <2>1. /\ DOMAIN doc.roles = 1..Len(doc.roles) /\ DOMAIN other.roles = 1..Len(doc.roles)
        /\ \A i \in 1..Len(doc.roles) :
              /\ Len(doc.roles) + 1 - i \in 1..Len(doc.roles)
              /\ other.roles[i] = doc.roles[Len(doc.roles) + 1 - i]
    BY ObjectDomain DEF SameMembers, Mirrored
  <2> QED BY <2>1
<1>4. other.roles # <<>>
  <2>1. doc.roles # <<>> /\ doc.roles \in Seq({doc.roles[i] : i \in DOMAIN doc.roles})
    BY DEF DocumentOk, SameMembers, Mirrored, IsObject
  <2>2. Len(doc.roles) # 0
    BY <2>1
  <2> QED BY <2>2 DEF SameMembers, Mirrored
<1>5. doc.id = other.id
  BY DEF SameMembers
<1> QED BY <1>1, <1>2, <1>3, <1>4, <1>5 DEF DocumentOk

\* A document with other operations and roles, as KeyOrderIrrelevant turns it.
WithMembers(doc, x, y) == [doc EXCEPT !.ops = x, !.roles = y]

LEMMA Members ==
    ASSUME NEW doc, NEW x, NEW y,
           doc = [id |-> doc.id, ops |-> doc.ops, roles |-> doc.roles]
    PROVE  WithMembers(doc, x, y) = [id |-> doc.id, ops |-> x, roles |-> y]
<1>1. PICK id, ops, roles :
          /\ doc = [id |-> id, ops |-> ops, roles |-> roles]
          /\ doc.id = id
  OBVIOUS
<1>2. doc \in [id : {id}, ops : {ops}, roles : {roles}]
  BY <1>1
<1>3. [doc EXCEPT !.ops = x, !.roles = y] \in [id : {id}, ops : {x}, roles : {y}]
  BY <1>2
<1>4. ASSUME NEW e \in [id : {id}, ops : {x}, roles : {y}]
      PROVE  e = [id |-> id, ops |-> x, roles |-> y]
  OBVIOUS
<1> QED BY <1>1, <1>3, <1>4 DEF WithMembers

\* Where the markers for a missing and an unreadable document are no documents,
\* what any document means does not depend on the order of its keys.
THEOREM DocumentsUnordered ==
    ASSUME \A id, ops, roles :
              [id |-> id, ops |-> ops, roles |-> roles] \notin {None, Invalid}
    PROVE  Spec => []KeyOrderIrrelevant
<1>1. IInv => KeyOrderIrrelevant
  <2> SUFFICES ASSUME NEW doc, IsDocument(doc), doc \notin {None, Invalid}
               PROVE  LoadPolicy(WithMembers(doc, Reversed(doc.ops), Reversed(doc.roles)))
                        = LoadPolicy(doc)
    BY DocumentsAssumption DEF IInv, KeyOrderIrrelevant, WithMembers
  <2> DEFINE other == WithMembers(doc, Reversed(doc.ops), Reversed(doc.roles))
  <2>1. /\ doc = [id |-> doc.id, ops |-> doc.ops, roles |-> doc.roles]
        /\ IsObject(doc.ops) /\ IsObject(doc.roles)
    BY DEF IsDocument
  <2>2. other = [id |-> doc.id, ops |-> Reversed(doc.ops), roles |-> Reversed(doc.roles)]
    BY <2>1, Members
  <2>3. /\ other \notin {None, Invalid}
        /\ other.id = doc.id
        /\ other.ops = Reversed(doc.ops) /\ other.roles = Reversed(doc.roles)
    BY <2>2
  <2> HIDE DEF other
  <2>4. Mirrored(doc.ops, other.ops) /\ Mirrored(doc.roles, other.roles)
    BY <2>1, <2>3, ReversedMirrors
  <2>5. SameMembers(doc, other) /\ SameMembers(other, doc)
    BY <2>3, <2>4 DEF SameMembers, Mirrored
  <2>6. DocumentOk(other) <=> DocumentOk(doc)
    BY <2>5, AcceptedUnordered
  <2>7. DocumentOk(doc) => /\ ParsedOps(other) = ParsedOps(doc)
                           /\ ParsedRoles(other) = ParsedRoles(doc)
    BY <2>5, OpsUnordered, RolesUnordered DEF DocumentOk
  <2>8. LoadPolicy(other) = LoadPolicy(doc)
    BY <2>3, <2>6, <2>7 DEF LoadPolicy
  <2> QED BY <2>8 DEF other
<1> QED BY <1>1, SpecInv, PTL
-----------------------------------------------------------------------------
(* The workstream and the state of the cycle *)

\* The members of a sequence.
Elements(s) == {s[i] : i \in DOMAIN s}

LEMMA ElementsOfJoin ==
    ASSUME NEW S, NEW s \in Seq(S), NEW t \in Seq(S)
    PROVE  /\ s \o t \in Seq(S)
           /\ Elements(s \o t) = Elements(s) \cup Elements(t)
<1>1. /\ DOMAIN s = 1..Len(s) /\ DOMAIN t = 1..Len(t) /\ DOMAIN (s \o t) = 1..(Len(s) + Len(t))
      /\ Len(s) \in Nat /\ Len(t) \in Nat
      /\ \A i \in 1..Len(s) : (s \o t)[i] = s[i]
      /\ \A i \in 1..Len(t) : (s \o t)[Len(s) + i] = t[i]
      /\ \A i \in 1..(Len(s) + Len(t)) : i \notin 1..Len(s) => /\ i - Len(s) \in 1..Len(t)
                                                              /\ (s \o t)[i] = t[i - Len(s)]
  OBVIOUS
<1>2. ASSUME NEW i \in 1..(Len(s) + Len(t))
      PROVE  (s \o t)[i] \in Elements(s) \cup Elements(t)
  BY <1>1 DEF Elements
<1>3. ASSUME NEW i \in 1..Len(s) PROVE s[i] \in Elements(s \o t)
  <2>1. i \in 1..(Len(s) + Len(t)) /\ (s \o t)[i] = s[i]
    BY <1>1
  <2> QED BY <1>1, <2>1 DEF Elements
<1>4. ASSUME NEW i \in 1..Len(t) PROVE t[i] \in Elements(s \o t)
  <2>1. Len(s) + i \in 1..(Len(s) + Len(t)) /\ (s \o t)[Len(s) + i] = t[i]
    BY <1>1
  <2> QED BY <1>1, <2>1 DEF Elements
<1>5. s \o t \in Seq(S)
  OBVIOUS
<1> QED BY <1>1, <1>2, <1>3, <1>4, <1>5 DEF Elements

\* The steps of the close in their order, and the flags that complete them.
Ids == <<"close-attendance", "close-payroll-inputs", "review-deductions", "run-calculation",
         "request-approval", "prepare-payout", "archive-payroll-evidence">>
Done(c) == <<c.attendance_closed, c.inputs_closed, c.deductions_reviewed, c.calculated,
             c.approval_requested, c.payout_prepared, c.evidence_archived>>
Status == {"completed", "ready", "waiting", "blocked"}
SetupId == {"set-payroll-scope", "configure-access"}
CloseId == {Ids[i] : i \in 1..7}
SomeStep == [id : SetupId \cup CloseId, status : Status]

\* A step of the close is completed when its flag says so, and offered when the
\* platform is ready and the flags before its own are set.
LEMMA CloseStep ==
    ASSUME NEW c \in [Flag -> BOOLEAN]
    PROVE  /\ CloseSteps(c) \in Seq(SomeStep) /\ Len(CloseSteps(c)) = 7
           /\ \A i \in 1..7 :
                /\ CloseSteps(c)[i].id = Ids[i]
                /\ CloseSteps(c)[i].status = "completed" <=> Done(c)[i]
                /\ CloseSteps(c)[i].status = "ready" =>
                      /\ PlatformReady(c) /\ ~Done(c)[i]
                      /\ \A j \in 1..7 : j < i => Done(c)[j]
<1> DEFINE s == CloseSteps(c)
<1>1. /\ s[1] \in SomeStep
      /\ s[1].id = "close-attendance"
      /\ s[1].status = "completed" <=> c.attendance_closed
      /\ s[1].status = "ready" => /\ PlatformReady(c) /\ ~c.attendance_closed
  <2>1. \E status \in Status : s[1] = Step("close-attendance", status)
    <3>1. Sequential(c.attendance_closed, PlatformReady(c)) \in Status
      BY DEF Sequential, Status
    <3> QED BY <3>1 DEF CloseSteps
  <2>2. s[1].status = IF c.attendance_closed THEN "completed"
                      ELSE IF PlatformReady(c) THEN "ready"
                      ELSE "waiting"
    BY DEF CloseSteps, Step, Sequential
  <2> HIDE DEF s
  <2>3. s[1] \in SomeStep /\ s[1].id = "close-attendance"
    <3>1. "close-attendance" \in CloseId
      BY DEF Ids, CloseId
    <3> QED BY <2>1, <3>1 DEF Step, SomeStep
  <2> QED BY <2>2, <2>3 DEF ApprovalAvailable, CalculatedChain, InputsTrio
<1>2. /\ s[2] \in SomeStep
      /\ s[2].id = "close-payroll-inputs"
      /\ s[2].status = "completed" <=> c.inputs_closed
      /\ s[2].status = "ready" => /\ PlatformReady(c) /\ ~c.inputs_closed
                                  /\ c.attendance_closed
  <2>1. \E status \in Status : s[2] = Step("close-payroll-inputs", status)
    <3>1. Sequential(c.inputs_closed, PlatformReady(c) /\ c.attendance_closed) \in Status
      BY DEF Sequential, Status
    <3> QED BY <3>1 DEF CloseSteps
  <2>2. s[2].status = IF c.inputs_closed THEN "completed"
                      ELSE IF PlatformReady(c) /\ c.attendance_closed THEN "ready"
                      ELSE "waiting"
    BY DEF CloseSteps, Step, Sequential
  <2> HIDE DEF s
  <2>3. s[2] \in SomeStep /\ s[2].id = "close-payroll-inputs"
    <3>1. "close-payroll-inputs" \in CloseId
      BY DEF Ids, CloseId
    <3> QED BY <2>1, <3>1 DEF Step, SomeStep
  <2> QED BY <2>2, <2>3 DEF ApprovalAvailable, CalculatedChain, InputsTrio
<1>3. /\ s[3] \in SomeStep
      /\ s[3].id = "review-deductions"
      /\ s[3].status = "completed" <=> c.deductions_reviewed
      /\ s[3].status = "ready" => /\ PlatformReady(c) /\ ~c.deductions_reviewed
                                  /\ c.attendance_closed /\ c.inputs_closed
  <2>1. \E status \in Status : s[3] = Step("review-deductions", status)
    <3>1. Sequential(c.deductions_reviewed,
                     PlatformReady(c) /\ c.attendance_closed /\ c.inputs_closed) \in Status
      BY DEF Sequential, Status
    <3> QED BY <3>1 DEF CloseSteps
  <2>2. s[3].status = IF c.deductions_reviewed THEN "completed"
                      ELSE IF PlatformReady(c) /\ c.attendance_closed /\ c.inputs_closed
                        THEN "ready"
                      ELSE "waiting"
    BY DEF CloseSteps, Step, Sequential
  <2> HIDE DEF s
  <2>3. s[3] \in SomeStep /\ s[3].id = "review-deductions"
    <3>1. "review-deductions" \in CloseId
      BY DEF Ids, CloseId
    <3> QED BY <2>1, <3>1 DEF Step, SomeStep
  <2> QED BY <2>2, <2>3 DEF ApprovalAvailable, CalculatedChain, InputsTrio
<1>4. /\ s[4] \in SomeStep
      /\ s[4].id = "run-calculation"
      /\ s[4].status = "completed" <=> c.calculated
      /\ s[4].status = "ready" => /\ PlatformReady(c) /\ ~c.calculated
                                  /\ c.attendance_closed /\ c.inputs_closed /\ c.deductions_reviewed
  <2>1. \E status \in Status : s[4] = Step("run-calculation", status)
    <3>1. Sequential(c.calculated, PlatformReady(c) /\ InputsTrio(c)) \in Status
      BY DEF Sequential, Status
    <3> QED BY <3>1 DEF CloseSteps
  <2>2. s[4].status = IF c.calculated THEN "completed"
                      ELSE IF PlatformReady(c) /\ InputsTrio(c) THEN "ready"
                      ELSE "waiting"
    BY DEF CloseSteps, Step, Sequential
  <2> HIDE DEF s
  <2>3. s[4] \in SomeStep /\ s[4].id = "run-calculation"
    <3>1. "run-calculation" \in CloseId
      BY DEF Ids, CloseId
    <3> QED BY <2>1, <3>1 DEF Step, SomeStep
  <2> QED BY <2>2, <2>3 DEF ApprovalAvailable, CalculatedChain, InputsTrio
<1>5. /\ s[5] \in SomeStep
      /\ s[5].id = "request-approval"
      /\ s[5].status = "completed" <=> c.approval_requested
      /\ s[5].status = "ready" => /\ PlatformReady(c) /\ ~c.approval_requested
                                  /\ c.attendance_closed /\ c.inputs_closed
                                  /\ c.deductions_reviewed /\ c.calculated
  <2>1. \E status \in Status : s[5] = Step("request-approval", status)
    <3>1. SequentialUnless(c.approval_requested, ApprovalAvailable(c), c.workflow) \in Status
      BY DEF SequentialUnless, Sequential, Status
    <3> QED BY <3>1 DEF CloseSteps
  <2>2. s[5].status = IF ~c.approval_requested /\ ApprovalAvailable(c) /\ ~c.workflow
                        THEN "blocked"
                      ELSE IF c.approval_requested THEN "completed"
                      ELSE IF ApprovalAvailable(c) THEN "ready"
                      ELSE "waiting"
    BY DEF CloseSteps, Step, SequentialUnless, Sequential
  <2> HIDE DEF s
  <2>3. s[5] \in SomeStep /\ s[5].id = "request-approval"
    <3>1. "request-approval" \in CloseId
      BY DEF Ids, CloseId
    <3> QED BY <2>1, <3>1 DEF Step, SomeStep
  <2> QED BY <2>2, <2>3 DEF ApprovalAvailable, CalculatedChain, InputsTrio
<1>6. /\ s[6] \in SomeStep
      /\ s[6].id = "prepare-payout"
      /\ s[6].status = "completed" <=> c.payout_prepared
      /\ s[6].status = "ready" => /\ PlatformReady(c) /\ ~c.payout_prepared
                                  /\ c.attendance_closed /\ c.inputs_closed
                                  /\ c.deductions_reviewed /\ c.calculated
                                  /\ c.approval_requested
  <2>1. \E status \in Status : s[6] = Step("prepare-payout", status)
    <3>1. Sequential(c.payout_prepared,
                     ApprovalAvailable(c) /\ c.workflow /\ c.approval_requested) \in Status
      BY DEF Sequential, Status
    <3> QED BY <3>1 DEF CloseSteps
  <2>2. s[6].status = IF c.payout_prepared THEN "completed"
                      ELSE IF ApprovalAvailable(c) /\ c.workflow /\ c.approval_requested
                        THEN "ready"
                      ELSE "waiting"
    BY DEF CloseSteps, Step, Sequential
  <2> HIDE DEF s
  <2>3. s[6] \in SomeStep /\ s[6].id = "prepare-payout"
    <3>1. "prepare-payout" \in CloseId
      BY DEF Ids, CloseId
    <3> QED BY <2>1, <3>1 DEF Step, SomeStep
  <2> QED BY <2>2, <2>3 DEF ApprovalAvailable, CalculatedChain, InputsTrio
<1>7. /\ s[7] \in SomeStep
      /\ s[7].id = "archive-payroll-evidence"
      /\ s[7].status = "completed" <=> c.evidence_archived
      /\ s[7].status = "ready" => /\ PlatformReady(c) /\ ~c.evidence_archived
                                  /\ c.attendance_closed /\ c.inputs_closed
                                  /\ c.deductions_reviewed /\ c.calculated
                                  /\ c.approval_requested /\ c.payout_prepared
  <2>1. \E status \in Status : s[7] = Step("archive-payroll-evidence", status)
    <3>1. SequentialUnless(c.evidence_archived,
                           ApprovalAvailable(c) /\ c.workflow /\ c.approval_requested
                             /\ c.payout_prepared,
                           c.archive) \in Status
      BY DEF SequentialUnless, Sequential, Status
    <3> QED BY <3>1 DEF CloseSteps
  <2>2. s[7].status = IF /\ ~c.evidence_archived /\ ~c.archive
                         /\ ApprovalAvailable(c) /\ c.workflow /\ c.approval_requested
                         /\ c.payout_prepared
                        THEN "blocked"
                      ELSE IF c.evidence_archived THEN "completed"
                      ELSE IF ApprovalAvailable(c) /\ c.workflow /\ c.approval_requested
                              /\ c.payout_prepared
                        THEN "ready"
                      ELSE "waiting"
    BY DEF CloseSteps, Step, SequentialUnless, Sequential
  <2> HIDE DEF s
  <2>3. s[7] \in SomeStep /\ s[7].id = "archive-payroll-evidence"
    <3>1. "archive-payroll-evidence" \in CloseId
      BY DEF Ids, CloseId
    <3> QED BY <2>1, <3>1 DEF Step, SomeStep
  <2> QED BY <2>2, <2>3 DEF ApprovalAvailable, CalculatedChain, InputsTrio
<1>8. s \in Seq(SomeStep) /\ Len(s) = 7
  <2>1. Len(s) = 7 /\ s = [i \in 1..7 |-> s[i]]
    BY DEF CloseSteps
  <2> HIDE DEF s
  <2>2. \A i \in 1..7 : s[i] \in SomeStep
    BY <1>1, <1>2, <1>3, <1>4, <1>5, <1>6, <1>7
  <2> QED BY <2>1, <2>2
<1> HIDE DEF s
<1>9. ASSUME NEW i \in 1..7
      PROVE  /\ s[i].id = Ids[i]
             /\ s[i].status = "completed" <=> Done(c)[i]
             /\ s[i].status = "ready" => /\ PlatformReady(c) /\ ~Done(c)[i]
                                        /\ \A j \in 1..7 : j < i => Done(c)[j]
  <2>1. Done(c)[1] <=> c.attendance_closed
    BY DEF Done
  <2>2. Done(c)[2] <=> c.inputs_closed
    BY DEF Done
  <2>3. Done(c)[3] <=> c.deductions_reviewed
    BY DEF Done
  <2>4. Done(c)[4] <=> c.calculated
    BY DEF Done
  <2>5. Done(c)[5] <=> c.approval_requested
    BY DEF Done
  <2>6. Done(c)[6] <=> c.payout_prepared
    BY DEF Done
  <2>7. Done(c)[7] <=> c.evidence_archived
    BY DEF Done
  <2>8. CASE i = 1
    BY <1>1, <2>1, <2>8 DEF Ids
  <2>9. CASE i = 2
    BY <1>2, <2>1, <2>2, <2>9 DEF Ids
  <2>10. CASE i = 3
    BY <1>3, <2>1, <2>2, <2>3, <2>10 DEF Ids
  <2>11. CASE i = 4
    BY <1>4, <2>1, <2>2, <2>3, <2>4, <2>11 DEF Ids
  <2>12. CASE i = 5
    BY <1>5, <2>1, <2>2, <2>3, <2>4, <2>5, <2>12 DEF Ids
  <2>13. CASE i = 6
    BY <1>6, <2>1, <2>2, <2>3, <2>4, <2>5, <2>6, <2>13 DEF Ids
  <2>14. CASE i = 7
    BY <1>7, <2>1, <2>2, <2>3, <2>4, <2>5, <2>6, <2>7, <2>14 DEF Ids
  <2> QED BY <2>8, <2>9, <2>10, <2>11, <2>12, <2>13, <2>14
<1> QED BY <1>8, <1>9 DEF s

\* With every flag before a step's own set, and no contradiction, the cycle is in
\* the state the step belongs to.
LEMMA CycleAt ==
    ASSUME NEW c, ~OutOfOrder(c), NEW i \in 1..7,
           ~Done(c)[i], \A j \in 1..7 : j < i => Done(c)[j]
    PROVE  CycleStateOf(c) = StepState(Ids[i])
<1>1. /\ Done(c)[1] <=> c.attendance_closed
      /\ Done(c)[2] <=> c.inputs_closed
      /\ Done(c)[3] <=> c.deductions_reviewed
      /\ Done(c)[4] <=> c.calculated
      /\ Done(c)[5] <=> c.approval_requested
      /\ Done(c)[6] <=> c.payout_prepared
      /\ Done(c)[7] <=> c.evidence_archived
  BY DEF Done
<1>2. /\ StepState("close-attendance") = "open"
      /\ StepState("close-payroll-inputs") = "open"
      /\ StepState("review-deductions") = "open"
      /\ StepState("run-calculation") = "inputs_closed"
      /\ StepState("request-approval") = "calculated"
      /\ StepState("prepare-payout") = "approval_pending"
      /\ StepState("archive-payroll-evidence") = "approved"
  BY DEF StepState
<1>3. CASE i \in {1, 2, 3}
  <2>1. StepState(Ids[i]) = "open"
    BY <1>2, <1>3 DEF Ids
  <2>2. ~InputsTrio(c)
    BY <1>1, <1>3 DEF InputsTrio
  <2> QED BY <2>1, <2>2 DEF CycleStateOf, OutOfOrder, CalculatedChain, ApprovalChain, ApprovedChain
<1>4. CASE i \in {4, 5, 6, 7}
  <2>1. InputsTrio(c)
    BY <1>1, <1>4 DEF InputsTrio
  <2>2. CASE i = 4
    <3>1. StepState(Ids[i]) = "inputs_closed" /\ ~c.calculated
      BY <1>1, <1>2, <2>2 DEF Ids
    <3> QED BY <2>1, <3>1 DEF CycleStateOf, OutOfOrder, CalculatedChain, ApprovalChain, ApprovedChain
  <2>3. CASE i = 5
    <3>1. StepState(Ids[i]) = "calculated" /\ c.calculated /\ ~c.approval_requested
      BY <1>1, <1>2, <2>3 DEF Ids
    <3> QED BY <2>1, <3>1 DEF CycleStateOf, OutOfOrder, CalculatedChain, ApprovalChain, ApprovedChain
  <2>4. CASE i = 6
    <3>1. /\ StepState(Ids[i]) = "approval_pending"
          /\ c.calculated /\ c.approval_requested /\ ~c.payout_prepared
      BY <1>1, <1>2, <2>4 DEF Ids
    <3> QED BY <2>1, <3>1 DEF CycleStateOf, OutOfOrder, CalculatedChain, ApprovalChain, ApprovedChain
  <2>5. CASE i = 7
    <3>1. /\ StepState(Ids[i]) = "approved"
          /\ c.calculated /\ c.approval_requested /\ c.payout_prepared /\ ~c.evidence_archived
      BY <1>1, <1>2, <2>5 DEF Ids
    <3> QED BY <2>1, <3>1 DEF CycleStateOf, OutOfOrder, CalculatedChain, ApprovalChain, ApprovedChain
  <2> QED BY <1>4, <2>2, <2>3, <2>4, <2>5
<1> QED BY <1>3, <1>4

\* The setup steps come first, and are never completed nor offered.
LEMMA StreamShape ==
    ASSUME NEW c \in [Flag -> BOOLEAN]
    PROVE  /\ PlatformReady(c) => Steps(c) = CloseSteps(c)
           /\ ~PlatformReady(c) =>
                /\ \E i \in DOMAIN Steps(c) : Steps(c)[i].status = "blocked"
                /\ \A i \in DOMAIN Steps(c) : Steps(c)[i].status # "ready"
<1> DEFINE a == StepIf(~c.scope, "set-payroll-scope")
           b == StepIf(~c.auth, "configure-access")
           s == CloseSteps(c)
<1>1. /\ s \in Seq(SomeStep) /\ DOMAIN s = 1..7
      /\ \A i \in 1..7 : s[i].status = "ready" => PlatformReady(c)
  BY CloseStep
<1>2. \A id \in SetupId : Step(id, "blocked") \in SomeStep /\ Step(id, "blocked").status = "blocked"
  BY DEF Step, SomeStep, Status
<1>3. a \in Seq(SomeStep) /\ b \in Seq(SomeStep)
  <2>1. "set-payroll-scope" \in SetupId /\ "configure-access" \in SetupId
    BY DEF SetupId
  <2> QED BY <1>2, <2>1 DEF StepIf
<1>4. Steps(c) = (a \o b) \o s
  BY DEF Steps
<1>5. Elements(Steps(c)) = Elements(a) \cup Elements(b) \cup Elements(s)
  <2> HIDE DEF a, b, s
  <2>1. a \o b \in Seq(SomeStep) /\ Elements(a \o b) = Elements(a) \cup Elements(b)
    BY <1>3, ElementsOfJoin
  <2> DEFINE setup == a \o b
  <2> HIDE DEF setup
  <2>2. setup \in Seq(SomeStep) /\ s \in Seq(SomeStep)
    BY <1>1, <2>1 DEF setup
  <2>3. Elements(setup \o s) = Elements(setup) \cup Elements(s)
    BY <2>2, ElementsOfJoin
  <2> QED BY <1>4, <2>1, <2>3 DEF setup
<1>6. CASE PlatformReady(c)
  <2>1. a = <<>> /\ b = <<>>
    BY <1>6 DEF StepIf, PlatformReady
  <2>2. s \in Seq(SomeStep) /\ Steps(c) = (<<>> \o <<>>) \o s
    BY <1>1, <1>4, <2>1
  <2> HIDE DEF s
  <2>3. \A t \in Seq(SomeStep) : <<>> \o t = t
    OBVIOUS
  <2>4. <<>> \o <<>> = <<>>
    OBVIOUS
  <2> QED BY <1>6, <2>2, <2>3, <2>4 DEF s
<1>7. CASE ~PlatformReady(c)
  <2>1. \A x \in Elements(a) \cup Elements(b) : x.status = "blocked"
    BY DEF Elements, StepIf, Step
  <2>2. Elements(a) \cup Elements(b) # {}
    <3>1. CASE ~c.scope
      <4>1. a[1] \in Elements(a)
        BY <3>1 DEF Elements, StepIf
      <4> QED BY <4>1
    <3>2. CASE ~c.auth
      <4>1. b[1] \in Elements(b)
        BY <3>2 DEF Elements, StepIf
      <4> QED BY <4>1
    <3> QED BY <1>7, <3>1, <3>2 DEF PlatformReady
  <2>3. \A x \in Elements(s) : x.status # "ready"
    BY <1>1, <1>7 DEF Elements
  <2> HIDE DEF a, b, s
  <2>4. \A x \in Elements(Steps(c)) : x.status # "ready"
    BY <1>5, <2>1, <2>3
  <2>5. \E x \in Elements(Steps(c)) : x.status = "blocked"
    BY <1>5, <2>1, <2>2
  <2> QED BY <1>7, <2>4, <2>5 DEF Elements
<1> QED BY <1>6, <1>7

\* The step that is offered is the first that is not completed.
LEMMA OfferedIsCurrent ==
    ASSUME NEW c \in [Flag -> BOOLEAN], ~OutOfOrder(c),
           NEW i \in DOMAIN Steps(c), Steps(c)[i].status = "ready"
    PROVE  /\ Steps(c)[i] = CurrentStep(c)
           /\ StepState(Steps(c)[i].id) = CycleStateOf(c)
           /\ StreamStatus(c) = "ready"
<1> DEFINE s == Steps(c)
<1>1. PlatformReady(c) /\ s = CloseSteps(c)
  BY StreamShape
<1>2. /\ DOMAIN s = 1..7 /\ i \in 1..7
      /\ s[i].id = Ids[i]
      /\ ~Done(c)[i]
      /\ \A j \in 1..7 : j < i => Done(c)[j]
      /\ \A j \in 1..7 : s[j].status = "completed" <=> Done(c)[j]
  BY <1>1, CloseStep
<1>3. s[i] = CurrentStep(c)
  <2> DEFINE due == {j \in DOMAIN s : s[j].status # "completed"}
  <2>1. i \in due /\ \A j \in due : i <= j
    BY <1>2
  <2>2. \A k \in due : (\A j \in due : k <= j) => k = i
    BY <1>2, <2>1
  <2> HIDE DEF due
  <2>3. i = CHOOSE k \in due : \A j \in due : k <= j
    BY <2>1, <2>2
  <2>4. CurrentStep(c) = s[CHOOSE k \in due : \A j \in due : k <= j]
    BY <2>1 DEF CurrentStep, due
  <2> QED BY <2>3, <2>4
<1>4. StepState(s[i].id) = CycleStateOf(c)
  BY <1>2, CycleAt
<1>5. ~PlatformBlocked(c)
  BY <1>1 DEF PlatformReady, PlatformBlocked, Checks, ReadyOr, Check
<1>6. StreamStatus(c) = "ready"
  BY <1>3, <1>5 DEF StreamStatus, Completed
<1> QED BY <1>3, <1>4, <1>6

LEMMA CompletedIsArchived ==
    ASSUME NEW c \in [Flag -> BOOLEAN], ~OutOfOrder(c)
    PROVE  Completed(c) <=> CycleStateOf(c) = "archived" /\ PlatformReady(c)
<1>1. /\ Done(c)[1] <=> c.attendance_closed
      /\ Done(c)[2] <=> c.inputs_closed
      /\ Done(c)[3] <=> c.deductions_reviewed
      /\ Done(c)[4] <=> c.calculated
      /\ Done(c)[5] <=> c.approval_requested
      /\ Done(c)[6] <=> c.payout_prepared
      /\ Done(c)[7] <=> c.evidence_archived
  BY DEF Done
<1>2. PlatformReady(c) => (Completed(c) <=> \A i \in 1..7 : Done(c)[i])
  BY StreamShape, CloseStep DEF Completed
<1>3. Completed(c) => PlatformReady(c)
  BY StreamShape DEF Completed
<1>4. (\A i \in 1..7 : Done(c)[i]) <=> c.evidence_archived /\ ApprovedChain(c)
  BY <1>1 DEF ApprovedChain, ApprovalChain, CalculatedChain, InputsTrio
<1>5. CycleStateOf(c) = "archived" <=> c.evidence_archived /\ ApprovedChain(c)
  BY DEF CycleStateOf, OutOfOrder
<1> QED BY <1>2, <1>3, <1>4, <1>5

\* The operating bar asks for everything the tiers ask for.
LEMMA BarCoversTiers ==
    ASSUME NEW c, Gates(c).operating_bar = "ready",
           NEW tier \in DOMAIN Tiers(c) \ {"import_plan"}
    PROVE  Tiers(c)[tier] = "ready"
<1>1. OperatingBar(c)
  BY DEF Gates, ToneOf
<1>2. ~PlatformBlocked(c) /\ ~\E k \in Checks(c) : k.state = "degraded"
  BY <1>1 DEF OperatingBar, ReadinessState
<1>3. c.auth
  <2>1. ~c.auth => Check("auth_provider", "not_ready", TRUE) \in Checks(c)
    BY DEF Checks, ReadyOr
  <2> QED BY <1>2, <2>1 DEF PlatformBlocked, Check
<1>4. c.archive
  <2>1. ~c.archive => Check("archive_storage", "degraded", FALSE) \in Checks(c)
    BY DEF Checks, ReadyOr
  <2> QED BY <1>2, <2>1 DEF Check
<1> QED BY <1>1, <1>3, <1>4 DEF OperatingBar, Tiers, ToneOf

\* The workstream and the state the gate sees agree, under any flags.
THEOREM ViewsAgree == Spec => []ViewFitsCycle
<1>1. IInv => ViewFitsCycle
  <2> SUFFICES ASSUME IInv PROVE ViewFitsCycle
    OBVIOUS
  <2> DEFINE c == Flags(deployment)
  <2>1. c \in [Flag -> BOOLEAN]
    <3>1. deployment.flags \in [Flag -> BOOLEAN]
      BY FlagsAssumption DEF IInv
    <3> QED BY <3>1 DEF Flags
  <2>2. State(deployment) = CycleStateOf(c)
    BY DEF State
  <2>3. State(deployment) # "inconsistent" => ~OutOfOrder(c)
    BY <2>2 DEF CycleStateOf
  <2> HIDE DEF c
  <2> QED BY <2>1, <2>2, <2>3, OfferedIsCurrent, CompletedIsArchived, BarCoversTiers
          DEF ViewFitsCycle, c
<1> QED BY <1>1, SpecInv, PTL
=============================================================================
