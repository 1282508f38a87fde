---------------------------- MODULE MCAuthSession ----------------------------
(* A small world for AuthSession: every combination of the cycle's flags   *)
(* under the built-in policy, and a few deployments of each other kind.    *)
EXTENDS AuthSession

CONSTANTS iss, aud, ann, j1, j2, j3, acme, legal, site, policy2

Scope(workplace) == [tenant |-> acme, legal |-> legal, workplace |-> workplace]
Spelt(name) == [name |-> name, spelt |-> name]

Token(jti, acr, role, exp) ==
    [signed |-> TRUE, iss |-> iss, aud |-> {aud}, sub |-> ann, exp |-> exp, nbf |-> None,
     iat |-> 1, jti |-> jti, user_verified |-> TRUE, acr |-> acr, auth_time |-> 1,
     role |-> role, scope |-> Scope(site)]
GoodToken == Token(j1, Spelt("sensitive"), "payroll_lead", 3)

AllFlags == [f \in Flag |-> TRUE]
CycleFlag == {"attendance_closed", "inputs_closed", "deductions_reviewed", "calculated",
              "approval_requested", "payout_prepared", "evidence_archived"}
Upto(on) == [f \in Flag |-> f \in on \/ f \notin CycleFlag]

Base == [source |-> "jwt", token |-> GoodToken, issuer |-> iss, audience |-> aud,
         discovery |-> None, pinned |-> None, assertion |-> None, mode |-> "postgres",
         document |-> None, given |-> NoSession, resource |-> Scope(site),
         flags |-> Upto({"attendance_closed", "inputs_closed", "deductions_reviewed"})]

Op(name, class, window) ==
    [key |-> Spelt(name), acr |-> "elevated", class |-> class, scope |-> FALSE,
     window |-> window]
RoleEntry(key, ceiling, grants) == [key |-> key, ceiling |-> ceiling, grants |-> grants]
Doc(id, ops, roles) == [id |-> id, ops |-> ops, roles |-> roles]

Manager == RoleEntry(Spelt("payroll_manager"), "payroll_confidential",
                     {"payroll_run", "read_workspace"})
Lead    == RoleEntry(Spelt("payroll_lead"), "tenant_critical", {"*"})
Documents ==
    { Doc(BuiltinId, << >>, << Manager >>),
      Doc(BuiltinId, << Op("payroll_run", "payroll_confidential", None) >>, << Manager >>),
      Doc(BuiltinId, << Op("payroll_run", "tenant_critical", {"open"}) >>, << Manager >>),
      Doc(BuiltinId, << Op("payroll_run", "internal", {"open", "inconsistent"}) >>,
          << Lead >>),
      Doc(BuiltinId, << Op("payroll_run", "internal", {"open"}),
                        [Op("payroll_run", "internal", {}) EXCEPT !.key.spelt = "Payroll-Run"] >>,
          << Manager >>),
      Doc(BuiltinId, << >>, << Manager, Lead >>),
      Doc(BuiltinId, << Op("archive_read", "tenant_critical", {"archived"}) >>,
          << RoleEntry(Spelt("approver"), "payroll_confidential", {"*"}) >>),
      Doc(policy2, << >>, << Manager >>),
      Doc(None, << >>, << Manager >>) }

Cycles == {[Base EXCEPT !.flags = Upto(on)] : on \in SUBSET CycleFlag}
Setups == {[Base EXCEPT !.source = "env",
                        !.flags = [AllFlags EXCEPT ![f] = FALSE, ![g] = FALSE]] :
              f, g \in Flag \ CycleFlag}
Policies == {[Base EXCEPT !.document = doc, !.flags = Upto(on)] :
              doc \in Documents \cup {Invalid},
              on \in {{}, {"calculated"}, {"evidence_archived"},
                      {"attendance_closed", "inputs_closed", "deductions_reviewed"}}}
Discovery == [issuer |-> iss, jwks |-> [https |-> TRUE, at |-> 1], rs256 |-> TRUE,
              response_types |-> TRUE, subject_types |-> TRUE]
Assertion == [configured |-> TRUE, matches |-> TRUE, signed |-> TRUE, issued |-> 1,
              present |-> TRUE, verified |-> TRUE, previous |-> 1, count |-> 2]
Others ==
    { [Base EXCEPT !.token = [GoodToken EXCEPT !.acr.spelt = "Sensitive"]],
      [Base EXCEPT !.token = [GoodToken EXCEPT !.acr.spelt = "Sensitive"], !.mode = "off"],
      [Base EXCEPT !.token = Token(j2, Spelt("elevated"), "hr_ops", 2)],
      [Base EXCEPT !.token = Token(j3, Spelt("critical"), "platform_owner", 3)],
      [Base EXCEPT !.token.nbf = 2], [Base EXCEPT !.token.auth_time = 2],
      [Base EXCEPT !.token.iat = 3], [Base EXCEPT !.token.jti = None],
      [Base EXCEPT !.token.scope.workplace = policy2],
      [Base EXCEPT !.mode = "other"], [Base EXCEPT !.mode = "off"],
      [Base EXCEPT !.source = "bypass", !.resource.workplace = None],
      [Base EXCEPT !.source = "env", !.token = None, !.given = SessionOf(GoodToken)],
      [Base EXCEPT !.discovery = Discovery],
      [Base EXCEPT !.discovery = Discovery, !.pinned = [https |-> TRUE, at |-> 2]],
      [Base EXCEPT !.assertion = Assertion],
      [Base EXCEPT !.assertion = [Assertion EXCEPT !.count = 1]] }
SomeDeployments == Cycles \cup Setups \cup Policies \cup Others
=============================================================================
