----------------------------- MODULE AuthSession -----------------------------
(***************************************************************************)
(* One request of the preview server from its arrival to the store's work. *)
(* The server (apps/bitween-platform-ui/preview/server.js) validates the   *)
(* session of its deployment (bin/auth_session_validate.rs over            *)
(* auth_session.rs), asks for a decision (bin/authz_decision.rs over       *)
(* PlatformView and AuthPolicy), and only then runs the store.  It spawns  *)
(* each of them and waits.  Other requests may run while this one's body   *)
(* is read, after its decision, and share nothing with it; the revocation  *)
(* table, the clock and the operator who redeploys do not wait at all.     *)
(*                                                                         *)
(* A deployment is the environment the server was started with: a record   *)
(* of the token, the verifier's settings, the policy document, the         *)
(* resource's scope and PlatformView's flags.                              *)
(***************************************************************************)
EXTENDS AuthPolicy, PlatformView

CONSTANTS Deployment,    \* the environments the server may be started with
          MaxTime,       \* bound on the clock
          Asked,         \* the operations clients ask for
          Skew,          \* the 60 seconds an "iat" may lie ahead
          ChallengeTtl   \* AUTH_WEBAUTHN_CHALLENGE_TTL_SECONDS

\* One token identifier names one token.
ASSUME OneTokenPerId ==
    \A d, e \in Deployment :
        d.token # None /\ e.token # None /\ d.token.jti = e.token.jti
            => d.token.exp = e.token.exp

\* A document is a record whose objects are sequences of their members.
IsObject(s) == s \in Seq({s[i] : i \in DOMAIN s})
IsDocument(doc) ==
    doc \notin {None, Invalid} =>
        /\ doc = [id |-> doc.id, ops |-> doc.ops, roles |-> doc.roles]
        /\ IsObject(doc.ops) /\ IsObject(doc.roles)
ASSUME DocumentsAssumption == \A d \in Deployment : IsDocument(d.document)

\* PlatformLiveConfig's flags.
ASSUME FlagsAssumption == \A d \in Deployment : d.flags \in [Flag -> BOOLEAN]

VARIABLES now, deployment, revoked, request, acted
vars == <<now, deployment, revoked, request, acted>>

\* The development bypass fills the blank parts of the scope; a validated
\* session, bypassed or not, marks the provider as configured.
ResourceOf(d) ==
    [part \in DOMAIN d.resource |->
        IF d.source = "bypass" /\ d.resource[part] = None THEN "default"
        ELSE d.resource[part]]
Flags(d) == [d.flags EXCEPT !.auth  = @ \/ d.source # "env",
                            !.scope = @ \/ d.source = "bypass"]
PolicyOf(d) == LoadPolicy(d.document)

-----------------------------------------------------------------------------
(* auth_session.rs: the token, the discovery document and the assertion.   *)

\* verify_jwt_session: the RS256 signature of the token's three parts, by a key
\* of the configured key set.
Signed(d) == d.token # None /\ d.token.signed

\* validate_claims.
ClaimsOk(d, time) ==
    LET t == d.token IN
    /\ d.issuer # None /\ t.iss = d.issuer
    /\ d.audience # None /\ d.audience \in t.aud
    /\ t.sub # None
    /\ t.exp > time
    /\ t.nbf = None \/ t.nbf <= time
    /\ t.iat = None \/ t.iat <= time + Skew
    /\ t.jti # None
    /\ t.user_verified
    /\ t.acr # None /\ t.acr.name \in AcrLevel
    /\ t.auth_time > 0 /\ t.auth_time <= time
    /\ t.role # None
    /\ None \notin {t.scope.tenant, t.scope.legal, t.scope.workplace}

\* validate_oidc_discovery, where the deployment configures a document.
DiscoveryOk(d) ==
    d.discovery = None \/
    LET o == d.discovery IN
    /\ o.issuer = d.issuer
    /\ o.jwks.https
    /\ d.pinned = None \/ d.pinned = o.jwks
    /\ o.rs256 /\ o.response_types /\ o.subject_types

\* verify_webauthn_assertion, where the deployment configures an assertion.
\* The counter is compared with the one of the deployment: nothing stores it.
AssertionOk(d, time) ==
    d.assertion = None \/
    LET a == d.assertion IN
    /\ a.configured /\ a.matches /\ a.signed
    /\ a.issued > 0 /\ a.issued <= time /\ time - a.issued <= ChallengeTtl
    /\ a.present /\ a.verified
    /\ a.previous = 0 \/ a.count = 0 \/ a.count > a.previous

NoScope   == [tenant |-> None, legal |-> None, workplace |-> None]
NoSession == [verified |-> FALSE, exp |-> 0, acr |-> None, acr_at |-> 0,
              role |-> None, policy |-> None, scope |-> NoScope]

\* What a verified token puts in the session; its policy is always the
\* built-in one's id.
SessionOf(t) == [verified |-> TRUE, exp |-> t.exp, acr |-> t.acr.name,
                 acr_at |-> t.auth_time, role |-> t.role, policy |-> BuiltinId,
                 scope |-> t.scope]

\* The development bypass: an owner whose scope is the resource's.
BypassSession(d) == [verified |-> TRUE, exp |-> MaxTime + 1, acr |-> "critical",
                     acr_at |-> 1, role |-> "platform_owner", policy |-> BuiltinId,
                     scope |-> ResourceOf(d)]

\* auth_session_revocation_lookup_sql.
\* (Mutant: the lookup keeps the revocations that have ended.)
EndedRevocation(t) ==
    \E r \in revoked : r.tenant = t.scope.tenant /\ r.jti = t.jti /\ r.until <= now
Revoked(t) ==
    \E r \in revoked : r.tenant = t.scope.tenant /\ r.jti = t.jti /\ r.until > now

\* session_event_audit only takes an acr level in its canonical spelling; the
\* verifier reads any case.
AuditRowOk(t) == t.acr.spelt \in AcrLevel

-----------------------------------------------------------------------------
(* authz_decision.rs over PlatformLiveConfig.                              *)

Authenticated(session, time) ==
    /\ session.verified /\ session.exp > time
    /\ session.acr # None /\ session.acr_at > 0 /\ session.acr_at <= time

RequestOf(d, session, op) ==
    [policy |-> session.policy, op |-> op, acr |-> session.acr, role |-> session.role,
     actor |-> session.scope, resource |-> ResourceOf(d),
     state |-> CycleStateOf(Flags(d))]

Allowed(d, session, op, time) ==
    /\ Flags(d).auth
    /\ Authenticated(session, time)
    /\ Decision(PolicyOf(d), RequestOf(d, session, op)) = "authorized"

-----------------------------------------------------------------------------
(* The server.                                                             *)

Idle == [stage |-> "idle"]

Init ==
    /\ now = 1
    /\ deployment \in Deployment
    /\ revoked = {}
    /\ request = Idle
    /\ acted = None

UsesTable(d) == d.source = "jwt" /\ d.mode = "postgres"

\* A request for an operation; "late" remembers that its token had been
\* revoked by then, "audited" whether an audit row was written on its behalf.
Arrive(op) ==
    /\ request = Idle
    /\ request' = [stage |-> "validate", op |-> op, session |-> NoSession, audited |-> FALSE,
                   late |-> \E r \in revoked : deployment.token # None
                                /\ r.tenant = deployment.token.scope.tenant
                                /\ r.jti = deployment.token.jti]
    /\ UNCHANGED <<now, deployment, revoked, acted>>

ToDecision(session) ==
    request' = [request EXCEPT !.stage = "decide", !.session = session]

Verifies(d, time) ==
    Signed(d) /\ ClaimsOk(d, time) /\ DiscoveryOk(d) /\ AssertionOk(d, time)

\* authSessionEnvForRustTargets and main of auth_session_validate up to the
\* revocation lookup; every failure leaves a session that is not verified.
Validate ==
    LET d == deployment IN
    /\ request.stage = "validate"
    /\ \/ d.source = "bypass" /\ ToDecision(BypassSession(d))
       \/ d.source = "env" /\ ToDecision(d.given)
       \/ /\ d.source = "jwt"
          /\ IF ~Verifies(d, now) \/ d.mode \notin {"off", "postgres"}
               THEN ToDecision(NoSession)
             ELSE IF d.mode = "off" THEN ToDecision(SessionOf(d.token))
             ELSE \/ ToDecision(NoSession)   \* revoked, or out of reach
                  \/ ~Revoked(d.token)
                        /\ request' = [request EXCEPT !.stage = "audit"]
    /\ UNCHANGED <<now, deployment, revoked, acted>>

\* The audit row is a statement of its own after the lookup.
Audit ==
    LET session == SessionOf(deployment.token) IN
    /\ request.stage = "audit"
    /\ \/ AuditRowOk(deployment.token)
          /\ request' = [request EXCEPT !.stage = "decide", !.audited = TRUE,
                                        !.session = session]
       \/ ToDecision(NoSession)    \* refused by the table, or out of reach
    /\ UNCHANGED <<now, deployment, revoked, acted>>

\* requireAuthorizedOperation.
Decide ==
    /\ request.stage = "decide"
    /\ request' = IF Allowed(deployment, request.session, request.op, now)
                    THEN [request EXCEPT !.stage = "act"] ELSE Idle
    /\ UNCHANGED <<now, deployment, revoked, acted>>

\* The store runs in an environment that is validated once more: that may
\* write another audit row, but the store does not read the outcome.
Act ==
    /\ request.stage = "act"
    /\ acted' = [op |-> request.op, late |-> request.late, audited |-> request.audited]
    /\ request' = Idle
    /\ UNCHANGED <<now, deployment, revoked>>

\* External: an operator revokes the token until it would have expired.
Revoke ==
    LET t == deployment.token IN
    /\ t # None /\ t.jti # None
    /\ revoked' = revoked \cup {[tenant |-> t.scope.tenant, jti |-> t.jti,
                                 until |-> t.exp]}
    /\ UNCHANGED <<now, deployment, request, acted>>

Tick ==
    /\ now < MaxTime
    /\ now' = now + 1
    /\ UNCHANGED <<deployment, revoked, request, acted>>

\* The server stops, and the request it was working on is lost; while none is
\* under way it may be started again in another environment.
Stop ==
    /\ request # Idle \/ acted # None
    /\ request' = Idle /\ acted' = None
    /\ UNCHANGED <<now, deployment, revoked>>

Start(d) ==
    /\ request = Idle /\ acted = None
    /\ deployment' = d
    /\ UNCHANGED <<now, revoked, request, acted>>

Next ==
    \/ \E op \in Asked : Arrive(op)
    \/ Validate \/ Audit \/ Decide \/ Act
    \/ Revoke \/ Tick \/ Stop
    \/ \E d \in Deployment : Start(d)

Spec == Init /\ [][Next]_vars

-----------------------------------------------------------------------------
(* Properties.                                                             *)

State(d) == CycleStateOf(Flags(d))

\* The best request a role can make: its only obstacles are the policy's own.
BestRequest(policy, role, op, state) ==
    LET all == [tenant |-> "t", legal |-> "l", workplace |-> "w"]
    IN  [policy |-> policy.id, op |-> op, acr |-> "critical", role |-> role,
         actor |-> all, resource |-> all, state |-> state]

\* Where the revocation table is in use, an operation is never carried out for
\* a token that had been revoked when its request arrived, nor before an audit
\* row was written for that request: lookup, audit, decision and store are four
\* steps, and a revocation or an expiry may come between any two.
ActsAreAccountedFor ==
    acted # None /\ UsesTable(deployment) => ~acted.late /\ acted.audited

\* The ceiling check of the decision never decides: a policy that loads gives
\* no role a grant its data class cannot exercise, whatever the document says
\* of the operations it names and leaves out (parse_roles against
\* evaluate_authorization).
NoDeadGrant ==
    LET policy == PolicyOf(deployment) IN
    policy # Invalid =>
        \A role \in DOMAIN policy.roles, op \in Operation :
            Decision(policy, BestRequest(policy, role, op, State(deployment)))
                # "abac_data_denied"

\* What an operator wrote for an operation: its window, or the built-in one
\* for an operation the document does not name.
WrittenWindows(document, op) ==
    LET named == IF document = None THEN {}
                 ELSE {i \in DOMAIN document.ops : document.ops[i].key.name = op}
    IN  IF named = {} THEN {BuiltinWindow(op)}
        ELSE {document.ops[i].window : i \in named}

\* While the flags of the cycle contradict each other no role is authorised
\* for an operation that has a workflow window, in the document or, where the
\* document leaves the operation out, in the built-in policy.
InconsistentCycleShuts ==
    LET policy == PolicyOf(deployment) IN
    State(deployment) = "inconsistent" /\ policy # Invalid =>
        \A role \in DOMAIN policy.roles, op \in Operation :
            Decision(policy, BestRequest(policy, role, op, State(deployment)))
                = "authorized"
            => WrittenWindows(deployment.document, op) = {None}

Reversed(s) == [i \in DOMAIN s |-> s[Len(s) + 1 - i]]

\* What a document means does not depend on the order its keys are written in:
\* no definition silently replaces another one of the same canonical name.
KeyOrderIrrelevant ==
    LET doc == deployment.document IN
    doc \notin {None, Invalid} =>
        LoadPolicy([doc EXCEPT !.ops = Reversed(doc.ops),
                               !.roles = Reversed(doc.roles)]) = LoadPolicy(doc)

\* The state of the cycle each step of the workstream belongs to.
StepState(id) ==
    CASE id = "run-calculation"          -> "inputs_closed"
      [] id = "request-approval"         -> "calculated"
      [] id = "prepare-payout"           -> "approval_pending"
      [] id = "archive-payroll-evidence" -> "approved"
      [] OTHER                           -> "open"

\* The workstream and the authorisation gate read the same flags by two
\* separate derivations, and agree: in a cycle that is not inconsistent the
\* only step offered is the current one, it belongs to the state the gate sees,
\* and the stream is complete exactly when the gate sees an archived cycle.
\* When the operating bar is ready, every tier but the import plan is.
ViewFitsCycle ==
    LET c == Flags(deployment) IN
    /\ State(deployment) # "inconsistent" =>
          /\ \A i \in DOMAIN Steps(c) : Steps(c)[i].status = "ready" =>
                /\ Steps(c)[i] = CurrentStep(c)
                /\ StepState(Steps(c)[i].id) = State(deployment)
                /\ StreamStatus(c) = "ready"
          /\ Completed(c) <=> State(deployment) = "archived" /\ PlatformReady(c)
    /\ Gates(c).operating_bar = "ready" =>
          \A tier \in DOMAIN Tiers(c) \ {"import_plan"} : Tiers(c)[tier] = "ready"
=============================================================================
