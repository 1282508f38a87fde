---------------------------- MODULE PlatformView ----------------------------
(***************************************************************************)
(* What crates/payroll-api/src/platform_view.rs derives from the           *)
(* deployment's flags: the state of the payroll cycle the authorisation    *)
(* policy asks about, the readiness checks, the workstream that tells each *)
(* owner what to do next, and the maturity gates.  The flags c are a       *)
(* record of BOOLEANs; "scope" stands for the five scope fields together.  *)
(***************************************************************************)
EXTENDS Integers, Sequences

Flag == {"scope", "auth", "archive", "ontology", "workflow", "compliance",
         "observability", "finops", "import_plan", "runbook",
         "attendance_closed", "inputs_closed", "deductions_reviewed", "calculated",
         "approval_requested", "payout_prepared", "evidence_archived"}

-----------------------------------------------------------------------------
(* payroll_auth_workflow_state: each advanced flag needs its whole prefix. *)

InputsTrio(c) == c.attendance_closed /\ c.inputs_closed /\ c.deductions_reviewed
CalculatedChain(c) == InputsTrio(c) /\ c.calculated
ApprovalChain(c)   == CalculatedChain(c) /\ c.approval_requested
ApprovedChain(c)   == ApprovalChain(c) /\ c.payout_prepared

OutOfOrder(c) ==
    \/ c.calculated /\ ~InputsTrio(c)
    \/ c.approval_requested /\ ~CalculatedChain(c)
    \/ c.payout_prepared /\ ~ApprovalChain(c)
    \/ c.evidence_archived /\ ~ApprovedChain(c)

CycleStateOf(c) ==
    IF OutOfOrder(c) THEN "inconsistent"
    ELSE IF c.evidence_archived THEN "archived"
    ELSE IF c.payout_prepared THEN "approved"
    ELSE IF c.approval_requested THEN "approval_pending"
    ELSE IF c.calculated THEN "calculated"
    ELSE IF InputsTrio(c) THEN "inputs_closed"
    ELSE "open"

-----------------------------------------------------------------------------
(* readiness_checks and readiness_state: a missing archive only degrades.  *)

Check(name, state, required) == [name |-> name, state |-> state, required |-> required]
ReadyOr(c, flag, name, state, required) ==
    IF c[flag] THEN Check(name, "ready", TRUE) ELSE Check(name, state, required)

Checks(c) == {Check("rust_payroll_api", "ready", TRUE),
              Check("rust_execution_backend", "ready", TRUE),
              ReadyOr(c, "scope", "tenant_scope", "not_ready", TRUE),
              ReadyOr(c, "auth", "auth_provider", "not_ready", TRUE),
              ReadyOr(c, "archive", "archive_storage", "degraded", FALSE)}

PlatformBlocked(c) == \E k \in Checks(c) : k.required /\ k.state = "not_ready"

ReadinessState(c) ==
    IF PlatformBlocked(c) THEN "not_ready"
    ELSE IF \E k \in Checks(c) : k.state = "degraded" THEN "degraded"
    ELSE "ready"

\* next_actions: a work item for each check that is not ready, or one to
\* confirm the close.
WorkItemFor == [tenant_scope |-> "set-payroll-scope",
                auth_provider |-> "complete-access-setup",
                archive_storage |-> "confirm-payroll-archive"]
NextActions(c) ==
    LET open == {k \in Checks(c) : k.state # "ready"}
    IN  IF open = {} THEN {"confirm-payroll-close"} ELSE {WorkItemFor[k.name] : k \in open}

-----------------------------------------------------------------------------
(* payroll_workstream: the steps of the close in their order.              *)

Sequential(done, available) ==
    IF done THEN "completed" ELSE IF available THEN "ready" ELSE "waiting"
SequentialUnless(done, available, configured) ==
    IF ~done /\ available /\ ~configured THEN "blocked" ELSE Sequential(done, available)

Step(id, status) == [id |-> id, status |-> status]
StepIf(condition, id) == IF condition THEN <<Step(id, "blocked")>> ELSE <<>>

PlatformReady(c)     == c.scope /\ c.auth
ApprovalAvailable(c) == PlatformReady(c) /\ CalculatedChain(c)

\* (Mutant: a close is offered once the step before it is done, whatever the
\* steps before that one.)
CloseByPredecessor(c) ==
    << Step("close-attendance", Sequential(c.attendance_closed, PlatformReady(c))),
       Step("close-payroll-inputs", Sequential(c.inputs_closed, c.attendance_closed)),
       Step("review-deductions", Sequential(c.deductions_reviewed, c.inputs_closed)),
       Step("run-calculation", Sequential(c.calculated, c.inputs_closed)),
       Step("request-approval", Sequential(c.approval_requested, c.calculated)),
       Step("prepare-payout", Sequential(c.payout_prepared, c.approval_requested)),
       Step("archive-payroll-evidence",
            Sequential(c.evidence_archived, c.payout_prepared)) >>

CloseSteps(c) ==
    << Step("close-attendance", Sequential(c.attendance_closed, PlatformReady(c))),
       Step("close-payroll-inputs",
            Sequential(c.inputs_closed, PlatformReady(c) /\ c.attendance_closed)),
       Step("review-deductions",
            Sequential(c.deductions_reviewed,
                       PlatformReady(c) /\ c.attendance_closed /\ c.inputs_closed)),
       Step("run-calculation",
            Sequential(c.calculated, PlatformReady(c) /\ InputsTrio(c))),
       Step("request-approval",
            SequentialUnless(c.approval_requested, ApprovalAvailable(c), c.workflow)),
       Step("prepare-payout",
            Sequential(c.payout_prepared,
                       ApprovalAvailable(c) /\ c.workflow /\ c.approval_requested)),
       Step("archive-payroll-evidence",
            SequentialUnless(c.evidence_archived,
                ApprovalAvailable(c) /\ c.workflow /\ c.approval_requested
                    /\ c.payout_prepared,
                c.archive)) >>

\* The missing pieces of the setup come first.
Steps(c) ==
    StepIf(~c.scope, "set-payroll-scope") \o StepIf(~c.auth, "configure-access")
        \o CloseSteps(c)

Completed(c) == \A i \in DOMAIN Steps(c) : Steps(c)[i].status = "completed"

\* The first step that is not completed; the last one when there is none.
CurrentStep(c) ==
    LET steps == Steps(c)
        due   == {i \in DOMAIN steps : steps[i].status # "completed"}
    IN  IF due = {} THEN steps[Len(steps)]
        ELSE steps[CHOOSE i \in due : \A j \in due : i <= j]

StreamStatus(c) ==
    IF Completed(c) THEN "completed"
    ELSE IF PlatformBlocked(c) \/ CurrentStep(c).status = "blocked" THEN "blocked"
    ELSE IF CurrentStep(c).status = "ready" THEN "ready"
    ELSE "waiting"

-----------------------------------------------------------------------------
(* enterprise_gates and enterprise_capability_tiers, by their tone.        *)

ToneOf(ready, otherwise) == IF ready THEN "ready" ELSE otherwise

OperatingBar(c) ==
    /\ ReadinessState(c) = "ready"
    /\ c.ontology /\ c.workflow /\ c.compliance
    /\ c.observability /\ c.finops /\ c.runbook

Gates(c) ==
    [tenant_boundary   |-> ToneOf(c.scope, "blocked"),
     policy_boundary   |-> ToneOf(c.auth, "blocked"),
     rust_contract     |-> "ready",
     evidence_archive  |-> ToneOf(c.archive, "attention"),
     owner_action_loop |-> ToneOf(NextActions(c) # {}, "blocked"),
     operating_bar     |-> ToneOf(OperatingBar(c), "attention")]

Tiers(c) ==
    [permit_set    |-> ToneOf(c.auth, "blocked"),
     ontology      |-> ToneOf(c.ontology, "attention"),
     workflow      |-> ToneOf(c.workflow, "attention"),
     ux_shell      |-> "ready",
     compliance    |-> ToneOf(c.compliance, "attention"),
     observability |-> ToneOf(c.observability /\ c.archive, "attention"),
     finops        |-> ToneOf(c.finops, "attention"),
     import_plan   |-> ToneOf(c.import_plan, "neutral"),
     runbook       |-> ToneOf(c.runbook, "attention")]
=============================================================================
