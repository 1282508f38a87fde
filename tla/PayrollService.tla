--------------------------- MODULE PayrollService ---------------------------
(***************************************************************************)
(* A payroll request from its payload to its plan: parsing (request.rs),   *)
(* the operation policy of its workplace (policy.rs, policy_resolution.rs), *)
(* the caller's access (access.rs), the validation answer (response.rs),   *)
(* the execution plan (execution_plan.rs), the answer of a finished run    *)
(* (run.rs) and the calculators, as the facade of service.rs offers them.  *)
(* The facade keeps nothing between calls and asks for no order of them:   *)
(* the variables are what one caller holds, who takes a payload to its     *)
(* validation first; settings may change between two of its calls.         *)
(***************************************************************************)
EXTENDS PayrollCalculation

CONSTANTS
    Periods,     \* the well-formed periods, YYYY-MM
    KeyOrder,    \* the workplace names in byte order, as a BTreeMap has them
    Payload,     \* request payloads a caller may send
    Settings,    \* policy settings, each the sequence of builder calls
    Principal,   \* callers
    SlipInput,   \* inputs of the salary calculator
    Attendance   \* inputs of the attendance calculator: [records, workplace, policy]

\* A payload has two path fields; a refusal is told from an absent reason.
ASSUME PayloadAssumption ==
    /\ None \notin Payload
    /\ \A p \in Payload : p.paths \subseteq {"invoice", "attendance"}
ASSUME ReasonAssumption ==
    None \notin {"missing_principal_tenant", "tenant_mismatch", "missing_permission",
                 "affiliate_not_allowed", "workplace_not_allowed", "invalid_payload",
                 "invalid_input_type", "missing_input_path"}

\* The figures of a slip are whole, and hours of overtime are not negative.
ASSUME SlipAssumption ==
    SlipInput \subseteq
          [base : Int, fixed : Int, hourly : Int, otHours : Nat, nightHours : Int,
           holidayHours : Int, otRaw : Int, nightRaw : Int, holidayRaw : Int,
           mealDays : Int, transport : Int, other : Int, additional : Int,
           weekHours : Int, presetPension : Int \cup {None}, presetHealth : Int \cup {None},
           presetTax : Int \cup {None}, exempt : BOOLEAN]

\* The ticks of a record are whole, and so are a policy's minutes where it has any.
ASSUME AttendanceAssumption ==
    \A in \in Attendance :
        /\ in.records \in Seq(ToSet(in.records))
        /\ \A n \in DOMAIN in.records :
              \A f \in {"work", "overtime", "night", "special", "late", "early", "leave", "unpaid"} :
                  in.records[n][f] \in Int
        /\ \A f \in {"rounding", "late", "early"} : in.policy[f] \in Int \cup {None}

VARIABLES
    settings,    \* the settings of the service's host
    payload,     \* the payload in hand
    validated,   \* the answer of validate_run_payload_with_policy_settings
    decided,     \* the answer of authorize_run_request, per action
    planned,     \* the answer of plan_run_request
    ran,         \* the answer of run_response
    slip,        \* the input given to the salary calculator
    attended     \* the input given to the attendance calculator

vars == <<settings, payload, validated, decided, planned, ran, slip, attended>>

-----------------------------------------------------------------------------
(* request.rs *)

Failed(code, missing) == [error |-> code, missing |-> missing]
Parsed(request) == [error |-> None, request |-> request]

ScopeOf(affiliate, workplace, period) ==
    IF period \in Periods
    THEN [error |-> None, affiliate |-> affiliate, workplace |-> workplace, period |-> period]
    ELSE Failed("invalid_period", {})

ScopeFromParts(parts) ==
    LET absent == {f \in {"affiliate", "workplace", "period"} : parts[f] = None}
    IN  IF absent # {} THEN Failed("missing_scope_fields", absent)
        ELSE ScopeOf(parts.affiliate, parts.workplace, parts.period)

\* "affiliate/workplace/period", cut at the first two separators.
ParseApiScope(parts) ==
    IF Len(parts) # 3 \/ None \in ToSet(parts) THEN Failed("invalid_scope", {})
    ELSE ScopeOf(parts[1], parts[2], parts[3])

\* A scope field that is neither text nor an object is refused; only its
\* absence makes the flat fields count.
ScopeFromRaw(p) ==
    CASE p.scope.form = "absent" -> ScopeFromParts(p.flat)
      [] p.scope.form = "object" -> ScopeFromParts(p.scope.parts)
      [] p.scope.form = "text"   -> ParseApiScope(p.scope.parts)
      [] OTHER                   -> Failed("invalid_scope", {})

InputTypes == {"auto", "invoice", "attendance", "mixed"}

\* The paths an input type lacks: a named source must be there, "auto"
\* needs one of the two.
MissingPaths(type, paths) ==
    CASE type = "auto"       -> IF paths = {} THEN {"invoice", "attendance"} ELSE {}
      [] type = "invoice"    -> {"invoice"} \ paths
      [] type = "attendance" -> {"attendance"} \ paths
      [] type = "mixed"      -> {"invoice", "attendance"} \ paths

RequestId(p) == IF p.id # None THEN p.id ELSE p.metaId

\* A field given under two of its spellings is a duplicate for serde.
ParsePayrollApiRequest(p) ==
    LET scope == ScopeFromRaw(p)
        type == IF p.inputType = None THEN "auto" ELSE p.inputType
    IN  IF ~p.object \/ p.twice THEN Failed("invalid_payload", {})
        ELSE IF scope.error # None THEN scope
        ELSE IF type \notin InputTypes THEN Failed("invalid_input_type", {})
        ELSE IF MissingPaths(type, p.paths) # {}
             THEN Failed("missing_input_path", MissingPaths(type, p.paths))
        ELSE Parsed([id |-> RequestId(p), scope |-> scope, type |-> type,
                     paths |-> p.paths, tenant |-> p.tenant])

\* An error answer still carries the id of an object, whatever is wrong.
RequestIdFromPayload(p) == IF p.object THEN RequestId(p) ELSE None

InferredInputType(request) ==
    IF request.paths = {"invoice", "attendance"} THEN "mixed"
    ELSE IF request.paths = {"attendance"} THEN "attendance" ELSE "invoice"

ResolvedInputType(request, policy) ==
    IF request.type # "auto" THEN request.type
    ELSE IF policy.basis = "hybrid" THEN InferredInputType(request) ELSE policy.basis

-----------------------------------------------------------------------------
(* policy.rs *)

\* The stored text is matched as it is written; anything else is hybrid.
InputBasis(text) == IF text \in {"invoice", "attendance"} THEN text ELSE "hybrid"
MissingClock(text) == IF text \in {"ignore", "deduct"} THEN text ELSE "warn"

IntBetween(value, default, low, high) ==
    Least(Greatest(IF value = None THEN default ELSE value, low), high)

NormalizedAttendance(raw) ==
    [rounding |-> IntBetween(raw.rounding, 1, 1, 60),
     late |-> IntBetween(raw.late, 0, 0, 240),
     early |-> IntBetween(raw.early, 0, 0, 240),
     missingClock |-> MissingClock(raw.missingClock)]

Normalized(raw) ==
    [basis |-> InputBasis(raw.basis),
     payday |-> IF raw.payday = None THEN "25" ELSE raw.payday,
     attendance |-> NormalizedAttendance(raw.attendance)]

DefaultPolicy ==
    Normalized([basis |-> None, payday |-> None,
                attendance |-> [rounding |-> None, late |-> None, early |-> None,
                                missingClock |-> None]])

-----------------------------------------------------------------------------
(* policy_resolution.rs *)

\* The first entry in key order that lists the name; a name nobody lists
\* stands for itself.
CanonicalWorkplace(name, aliases) ==
    LET listed == {n \in DOMAIN KeyOrder :
                      /\ KeyOrder[n] \in DOMAIN aliases
                      /\ name \in aliases[KeyOrder[n]] \cup {KeyOrder[n]}}
    IN  IF listed = {} THEN name ELSE KeyOrder[Min(listed)]

WithEntry(f, key, value) ==
    [k \in DOMAIN f \cup {key} |-> IF k = key THEN value ELSE f[k]]

\* A site policy is stored under the name that is canonical at its call.
BuilderCall(built, call) ==
    CASE call.op = "tenant"  -> [built EXCEPT !.tenant = call.policy]
      [] call.op = "aliases" ->
            [built EXCEPT !.aliases = WithEntry(@, call.workplace, call.names)]
      [] call.op = "site"    ->
            [built EXCEPT !.sites =
                WithEntry(@, CanonicalWorkplace(call.workplace, built.aliases), call.policy)]

Empty == [k \in {} |-> None]
Built(calls) == FoldLeft(BuilderCall, [tenant |-> None, sites |-> Empty, aliases |-> Empty], calls)

ResolveOperationPolicy(workplace, built) ==
    LET site == CanonicalWorkplace(workplace, built.aliases)
    IN  IF site \in DOMAIN built.sites
        THEN [workplace |-> site, policy |-> Normalized(built.sites[site]), source |-> "site"]
        ELSE IF built.tenant # None
        THEN [workplace |-> site, policy |-> Normalized(built.tenant), source |-> "tenant"]
        ELSE [workplace |-> site, policy |-> DefaultPolicy, source |-> "global"]

-----------------------------------------------------------------------------
(* access.rs *)

AllPermissions == {"payroll", "executive", "settings"}

PositionPermissions(position) ==
    CASE position \in {"ceo", "executive"} -> AllPermissions
      [] position = "director" -> {"payroll", "executive"}
      [] position \in {"manager", "team_lead", "senior"} -> {"payroll"}
      [] OTHER -> {}

RolePermissions(role) ==
    CASE role = "admin" -> AllPermissions
      [] role = "finance" -> {"payroll", "executive"}
      [] OTHER -> {}

\* A unit without the payroll platform takes every permission away from
\* all of its people but the CEO.
Permissions(who) ==
    LET own == PositionPermissions(who.position) \cup RolePermissions(who.role)
    IN  IF who.position # "ceo" /\ who.unit # None /\ "payroll" \notin who.platforms
        THEN {} ELSE own

Actions == {"validate", "run", "settings"}
RequiredPermission(action) ==
    CASE action = "validate" -> "payroll"
      [] action = "run" -> "executive"
      [] action = "settings" -> "settings"

Within(name, allowed) == allowed = {} \/ name \in allowed

\* The reason an action is refused, None when it is allowed.
AuthorizePayrollRequest(request, who, action) ==
    IF who.tenant = None THEN "missing_principal_tenant"
    ELSE IF request.tenant \notin {None, who.tenant} THEN "tenant_mismatch"
    ELSE IF RequiredPermission(action) \notin Permissions(who) THEN "missing_permission"
    ELSE IF ~Within(request.scope.affiliate, who.affiliates) THEN "affiliate_not_allowed"
    ELSE IF ~Within(request.scope.workplace, who.workplaces) THEN "workplace_not_allowed"
    ELSE None

-----------------------------------------------------------------------------
(* execution_plan.rs *)

Step(kind, input, output) == [kind |-> kind, input |-> input, output |-> output]

InvoiceSteps(input) == << Step("process_invoice", {input}, "payroll_outputs") >>

AttendanceSteps ==
    << Step("extract_attendance", {"attendance"}, "attendance_rows"),
       Step("build_attendance_invoice", {"attendance_rows"}, "generated:attendance_invoice") >>
    \o InvoiceSteps("generated:attendance_invoice")

MixedSteps ==
    << Step("extract_attendance", {"attendance"}, "attendance_rows"),
       Step("attach_attendance_sheet", {"invoice", "attendance_rows"}, "generated:mixed_invoice") >>
    \o InvoiceSteps("generated:mixed_invoice")

\* A mixed run with one source left falls back to that source.
PlannedInputType(request, policy) ==
    LET type == ResolvedInputType(request, policy)
    IN  IF type = "mixed" /\ Cardinality(request.paths) = 1
        THEN InferredInputType(request) ELSE type

\* (Mutant: a mixed request has the steps of an invoice.)
StepsOfOneSource(type, paths) ==
    IF type \notin paths /\ type # "mixed" THEN <<>>
    ELSE IF type = "attendance" THEN AttendanceSteps ELSE InvoiceSteps("invoice")

StepsFor(type, paths) ==
    CASE type = "invoice"    -> IF "invoice" \in paths THEN InvoiceSteps("invoice") ELSE <<>>
      [] type = "attendance" -> IF "attendance" \in paths THEN AttendanceSteps ELSE <<>>
      [] type = "mixed"      ->
            IF {"invoice", "attendance"} \subseteq paths THEN MixedSteps ELSE <<>>

PlanPayrollExecution(request, policy) ==
    LET type == PlannedInputType(request, Normalized(policy))
        missing == IF type = "mixed" THEN {"invoice", "attendance"} \ request.paths
                   ELSE {type} \ request.paths
    IN  [ok |-> missing = {}, type |-> type, sources |-> request.paths,
         missing |-> missing, steps |-> StepsFor(type, request.paths)]

-----------------------------------------------------------------------------
(* response.rs and run.rs *)

Validation(p, built) ==
    LET parsed == ParsePayrollApiRequest(p)
        resolved == ResolveOperationPolicy(parsed.request.scope.workplace, built)
    IN  IF parsed.error # None
        THEN [ok |-> FALSE, canRun |-> FALSE, id |-> RequestIdFromPayload(p),
              code |-> parsed.error, missing |-> parsed.missing]
        ELSE [ok |-> TRUE, canRun |-> TRUE, id |-> parsed.request.id, code |-> None,
              request |-> parsed.request, source |-> resolved.source,
              policy |-> Normalized(resolved.policy),
              type |-> ResolvedInputType(parsed.request, Normalized(resolved.policy))]

RunResponse(ok, request, type, policy) ==
    [ok |-> ok, canRun |-> ok, id |-> request.id, scope |-> request.scope, type |-> type,
     policy |-> Normalized(policy), code |-> IF ok THEN None ELSE "payroll_run_failed"]

-----------------------------------------------------------------------------
(* The caller *)

Init ==
    /\ settings \in Settings
    /\ payload = None /\ validated = None /\ planned = None /\ ran = None
    /\ decided = None
    /\ slip = None /\ attended = None

\* validate_run_payload_with_policy_settings
ValidateRunPayload(p) ==
    /\ payload = None
    /\ payload' = p
    /\ validated' = Validation(p, Built(settings))
    /\ UNCHANGED <<settings, decided, planned, ran, slip, attended>>

\* authorize_run_request
AuthorizeRunRequest(who) ==
    /\ IF validated = None THEN FALSE ELSE validated.ok
    /\ planned = None
    /\ decided = None
    /\ decided' = [a \in Actions |-> AuthorizePayrollRequest(validated.request, who, a)]
    /\ UNCHANGED <<settings, payload, validated, planned, ran, slip, attended>>

\* plan_run_request, with the policy the settings give at the time
PlanRunRequest ==
    /\ IF validated = None THEN FALSE ELSE validated.ok
    /\ planned = None
    /\ LET now == ResolveOperationPolicy(validated.request.scope.workplace, Built(settings))
       IN  planned' = [plan |-> PlanPayrollExecution(validated.request, now.policy),
                       policy |-> now.policy]
    /\ UNCHANGED <<settings, payload, validated, decided, ran, slip, attended>>

\* run_response for the result the executor gives
AnswerRun(ok) ==
    /\ IF planned = None THEN FALSE ELSE planned.plan.ok
    /\ ran = None
    /\ ran' = RunResponse(ok, validated.request, planned.plan.type, planned.policy)
    /\ UNCHANGED <<settings, payload, validated, decided, planned, slip, attended>>

\* The host saves other settings while a request is under way.
ChangeSettings(calls) ==
    /\ validated # None /\ planned = None
    /\ settings' = calls
    /\ UNCHANGED <<payload, validated, decided, planned, ran, slip, attended>>

\* calculate_payroll_salary, calculate_payroll_earnings and the rest: pure
\* functions of their input.
CalculatePayrollSalary(in) ==
    /\ payload = None /\ slip = None /\ attended = None
    /\ slip' = in
    /\ UNCHANGED <<settings, payload, validated, decided, planned, ran, attended>>

\* aggregate_attendance_records
AggregateAttendanceRecords(in) ==
    /\ payload = None /\ slip = None /\ attended = None
    /\ attended' = in
    /\ UNCHANGED <<settings, payload, validated, decided, planned, ran, slip>>

Next ==
    \/ \E p \in Payload : ValidateRunPayload(p)
    \/ \E who \in Principal : AuthorizeRunRequest(who)
    \/ PlanRunRequest
    \/ \E ok \in BOOLEAN : AnswerRun(ok)
    \/ \E calls \in Settings : ChangeSettings(calls)
    \/ \E in \in SlipInput : CalculatePayrollSalary(in)
    \/ \E in \in Attendance : AggregateAttendanceRecords(in)

Spec == Init /\ [][Next]_vars

-----------------------------------------------------------------------------
(* Properties *)

\* Every input of a step is a source path or what an earlier step put out,
\* every intermediate output is used, and the last one is the payroll.
RunsEndToEnd(plan) ==
    LET last == Len(plan.steps)
        used == UNION {plan.steps[n].input : n \in 1..last}
        named == IF plan.type = "mixed" THEN {"invoice", "attendance"} ELSE {plan.type}
    IN  /\ last > 0
        /\ \A n \in 1..last :
              /\ plan.steps[n].input \subseteq plan.sources \cup {plan.steps[m].output : m \in 1..(n - 1)}
              /\ n < last => plan.steps[n].output \in UNION {plan.steps[m].input : m \in (n + 1)..last}
        /\ named \subseteq used
        /\ plan.steps[last].output = "payroll_outputs"

\* Whoever may change the settings may run, and whoever may run may validate.
RunRightNests(decision) ==
    /\ decision["settings"] = None => decision["run"] = None
    /\ decision["run"] = None => decision["validate"] = None

\* The answers to one request fit together, though parsing, policy, access
\* and planning never see each other's: a plan that is ok runs from the
\* request's own sources to the payroll, one that is not ok has no steps
\* and can only come from an "auto" request and a policy that names a source
\* the request lacks, the plan is of the type the validation gave while the
\* policy is the same, and rights nest.
AnswersAgree ==
    /\ decided # None => RunRightNests(decided)
    /\ planned # None =>
          /\ planned.plan.ok => RunsEndToEnd(planned.plan)
          /\ ~planned.plan.ok => /\ planned.plan.steps = <<>>
                                /\ validated.request.type = "auto"
                                /\ planned.policy.basis \in planned.plan.missing
          /\ planned.policy = validated.policy => planned.plan.type = validated.type

\* The figures of a slip, given back as presets, give the same slip;
\* overtime given back as its raw amount gives the same gross but for one
\* won of rounding, unless the amount would be taken for a number of hours.
SlipReproduces(in, first) ==
    LET again == CalculateSalary([in EXCEPT !.presetPension = first.insurance.pension,
                                            !.presetHealth = first.insurance.health,
                                            !.presetTax = first.incomeTax])
        raw == CalculateEarnings([in EXCEPT !.otHours = 0, !.otRaw = first.earnings.overtime])
    IN  /\ [again EXCEPT !.method = first.method] = first
        /\ IsLikelyHours(first.earnings.overtime, OrdinaryHourly(in.base, in.fixed, in.hourly))
              \/ raw.gross - first.gross \in -1..1

\* The deduction engine, which rounds and taxes differently, reaches the
\* same net from its own figures.
Books(slipped) == [gross |-> slipped.gross, insurance |-> slipped.insurance.total,
                   presetTax |-> None, presetLocal |-> None, identity |-> 0]
DeductionsReproduce(books, closed) ==
    LET reopened == FinalizeDeductions([books EXCEPT !.presetTax = closed.incomeTax,
                                                     !.presetLocal = closed.localTax])
    IN  [reopened EXCEPT !.method = closed.method] = closed

\* An attendance row, given back as one record with no grace to take, gives
\* that row and no other.
AsRecord(row, key) ==
    [f \in DOMAIN row \cup {"nameKey", "late"} |->
        IF f = "nameKey" THEN key ELSE IF f = "late" THEN 0 ELSE row[f]]
SameAgain(rows, workplace, policy) ==
    \A k \in DOMAIN rows : \A row \in rows[k] :
        AggregateAttendance(<<AsRecord(row, k)>>, workplace,
                            [policy EXCEPT !.late = 0, !.early = 0])[k]
          = {[row EXCEPT !.days = 1]}

\* In whatever order the records come the row is the same, but for its name
\* and workplace and for hours that lie midway between two units.
HourKind == {"work", "overtime", "night", "special", "early"}
Midway(t, unit) == 2 * (t % Ticks(unit)) = Ticks(unit)
SameTurned(rows, turned, records, policy) ==
    \A k \in DOMAIN rows : \A row \in rows[k], other \in turned[k] :
        /\ \A f \in {"leave", "unpaid", "days"} : other[f] = row[f]
        /\ \A f \in HourKind : \/ other[f] = row[f]
                               \/ Midway(TotalOf(records, policy, f, GroupOf(records, k)),
                                         policy.rounding)

\* However many records are behind it, a row is off by half a unit at most and
\* by one tick that the decimals of an hour take.
HalfAUnitOff(rows, records, unit) ==
    \A k \in DOMAIN rows : \A row \in rows[k] :
        LET worked == [n \in GroupOf(records, k) |-> Greatest(records[n].work, 0)]
            off    == row.work - SumOf(worked, DOMAIN worked)
        IN  2 * off \in (0 - (Ticks(unit) + 2))..(Ticks(unit) + 2)

RowsReproduce(in, policy, rows) ==
    /\ SameAgain(rows, in.workplace, policy)
    /\ SameTurned(rows, AggregateAttendance(Reverse(in.records), in.workplace, policy),
                  in.records, policy)
    /\ HalfAUnitOff(rows, in.records, policy.rounding)

RowsOf(in, policy) == AggregateAttendance(in.records, in.workplace, policy)

\* Figures that the calculators gave out can be given back to them.
FiguresReproduce ==
    /\ slip # None =>
          /\ SlipReproduces(slip, CalculateSalary(slip))
          /\ LET books == Books(CalculateSalary(slip))
             IN  DeductionsReproduce(books, FinalizeDeductions(books))
    /\ attended # None =>
          LET policy == NormalizedAttendance(attended.policy)
          IN  RowsReproduce(attended, policy, RowsOf(attended, policy))
=============================================================================
