------------------------------ MODULE MCPayroll ------------------------------
(***************************************************************************)
(* An instance of PayrollMonth for TLC.  Its two sides share no state: one *)
(* takes steps while the other is still where it began.  Nor does a plan   *)
(* depend on a decision: a caller asks for one or the other.               *)
(***************************************************************************)
EXTENDS PayrollMonth, TLC

CONSTANTS acme, other, north, gate, may, t1, t2, u1, req, e1, e2, i1, i2, f1, f2

Importers == {i1, i2}
LikeImporters == Permutations(Importers)
Employees == {e1, e2}
SomeKeyOrder == <<gate, north>>

\* A ledger's worker.  The second one has money back, the third one's net
\* does not follow from its components.
Worker(e, gross, income, health, net) ==
    [key |-> None, roster |-> None, name |-> e, gross |-> gross, income |-> income,
     local |-> income \div 10, health |-> health, pension |-> 0, employment |-> 0,
     total |-> income + income \div 10 + health, net |-> net]
Plain  == Worker(e1, 3000000, 210000, 100000, 2669000)
Refund == Worker(e2, 2000000, -50000, 10000, 2045000)
Off    == [Worker(e2, 2000000, 42000, 60000, 1900000) EXCEPT !.roster = e1]
Minus  == Worker(e2, -1, 0, 0, -1)

SomeLedgers ==
    {[file |-> f1, workers |-> <<Plain, Refund>>],
     [file |-> f1, workers |-> <<Refund, Off>>],
     [file |-> f2, workers |-> <<Plain, Minus>>]}
SomeSheets == {[gross |-> 2500000, column |-> 300000]}

-----------------------------------------------------------------------------
(* Payloads, settings, callers and slips *)

Flat(w, p) == [affiliate |-> acme, workplace |-> w, period |-> p]
Whole == [object |-> TRUE, twice |-> FALSE, id |-> req, metaId |-> None,
          scope |-> [form |-> "absent"], flat |-> Flat(north, may),
          inputType |-> None, paths |-> {}, tenant |-> None]
SomePayloads ==
    {[Whole EXCEPT !.inputType = type, !.paths = paths, !.flat.workplace = w] :
        type \in InputTypes, paths \in SUBSET {"invoice", "attendance"},
        w \in {north, gate}}
    \cup {[Whole EXCEPT !.paths = {"invoice"}, !.scope = scope, !.tenant = t1] :
        scope \in {[form |-> "text", parts |-> <<acme, north, may>>],
                   [form |-> "text", parts |-> <<acme, north>>],
                   [form |-> "text", parts |-> <<acme, north, other>>],
                   [form |-> "object", parts |-> Flat(None, None)],
                   [form |-> "list"]}}
    \cup {[Whole EXCEPT !.inputType = "letter"], [Whole EXCEPT !.object = FALSE],
          [Whole EXCEPT !.twice = TRUE, !.id = None, !.metaId = req]}

Policy(basis, minutes) ==
    [basis |-> basis, payday |-> None,
     attendance |-> [rounding |-> minutes, late |-> minutes, early |-> None,
                     missingClock |-> "deduct"]]
Aliases == [op |-> "aliases", workplace |-> north, names |-> {gate}]
Site(w, p) == [op |-> "site", workplace |-> w, policy |-> p]
Tenant(p) == [op |-> "tenant", policy |-> p]
SomeSettings ==
    {<<>>, <<Tenant(Policy("attendance", 0))>>, <<Tenant(Policy("Mixed", 90))>>,
     <<Aliases, Site(gate, Policy("invoice", 10)), Tenant(Policy("attendance", 300))>>,
     <<Site(gate, Policy("attendance", 10)), Aliases>>}

Unrestricted(position, role) ==
    [tenant |-> t1, position |-> position, role |-> role, unit |-> None, platforms |-> {},
     affiliates |-> {}, workplaces |-> {}]
SomePrincipals ==
    {[Unrestricted(position, role) EXCEPT !.unit = unit] :
        position \in {"ceo", "director", "senior", "member"},
        role \in {"staff", "finance", "admin"}, unit \in {None, u1}}
    \cup {[Unrestricted("executive", "staff") EXCEPT !.tenant = tenant, !.workplaces = {north},
                                                    !.affiliates = affiliates] :
        tenant \in {None, t1, t2}, affiliates \in {{}, {other}}}

Pay(base, hourly, hours, raw) ==
    [base |-> base, fixed |-> 0, hourly |-> hourly, otHours |-> hours, nightHours |-> 8,
     holidayHours |-> 0, otRaw |-> raw, nightRaw |-> 0, holidayRaw |-> 250000,
     mealDays |-> 40, transport |-> 100000, other |-> 0, additional |-> 0, weekHours |-> 40,
     presetPension |-> None, presetHealth |-> None, presetTax |-> None, exempt |-> FALSE]
SomeSlips ==
    {[Pay(base, hourly, hours, raw) EXCEPT !.exempt = exempt] :
        base \in {0, 905000, 2093333, 9999999, 10000123}, hourly \in {0, 15, 12345},
        hours \in {0, 13}, raw \in {0, 250, 99999, 500000}, exempt \in BOOLEAN}

\* Two workers over three days: one written in two ways, one late and
\* early within and beyond the grace, one day without a name.
Day(name, plain, w, work, late, early) ==
    [name |-> name, plain |-> plain, nameKey |-> None, workplace |-> w, work |-> Ticks(work),
     late |-> Ticks(late), early |-> Ticks(early), overtime |-> Ticks(work \div 7),
     night |-> Ticks(work - 475), special |-> 0, leave |-> 0, unpaid |-> 0]
SomeDays ==
    {Day(e1, e1, None, 475, 0, 7), Day(f1, e1, gate, 490, 12, 0),
     [Day(e2, e2, north, -5, 10, 30) EXCEPT !.unpaid = 1],
     [Day(e2, e2, None, 445, 15, 15) EXCEPT !.nameKey = e1],
     Day(None, None, north, 480, 0, 0)}
SomeAttendance ==
    {[records |-> records, workplace |-> north, policy |-> Policy("hybrid", minutes).attendance] :
        records \in [1..3 -> SomeDays], minutes \in {0, 10, 15, 90}}

-----------------------------------------------------------------------------

ledgerVars == <<rows, intakes, imp, points>>
CallerIdle == payload = None /\ slip = None /\ attended = None /\ settings = <<>>
CallerOnly == L!Init /\ UNCHANGED ledgerVars
LedgerOnly == CallerIdle /\ UNCHANGED vars

MCInit == Init /\ L!Init

MCNext ==
    \/ /\ CallerOnly
       /\ \/ \E p \in Payload : slip = None /\ attended = None /\ ValidateRunPayload(p)
          \/ \E who \in Principal : AuthorizeRunRequest(who)
          \/ PlanRunRequest /\ decided = None
          \/ \E ok \in BOOLEAN : AnswerRun(ok)
          \/ \E calls \in Settings : ChangeSettings(calls)
          \/ \E in \in SlipInput : settings = <<>> /\ CalculatePayrollSalary(in)
          \/ \E in \in Attendance : settings = <<>> /\ AggregateAttendanceRecords(in)
    \/ /\ LedgerOnly
       /\ \/ \E i \in Importers, ledger \in SomeLedgers : L!StartImport(i, ledger)
          \/ \E i \in Importers : L!InsertIntake(i)
          \/ \E i \in Importers : L!UpsertWorker(i)
          \/ \E i \in Importers : L!FinishImport(i)
          \/ \E i \in Importers : L!FailImport(i)
          \/ \E e \in Employees, sheet \in SomeSheets : L!TakeBeforeImage(e, sheet)
          \/ \E n \in DOMAIN points : L!AdmitSheet(n)
          \/ \E n \in DOMAIN points : L!RollBackSheet(n)

MCSpec == MCInit /\ [][MCNext]_<<vars, ledgerVars>>

=============================================================================
