---------------------------- MODULE PayrollLedger ----------------------------
(***************************************************************************)
(* One period of bitween_payroll.payroll_input and who writes it: the      *)
(* ledger importer (payroll_ledger_import.rs), a program of several        *)
(* statements that each commit on their own, and the archive's admission   *)
(* and rollback of payroll sheets (archive_intake_store.rs).  payroll_run  *)
(* reads the rows in one statement, reconciles them (reconciliation.rs)    *)
(* and writes nothing, so a run is an operator of the rows it finds.       *)
(***************************************************************************)
EXTENDS PayrollCalculation

CONSTANTS
    Importer,   \* runs of the ledger importer
    Ledger,     \* inputs of the importer: [file, workers]
    Employee,   \* employee keys
    Sheet,      \* rows of admitted payroll sheets: [gross, column]
    MaxSheets   \* bound: admissions of payroll sheets

VARIABLES
    rows,       \* payroll_input of the period, by employee key
    intakes,    \* the content hashes of the importer's archive intakes, in order
    imp,        \* where each run of the importer is
    points      \* the recovery points: [employee, before, sheet, at], at one of PointStage

vars == <<rows, intakes, imp, points>>

-----------------------------------------------------------------------------
(* The importer *)

Components == {"income", "local", "health", "pension", "employment"}

FirstGiven(values) == Head(SelectSeq(values, LAMBDA v : v # None))

\* A worker's key: the one supplied if it is valid, else the roster id if
\* letters are left of it, else one made of period and name.
ResolveEmployeeKey(worker) == FirstGiven(<<worker.key, worker.roster, worker.name>>)

\* What a worker's row holds.  The column may not be negative; the payload
\* keeps the signed figures and the row hash tells them from others.
\* (Mutant: a row that is there keeps its status.)
RowOfKeeping(worker, intake, old) ==
    [status |-> IF old = None THEN "admitted" ELSE old.status,
     gross |-> worker.gross, column |-> Greatest(worker.total, 0),
     payload |-> [f \in Components \cup {"total", "net"} |-> worker[f]],
     hash |-> worker, intake |-> intake]

RowOf(worker, intake, old) ==
    [status |-> "admitted", gross |-> worker.gross, column |-> Greatest(worker.total, 0),
     payload |-> [f \in Components \cup {"total", "net"} |-> worker[f]],
     hash |-> worker, intake |-> intake]

\* The hash that finds a former intake: period, file and number of workers.
LedgerContent(ledger) == <<ledger.file, Len(ledger.workers)>>

\* What is given to the importer and what sheets bring are figures in whole
\* won; the hash of a worker is never that of a sheet.
Figures == Components \cup {"gross", "total", "net"}
Workers == UNION {ToSet(ledger.workers) : ledger \in Ledger}
InputsAreFigures ==
    /\ \A ledger \in Ledger : ledger.workers \in Seq(Workers)
    /\ \A w \in Workers, f \in Figures : w[f] \in Int
    /\ \A sheet \in Sheet : sheet.gross \in Int /\ sheet.column \in Int
    /\ Workers \cap Sheet = {}

Idle == [at |-> "idle", ledger |-> None, intake |-> None, next |-> 0]

Init ==
    /\ rows = [e \in Employee |-> None]
    /\ intakes = <<>>
    /\ imp = [i \in Importer |-> Idle]
    /\ points = <<>>

\* The stdin is read and refused without workers; the intake is looked up.
StartImport(i, ledger) ==
    /\ imp[i].at = "idle" /\ ledger.workers # <<>>
    /\ LET known == {n \in DOMAIN intakes : intakes[n] = LedgerContent(ledger)}
       IN  imp' = [imp EXCEPT ![i] =
                [at |-> IF known = {} THEN "intake" ELSE "rows", ledger |-> ledger,
                 intake |-> IF known = {} THEN None ELSE Min(known), next |-> 1]]
    /\ UNCHANGED <<rows, intakes, points>>

\* None was found: it is inserted.  Nothing keeps another importer from
\* having inserted the same since.
InsertIntake(i) ==
    /\ imp[i].at = "intake"
    /\ intakes' = Append(intakes, LedgerContent(imp[i].ledger))
    /\ imp' = [imp EXCEPT ![i].at = "rows", ![i].intake = Len(intakes) + 1]
    /\ UNCHANGED <<rows, points>>

\* One worker's row, committed at once; a negative gross breaks the table's
\* check and ends the program.
UpsertWorker(i) ==
    /\ imp[i].at = "rows" /\ imp[i].next <= Len(imp[i].ledger.workers)
    /\ LET worker == imp[i].ledger.workers[imp[i].next]
           key == ResolveEmployeeKey(worker)
       IN  /\ worker.gross >= 0
           /\ rows' = [rows EXCEPT ![key] = RowOf(worker, imp[i].intake, @)]
           /\ imp' = [imp EXCEPT ![i].next = @ + 1]
    /\ UNCHANGED <<intakes, points>>

\* Every worker is in: the result is printed.
FinishImport(i) ==
    /\ imp[i].at = "rows" /\ imp[i].next > Len(imp[i].ledger.workers)
    /\ imp' = [imp EXCEPT ![i].at = "done"]
    /\ UNCHANGED <<rows, intakes, points>>

\* A statement fails or the program is killed; what is committed stays.
FailImport(i) ==
    /\ imp[i].at \in {"intake", "rows"}
    /\ imp' = [imp EXCEPT ![i].at = "failed"]
    /\ UNCHANGED <<rows, intakes, points>>

\* What a finished importer prints: the sums over its input, and whether
\* keys met twice.
Result(ledger) ==
    LET total(f) == FoldLeft(LAMBDA sum, w : sum + w[f], 0, ledger.workers)
        keys == {ResolveEmployeeKey(w) : w \in ToSet(ledger.workers)}
    IN  [gross |-> total("gross"), deductions |-> total("total"), net |-> total("net"),
         workers |-> Len(ledger.workers),
         collapsed |-> Cardinality(keys) < Len(ledger.workers)]

-----------------------------------------------------------------------------
(* The archive's payroll sheets *)

PointStage == {"taken", "available", "used"}
Sheets == Len(points)

\* A transaction that admits a sheet takes the before image first.
TakeBeforeImage(e, sheet) ==
    /\ Sheets < MaxSheets
    /\ points' = Append(points, [employee |-> e, before |-> rows[e], sheet |-> sheet, at |-> "taken"])
    /\ UNCHANGED <<rows, intakes, imp>>

\* It then writes over whatever the row has become.  A sheet's payload has the
\* sheet's own columns, none of the components.  A transaction that fails
\* stays where it is.
AdmitSheet(n) ==
    /\ points[n].at = "taken"
    /\ LET sheet == points[n].sheet
       IN  rows' = [rows EXCEPT ![points[n].employee] =
                [status |-> IF @ = None THEN "admitted" ELSE "replaced", gross |-> sheet.gross,
                 column |-> sheet.column, payload |-> None, hash |-> sheet, intake |-> None]]
    /\ points' = [points EXCEPT ![n].at = "available"]
    /\ UNCHANGED <<intakes, imp>>

\* Any admission may be rolled back: a replaced row gets its before image
\* back, an inserted one is marked reversed unless it is so already.
RollBackSheet(n) ==
    /\ points[n].at = "available"
    /\ points[n].before = None => rows[points[n].employee].status # "reversed"
    /\ LET e == points[n].employee
       IN  rows' = [rows EXCEPT ![e] =
                IF points[n].before # None THEN points[n].before
                ELSE [@ EXCEPT !.status = "reversed"]]
    /\ points' = [points EXCEPT ![n].at = "used"]
    /\ UNCHANGED <<intakes, imp>>

Next ==
    \/ \E i \in Importer, ledger \in Ledger : StartImport(i, ledger)
    \/ \E i \in Importer :
          InsertIntake(i) \/ UpsertWorker(i) \/ FinishImport(i) \/ FailImport(i)
    \/ \E e \in Employee, sheet \in Sheet : TakeBeforeImage(e, sheet)
    \/ \E n \in DOMAIN points : AdmitSheet(n) \/ RollBackSheet(n)

Spec == Init /\ [][Next]_vars

-----------------------------------------------------------------------------
(* The run *)

\* The figures of a row: components that the payload lacks are nil, its
\* total and net fall back to the columns.
LedgerWorker(row) ==
    LET of(f) == IF row.payload = None THEN 0 ELSE row.payload[f]
        total == IF row.payload = None THEN row.column ELSE of("total")
    IN  [gross |-> row.gross, taxes |-> of("income") + of("local"),
         insurance |-> of("health") + of("pension") + of("employment"), total |-> total,
         net |-> IF row.payload = None THEN row.gross - total ELSE of("net")]

\* The net is checked against the worker's own components; the engine's tax
\* is only reported.
ReconcileWorker(worker) ==
    LET recomputed == FinalizeDeductions(
            [gross |-> worker.gross, insurance |-> worker.insurance, presetTax |-> None,
             presetLocal |-> None, identity |-> 0])
        net == worker.gross - (worker.taxes + worker.insurance)
    IN  [gross |-> worker.gross, deductions |-> worker.total, net |-> worker.net,
         computedNet |-> net, netMatch |-> net = worker.net,
         variance |-> recomputed.taxTotal - worker.taxes]

\* The rows a run reads.
Loaded == {e \in Employee : IF rows[e] = None THEN FALSE ELSE rows[e].status = "admitted"}

\* The report of a run, None for a period without such rows.
ReconcilePeriod ==
    LET lines == [e \in Loaded |-> ReconcileWorker(LedgerWorker(rows[e]))]
        total(f) == MapThenSumSet(LAMBDA e : lines[e][f], Loaded)
    IN  IF Loaded = {} THEN None
        ELSE [lines |-> lines, workers |-> Cardinality(Loaded), gross |-> total("gross"),
              deductions |-> total("deductions"), net |-> total("net"),
              variance |-> total("variance"), allMatch |-> \A e \in Loaded : lines[e].netMatch]
-----------------------------------------------------------------------------
(* Properties *)

Live(row) == IF row = None THEN FALSE ELSE row.status # "reversed"

\* A finished importer's ledger stands when each of its workers has a row of
\* his own, live and with the hash of his figures, and no other row is live.
Stands(i) ==
    /\ imp[i].at = "done"
    /\ ~Result(imp[i].ledger).collapsed
    /\ {e \in Employee : Live(rows[e])} =
          {ResolveEmployeeKey(w) : w \in ToSet(imp[i].ledger.workers)}
    /\ \A w \in ToSet(imp[i].ledger.workers) : rows[ResolveEmployeeKey(w)].hash = w

\* While a finished importer's ledger stands, whatever was admitted, rolled
\* back, imported or broken off before, a run reports the totals that the
\* importer printed, refunds with their sign, and a line matches exactly when
\* the worker's net follows from his components.
LedgerReachesTheRun ==
    \A i \in Importer : Stands(i) =>
      LET printed == Result(imp[i].ledger)
      IN  /\ ReconcilePeriod # None
          /\ \A f \in {"gross", "deductions", "net", "workers"} : ReconcilePeriod[f] = printed[f]
          /\ \A w \in ToSet(imp[i].ledger.workers) :
                ReconcilePeriod.lines[ResolveEmployeeKey(w)].netMatch
                  <=> w.net = w.gross - MapThenSumSet(LAMBDA f : w[f], Components)

\* A run reports every employee who has a live row in the period: "Reads
\* payroll_input for a period, reconstructs each worker's source-ledger
\* figures" (payroll_run.rs).
RunCoversPeriod == {e \in Employee : Live(rows[e])} \subseteq Loaded
=============================================================================
