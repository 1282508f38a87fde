---------------------------- MODULE PayrollMonth ----------------------------
(***************************************************************************)
(* The two sides of a payroll month, side by side: what a caller is        *)
(* answered (PayrollService) and the ledger's rows with the run that reads *)
(* them (PayrollLedger).  They share no state: the service's requests are  *)
(* decided and calculated without the rows, and the run is given none of   *)
(* the answers.                                                            *)
(***************************************************************************)
EXTENDS PayrollService

CONSTANTS Importer, Ledger, Employee, Sheet, MaxSheets
VARIABLES rows, intakes, imp, points

L == INSTANCE PayrollLedger

\* What importers and sheets bring are figures.
ASSUME LedgerAssumption == L!InputsAreFigures

\* While a finished importer's ledger stands, a run reports its totals.
LedgerReachesTheRun == L!LedgerReachesTheRun

\* A run reports every employee who has a live row.
RunCoversPeriod == L!RunCoversPeriod
=============================================================================
