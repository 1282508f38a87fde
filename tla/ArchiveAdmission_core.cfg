SPECIFICATION Spec
CONSTANTS
    Intake = {i1, i2}
    Row = {r1}
    Key = {k1}
    NoKey = NoKey
    NoIntake = NoIntake
    MappingIssue = {m1}
    OtherIssue = {o1}
    OfferedTargets = {"hr_employee", "payroll_input"}
    RollbackScopes = {"all"}
    MaxInFlight = 2
    MaxJournal = 4
SYMMETRY Symmetry
CHECK_DEADLOCK FALSE
INVARIANTS
    JournalAlternates
    ClosedIntakeDecided
    AdmittedRowsReversible
    Provenance
    ReviewNotSkipped
