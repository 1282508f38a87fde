SPECIFICATION Spec
CONSTANTS
    Intake = {i1, i2}
    Row = {r1, r2}
    Key = {k1, k2}
    NoKey = NoKey
    NoIntake = NoIntake
    MappingIssue = {}
    OtherIssue = {}
    OfferedTargets = {"payroll_input"}
    RollbackScopes = {"all", "one"}
    MaxInFlight = 2
    MaxJournal = 4
SYMMETRY Symmetry
CHECK_DEADLOCK FALSE
INVARIANTS
    RolledBackLeavesNothing
    BeforeImageForeign
