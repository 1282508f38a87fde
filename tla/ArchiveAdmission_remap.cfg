SPECIFICATION Spec
CONSTANTS
    Intake = {i1, i2}
    Row = {r1}
    Key = {k1}
    NoKey = NoKey
    NoIntake = NoIntake
    MappingIssue = {m1}
    OtherIssue = {}
    OfferedTargets = {"hr_employee"}
    RollbackScopes = {"all"}
    MaxInFlight = 1
    MaxJournal = 2
SYMMETRY Symmetry
CHECK_DEADLOCK FALSE
INVARIANT AdmissionStaysReversible
