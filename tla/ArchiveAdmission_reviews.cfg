SPECIFICATION Spec
CONSTANTS
    Intake = {i1}
    Row = {r1}
    Key = {k1}
    NoKey = NoKey
    NoIntake = NoIntake
    MappingIssue = {}
    OtherIssue = {o1, o2}
    OfferedTargets = {"hr_employee"}
    RollbackScopes = {"all"}
    MaxInFlight = 2
    MaxJournal = 2
CHECK_DEADLOCK FALSE
INVARIANT ReviewVerdictCurrent
