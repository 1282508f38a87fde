SPECIFICATION Spec
CONSTANTS
    s1 = s1
    s2 = s2
    Request = {r1, r2}
    Step = {s1, s2, s3}
    Seed <- TwoSteps
    Scope = {p1}
    Offered <- SomeFields
    Keep = Keep
    MaxVersion = 3
SYMMETRY Symmetry
CHECK_DEADLOCK FALSE
INVARIANTS
    GraphsSound
    HistoryGapless
    RollbackRestores
    EvidenceCarried
PROPERTIES
    HistoryImmutable
