SPECIFICATION Spec
CONSTANTS
    s1 = s1
    s2 = s2
    Request = {r1}
    Step = {s1, s2}
    Seed <- TwoSteps
    Scope = {p1}
    Offered <- SomeFields
    Keep = Keep
    MaxVersion = 4
CHECK_DEADLOCK FALSE
INVARIANT OneRecordPerScope
