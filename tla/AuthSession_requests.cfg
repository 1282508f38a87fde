SPECIFICATION Spec
CONSTANTS
    None = None  Invalid = Invalid  BuiltinId = BuiltinId
    iss = iss  aud = aud  ann = ann  j1 = j1  j2 = j2  j3 = j3
    acme = acme  legal = legal  site = site  policy2 = policy2
    Deployment <- SomeDeployments
    MaxTime = 3
    Asked = {"payroll_run", "workflow_template_write", "hr_employee_read"}
    Skew = 1
    ChallengeTtl = 1
INVARIANTS
    ActsAreAccountedFor
    NoDeadGrant
    InconsistentCycleShuts
    KeyOrderIrrelevant
    ViewFitsCycle
