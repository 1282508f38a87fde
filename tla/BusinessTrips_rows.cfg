SPECIFICATION Spec
CONSTANTS
    None = None
    t1 = t1  t2 = t2
    store = store  legal = legal
    d1 = d1  d2 = d2  k1 = k1
    ann = ann  bob = bob  boss = boss
    site = site  dept = dept
    Trip = {t1, t2}
    Raw <- SomeRows
    Store = store
    MaxTime = 2
    Viewer <- SomeViewers
SYMMETRY Symmetry
CHECK_DEADLOCK FALSE
INVARIANTS
    KpiFollowsStatus
    MigrationSettles
    OneTripPerSource
    RightsNest
PROPERTIES
    StampsAreKept
    NobodyLosesTheTrip
