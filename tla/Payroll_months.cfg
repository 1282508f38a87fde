SPECIFICATION MCSpec
CONSTANTS
    None = None
    acme = acme  other = other  north = north  gate = gate  may = may
    t1 = t1  t2 = t2  u1 = u1  req = req
    e1 = e1  e2 = e2  i1 = i1  i2 = i2  f1 = f1  f2 = f2
    Periods = {may}
    KeyOrder <- SomeKeyOrder
    Payload <- SomePayloads
    Settings <- SomeSettings
    Principal <- SomePrincipals
    SlipInput <- SomeSlips
    Attendance <- SomeAttendance
    Importer <- Importers
    Ledger <- SomeLedgers
    Employee <- Employees
    Sheet <- SomeSheets
    MaxSheets = 2
SYMMETRY LikeImporters
CHECK_DEADLOCK FALSE
INVARIANTS
    AnswersAgree
    FiguresReproduce
    LedgerReachesTheRun
