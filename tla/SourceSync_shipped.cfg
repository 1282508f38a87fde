SPECIFICATION FairSpec
CONSTANTS
    Worker = {w1, w2}
    MaxPlan = 2
    MaxItems = 3
CHECK_DEADLOCK FALSE
INVARIANTS
    SettlesInOrder
    WorkbookShowsOperation
PROPERTY RequestEnds
