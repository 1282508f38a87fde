SPECIFICATION Spec
CONSTANTS
    Worker = {w1}
    MaxPlan = 2
    MaxItems = 1
SYMMETRY Symmetry
CHECK_DEADLOCK FALSE
PROPERTY FailedMeansUploadFailed
