SPECIFICATION Spec
CONSTANTS
    i1 = i1
    i2 = i2
    c1 = c1
    c2 = c2
    Issues <- MCIssues
    Unscoreable = {}
    Publishers = {a1}
    BatchSize = 2
    MaxRescoreFaults = 0
    Imports = {}
    Records = {}
    Pollers = {}
    NoImport = NoImport
    MaxIntelFaults = 0
    Verifications = {}
    MaxVerificationFaults = 0
INVARIANT
    RatingFollowsScores
CHECK_DEADLOCK FALSE
