SPECIFICATION Spec
CONSTANTS
    i1 = i1
    i2 = i2
    c1 = c1
    c2 = c2
    Issues <- MCIssues
    Unscoreable = {1}
    Publishers = {a1, a2}
    BatchSize = 2
    MaxRescoreFaults = 1
    Imports = {i1, i2}
    Records = {c1, c2}
    Pollers = {w1}
    NoImport = NoImport
    MaxIntelFaults = 2
    Verifications = {1, 2}
    MaxVerificationFaults = 1
INVARIANTS
    WorkerTypeOK
    HistoryIsWhole
    CorpusIsApplied
    CurrentIsNewest
    DisabledStopsFetch
    VerificationIsHonest
PROPERTIES
    EveryIssueReachesActive
    AppliedIsFinal
    ImportsEnd
CHECK_DEADLOCK FALSE
