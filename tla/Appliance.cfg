SPECIFICATION Spec
CONSTANTS
    l1 = l1
    l2 = l2
    l3 = l3
    Logins = {l1, l2, l3}
    Answers = {x1}
    Changes = {p1, p2}
    OldSessions = {s1}
    Codes = {k1}
    Enforcement = "mandatory"
    Threshold = 2
    WindowLimit = 2
    NoRequest = NoRequest
    MaxAccountFaults = 1
    People = {q1, q2}
    Screens = {"sign-in", "enroll"}
    MfaEnforcement = "mandatory"
    MaxSetupFaults = 2
    Clients = {r1, r2}
    IdempotencyKeys = {k2}
    MaxRequestFaults = 2
    RowIds = {1, 2, 3}
    Ranks = {1, 2}
    PageLimit = 1
    Lists <- SoundLists
    MaxChanges = 2
    Hosts = {h1, h2, h3}
    Ports = {22, 80, 443}
    BatchSize = 2
    Lanes = {w1, w2}
    PacketsPerSecond = 1
    TicksPerSecond = 2
    ConnectTicks = 1
    JobTimeout = 1
    NoJob = NoJob
    Horizon = 4
    Ids = {a1, a2, a3}
    Ips = {ip1}
    Hostnames = {n1}
    Resolvers = {w3}
    Merges = {m1, m2}
    Reversals = {v1, v2}
    None = None
    MaxAssetFaults = 2
    ReportIds = {rp1}
    Formats = {html, csv}
    ArtifactIds = {t1}
    BackupIds = {b1}
    NoRow = NoRow
    MaxVersions = 1
    MaxArchiveFaults = 2
    Migrations = {1, 8, 11, 14, 16, 17}
    Migrators = {g1, g2}
    MaxMigratorRuns = 2
    Passphrases = {y1, y2, y3}
    TooShort = {y3}
    WorkerPassphrase = y1
    NoName = NoName
    NoVersion = NoVersion
    Vulnerabilities = {"v3", "v4"}
    RowCap = 2
    Probes <- MCProbes
    CatalogueRows <- MCCatalogueRows
    Releases <- MCReleases
    Width = 4
    MaxExpandedAddresses = 6
INVARIANTS
    ApplianceTypeOK
    LockIsEarned
    ChangeEndsSessions
    AnsweredIsRecorded
    RetryMakesNoRow
    NoBlindOverwrite
    WalkSeesEveryRow
    PaceHolds
    PartialResultsAreKept
    OneAssetPerAddress
    MergedIsReversible
    EvidenceIsWhole
    MatchesAreHonest
PROPERTIES
    SetupFinishes
    CommandsFit
CHECK_DEADLOCK FALSE
