---------------------------- MODULE MCAppliance ----------------------------
(***************************************************************************)
(* Small instances of the parts of the appliance that share no row with    *)
(* one another: a behaviour of several is a behaviour of each, interleaved,*)
(* so one is explored at a time, and which is chosen at the start.         *)
(* Accounts is explored three times: its sign-ins with their lock, its     *)
(* enrolment with the codes, and its sessions with what ends them.         *)
(***************************************************************************)
EXTENDS Accounts, Setup, Requests, Pages, TcpAdapter, Assets, Archives, Database,
    MCMatching, MCArithmetic

CONSTANTS l1, l2, l3

\* Of the lists only those are walked whose walk is to be exact.
ASSUME ExploredAssumption == l1 \in Logins /\ Lists \subseteq SoundLists

VARIABLE explored

applianceVars ==
    <<accountVars, setupVars, requestVars, pageVars, adapterVars, assetVars, archiveVars,
      databaseVars, matchVars, explored>>

Part(name, A, others) == explored = name /\ A /\ UNCHANGED <<others, explored>>

notAccounts == <<setupVars, requestVars, pageVars, adapterVars, assetVars,
                 archiveVars, databaseVars, matchVars>>
notSetup == <<accountVars, requestVars, pageVars, adapterVars, assetVars,
              archiveVars, databaseVars, matchVars>>
notRequests == <<accountVars, setupVars, pageVars, adapterVars, assetVars,
                 archiveVars, databaseVars, matchVars>>
notPages == <<accountVars, setupVars, requestVars, adapterVars, assetVars,
              archiveVars, databaseVars, matchVars>>
notAdapter == <<accountVars, setupVars, requestVars, pageVars, assetVars,
                archiveVars, databaseVars, matchVars>>
notAssets == <<accountVars, setupVars, requestVars, pageVars, adapterVars,
               archiveVars, databaseVars, matchVars>>
notArchives == <<accountVars, setupVars, requestVars, pageVars, adapterVars,
                 assetVars, databaseVars, matchVars>>
notDatabase == <<accountVars, setupVars, requestVars, pageVars, adapterVars, assetVars,
                 archiveVars, matchVars>>
notMatching == <<accountVars, setupVars, requestVars, pageVars, adapterVars, assetVars,
                 archiveVars, databaseVars>>

SignIns == (\E l \in Logins : Login(l)) \/ WindowEnds \/ LockEnds

Enrolment ==
    \/ Login(l1) \/ (\E x \in Answers : Answer(x))
    \/ (\E s \in Sessions : Enroll(s) \/ ConfirmEnrollment(s))
    \/ ReadRole \/ PatchRole \/ TokensEnd

SessionLives ==
    \/ Login(l1) \/ (\E c \in Changes : Change(c))
    \/ (\E s \in Sessions : Logout(s) \/ SessionEnds(s))
    \/ Deactivate \/ RevokeDeactivated \/ ApiCrash

SetupGoesOn(p) == Part("setup", GoesOn(p), notSetup)

\* What is not explored has one initial state.
OthersAtRest ==
    /\ explored \notin {"enrolment", "sessions"} => ~user.mustChange
    /\ explored # "requests" => handlers = {GetOrganization, UpdateOrganization}
    /\ explored # "pages" => list = ListUsers /\ Present = {}
    /\ explored # "database" =>
         schema = Migrations /\ followed = [from |-> "issues", to |-> "assets"]

\* The constraints that a migration after the first adds, defers or drops are
\* followed from every release on, the others from the newest.
TouchedByMigrations ==
    AuditReferences \cup ViewReferences \cup IntelReferences \cup CpeReferences
    \cup {[from |-> "issues", to |-> "exceptions"],
          [from |-> "asset_identity_keys", to |-> "observations"]}

NewestForTheRest == followed \notin TouchedByMigrations => schema = Migrations

Init ==
    /\ AccountInit /\ SetupInit /\ RequestInit /\ PageInit /\ AdapterInit /\ AssetInit
    /\ ArchiveInit /\ DatabaseInit /\ MatchInit
    /\ explored \in {"sign-ins", "enrolment", "sessions", "setup", "requests", "pages",
                     "adapter", "assets", "archives", "database", "matching"}
    /\ OthersAtRest /\ NewestForTheRest

Next ==
    \/ Part("sign-ins", SignIns, notAccounts)
    \/ Part("enrolment", Enrolment, notAccounts)
    \/ Part("sessions", SessionLives, notAccounts)
    \/ Part("setup", SetupNext, notSetup)
    \/ Part("requests", RequestNext, notRequests)
    \/ Part("pages", PageNext, notPages)
    \/ Part("adapter", AdapterNext, notAdapter)
    \/ Part("assets", AssetNext, notAssets)
    \/ Part("archives", ArchiveNext, notArchives)
    \/ Part("database", DatabaseNext, notDatabase)
    \/ Part("matching", MatchNext, notMatching)

\* Nobody who set out to set up the appliance stops half way.
Spec ==
    /\ Init /\ [][Next]_applianceVars
    /\ \A p \in People : WF_applianceVars(SetupGoesOn(p))

\* Every variable of the part explored has its type; the others never move.
ApplianceTypeOK ==
    CASE explored \in {"sign-ins", "enrolment", "sessions"} -> AccountTypeOK
      [] explored = "setup" -> SetupTypeOK
      [] explored = "requests" -> RequestTypeOK
      [] explored = "pages" -> PageTypeOK
      [] explored = "adapter" -> AdapterTypeOK
      [] explored = "assets" -> AssetTypeOK
      [] explored = "archives" -> ArchiveTypeOK
      [] explored = "database" -> DatabaseTypeOK
      [] explored = "matching" -> MatchTypeOK

=============================================================================
