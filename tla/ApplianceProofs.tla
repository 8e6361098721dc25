-------------------------- MODULE ApplianceProofs ---------------------------
(***************************************************************************)
(* The parts of the appliance together, as MCAppliance explores them: a    *)
(* behaviour of all is a behaviour of each, so what is proved of a part    *)
(* holds in all.                                                           *)
(***************************************************************************)
EXTENDS MCAppliance, ApiProofs, PipelineProofs, AlgorithmsProofs

\* The names of the parts.
PartNames ==
    {"sign-ins", "enrolment", "sessions", "setup", "requests", "pages", "adapter", "assets",
     "archives", "database", "matching"}

LEMMA AccountsArePart == Spec => AccountSpec
<1>1. Init => AccountInit
  BY DEF Init
<1>2. [Next]_applianceVars => [AccountNext]_accountVars
  <2> SUFFICES ASSUME [Next]_applianceVars PROVE [AccountNext]_accountVars
    OBVIOUS
  <2>1. CASE SignIns
    BY <2>1 DEF SignIns, AccountNext
  <2>2. CASE Enrolment
    BY <2>2, ExploredAssumption DEF Enrolment, AccountNext, Administration
  <2>3. CASE SessionLives
    BY <2>3, ExploredAssumption DEF SessionLives, AccountNext, Administration
  <2>4. SignIns \/ Enrolment \/ SessionLives \/ UNCHANGED accountVars
    BY DEF Next, Part, applianceVars, notSetup, notRequests, notPages, notAdapter, notAssets,
      notArchives, notDatabase, notMatching
  <2>. QED
    BY <2>1, <2>2, <2>3, <2>4
<1>. QED
  BY <1>1, <1>2, PTL DEF Spec, AccountSpec

LEMMA SetupIsPart == Spec => SetupInit /\ [][SetupNext]_setupVars
<1>1. Init => SetupInit
  BY DEF Init
<1>2. [Next]_applianceVars => [SetupNext]_setupVars
  BY DEF Next, Part, applianceVars, notAccounts, notRequests, notPages, notAdapter, notAssets,
    notArchives, notDatabase, notMatching
<1>. QED
  BY <1>1, <1>2, PTL DEF Spec

LEMMA RequestsArePart == Spec => RequestSpec
<1>1. Init => RequestInit
  BY DEF Init
<1>2. [Next]_applianceVars => [RequestNext]_requestVars
  BY DEF Next, Part, applianceVars, notAccounts, notSetup, notPages, notAdapter, notAssets,
    notArchives, notDatabase, notMatching
<1>. QED
  BY <1>1, <1>2, PTL DEF Spec, RequestSpec

LEMMA PagesArePart == Spec => PageSpec
<1>1. Init => PageInit
  BY DEF Init
<1>2. [Next]_applianceVars => [PageNext]_pageVars
  BY DEF Next, Part, applianceVars, notAccounts, notSetup, notRequests, notAdapter, notAssets,
    notArchives, notDatabase, notMatching
<1>. QED
  BY <1>1, <1>2, PTL DEF Spec, PageSpec

LEMMA AdapterIsPart == Spec => AdapterSpec
<1>1. Init => AdapterInit
  BY DEF Init
<1>2. [Next]_applianceVars => [AdapterNext]_adapterVars
  BY DEF Next, Part, applianceVars, notAccounts, notSetup, notRequests, notPages, notAssets,
    notArchives, notDatabase, notMatching
<1>. QED
  BY <1>1, <1>2, PTL DEF Spec, AdapterSpec

LEMMA AssetsArePart == Spec => AssetSpec
<1>1. Init => AssetInit
  BY DEF Init
<1>2. [Next]_applianceVars => [AssetNext]_assetVars
  BY DEF Next, Part, applianceVars, notAccounts, notSetup, notRequests, notPages, notAdapter,
    notArchives, notDatabase, notMatching
<1>. QED
  BY <1>1, <1>2, PTL DEF Spec, AssetSpec

LEMMA ArchivesArePart == Spec => ArchiveSpec
<1>1. Init => ArchiveInit
  BY DEF Init
<1>2. [Next]_applianceVars => [ArchiveNext]_archiveVars
  BY DEF Next, Part, applianceVars, notAccounts, notSetup, notRequests, notPages, notAdapter,
    notAssets, notDatabase, notMatching
<1>. QED
  BY <1>1, <1>2, PTL DEF Spec, ArchiveSpec

LEMMA DatabaseIsPart == Spec => DatabaseSpec
<1>1. Init => DatabaseInit
  BY DEF Init
<1>2. [Next]_applianceVars => [DatabaseNext]_databaseVars
  BY DEF Next, Part, applianceVars, notAccounts, notSetup, notRequests, notPages, notAdapter,
    notAssets, notArchives, notMatching
<1>. QED
  BY <1>1, <1>2, PTL DEF Spec, DatabaseSpec

LEMMA MatchingIsPart == Spec => MatchSpec
<1>1. Init => MatchInit
  BY DEF Init
<1>2. [Next]_applianceVars => [MatchNext]_matchVars
  BY DEF Next, Part, applianceVars, notAccounts, notSetup, notRequests, notPages, notAdapter,
    notAssets, notArchives, notDatabase
<1>. QED
  BY <1>1, <1>2, PTL DEF Spec, MatchSpec

LEMMA PartsAreNamed == Spec => [](explored \in PartNames)
<1>1. Init => explored \in PartNames
  BY DEF Init, PartNames
<1>2. explored \in PartNames /\ [Next]_applianceVars => (explored \in PartNames)'
  BY DEF Next, Part, applianceVars
<1>. QED
  BY <1>1, <1>2, PTL DEF Spec

\* Every variable of the part explored has its type, whichever it is and for
\* every value of its constants.
THEOREM ApplianceTypeCorrect == Spec => []ApplianceTypeOK
<1>1. /\ explored \in PartNames
      /\ AccountTypeOK /\ SetupTypeOK /\ RequestTypeOK /\ PageTypeOK /\ AdapterTypeOK
      /\ AssetTypeOK /\ ArchiveTypeOK /\ DatabaseTypeOK /\ MatchTypeOK
      => ApplianceTypeOK
  BY DEF ApplianceTypeOK, PartNames
<1>2. PageSpec => []PageTypeOK
  BY PageTypeCorrect, ExploredAssumption
<1>. QED
  BY <1>1, <1>2, AccountsArePart, SetupIsPart, RequestsArePart, PagesArePart, AdapterIsPart, AssetsArePart,
    ArchivesArePart, DatabaseIsPart, MatchingIsPart, PartsAreNamed, AccountTypeCorrect,
    SetupTypeCorrect, RequestTypeCorrect, AdapterTypeCorrect, AssetTypeCorrect,
    ArchiveTypeCorrect, DatabaseTypeCorrect, MatchTypeCorrect, PTL

=============================================================================
