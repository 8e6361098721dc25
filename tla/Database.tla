------------------------------ MODULE Database ------------------------------
(***************************************************************************)
(* The schema and the commands an operator runs on the whole of it:        *)
(* migrations up and down, backup, restore and reset.  A migration is one  *)
(* transaction.  So are a restore and a reset, of a statement per table:   *)
(* each sees what the API and the worker committed since the one before,   *)
(* and may be stopped by a foreign key.                                    *)
(*                                                                         *)
(* What stops a statement is one row that refers to another, so one        *)
(* foreign key is followed through a behaviour, whichever it is, and the   *)
(* rows of a database are whether a row refers to another by it.           *)
(***************************************************************************)
EXTENDS Naturals, Sequences

CONSTANTS
    Migrations,       \* numbers of the files that change tables or columns
    Migrators,        \* processes that run migrate.ts
    MaxMigratorRuns,  \* bound on the runs of migrate.ts
    Passphrases,      \* what BACKUP_PASSPHRASE may be where a command runs
    TooShort,         \* those of fewer than twelve characters, and none at all
    WorkerPassphrase  \* what it is where backups are made

ASSUME MigrationsAssumption ==
    1 \in Migrations /\ Migrations \subseteq 1..17 /\ MaxMigratorRuns \in Nat
ASSUME PassphraseAssumption == WorkerPassphrase \in Passphrases \ TooShort

VARIABLES
    ledger,      \* schema_migrations
    schema,      \* migrations whose effects are in the database
    migrator,    \* each process: what it does, and the migrations it is to run
    migratorRuns,
    followed,    \* the foreign key
    inUse,       \* whether a row refers to another by it
    saved,       \* archive files
    command      \* the restore or the reset under way

schemaVars == <<ledger, schema, migrator, migratorRuns>>
rowVars == <<followed, inUse, saved>>
databaseVars == <<schemaVars, rowVars, command>>

-----------------------------------------------------------------------------
(* Foreign keys *)

RefersTo(parent, children) == {[from |-> c, to |-> parent] : c \in children}

SessionsOf == RefersTo("users", {"mfa_recovery_codes", "sessions"})

ScopeReferences ==
    RefersTo("users", {"organization_settings", "feature_flags", "authorized_scopes",
                       "pacing_ceilings", "exclusion_rules", "scan_profiles",
                       "blackout_windows", "scan_schedules"})
    \cup RefersTo("authorized_scopes", {"authorized_scopes", "exclusion_rules",
                                        "blackout_windows", "scan_schedules"})
    \cup RefersTo("scan_profiles", {"scan_schedules"})

ScanReferences ==
    RefersTo("users", {"scan_plan_previews", "scan_runs", "global_stop_events"})
    \cup RefersTo("authorized_scopes", {"scan_plan_previews", "scan_runs"})
    \cup RefersTo("scan_profiles", {"scan_plan_previews", "scan_runs"})
    \cup RefersTo("scan_plan_previews", {"scan_runs"})
    \cup RefersTo("scan_schedules", {"scan_runs"})
    \cup RefersTo("exclusion_rules", {"scan_run_targets"})
    \cup RefersTo("fragile_device_rules", {"scan_run_targets"})

EvidenceReferences ==
    RefersTo("users", {"vulnerability_data_imports"})
    \cup RefersTo("vulnerability_data_imports",
                  {"vulnerability_data_imports", "vulnerabilities"})
    \cup RefersTo("scan_runs", {"raw_artifacts", "observations"})
    \cup RefersTo("scanner_adapters", {"raw_artifacts", "observations"})
    \cup RefersTo("raw_artifacts", {"observations"})
    \cup RefersTo("assets", {"observations"})

AssetReferences ==
    RefersTo("assets", {"assets", "asset_merge_events"})
    \cup RefersTo("observations", {"asset_identity_keys"})
    \cup RefersTo("asset_identity_keys", {"asset_merge_events"})
    \cup RefersTo("identity_resolution_policies", {"asset_merge_events"})
    \cup RefersTo("users", {"identity_resolution_policies", "asset_merge_events",
                            "asset_groups"})

PartsOfAssets ==
    RefersTo("assets", {"asset_identity_keys", "asset_address_history",
                        "asset_hostname_history", "asset_services", "asset_group_members"})
    \cup RefersTo("asset_groups", {"asset_group_members"})

IssueReferences ==
    RefersTo("users", {"risk_scoring_policies", "issues", "verification_scans",
                       "issue_state_history", "exceptions"})
    \cup RefersTo("assets", {"issues"}) \cup RefersTo("vulnerabilities", {"issues"})
    \cup RefersTo("risk_scoring_policies", {"issues", "issue_risk_score_snapshots"})
    \cup RefersTo("sla_policies", {"issues"}) \cup RefersTo("exceptions", {"issues"})
    \cup RefersTo("observations", {"issue_observations"})
    \cup RefersTo("scan_runs", {"verification_scans"})
    \cup RefersTo("false_positive_reasons", {"issue_state_history"})
    \cup RefersTo("verification_scans", {"issue_state_history"})
    \cup RefersTo("issues", {"verification_scans", "exceptions"})

PartsOfIssues ==
    RefersTo("issues", {"issue_observations", "issue_state_history",
                        "issue_risk_score_snapshots"})

RecordReferences ==
    RefersTo("users", {"reports", "notification_channels", "retention_policies"})
    \cup RefersTo("notification_channels", {"notification_events"})

\* Dropped by migration 17.
AuditReferences ==
    RefersTo("users", {"audit_entries"}) \cup RefersTo("sessions", {"audit_entries"})

ViewReferences == RefersTo("users", {"saved_views"})
IntelReferences == RefersTo("users", {"intel_settings"})
CpeReferences == RefersTo("vulnerabilities", {"vulnerability_cpes"})

\* ON DELETE CASCADE
Cascading ==
    SessionsOf \cup PartsOfAssets \cup PartsOfIssues \cup CpeReferences
    \cup RefersTo("scan_runs", {"scan_run_targets"})

References ==
    Cascading \cup ScopeReferences \cup ScanReferences \cup EvidenceReferences
    \cup AssetReferences \cup IssueReferences \cup RecordReferences \cup AuditReferences
    \cup ViewReferences \cup IntelReferences

InForce(r) ==
    /\ 1 \in schema
    /\ r \in ViewReferences => 8 \in schema
    /\ r \in IntelReferences => 11 \in schema
    /\ r \in CpeReferences => 14 \in schema
    /\ r \in AuditReferences => 17 \notin schema

\* What migration 16 makes DEFERRABLE, and SET CONSTRAINTS ALL DEFERRED defers.
\* Mutant: the restore defers nothing.
NeverDeferred(r) == FALSE
Deferred(r) ==
    /\ 16 \in schema
    /\ r \in RefersTo("exceptions", {"issues"})
             \cup RefersTo("observations", {"asset_identity_keys"})

\* Tables a migration adds after the first.
Added == [saved_views |-> 8, intel_settings |-> 11, vulnerability_cpes |-> 14]

-----------------------------------------------------------------------------
(* Orders of tables *)

BackupTableOrder ==
    <<"false_positive_reasons", "users", "organization_settings", "feature_flags",
      "intel_settings", "identity_resolution_policies", "risk_scoring_policies",
      "sla_policies", "authorized_scopes", "exclusion_rules", "scan_profiles",
      "pacing_ceilings", "fragile_device_rules", "blackout_windows", "scan_schedules",
      "scanner_adapters", "vulnerability_data_imports", "vulnerabilities",
      "vulnerability_cpes", "remediation_guidance", "assets", "asset_identity_keys",
      "asset_address_history", "asset_hostname_history", "asset_services", "asset_groups",
      "asset_group_members", "asset_merge_events", "scan_plan_previews", "scan_runs",
      "scan_run_targets", "raw_artifacts", "observations", "issues", "issue_observations",
      "verification_scans", "issue_state_history", "exceptions",
      "issue_risk_score_snapshots", "reports", "notification_channels",
      "notification_events", "retention_policies", "backup_records", "saved_views",
      "global_stop_events", "audit_entries">>

FindingsTables ==
    <<"issue_risk_score_snapshots", "issue_state_history", "exceptions",
      "verification_scans", "issue_observations", "issues", "observations",
      "raw_artifacts", "reports", "notification_events">>

ScanTables ==
    <<"scan_run_targets", "scan_runs", "scan_plan_previews", "scan_schedules",
      "asset_group_members", "asset_groups", "asset_services", "asset_hostname_history",
      "asset_address_history", "asset_identity_keys", "assets">>

ConfigurationTables ==
    <<"saved_views", "global_stop_events", "backup_records", "notification_channels",
      "blackout_windows", "exclusion_rules", "authorized_scopes", "audit_entries",
      "sessions", "mfa_recovery_codes", "auth_events", "users">>

ResetScope == {"findings", "scans", "all"}

TablesForScope(scope) ==
    CASE scope = "findings" -> FindingsTables
      [] scope = "scans" -> FindingsTables \o ScanTables
      [] scope = "all" -> FindingsTables \o ScanTables \o ConfigurationTables

Listed(order) == {order[n] : n \in 1..Len(order)}

InOrder(order, a, b) == \E m, n \in 1..Len(order) : m < n /\ order[m] = a /\ order[n] = b

Missing(t) == (IF t \in DOMAIN Added THEN Added[t] ELSE 1) \notin schema

-----------------------------------------------------------------------------
(* The statements of a command *)

\* The owner of the tables is whom .env.example connects as.  The threat model
\* and migration 1 have the API and the worker, and with them the commands,
\* connect as the other, which may not delete what is to be immutable, and is
\* granted nothing on the table of migration 11.
DatabaseRoles == {"xenitex", "xenitex_app"}

Immutable == {"observations", "audit_entries", "raw_artifacts"}

Denied(role, s) ==
    /\ role = "xenitex_app"
    /\ s.table = "intel_settings" \/ (s.verb = "delete" /\ s.table \in Immutable)

Statement(verb, table) == [verb |-> verb, table |-> table]

\* Backwards and forwards again.
RestoreStatements ==
    LET N == Len(BackupTableOrder) IN
    [n \in 1 .. 2 * N + 1 |->
        IF n <= N THEN Statement("delete", BackupTableOrder[N + 1 - n])
        ELSE IF n <= 2 * N THEN Statement("insert", BackupTableOrder[n - N])
        ELSE Statement("delete", "sessions")]

\* A reset of everything also sets the name of the organization NULL.
ResetStatements(scope) ==
    LET order == TablesForScope(scope) IN
    [n \in 1 .. Len(order) + (IF scope = "all" THEN 1 ELSE 0) |->
        IF n <= Len(order) THEN Statement("delete", order[n])
        ELSE Statement("update", "organization_settings")]

Statements ==
    [runs \in {"nothing", "restore"} \cup ResetScope |->
        CASE runs = "nothing" -> <<>>
          [] runs = "restore" -> RestoreStatements
          [] runs \in ResetScope -> ResetStatements(runs)]

NoCommand ==
    [runs |-> "nothing",     \* "restore" or the scope of a reset
     role |-> "xenitex",     \* whom it is connected as
     loads |-> FALSE,        \* whether a row of its archive refers to another
     released |-> FALSE,     \* whether its archive was made at this release
     at |-> 0,               \* the last statement
     finds |-> FALSE,        \* whether a row it has not deleted refers to another
     disturbed |-> FALSE]    \* whether such a row was written since it began

UnderWay == command.runs # "nothing"

\* SET CONSTRAINTS ALL DEFERRED is the first statement of a restore.
Waits == command.runs = "restore" /\ Deferred(followed)

\* organization_name is NOT NULL.
Stops(s) ==
    \/ Missing(s.table) \/ Denied(command.role, s) \/ s.verb = "update"
    \/ /\ InForce(followed) /\ followed.from # followed.to /\ ~Waits
       /\ \/ /\ s.verb = "delete" /\ s.table = followed.to
             /\ command.finds /\ followed \notin Cascading
          \/ /\ s.verb = "insert" /\ s.table = followed.from
             /\ command.loads /\ ~InOrder(BackupTableOrder, followed.to, followed.from)

\* Whether the command may meet the rows followed there, or must fail.
Concerns(s) ==
    \/ s.table \in {followed.from, followed.to}
    \/ Missing(s.table) \/ Denied(command.role, s) \/ s.verb = "update"

Ahead ==
    LET list == Statements[command.runs] IN
    {n \in command.at + 1 .. Len(list) : Concerns(list[n])}

\* The statements before it leave the rows followed as they are.
Upcoming ==
    LET ahead == Ahead IN {n \in ahead : \A m \in ahead : n <= m}

-----------------------------------------------------------------------------
\* A set-up appliance at some release.
DatabaseInit ==
    /\ \E n \in Migrations : schema = {m \in Migrations : m <= n}
    /\ ledger = schema
    /\ migrator = [p \in Migrators |-> [doing |-> "nothing", left |-> {}]]
    /\ migratorRuns = 0
    /\ followed \in References
    /\ inUse = FALSE
    /\ saved = {}
    /\ command = NoCommand

MigratorAs(p, doing, left) ==
    migrator' = [migrator EXCEPT ![p] = [doing |-> doing, left |-> left]]

\* The set of recorded migrations is read once, before the first transaction.
StartMigrating(p, direction) ==
    /\ migrator[p].doing = "nothing"
    /\ migratorRuns < MaxMigratorRuns
    /\ migratorRuns' = migratorRuns + 1
    /\ MigratorAs(p, direction,
                  IF direction = "up" THEN Migrations \ ledger
                  ELSE {m \in ledger : \A n \in ledger : n <= m})
    /\ UNCHANGED <<ledger, schema, rowVars>>

\* Rows go with their table, and nothing refers by a constraint that is gone.
StillInUse == inUse' = (inUse /\ InForce(followed)')

\* BEGIN, the file, INSERT INTO schema_migrations, COMMIT.  The second of two
\* processes fails on a table or on the primary key.
ApplyNext(p, m) ==
    /\ migrator[p].doing = "up"
    /\ m \in migrator[p].left
    /\ \A n \in migrator[p].left : m <= n
    /\ m \notin schema \cup ledger
    /\ m > 1 => 1 \in schema
    /\ schema' = schema \cup {m}
    /\ ledger' = ledger \cup {m}
    /\ MigratorAs(p, "up", migrator[p].left \ {m})
    /\ UNCHANGED <<migratorRuns, followed, saved>>
    /\ StillInUse

\* The tables of the first migration cannot go before those that refer to them.
RevertLast(p, m) ==
    /\ migrator[p].doing = "down"
    /\ m \in migrator[p].left
    /\ m = 1 => schema \cap {8, 11, 14} = {}
    /\ schema' = IF m = 1 THEN {} ELSE schema \ {m}
    /\ ledger' = ledger \ {m}
    /\ MigratorAs(p, "down", {})
    /\ UNCHANGED <<migratorRuns, followed, saved>>
    /\ StillInUse

\* Done, dead between two transactions, or rolled back and thrown.
MigratorEnds(p) ==
    /\ migrator[p].doing # "nothing"
    /\ MigratorAs(p, "nothing", {})
    /\ UNCHANGED <<ledger, schema, migratorRuns, rowVars>>

\* A migration and a command wait for each other at the locks of the tables.
Migrate(p) ==
    /\ ~UnderWay
    /\ \/ \E direction \in {"up", "down"} : StartMigrating(p, direction)
       \/ \E m \in Migrations : ApplyNext(p, m) \/ RevertLast(p, m)
       \/ MigratorEnds(p)
    /\ UNCHANGED command

\* A row that refers to another is written, by the API or the worker.  While a
\* command is under way one that refers to a row the command has deleted waits
\* for its end, but a new row can be written with it to refer to.
Refer ==
    /\ InForce(followed)
    /\ inUse' = TRUE
    /\ command' = IF UnderWay THEN [command EXCEPT !.finds = TRUE, !.disturbed = TRUE]
                  ELSE command
    /\ UNCHANGED <<schemaVars, followed, saved>>

\* processBackup: every table of the order and no other.  One file is kept.
\* As xenitex_app it would not be allowed to read intel_settings.
SaveRows ==
    /\ saved = {}
    /\ \A t \in Listed(BackupTableOrder) : ~Missing(t)
    /\ saved' = {[released |-> schema = Migrations, key |-> WorkerPassphrase,
                  inUse |-> inUse /\ followed.from \in Listed(BackupTableOrder)]}
    /\ UNCHANGED <<schemaVars, followed, inUse, command>>

\* To a command, a process of migrate.ts between two transactions is one that
\* has died there.
Begin(runs, role, loads, released) ==
    /\ ~UnderWay
    /\ \A p \in Migrators : migrator[p].doing = "nothing"
    /\ command' = [runs |-> runs, role |-> role, loads |-> loads, released |-> released,
                   at |-> 0, finds |-> inUse, disturbed |-> FALSE]
    /\ UNCHANGED <<schemaVars, rowVars>>

\* decodeArchive: another key and an altered file fail alike.
Decodes(archive, given) == archive.key = given

\* cli/restore.ts with its arguments and the passphrase of its environment:
\* before it restores it looks at nothing but the archive, and never at the
\* archive's schema version.
Restores(options, given, archive) ==
    /\ "--help" \notin options
    /\ "--archive" \in options /\ given \notin TooShort
    /\ Decodes(archive, given)
    /\ "--confirm-destructive" \in options

BeginRestore(role, given, archive) ==
    /\ Restores({"--archive", "--confirm-destructive"}, given, archive)
    /\ Begin("restore", role, archive.inUse, archive.released)

\* cli/reset.ts with its arguments and what is typed at its question.
Resets(options, scope, typed) ==
    /\ "--help" \notin options
    /\ scope \in ResetScope
    /\ "--confirm" \in options
    /\ "--yes" \in options \/ typed = scope

BeginReset(role, scope, typed) ==
    /\ Resets({"--confirm"}, scope, typed)
    /\ Begin(scope, role, FALSE, FALSE)

\* The rows of a table go, and by ON DELETE CASCADE those that refer to them.
Execute ==
    \E n \in Upcoming :
        LET s == Statements[command.runs][n]
            refers == s.verb = "delete" /\ s.table = followed.from
            isReferredTo == s.verb = "delete" /\ s.table = followed.to
        IN  /\ ~Stops(s)
            /\ command' = [command EXCEPT
                 !.at = n, !.finds = @ /\ ~refers /\ (isReferredTo => Waits)]
            /\ UNCHANGED <<schemaVars, rowVars>>

\* What is deferred is looked at now, when both tables have been emptied and
\* filled again.
Commit ==
    /\ UnderWay
    /\ Ahead = {}
    /\ command' = NoCommand
    /\ inUse' = (command.finds \/ (command.loads /\ InForce(followed)))
    /\ UNCHANGED <<schemaVars, followed, saved>>

\* A statement fails: exit code 3, and all is as it was.  When others write any
\* may: two transactions that wait for each other, a key the archive has too, a
\* row written while the one it refers to is being deleted.
RollBack ==
    /\ UnderWay
    /\ \/ command.disturbed
       \/ \E n \in Upcoming : Stops(Statements[command.runs][n])
    /\ command' = NoCommand
    /\ UNCHANGED <<schemaVars, rowVars>>

\* docker compose exec is interrupted, or the container stops.
Killed ==
    /\ UnderWay
    /\ command' = NoCommand
    /\ UNCHANGED <<schemaVars, rowVars>>

DatabaseNext ==
    \/ \E p \in Migrators : Migrate(p)
    \/ Refer \/ SaveRows
    \/ \E role \in DatabaseRoles, given \in Passphrases, archive \in saved :
           BeginRestore(role, given, archive)
    \/ \E role \in DatabaseRoles, scope, typed \in ResetScope : BeginReset(role, scope, typed)
    \/ Execute \/ Commit \/ RollBack \/ Killed

DatabaseSpec == DatabaseInit /\ [][DatabaseNext]_databaseVars

-----------------------------------------------------------------------------
(* Properties *)

\* Every variable has its type.
DatabaseTypeOK ==
    /\ ledger \subseteq Migrations /\ schema \subseteq Migrations
    /\ migrator \in [Migrators -> [doing : {"nothing", "up", "down"},
                                   left : SUBSET Migrations]]
    /\ migratorRuns \in 0..MaxMigratorRuns
    /\ followed \in References /\ inUse \in BOOLEAN
    /\ saved \subseteq [released : BOOLEAN, inUse : BOOLEAN, key : {WorkerPassphrase}]
    /\ command \in [runs : {"nothing", "restore"} \cup ResetScope, role : DatabaseRoles,
                    loads : BOOLEAN, released : BOOLEAN, at : Nat,
                    finds : BOOLEAN, disturbed : BOOLEAN]

\* The rows each reset trips over, its list of tables being what it is.
TripsOver(scope) ==
    RefersTo("exceptions", {"issues"}) \cup RefersTo("observations", {"asset_identity_keys"})
    \cup (IF scope = "scans"
            THEN RefersTo("assets", {"asset_merge_events"})
                 \cup RefersTo("asset_identity_keys", {"asset_merge_events"})
            ELSE {})

\* DATA-05, migrations 0016 and 0017: once every migration is in the database,
\* after however many runs that failed, overlapped, died or went down and up
\* again, a command run by the owner of the tables while nobody else writes is
\* not rolled back, whichever rows refer to which, then and now: a restore of an
\* archive of the same release never, a reset of findings or scans only for an
\* issue with an exception, an identity key with its observation and, for scans,
\* a merge.  Once through, a restore leaves the rows of the archive and no
\* other; and a reset none in the tables of its scope, nor one that refers to
\* one.
CommandsFit ==
    [][schema = Migrations /\ command.role = "xenitex" /\ ~command.disturbed =>
        /\ RollBack =>
             CASE command.runs = "restore" -> ~command.released
               [] command.runs = "all" -> TRUE
               [] OTHER -> followed \in TripsOver(command.runs)
        /\ Commit /\ command.runs = "restore" /\ inUse' => command.loads
        /\ Commit /\ command.runs # "restore" /\ inUse' =>
             {followed.from, followed.to} \cap Listed(TablesForScope(command.runs)) = {}
      ]_databaseVars

=============================================================================
