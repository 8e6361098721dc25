------------------------------ MODULE Archives ------------------------------
(***************************************************************************)
(* Reports, scan artifacts, and the backups that hold them.  Rows live in  *)
(* the database and what they name in the blob store; no transaction spans *)
(* the two.  The worker generates one report and performs one backup at a  *)
(* time, side by side, and starts over whatever a crash left unfinished.   *)
(***************************************************************************)
EXTENDS Naturals, FiniteSets

CONSTANTS
    ReportIds, Formats,
    ArtifactIds,         \* raw artifacts of scan runs
    BackupIds,
    NoRow,               \* what an idle worker is doing
    MaxVersions,         \* bound on publications of issues and imports
    MaxArchiveFaults     \* bound on crashes, failed writes and restores

ASSUME ArchiveAssumption ==
    /\ IsFiniteSet(Formats)
    /\ NoRow \notin ReportIds \cup ArtifactIds \cup BackupIds
    /\ MaxVersions \in Nat /\ MaxArchiveFaults \in Nat

VARIABLES
    reports,     \* rows: status, formats, and data_versions
    artifacts,   \* raw_artifacts that have a row
    backups,     \* backup_records
    blobs,       \* blob store: what each key was rendered from, 0 when absent
    version,     \* data versions in force; there is one from the start
    generating,  \* the report under way: what was read, what is still to put
    archiving,   \* the backup under way: its snapshot, keys, blobs
    archives,    \* archive files
    restores,    \* how many restores there were
    archiveFaults

archiveVars ==
    <<reports, artifacts, backups, blobs, version, generating, archiving, archives,
      restores, archiveFaults>>

records == <<reports, artifacts, backups>>
jobs == <<generating, archiving>>
kept == <<archives, restores>>

Idle == [doing |-> NoRow]

Key(r, f) == <<"report", r, f>>
StoreKeys == {Key(r, f) : r \in ReportIds, f \in Formats}
        \cup {<<"artifact", a>> : a \in ArtifactIds}

ReportsIn(s) == {r \in ReportIds : reports[r].status = s}
BackupsIn(s) == {b \in BackupIds : backups[b] = s}

ReportAs(r, status, data) ==
    reports' = [reports EXCEPT ![r].status = status, ![r].data = data]

\* Mutant: a report that is started over keeps the formats it already has.
FormatsMissing(r) == {f \in reports[r].formats : blobs[Key(r, f)] = 0}
FormatsToPut(r) == reports[r].formats

\* The blobs a snapshot's rows name: blob_store_key is set on completion.
BlobKeys(snapshot) ==
    {<<"artifact", a>> : a \in snapshot.artifacts}
    \cup UNION {{Key(r, f) : f \in snapshot.reports[r].formats} :
                  r \in {q \in ReportIds : snapshot.reports[q].data # 0}}

ArchiveFault ==
    /\ archiveFaults < MaxArchiveFaults
    /\ archiveFaults' = archiveFaults + 1

-----------------------------------------------------------------------------
ArchiveInit ==
    /\ reports = [r \in ReportIds |-> [status |-> "none", formats |-> {}, data |-> 0]]
    /\ artifacts = {}
    /\ backups = [b \in BackupIds |-> "none"]
    /\ blobs = [k \in StoreKeys |-> 0]
    /\ version = 1
    /\ generating = Idle
    /\ archiving = Idle
    /\ archives = {}
    /\ restores = 0
    /\ archiveFaults = 0

\* An import is applied, or a policy published.
Publish ==
    /\ version <= MaxVersions
    /\ version' = version + 1
    /\ UNCHANGED <<records, blobs, jobs, kept, archiveFaults>>

\* POST /reports
AskForReport(r, formats) ==
    /\ reports[r].status = "none"
    /\ formats # {}
    /\ reports' = [reports EXCEPT
                     ![r] = [status |-> "pending", formats |-> formats, data |-> 0]]
    /\ UNCHANGED <<artifacts, backups, blobs, version, jobs, kept, archiveFaults>>

\* POST /backup-records
AskForBackup(b) ==
    /\ backups[b] = "none"
    /\ backups' = [backups EXCEPT ![b] = "running"]
    /\ UNCHANGED <<reports, artifacts, blobs, version, jobs, kept, archiveFaults>>

\* The adapter puts an artifact, under an id of its own, before its row is
\* inserted.
PutArtifact(a) ==
    /\ blobs[<<"artifact", a>>] = 0
    /\ blobs' = [blobs EXCEPT ![<<"artifact", a>>] = version]
    /\ UNCHANGED <<records, version, jobs, kept, archiveFaults>>

RecordArtifact(a) ==
    /\ blobs[<<"artifact", a>>] # 0
    /\ artifacts' = artifacts \cup {a}
    /\ UNCHANGED <<reports, backups, blobs, version, jobs, kept, archiveFaults>>

Generates(step) ==
    /\ generating' = step
    /\ UNCHANGED <<artifacts, backups, version, archiving, kept>>

\* pollReportsOnce; the issues and the data versions are read side by side.
StartReport(r) ==
    /\ generating = Idle
    /\ r \in ReportsIn("pending")
    /\ Generates([doing |-> r, data |-> version, left |-> FormatsToPut(r)])
    /\ UNCHANGED <<reports, blobs, archiveFaults>>

PutFormat(f) ==
    /\ generating # Idle
    /\ f \in generating.left
    /\ blobs' = [blobs EXCEPT ![Key(generating.doing, f)] = generating.data]
    /\ Generates([generating EXCEPT !.left = @ \ {f}])
    /\ UNCHANGED <<reports, archiveFaults>>

\* The row is updated only where it is still pending, and failed alike.
FinishReport ==
    /\ generating # Idle
    /\ generating.left = {}
    /\ IF generating.doing \in ReportsIn("pending")
         THEN ReportAs(generating.doing, "completed", generating.data)
         ELSE UNCHANGED reports
    /\ Generates(Idle)
    /\ UNCHANGED <<blobs, archiveFaults>>

FailReport ==
    /\ generating # Idle
    /\ IF generating.doing \in ReportsIn("pending")
         THEN ReportAs(generating.doing, "failed", 0)
         ELSE UNCHANGED reports
    /\ Generates(Idle)
    /\ ArchiveFault
    /\ UNCHANGED blobs

ArchivesWith(step) ==
    /\ archiving' = step
    /\ UNCHANGED <<reports, artifacts, blobs, version, generating, restores>>

\* pollBackupOnce, and the repeatable-read transaction of processBackup.
StartBackup(b) ==
    /\ archiving = Idle
    /\ b \in BackupsIn("running")
    /\ LET snapshot == [reports |-> reports, artifacts |-> artifacts, backups |-> backups]
       IN  ArchivesWith([doing |-> b, snapshot |-> snapshot, left |-> BlobKeys(snapshot),
                         copied |-> [k \in StoreKeys |-> 0], written |-> FALSE])
    /\ UNCHANGED <<backups, archives, archiveFaults>>

\* A blob that is not there is left out and nothing else.
CopyBlob(k) ==
    /\ archiving # Idle
    /\ k \in archiving.left
    /\ ArchivesWith([archiving EXCEPT !.left = @ \ {k}, !.copied[k] = blobs[k]])
    /\ UNCHANGED <<backups, archives, archiveFaults>>

WriteArchive ==
    /\ archiving # Idle
    /\ archiving.left = {}
    /\ ~archiving.written
    /\ archives' = archives \cup
         {[snapshot |-> archiving.snapshot, copied |-> archiving.copied]}
    /\ ArchivesWith([archiving EXCEPT !.written = TRUE])
    /\ UNCHANGED <<backups, archiveFaults>>

BackupEnds(status) ==
    /\ backups' = [backups EXCEPT ![archiving.doing] = IF @ = "running" THEN status ELSE @]
    /\ ArchivesWith(Idle)
    /\ UNCHANGED archives

FinishBackup ==
    /\ archiving # Idle
    /\ archiving.written
    /\ BackupEnds("completed")
    /\ UNCHANGED archiveFaults

\* No passphrase, a failed write, or an archive that was written and a row that
\* could not be.
FailBackup ==
    /\ archiving # Idle
    /\ BackupEnds("failed")
    /\ ArchiveFault

\* The worker dies, and is started again.
CrashOfWorker ==
    /\ generating # Idle \/ archiving # Idle
    /\ generating' = Idle
    /\ archiving' = Idle
    /\ ArchiveFault
    /\ UNCHANGED <<records, blobs, version, kept>>

\* cli/restore.ts with the appliance stopped: every row is the archive's, the
\* backup's own, still running, among them; the blob store is left as it is.
Restore(archive) ==
    /\ reports' = archive.snapshot.reports
    /\ artifacts' = archive.snapshot.artifacts
    /\ backups' = archive.snapshot.backups
    /\ generating' = Idle
    /\ archiving' = Idle
    /\ restores' = restores + 1
    /\ ArchiveFault
    /\ UNCHANGED <<blobs, version, archives>>

ArchiveNext ==
    \/ Publish \/ FinishReport \/ FailReport \/ WriteArchive \/ FinishBackup
    \/ FailBackup \/ CrashOfWorker
    \/ \E r \in ReportIds :
         StartReport(r) \/ \E formats \in SUBSET Formats : AskForReport(r, formats)
    \/ \E f \in Formats : PutFormat(f)
    \/ \E a \in ArtifactIds : PutArtifact(a) \/ RecordArtifact(a)
    \/ \E b \in BackupIds : AskForBackup(b) \/ StartBackup(b)
    \/ \E archive \in archives : Restore(archive)
    \/ \E k \in StoreKeys : CopyBlob(k)

ArchiveSpec == ArchiveInit /\ [][ArchiveNext]_archiveVars

\* GET /reports/{id}/download: 404 for no such report or format, 409 before the
\* report is completed, 410 for a blob that is not stored.
DownloadStatus(rows, store, r, f) ==
    CASE rows.reports[r].status = "none" -> 404
      [] rows.reports[r].status \in {"pending", "failed"} -> 409
      [] rows.reports[r].status = "completed" /\ f \notin rows.reports[r].formats -> 404
      [] OTHER -> IF store[Key(r, f)] = 0 THEN 410 ELSE 200

-----------------------------------------------------------------------------
(* Properties *)

\* Every variable has its type.
ArchiveTypeOK ==
    /\ reports \in [ReportIds -> [status : {"none", "pending", "completed", "failed"},
                                  formats : SUBSET Formats, data : 0..(MaxVersions + 1)]]
    /\ artifacts \subseteq ArtifactIds
    /\ backups \in [BackupIds -> {"none", "running", "completed", "failed"}]
    /\ blobs \in [StoreKeys -> 0..(MaxVersions + 1)]
    /\ version \in 1..(MaxVersions + 1)
    /\ generating # Idle => generating.doing \in ReportIds /\ generating.left \subseteq Formats
    /\ archiving # Idle => archiving.doing \in BackupIds /\ archiving.left \subseteq StoreKeys
    /\ restores \in 0..archiveFaults /\ archiveFaults \in 0..MaxArchiveFaults

\* What rows name is there: each format of a completed report, each artifact.
Holds(rows, store) ==
    /\ \A r \in ReportIds, f \in Formats : DownloadStatus(rows, store, r, f) # 410
    /\ \A a \in rows.artifacts : store[<<"artifact", a>>] # 0

\* Each format was rendered from the data versions its report's row gives.
Agrees(rows, store) ==
    \A r \in ReportIds, f \in Formats :
        DownloadStatus(rows, store, r, f) = 200 => store[Key(r, f)] = rows.reports[r].data

\* DATA-01 and DATA-05: a completed report of this appliance never answers
\* 410, restored or not, every archive holds the evidence behind its rows,
\* and what a report says it was rendered from it was, however reports, scans,
\* backups and crashes overlapped.  A second restore may bring back the row
\* of a report that was rendered again after the first.
EvidenceIsWhole ==
    LET now == [reports |-> reports, artifacts |-> artifacts] IN
    /\ Holds(now, blobs)
    /\ \A x \in archives : Holds(x.snapshot, x.copied)
    /\ restores < 2 => /\ Agrees(now, blobs)
                       /\ \A x \in archives : Agrees(x.snapshot, x.copied)

=============================================================================
