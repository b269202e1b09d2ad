----------------------------- MODULE DesktopData ----------------------------
(***************************************************************************)
(* What the desktop edition keeps on disk: the embedded database, the      *)
(* uploads directory, the marker files that let a start skip work, and the *)
(* backup archives.  It is changed by                                      *)
(*   - the bootstrap (apps/desktop/src-tauri/src/sidecar.rs), which may     *)
(*     remove the database, creates and migrates it;                       *)
(*   - backups and restores (desktop_backup.rs), of the main thread and of *)
(*     the scheduler's thread;                                             *)
(*   - the backend, which stores the file of a document before its row.    *)
(* Every write is a step of its own, any of them may fail, and the shell   *)
(* may stop between any two.  Which process runs when is Sidecar's matter. *)
(***************************************************************************)
EXTENDS Integers, FiniteSets

CONSTANTS
    Docs,           \* documents, with one file each
    MaxVersion,     \* bound: the releases of the application, by their latest migration
    Retentions,     \* values of the policy's retention_count
    MaxArchives,    \* bound: archives ever written
    MaxStops,       \* bound: how often the shell stops
    Null

ASSUME DesktopDataAssumption ==
    /\ MaxVersion \in Nat \ {0}
    /\ Retentions \subseteq Nat \ {0} /\ Retentions # {}
    /\ MaxArchives \in Nat /\ MaxStops \in Nat

VARIABLES
    db,         \* the application's database, Null if there is none
    files,      \* the uploads directory
    aside,      \* the uploads a restore has set aside (uploads.pre-restore), or Null
    marker,     \* desktop-database-name, migration_version, force_migration_on_next_boot
    archives,   \* the backup directory
    policy,     \* the retention count of the stored policy
    latest,     \* the latest migration of the installed release
    serving,    \* does the backend serve requests
    uploading,  \* documents whose row the backend is about to write
    status,     \* the phase of the runtime status, "closed" without the shell
    request,    \* what the next bootstrap is asked to do, in memory
    boot,       \* the bootstrap
    backup,     \* the backup under way
    restore,    \* the restore under way
    torn,       \* auxiliary: "schema" while the markers may speak of a database that was
                \* replaced, "files" while the uploads may be those of another database,
                \* "skipped" after a start that was told to skip the migrations
    count       \* auxiliary: archives written and stops so far

disk   == <<db, files, aside, marker, archives, policy>>
memory == <<serving, uploading, status, request, boot, backup, restore>>
vars   == <<disk, memory, latest, torn, count>>

-----------------------------------------------------------------------------

Versions == 1..MaxVersion

Database == [schema : {0} \cup Versions, failed : BOOLEAN, rows : SUBSET Docs]

\* Null is no database.
ASSUME NullAssumption == Null \notin Database

\* An archive; "whole" is FALSE for one that was cut short.
Archive == [id : Nat, whole : BOOLEAN, db : Database, files : SUBSET Docs, torn : BOOLEAN]

Phase == {"closed", "starting", "recovering", "ready", "failed"}

NoBoot    == [step |-> "none", reset |-> FALSE, repair |-> FALSE, forced |-> FALSE]
NoBackup  == [step |-> "none", trigger |-> "none", policy |-> Null, archive |-> Null,
              ok |-> TRUE]
NoRestore == [step |-> "none", source |-> Null]
Blank     == [schema |-> 0, failed |-> FALSE, rows |-> {}]

TypeOK ==
    /\ db \in Database \cup {Null}
    /\ files \subseteq Docs /\ aside \in (SUBSET Docs) \cup {Null}
    /\ marker \in [db : BOOLEAN, version : {0} \cup Versions, force : BOOLEAN]
    /\ \A a \in archives : a \in Archive /\ a.id <= count.archives
    /\ \A a, b \in archives : a.id = b.id => a = b
    /\ policy \in Retentions
    /\ latest \in Versions
    /\ serving \in BOOLEAN /\ uploading \subseteq files
    /\ status \in Phase
    /\ request \in {"none", "repair", "reset"}
    /\ boot \in [step : {"none", "drain", "clean", "clear", "clearversion", "clearforce",
                         "postgres", "migrate", "mark", "unforce", "launch"},
                 reset : BOOLEAN, repair : BOOLEAN, forced : BOOLEAN]
    /\ backup.step \in {"none", "dump", "copy", "create", "write", "prune", "persist"}
    /\ restore.step \in {"none", "safety", "extract", "database", "stage", "copy", "finish",
                         "invalidate", "force", "abandon"}
    /\ torn \subseteq {"schema", "files", "skipped"}

Init ==
    /\ db = Null
    /\ files = {} /\ aside = Null
    /\ marker = [db |-> FALSE, version |-> 0, force |-> FALSE]
    /\ archives = {}
    /\ policy \in Retentions
    /\ latest = 1
    /\ serving = FALSE /\ uploading = {}
    /\ status = "closed"
    /\ request = "none"
    /\ boot = NoBoot /\ backup = NoBackup /\ restore = NoRestore
    /\ torn = {}
    /\ count = [archives |-> 0, stops |-> 0]

-----------------------------------------------------------------------------
(***************************************************************************)
(* The backend and the shell.                                              *)
(***************************************************************************)

\* Seeded fault: the row follows although the file could not be written.
StoreFileUnchecked(d) ==
    /\ serving
    /\ d \notin files
    /\ files' \in {files, files \cup {d}}
    /\ uploading' = uploading \cup {d}
    /\ UNCHANGED <<db, aside, marker, archives, policy, serving, status, request, boot, backup,
                   restore, latest, torn, count>>

\* createDocument stores the file first ...
StoreFile(d) ==
    /\ serving
    /\ d \notin files
    /\ files' = files \cup {d}
    /\ uploading' = uploading \cup {d}
    /\ UNCHANGED <<db, aside, marker, archives, policy, serving, status, request, boot, backup,
                   restore, latest, torn, count>>

\* Seeded fault: the file is removed although the row was written.
StoreRowCareless(d) ==
    /\ serving
    /\ d \in uploading
    /\ uploading' = uploading \ {d}
    /\ db' = [db EXCEPT !.rows = @ \cup {d}]
    /\ files' \in {files, files \ {d}}
    /\ UNCHANGED <<aside, marker, archives, policy, serving, status, request, boot, backup,
                   restore, latest, torn, count>>

\* ... then the row; if that fails it removes the file.
StoreRow(d) ==
    /\ serving
    /\ d \in uploading
    /\ uploading' = uploading \ {d}
    /\ \/ db' = [db EXCEPT !.rows = @ \cup {d}] /\ UNCHANGED files
       \/ files' = files \ {d} /\ UNCHANGED db
    /\ UNCHANGED <<aside, marker, archives, policy, serving, status, request, boot, backup,
                   restore, latest, torn, count>>

\* The shell stops, by itself or not: the disk stays as it is.
Stop ==
    /\ status # "closed"
    /\ count.stops < MaxStops
    /\ count' = [count EXCEPT !.stops = @ + 1]
    /\ status' = "closed"
    /\ serving' = FALSE /\ uploading' = {}
    /\ request' = "none"
    /\ boot' = NoBoot /\ backup' = NoBackup /\ restore' = NoRestore
    /\ UNCHANGED <<disk, latest, torn>>

\* A later release of the application is installed.
Update ==
    /\ status = "closed"
    /\ latest + 1 \in Versions
    /\ latest' = latest + 1
    /\ UNCHANGED <<disk, memory, torn, count>>

\* start_runtime_bootstrap.
StartBootstrap ==
    /\ status' = "starting"
    /\ boot' = [NoBoot EXCEPT !.step = "drain"]

Open ==
    /\ status = "closed"
    /\ StartBootstrap
    /\ UNCHANGED <<disk, serving, uploading, request, backup, restore, latest, torn, count>>

\* The commands run on the main thread, one at a time; a manual backup and a restore
\* keep it busy.
MainIdle == /\ boot.step = "none"
            /\ restore.step = "none"
            /\ backup.trigger # "manual"

\* retry_bootstrap, repair_bootstrap_migrations, reset_local_database and
\* repair_postgres_runtime.
Recover(kind) ==
    /\ status # "closed"
    /\ MainIdle
    /\ request' = kind
    /\ StartBootstrap
    /\ UNCHANGED <<disk, serving, uploading, backup, restore, latest, torn, count>>

\* A new exposure mode restarts the runtime, whatever it asked for before.
Restart ==
    /\ status # "closed"
    /\ MainIdle
    /\ StartBootstrap
    /\ UNCHANGED <<disk, serving, uploading, request, backup, restore, latest, torn, count>>

-----------------------------------------------------------------------------
(***************************************************************************)
(* bootstrap_runtime.                                                      *)
(***************************************************************************)

BootGo(step) == boot' = [boot EXCEPT !.step = step] /\ UNCHANGED status

BootFails == boot' = NoBoot /\ status' = "failed"

\* If PostgreSQL cannot be stopped the request stays for the next bootstrap.
BootDrain ==
    /\ boot.step = "drain"
    /\ serving' = FALSE /\ uploading' = {}
    /\ BootGo("clean") \/ BootFails
    /\ UNCHANGED <<disk, request, backup, restore, latest, torn, count>>

\* The cluster is removed, or moved away; a failure may leave it half removed.
BootClean ==
    /\ boot.step = "clean"
    /\ request' = "none"
    /\ IF request = "reset"
         THEN \/ /\ db' = Null
                 /\ torn' = {"schema"}
                 /\ boot' = [boot EXCEPT !.step = "clear", !.reset = TRUE]
                 /\ UNCHANGED status
              \/ /\ db' \in {db, Null}
                 /\ torn' = IF db' = db THEN torn ELSE {"schema"}
                 /\ BootFails
         ELSE /\ boot' = [boot EXCEPT !.step = "postgres", !.repair = (request = "repair")]
              /\ UNCHANGED <<db, status, torn>>
    /\ UNCHANGED <<files, aside, marker, archives, policy, serving, uploading, backup, restore,
                   latest, count>>

\* clear_reset_markers: one marker after the other, and a failed removal is only logged.
BootClear(step, cleared, next) ==
    /\ boot.step = step
    /\ marker' \in {marker, cleared}
    /\ torn' = IF marker'.version = 0 THEN torn \ {"schema"} ELSE torn
    /\ BootGo(next)
    /\ UNCHANGED <<db, files, aside, archives, policy, serving, uploading, request, backup,
                   restore, latest, count>>

BootClearMarkers == \/ BootClear("clear", [marker EXCEPT !.db = FALSE], "clearversion")
                    \/ BootClear("clearversion", [marker EXCEPT !.version = 0], "clearforce")
                    \/ BootClear("clearforce", [marker EXCEPT !.force = FALSE], "postgres")

\* ensure_postgres_ready; create_desktop_database trusts its marker, and goes on if it
\* cannot write it.
BootPostgres ==
    /\ boot.step = "postgres"
    /\ \/ /\ IF marker.db
               THEN UNCHANGED <<db, marker>>
               ELSE /\ db' = IF db = Null THEN Blank ELSE db
                    /\ \E written \in BOOLEAN : marker' = [marker EXCEPT !.db = written]
          /\ BootGo("migrate")
       \/ BootFails /\ UNCHANGED <<db, marker>>
    /\ UNCHANGED <<files, aside, archives, policy, serving, uploading, request, backup, restore,
                   latest, torn, count>>

\* Seeded fault: the marker of any release will do.
SchemaCurrentAnyRelease == /\ ~boot.reset /\ ~boot.repair /\ ~marker.force
                           /\ marker.version # 0

\* schema_already_current.
SchemaCurrent == /\ ~boot.reset /\ ~boot.repair /\ ~marker.force
                 /\ marker.version = latest

\* run_db_migration: prisma migrate deploy creates a database that does not exist, and
\* refuses one with a failed migration unless the repair has resolved that.
Refused == db # Null /\ db.failed /\ ~boot.repair

Existing == IF db = Null THEN Blank ELSE db

Migrated == IF Refused THEN {} ELSE {[Existing EXCEPT !.schema = latest, !.failed = FALSE]}

HalfMigrated == {db} \cup IF Refused THEN {} ELSE
    {d \in Database : d.rows = Existing.rows /\ d.schema \in Existing.schema..(latest - 1)}

BootMigrate ==
    /\ boot.step = "migrate"
    /\ IF SchemaCurrent
         THEN BootGo("launch") /\ UNCHANGED db
         ELSE \/ /\ db' \in Migrated
                 /\ boot' = [boot EXCEPT !.step = "mark", !.forced = marker.force]
                 /\ UNCHANGED status
              \/ db' \in HalfMigrated /\ BootFails
    /\ torn' = torn \ {"skipped"}
    /\ UNCHANGED <<files, aside, marker, archives, policy, serving, uploading, request, backup,
                   restore, latest, count>>

\* should_skip_migrations: ELMS_SKIP_MIGRATIONS counts unless a reset or a restore has
\* asked for the migrations.
BootSkip ==
    /\ boot.step = "migrate"
    /\ ~boot.reset /\ ~marker.force /\ ~SchemaCurrent
    /\ torn' = torn \cup {"skipped"}
    /\ BootGo("launch")
    /\ UNCHANGED <<disk, serving, uploading, request, backup, restore, latest, count>>

\* The version marker, written if it can be; what is cut short speaks of no release.
BootMark ==
    /\ boot.step = "mark"
    /\ \E written \in {latest, marker.version, 0} : marker' = [marker EXCEPT !.version = written]
    /\ torn' = torn \ {"schema"}
    /\ BootGo("unforce")
    /\ UNCHANGED <<db, files, aside, archives, policy, serving, uploading, request, backup,
                   restore, latest, count>>

BootUnforce ==
    /\ boot.step = "unforce"
    /\ \/ marker' = [marker EXCEPT !.force = @ /\ ~boot.forced]
       \/ UNCHANGED marker
    /\ BootGo("launch")
    /\ UNCHANGED <<db, files, aside, archives, policy, serving, uploading, request, backup,
                   restore, latest, torn, count>>

\* The backend is healthy only if it reaches its database.
BootLaunch ==
    /\ boot.step = "launch"
    /\ \/ db # Null /\ boot' = NoBoot /\ status' = "ready" /\ serving' = TRUE
       \/ BootFails /\ UNCHANGED serving
    /\ UNCHANGED <<disk, uploading, request, backup, restore, latest, torn, count>>

Bootstrap == \/ BootDrain \/ BootClean \/ BootClearMarkers \/ BootPostgres
             \/ BootMigrate \/ BootSkip \/ BootMark \/ BootUnforce \/ BootLaunch

-----------------------------------------------------------------------------
(***************************************************************************)
(* run_backup_internal, for the command, the scheduler and the restore.    *)
(***************************************************************************)

\* begin_operation: one backup or restore at a time.
NoOperation == backup.step = "none" /\ restore.step = "none"

BeginBackup(trigger) ==
    backup' = [step |-> "dump", trigger |-> trigger, policy |-> policy, ok |-> TRUE,
               archive |-> [id |-> count.archives + 1, whole |-> FALSE, db |-> Blank,
                            files |-> {}, torn |-> FALSE]]

\* desktop_run_backup_now, and the scheduler's thread when a backup is due.
StartBackup(trigger) ==
    /\ status = "ready" /\ boot.step = "none"
    /\ NoOperation
    /\ count.archives < MaxArchives
    /\ BeginBackup(trigger)
    /\ UNCHANGED <<disk, serving, uploading, status, request, boot, restore, latest, torn, count>>

BackupUnchanged == UNCHANGED <<serving, uploading, status, request, boot, restore, latest, torn>>

BackupGo(step) == backup' = [backup EXCEPT !.step = step]

\* A failure is recorded like a success.
BackupFails == backup' = [backup EXCEPT !.step = "persist", !.ok = FALSE]

\* Seeded fault: the uploads are copied before the dump is taken.
CollectedSwapped(archive) ==
    IF backup.step = "copy"
      THEN {[archive EXCEPT !.db = d, !.torn = "files" \in torn] : d \in {db} \ {Null}}
      ELSE {[archive EXCEPT !.files = files]}

\* pg_dump sees the database at one moment, and the uploads are copied later.
Collected(archive) ==
    IF backup.step = "dump"
      THEN {[archive EXCEPT !.db = d, !.torn = "files" \in torn] : d \in {db} \ {Null}}
      ELSE {[archive EXCEPT !.files = files]}

BackupCollect(step, next) ==
    /\ backup.step = step
    /\ \/ \E archive \in Collected(backup.archive) :
              backup' = [backup EXCEPT !.step = next, !.archive = archive]
       \/ BackupFails
    /\ UNCHANGED <<disk, count>> /\ BackupUnchanged

BackupDump == BackupCollect("dump", "copy")
BackupCopy == BackupCollect("copy", "create")

\* create_backup_archive: nobody removes the file of one that is not finished.
BackupCreate ==
    /\ backup.step = "create"
    /\ \/ /\ archives' = archives \cup {backup.archive}
          /\ count' = [count EXCEPT !.archives = @ + 1]
          /\ BackupGo("write")
       \/ BackupFails /\ UNCHANGED <<archives, count>>
    /\ UNCHANGED <<db, files, aside, marker, policy>> /\ BackupUnchanged

\* Seeded fault: old archives are removed although the new one could not be finished.
BackupWriteCareless ==
    /\ backup.step = "write"
    /\ \/ archives' = (archives \ {backup.archive}) \cup {[backup.archive EXCEPT !.whole = TRUE]}
       \/ UNCHANGED archives
    /\ BackupGo("prune")
    /\ UNCHANGED <<db, files, aside, marker, policy, count>> /\ BackupUnchanged

BackupWrite ==
    /\ backup.step = "write"
    /\ \/ /\ archives' = (archives \ {backup.archive})
                               \cup {[backup.archive EXCEPT !.whole = TRUE]}
          /\ BackupGo("prune")
       \/ BackupFails /\ UNCHANGED archives
    /\ UNCHANGED <<db, files, aside, marker, policy, count>> /\ BackupUnchanged

\* The archives after the newest ones, but for the one to be restored.
Surplus(retention) ==
    {a \in archives : /\ Cardinality({b \in archives : b.id > a.id}) >= retention
                      /\ (restore.source = Null \/ a.id # restore.source.id)}

\* prune_backups, which stops at the first archive it cannot delete.
BackupPrune ==
    /\ backup.step = "prune"
    /\ \/ archives' = archives \ Surplus(backup.policy) /\ BackupGo("persist")
       \/ /\ \E gone \in SUBSET Surplus(backup.policy) :
                 gone # Surplus(backup.policy) /\ archives' = archives \ gone
          /\ BackupFails
    /\ UNCHANGED <<db, files, aside, marker, policy, count>> /\ BackupUnchanged

\* persist_backup_result writes the policy read at the start of the backup.
BackupPersist ==
    /\ backup.step = "persist"
    /\ policy' \in {policy, backup.policy}
    /\ backup' = NoBackup
    /\ restore' = IF backup.trigger # "safety" THEN restore
                  ELSE IF backup.ok /\ \E a \in archives : a.id = restore.source.id
                  THEN [restore EXCEPT !.step = "extract"]
                  ELSE NoRestore
    /\ UNCHANGED <<db, files, aside, marker, archives, serving, uploading, status, request, boot,
                   latest, torn, count>>

Backup == \/ BackupDump \/ BackupCopy \/ BackupCreate \/ BackupWrite
          \/ BackupPrune \/ BackupPersist

\* desktop_set_backup_policy, for which the runtime need not be ready.
SetBackupPolicy(retention) ==
    /\ status # "closed"
    /\ restore.step = "none" /\ backup.trigger # "manual"
    /\ policy' = retention
    /\ UNCHANGED <<db, files, aside, marker, archives, memory, latest, torn, count>>

-----------------------------------------------------------------------------
(***************************************************************************)
(* desktop_restore_backup: a safety backup, then apply_restore_from_backup.*)
(***************************************************************************)

RestoreUnchanged == UNCHANGED <<archives, policy, uploading, request, backup, latest, count>>

RestoreGo(step) == restore' = [restore EXCEPT !.step = step] /\ UNCHANGED <<status, boot>>

\* It waits for no runtime to be ready: an archive may be what helps a failed start.
RestoreBackup(a) ==
    /\ status # "closed"
    /\ MainIdle /\ NoOperation
    /\ count.archives < MaxArchives
    /\ status' = "recovering"
    /\ restore' = [step |-> "safety", source |-> a]
    /\ BeginBackup("safety")
    /\ UNCHANGED <<disk, serving, uploading, request, boot, latest, torn, count>>

\* The archive is read before anything is touched; then the runtime is shut down.
RestoreExtract ==
    /\ restore.step = "extract"
    /\ \/ /\ restore.source.whole
          /\ serving' = FALSE /\ uploading' = {}
          /\ RestoreGo("database")
       \/ restore' = NoRestore /\ UNCHANGED <<serving, uploading, status, boot>>
    /\ UNCHANGED <<disk, request, backup, latest, torn, count>>

\* After a failure the version marker is removed, if it can be.
RestoreFails == RestoreGo("abandon")

\* psql in one transaction.
RestoreDatabase ==
    /\ restore.step = "database"
    /\ \/ /\ db' = restore.source.db
          /\ torn' = {"schema", "files"}
          /\ RestoreGo("stage")
       \/ RestoreFails /\ UNCHANGED <<db, torn>>
    /\ UNCHANGED <<files, aside, marker, serving>> /\ RestoreUnchanged

\* reconcile_admin_credentials_after_restore, which may fail, and the first part of
\* restore_uploads_atomically.
RestoreStage ==
    /\ restore.step = "stage"
    /\ \/ aside' = files /\ files' = {} /\ RestoreGo("copy")
       \/ aside' \in {aside, Null} /\ UNCHANGED files /\ RestoreFails
    /\ UNCHANGED <<db, marker, serving, torn>> /\ RestoreUnchanged

RestoreCopy ==
    /\ restore.step = "copy"
    /\ \/ /\ files' = restore.source.files
          /\ torn' = (torn \ {"files"}) \cup IF restore.source.torn THEN {"files"} ELSE {}
          /\ RestoreGo("finish") /\ UNCHANGED aside
       \/ /\ \/ files' = aside /\ aside' = Null
             \/ files' = {} /\ UNCHANGED aside
          /\ RestoreFails /\ UNCHANGED torn
    /\ UNCHANGED <<db, marker, serving>> /\ RestoreUnchanged

RestoreFinish ==
    /\ restore.step = "finish"
    /\ \/ aside' = Null /\ RestoreGo("invalidate")
       \/ RestoreFails /\ UNCHANGED aside
    /\ UNCHANGED <<db, files, marker, serving, torn>> /\ RestoreUnchanged

\* invalidate_migration_marker.
RestoreInvalidate ==
    /\ restore.step = "invalidate"
    /\ \/ /\ marker' = [marker EXCEPT !.version = 0]
          /\ torn' = torn \ {"schema"}
          /\ RestoreGo("force")
       \/ RestoreFails /\ UNCHANGED <<marker, torn>>
    /\ UNCHANGED <<db, files, aside, serving>> /\ RestoreUnchanged

\* request_forced_migration_on_next_boot; the runtime is started again.
RestoreForce ==
    /\ restore.step = "force"
    /\ \/ /\ marker' = [marker EXCEPT !.force = TRUE]
          /\ restore' = NoRestore
          /\ StartBootstrap
       \/ RestoreFails /\ UNCHANGED marker
    /\ UNCHANGED <<db, files, aside, serving, torn>> /\ RestoreUnchanged

RestoreAbandon ==
    /\ restore.step = "abandon"
    /\ \/ marker' = [marker EXCEPT !.version = 0] /\ torn' = torn \ {"schema"}
       \/ UNCHANGED <<marker, torn>>
    /\ restore' = NoRestore
    /\ StartBootstrap
    /\ UNCHANGED <<db, files, aside, serving>> /\ RestoreUnchanged

Restore == \/ RestoreExtract \/ RestoreDatabase \/ RestoreStage \/ RestoreCopy
           \/ RestoreFinish \/ RestoreInvalidate \/ RestoreForce \/ RestoreAbandon

-----------------------------------------------------------------------------

Next ==
    \/ \E d \in Docs : StoreFile(d) \/ StoreRow(d)
    \/ Stop \/ Update \/ Open \/ Restart
    \/ \E kind \in {"none", "repair", "reset"} : Recover(kind)
    \/ Bootstrap
    \/ \E trigger \in {"manual", "scheduled"} : StartBackup(trigger)
    \/ Backup
    \/ \E retention \in Retentions : SetBackupPolicy(retention)
    \/ \E a \in archives : RestoreBackup(a)
    \/ Restore

Spec == Init /\ [][Next]_vars

-----------------------------------------------------------------------------
(***************************************************************************)
(* Properties.                                                             *)
(***************************************************************************)

\* A backend that serves works on the schema of its release, however often a start, a
\* migration, a marker or a backup failed or was cut short before, whatever was restored
\* and whatever was updated in between.  Excepted are a start told to skip the migrations,
\* and a database replaced by a restore or a reset that did not get as far as to remove
\* the version marker of the one before: until the next migration, that marker is trusted.
ServesCurrentSchema ==
    serving /\ torn \cap {"schema", "skipped"} = {} =>
        db # Null /\ db.schema = latest /\ ~db.failed

\* Every document of the database has its file, unless a restore ended between the
\* database and the uploads.
RowsHaveFiles == db # Null /\ "files" \notin torn => db.rows \subseteq files

\* So has every document of an archive, though documents are stored while it is made.
ArchivesAreComplete ==
    \A a \in archives : a.whole /\ ~a.torn => a.db.rows \subseteq a.files

\* An archive that can be restored is never the last one of its kind to go: not by the
\* retention, with archives that were cut short counted as well, and not by the safety
\* backup of a restore.
WholeArchiveStays ==
    [][(\E a \in archives : a.whole) => \E a \in archives' : a.whole]_archives

=============================================================================
