--------------------------- MODULE DesktopDataProofs -------------------------
(***************************************************************************)
(* What the disk of the desktop edition keeps, for any documents, releases *)
(* and retentions and any number of archives and stops.                    *)
(*                                                                         *)
(* The properties are not inductive: they rest on who may run beside whom  *)
(* (Exclusion), on what the marker of the last migration stands for        *)
(* (MarkerInv), on what a backup and a restore under way have read         *)
(* (BackupInv, RestoreInv), and on the rows that are not yet written       *)
(* (UploadInv).                                                            *)
(***************************************************************************)
EXTENDS DesktopData, FiniteSetTheorems, TLAPS

ClearSteps   == {"clear", "clearversion", "clearforce"}
BootSteps    == ClearSteps \cup {"none", "drain", "clean", "postgres", "migrate", "mark",
                                 "unforce", "launch"}
BackupSteps  == {"none", "dump", "copy", "create", "write", "prune", "persist"}
RestoreSteps == {"none", "safety", "extract", "database", "stage", "copy", "finish",
                 "invalidate", "force", "abandon"}

Boots == [step : BootSteps, reset : BOOLEAN, repair : BOOLEAN, forced : BOOLEAN]

\* Typing, by what is kept together.
DbTyped       == db \in Database \cup {Null}
UploadsTyped  == files \subseteq Docs /\ aside \in (SUBSET Docs) \cup {Null}
                 /\ uploading \subseteq files
MarkerTyped   == marker \in [db : BOOLEAN, version : {0} \cup Versions, force : BOOLEAN]
ArchivesTyped == /\ count \in [archives : Nat, stops : Nat]
                 /\ \A a \in archives : a \in Archive /\ a.id <= count.archives
                 /\ \A a, b \in archives : a.id = b.id => a = b
Tears         == {"schema", "files", "skipped"}
SettingsTyped == policy \in Retentions /\ latest \in Versions /\ torn \subseteq Tears
ShellTyped    == serving \in BOOLEAN /\ status \in Phase /\ request \in {"none", "repair", "reset"}
BootTyped     == boot \in Boots
BackupTyped   ==
    backup \in [step : BackupSteps, trigger : {"none", "manual", "scheduled", "safety"},
                policy : Retentions \cup {Null}, archive : Archive \cup {Null}, ok : BOOLEAN]
RestoreTyped  == restore \in [step : RestoreSteps, source : Archive \cup {Null}]

Typed == /\ DbTyped /\ UploadsTyped /\ MarkerTyped /\ ArchivesTyped /\ SettingsTyped
         /\ ShellTyped /\ BootTyped /\ BackupTyped /\ RestoreTyped

\* No bootstrap runs beside a restore and nothing is served while the database is
\* prepared or replaced; a restore takes no step beside a backup but its own.
Exclusion ==
    /\ status = "closed" => ~serving /\ boot.step = "none" /\ restore.step = "none"
    /\ restore.step # "none" => boot.step = "none"
    /\ boot.step \notin {"none", "drain"} => ~serving
    /\ restore.step \notin {"none", "safety", "extract"} => ~serving
    /\ backup.step # "none" => restore.step \in {"none", "safety"}
    /\ backup.trigger = "safety" => restore.step = "safety"

\* The database is one of the installed release.
Current == db # Null /\ db.schema = latest /\ ~db.failed

\* A version marker of the installed release speaks for the database.
MarkerInv ==
    /\ marker.version <= latest
    /\ "schema" \notin torn /\ marker.version = latest => Current
    /\ boot.step \in ClearSteps => db = Null
    /\ boot.step = "mark" => Current
    /\ boot.step \in {"unforce", "launch"} /\ torn \cap {"schema", "skipped"} = {} => Current
    /\ serving => db # Null

\* A document is stored in the uploads before it has a row.
UploadInv ==
    /\ ~serving => uploading = {}
    /\ db # Null /\ "files" \notin torn => db.rows \cap uploading = {}

Complete(a) == ~a.torn => a.db.rows \subseteq a.files

BackupInv ==
    /\ backup.step # "none" => /\ backup.policy \in Retentions
                               /\ backup.archive \in Archive /\ ~backup.archive.whole
    /\ backup.step \in {"dump", "copy", "create"} => backup.archive.id = count.archives + 1
    /\ backup.step = "copy" /\ ~backup.archive.torn =>
           backup.archive.db.rows \subseteq files \ uploading
    /\ backup.step \in {"create", "write"} => Complete(backup.archive)
    /\ backup.step = "write" => /\ backup.archive \in archives
                                /\ backup.archive.id = count.archives
    /\ backup.step = "prune" => \E a \in archives : a.whole /\ a.id = count.archives

RestoreInv ==
    /\ restore.step # "none" => /\ restore.source \in Archive
                                /\ restore.source.whole => Complete(restore.source)
    /\ restore.step \notin {"none", "safety", "extract"} => restore.source.whole
    /\ restore.step \in {"stage", "copy"} => db = restore.source.db /\ "files" \in torn
    /\ restore.step = "copy" => aside \in SUBSET Docs

IInv == /\ Typed /\ Exclusion /\ MarkerInv /\ UploadInv /\ BackupInv /\ RestoreInv
        /\ ServesCurrentSchema /\ RowsHaveFiles /\ ArchivesAreComplete

-----------------------------------------------------------------------------
LEMMA IInvTyped == IInv => TypeOK
BY DEF IInv, Typed, DbTyped, UploadsTyped, MarkerTyped, ArchivesTyped, SettingsTyped, ShellTyped,
   BootTyped, BackupTyped, RestoreTyped, TypeOK, Boots, BootSteps, BackupSteps, RestoreSteps,
   ClearSteps, Tears

LEMMA InitIInv == Init => IInv
<1> SUFFICES ASSUME Init PROVE IInv
  OBVIOUS
<1>1. Typed
  <2>1. 1 \in Versions
    BY DesktopDataAssumption DEF Versions
  <2>2. DbTyped /\ UploadsTyped /\ MarkerTyped
    BY DEF Init, DbTyped, UploadsTyped, MarkerTyped
  <2>3. ArchivesTyped /\ SettingsTyped /\ ShellTyped
    BY <2>1 DEF Init, ArchivesTyped, SettingsTyped, ShellTyped, Phase
  <2>4. BootTyped /\ BackupTyped /\ RestoreTyped
    BY DEF Init, BootTyped, Boots, BackupTyped, RestoreTyped, BootSteps, BackupSteps,
       RestoreSteps, NoBoot, NoBackup, NoRestore
  <2> QED
    BY <2>2, <2>3, <2>4 DEF Typed
<1>2. Exclusion /\ MarkerInv
  BY DEF Init, Exclusion, MarkerInv, NoBoot, NoBackup, NoRestore
<1>3. UploadInv /\ BackupInv /\ RestoreInv
  BY DEF Init, UploadInv, BackupInv, RestoreInv, NoBackup, NoRestore
<1>4. ServesCurrentSchema /\ RowsHaveFiles /\ ArchivesAreComplete
  BY DEF Init, ServesCurrentSchema, RowsHaveFiles, ArchivesAreComplete
<1> QED BY <1>1, <1>2, <1>3, <1>4 DEF IInv

\* Versions are positive numbers, unlike that of a marker that was removed.
LEMMA VersionsAreNumbers ==
    ASSUME Typed
    PROVE  latest \in Nat \ {0} /\ marker.version \in Nat
BY DesktopDataAssumption DEF Typed, SettingsTyped, MarkerTyped, Versions

-----------------------------------------------------------------------------
(***************************************************************************)
(* The bootstrap touches neither the uploads nor the archives, and serves  *)
(* nothing before its last step.                                           *)
(***************************************************************************)

BootFrame == /\ UNCHANGED <<files, aside, archives, policy, backup, restore, latest, count>>
             /\ uploading' \in {uploading, {}}

LEMMA BootFrameKeeps ==
    ASSUME IInv, BootFrame
    PROVE  /\ UploadsTyped' /\ ArchivesTyped' /\ BackupTyped' /\ RestoreTyped'
           /\ BackupInv' /\ ArchivesAreComplete'
<1>1. UploadsTyped' /\ ArchivesTyped' /\ BackupTyped' /\ RestoreTyped'
  BY DEF IInv, Typed, BootFrame, UploadsTyped, ArchivesTyped, BackupTyped, RestoreTyped
<1>2. BackupInv'
  BY DEF IInv, BootFrame, BackupInv, Complete
<1>3. ArchivesAreComplete'
  BY DEF IInv, BootFrame, ArchivesAreComplete
<1> QED BY <1>1, <1>2, <1>3

\* A step of the bootstrap that goes on, and one that ends it.
LEMMA BootMoves ==
    ASSUME BootTyped, NEW step \in BootSteps,
           NEW r \in BOOLEAN, NEW p \in BOOLEAN, NEW f \in BOOLEAN,
           \/ boot' = [step |-> step, reset |-> r, repair |-> p, forced |-> f]
           \/ boot' = [boot EXCEPT !.step = step]
           \/ boot' = [boot EXCEPT !.step = step, !.reset = r]
           \/ boot' = [boot EXCEPT !.step = step, !.repair = p]
           \/ boot' = [boot EXCEPT !.step = step, !.forced = f]
    PROVE  boot' \in Boots /\ boot'.step = step
<1>1. CASE boot' = [step |-> step, reset |-> r, repair |-> p, forced |-> f]
  BY <1>1 DEF Boots
<1>2. CASE boot' = [boot EXCEPT !.step = step]
  BY <1>2 DEF BootTyped, Boots
<1>3. CASE boot' = [boot EXCEPT !.step = step, !.reset = r]
  BY <1>3 DEF BootTyped, Boots
<1>4. CASE boot' = [boot EXCEPT !.step = step, !.repair = p]
  BY <1>4 DEF BootTyped, Boots
<1>5. CASE boot' = [boot EXCEPT !.step = step, !.forced = f]
  BY <1>5 DEF BootTyped, Boots
<1> QED BY <1>1, <1>2, <1>3, <1>4, <1>5

\* prisma migrate deploy ends with the schema of the release or with an earlier one, and
\* never touches the rows.
LEMMA Migrations ==
    ASSUME Typed
    PROVE  /\ Blank \in Database
           /\ \A d \in Migrated : /\ d \in Database
                                  /\ d.schema = latest /\ ~d.failed
                                  /\ d.rows = Existing.rows
           /\ \A d \in HalfMigrated : d # db => /\ d \in Database
                                              /\ d.rows = Existing.rows
                                              /\ Existing.schema < latest
           /\ db # Null => Existing = db
           /\ db = Null => Existing.rows = {}
<1>1. Blank \in Database
  BY DEF Blank, Database
<1>2. Existing \in Database
  BY <1>1 DEF Existing, Typed, DbTyped
<1>3. latest \in Versions /\ latest \in Nat
  BY VersionsAreNumbers DEF Typed, SettingsTyped
<1>4. ASSUME NEW d \in Migrated
      PROVE  d \in Database /\ d.schema = latest /\ ~d.failed /\ d.rows = Existing.rows
  <2>1. d = [Existing EXCEPT !.schema = latest, !.failed = FALSE]
    BY DEF Migrated
  <2> QED
    BY <1>2, <1>3, <2>1 DEF Database
<1>5. ASSUME NEW d \in HalfMigrated, d # db
      PROVE  d \in Database /\ d.rows = Existing.rows /\ Existing.schema < latest
  <2>1. d \in Database /\ d.rows = Existing.rows /\ d.schema \in Existing.schema..(latest - 1)
    BY <1>5 DEF HalfMigrated
  <2>2. Existing.schema \in Nat
    BY <1>2, DesktopDataAssumption DEF Database, Versions
  <2> QED
    BY <1>3, <2>1, <2>2
<1>6. (db # Null => Existing = db) /\ (db = Null => Existing.rows = {})
  BY DEF Existing, Blank
<1> QED BY <1>1, <1>4, <1>5, <1>6

\* What is left to show of a step of the bootstrap.
BootKept == /\ DbTyped /\ MarkerTyped /\ SettingsTyped /\ ShellTyped /\ BootTyped
            /\ Exclusion /\ MarkerInv /\ UploadInv /\ RestoreInv
            /\ ServesCurrentSchema /\ RowsHaveFiles

LEMMA BootFrameSuffices ==
    ASSUME IInv, BootFrame, BootKept'
    PROVE  IInv'
BY BootFrameKeeps DEF BootKept, IInv, Typed

\* While the bootstrap is at work, nothing is served and nobody restores.
LEMMA BootAlone ==
    ASSUME IInv, boot.step # "none"
    PROVE  /\ restore.step = "none"
           /\ status # "closed"
           /\ boot.step # "drain" => ~serving /\ uploading = {}
BY DEF IInv, Exclusion, UploadInv

\* Whatever the bootstrap does to the database, to the markers and to itself, the rest of
\* the control follows.
LEMMA BootControl ==
    ASSUME IInv, boot.step # "none", BootFrame,
           boot' \in Boots, status' \in {status, "failed", "ready"},
           request' \in {request, "none"},
           serving' \in BOOLEAN,
           serving' => boot'.step = "none" /\ uploading' = {},
           ~serving' => uploading' = {}
    PROVE  ShellTyped' /\ BootTyped' /\ Exclusion' /\ RestoreInv'
           /\ uploading' = {} /\ restore'.step = "none" /\ latest' = latest
<1>1. restore' = restore /\ backup' = backup /\ latest' = latest /\ restore.step = "none"
      /\ status # "closed"
  BY BootAlone DEF BootFrame
<1>2. ShellTyped' /\ BootTyped'
  BY DEF IInv, Typed, ShellTyped, BootTyped, Phase
<1>3. Exclusion'
  BY <1>1 DEF IInv, Exclusion
<1>4. RestoreInv'
  BY <1>1 DEF RestoreInv
<1> QED BY <1>1, <1>2, <1>3, <1>4

LEMMA BootDrainKeeps ==
    ASSUME IInv, BootDrain
    PROVE  IInv'
<1>0. BootTyped
  BY DEF IInv, Typed
<1>1. boot.step = "drain" /\ serving' = FALSE /\ uploading' = {}
      /\ UNCHANGED <<db, files, marker, latest, torn, request>>
  BY DEF BootDrain, disk
<1>2. BootFrame
  BY DEF BootDrain, BootFrame, disk
<1>3. \/ boot' = [boot EXCEPT !.step = "clean"] /\ status' = status
      \/ boot' = NoBoot /\ status' = "failed"
  BY DEF BootDrain, BootGo, BootFails
<1>4. boot' \in Boots /\ boot'.step \in {"clean", "none"}
  <2>1. CASE boot' = [boot EXCEPT !.step = "clean"]
    BY <1>0, <2>1, BootMoves DEF BootSteps
  <2>2. CASE boot' = NoBoot
    BY <1>0, <2>2, BootMoves DEF BootSteps, NoBoot
  <2> QED BY <1>3, <2>1, <2>2
<1>5. ShellTyped' /\ BootTyped' /\ Exclusion' /\ RestoreInv'
  BY <1>1, <1>2, <1>3, <1>4, BootControl
<1>6. DbTyped' /\ MarkerTyped' /\ SettingsTyped'
  BY <1>1, <1>2 DEF IInv, Typed, DbTyped, MarkerTyped, SettingsTyped, BootFrame
<1>7. MarkerInv' /\ ServesCurrentSchema'
  BY <1>1, <1>4 DEF IInv, MarkerInv, ServesCurrentSchema, Current, ClearSteps
<1>8. UploadInv' /\ RowsHaveFiles'
  BY <1>1 DEF IInv, UploadInv, RowsHaveFiles
<1> QED BY <1>2, <1>5, <1>6, <1>7, <1>8, BootFrameSuffices DEF BootKept

LEMMA BootCleanKeeps ==
    ASSUME IInv, BootClean
    PROVE  IInv'
<1>0. BootTyped
  BY DEF IInv, Typed
<1>1. boot.step = "clean" /\ request' = "none"
      /\ UNCHANGED <<files, marker, latest, serving, uploading>>
  BY DEF BootClean
<1>2. BootFrame
  BY DEF BootClean, BootFrame
<1>3. \/ /\ db' = Null /\ torn' = {"schema"}
         /\ boot' = [boot EXCEPT !.step = "clear", !.reset = TRUE] /\ status' = status
      \/ /\ \/ db' = db /\ torn' = torn
            \/ db' = Null /\ torn' = {"schema"}
         /\ boot' = NoBoot /\ status' = "failed"
      \/ /\ db' = db /\ torn' = torn /\ status' = status
         /\ \E b \in BOOLEAN : boot' = [boot EXCEPT !.step = "postgres", !.repair = b]
  BY DEF BootClean, BootFails
<1>4. /\ boot' \in Boots
      /\ \/ boot'.step = "clear" /\ db' = Null
         \/ boot'.step \in {"postgres", "none"}
  <2>1. CASE db' = Null /\ boot' = [boot EXCEPT !.step = "clear", !.reset = TRUE]
    BY <1>0, <2>1, BootMoves DEF BootSteps, ClearSteps
  <2>2. CASE boot' = NoBoot
    BY <1>0, <2>2, BootMoves DEF BootSteps, NoBoot
  <2>3. CASE \E b \in BOOLEAN : boot' = [boot EXCEPT !.step = "postgres", !.repair = b]
    BY <1>0, <2>3, BootMoves DEF BootSteps
  <2> QED BY <1>3, <2>1, <2>2, <2>3
<1>5. ~serving /\ uploading = {}
  BY <1>1, BootAlone
<1>6. ShellTyped' /\ BootTyped' /\ Exclusion' /\ RestoreInv'
  BY <1>1, <1>2, <1>3, <1>4, <1>5, BootControl DEF IInv, Typed, ShellTyped
<1>7. DbTyped' /\ MarkerTyped' /\ SettingsTyped'
  BY <1>1, <1>2, <1>3 DEF IInv, Typed, DbTyped, MarkerTyped, SettingsTyped, BootFrame, Tears
<1>8. MarkerInv' /\ ServesCurrentSchema'
  <2>1. (db' = db /\ torn' = torn) \/ "schema" \in torn'
    BY <1>3
  <2> QED
    BY <1>1, <1>4, <1>5, <2>1 DEF IInv, MarkerInv, ServesCurrentSchema, Current, ClearSteps
<1>9. UploadInv' /\ RowsHaveFiles'
  BY <1>1, <1>3, <1>5 DEF IInv, UploadInv, RowsHaveFiles
<1> QED BY <1>2, <1>6, <1>7, <1>8, <1>9, BootFrameSuffices DEF BootKept

\* Whichever markers are left, one that names the release is still under suspicion.
LEMMA BootClearKeeps ==
    ASSUME IInv, BootClearMarkers
    PROVE  IInv'
<1>0. BootTyped /\ Typed
  BY DEF IInv, Typed
<1>1. /\ boot.step \in ClearSteps
      /\ torn' = IF marker'.version = 0 THEN torn \ {"schema"} ELSE torn
      /\ marker' \in {marker, [marker EXCEPT !.db = FALSE], [marker EXCEPT !.version = 0],
                     [marker EXCEPT !.force = FALSE]}
      /\ \E step \in {"clearversion", "clearforce", "postgres"} :
             boot' = [boot EXCEPT !.step = step]
      /\ UNCHANGED <<db, files, latest, serving, uploading, status, request>>
  BY DEF BootClearMarkers, BootClear, BootGo, ClearSteps
<1>2. BootFrame
  BY DEF BootClearMarkers, BootClear, BootFrame
<1>3. boot' \in Boots /\ boot'.step \in {"clearversion", "clearforce", "postgres"}
  <2>1. PICK step \in {"clearversion", "clearforce", "postgres"} :
            boot' = [boot EXCEPT !.step = step]
    BY <1>1
  <2>2. step \in BootSteps
    BY DEF BootSteps, ClearSteps
  <2>3. boot' \in Boots /\ boot'.step = step
    BY <1>0, <2>1, <2>2, BootMoves
  <2> QED BY <2>3
<1>4. ~serving /\ uploading = {} /\ db = Null
  BY <1>1, BootAlone DEF IInv, MarkerInv, ClearSteps
<1>5. ShellTyped' /\ BootTyped' /\ Exclusion' /\ RestoreInv'
  <2>1. boot.step # "none" /\ status' \in {status, "failed", "ready"} /\ serving' = FALSE
        /\ uploading' = {} /\ request' \in {request, "none"}
    BY <1>0, <1>1, <1>4 DEF ClearSteps, Typed, ShellTyped
  <2> QED BY <1>2, <1>3, <2>1, BootControl
<1>6. MarkerTyped' /\ marker'.version \in {marker.version, 0}
  BY <1>0, <1>1 DEF Typed, MarkerTyped
<1>7. DbTyped' /\ SettingsTyped'
  BY <1>0, <1>1, <1>2 DEF Typed, DbTyped, SettingsTyped, BootFrame
<1>8. MarkerInv' /\ ServesCurrentSchema'
  <2>1. latest \in Nat \ {0} /\ marker.version \in Nat
    BY <1>0, VersionsAreNumbers
  <2>2. "schema" \notin torn' /\ marker'.version = latest' =>
            "schema" \notin torn /\ marker.version = latest
    BY <1>1, <1>6, <2>1
  <2>3. marker'.version <= latest'
    BY <1>1, <1>6, <2>1 DEF IInv, MarkerInv
  <2>4. (boot'.step \in ClearSteps => db' = Null) /\ boot'.step \notin {"mark", "unforce", "launch"}
    BY <1>1, <1>3, <1>4
  <2>5. "schema" \notin torn' /\ marker'.version = latest' => Current'
    BY <1>1, <2>2 DEF IInv, MarkerInv, Current
  <2> QED
    BY <1>1, <1>4, <2>3, <2>4, <2>5 DEF MarkerInv, ServesCurrentSchema
<1>9. UploadInv' /\ RowsHaveFiles'
  BY <1>1, <1>4 DEF UploadInv, RowsHaveFiles
<1> QED BY <1>2, <1>5, <1>6, <1>7, <1>8, <1>9, BootFrameSuffices DEF BootKept

LEMMA BootPostgresKeeps ==
    ASSUME IInv, BootPostgres
    PROVE  IInv'
<1>0. BootTyped /\ Typed
  BY DEF IInv, Typed
<1>1. /\ boot.step = "postgres"
      /\ UNCHANGED <<files, latest, torn, serving, uploading, request>>
      /\ \/ db' = db
         \/ db = Null /\ db' = Blank
      /\ \/ marker' = marker
         \/ \E written \in BOOLEAN : marker' = [marker EXCEPT !.db = written]
      /\ \/ boot' = [boot EXCEPT !.step = "migrate"] /\ status' = status
         \/ boot' = NoBoot /\ status' = "failed"
  BY DEF BootPostgres, BootGo, BootFails
<1>2. BootFrame
  BY DEF BootPostgres, BootFrame
<1>3. boot' \in Boots /\ boot'.step \in {"migrate", "none"}
  <2>1. CASE boot' = [boot EXCEPT !.step = "migrate"]
    BY <1>0, <2>1, BootMoves DEF BootSteps
  <2>2. CASE boot' = NoBoot
    BY <1>0, <2>2, BootMoves DEF BootSteps, NoBoot
  <2> QED BY <1>1, <2>1, <2>2
<1>4. ~serving /\ uploading = {}
  BY <1>1, BootAlone
<1>5. ShellTyped' /\ BootTyped' /\ Exclusion' /\ RestoreInv'
  BY <1>1, <1>2, <1>3, <1>4, BootControl DEF IInv, Typed, ShellTyped
<1>6. DbTyped' /\ SettingsTyped'
  BY <1>0, <1>1, <1>2, Migrations DEF Typed, DbTyped, SettingsTyped, BootFrame
<1>7. MarkerTyped' /\ marker'.version = marker.version
  <2>1. CASE marker' = marker
    BY <1>0, <2>1 DEF Typed, MarkerTyped
  <2>2. CASE \E written \in BOOLEAN : marker' = [marker EXCEPT !.db = written]
    BY <1>0, <2>2 DEF Typed, MarkerTyped
  <2> QED BY <1>1, <2>1, <2>2
<1>8. MarkerInv' /\ ServesCurrentSchema'
  BY <1>1, <1>3, <1>4, <1>7 DEF IInv, MarkerInv, ServesCurrentSchema, Current, ClearSteps
<1>9. UploadInv' /\ RowsHaveFiles'
  <2>1. db' # db => db'.rows = {}
    BY <1>1 DEF Blank
  <2> QED
    BY <1>1, <1>4, <2>1 DEF IInv, UploadInv, RowsHaveFiles
<1> QED BY <1>2, <1>5, <1>6, <1>7, <1>8, <1>9, BootFrameSuffices DEF BootKept

LEMMA BootMigrateKeeps ==
    ASSUME IInv, BootMigrate
    PROVE  IInv'
<1>0. BootTyped /\ Typed
  BY DEF IInv, Typed
<1>1. /\ boot.step = "migrate"
      /\ torn' = torn \ {"skipped"}
      /\ UNCHANGED <<files, marker, latest, serving, uploading, request>>
      /\ \/ /\ SchemaCurrent /\ db' = db /\ status' = status
            /\ boot' = [boot EXCEPT !.step = "launch"]
         \/ /\ db' \in Migrated /\ status' = status
            /\ boot' = [boot EXCEPT !.step = "mark", !.forced = marker.force]
         \/ /\ db' \in HalfMigrated /\ boot' = NoBoot /\ status' = "failed"
  BY DEF BootMigrate, BootGo, BootFails
<1>2. BootFrame
  BY DEF BootMigrate, BootFrame
<1>3. /\ boot' \in Boots
      /\ \/ boot'.step = "launch" /\ SchemaCurrent /\ db' = db
         \/ boot'.step = "mark" /\ db' \in Migrated
         \/ boot'.step = "none" /\ db' \in HalfMigrated
  <2>1. CASE SchemaCurrent /\ db' = db /\ boot' = [boot EXCEPT !.step = "launch"]
    BY <1>0, <2>1, BootMoves DEF BootSteps
  <2>2. CASE db' \in Migrated /\ boot' = [boot EXCEPT !.step = "mark", !.forced = marker.force]
    <3>1. marker.force \in BOOLEAN
      BY <1>0 DEF Typed, MarkerTyped
    <3> QED
      BY <1>0, <2>2, <3>1, BootMoves DEF BootSteps
  <2>3. CASE db' \in HalfMigrated /\ boot' = NoBoot
    BY <1>0, <2>3, BootMoves DEF BootSteps, NoBoot
  <2> QED BY <1>1, <2>1, <2>2, <2>3
<1>4. ~serving /\ uploading = {}
  BY <1>1, BootAlone
<1>5. ShellTyped' /\ BootTyped' /\ Exclusion' /\ RestoreInv'
  BY <1>1, <1>2, <1>3, <1>4, BootControl DEF IInv, Typed, ShellTyped
<1>6. /\ db' # db => db' \in Database /\ db'.rows = Existing.rows
      /\ boot'.step = "mark" => db' \in Database /\ db'.schema = latest /\ ~db'.failed
      /\ boot'.step = "none" /\ db' # db => Existing.schema < latest
  BY <1>0, <1>3, Migrations
<1>7. DbTyped' /\ MarkerTyped' /\ SettingsTyped'
  BY <1>0, <1>1, <1>2, <1>6 DEF Typed, DbTyped, MarkerTyped, SettingsTyped, BootFrame
<1>8. MarkerInv'
  <2>1. latest \in Nat /\ Current => Existing = db
    BY <1>0, Migrations, VersionsAreNumbers DEF Current
  <2>2. CASE boot'.step = "launch"
    BY <1>1, <1>3, <1>4, <2>2 DEF IInv, MarkerInv, Current, SchemaCurrent, ClearSteps
  <2>3. CASE boot'.step = "mark"
    BY <1>1, <1>4, <1>6, <2>3, NullAssumption DEF IInv, MarkerInv, Current, ClearSteps
  <2>4. CASE boot'.step = "none"
    <3>1. Current => db' = db
      BY <1>0, <1>6, <2>1, <2>4, VersionsAreNumbers DEF Current
    <3> QED
      BY <1>1, <1>4, <2>4, <3>1 DEF IInv, MarkerInv, Current, ClearSteps
  <2> QED BY <1>3, <2>2, <2>3, <2>4
<1>9. ServesCurrentSchema'
  BY <1>1, <1>4 DEF ServesCurrentSchema
<1>10. UploadInv' /\ RowsHaveFiles'
  <2>1. db' # db => db'.rows = IF db = Null THEN {} ELSE db.rows
    BY <1>0, <1>6, Migrations
  <2> QED
    BY <1>1, <1>4, <2>1 DEF IInv, UploadInv, RowsHaveFiles
<1> QED BY <1>2, <1>5, <1>7, <1>8, <1>9, <1>10, BootFrameSuffices DEF BootKept

\* A start told to skip the migrations is excepted.
LEMMA BootSkipKeeps ==
    ASSUME IInv, BootSkip
    PROVE  IInv'
<1>0. BootTyped /\ Typed
  BY DEF IInv, Typed
<1>1. /\ boot.step = "migrate" /\ torn' = torn \cup {"skipped"}
      /\ boot' = [boot EXCEPT !.step = "launch"]
      /\ UNCHANGED <<db, files, marker, latest, serving, uploading, status, request>>
  BY DEF BootSkip, BootGo, disk
<1>2. BootFrame
  BY DEF BootSkip, BootFrame, disk
<1>3. boot' \in Boots /\ boot'.step = "launch"
  BY <1>0, <1>1, BootMoves DEF BootSteps
<1>4. ~serving /\ uploading = {}
  BY <1>1, BootAlone
<1>5. ShellTyped' /\ BootTyped' /\ Exclusion' /\ RestoreInv'
  BY <1>1, <1>2, <1>3, <1>4, BootControl DEF IInv, Typed, ShellTyped
<1>6. DbTyped' /\ MarkerTyped' /\ SettingsTyped'
  BY <1>0, <1>1, <1>2 DEF Typed, DbTyped, MarkerTyped, SettingsTyped, BootFrame, Tears
<1>7. MarkerInv' /\ ServesCurrentSchema'
  BY <1>1, <1>3, <1>4 DEF IInv, MarkerInv, ServesCurrentSchema, Current, ClearSteps
<1>8. UploadInv' /\ RowsHaveFiles'
  BY <1>1, <1>4 DEF IInv, UploadInv, RowsHaveFiles
<1> QED BY <1>2, <1>5, <1>6, <1>7, <1>8, BootFrameSuffices DEF BootKept

LEMMA BootMarkKeeps ==
    ASSUME IInv, BootMark
    PROVE  IInv'
<1>0. BootTyped /\ Typed
  BY DEF IInv, Typed
<1>1. /\ boot.step = "mark" /\ torn' = torn \ {"schema"}
      /\ boot' = [boot EXCEPT !.step = "unforce"]
      /\ \E written \in {latest, marker.version, 0} :
             marker' = [marker EXCEPT !.version = written]
      /\ UNCHANGED <<db, files, latest, serving, uploading, status, request>>
  BY DEF BootMark, BootGo
<1>2. BootFrame
  BY DEF BootMark, BootFrame
<1>3. boot' \in Boots /\ boot'.step = "unforce"
  BY <1>0, <1>1, BootMoves DEF BootSteps
<1>4. ~serving /\ uploading = {} /\ Current
  BY <1>1, BootAlone DEF IInv, MarkerInv
<1>5. ShellTyped' /\ BootTyped' /\ Exclusion' /\ RestoreInv'
  BY <1>1, <1>2, <1>3, <1>4, BootControl DEF IInv, Typed, ShellTyped
<1>6. MarkerTyped' /\ marker'.version \in {marker.version, latest, 0}
  BY <1>0, <1>1 DEF Typed, MarkerTyped, SettingsTyped
<1>7. DbTyped' /\ SettingsTyped'
  BY <1>0, <1>1, <1>2 DEF Typed, DbTyped, SettingsTyped, BootFrame
<1>8. MarkerInv' /\ ServesCurrentSchema'
  BY <1>0, <1>1, <1>3, <1>4, <1>6, VersionsAreNumbers
  DEF IInv, MarkerInv, ServesCurrentSchema, Current, ClearSteps
<1>9. UploadInv' /\ RowsHaveFiles'
  BY <1>1, <1>4 DEF IInv, UploadInv, RowsHaveFiles
<1> QED BY <1>2, <1>5, <1>6, <1>7, <1>8, <1>9, BootFrameSuffices DEF BootKept

LEMMA BootUnforceKeeps ==
    ASSUME IInv, BootUnforce
    PROVE  IInv'
<1>0. BootTyped /\ Typed
  BY DEF IInv, Typed
<1>1. /\ boot.step = "unforce"
      /\ boot' = [boot EXCEPT !.step = "launch"]
      /\ marker' \in {marker, [marker EXCEPT !.force = marker.force /\ ~boot.forced]}
      /\ UNCHANGED <<db, files, latest, torn, serving, uploading, status, request>>
  BY DEF BootUnforce, BootGo
<1>2. BootFrame
  BY DEF BootUnforce, BootFrame
<1>3. boot' \in Boots /\ boot'.step = "launch"
  BY <1>0, <1>1, BootMoves DEF BootSteps
<1>4. ~serving /\ uploading = {}
  BY <1>1, BootAlone
<1>5. ShellTyped' /\ BootTyped' /\ Exclusion' /\ RestoreInv'
  BY <1>1, <1>2, <1>3, <1>4, BootControl DEF IInv, Typed, ShellTyped
<1>6. MarkerTyped' /\ marker'.version = marker.version
  BY <1>0, <1>1 DEF Typed, MarkerTyped, BootTyped, Boots
<1>7. DbTyped' /\ SettingsTyped'
  BY <1>0, <1>1, <1>2 DEF Typed, DbTyped, SettingsTyped, BootFrame
<1>8. MarkerInv' /\ ServesCurrentSchema'
  BY <1>1, <1>3, <1>4, <1>6 DEF IInv, MarkerInv, ServesCurrentSchema, Current, ClearSteps
<1>9. UploadInv' /\ RowsHaveFiles'
  BY <1>1, <1>4 DEF IInv, UploadInv, RowsHaveFiles
<1> QED BY <1>2, <1>5, <1>6, <1>7, <1>8, <1>9, BootFrameSuffices DEF BootKept

LEMMA BootLaunchKeeps ==
    ASSUME IInv, BootLaunch
    PROVE  IInv'
<1>0. BootTyped /\ Typed
  BY DEF IInv, Typed
<1>1. /\ boot.step = "launch" /\ boot' = NoBoot
      /\ UNCHANGED <<db, files, marker, latest, torn, uploading, request>>
      /\ \/ db # Null /\ status' = "ready" /\ serving' = TRUE
         \/ status' = "failed" /\ serving' = serving
  BY DEF BootLaunch, BootFails, disk
<1>2. BootFrame
  BY DEF BootLaunch, BootFrame, disk
<1>3. boot' \in Boots /\ boot'.step = "none"
  BY <1>0, <1>1, BootMoves DEF BootSteps, NoBoot
<1>4. ~serving /\ uploading = {}
  BY <1>1, BootAlone
<1>5. ShellTyped' /\ BootTyped' /\ Exclusion' /\ RestoreInv'
  <2>1. serving' \in BOOLEAN /\ status' \in {"ready", "failed"}
    BY <1>0, <1>1 DEF Typed, ShellTyped
  <2> QED
    BY <1>1, <1>2, <1>3, <1>4, <2>1, BootControl
<1>6. DbTyped' /\ MarkerTyped' /\ SettingsTyped'
  BY <1>0, <1>1, <1>2 DEF Typed, DbTyped, MarkerTyped, SettingsTyped, BootFrame
<1>7. MarkerInv' /\ ServesCurrentSchema'
  BY <1>1, <1>3, <1>4 DEF IInv, MarkerInv, ServesCurrentSchema, Current, ClearSteps
<1>8. UploadInv' /\ RowsHaveFiles'
  BY <1>1, <1>4 DEF IInv, UploadInv, RowsHaveFiles
<1> QED BY <1>2, <1>5, <1>6, <1>7, <1>8, BootFrameSuffices DEF BootKept

LEMMA BootstrapKeeps ==
    ASSUME IInv, Bootstrap
    PROVE  IInv'
BY BootDrainKeeps, BootCleanKeeps, BootClearKeeps, BootPostgresKeeps, BootMigrateKeeps,
   BootSkipKeeps, BootMarkKeeps, BootUnforceKeeps, BootLaunchKeeps DEF Bootstrap

-----------------------------------------------------------------------------
(***************************************************************************)
(* The backend and the shell.                                              *)
(***************************************************************************)

LEMMA StoreFileKeeps ==
    ASSUME IInv, NEW d \in Docs, StoreFile(d)
    PROVE  IInv'
<1>1. /\ serving /\ d \notin files
      /\ files' = files \cup {d} /\ uploading' = uploading \cup {d}
      /\ UNCHANGED <<db, aside, marker, archives, policy, serving, status, request, boot, backup,
                     restore, latest, torn, count>>
  BY DEF StoreFile
<1>2. Typed'
  <2>1. UploadsTyped'
    BY <1>1 DEF IInv, Typed, UploadsTyped
  <2> QED
    BY <1>1, <2>1 DEF IInv, Typed, DbTyped, MarkerTyped, ArchivesTyped, SettingsTyped, ShellTyped,
       BootTyped, BackupTyped, RestoreTyped
<1>3. Exclusion' /\ MarkerInv' /\ RestoreInv' /\ ServesCurrentSchema' /\ ArchivesAreComplete'
  BY <1>1 DEF IInv, Exclusion, MarkerInv, RestoreInv, ServesCurrentSchema, ArchivesAreComplete,
     Current, Complete
<1>4. UploadInv' /\ RowsHaveFiles'
  BY <1>1 DEF IInv, UploadInv, RowsHaveFiles
<1>5. BackupInv'
  BY <1>1 DEF IInv, BackupInv, Complete
<1> QED BY <1>2, <1>3, <1>4, <1>5 DEF IInv

LEMMA StoreRowKeeps ==
    ASSUME IInv, NEW d \in Docs, StoreRow(d)
    PROVE  IInv'
<1>1. /\ serving /\ d \in uploading
      /\ uploading' = uploading \ {d}
      /\ \/ db' = [db EXCEPT !.rows = @ \cup {d}] /\ files' = files
         \/ db' = db /\ files' = files \ {d}
      /\ UNCHANGED <<aside, marker, archives, policy, serving, status, request, boot, backup,
                     restore, latest, torn, count>>
  BY DEF StoreRow
<1>2. db \in Database
  BY <1>1 DEF IInv, MarkerInv, Typed, DbTyped
<1>3. /\ db' \in Database /\ db'.schema = db.schema /\ db'.failed = db.failed
      /\ \/ db'.rows = db.rows \cup {d} /\ files' = files
         \/ db'.rows = db.rows /\ files' = files \ {d}
  <2>1. CASE db' = [db EXCEPT !.rows = @ \cup {d}] /\ files' = files
    BY <1>2, <2>1 DEF Database
  <2> QED BY <1>1, <1>2, <2>1
<1>4. db # Null /\ db' # Null
  BY <1>2, <1>3, NullAssumption
<1>5. Typed'
  <2>1. DbTyped' /\ UploadsTyped'
    BY <1>1, <1>3 DEF IInv, Typed, DbTyped, UploadsTyped
  <2> QED
    BY <1>1, <2>1 DEF IInv, Typed, MarkerTyped, ArchivesTyped, SettingsTyped, ShellTyped,
       BootTyped, BackupTyped, RestoreTyped
<1>6. Exclusion'
  BY <1>1 DEF IInv, Exclusion
<1>7. MarkerInv' /\ ServesCurrentSchema'
  BY <1>1, <1>3, <1>4 DEF IInv, MarkerInv, ServesCurrentSchema, Current
<1>8. UploadInv' /\ RowsHaveFiles'
  <2>1. CASE "files" \in torn
    BY <1>1, <2>1 DEF UploadInv, RowsHaveFiles
  <2>2. CASE "files" \notin torn
    <3>1. db.rows \subseteq files /\ db.rows \cap uploading = {}
      BY <1>4, <2>2 DEF IInv, UploadInv, RowsHaveFiles
    <3>2. d \in files
      BY <1>1 DEF IInv, Typed, UploadsTyped
    <3>3. db'.rows \subseteq files' /\ db'.rows \cap uploading' = {}
      BY <1>1, <1>3, <3>1, <3>2
    <3> QED
      BY <1>1, <3>3 DEF UploadInv, RowsHaveFiles
  <2> QED BY <2>1, <2>2
<1>9. BackupInv' /\ ArchivesAreComplete'
  BY <1>1 DEF IInv, BackupInv, ArchivesAreComplete, Complete
<1>10. RestoreInv'
  BY <1>1 DEF IInv, RestoreInv, Exclusion, Complete
<1> QED BY <1>5, <1>6, <1>7, <1>8, <1>9, <1>10 DEF IInv

LEMMA StopKeeps ==
    ASSUME IInv, Stop
    PROVE  IInv'
<1>1. /\ status' = "closed" /\ serving' = FALSE /\ uploading' = {} /\ request' = "none"
      /\ boot' = NoBoot /\ backup' = NoBackup /\ restore' = NoRestore
      /\ count' = [count EXCEPT !.stops = @ + 1]
      /\ UNCHANGED <<db, files, aside, marker, archives, policy, latest, torn>>
  BY DEF Stop, disk
<1>2. Typed'
  <2>1. ArchivesTyped'
    <3>1. count' \in [archives : Nat, stops : Nat] /\ count'.archives = count.archives
      BY <1>1 DEF IInv, Typed, ArchivesTyped
    <3> QED
      BY <1>1, <3>1 DEF IInv, Typed, ArchivesTyped
  <2>2. BootTyped' /\ BackupTyped' /\ RestoreTyped' /\ ShellTyped'
    BY <1>1 DEF BootTyped, Boots, BootSteps, BackupTyped, BackupSteps, RestoreTyped, RestoreSteps,
       NoBoot, NoBackup, NoRestore, ShellTyped, Phase
  <2> QED
    BY <1>1, <2>1, <2>2 DEF IInv, Typed, DbTyped, UploadsTyped, MarkerTyped, SettingsTyped
<1>3. Exclusion' /\ BackupInv' /\ RestoreInv'
  BY <1>1 DEF Exclusion, BackupInv, RestoreInv, NoBoot, NoBackup, NoRestore
<1>4. MarkerInv' /\ ServesCurrentSchema'
  BY <1>1 DEF IInv, MarkerInv, ServesCurrentSchema, Current, NoBoot, ClearSteps
<1>5. UploadInv' /\ RowsHaveFiles' /\ ArchivesAreComplete'
  BY <1>1 DEF IInv, UploadInv, RowsHaveFiles, ArchivesAreComplete
<1> QED BY <1>2, <1>3, <1>4, <1>5 DEF IInv

\* A later release finds the marker of an earlier one.
LEMMA UpdateKeeps ==
    ASSUME IInv, Update
    PROVE  IInv'
<1>1. /\ status = "closed" /\ latest' = latest + 1 /\ latest' \in Versions
      /\ UNCHANGED <<db, files, aside, marker, archives, policy, serving, uploading, status,
                     request, boot, backup, restore, torn, count>>
  BY DEF Update, disk, memory
<1>2. Typed'
  BY <1>1 DEF IInv, Typed, DbTyped, UploadsTyped, MarkerTyped, ArchivesTyped, SettingsTyped,
     ShellTyped, BootTyped, BackupTyped, RestoreTyped
<1>3. ~serving /\ boot.step = "none"
  BY <1>1 DEF IInv, Exclusion
<1>4. MarkerInv' /\ ServesCurrentSchema'
  BY <1>1, <1>3, VersionsAreNumbers DEF IInv, MarkerInv, ServesCurrentSchema
<1>5. Exclusion' /\ BackupInv' /\ RestoreInv' /\ ArchivesAreComplete'
  BY <1>1 DEF IInv, Exclusion, BackupInv, RestoreInv, ArchivesAreComplete, Complete
<1>6. UploadInv' /\ RowsHaveFiles'
  BY <1>1 DEF IInv, UploadInv, RowsHaveFiles
<1> QED BY <1>2, <1>4, <1>5, <1>6 DEF IInv

\* A bootstrap starts when the shell opens, and again when nothing keeps the main thread
\* busy.
LEMMA StartKeeps ==
    ASSUME IInv, \/ Open \/ Restart
                 \/ \E kind \in {"none", "repair", "reset"} : Recover(kind)
    PROVE  IInv'
<1>1. /\ status' = "starting" /\ boot' = [NoBoot EXCEPT !.step = "drain"]
      /\ request' \in {request, "none", "repair", "reset"}
      /\ UNCHANGED <<db, files, aside, marker, archives, policy, serving, uploading, backup,
                     restore, latest, torn, count>>
  BY DEF Open, Restart, Recover, StartBootstrap, disk
<1>2. restore.step = "none"
  BY DEF IInv, Exclusion, Open, Restart, Recover, MainIdle
<1>3. boot' \in Boots /\ boot'.step = "drain"
  BY <1>1 DEF NoBoot, Boots, BootSteps
<1>4. Typed'
  <2>1. ShellTyped' /\ BootTyped'
    BY <1>1, <1>3 DEF IInv, Typed, ShellTyped, BootTyped, Phase
  <2> QED
    BY <1>1, <2>1 DEF IInv, Typed, DbTyped, UploadsTyped, MarkerTyped, ArchivesTyped,
       SettingsTyped, BackupTyped, RestoreTyped
<1>5. Exclusion'
  BY <1>1, <1>2, <1>3 DEF IInv, Exclusion
<1>6. MarkerInv' /\ ServesCurrentSchema'
  BY <1>1, <1>3 DEF IInv, MarkerInv, ServesCurrentSchema, Current, ClearSteps
<1>7. BackupInv' /\ RestoreInv' /\ ArchivesAreComplete'
  BY <1>1 DEF IInv, BackupInv, RestoreInv, ArchivesAreComplete, Complete
<1>8. UploadInv' /\ RowsHaveFiles'
  BY <1>1 DEF IInv, UploadInv, RowsHaveFiles
<1> QED BY <1>4, <1>5, <1>6, <1>7, <1>8 DEF IInv

LEMMA SetBackupPolicyKeeps ==
    ASSUME IInv, NEW retention \in Retentions, SetBackupPolicy(retention)
    PROVE  IInv'
<1>1. /\ policy' \in Retentions
      /\ UNCHANGED <<db, files, aside, marker, archives, serving, uploading, status, request,
                     boot, backup, restore, latest, torn, count>>
  BY DEF SetBackupPolicy, memory
<1>2. Typed'
  BY <1>1 DEF IInv, Typed, DbTyped, UploadsTyped, MarkerTyped, ArchivesTyped, SettingsTyped,
     ShellTyped, BootTyped, BackupTyped, RestoreTyped
<1>3. Exclusion' /\ MarkerInv' /\ ServesCurrentSchema'
  BY <1>1 DEF IInv, Exclusion, MarkerInv, ServesCurrentSchema, Current
<1>4. UploadInv' /\ RowsHaveFiles' /\ BackupInv' /\ RestoreInv' /\ ArchivesAreComplete'
  BY <1>1 DEF IInv, UploadInv, RowsHaveFiles, BackupInv, RestoreInv, ArchivesAreComplete, Complete
<1> QED BY <1>2, <1>3, <1>4 DEF IInv

-----------------------------------------------------------------------------
(***************************************************************************)
(* Backups.                                                                *)
(***************************************************************************)

\* A backup changes nothing but the archives, the policy and itself; the safety backup of
\* a restore lets that go on or ends it.
BackupFrame ==
    UNCHANGED <<db, files, aside, marker, serving, uploading, status, request, boot, latest, torn>>

LEMMA BackupFrameKeeps ==
    ASSUME IInv, BackupFrame
    PROVE  /\ DbTyped' /\ UploadsTyped' /\ MarkerTyped' /\ ShellTyped' /\ BootTyped'
           /\ MarkerInv' /\ UploadInv' /\ ServesCurrentSchema' /\ RowsHaveFiles'
<1>1. DbTyped' /\ UploadsTyped' /\ MarkerTyped' /\ ShellTyped' /\ BootTyped'
  BY DEF IInv, Typed, BackupFrame, DbTyped, UploadsTyped, MarkerTyped, ShellTyped, BootTyped
<1>2. MarkerInv' /\ ServesCurrentSchema'
  BY DEF IInv, BackupFrame, MarkerInv, ServesCurrentSchema, Current
<1>3. UploadInv' /\ RowsHaveFiles'
  BY DEF IInv, BackupFrame, UploadInv, RowsHaveFiles
<1> QED BY <1>1, <1>2, <1>3

\* A step of a backup under way that leaves the policy and the restore alone.
LEMMA BackupStepSuffices ==
    ASSUME IInv, BackupFrame, UNCHANGED <<policy, restore>>,
           backup.step # "none",
           BackupTyped', backup'.trigger = backup.trigger,
           ArchivesTyped', BackupInv', ArchivesAreComplete'
    PROVE  IInv'
<1>1. Typed'
  BY BackupFrameKeeps DEF IInv, Typed, BackupFrame, SettingsTyped, RestoreTyped
<1>2. Exclusion'
  BY DEF IInv, BackupFrame, Exclusion
<1>3. RestoreInv'
  BY DEF IInv, BackupFrame, RestoreInv, Complete
<1> QED BY <1>1, <1>2, <1>3, BackupFrameKeeps DEF IInv

\* What a backup goes on with is its own record.
LEMMA BackupMoves ==
    ASSUME BackupTyped, NEW step \in BackupSteps, NEW a \in Archive \cup {Null}, NEW ok \in BOOLEAN,
           \/ backup' = [backup EXCEPT !.step = step, !.archive = a] /\ ok = backup.ok
           \/ backup' = [backup EXCEPT !.step = step, !.ok = ok] /\ a = backup.archive
           \/ backup' = [backup EXCEPT !.step = step] /\ a = backup.archive /\ ok = backup.ok
    PROVE  /\ BackupTyped' /\ backup'.step = step /\ backup'.archive = a
           /\ backup'.trigger = backup.trigger /\ backup'.policy = backup.policy
<1>1. CASE backup' = [backup EXCEPT !.step = step, !.archive = a] /\ ok = backup.ok
  BY <1>1 DEF BackupTyped
<1>2. CASE backup' = [backup EXCEPT !.step = step, !.ok = ok] /\ a = backup.archive
  BY <1>2 DEF BackupTyped
<1>3. CASE backup' = [backup EXCEPT !.step = step] /\ a = backup.archive /\ ok = backup.ok
  BY <1>3 DEF BackupTyped
<1> QED BY <1>1, <1>2, <1>3

\* The next step of a backup, and its failure.
LEMMA BackupGoes ==
    ASSUME BackupTyped, NEW step \in BackupSteps, BackupGo(step)
    PROVE  /\ BackupTyped' /\ backup'.step = step /\ backup'.archive = backup.archive
           /\ backup'.trigger = backup.trigger /\ backup'.policy = backup.policy
<1>1. backup.archive \in Archive \cup {Null} /\ backup.ok \in BOOLEAN
  BY DEF BackupTyped
<1> QED BY <1>1, BackupMoves DEF BackupGo

LEMMA BackupFailureTyped ==
    ASSUME BackupTyped, BackupFails
    PROVE  /\ BackupTyped' /\ backup'.step = "persist" /\ backup'.archive = backup.archive
           /\ backup'.trigger = backup.trigger /\ backup'.policy = backup.policy
<1>1. backup.archive \in Archive \cup {Null} /\ FALSE \in BOOLEAN /\ "persist" \in BackupSteps
  BY DEF BackupTyped, BackupSteps
<1> QED BY <1>1, BackupMoves DEF BackupFails

\* A failed step leaves the archives alone.
LEMMA BackupFailureKeeps ==
    ASSUME IInv, BackupFrame, UNCHANGED <<archives, policy, restore, count>>,
           backup.step # "none", BackupFails
    PROVE  IInv'
<1>1. BackupTyped /\ ArchivesTyped
  BY DEF IInv, Typed
<1>2. ArchivesTyped' /\ ArchivesAreComplete'
  BY <1>1 DEF ArchivesTyped, IInv, ArchivesAreComplete
<1>3. BackupInv'
  BY <1>1, BackupFailureTyped DEF IInv, BackupInv
<1> QED BY <1>1, <1>2, <1>3, BackupFailureTyped, BackupStepSuffices

LEMMA BackupDumpKeeps ==
    ASSUME IInv, BackupDump
    PROVE  IInv'
<1>0. BackupTyped /\ ArchivesTyped /\ DbTyped /\ BackupFrame
  BY DEF IInv, Typed, BackupDump, BackupCollect, BackupUnchanged, BackupFrame, disk
<1>1. backup.step = "dump" /\ UNCHANGED <<archives, policy, restore, count>>
  BY DEF BackupDump, BackupCollect, BackupUnchanged, disk
<1>2. CASE BackupFails
  BY <1>0, <1>1, <1>2, BackupFailureKeeps
<1>3. ASSUME NEW archive \in Collected(backup.archive),
             backup' = [backup EXCEPT !.step = "copy", !.archive = archive]
      PROVE  IInv'
  <2>1. /\ db # Null
        /\ archive = [backup.archive EXCEPT !.db = db, !.torn = ("files" \in torn)]
    BY <1>1, <1>3 DEF Collected
  <2>2. backup.archive \in Archive /\ ~backup.archive.whole
        /\ backup.archive.id = count.archives + 1
    BY <1>1 DEF IInv, BackupInv
  <2>3. /\ archive \in Archive /\ ~archive.whole /\ archive.id = backup.archive.id
        /\ archive.db = db
        /\ ~archive.torn => "files" \notin torn
    <3>1. CASE "files" \in torn
      <4>1. archive = [backup.archive EXCEPT !.db = db, !.torn = TRUE]
        BY <2>1, <3>1
      <4> QED
        BY <1>0, <2>1, <2>2, <4>1 DEF Archive, DbTyped
    <3>2. CASE "files" \notin torn
      <4>1. archive = [backup.archive EXCEPT !.db = db, !.torn = FALSE]
        <5>1. ("files" \in torn) = FALSE
          BY <3>2
        <5> QED BY <2>1, <5>1, Zenon
      <4> QED
        BY <1>0, <2>1, <2>2, <3>2, <4>1 DEF Archive, DbTyped
    <3> QED BY <3>1, <3>2
  <2>4. /\ BackupTyped' /\ backup'.step = "copy" /\ backup'.archive = archive
        /\ backup'.trigger = backup.trigger /\ backup'.policy = backup.policy
    <3>1. archive \in Archive \cup {Null} /\ backup.ok \in BOOLEAN /\ "copy" \in BackupSteps
      BY <1>0, <2>3 DEF BackupTyped, BackupSteps
    <3> QED BY <1>0, <1>3, <3>1, BackupMoves
  <2>5. ArchivesTyped' /\ ArchivesAreComplete'
    BY <1>0, <1>1 DEF ArchivesTyped, IInv, ArchivesAreComplete
  <2>6. ~archive.torn => archive.db.rows \subseteq files' \ uploading'
    <3>1. "files" \notin torn => db.rows \subseteq files /\ db.rows \cap uploading = {}
      BY <2>1 DEF IInv, RowsHaveFiles, UploadInv
    <3> QED BY <1>0, <2>3, <3>1 DEF BackupFrame
  <2>7. BackupInv'
    BY <1>1, <2>2, <2>3, <2>4, <2>6 DEF IInv, BackupInv
  <2> QED BY <1>0, <1>1, <2>4, <2>5, <2>7, BackupStepSuffices
<1> QED BY <1>2, <1>3 DEF BackupDump, BackupCollect

LEMMA BackupCopyKeeps ==
    ASSUME IInv, BackupCopy
    PROVE  IInv'
<1>0. BackupTyped /\ ArchivesTyped /\ UploadsTyped /\ BackupFrame
  BY DEF IInv, Typed, BackupCopy, BackupCollect, BackupUnchanged, BackupFrame, disk
<1>1. backup.step = "copy" /\ UNCHANGED <<archives, policy, restore, count>>
  BY DEF BackupCopy, BackupCollect, BackupUnchanged, disk
<1>2. CASE BackupFails
  BY <1>0, <1>1, <1>2, BackupFailureKeeps
<1>3. ASSUME NEW archive \in Collected(backup.archive),
             backup' = [backup EXCEPT !.step = "create", !.archive = archive]
      PROVE  IInv'
  <2>1. archive = [backup.archive EXCEPT !.files = files]
    BY <1>1, <1>3 DEF Collected
  <2>2. /\ backup.archive \in Archive /\ ~backup.archive.whole
        /\ backup.archive.id = count.archives + 1
        /\ ~backup.archive.torn => backup.archive.db.rows \subseteq files
    BY <1>1 DEF IInv, BackupInv
  <2>3. /\ archive \in Archive /\ ~archive.whole /\ archive.id = backup.archive.id
        /\ Complete(archive)
    BY <1>0, <2>1, <2>2 DEF Archive, UploadsTyped, Complete
  <2>4. /\ BackupTyped' /\ backup'.step = "create" /\ backup'.archive = archive
        /\ backup'.trigger = backup.trigger /\ backup'.policy = backup.policy
    <3>1. archive \in Archive \cup {Null} /\ backup.ok \in BOOLEAN /\ "create" \in BackupSteps
      BY <1>0, <2>3 DEF BackupTyped, BackupSteps
    <3> QED BY <1>0, <1>3, <3>1, BackupMoves
  <2>5. ArchivesTyped' /\ ArchivesAreComplete'
    BY <1>0, <1>1 DEF ArchivesTyped, IInv, ArchivesAreComplete
  <2>6. BackupInv'
    BY <1>1, <2>2, <2>3, <2>4 DEF IInv, BackupInv, Complete
  <2> QED BY <1>0, <1>1, <2>4, <2>5, <2>6, BackupStepSuffices
<1> QED BY <1>2, <1>3 DEF BackupCopy, BackupCollect

LEMMA BackupCreateKeeps ==
    ASSUME IInv, BackupCreate
    PROVE  IInv'
<1>0. BackupTyped /\ ArchivesTyped /\ BackupFrame
  BY DEF IInv, Typed, BackupCreate, BackupUnchanged, BackupFrame
<1>1. backup.step = "create" /\ UNCHANGED <<policy, restore>>
  BY DEF BackupCreate, BackupUnchanged
<1>2. CASE BackupFails /\ UNCHANGED <<archives, count>>
  BY <1>0, <1>1, <1>2, BackupFailureKeeps
<1>3. CASE /\ archives' = archives \cup {backup.archive}
           /\ count' = [count EXCEPT !.archives = @ + 1]
           /\ BackupGo("write")
  <2>1. /\ BackupTyped' /\ backup'.step = "write" /\ backup'.archive = backup.archive
        /\ backup'.trigger = backup.trigger /\ backup'.policy = backup.policy
    BY <1>0, <1>3, BackupGoes DEF BackupSteps
  <2>2. /\ backup.archive \in Archive /\ ~backup.archive.whole /\ Complete(backup.archive)
        /\ backup.archive.id = count.archives + 1 /\ backup.policy \in Retentions
    BY <1>1 DEF IInv, BackupInv
  <2>3. /\ count' \in [archives : Nat, stops : Nat]
        /\ count.archives \in Nat /\ count'.archives = count.archives + 1
    BY <1>0, <1>3 DEF ArchivesTyped
  <2>4. ArchivesTyped'
    <3>1. \A a \in archives : a \in Archive /\ a.id \in Nat /\ a.id <= count.archives
      BY <1>0 DEF ArchivesTyped, Archive
    <3>2. \A a \in archives' : a \in Archive /\ a.id <= count'.archives
      BY <1>3, <2>2, <2>3, <3>1
    <3>3. \A a, b \in archives' : a.id = b.id => a = b
      BY <1>0, <1>3, <2>2, <2>3, <3>1 DEF ArchivesTyped
    <3> QED BY <2>3, <3>2, <3>3 DEF ArchivesTyped
  <2>5. ArchivesAreComplete'
    BY <1>3, <2>2 DEF IInv, ArchivesAreComplete
  <2>6. BackupInv'
    BY <1>3, <2>1, <2>2, <2>3 DEF BackupInv, Complete
  <2> QED BY <1>0, <1>1, <2>1, <2>4, <2>5, <2>6, BackupStepSuffices
<1> QED BY <1>2, <1>3 DEF BackupCreate

LEMMA BackupWriteKeeps ==
    ASSUME IInv, BackupWrite
    PROVE  IInv'
<1>0. BackupTyped /\ ArchivesTyped /\ BackupFrame
  BY DEF IInv, Typed, BackupWrite, BackupUnchanged, BackupFrame
<1>1. backup.step = "write" /\ UNCHANGED <<policy, restore, count>>
  BY DEF BackupWrite, BackupUnchanged
<1>2. CASE BackupFails /\ UNCHANGED archives
  BY <1>0, <1>1, <1>2, BackupFailureKeeps
<1>3. CASE /\ archives' = (archives \ {backup.archive})
                              \cup {[backup.archive EXCEPT !.whole = TRUE]}
           /\ BackupGo("prune")
  <2> DEFINE new == [backup.archive EXCEPT !.whole = TRUE]
  <2>1. /\ BackupTyped' /\ backup'.step = "prune" /\ backup'.archive = backup.archive
        /\ backup'.trigger = backup.trigger /\ backup'.policy = backup.policy
    BY <1>0, <1>3, BackupGoes DEF BackupSteps
  <2>2. /\ backup.archive \in Archive /\ ~backup.archive.whole /\ Complete(backup.archive)
        /\ backup.archive \in archives
        /\ backup.archive.id = count.archives /\ backup.policy \in Retentions
    BY <1>1 DEF IInv, BackupInv
  <2>3. /\ new \in Archive /\ new.whole /\ new.id = count.archives
        /\ ~new.torn => new.db.rows \subseteq new.files
    BY <2>2 DEF Archive, Complete
  <2>4. archives' = (archives \ {backup.archive}) \cup {new}
    BY <1>3
  <2> HIDE DEF new
  <2>5. ArchivesTyped'
    <3>1. \A a \in archives : a \in Archive /\ a.id \in Nat /\ a.id <= count.archives
      BY <1>0 DEF ArchivesTyped, Archive
    <3>2. count.archives \in Nat
      BY <1>0 DEF ArchivesTyped
    <3>3. \A a \in archives' : a \in Archive /\ a.id <= count'.archives
      BY <1>1, <2>3, <2>4, <3>1, <3>2
    <3>4. \A a, b \in archives' : a.id = b.id => a = b
      BY <1>0, <2>2, <2>3, <2>4 DEF ArchivesTyped
    <3> QED BY <1>0, <1>1, <3>3, <3>4 DEF ArchivesTyped
  <2>6. ArchivesAreComplete'
    BY <2>3, <2>4 DEF IInv, ArchivesAreComplete
  <2>7. BackupInv'
    BY <1>1, <2>1, <2>2, <2>3, <2>4 DEF BackupInv
  <2> QED BY <1>0, <1>1, <2>1, <2>5, <2>6, <2>7, BackupStepSuffices
<1> QED BY <1>2, <1>3 DEF BackupWrite

\* The newest archive is never one too many.
LEMMA NewestIsNoSurplus ==
    ASSUME IInv, backup.step # "none", NEW a \in archives, a.id = count.archives
    PROVE  a \notin Surplus(backup.policy)
<1>1. backup.policy \in Nat \ {0}
  BY DesktopDataAssumption DEF IInv, BackupInv
<1> DEFINE newer == {b \in archives : b.id > a.id}
<1>2. newer = {}
  <2>1. \A b \in archives : b.id \in Nat /\ b.id <= count.archives
    BY DEF IInv, Typed, ArchivesTyped, Archive
  <2> QED
    BY <2>1 DEF IInv, Typed, ArchivesTyped
<1>3. Cardinality(newer) = 0
  <2> HIDE DEF newer
  <2> QED BY <1>2, FS_EmptySet
<1>4. ~(Cardinality(newer) >= backup.policy)
  <2> HIDE DEF newer
  <2> QED BY <1>1, <1>3
<1> QED BY <1>4 DEF Surplus

LEMMA BackupPruneKeeps ==
    ASSUME IInv, BackupPrune
    PROVE  IInv'
<1>0. BackupTyped /\ ArchivesTyped /\ BackupFrame
  BY DEF IInv, Typed, BackupPrune, BackupUnchanged, BackupFrame
<1>1. backup.step = "prune" /\ UNCHANGED <<policy, restore, count>>
  BY DEF BackupPrune, BackupUnchanged
<1>2. BackupGo("persist") \/ BackupFails
  BY DEF BackupPrune
<1>3. archives' \subseteq archives
  BY DEF BackupPrune
<1>4. /\ BackupTyped' /\ backup'.step = "persist" /\ backup'.archive = backup.archive
      /\ backup'.trigger = backup.trigger /\ backup'.policy = backup.policy
  BY <1>0, <1>2, BackupGoes, BackupFailureTyped DEF BackupSteps
<1>5. ArchivesTyped' /\ ArchivesAreComplete'
  BY <1>0, <1>1, <1>3 DEF ArchivesTyped, IInv, ArchivesAreComplete
<1>6. BackupInv'
  BY <1>1, <1>4 DEF IInv, BackupInv
<1> QED BY <1>0, <1>1, <1>4, <1>5, <1>6, BackupStepSuffices

LEMMA BackupPersistKeeps ==
    ASSUME IInv, BackupPersist
    PROVE  IInv'
<1>0. BackupFrame
  BY DEF BackupPersist, BackupFrame
<1>1. /\ backup.step = "persist" /\ backup' = NoBackup
      /\ policy' \in {policy, backup.policy}
      /\ UNCHANGED <<archives, count>>
      /\ \/ restore' = restore
         \/ restore' = NoRestore
         \/ backup.trigger = "safety" /\ restore' = [restore EXCEPT !.step = "extract"]
  BY DEF BackupPersist
<1>2. backup.policy \in Retentions /\ restore.step \in {"none", "safety"}
  BY <1>1 DEF IInv, BackupInv, Exclusion
<1>3. BackupTyped' /\ backup'.step = "none" /\ backup'.trigger = "none"
  BY <1>1 DEF BackupTyped, BackupSteps, NoBackup
<1>4. /\ RestoreTyped'
      /\ \/ restore' = restore
         \/ restore'.step = "none"
         \/ /\ backup.trigger = "safety"
            /\ restore'.step = "extract" /\ restore'.source = restore.source
  <2>0. RestoreTyped
    BY DEF IInv, Typed
  <2>1. CASE restore' = restore
    BY <2>0, <2>1 DEF RestoreTyped
  <2>2. CASE restore' = NoRestore
    BY <2>2 DEF RestoreTyped, RestoreSteps, NoRestore
  <2>3. CASE backup.trigger = "safety" /\ restore' = [restore EXCEPT !.step = "extract"]
    BY <2>0, <2>3 DEF RestoreTyped, RestoreSteps
  <2> QED BY <1>1, <2>1, <2>2, <2>3
<1>5. Typed'
  <2>1. ArchivesTyped' /\ SettingsTyped'
    BY <1>0, <1>1, <1>2 DEF IInv, Typed, ArchivesTyped, SettingsTyped, BackupFrame
  <2> QED
    BY <1>0, <1>3, <1>4, <2>1, BackupFrameKeeps DEF Typed
<1>6. Exclusion'
  BY <1>0, <1>2, <1>3, <1>4 DEF IInv, Exclusion, BackupFrame
<1>7. BackupInv' /\ ArchivesAreComplete'
  BY <1>1, <1>3 DEF IInv, BackupInv, ArchivesAreComplete
<1>8. RestoreInv'
  BY <1>0, <1>2, <1>4 DEF IInv, Exclusion, RestoreInv, BackupFrame, Complete
<1> QED BY <1>0, <1>5, <1>6, <1>7, <1>8, BackupFrameKeeps DEF IInv

\* A backup that begins, by itself or for the restore that begins with it.
LEMMA BeginningKeeps ==
    ASSUME IInv, NEW trigger \in {"manual", "scheduled", "safety"}, BeginBackup(trigger),
           NoOperation, boot.step = "none", status # "closed",
           UNCHANGED <<db, files, aside, marker, archives, policy, serving, uploading, request,
                       boot, latest, torn, count>>,
           \/ trigger # "safety" /\ UNCHANGED <<status, restore>>
           \/ /\ trigger = "safety" /\ status' = "recovering"
              /\ \E a \in archives : restore' = [step |-> "safety", source |-> a]
    PROVE  IInv'
<1>1. /\ backup'.step = "dump" /\ backup'.trigger = trigger /\ backup'.policy = policy
      /\ backup'.archive = [id |-> count.archives + 1, whole |-> FALSE, db |-> Blank,
                            files |-> {}, torn |-> FALSE]
      /\ BackupTyped'
  <2>1. /\ policy \in Retentions
        /\ [id |-> count.archives + 1, whole |-> FALSE, db |-> Blank, files |-> {},
            torn |-> FALSE] \in Archive
    BY Migrations DEF IInv, Typed, SettingsTyped, ArchivesTyped, Archive
  <2> QED
    BY <2>1 DEF BeginBackup, BackupTyped, BackupSteps
<1>2. /\ RestoreTyped'
      /\ \/ restore' = restore /\ restore'.step = "none" /\ trigger # "safety"
         \/ restore'.step = "safety" /\ restore'.source \in archives /\ trigger = "safety"
  BY DEF IInv, Typed, NoOperation, ArchivesTyped, RestoreTyped, RestoreSteps
<1>3. Typed'
  <2>1. ShellTyped'
    BY DEF IInv, Typed, ShellTyped, Phase
  <2> QED
    BY <1>1, <1>2, <2>1 DEF IInv, Typed, DbTyped, UploadsTyped, MarkerTyped, ArchivesTyped,
       SettingsTyped, BootTyped
<1>4. Exclusion'
  BY <1>1, <1>2 DEF IInv, Exclusion
<1>5. MarkerInv' /\ ServesCurrentSchema'
  BY DEF IInv, MarkerInv, ServesCurrentSchema, Current
<1>6. UploadInv' /\ RowsHaveFiles' /\ ArchivesAreComplete'
  BY DEF IInv, UploadInv, RowsHaveFiles, ArchivesAreComplete
<1>7. BackupInv'
  <2>1. backup'.archive \in Archive /\ backup'.policy \in Retentions
    BY <1>1, Migrations DEF IInv, Typed, SettingsTyped, ArchivesTyped, Archive
  <2> QED
    BY <1>1, <2>1 DEF BackupInv
<1>8. RestoreInv'
  BY <1>2 DEF IInv, Typed, ArchivesTyped, ArchivesAreComplete, RestoreInv, Complete
<1> QED BY <1>3, <1>4, <1>5, <1>6, <1>7, <1>8 DEF IInv

LEMMA BackupKeeps ==
    ASSUME IInv, Backup
    PROVE  IInv'
BY BackupDumpKeeps, BackupCopyKeeps, BackupCreateKeeps, BackupWriteKeeps, BackupPruneKeeps,
   BackupPersistKeeps DEF Backup

-----------------------------------------------------------------------------
(***************************************************************************)
(* Restores.                                                               *)
(***************************************************************************)

\* A restore at work has the runtime to itself: nothing is served, no bootstrap and no
\* backup runs.
LEMMA RestoreAlone ==
    ASSUME IInv, restore.step \notin {"none", "safety", "extract"}
    PROVE  /\ ~serving /\ uploading = {} /\ boot.step = "none"
           /\ backup.step = "none" /\ backup.trigger # "safety" /\ status # "closed"
           /\ restore.source \in Archive /\ restore.source.whole /\ Complete(restore.source)
BY DEF IInv, Exclusion, UploadInv, RestoreInv

RestoreFrame == UNCHANGED <<archives, policy, serving, uploading, request, backup, latest, count>>

\* What is left to show of its steps.
LEMMA RestoreStepSuffices ==
    ASSUME IInv, RestoreFrame, restore.step \notin {"none", "safety", "extract"},
           DbTyped', UploadsTyped', MarkerTyped', torn' \subseteq Tears,
           RestoreTyped', RestoreInv', restore'.step \notin {"safety", "extract"},
           \/ boot' = boot /\ status' = status
           \/ /\ restore'.step = "none" /\ status' = "starting"
              /\ boot' = [NoBoot EXCEPT !.step = "drain"],
           marker'.version <= latest,
           "schema" \notin torn' /\ marker'.version = latest => Current',
           RowsHaveFiles'
    PROVE  IInv'
<1>1. /\ ~serving' /\ uploading' = {} /\ backup'.step = "none" /\ backup'.trigger # "safety"
      /\ latest' = latest
  BY RestoreAlone DEF RestoreFrame
<1>2. /\ boot' \in Boots
      /\ \/ boot'.step = "none" /\ status' = status
         \/ boot'.step = "drain" /\ status' = "starting" /\ restore'.step = "none"
  <2>1. boot \in Boots /\ boot.step = "none"
    BY RestoreAlone DEF IInv, Typed, BootTyped
  <2>2. /\ [NoBoot EXCEPT !.step = "drain"] \in Boots
        /\ [NoBoot EXCEPT !.step = "drain"].step = "drain"
    BY DEF NoBoot, Boots, BootSteps
  <2> QED BY <2>1, <2>2
<1>3. Typed'
  <2>1. ShellTyped' /\ BootTyped'
    BY <1>2 DEF IInv, Typed, RestoreFrame, ShellTyped, BootTyped, Phase
  <2>2. ArchivesTyped' /\ SettingsTyped' /\ BackupTyped'
    BY DEF IInv, Typed, RestoreFrame, ArchivesTyped, SettingsTyped, BackupTyped
  <2> QED BY <2>1, <2>2 DEF Typed
<1>4. Exclusion'
  <2>1. status # "closed"
    BY RestoreAlone
  <2> QED
    BY <1>1, <1>2, <2>1 DEF Exclusion
<1>5. MarkerInv' /\ ServesCurrentSchema'
  BY <1>1, <1>2 DEF MarkerInv, ServesCurrentSchema, ClearSteps
<1>6. UploadInv' /\ ArchivesAreComplete'
  BY <1>1 DEF IInv, RestoreFrame, UploadInv, ArchivesAreComplete
<1>7. BackupInv'
  BY <1>1 DEF BackupInv
<1> QED BY <1>3, <1>4, <1>5, <1>6, <1>7 DEF IInv

LEMMA RestoreMoves ==
    ASSUME RestoreTyped, NEW step \in RestoreSteps, restore' = [restore EXCEPT !.step = step]
    PROVE  RestoreTyped' /\ restore'.step = step /\ restore'.source = restore.source
BY DEF RestoreTyped

LEMMA RestoreExtractKeeps ==
    ASSUME IInv, RestoreExtract
    PROVE  IInv'
<1>1. /\ restore.step = "extract"
      /\ UNCHANGED <<db, files, aside, marker, archives, policy, request, backup, latest, torn,
                     count, status, boot>>
      /\ \/ /\ restore.source.whole /\ serving' = FALSE /\ uploading' = {}
            /\ restore' = [restore EXCEPT !.step = "database"]
         \/ restore' = NoRestore /\ UNCHANGED <<serving, uploading>>
  BY DEF RestoreExtract, RestoreGo, disk
<1>2. backup.step = "none" /\ backup.trigger # "safety" /\ boot.step = "none" /\ status # "closed"
  BY <1>1 DEF IInv, Exclusion
<1>3. /\ RestoreTyped'
      /\ \/ /\ restore'.step = "database" /\ restore'.source = restore.source
            /\ restore.source.whole /\ serving' = FALSE /\ uploading' = {}
         \/ restore'.step = "none" /\ UNCHANGED <<serving, uploading>>
  <2>1. CASE /\ restore.source.whole /\ serving' = FALSE /\ uploading' = {}
             /\ restore' = [restore EXCEPT !.step = "database"]
    BY <2>1, RestoreMoves DEF IInv, Typed, RestoreSteps
  <2>2. CASE restore' = NoRestore /\ UNCHANGED <<serving, uploading>>
    BY <2>2 DEF RestoreTyped, RestoreSteps, NoRestore
  <2> QED BY <1>1, <2>1, <2>2
<1>4. Typed'
  <2>1. UploadsTyped' /\ ShellTyped'
    BY <1>1, <1>3 DEF IInv, Typed, UploadsTyped, ShellTyped
  <2> QED
    BY <1>1, <1>3, <2>1 DEF IInv, Typed, DbTyped, MarkerTyped, ArchivesTyped, SettingsTyped,
       BootTyped, BackupTyped
<1>5. Exclusion'
  BY <1>1, <1>2, <1>3 DEF IInv, Exclusion
<1>6. MarkerInv' /\ ServesCurrentSchema'
  BY <1>1, <1>3 DEF IInv, MarkerInv, ServesCurrentSchema, Current
<1>7. UploadInv' /\ RowsHaveFiles' /\ ArchivesAreComplete'
  BY <1>1, <1>3 DEF IInv, UploadInv, RowsHaveFiles, ArchivesAreComplete
<1>8. BackupInv'
  BY <1>1, <1>2 DEF BackupInv
<1>9. RestoreInv'
  BY <1>1, <1>3 DEF IInv, RestoreInv, Complete
<1> QED BY <1>4, <1>5, <1>6, <1>7, <1>8, <1>9 DEF IInv

\* A restore that fails keeps the disk, but for what its last step says.
LEMMA RestoreFailureKeeps ==
    ASSUME IInv, RestoreFrame, restore.step \notin {"none", "safety", "extract"},
           RestoreFails, UNCHANGED <<db, marker, torn>>, UploadsTyped', RowsHaveFiles'
    PROVE  IInv'
<1>1. /\ restore' = [restore EXCEPT !.step = "abandon"] /\ boot' = boot /\ status' = status
  BY DEF RestoreFails, RestoreGo
<1>2. RestoreTyped' /\ restore'.step = "abandon" /\ restore'.source = restore.source
  BY <1>1, RestoreMoves DEF IInv, Typed, RestoreSteps
<1>3. RestoreInv'
  BY <1>2, RestoreAlone DEF RestoreInv, Complete
<1>4. /\ DbTyped' /\ MarkerTyped' /\ torn' \subseteq Tears
      /\ marker'.version <= latest
      /\ "schema" \notin torn' /\ marker'.version = latest => Current'
  BY DEF IInv, Typed, DbTyped, MarkerTyped, SettingsTyped, MarkerInv, Current, RestoreFrame
<1> QED BY <1>1, <1>2, <1>3, <1>4, RestoreStepSuffices

LEMMA RestoreDatabaseKeeps ==
    ASSUME IInv, RestoreDatabase
    PROVE  IInv'
<1>1. restore.step = "database" /\ UNCHANGED <<files, aside, marker>> /\ RestoreFrame
  BY DEF RestoreDatabase, RestoreUnchanged, RestoreFrame
<1>2. UploadsTyped'
  BY <1>1 DEF IInv, Typed, UploadsTyped, RestoreFrame
<1>3. CASE RestoreFails /\ UNCHANGED <<db, torn>>
  <2>1. RowsHaveFiles'
    BY <1>1, <1>3 DEF IInv, RowsHaveFiles
  <2> QED BY <1>1, <1>2, <1>3, <2>1, RestoreFailureKeeps
<1>4. CASE db' = restore.source.db /\ torn' = {"schema", "files"} /\ RestoreGo("stage")
  <2>1. /\ RestoreTyped' /\ restore'.step = "stage" /\ restore'.source = restore.source
        /\ boot' = boot /\ status' = status
    BY <1>4, RestoreMoves DEF IInv, Typed, RestoreSteps, RestoreGo
  <2>2. RestoreInv'
    BY <1>1, <1>4, <2>1, RestoreAlone DEF RestoreInv, Complete
  <2>3. DbTyped' /\ MarkerTyped' /\ marker'.version <= latest
    BY <1>1, <1>4, RestoreAlone DEF IInv, Typed, DbTyped, MarkerTyped, MarkerInv, Archive
  <2>4. RowsHaveFiles'
    BY <1>4 DEF RowsHaveFiles
  <2> QED BY <1>1, <1>2, <1>4, <2>1, <2>2, <2>3, <2>4, RestoreStepSuffices DEF Tears
<1> QED BY <1>3, <1>4 DEF RestoreDatabase

LEMMA RestoreStageKeeps ==
    ASSUME IInv, RestoreStage
    PROVE  IInv'
<1>1. restore.step = "stage" /\ UNCHANGED <<db, marker, torn>> /\ RestoreFrame
  BY DEF RestoreStage, RestoreUnchanged, RestoreFrame
<1>2. uploading' = {} /\ "files" \in torn /\ files \subseteq Docs
      /\ aside \in (SUBSET Docs) \cup {Null}
  BY <1>1, RestoreAlone DEF IInv, Typed, UploadsTyped, RestoreInv, RestoreFrame
<1>3. RowsHaveFiles'
  BY <1>1, <1>2 DEF RowsHaveFiles
<1>4. CASE aside' \in {aside, Null} /\ UNCHANGED files /\ RestoreFails
  <2>1. UploadsTyped'
    BY <1>2, <1>4 DEF UploadsTyped
  <2> QED BY <1>1, <1>3, <1>4, <2>1, RestoreFailureKeeps
<1>5. CASE aside' = files /\ files' = {} /\ RestoreGo("copy")
  <2>1. /\ RestoreTyped' /\ restore'.step = "copy" /\ restore'.source = restore.source
        /\ boot' = boot /\ status' = status
    BY <1>5, RestoreMoves DEF IInv, Typed, RestoreSteps, RestoreGo
  <2>2. RestoreInv'
    BY <1>1, <1>2, <1>5, <2>1, RestoreAlone DEF IInv, RestoreInv, Complete
  <2>3. UploadsTyped'
    BY <1>2, <1>5 DEF UploadsTyped
  <2>4. /\ DbTyped' /\ MarkerTyped' /\ torn' \subseteq Tears
        /\ marker'.version <= latest
        /\ "schema" \notin torn' /\ marker'.version = latest => Current'
    BY <1>1 DEF IInv, Typed, DbTyped, MarkerTyped, SettingsTyped, MarkerInv, Current, RestoreFrame
  <2> QED BY <1>1, <1>3, <2>1, <2>2, <2>3, <2>4, RestoreStepSuffices
<1> QED BY <1>4, <1>5 DEF RestoreStage

\* The uploads of the archive belong to its database, unless that was torn itself.
LEMMA RestoreCopyKeeps ==
    ASSUME IInv, RestoreCopy
    PROVE  IInv'
<1>1. restore.step = "copy" /\ UNCHANGED <<db, marker>> /\ RestoreFrame
  BY DEF RestoreCopy, RestoreUnchanged, RestoreFrame
<1>2. /\ uploading' = {} /\ "files" \in torn /\ db = restore.source.db
      /\ aside \in SUBSET Docs
  BY <1>1, RestoreAlone DEF IInv, RestoreInv, RestoreFrame
<1>3. CASE /\ \/ files' = aside /\ aside' = Null
              \/ files' = {} /\ UNCHANGED aside
           /\ RestoreFails /\ UNCHANGED torn
  <2>1. UploadsTyped' /\ RowsHaveFiles'
    BY <1>2, <1>3 DEF UploadsTyped, RowsHaveFiles
  <2> QED BY <1>1, <1>3, <2>1, RestoreFailureKeeps
<1>4. CASE /\ files' = restore.source.files
           /\ torn' = (torn \ {"files"}) \cup IF restore.source.torn THEN {"files"} ELSE {}
           /\ RestoreGo("finish") /\ UNCHANGED aside
  <2>1. /\ RestoreTyped' /\ restore'.step = "finish" /\ restore'.source = restore.source
        /\ boot' = boot /\ status' = status
    BY <1>4, RestoreMoves DEF IInv, Typed, RestoreSteps, RestoreGo
  <2>2. RestoreInv'
    BY <2>1, RestoreAlone, <1>1 DEF RestoreInv, Complete
  <2>3. restore.source \in Archive /\ Complete(restore.source)
    BY <1>1, RestoreAlone
  <2>4. UploadsTyped'
    BY <1>2, <1>4, <2>3 DEF UploadsTyped, Archive
  <2>5. /\ torn' \subseteq Tears
        /\ "schema" \in torn' <=> "schema" \in torn
        /\ "files" \in torn' <=> restore.source.torn
    BY <1>4 DEF IInv, Typed, SettingsTyped, Tears
  <2>6. /\ DbTyped' /\ MarkerTyped' /\ marker'.version <= latest
        /\ "schema" \notin torn' /\ marker'.version = latest => Current'
    BY <1>1, <2>5 DEF IInv, Typed, DbTyped, MarkerTyped, MarkerInv, Current, RestoreFrame
  <2>7. RowsHaveFiles'
    BY <1>1, <1>2, <1>4, <2>3, <2>5 DEF RowsHaveFiles, Complete
  <2> QED BY <1>1, <2>1, <2>2, <2>4, <2>5, <2>6, <2>7, RestoreStepSuffices
<1> QED BY <1>3, <1>4 DEF RestoreCopy

LEMMA RestoreFinishKeeps ==
    ASSUME IInv, RestoreFinish
    PROVE  IInv'
<1>1. restore.step = "finish" /\ UNCHANGED <<db, files, marker, torn>> /\ RestoreFrame
  BY DEF RestoreFinish, RestoreUnchanged, RestoreFrame
<1>2. aside' \in {aside, Null}
  BY DEF RestoreFinish
<1>3. UploadsTyped' /\ RowsHaveFiles'
  BY <1>1, <1>2 DEF IInv, Typed, UploadsTyped, RowsHaveFiles, RestoreFrame
<1>4. CASE RestoreFails
  BY <1>1, <1>3, <1>4, RestoreFailureKeeps
<1>5. CASE RestoreGo("invalidate")
  <2>1. /\ RestoreTyped' /\ restore'.step = "invalidate" /\ restore'.source = restore.source
        /\ boot' = boot /\ status' = status
    BY <1>5, RestoreMoves DEF IInv, Typed, RestoreSteps, RestoreGo
  <2>2. RestoreInv'
    BY <1>1, <2>1, RestoreAlone DEF RestoreInv, Complete
  <2>3. /\ DbTyped' /\ MarkerTyped' /\ torn' \subseteq Tears
        /\ marker'.version <= latest
        /\ "schema" \notin torn' /\ marker'.version = latest => Current'
    BY <1>1 DEF IInv, Typed, DbTyped, MarkerTyped, SettingsTyped, MarkerInv, Current, RestoreFrame
  <2> QED BY <1>1, <1>3, <2>1, <2>2, <2>3, RestoreStepSuffices
<1> QED BY <1>4, <1>5 DEF RestoreFinish

\* Without its version a marker speaks for no database.
LEMMA Invalidated ==
    ASSUME IInv, marker' = [marker EXCEPT !.version = 0]
    PROVE  MarkerTyped' /\ marker'.version = 0 /\ latest \in Nat \ {0}
BY VersionsAreNumbers DEF IInv, Typed, MarkerTyped

LEMMA RestoreInvalidateKeeps ==
    ASSUME IInv, RestoreInvalidate
    PROVE  IInv'
<1>1. restore.step = "invalidate" /\ UNCHANGED <<db, files, aside>> /\ RestoreFrame
  BY DEF RestoreInvalidate, RestoreUnchanged, RestoreFrame
<1>2. UploadsTyped' /\ DbTyped'
  BY <1>1 DEF IInv, Typed, UploadsTyped, DbTyped, RestoreFrame
<1>3. CASE RestoreFails /\ UNCHANGED <<marker, torn>>
  <2>1. RowsHaveFiles'
    BY <1>1, <1>3 DEF IInv, RowsHaveFiles
  <2> QED BY <1>1, <1>2, <1>3, <2>1, RestoreFailureKeeps
<1>4. CASE /\ marker' = [marker EXCEPT !.version = 0]
           /\ torn' = torn \ {"schema"}
           /\ RestoreGo("force")
  <2>1. /\ RestoreTyped' /\ restore'.step = "force" /\ restore'.source = restore.source
        /\ boot' = boot /\ status' = status
    BY <1>4, RestoreMoves DEF IInv, Typed, RestoreSteps, RestoreGo
  <2>2. RestoreInv'
    BY <1>1, <2>1, RestoreAlone DEF RestoreInv, Complete
  <2>3. RowsHaveFiles' /\ torn' \subseteq Tears
    BY <1>1, <1>4 DEF IInv, RowsHaveFiles, Typed, SettingsTyped
  <2>4. MarkerTyped' /\ marker'.version <= latest /\ marker'.version # latest /\ latest' = latest
    BY <1>1, <1>4, Invalidated DEF RestoreFrame
  <2> QED BY <1>1, <1>2, <2>1, <2>2, <2>3, <2>4, RestoreStepSuffices
<1> QED BY <1>3, <1>4 DEF RestoreInvalidate

LEMMA RestoreForceKeeps ==
    ASSUME IInv, RestoreForce
    PROVE  IInv'
<1>1. restore.step = "force" /\ UNCHANGED <<db, files, aside, torn>> /\ RestoreFrame
  BY DEF RestoreForce, RestoreUnchanged, RestoreFrame
<1>2. UploadsTyped' /\ DbTyped' /\ RowsHaveFiles' /\ torn' \subseteq Tears
  BY <1>1 DEF IInv, Typed, UploadsTyped, DbTyped, RowsHaveFiles, SettingsTyped, RestoreFrame
<1>3. CASE RestoreFails /\ UNCHANGED marker
  BY <1>1, <1>2, <1>3, RestoreFailureKeeps
<1>4. CASE marker' = [marker EXCEPT !.force = TRUE] /\ restore' = NoRestore /\ StartBootstrap
  <2>1. RestoreTyped' /\ restore'.step = "none" /\ RestoreInv'
    BY <1>4 DEF RestoreTyped, RestoreSteps, NoRestore, RestoreInv
  <2>2. MarkerTyped' /\ marker'.version = marker.version
    BY <1>4 DEF IInv, Typed, MarkerTyped
  <2>3. /\ marker'.version <= latest
        /\ "schema" \notin torn' /\ marker'.version = latest => Current'
    BY <1>1, <2>2 DEF IInv, MarkerInv, Current, RestoreFrame
  <2> QED BY <1>1, <1>2, <1>4, <2>1, <2>2, <2>3, RestoreStepSuffices DEF StartBootstrap
<1> QED BY <1>3, <1>4 DEF RestoreForce

LEMMA RestoreAbandonKeeps ==
    ASSUME IInv, RestoreAbandon
    PROVE  IInv'
<1>1. /\ restore.step = "abandon" /\ UNCHANGED <<db, files, aside>> /\ RestoreFrame
      /\ restore' = NoRestore /\ StartBootstrap
      /\ \/ marker' = [marker EXCEPT !.version = 0] /\ torn' = torn \ {"schema"}
         \/ UNCHANGED <<marker, torn>>
  BY DEF RestoreAbandon, RestoreUnchanged, RestoreFrame
<1>2. /\ UploadsTyped' /\ DbTyped' /\ RowsHaveFiles'
      /\ torn' \subseteq Tears
  BY <1>1 DEF IInv, Typed, UploadsTyped, DbTyped, RowsHaveFiles, SettingsTyped, RestoreFrame
<1>3. RestoreTyped' /\ restore'.step = "none" /\ RestoreInv'
  BY <1>1 DEF RestoreTyped, RestoreSteps, NoRestore, RestoreInv
<1>4. /\ MarkerTyped' /\ marker'.version <= latest
      /\ "schema" \notin torn' /\ marker'.version = latest => Current'
  <2>1. CASE marker' = [marker EXCEPT !.version = 0]
    BY <1>1, <2>1, Invalidated DEF RestoreFrame
  <2>2. CASE UNCHANGED <<marker, torn>>
    BY <1>1, <2>2 DEF IInv, Typed, MarkerTyped, MarkerInv, Current, RestoreFrame
  <2> QED BY <1>1, <2>1, <2>2
<1> QED BY <1>1, <1>2, <1>3, <1>4, RestoreStepSuffices DEF StartBootstrap

LEMMA RestoreKeeps ==
    ASSUME IInv, Restore
    PROVE  IInv'
BY RestoreExtractKeeps, RestoreDatabaseKeeps, RestoreStageKeeps, RestoreCopyKeeps,
   RestoreFinishKeeps, RestoreInvalidateKeeps, RestoreForceKeeps, RestoreAbandonKeeps
DEF Restore

LEMMA BeginKeeps ==
    ASSUME IInv, \/ \E trigger \in {"manual", "scheduled"} : StartBackup(trigger)
                 \/ \E a \in archives : RestoreBackup(a)
    PROVE  IInv'
<1>1. ASSUME NEW trigger \in {"manual", "scheduled"}, StartBackup(trigger)
      PROVE  IInv'
  BY <1>1, BeginningKeeps DEF StartBackup, disk
<1>2. ASSUME NEW a \in archives, RestoreBackup(a)
      PROVE  IInv'
  <2>1. boot.step = "none" /\ status # "closed"
    BY <1>2 DEF RestoreBackup, MainIdle
  <2> QED
    BY <1>2, <2>1, BeginningKeeps DEF RestoreBackup, disk
<1> QED BY <1>1, <1>2

-----------------------------------------------------------------------------
(***************************************************************************)
(* The theorems.                                                           *)
(***************************************************************************)

LEMMA StutterKeeps ==
    ASSUME IInv, UNCHANGED vars
    PROVE  IInv'
<1>1. UNCHANGED <<db, files, aside, marker, archives, policy, serving, uploading, status, request,
                  boot, backup, restore, latest, torn, count>>
  BY DEF vars, disk, memory
<1>2. Typed'
  BY <1>1 DEF IInv, Typed, DbTyped, UploadsTyped, MarkerTyped, ArchivesTyped, SettingsTyped,
     ShellTyped, BootTyped, BackupTyped, RestoreTyped
<1>3. Exclusion' /\ MarkerInv' /\ ServesCurrentSchema'
  BY <1>1 DEF IInv, Exclusion, MarkerInv, ServesCurrentSchema, Current
<1>4. UploadInv' /\ RowsHaveFiles' /\ BackupInv' /\ RestoreInv' /\ ArchivesAreComplete'
  BY <1>1 DEF IInv, UploadInv, RowsHaveFiles, BackupInv, RestoreInv, ArchivesAreComplete, Complete
<1> QED BY <1>2, <1>3, <1>4 DEF IInv

LEMMA NextKeeps == IInv /\ [Next]_vars => IInv'
BY StoreFileKeeps, StoreRowKeeps, StopKeeps, UpdateKeeps, StartKeeps, BootstrapKeeps, BeginKeeps,
   BackupKeeps, SetBackupPolicyKeeps, RestoreKeeps, StutterKeeps DEF Next

LEMMA IInvHolds == Spec => []IInv
<1>1. Init => IInv
  BY InitIInv
<1> QED BY <1>1, NextKeeps, PTL DEF Spec

\* Every reachable state of the disk and of the shell is well typed; the archives have
\* numbers of their own and a document on its way to its row has its file.
THEOREM DataTypeCorrect == Spec => []TypeOK
BY IInvHolds, IInvTyped, PTL

\* A backend that serves works on the schema of its release (bootstrap_runtime, with the
\* markers of run_db_migration), whatever failed or was cut short before; excepted are a
\* start told to skip the migrations, and a database that a restore or a reset replaced
\* without getting as far as to remove the version marker of the one before.
THEOREM CurrentSchemaServed == Spec => []ServesCurrentSchema
<1>1. IInv => ServesCurrentSchema
  BY DEF IInv
<1> QED BY <1>1, IInvHolds, PTL

\* Every row has its file (createDocument, restore_uploads_atomically), unless a restore
\* ended between the database and the uploads.
THEOREM RowsKeepFiles == Spec => []RowsHaveFiles
<1>1. IInv => RowsHaveFiles
  BY DEF IInv
<1> QED BY <1>1, IInvHolds, PTL

\* A whole archive holds the file of every document of its database, though the dump and
\* the copy of the uploads are taken at two moments (run_backup_internal).
THEOREM ArchivesComplete == Spec => []ArchivesAreComplete
<1>1. IInv => ArchivesAreComplete
  BY DEF IInv
<1> QED BY <1>1, IInvHolds, PTL

\* Only a backup changes the archives.
LEMMA OnlyBackupsWrite ==
    ASSUME Next, archives' # archives
    PROVE  BackupCreate \/ BackupWrite \/ BackupPrune
<1>1. CASE Bootstrap
  BY <1>1 DEF Bootstrap, BootDrain, BootClean, BootClearMarkers, BootClear, BootPostgres,
     BootMigrate, BootSkip, BootMark, BootUnforce, BootLaunch, disk
<1>2. CASE Restore
  BY <1>2 DEF Restore, RestoreExtract, RestoreDatabase, RestoreStage, RestoreCopy, RestoreFinish,
     RestoreInvalidate, RestoreForce, RestoreAbandon, RestoreUnchanged, disk
<1>3. CASE Backup
  BY <1>3 DEF Backup, BackupDump, BackupCopy, BackupCollect, BackupPersist, disk
<1>4. CASE \/ \E d \in Docs : StoreFile(d) \/ StoreRow(d)
           \/ Stop \/ Update \/ Open \/ Restart
           \/ \E kind \in {"none", "repair", "reset"} : Recover(kind)
           \/ \E trigger \in {"manual", "scheduled"} : StartBackup(trigger)
           \/ \E retention \in Retentions : SetBackupPolicy(retention)
           \/ \E a \in archives : RestoreBackup(a)
  BY <1>4 DEF StoreFile, StoreRow, Stop, Update, Open, Restart, Recover, StartBackup,
     SetBackupPolicy, RestoreBackup, disk
<1> QED BY <1>1, <1>2, <1>3, <1>4 DEF Next

\* The last whole archive never goes: the retention (prune_backups) removes archives only
\* after the backup at work has finished a newer one, for any retention.
THEOREM WholeArchiveKept == Spec => WholeArchiveStays
<1> DEFINE Whole == \E a \in archives : a.whole
<1>1. ASSUME IInv, Next, Whole
      PROVE  \E a \in archives' : a.whole
  <2>1. CASE archives' = archives
    BY <1>1, <2>1
  <2>2. CASE BackupCreate
    BY <1>1, <2>2 DEF BackupCreate
  <2>3. CASE BackupWrite
    <3>1. CASE UNCHANGED archives
      BY <1>1, <3>1
    <3>2. CASE archives' = (archives \ {backup.archive})
                               \cup {[backup.archive EXCEPT !.whole = TRUE]}
      <4>1. backup.archive \in Archive
        BY <1>1, <2>3 DEF IInv, BackupInv, BackupWrite
      <4>2. [backup.archive EXCEPT !.whole = TRUE].whole
        BY <4>1 DEF Archive
      <4> QED BY <3>2, <4>2
    <3> QED BY <2>3, <3>1, <3>2 DEF BackupWrite
  <2>4. CASE BackupPrune
    <3>1. backup.step = "prune"
      BY <2>4 DEF BackupPrune
    <3>2. PICK a \in archives : a.whole /\ a.id = count.archives
      BY <1>1, <3>1 DEF IInv, BackupInv
    <3>3. a \notin Surplus(backup.policy)
      BY <1>1, <3>1, <3>2, NewestIsNoSurplus
    <3>4. archives \ Surplus(backup.policy) \subseteq archives'
      BY <2>4 DEF BackupPrune
    <3> QED BY <3>2, <3>3, <3>4
  <2> QED BY <1>1, <2>1, <2>2, <2>3, <2>4, OnlyBackupsWrite
<1>2. IInv /\ [Next]_vars => [Whole => \E a \in archives' : a.whole]_archives
  <2>1. UNCHANGED vars => archives' = archives
    BY DEF vars, disk
  <2> QED BY <1>1, <2>1
<1> QED BY <1>2, IInvHolds, PTL DEF Spec, WholeArchiveStays


=============================================================================
