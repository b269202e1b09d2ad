--------------------------- MODULE DocumentPipeline --------------------------
(***************************************************************************)
(* One document of the desktop installation, from upload to search:        *)
(*   - modules/documents/documents.service.ts stores the file, then writes *)
(*     the rows in a transaction, then queues the background work;         *)
(*   - jobs/extractionDispatcher.ts and jobs/docxPreviewDispatcher.ts keep *)
(*     one queue each in memory and run its tasks one after the other;     *)
(*   - jobs/runExtraction.ts and jobs/runDocxPreview.ts do the work.       *)
(* A step ends where the code awaits the database or the storage.  Files   *)
(* are told apart by the upload that wrote them.  Storage keys hold the    *)
(* document's id, so documents share nothing but the queues.               *)
(***************************************************************************)
EXTENDS Integers, FiniteSetsExt

CONSTANTS
    Uploads,    \* upload requests; each is made once
    Names,      \* sanitised file names
    Mimes,      \* accepted types: "DOCX" has a preview, others do not
    MaxFaults,  \* bound: crashes and failures of the database or the storage
    Null        \* no row, no file, a column without a value

Partial == "partial"    \* what a storage write that failed leaves behind

Numbers == 1 .. Cardinality(Uploads)
Keys    == [number : Numbers, name : Names]
Content == Uploads \cup {Partial}

\* Null is none of the values a row, a key or a file has.
ASSUME DocumentAssumption ==
    /\ IsFiniteSet(Uploads)
    /\ Partial \notin Uploads
    /\ Null \notin Content \cup Mimes
    /\ Null \notin Keys

VARIABLES
    doc,        \* the Document row, or Null
    versions,   \* its DocumentVersion rows, with the upload each is for
    files,      \* the storage: what is under a key
    preview,    \* the storage: what the preview under the document's one preview
                \* key was made from
    upload,     \* the upload requests
    tasks,      \* tasks waiting in the extraction and in the preview queue
    extractor,  \* the task of the extraction queue that is running
    converter,  \* the task of the preview queue that is running
    faults      \* faults so far

rows    == <<doc, versions>>
storage == <<files, preview>>
jobs    == <<tasks, extractor, converter>>
vars    == <<rows, storage, upload, jobs, faults>>

-----------------------------------------------------------------------------

ExtractionStatus == {"PENDING", "PROCESSING", "INDEXED", "FAILED"}
PreviewStatus    == {"NONE", "PENDING", "PROCESSING", "READY", "FAILED"}

UploadSteps    == {"ready", "put", "commit", "cleanup", "dropPreview", "dispatch", "done",
                   "failed"}
ExtractorSteps == {"idle", "mark", "read", "store"}
ConverterSteps == {"idle", "mark", "convert", "put", "ready", "fail"}

Document == [key : Keys, mime : Mimes, extraction : ExtractionStatus,
             text : Content \cup {Null}, previewStatus : PreviewStatus,
             hasPreview : BOOLEAN, deleted : BOOLEAN]

ASSUME NullIsNoRow == Null \notin Document

TypeOK ==
    /\ doc \in Document \cup {Null}
    /\ versions \subseteq [number : Numbers, key : Keys, by : Uploads]
    /\ files \in [Keys -> Content \cup {Null}]
    /\ preview \in Content \cup {Null}
    /\ upload \in [Uploads -> [step : UploadSteps, key : Keys \cup {Null},
                               mime : Mimes \cup {Null}, hadPreview : BOOLEAN]]
    /\ tasks \in [extraction : Nat, preview : Nat]
    /\ extractor \in [step : ExtractorSteps, key : Keys \cup {Null},
                      text : Content \cup {Null}]
    /\ converter \in [step : ConverterSteps, key : Keys \cup {Null},
                      pdf : Content \cup {Null}]
    /\ faults \in Nat

NoUpload   == [step |-> "ready", key |-> Null, mime |-> Null, hadPreview |-> FALSE]
NoTasks    == [extraction |-> 0, preview |-> 0]
Extracting == [step |-> "idle", key |-> Null, text |-> Null]
Converting == [step |-> "idle", key |-> Null, pdf |-> Null]

Init ==
    /\ doc = Null
    /\ versions = {}
    /\ files = [k \in Keys |-> Null]
    /\ preview = Null
    /\ upload = [u \in Uploads |-> NoUpload]
    /\ tasks = NoTasks
    /\ extractor = Extracting
    /\ converter = Converting
    /\ faults = 0

Fault == faults < MaxFaults /\ faults' = faults + 1

InFlight(u) == upload[u].step \notin {"ready", "done", "failed"}

GoTo(u, step) == upload' = [upload EXCEPT ![u].step = step]

-----------------------------------------------------------------------------
(***************************************************************************)
(* createDocument and uploadNewVersion.                                    *)
(***************************************************************************)

\* createDocument makes a document, and a key, of its own.
CreateDocument(u, name, mime) ==
    /\ upload[u].step = "ready"
    /\ doc = Null
    /\ \A v \in Uploads : ~InFlight(v)
    /\ upload' = [upload EXCEPT ![u] = [step |-> "put", key |-> [number |-> 1, name |-> name],
                                        mime |-> mime, hadPreview |-> FALSE]]
    /\ UNCHANGED <<rows, storage, jobs, faults>>

\* uploadNewVersion takes its number, and so its key, from the rows it reads
\* in a transaction of its own.
UploadNewVersion(u, name, mime) ==
    LET next == Max({v.number : v \in versions}) + 1
    IN  /\ upload[u].step = "ready"
        /\ doc # Null
        /\ ~doc.deleted
        /\ upload' = [upload EXCEPT ![u] =
                [step |-> "put", key |-> [number |-> next, name |-> name],
                 mime |-> mime, hadPreview |-> doc.hasPreview]]
        /\ UNCHANGED <<rows, storage, jobs, faults>>

Put(u) ==
    /\ upload[u].step = "put"
    /\ files' = [files EXCEPT ![upload[u].key] = u]
    /\ GoTo(u, "commit")
    /\ UNCHANGED <<rows, preview, jobs, faults>>

\* A write that fails has truncated the file; nothing removes it.
PutFails(u) ==
    /\ upload[u].step = "put"
    /\ Fault
    /\ files' = [files EXCEPT ![upload[u].key] = Partial]
    /\ GoTo(u, "failed")
    /\ UNCHANGED <<rows, preview, jobs>>

\* Seeded fault: the rows are numbered from zero.
NewVersionFromZero(u) ==
    [number |-> upload[u].key.number - 1, key |-> upload[u].key, by |-> u]

NewVersion(u) == [number |-> upload[u].key.number, key |-> upload[u].key, by |-> u]

\* The row as both handlers leave it, but for whether it is deleted.
Uploaded(u) ==
    [key |-> upload[u].key, mime |-> upload[u].mime,
     extraction |-> "PENDING", text |-> Null,
     previewStatus |-> IF upload[u].mime = "DOCX" THEN "PENDING" ELSE "NONE",
     hasPreview |-> FALSE,
     deleted |-> doc # Null /\ doc.deleted]

Commit(u) ==
    /\ upload[u].step = "commit"
    /\ doc' = Uploaded(u)
    /\ versions' = versions \cup {NewVersion(u)}
    /\ GoTo(u, IF upload[u].hadPreview THEN "dropPreview" ELSE "dispatch")
    /\ UNCHANGED <<storage, jobs, faults>>

\* The transaction is rolled back,
CommitFails(u) ==
    /\ upload[u].step = "commit"
    /\ Fault
    /\ GoTo(u, "cleanup")
    /\ UNCHANGED <<rows, storage, jobs>>

\* Seeded fault: the file of the current version is removed.
CleanupCurrent(u) ==
    /\ upload[u].step = "cleanup"
    /\ files' = [files EXCEPT ![IF doc # Null THEN doc.key ELSE upload[u].key] = Null]
    /\ GoTo(u, "failed")
    /\ UNCHANGED <<rows, preview, jobs, faults>>

\* and then the file is removed.
Cleanup(u) ==
    /\ upload[u].step = "cleanup"
    /\ files' = [files EXCEPT ![upload[u].key] = Null]
    /\ GoTo(u, "failed")
    /\ UNCHANGED <<rows, preview, jobs, faults>>

\* uploadNewVersion removes the preview of the row it read at its start.
DropPreview(u) ==
    /\ upload[u].step = "dropPreview"
    /\ preview' = Null
    /\ GoTo(u, "dispatch")
    /\ UNCHANGED <<rows, files, jobs, faults>>

\* Seeded fault: a document that is being read is not queued again.
DispatchOnce(u) ==
    /\ upload[u].step = "dispatch"
    /\ tasks' = [extraction |-> tasks.extraction
                                + (IF extractor.step = "idle" THEN 1 ELSE 0),
                 preview    |-> tasks.preview
                                + (IF upload[u].mime = "DOCX" /\ converter.step = "idle"
                                   THEN 1 ELSE 0)]
    /\ GoTo(u, "done")
    /\ UNCHANGED <<rows, storage, extractor, converter, faults>>

\* dispatchExtraction and dispatchDocxPreview: both queues are filled in one
\* turn of the event loop.
Dispatch(u) ==
    /\ upload[u].step = "dispatch"
    /\ tasks' = [extraction |-> tasks.extraction + 1,
                 preview    |-> tasks.preview + (IF upload[u].mime = "DOCX" THEN 1 ELSE 0)]
    /\ GoTo(u, "done")
    /\ UNCHANGED <<rows, storage, extractor, converter, faults>>

SoftDeleteDocument ==
    /\ doc # Null
    /\ ~doc.deleted
    /\ doc' = [doc EXCEPT !.deleted = TRUE]
    /\ UNCHANGED <<versions, storage, upload, jobs, faults>>

-----------------------------------------------------------------------------
(***************************************************************************)
(* runExtraction.  It works on the row as it was when the task started.    *)
(***************************************************************************)

ExtractStart ==
    /\ extractor.step = "idle"
    /\ tasks.extraction > 0
    /\ tasks' = [tasks EXCEPT !.extraction = @ - 1]
    /\ extractor' = IF doc.deleted THEN extractor
                    ELSE [step |-> "mark", key |-> doc.key, text |-> Null]
    /\ UNCHANGED <<rows, storage, upload, converter, faults>>

ExtractMark ==
    /\ extractor.step = "mark"
    /\ doc' = [doc EXCEPT !.extraction = "PROCESSING"]
    /\ extractor' = [extractor EXCEPT !.step = "read"]
    /\ UNCHANGED <<versions, storage, upload, tasks, converter, faults>>

\* The file is read and its text recognised, or one of the two fails.
ExtractRead ==
    /\ extractor.step = "read"
    /\ \E text \in {files[extractor.key], Null} :
            extractor' = [extractor EXCEPT !.step = "store", !.text = text]
    /\ UNCHANGED <<rows, storage, upload, tasks, converter, faults>>

\* Seeded fault: an extraction that failed leaves the row as it is.
ExtractStoreSuccess ==
    /\ extractor.step = "store"
    /\ doc' = IF extractor.text # Null
                THEN [doc EXCEPT !.extraction = "INDEXED", !.text = extractor.text]
                ELSE doc
    /\ extractor' = Extracting
    /\ UNCHANGED <<versions, storage, upload, tasks, converter, faults>>

\* The result goes to the row, whatever version the row is of by now.
ExtractStore ==
    /\ extractor.step = "store"
    /\ doc' = IF extractor.text # Null
                THEN [doc EXCEPT !.extraction = "INDEXED", !.text = extractor.text]
                ELSE [doc EXCEPT !.extraction = "FAILED"]
    /\ extractor' = Extracting
    /\ UNCHANGED <<versions, storage, upload, tasks, converter, faults>>

\* A database error outside the handler's try, or in its catch, ends the task
\* and leaves the row as it is.
ExtractDropped ==
    /\ extractor.step \in {"mark", "store"}
    /\ Fault
    /\ extractor' = Extracting
    /\ UNCHANGED <<rows, storage, upload, tasks, converter>>

-----------------------------------------------------------------------------
(***************************************************************************)
(* runDocxPreview.                                                         *)
(***************************************************************************)

ConvertStart ==
    /\ converter.step = "idle"
    /\ tasks.preview > 0
    /\ tasks' = [tasks EXCEPT !.preview = @ - 1]
    /\ converter' = IF doc.deleted \/ doc.mime # "DOCX" THEN converter
                    ELSE [step |-> "mark", key |-> doc.key, pdf |-> Null]
    /\ UNCHANGED <<rows, storage, upload, extractor, faults>>

ConvertMark ==
    /\ converter.step = "mark"
    /\ doc' = [doc EXCEPT !.previewStatus = "PROCESSING"]
    /\ converter' = [converter EXCEPT !.step = "convert"]
    /\ UNCHANGED <<versions, storage, upload, tasks, extractor, faults>>

\* The conversion of what is under the key works, or something fails.
Convert ==
    /\ converter.step = "convert"
    /\ \E pdf \in {files[converter.key], Null} :
            converter' = [converter EXCEPT !.step = IF pdf # Null THEN "put" ELSE "fail",
                                           !.pdf = pdf]
    /\ UNCHANGED <<rows, storage, upload, tasks, extractor, faults>>

ConvertPut ==
    /\ converter.step = "put"
    /\ preview' = converter.pdf
    /\ converter' = [converter EXCEPT !.step = "ready"]
    /\ UNCHANGED <<rows, files, upload, tasks, extractor, faults>>

ConvertReady ==
    /\ converter.step = "ready"
    /\ doc' = [doc EXCEPT !.hasPreview = TRUE, !.previewStatus = "READY"]
    /\ converter' = Converting
    /\ UNCHANGED <<versions, storage, upload, tasks, extractor, faults>>

ConvertFailed ==
    /\ converter.step = "fail"
    /\ doc' = [doc EXCEPT !.previewStatus = "FAILED"]
    /\ converter' = Converting
    /\ UNCHANGED <<versions, storage, upload, tasks, extractor, faults>>

\* A database error, or no temporary directory, outside the handler's try.
ConvertDropped ==
    /\ converter.step \in {"mark", "convert", "fail"}
    /\ Fault
    /\ converter' = Converting
    /\ UNCHANGED <<rows, storage, upload, tasks, extractor>>

-----------------------------------------------------------------------------

\* The process ends and is started again: requests, queues and running tasks
\* are gone, a file that was being written may be truncated, and nothing looks
\* for the work they leave.
Crash ==
    /\ Fault
    /\ \E torn \in SUBSET {u \in Uploads : upload[u].step = "put"} :
            files' = [k \in Keys |-> IF \E u \in torn : upload[u].key = k THEN Partial
                                     ELSE files[k]]
    /\ upload' = [u \in Uploads |-> IF InFlight(u) THEN [upload[u] EXCEPT !.step = "failed"]
                                    ELSE upload[u]]
    /\ tasks' = NoTasks
    /\ extractor' = Extracting
    /\ converter' = Converting
    /\ UNCHANGED <<rows, preview>>

Extract == ExtractStart \/ ExtractMark \/ ExtractRead \/ ExtractStore
Preview == ConvertStart \/ ConvertMark \/ Convert \/ ConvertPut \/ ConvertReady \/ ConvertFailed
Finish(u) == Commit(u) \/ Cleanup(u) \/ DropPreview(u) \/ Dispatch(u)

Next ==
    \/ \E u \in Uploads :
        \/ \E name \in Names, mime \in Mimes : CreateDocument(u, name, mime)
        \/ \E name \in Names, mime \in Mimes : UploadNewVersion(u, name, mime)
        \/ Put(u)
        \/ Finish(u)
        \/ PutFails(u)
        \/ CommitFails(u)
    \/ SoftDeleteDocument
    \/ Extract
    \/ ExtractDropped
    \/ Preview
    \/ ConvertDropped
    \/ Crash

Spec == Init /\ [][Next]_vars

(***************************************************************************)
(* A request that has its file and a queue that is not empty make progress *)
(* while the process lives.  Nobody has to upload anything, and a client   *)
(* may stop sending in the middle of a file.                               *)
(***************************************************************************)
Fairness == WF_vars(Extract) /\ WF_vars(Preview) /\ \A u \in Uploads : WF_vars(Finish(u))

FairSpec == Spec /\ Fairness

-----------------------------------------------------------------------------
(***************************************************************************)
(* Properties.                                                             *)
(***************************************************************************)

\* Two uploads read the same number and carry the same file name.
Contested(k) ==
    \E u, v \in Uploads : u # v /\ upload[u].key = k /\ upload[v].key = k

\* The file of a version stays what was uploaded, whatever other uploads,
\* failures and crashes happen, unless two uploads took the same key (the order
\* of put, transaction and clean-up in createDocument and uploadNewVersion).
VersionsAreStored ==
    \A v \in versions : ~Contested(v.key) => files[v.key] = v.by

Quiet ==
    /\ \A u \in Uploads : ~InFlight(u)
    /\ tasks = NoTasks
    /\ extractor.step = "idle" /\ converter.step = "idle"

\* When nothing is going on and nothing failed, a document's text is that of its
\* current file, or its extraction is known to have failed, however uploads and
\* extractions overlapped (dispatch after commit, one extraction at a time).
SettledTextIsCurrent ==
    (Quiet /\ faults = 0 /\ doc # Null /\ ~doc.deleted) =>
        /\ doc.extraction \in {"INDEXED", "FAILED"}
        /\ doc.extraction = "INDEXED" => doc.text = files[doc.key]

\* The same for the preview of a document whose versions all have one, though
\* the versions share a preview key and an upload removes what is under it late
\* (the removal in uploadNewVersion comes before its own dispatch).
SettledPreviewIsCurrent ==
    (Quiet /\ faults = 0 /\ doc # Null /\ ~doc.deleted
           /\ \A u \in Uploads : upload[u].mime \in {"DOCX", Null}) =>
        /\ doc.previewStatus \in {"READY", "FAILED"}
        /\ doc.previewStatus = "READY" => doc.hasPreview /\ preview = files[doc.key]

\* An extraction that is due comes to an end, one way or the other (the drain
\* loop of the queue, the catch of runExtraction).
ExtractionEnds ==
    (doc # Null /\ doc.extraction \in {"PENDING", "PROCESSING"})
        ~> (doc # Null /\ (doc.deleted \/ doc.extraction \in {"INDEXED", "FAILED"}))

=============================================================================
