---------------------------- MODULE DocumentProofs ----------------------------
(***************************************************************************)
(* Proofs about DocumentPipeline, for any number of uploads, any names and *)
(* types, and any number of faults: type correctness, VersionsAreStored,   *)
(* SettledTextIsCurrent and SettledPreviewIsCurrent.                       *)
(***************************************************************************)
EXTENDS DocumentPipeline, FiniteSetTheorems, TLAPS

(***************************************************************************)
(* The invariants.                                                         *)
(***************************************************************************)

Started == {u \in Uploads : upload[u].step # "ready"}

\* An upload that was made has its key and type, one that was not has neither.
UploadsHaveKeys ==
    \A u \in Uploads :
        /\ u \in Started => upload[u].key \in Keys /\ upload[u].mime \in Mimes
        /\ u \notin Started => upload[u].key = Null /\ upload[u].mime = Null

\* Work is queued and done on rows that are there, under a key.
JobsHaveRows ==
    /\ \A u \in Uploads : upload[u].step \in {"dropPreview", "dispatch", "done"} => doc # Null
    /\ tasks.extraction > 0 \/ tasks.preview > 0 => doc # Null
    /\ extractor.step # "idle" => doc # Null /\ extractor.key \in Keys
    /\ converter.step # "idle" => doc # Null /\ converter.key \in Keys

TypeInv == TypeOK /\ UploadsHaveKeys /\ JobsHaveRows

\* The rows are numbered from one without a gap, and the number an upload took
\* is one of theirs or the next.
NumberedTo(m) ==
    /\ {v.number : v \in versions} = 1 .. m
    /\ m <= Cardinality(Started)
    /\ doc = Null <=> m = 0
    /\ \A u \in Started : /\ upload[u].key.number <= m + 1
                          /\ upload[u].key.number <= Cardinality(Started)

NumbersInv == \E m \in Nat : NumberedTo(m)

\* A version carries the key of its upload, which is past its transaction; the
\* file is there from the end of the write.
Kept(v) ==
    /\ upload[v.by].key = v.key
    /\ upload[v.by].step \in {"dropPreview", "dispatch", "done", "failed"}
    /\ Contested(v.key) \/ files[v.key] = v.by

Written(u) ==
    \A k \in Keys :
        upload[u].step = "commit" /\ upload[u].key = k => Contested(k) \/ files[k] = u

StoredInv == (\A v \in versions : Kept(v)) /\ (\A u \in Uploads : Written(u))

\* Uploads fail by faults only.
FailedByFault == \A u \in Uploads : upload[u].step \in {"cleanup", "failed"} => faults > 0

Busy    == \E u \in Uploads : InFlight(u)
Live    == faults = 0 /\ doc # Null /\ ~doc.deleted
AllDocx == \A u \in Uploads : upload[u].mime \in {"DOCX", Null}

\* An extraction of the current file is to come, or under way, or was the last.
ExtractsCurrent ==
    /\ extractor.step # "idle"
    /\ extractor.key = doc.key
    /\ extractor.step = "store" => extractor.text \in {files[doc.key], Null}

TextIsCurrent ==
    /\ extractor.step = "idle"
    /\ doc.extraction \in {"INDEXED", "FAILED"}
    /\ doc.extraction = "INDEXED" => doc.text = files[doc.key]

TextInv == Live => Busy \/ tasks.extraction > 0 \/ ExtractsCurrent \/ TextIsCurrent

\* The same for conversions.
ConvertsCurrent ==
    /\ converter.step # "idle"
    /\ converter.key = doc.key
    /\ converter.step = "put" => converter.pdf = files[doc.key]
    /\ converter.step = "ready" => preview = files[doc.key]

PreviewIsCurrent ==
    /\ converter.step = "idle"
    /\ doc.previewStatus \in {"READY", "FAILED"}
    /\ doc.previewStatus = "READY" => doc.hasPreview /\ preview = files[doc.key]

TypeOfAnUpload == doc # Null => \E u \in Uploads : doc.mime = upload[u].mime

PreviewInv ==
    Live /\ AllDocx => Busy \/ tasks.preview > 0 \/ ConvertsCurrent \/ PreviewIsCurrent

Inv == /\ TypeInv /\ NumbersInv /\ StoredInv /\ FailedByFault
       /\ TextInv /\ TypeOfAnUpload /\ PreviewInv

-----------------------------------------------------------------------------
LEMMA TypeInitially == Init => TypeInv
<1> SUFFICES ASSUME Init PROVE TypeInv
  OBVIOUS
<1>1. TypeOK
  BY DEF Init, TypeOK, NoUpload, NoTasks, Extracting, Converting, UploadSteps,
         ExtractorSteps, ConverterSteps, Content
<1>2. UploadsHaveKeys /\ JobsHaveRows
  BY DEF Init, UploadsHaveKeys, JobsHaveRows, Started, NoUpload, NoTasks, Extracting,
         Converting
<1> QED BY <1>1, <1>2 DEF TypeInv

\* The maximum of an interval from one.
LEMMA MaxOfInterval ==
    ASSUME NEW m \in Nat \ {0}
    PROVE  Max(1 .. m) = m
<1>1. m \in 1 .. m /\ \A y \in 1 .. m : m >= y
  OBVIOUS
<1>2. \A x \in 1 .. m : (\A y \in 1 .. m : x >= y) => x = m
  OBVIOUS
<1>3. PICK x \in 1 .. m : x = Max(1 .. m) /\ \A y \in 1 .. m : x >= y
  BY <1>1 DEF Max
<1> QED BY <1>2, <1>3

\* An upload that starts is one more, and there is room for its number.
LEMMA OneMoreStarted ==
    ASSUME NEW u \in Uploads, NEW S \in SUBSET Uploads, u \notin S
    PROVE  /\ Cardinality(S) \in Nat
           /\ Cardinality(S \cup {u}) = Cardinality(S) + 1
           /\ Cardinality(S) + 1 \in Nat
           /\ Cardinality(S) + 1 <= Cardinality(Uploads)
           /\ Cardinality(Uploads) \in Nat
<1>1. IsFiniteSet(Uploads) /\ IsFiniteSet(S)
  BY DocumentAssumption, FS_Subset
<1>2. Cardinality(S \cup {u}) = Cardinality(S) + 1
  BY <1>1, FS_AddElement
<1>3. IsFiniteSet(S \cup {u}) /\ S \cup {u} \subseteq Uploads
  BY <1>1, FS_AddElement
<1>4. Cardinality(S \cup {u}) <= Cardinality(Uploads)
  BY <1>1, <1>3, FS_Subset
<1>5. Cardinality(S) \in Nat /\ Cardinality(Uploads) \in Nat
  BY <1>1, FS_CardinalityType
<1> QED BY <1>2, <1>4, <1>5

\* The number uploadNewVersion takes is the one after the rows'.
LEMMA NextNumber ==
    ASSUME NEW m \in Nat, NumberedTo(m), doc # Null
    PROVE  Max({v.number : v \in versions}) + 1 = m + 1
<1>1. m \in Nat \ {0}
  BY DEF NumberedTo
<1> QED BY <1>1, MaxOfInterval DEF NumberedTo

-----------------------------------------------------------------------------
(***************************************************************************)
(* Type correctness, together with the numbers of the versions.            *)
(***************************************************************************)

\* What an upload that starts changes.
Starts(u, number, name, mime, hadPreview) ==
    upload' = [upload EXCEPT ![u] = [step |-> "put", key |-> [number |-> number, name |-> name],
                                     mime |-> mime, hadPreview |-> hadPreview]]

LEMMA StartedGrows ==
    ASSUME TypeInv, NEW u \in Uploads, NEW number, NEW name, NEW mime, NEW hadPreview,
           upload[u].step = "ready", Starts(u, number, name, mime, hadPreview)
    PROVE  Started' = Started \cup {u} /\ u \notin Started
BY DEF Started, Starts, TypeInv, TypeOK

LEMMA StartType ==
    ASSUME TypeInv, NEW u \in Uploads, NEW name \in Names, NEW mime \in Mimes,
           NEW number \in Numbers, NEW hadPreview \in BOOLEAN,
           upload[u].step = "ready", Starts(u, number, name, mime, hadPreview),
           UNCHANGED <<rows, storage, jobs, faults>>
    PROVE  TypeInv'
<1> DEFINE new == [step |-> "put", key |-> [number |-> number, name |-> name],
                   mime |-> mime, hadPreview |-> hadPreview]
<1>1. new \in [step : UploadSteps, key : Keys \cup {Null}, mime : Mimes \cup {Null},
               hadPreview : BOOLEAN] /\ new.key \in Keys
  BY DEF UploadSteps, Keys
<1>2. upload' = [upload EXCEPT ![u] = new]
  BY DEF Starts
<1>3. new.step = "put" /\ new.mime \in Mimes
  OBVIOUS
<1> HIDE DEF new
<1>4. TypeOK'
  BY <1>1, <1>2 DEF TypeInv, TypeOK, rows, storage, jobs
<1>5. UploadsHaveKeys'
  BY <1>1, <1>2, <1>3 DEF TypeInv, TypeOK, UploadsHaveKeys, Started
<1>6. JobsHaveRows'
  BY <1>2, <1>3 DEF TypeInv, TypeOK, JobsHaveRows, rows, storage, jobs
<1> QED BY <1>4, <1>5, <1>6 DEF TypeInv

LEMMA StartNumbers ==
    ASSUME TypeInv, NEW m \in Nat, NumberedTo(m), NEW u \in Uploads,
           NEW name, NEW mime, NEW hadPreview,
           upload[u].step = "ready", Starts(u, m + 1, name, mime, hadPreview),
           UNCHANGED rows
    PROVE  m + 1 \in Numbers /\ NumberedTo(m)'
<1>1. Started' = Started \cup {u} /\ u \notin Started
  BY StartedGrows
<1>2. /\ Cardinality(Started) \in Nat
      /\ Cardinality(Started') = Cardinality(Started) + 1
      /\ Cardinality(Started) + 1 <= Cardinality(Uploads)
      /\ Cardinality(Uploads) \in Nat
  BY <1>1, OneMoreStarted DEF Started
<1>3. m <= Cardinality(Started)
  BY DEF NumberedTo
<1>4. m + 1 \in Numbers
  BY <1>2, <1>3 DEF Numbers
<1>5. upload'[u].key.number = m + 1
  BY DEF Starts, TypeInv, TypeOK
<1>6. ASSUME NEW w \in Started
      PROVE  /\ upload'[w] = upload[w] /\ upload[w].key.number \in Int
             /\ upload[w].key.number <= m + 1
             /\ upload[w].key.number <= Cardinality(Started)
  <2>1. w \in Uploads /\ w # u /\ upload[w].key \in Keys
    BY <1>1, <1>6 DEF TypeInv, UploadsHaveKeys, Started
  <2>2. upload[w].key.number \in Int
    BY <2>1 DEF Keys, Numbers
  <2> QED BY <1>6, <2>1, <2>2 DEF Starts, TypeInv, TypeOK, NumberedTo
<1>7. \A w \in Started' : /\ upload'[w].key.number <= m + 1
                          /\ upload'[w].key.number <= Cardinality(Started')
  BY <1>1, <1>2, <1>3, <1>5, <1>6
<1> QED BY <1>2, <1>3, <1>4, <1>7 DEF NumberedTo, rows

LEMMA CreateDocumentKeeps ==
    ASSUME TypeInv, NEW m \in Nat, NumberedTo(m), NEW u \in Uploads, NEW name \in Names,
           NEW mime \in Mimes, CreateDocument(u, name, mime)
    PROVE  TypeInv' /\ NumberedTo(m)'
<1>1. m = 0 /\ m + 1 = 1
  BY DEF CreateDocument, NumberedTo
<1>2. /\ upload[u].step = "ready"
      /\ Starts(u, m + 1, name, mime, FALSE)
      /\ UNCHANGED <<rows, storage, jobs, faults>>
  BY <1>1 DEF CreateDocument, Starts
<1>3. m + 1 \in Numbers /\ NumberedTo(m)'
  BY <1>2, StartNumbers
<1> QED BY <1>2, <1>3, StartType

LEMMA UploadNewVersionKeeps ==
    ASSUME TypeInv, NEW m \in Nat, NumberedTo(m), NEW u \in Uploads, NEW name \in Names,
           NEW mime \in Mimes, UploadNewVersion(u, name, mime)
    PROVE  TypeInv' /\ NumberedTo(m)'
<1>1. Max({v.number : v \in versions}) + 1 = m + 1
  BY NextNumber DEF UploadNewVersion
<1>2. /\ upload[u].step = "ready"
      /\ Starts(u, m + 1, name, mime, doc.hasPreview)
      /\ UNCHANGED <<rows, storage, jobs, faults>>
  BY <1>1 DEF UploadNewVersion, Starts
<1>3. m + 1 \in Numbers /\ NumberedTo(m)'
  BY <1>2, StartNumbers
<1>4. doc.hasPreview \in BOOLEAN
  BY DEF UploadNewVersion, TypeInv, TypeOK, Document
<1> QED BY <1>2, <1>3, <1>4, StartType

\* A step of an upload under way changes its step only.
LEMMA StepOnly ==
    ASSUME TypeInv, NEW u \in Uploads, NEW step \in UploadSteps,
           upload[u].step # "ready", step # "ready", GoTo(u, step)
    PROVE  /\ upload'[u].step = step
           /\ \A w \in Uploads \ {u} : upload'[w] = upload[w]
           /\ \A w \in Uploads : /\ upload'[w].key = upload[w].key
                                 /\ upload'[w].mime = upload[w].mime
           /\ Started' = Started
           /\ upload' \in [Uploads -> [step : UploadSteps, key : Keys \cup {Null},
                                       mime : Mimes \cup {Null}, hadPreview : BOOLEAN]]
           /\ upload[u].key \in Keys /\ upload[u].mime \in Mimes
<1>1. /\ upload'[u] = [upload[u] EXCEPT !.step = step]
      /\ \A w \in Uploads \ {u} : upload'[w] = upload[w]
      /\ upload' \in [Uploads -> [step : UploadSteps, key : Keys \cup {Null},
                                  mime : Mimes \cup {Null}, hadPreview : BOOLEAN]]
  BY DEF GoTo, TypeInv, TypeOK
<1>2. /\ upload'[u].step = step /\ upload'[u].key = upload[u].key
      /\ upload'[u].mime = upload[u].mime
  BY <1>1 DEF TypeInv, TypeOK
<1>3. Started' = Started
  BY <1>1, <1>2 DEF Started
<1> QED BY <1>1, <1>2, <1>3 DEF TypeInv, UploadsHaveKeys, Started

\* What the steps of an upload, a fault and the workers have in common.
LEMMA StepKeepsUploads ==
    ASSUME TypeInv, NEW u \in Uploads, NEW step \in UploadSteps,
           upload[u].step # "ready", step # "ready", GoTo(u, step),
           step \in {"dropPreview", "dispatch", "done"} => doc' # Null,
           doc # Null => doc' # Null,
           tasks'.extraction > 0 \/ tasks'.preview > 0 => doc' # Null,
           UNCHANGED <<extractor, converter>>
    PROVE  UploadsHaveKeys' /\ JobsHaveRows'
<1>1. /\ upload'[u].step = step
      /\ \A w \in Uploads \ {u} : upload'[w] = upload[w]
      /\ \A w \in Uploads : /\ upload'[w].key = upload[w].key
                            /\ upload'[w].mime = upload[w].mime
      /\ Started' = Started
  BY StepOnly
<1>2. UploadsHaveKeys'
  BY <1>1 DEF UploadsHaveKeys, TypeInv
<1>3. JobsHaveRows'
  BY <1>1 DEF JobsHaveRows, TypeInv
<1> QED BY <1>2, <1>3

LEMMA StepKeepsNumbers ==
    ASSUME TypeInv, NEW m \in Nat, NumberedTo(m), NEW u \in Uploads, NEW step \in UploadSteps,
           upload[u].step # "ready", step # "ready", GoTo(u, step),
           versions' = versions, doc = Null <=> doc' = Null
    PROVE  NumberedTo(m)'
BY StepOnly DEF NumberedTo, Started

LEMMA FileWriteType ==
    ASSUME TypeInv, NEW k \in Keys, NEW c \in Content \cup {Null},
           files' = [files EXCEPT ![k] = c]
    PROVE  files' \in [Keys -> Content \cup {Null}]
BY DEF TypeInv, TypeOK

LEMMA PutKeeps ==
    ASSUME TypeInv, NEW m \in Nat, NumberedTo(m), NEW u \in Uploads, Put(u) \/ PutFails(u)
    PROVE  TypeInv' /\ NumberedTo(m)'
<1>1. PICK step \in {"commit", "failed"}, c \in Content :
        /\ upload[u].step = "put" /\ GoTo(u, step)
        /\ files' = [files EXCEPT ![upload[u].key] = c]
        /\ UNCHANGED <<rows, preview, jobs>>
        /\ faults' \in Nat
  BY DEF Put, PutFails, Fault, Content, TypeInv, TypeOK
<1>2. /\ step \in UploadSteps /\ step # "ready" /\ step \notin {"dropPreview", "dispatch", "done"}
      /\ upload[u].step # "ready"
      /\ UNCHANGED <<doc, versions, preview, tasks, extractor, converter>>
  BY <1>1 DEF UploadSteps, rows, jobs
<1>3. /\ upload[u].key \in Keys
      /\ upload' \in [Uploads -> [step : UploadSteps, key : Keys \cup {Null},
                                  mime : Mimes \cup {Null}, hadPreview : BOOLEAN]]
  BY <1>1, <1>2, StepOnly
<1>4. files' \in [Keys -> Content \cup {Null}]
  BY <1>1, <1>3, FileWriteType
<1>5. TypeOK'
  BY <1>1, <1>2, <1>3, <1>4 DEF TypeInv, TypeOK
<1>6. UploadsHaveKeys' /\ JobsHaveRows'
  <2>1. tasks'.extraction > 0 \/ tasks'.preview > 0 => doc' # Null
    BY <1>2 DEF TypeInv, JobsHaveRows
  <2> QED BY <1>1, <1>2, <2>1, StepKeepsUploads
<1>7. NumberedTo(m)'
  BY <1>1, <1>2, StepKeepsNumbers
<1> QED BY <1>5, <1>6, <1>7 DEF TypeInv

LEMMA CleanupKeeps ==
    ASSUME TypeInv, NEW m \in Nat, NumberedTo(m), NEW u \in Uploads,
           CommitFails(u) \/ Cleanup(u) \/ DropPreview(u)
    PROVE  TypeInv' /\ NumberedTo(m)'
<1>1. PICK step \in {"cleanup", "failed", "dispatch"} :
        /\ upload[u].step \in {"commit", "cleanup", "dropPreview"} /\ GoTo(u, step)
        /\ step = "dispatch" => doc # Null
        /\ files' = files \/ files' = [files EXCEPT ![upload[u].key] = Null]
        /\ preview' \in {preview, Null}
        /\ UNCHANGED <<rows, jobs>>
        /\ faults' \in Nat
  BY DEF CommitFails, Cleanup, DropPreview, Fault, Content, TypeInv, TypeOK, JobsHaveRows,
         storage
<1>2. /\ step \in UploadSteps /\ step # "ready" /\ step \notin {"dropPreview", "done"}
      /\ upload[u].step # "ready"
      /\ UNCHANGED <<doc, versions, tasks, extractor, converter>>
  BY <1>1 DEF UploadSteps, rows, jobs
<1>3. /\ upload[u].key \in Keys
      /\ upload' \in [Uploads -> [step : UploadSteps, key : Keys \cup {Null},
                                  mime : Mimes \cup {Null}, hadPreview : BOOLEAN]]
  BY <1>1, <1>2, StepOnly
<1>4. files' \in [Keys -> Content \cup {Null}]
  BY <1>1, <1>3, FileWriteType DEF TypeInv, TypeOK
<1>5. TypeOK'
  BY <1>1, <1>2, <1>3, <1>4 DEF TypeInv, TypeOK
<1>6. UploadsHaveKeys' /\ JobsHaveRows'
  <2>1. tasks'.extraction > 0 \/ tasks'.preview > 0 => doc' # Null
    BY <1>2 DEF TypeInv, JobsHaveRows
  <2> QED BY <1>1, <1>2, <2>1, StepKeepsUploads
<1>7. NumberedTo(m)'
  BY <1>1, <1>2, StepKeepsNumbers
<1> QED BY <1>5, <1>6, <1>7 DEF TypeInv

LEMMA DispatchKeeps ==
    ASSUME TypeInv, NEW m \in Nat, NumberedTo(m), NEW u \in Uploads, Dispatch(u)
    PROVE  TypeInv' /\ NumberedTo(m)'
<1>1. /\ upload[u].step = "dispatch" /\ GoTo(u, "done") /\ upload[u].step # "ready"
      /\ doc # Null
      /\ tasks' = [extraction |-> tasks.extraction + 1,
                   preview    |-> tasks.preview + (IF upload[u].mime = "DOCX" THEN 1 ELSE 0)]
      /\ UNCHANGED <<doc, versions, files, preview, extractor, converter, faults>>
  BY DEF Dispatch, TypeInv, JobsHaveRows, rows, storage
<1>2. tasks' \in [extraction : Nat, preview : Nat]
  BY <1>1 DEF TypeInv, TypeOK
<1>3. "done" \in UploadSteps
  BY DEF UploadSteps
<1>4. TypeOK'
  BY <1>1, <1>2, <1>3, StepOnly DEF TypeInv, TypeOK
<1>5. UploadsHaveKeys' /\ JobsHaveRows'
  BY <1>1, <1>3, StepKeepsUploads
<1>6. NumberedTo(m)'
  BY <1>1, <1>3, StepKeepsNumbers
<1> QED BY <1>4, <1>5, <1>6 DEF TypeInv

\* The row a transaction writes.
LEMMA UploadedType ==
    ASSUME TypeInv, NEW u \in Uploads, upload[u].step # "ready"
    PROVE  /\ Uploaded(u) \in Document /\ Uploaded(u) # Null
           /\ Uploaded(u).key = upload[u].key /\ Uploaded(u).mime = upload[u].mime
           /\ Uploaded(u).deleted = (doc # Null /\ doc.deleted)
           /\ NewVersion(u) = [number |-> upload[u].key.number, key |-> upload[u].key, by |-> u]
           /\ NewVersion(u) \in [number : Numbers, key : Keys, by : Uploads]
<1>1. upload[u].key \in Keys /\ upload[u].mime \in Mimes /\ upload[u].key.number \in Numbers
  BY DEF TypeInv, UploadsHaveKeys, Started, Keys
<1>2. (doc # Null /\ doc.deleted) \in BOOLEAN
  OBVIOUS
<1>3. Uploaded(u) \in Document
  BY <1>1, <1>2 DEF Uploaded, Document, ExtractionStatus, PreviewStatus
<1>4. Uploaded(u) # Null
  BY <1>3, NullIsNoRow
<1>5. NewVersion(u) \in [number : Numbers, key : Keys, by : Uploads]
  BY <1>1 DEF NewVersion
<1> QED BY <1>3, <1>4, <1>5 DEF Uploaded, NewVersion

LEMMA CommitKeeps ==
    ASSUME TypeInv, NEW m \in Nat, NumberedTo(m), NEW u \in Uploads, Commit(u)
    PROVE  TypeInv' /\ NumbersInv'
<1>1. PICK step \in {"dropPreview", "dispatch"} :
        /\ upload[u].step = "commit" /\ GoTo(u, step)
        /\ doc' = Uploaded(u)
        /\ versions' = versions \cup {NewVersion(u)}
        /\ UNCHANGED <<files, preview, tasks, extractor, converter, faults>>
  BY DEF Commit, storage, jobs
<1>2. step \in UploadSteps /\ step # "ready" /\ upload[u].step # "ready"
  BY <1>1 DEF UploadSteps
<1>3. /\ doc' \in Document /\ doc' # Null
      /\ NewVersion(u) \in [number : Numbers, key : Keys, by : Uploads]
      /\ NewVersion(u).number = upload[u].key.number
  BY <1>1, <1>2, UploadedType
<1>4. TypeOK'
  BY <1>1, <1>2, <1>3, StepOnly DEF TypeInv, TypeOK
<1>5. UploadsHaveKeys' /\ JobsHaveRows'
  BY <1>1, <1>2, <1>3, StepKeepsUploads
<1>6. /\ u \in Started /\ Started' = Started
      /\ \A w \in Uploads : upload'[w].key = upload[w].key
  BY <1>1, <1>2, StepOnly DEF Started
<1>7. {v.number : v \in versions'} = {v.number : v \in versions} \cup {upload[u].key.number}
  BY <1>1, <1>3
<1>8. Cardinality(Started) \in Nat
  BY DocumentAssumption, FS_Subset, FS_CardinalityType DEF Started
<1>9. /\ upload[u].key.number \in Nat \ {0} /\ upload[u].key.number <= m + 1
      /\ upload[u].key.number <= Cardinality(Started)
  <2>1. upload[u].key \in Keys
    BY <1>1, <1>2, StepOnly
  <2>2. upload[u].key.number \in Nat \ {0}
    BY <2>1 DEF Keys, Numbers
  <2> QED BY <1>6, <2>2 DEF NumberedTo
<1>10. \A w \in Started : upload[w].key.number \in Nat
  BY DEF TypeInv, UploadsHaveKeys, Started, Keys, Numbers
<1>11. NumbersInv'
  <2>1. CASE upload[u].key.number <= m
    <3>1. 1 .. m = 1 .. m \cup {upload[u].key.number} /\ m # 0
      BY <1>9, <2>1
    <3>2. NumberedTo(m)'
      BY <1>3, <1>6, <1>7, <3>1 DEF NumberedTo, Started
    <3> QED BY <3>2 DEF NumbersInv
  <2>2. CASE upload[u].key.number = m + 1
    <3>1. 1 .. m + 1 = 1 .. m \cup {upload[u].key.number} /\ m + 1 # 0 /\ m + 1 \in Nat
      BY <2>2
    <3>2. \A w \in Started : upload'[w].key.number <= (m + 1) + 1
      <4> SUFFICES ASSUME NEW w \in Started
                   PROVE  upload'[w].key.number <= (m + 1) + 1
        OBVIOUS
      <4>1. upload[w].key.number <= m + 1 /\ upload[w].key.number \in Nat
        BY <1>10 DEF NumberedTo
      <4>2. upload'[w].key = upload[w].key
        BY <1>6 DEF Started
      <4> QED BY <4>1, <4>2
    <3>3. \A w \in Started' : upload'[w].key.number <= Cardinality(Started')
      BY <1>6 DEF NumberedTo, Started
    <3>4. {v.number : v \in versions'} = 1 .. m + 1
      BY <1>7, <3>1 DEF NumberedTo
    <3>5. m + 1 <= Cardinality(Started')
      BY <1>6, <1>9, <2>2
    <3>6. doc' = Null <=> m + 1 = 0
      BY <1>3, <3>1
    <3>7. NumberedTo(m + 1)'
      BY <1>6, <3>2, <3>3, <3>4, <3>5, <3>6 DEF NumberedTo
    <3> QED BY <3>1, <3>7 DEF NumbersInv
  <2> QED BY <1>9, <2>1, <2>2
<1> QED BY <1>4, <1>5, <1>11 DEF TypeInv

LEMMA RowType ==
    ASSUME TypeInv, doc # Null
    PROVE  /\ doc \in Document
           /\ doc.key \in Keys /\ doc.mime \in Mimes
           /\ \A d \in Document : d # Null
BY NullIsNoRow DEF TypeInv, TypeOK, Document

\* A deletion and every step of a worker leave the uploads, the versions and
\* the files alone, and the row where it is.
LEMMA WorkerKeeps ==
    ASSUME TypeInv, NEW m \in Nat, NumberedTo(m),
           \/ doc' = doc
           \/ doc' \in Document /\ doc # Null,
           UNCHANGED <<versions, files, upload>>,
           preview' \in Content \cup {Null},
           tasks' \in [extraction : Nat, preview : Nat],
           tasks'.extraction <= tasks.extraction, tasks'.preview <= tasks.preview,
           extractor' \in [step : ExtractorSteps, key : Keys \cup {Null},
                           text : Content \cup {Null}],
           converter' \in [step : ConverterSteps, key : Keys \cup {Null},
                           pdf : Content \cup {Null}],
           extractor'.step # "idle" => doc # Null /\ extractor'.key \in Keys,
           converter'.step # "idle" => doc # Null /\ converter'.key \in Keys,
           faults' \in Nat
    PROVE  TypeInv' /\ NumberedTo(m)'
<1>1. doc = Null <=> doc' = Null
  BY NullIsNoRow
<1>2. TypeOK'
  BY DEF TypeInv, TypeOK
<1>3. Started' = Started
  BY DEF Started
<1>4. UploadsHaveKeys'
  BY <1>3 DEF TypeInv, UploadsHaveKeys
<1>5. JobsHaveRows'
  BY <1>1 DEF TypeInv, TypeOK, JobsHaveRows
<1>6. NumberedTo(m)'
  BY <1>1, <1>3 DEF NumberedTo, Started
<1> QED BY <1>2, <1>4, <1>5, <1>6 DEF TypeInv

\* The tasks of the two queues, where a step leaves them.
LEMMA TasksType ==
    ASSUME TypeInv
    PROVE  /\ tasks \in [extraction : Nat, preview : Nat]
           /\ tasks.extraction \in Nat /\ tasks.preview \in Nat
           /\ preview \in Content \cup {Null}
           /\ extractor \in [step : ExtractorSteps, key : Keys \cup {Null},
                             text : Content \cup {Null}]
           /\ converter \in [step : ConverterSteps, key : Keys \cup {Null},
                             pdf : Content \cup {Null}]
           /\ Extracting \in [step : ExtractorSteps, key : Keys \cup {Null},
                              text : Content \cup {Null}]
           /\ Converting \in [step : ConverterSteps, key : Keys \cup {Null},
                              pdf : Content \cup {Null}]
           /\ Extracting.step = "idle" /\ Converting.step = "idle"
           /\ faults \in Nat
           /\ extractor.step # "idle" => doc # Null /\ extractor.key \in Keys
           /\ converter.step # "idle" => doc # Null /\ converter.key \in Keys
           /\ \A k \in Keys : files[k] \in Content \cup {Null}
BY DEF TypeInv, TypeOK, JobsHaveRows, Extracting, Converting, ExtractorSteps, ConverterSteps

LEMMA DeleteKeeps ==
    ASSUME TypeInv, NEW m \in Nat, NumberedTo(m), SoftDeleteDocument
    PROVE  TypeInv' /\ NumberedTo(m)'
<1>1. doc' \in Document /\ doc # Null
  BY RowType DEF SoftDeleteDocument, Document
<1>2. UNCHANGED <<versions, files, preview, upload, tasks, extractor, converter, faults>>
  BY DEF SoftDeleteDocument, storage, jobs
<1> QED BY <1>1, <1>2, TasksType, WorkerKeeps

LEMMA ExtractKeeps ==
    ASSUME TypeInv, NEW m \in Nat, NumberedTo(m), Extract \/ ExtractDropped
    PROVE  TypeInv' /\ NumberedTo(m)'
<1>1. CASE ExtractStart
  <2>1. doc # Null /\ doc.key \in Keys
    BY <1>1, RowType DEF ExtractStart, TypeInv, JobsHaveRows
  <2>2. tasks' = [tasks EXCEPT !.extraction = tasks.extraction - 1] /\ tasks.extraction > 0
    BY <1>1 DEF ExtractStart
  <2>3. /\ tasks' \in [extraction : Nat, preview : Nat]
        /\ tasks'.extraction <= tasks.extraction /\ tasks'.preview <= tasks.preview
    BY <2>2, TasksType
  <2>4. \/ extractor' = extractor
        \/ extractor' = [step |-> "mark", key |-> doc.key, text |-> Null]
    BY <1>1 DEF ExtractStart
  <2>5. /\ extractor' \in [step : ExtractorSteps, key : Keys \cup {Null},
                           text : Content \cup {Null}]
        /\ extractor'.step # "idle" => extractor'.key \in Keys
    BY <2>1, <2>4, TasksType DEF ExtractorSteps
  <2>6. UNCHANGED <<doc, versions, files, upload, preview, converter, faults>>
    BY <1>1 DEF ExtractStart, rows, storage
  <2> QED BY <2>1, <2>3, <2>5, <2>6, TasksType, WorkerKeeps
<1>2. CASE ExtractMark
  <2>1. doc # Null /\ extractor.key \in Keys
    BY <1>2, TasksType DEF ExtractMark
  <2>2. doc' \in Document
    BY <1>2, <2>1, RowType DEF ExtractMark, Document, ExtractionStatus
  <2>3. /\ extractor' \in [step : ExtractorSteps, key : Keys \cup {Null},
                           text : Content \cup {Null}]
        /\ extractor'.key = extractor.key
    BY <1>2, TasksType DEF ExtractMark, ExtractorSteps
  <2>4. UNCHANGED <<versions, files, preview, upload, tasks, converter, faults>>
    BY <1>2 DEF ExtractMark, storage
  <2> QED BY <2>1, <2>2, <2>3, <2>4, TasksType, WorkerKeeps
<1>3. CASE ExtractRead
  <2>1. doc # Null /\ extractor.key \in Keys
    BY <1>3, TasksType DEF ExtractRead
  <2>2. PICK text \in Content \cup {Null} :
            extractor' = [extractor EXCEPT !.step = "store", !.text = text]
    BY <1>3, <2>1, TasksType DEF ExtractRead
  <2>3. /\ extractor' \in [step : ExtractorSteps, key : Keys \cup {Null},
                           text : Content \cup {Null}]
        /\ extractor'.key = extractor.key
    BY <2>2, TasksType DEF ExtractorSteps
  <2>4. UNCHANGED <<doc, versions, files, preview, upload, tasks, converter, faults>>
    BY <1>3 DEF ExtractRead, rows, storage
  <2> QED BY <2>1, <2>3, <2>4, TasksType, WorkerKeeps
<1>4. CASE ExtractStore
  <2>1. doc # Null
    BY <1>4, TasksType DEF ExtractStore
  <2>2. extractor.text \in Content \cup {Null}
    BY TasksType
  <2>3. doc' \in Document
    BY <1>4, <2>1, <2>2, RowType DEF ExtractStore, Document, ExtractionStatus
  <2>4. extractor' = Extracting /\ UNCHANGED <<versions, files, preview, upload, tasks,
                                               converter, faults>>
    BY <1>4 DEF ExtractStore, storage
  <2> QED BY <2>1, <2>3, <2>4, TasksType, WorkerKeeps
<1>5. CASE ExtractDropped
  <2>1. /\ extractor' = Extracting /\ faults' = faults + 1
        /\ UNCHANGED <<doc, versions, files, preview, upload, tasks, converter>>
    BY <1>5 DEF ExtractDropped, Fault, rows, storage
  <2>2. faults' \in Nat
    BY <2>1, TasksType
  <2> QED BY <2>1, <2>2, TasksType, WorkerKeeps
<1> QED BY <1>1, <1>2, <1>3, <1>4, <1>5 DEF Extract

LEMMA ConvertKeeps ==
    ASSUME TypeInv, NEW m \in Nat, NumberedTo(m), Preview \/ ConvertDropped
    PROVE  TypeInv' /\ NumberedTo(m)'
<1>1. CASE ConvertStart
  <2>1. doc # Null /\ doc.key \in Keys
    BY <1>1, RowType DEF ConvertStart, TypeInv, JobsHaveRows
  <2>2. tasks' = [tasks EXCEPT !.preview = tasks.preview - 1] /\ tasks.preview > 0
    BY <1>1 DEF ConvertStart
  <2>3. /\ tasks' \in [extraction : Nat, preview : Nat]
        /\ tasks'.extraction <= tasks.extraction /\ tasks'.preview <= tasks.preview
    BY <2>2, TasksType
  <2>4. \/ converter' = converter
        \/ converter' = [step |-> "mark", key |-> doc.key, pdf |-> Null]
    BY <1>1 DEF ConvertStart
  <2>5. /\ converter' \in [step : ConverterSteps, key : Keys \cup {Null},
                           pdf : Content \cup {Null}]
        /\ converter'.step # "idle" => converter'.key \in Keys
    BY <2>1, <2>4, TasksType DEF ConverterSteps
  <2>6. UNCHANGED <<doc, versions, files, upload, preview, extractor, faults>>
    BY <1>1 DEF ConvertStart, rows, storage
  <2> QED BY <2>1, <2>3, <2>5, <2>6, TasksType, WorkerKeeps
<1>2. CASE ConvertMark
  <2>1. doc # Null /\ converter.key \in Keys
    BY <1>2, TasksType DEF ConvertMark
  <2>2. doc' \in Document
    BY <1>2, <2>1, RowType DEF ConvertMark, Document, PreviewStatus
  <2>3. /\ converter' \in [step : ConverterSteps, key : Keys \cup {Null},
                           pdf : Content \cup {Null}]
        /\ converter'.key = converter.key
    BY <1>2, TasksType DEF ConvertMark, ConverterSteps
  <2>4. UNCHANGED <<versions, files, preview, upload, tasks, extractor, faults>>
    BY <1>2 DEF ConvertMark, storage
  <2> QED BY <2>1, <2>2, <2>3, <2>4, TasksType, WorkerKeeps
<1>3. CASE Convert
  <2>1. doc # Null /\ converter.key \in Keys
    BY <1>3, TasksType DEF Convert
  <2>2. PICK pdf \in Content \cup {Null}, step \in {"put", "fail"} :
            converter' = [converter EXCEPT !.step = step, !.pdf = pdf]
    BY <1>3, <2>1, TasksType DEF Convert
  <2>3. /\ converter' \in [step : ConverterSteps, key : Keys \cup {Null},
                           pdf : Content \cup {Null}]
        /\ converter'.key = converter.key
    BY <2>2, TasksType DEF ConverterSteps
  <2>4. UNCHANGED <<doc, versions, files, preview, upload, tasks, extractor, faults>>
    BY <1>3 DEF Convert, rows, storage
  <2> QED BY <2>1, <2>3, <2>4, TasksType, WorkerKeeps
<1>4. CASE ConvertPut
  <2>1. doc # Null /\ converter.key \in Keys
    BY <1>4, TasksType DEF ConvertPut
  <2>2. /\ converter' \in [step : ConverterSteps, key : Keys \cup {Null},
                           pdf : Content \cup {Null}]
        /\ converter'.key = converter.key
    BY <1>4, TasksType DEF ConvertPut, ConverterSteps
  <2>3. preview' \in Content \cup {Null}
    BY <1>4, TasksType DEF ConvertPut
  <2>4. UNCHANGED <<doc, versions, files, upload, tasks, extractor, faults>>
    BY <1>4 DEF ConvertPut, rows
  <2> QED BY <2>1, <2>2, <2>3, <2>4, TasksType, WorkerKeeps
<1>5. CASE ConvertReady \/ ConvertFailed
  <2>1. doc # Null
    BY <1>5, TasksType DEF ConvertReady, ConvertFailed
  <2>2. doc' \in Document
    BY <1>5, <2>1, RowType DEF ConvertReady, ConvertFailed, Document, PreviewStatus
  <2>3. converter' = Converting /\ UNCHANGED <<versions, files, preview, upload, tasks,
                                               extractor, faults>>
    BY <1>5 DEF ConvertReady, ConvertFailed, storage
  <2> QED BY <2>1, <2>2, <2>3, TasksType, WorkerKeeps
<1>6. CASE ConvertDropped
  <2>1. /\ converter' = Converting /\ faults' = faults + 1
        /\ UNCHANGED <<doc, versions, files, preview, upload, tasks, extractor>>
    BY <1>6 DEF ConvertDropped, Fault, rows, storage
  <2>2. faults' \in Nat
    BY <2>1, TasksType
  <2> QED BY <2>1, <2>2, TasksType, WorkerKeeps
<1> QED BY <1>1, <1>2, <1>3, <1>4, <1>5, <1>6 DEF Preview

\* A crash ends the uploads under way and changes nothing else about them.
LEMMA CrashedUploads ==
    ASSUME TypeInv, Crash
    PROVE  /\ \A u \in Uploads :
                /\ upload'[u].key = upload[u].key /\ upload'[u].mime = upload[u].mime
                /\ upload'[u].step = IF InFlight(u) THEN "failed" ELSE upload[u].step
           /\ upload' \in [Uploads -> [step : UploadSteps, key : Keys \cup {Null},
                                       mime : Mimes \cup {Null}, hadPreview : BOOLEAN]]
           /\ Started' = Started
<1>1. ASSUME NEW u \in Uploads
      PROVE  /\ upload'[u].key = upload[u].key /\ upload'[u].mime = upload[u].mime
             /\ upload'[u].step = IF InFlight(u) THEN "failed" ELSE upload[u].step
             /\ upload'[u] \in [step : UploadSteps, key : Keys \cup {Null},
                                mime : Mimes \cup {Null}, hadPreview : BOOLEAN]
  <2>1. upload'[u] = IF InFlight(u) THEN [upload[u] EXCEPT !.step = "failed"] ELSE upload[u]
    BY <1>1 DEF Crash
  <2>2. upload[u] \in [step : UploadSteps, key : Keys \cup {Null},
                       mime : Mimes \cup {Null}, hadPreview : BOOLEAN]
    BY DEF TypeInv, TypeOK
  <2> QED BY <2>1, <2>2 DEF UploadSteps
<1>2. upload' = [u \in Uploads |-> upload'[u]]
  BY DEF Crash
<1>3. upload' \in [Uploads -> [step : UploadSteps, key : Keys \cup {Null},
                               mime : Mimes \cup {Null}, hadPreview : BOOLEAN]]
  BY <1>1, <1>2
<1>4. Started' = Started
  BY <1>1 DEF Started, InFlight
<1> QED BY <1>1, <1>3, <1>4

LEMMA CrashKeeps ==
    ASSUME TypeInv, NEW m \in Nat, NumberedTo(m), Crash
    PROVE  TypeInv' /\ NumberedTo(m)'
<1>1. /\ UNCHANGED <<doc, versions, preview>>
      /\ tasks' = NoTasks /\ extractor' = Extracting /\ converter' = Converting
      /\ faults' \in Nat
  BY TasksType DEF Crash, Fault, rows
<1>2. files' \in [Keys -> Content \cup {Null}]
  <2>1. PICK torn \in SUBSET Uploads :
            files' = [k \in Keys |-> IF \E u \in torn : upload[u].key = k THEN Partial
                                     ELSE files[k]]
    BY DEF Crash
  <2>2. Partial \in Content /\ \A k \in Keys : files[k] \in Content \cup {Null}
    BY TasksType DEF Content
  <2> QED BY <2>1, <2>2
<1>3. NoTasks \in [extraction : Nat, preview : Nat] /\ NoTasks.extraction = 0
                                                     /\ NoTasks.preview = 0
  BY DEF NoTasks
<1>4. TypeOK'
  BY <1>1, <1>2, <1>3, CrashedUploads, TasksType DEF TypeInv, TypeOK
<1>5. UploadsHaveKeys'
  BY CrashedUploads DEF TypeInv, UploadsHaveKeys
<1>6. \A u \in Uploads : upload'[u].step \in {"dropPreview", "dispatch", "done"} => doc # Null
  BY CrashedUploads DEF TypeInv, JobsHaveRows, InFlight
<1>7. JobsHaveRows'
  BY <1>1, <1>3, <1>6, TasksType DEF JobsHaveRows
<1>8. NumberedTo(m)'
  BY <1>1, CrashedUploads DEF NumberedTo, Started
<1> QED BY <1>4, <1>5, <1>7, <1>8 DEF TypeInv

-----------------------------------------------------------------------------
(***************************************************************************)
(* The files of versions.                                                  *)
(***************************************************************************)

\* Keys that are taken stay with their uploads, so a contested key stays one.
LEMMA StaysContested ==
    ASSUME NEW k \in Keys, Contested(k),
           \A w \in Uploads : upload[w].key \in Keys => upload'[w].key = upload[w].key
    PROVE  Contested(k)'
BY DEF Contested

LEMMA VersionType ==
    ASSUME TypeInv, StoredInv, NEW v \in versions
    PROVE  /\ v.key \in Keys /\ v.by \in Uploads
           /\ upload[v.by].key = v.key
           /\ upload[v.by].step \in {"dropPreview", "dispatch", "done", "failed"}
           /\ Contested(v.key) \/ files[v.key] = v.by
BY DEF TypeInv, TypeOK, StoredInv, Kept

LEMMA StoredWhereUnchanged ==
    ASSUME TypeInv, StoredInv, UNCHANGED <<versions, files, upload>>
    PROVE  StoredInv'
BY DEF StoredInv, Contested, Kept, Written

LEMMA StartStores ==
    ASSUME TypeInv, StoredInv, NEW u \in Uploads, NEW number, NEW name, NEW mime,
           NEW hadPreview, upload[u].step = "ready", Starts(u, number, name, mime, hadPreview),
           UNCHANGED <<versions, files>>
    PROVE  StoredInv'
<1>1. /\ upload'[u].step = "put" /\ upload[u].key = Null
      /\ \A w \in Uploads \ {u} : upload'[w] = upload[w]
  BY DEF Starts, TypeInv, TypeOK, UploadsHaveKeys, Started
<1>2. \A w \in Uploads : upload[w].key \in Keys => upload'[w].key = upload[w].key
  BY <1>1, DocumentAssumption
<1>3. ASSUME NEW v \in versions'
      PROVE  Kept(v)'
  <2>1. v.by # u /\ v.by \in Uploads /\ v.key \in Keys
    BY <1>3, VersionType
  <2>2. Contested(v.key) => Contested(v.key)'
    BY <1>2, <2>1, StaysContested
  <2> QED BY <1>1, <1>3, <2>1, <2>2, VersionType DEF Kept
<1>4. ASSUME NEW w \in Uploads
      PROVE  Written(w)'
  <2> SUFFICES ASSUME NEW k \in Keys, upload'[w].step = "commit", upload'[w].key = k
               PROVE  Contested(k)' \/ files'[k] = w
    BY DEF Written
  <2>1. upload'[w] = upload[w]
    BY <1>1
  <2>2. Contested(k) \/ files[k] = w
    BY <2>1 DEF StoredInv, Written
  <2> QED BY <1>2, <2>2, StaysContested
<1> QED BY <1>3, <1>4 DEF StoredInv

\* A write or a removal under the key of an upload that has no version.
LEMMA WriteStores ==
    ASSUME TypeInv, StoredInv, NEW u \in Uploads, NEW step \in UploadSteps, NEW c,
           upload[u].step \in {"put", "cleanup"}, GoTo(u, step),
           step = "failed" \/ (step = "commit" /\ c = u),
           files'[upload[u].key] = c,
           \A k \in Keys : k # upload[u].key => files'[k] = files[k],
           versions' = versions
    PROVE  StoredInv'
<1>1. /\ upload'[u].step = step
      /\ \A w \in Uploads \ {u} : upload'[w] = upload[w]
      /\ \A w \in Uploads : upload'[w].key = upload[w].key
      /\ upload[u].key \in Keys
  BY StepOnly
<1>2. /\ files'[upload[u].key] = c
      /\ \A k \in Keys : k # upload[u].key => files'[k] = files[k]
  OBVIOUS
<1>3. ASSUME NEW v \in versions'
      PROVE  Kept(v)'
  <2>1. v.by # u /\ v.by \in Uploads /\ v.key \in Keys /\ upload[v.by].key = v.key
    BY <1>3, VersionType
  <2>2. CASE v.key = upload[u].key
    <3>1. Contested(v.key)'
      BY <1>1, <2>1, <2>2 DEF Contested
    <3> QED BY <1>1, <1>3, <2>1, <3>1, VersionType DEF Kept
  <2>3. CASE v.key # upload[u].key
    <3>1. Contested(v.key) => Contested(v.key)'
      BY <1>1, <2>1, StaysContested
    <3>2. files'[v.key] = files[v.key]
      BY <1>2, <2>1, <2>3
    <3> QED BY <1>1, <1>3, <2>1, <3>1, <3>2, VersionType DEF Kept
  <2> QED BY <2>2, <2>3
<1>4. ASSUME NEW w \in Uploads
      PROVE  Written(w)'
  <2> SUFFICES ASSUME NEW k \in Keys, upload'[w].step = "commit", upload'[w].key = k
               PROVE  Contested(k)' \/ files'[k] = w
    BY DEF Written
  <2>1. CASE w = u
    BY <1>1, <1>2, <2>1
  <2>2. CASE w # u
    <3>1. upload'[w] = upload[w] /\ upload[w].key = k
      BY <1>1, <2>2
    <3>2. CASE k = upload[u].key
      BY <1>1, <2>2, <3>1, <3>2 DEF Contested
    <3>3. CASE k # upload[u].key
      <4>1. Contested(k) \/ files[k] = w
        BY <3>1 DEF StoredInv, Written
      <4> QED BY <1>1, <1>2, <3>3, <4>1, StaysContested
    <3> QED BY <3>2, <3>3
  <2> QED BY <2>1, <2>2
<1> QED BY <1>3, <1>4 DEF StoredInv

\* A step that leaves the files and the versions alone.
LEMMA StepStores ==
    ASSUME TypeInv, StoredInv, NEW u \in Uploads, NEW step \in UploadSteps,
           upload[u].step \in {"commit", "dropPreview", "dispatch"}, GoTo(u, step),
           step \in {"dispatch", "done", "cleanup"},
           step = "cleanup" => upload[u].step = "commit",
           UNCHANGED <<versions, files>>
    PROVE  StoredInv'
<1>1. /\ upload'[u].step = step
      /\ \A w \in Uploads \ {u} : upload'[w] = upload[w]
      /\ \A w \in Uploads : upload'[w].key = upload[w].key
  BY StepOnly
<1>2. ASSUME NEW k \in Keys, Contested(k)
      PROVE  Contested(k)'
  BY <1>1, <1>2, StaysContested
<1>3. ASSUME NEW v \in versions'
      PROVE  Kept(v)'
  BY <1>1, <1>2, <1>3, VersionType DEF Kept
<1>4. ASSUME NEW w \in Uploads
      PROVE  Written(w)'
  <2> SUFFICES ASSUME NEW k \in Keys, upload'[w].step = "commit", upload'[w].key = k
               PROVE  Contested(k)' \/ files'[k] = w
    BY DEF Written
  <2>1. upload'[w] = upload[w]
    BY <1>1
  <2> QED BY <1>2, <2>1 DEF StoredInv, Written
<1> QED BY <1>3, <1>4 DEF StoredInv

LEMMA CommitStores ==
    ASSUME TypeInv, StoredInv, NEW u \in Uploads, Commit(u)
    PROVE  StoredInv'
<1>1. PICK step \in {"dropPreview", "dispatch"} :
        /\ upload[u].step = "commit" /\ GoTo(u, step)
        /\ versions' = versions \cup {NewVersion(u)}
        /\ files' = files
  BY DEF Commit, storage
<1>2. /\ upload'[u].step = step
      /\ \A w \in Uploads \ {u} : upload'[w] = upload[w]
      /\ \A w \in Uploads : upload'[w].key = upload[w].key
      /\ upload[u].key \in Keys
  BY <1>1, StepOnly DEF UploadSteps
<1>3. ASSUME NEW k \in Keys, Contested(k)
      PROVE  Contested(k)'
  BY <1>2, <1>3, StaysContested
<1>4. NewVersion(u).key = upload[u].key /\ NewVersion(u).by = u
  BY DEF NewVersion
<1>5. ASSUME NEW v \in versions'
      PROVE  Kept(v)'
  <2>1. CASE v \in versions
    BY <1>1, <1>2, <1>3, <2>1, VersionType DEF Kept
  <2>2. CASE v = NewVersion(u)
    <3>1. v.key = upload[u].key /\ v.by = u
      BY <1>4, <2>2
    <3>2. Contested(v.key) \/ files[v.key] = u
      BY <1>1, <1>2, <3>1 DEF StoredInv, Written
    <3> QED BY <1>1, <1>2, <1>3, <3>1, <3>2 DEF Kept
  <2> QED BY <1>1, <1>5, <2>1, <2>2
<1>6. ASSUME NEW w \in Uploads
      PROVE  Written(w)'
  <2> SUFFICES ASSUME NEW k \in Keys, upload'[w].step = "commit", upload'[w].key = k
               PROVE  Contested(k)' \/ files'[k] = w
    BY DEF Written
  <2>1. upload'[w] = upload[w]
    BY <1>2
  <2> QED BY <1>1, <1>3, <2>1 DEF StoredInv, Written
<1> QED BY <1>5, <1>6 DEF StoredInv

LEMMA CrashStores ==
    ASSUME TypeInv, StoredInv, Crash
    PROVE  StoredInv'
<1>1. /\ \A w \in Uploads :
           /\ upload'[w].key = upload[w].key
           /\ upload'[w].step = IF InFlight(w) THEN "failed" ELSE upload[w].step
      /\ versions' = versions
  BY CrashedUploads DEF Crash, rows
<1>2. ASSUME NEW k \in Keys, Contested(k)
      PROVE  Contested(k)'
  BY <1>1, <1>2, StaysContested
<1>3. PICK torn \in SUBSET {w \in Uploads : upload[w].step = "put"} :
        files' = [k \in Keys |-> IF \E w \in torn : upload[w].key = k THEN Partial
                                 ELSE files[k]]
  BY DEF Crash
<1>4. ASSUME NEW v \in versions'
      PROVE  Kept(v)'
  <2>1. /\ v.by \in Uploads /\ v.key \in Keys /\ upload[v.by].key = v.key
        /\ upload[v.by].step \in {"dropPreview", "dispatch", "done", "failed"}
        /\ Contested(v.key) \/ files[v.key] = v.by
    BY <1>1, <1>4, VersionType
  <2>2. CASE \E w \in torn : upload[w].key = v.key
    <3>1. PICK w \in torn : upload[w].key = v.key
      BY <2>2
    <3>2. w \in Uploads /\ w # v.by
      BY <2>1, <3>1
    <3>3. Contested(v.key)
      BY <2>1, <3>1, <3>2 DEF Contested
    <3> QED BY <1>1, <1>2, <2>1, <3>3 DEF Kept
  <2>3. CASE ~ \E w \in torn : upload[w].key = v.key
    <3>1. files'[v.key] = files[v.key]
      BY <1>3, <2>1, <2>3
    <3> QED BY <1>1, <1>2, <2>1, <3>1 DEF Kept
  <2> QED BY <2>2, <2>3
<1>5. \A w \in Uploads : upload'[w].step # "commit"
  BY <1>1 DEF InFlight
<1>6. ASSUME NEW w \in Uploads
      PROVE  Written(w)'
  BY <1>5 DEF Written
<1> QED BY <1>4, <1>6 DEF StoredInv

-----------------------------------------------------------------------------
(***************************************************************************)
(* Text and preview.                                                       *)
(***************************************************************************)

\* After a fault nothing is claimed of text and preview.
LEMMA FaultsEndIt ==
    ASSUME faults' > 0
    PROVE  FailedByFault' /\ TextInv' /\ PreviewInv'
BY DEF FailedByFault, TextInv, PreviewInv, Live

\* While an upload is under way, its dispatch is still to come.
LEMMA BusyIsEnough ==
    ASSUME Busy'
    PROVE  TextInv' /\ PreviewInv'
BY DEF TextInv, PreviewInv

LEMMA GoesOn ==
    ASSUME TypeInv, FailedByFault, NEW u \in Uploads,
           NEW step \in {"put", "commit", "dropPreview", "dispatch"},
           upload'[u].step = step,
           \A w \in Uploads \ {u} : upload'[w].step = upload[w].step,
           faults' = faults
    PROVE  FailedByFault' /\ TextInv' /\ PreviewInv'
<1>1. Busy'
  BY DEF Busy, InFlight
<1>2. FailedByFault'
  BY DEF FailedByFault
<1> QED BY <1>1, <1>2, BusyIsEnough

LEMMA DispatchQueues ==
    ASSUME TypeInv, FailedByFault, NEW u \in Uploads, Dispatch(u)
    PROVE  FailedByFault' /\ TextInv' /\ PreviewInv'
<1>1. /\ upload[u].step = "dispatch" /\ GoTo(u, "done") /\ faults' = faults
      /\ tasks'.extraction = tasks.extraction + 1
      /\ tasks'.preview = tasks.preview + (IF upload[u].mime = "DOCX" THEN 1 ELSE 0)
  BY DEF Dispatch
<1>2. /\ upload'[u].step = "done" /\ upload[u].mime \in Mimes
      /\ \A w \in Uploads \ {u} : upload'[w] = upload[w]
      /\ \A w \in Uploads : upload'[w].mime = upload[w].mime
  BY <1>1, StepOnly DEF UploadSteps
<1>3. FailedByFault'
  BY <1>1, <1>2 DEF FailedByFault
<1>4. tasks'.extraction > 0
  BY <1>1, TasksType
<1>5. TextInv'
  BY <1>4 DEF TextInv
<1>6. AllDocx' => upload[u].mime = "DOCX"
  BY <1>2, DocumentAssumption DEF AllDocx
<1>7. AllDocx' => tasks'.preview > 0
  BY <1>1, <1>6, TasksType
<1>8. PreviewInv'
  BY <1>7 DEF PreviewInv
<1> QED BY <1>3, <1>5, <1>8

LEMMA DeletionEndsIt ==
    ASSUME TypeInv, FailedByFault, SoftDeleteDocument
    PROVE  FailedByFault' /\ TextInv' /\ PreviewInv'
<1>1. doc'.deleted /\ UNCHANGED <<upload, faults>>
  BY RowType DEF SoftDeleteDocument, Document
<1> QED BY <1>1 DEF FailedByFault, TextInv, PreviewInv, Live

\* A step of the extraction.
LEMMA ExtractIsCurrent ==
    ASSUME TypeInv, TextInv, Extract
    PROVE  TextInv'
<1> SUFFICES ASSUME Live', ~Busy', ~(tasks'.extraction > 0)
             PROVE  ExtractsCurrent' \/ TextIsCurrent'
  BY DEF TextInv
<1>1. CASE ExtractStart
  <2>1. doc' = doc /\ ~doc.deleted /\ doc # Null
    BY <1>1 DEF ExtractStart, Live, rows
  <2>2. extractor' = [step |-> "mark", key |-> doc.key, text |-> Null]
    BY <1>1, <2>1 DEF ExtractStart
  <2> QED BY <2>1, <2>2 DEF ExtractsCurrent
<1>2. CASE ExtractMark
  <2>1. /\ extractor.step = "mark" /\ doc # Null /\ doc \in Document
        /\ doc' = [doc EXCEPT !.extraction = "PROCESSING"]
        /\ extractor' = [extractor EXCEPT !.step = "read"]
        /\ UNCHANGED <<files, upload, tasks, faults>>
    BY <1>2, TasksType, RowType DEF ExtractMark, storage
  <2>2. doc'.key = doc.key /\ doc'.deleted = doc.deleted
    BY <2>1 DEF Document
  <2>3. extractor'.step = "read" /\ extractor'.key = extractor.key
    BY <2>1, TasksType
  <2>4. ExtractsCurrent
    BY <2>1, <2>2 DEF TextInv, Live, Busy, InFlight, TextIsCurrent
  <2> QED BY <2>2, <2>3, <2>4 DEF ExtractsCurrent
<1>3. CASE ExtractRead
  <2>1. /\ extractor.step = "read"
        /\ UNCHANGED <<doc, files, upload, tasks, faults>>
    BY <1>3 DEF ExtractRead, rows, storage
  <2>2. PICK text \in {files[extractor.key], Null} :
            extractor' = [extractor EXCEPT !.step = "store", !.text = text]
    BY <1>3 DEF ExtractRead
  <2>3. extractor'.step = "store" /\ extractor'.key = extractor.key /\ extractor'.text = text
    BY <2>2, TasksType
  <2>4. ExtractsCurrent
    BY <2>1 DEF TextInv, Live, Busy, InFlight, TextIsCurrent
  <2> QED BY <2>1, <2>3, <2>4 DEF ExtractsCurrent
<1>4. CASE ExtractStore
  <2>1. /\ extractor.step = "store" /\ doc # Null /\ doc \in Document
        /\ doc' = IF extractor.text # Null
                    THEN [doc EXCEPT !.extraction = "INDEXED", !.text = extractor.text]
                    ELSE [doc EXCEPT !.extraction = "FAILED"]
        /\ extractor' = Extracting
        /\ UNCHANGED <<files, upload, tasks, faults>>
    BY <1>4, TasksType, RowType DEF ExtractStore, storage
  <2>2. /\ doc'.key = doc.key /\ doc'.deleted = doc.deleted
        /\ doc'.extraction = IF extractor.text # Null THEN "INDEXED" ELSE "FAILED"
        /\ extractor.text # Null => doc'.text = extractor.text
    BY <2>1 DEF Document
  <2>3. ExtractsCurrent
    BY <2>1, <2>2 DEF TextInv, Live, Busy, InFlight, TextIsCurrent
  <2>4. extractor'.step = "idle"
    BY <2>1, TasksType
  <2> QED BY <2>1, <2>2, <2>3, <2>4 DEF ExtractsCurrent, TextIsCurrent
<1> QED BY <1>1, <1>2, <1>3, <1>4 DEF Extract

\* What the extraction leaves alone for the preview.
LEMMA ExtractKeepsPreview ==
    ASSUME TypeInv, PreviewInv, Extract
    PROVE  PreviewInv'
<1>1. UNCHANGED <<files, preview, upload, converter, faults>>
  BY Zenon DEF Extract, ExtractStart, ExtractMark, ExtractRead, ExtractStore, storage
<1>2. tasks'.preview = tasks.preview
  BY TasksType DEF Extract, ExtractStart, ExtractMark, ExtractRead, ExtractStore
<1>3. \/ doc' = doc
      \/ /\ doc # Null /\ doc'.key = doc.key /\ doc'.deleted = doc.deleted
         /\ doc'.previewStatus = doc.previewStatus /\ doc'.hasPreview = doc.hasPreview
  <2>1. CASE ExtractStart \/ ExtractRead
    BY <2>1 DEF ExtractStart, ExtractRead, rows
  <2>2. CASE ExtractMark
    BY <2>2, TasksType, RowType DEF ExtractMark, Document
  <2>3. CASE ExtractStore
    BY <2>3, TasksType, RowType DEF ExtractStore, Document
  <2> QED BY <2>1, <2>2, <2>3 DEF Extract
<1> QED
  BY <1>1, <1>2, <1>3 DEF PreviewInv, Live, Busy, InFlight, AllDocx, ConvertsCurrent,
                          PreviewIsCurrent

\* A step of the conversion.
LEMMA ConvertIsCurrent ==
    ASSUME TypeInv, TypeOfAnUpload, PreviewInv, Preview
    PROVE  PreviewInv'
<1> SUFFICES ASSUME Live', AllDocx', ~Busy', ~(tasks'.preview > 0)
             PROVE  ConvertsCurrent' \/ PreviewIsCurrent'
  BY DEF PreviewInv
<1>1. UNCHANGED <<files, upload, faults>>
  BY Zenon DEF Preview, ConvertStart, ConvertMark, Convert, ConvertPut, ConvertReady,
               ConvertFailed, storage
<1>2. AllDocx /\ ~Busy /\ faults = 0
  BY <1>1 DEF AllDocx, Busy, InFlight, Live
<1>3. CASE ConvertStart
  <2>1. doc' = doc /\ ~doc.deleted /\ doc # Null
    BY <1>3 DEF ConvertStart, Live, rows
  <2>2. doc.mime = "DOCX"
    BY <1>2, <2>1, RowType, DocumentAssumption DEF TypeOfAnUpload, AllDocx
  <2>3. converter' = [step |-> "mark", key |-> doc.key, pdf |-> Null]
    BY <1>3, <2>1, <2>2 DEF ConvertStart
  <2> QED BY <2>1, <2>3 DEF ConvertsCurrent
<1>4. CASE ConvertMark
  <2>1. /\ converter.step = "mark" /\ doc # Null /\ doc \in Document
        /\ doc' = [doc EXCEPT !.previewStatus = "PROCESSING"]
        /\ converter' = [converter EXCEPT !.step = "convert"]
        /\ UNCHANGED tasks
    BY <1>4, TasksType, RowType DEF ConvertMark
  <2>2. doc'.key = doc.key /\ doc'.deleted = doc.deleted
    BY <2>1 DEF Document
  <2>3. converter'.step = "convert" /\ converter'.key = converter.key
    BY <2>1, TasksType
  <2>4. ConvertsCurrent
    BY <1>2, <2>1, <2>2 DEF PreviewInv, Live, PreviewIsCurrent
  <2> QED BY <1>1, <2>2, <2>3, <2>4 DEF ConvertsCurrent
<1>5. CASE Convert
  <2>1. converter.step = "convert" /\ UNCHANGED <<doc, tasks>>
    BY <1>5 DEF Convert, rows
  <2>2. PICK pdf \in {files[converter.key], Null} :
            converter' = [converter EXCEPT !.step = IF pdf # Null THEN "put" ELSE "fail",
                                           !.pdf = pdf]
    BY <1>5 DEF Convert
  <2>3. /\ converter'.step = IF pdf # Null THEN "put" ELSE "fail"
        /\ converter'.key = converter.key /\ converter'.pdf = pdf
    BY <2>2, TasksType
  <2>4. ConvertsCurrent
    BY <1>2, <2>1 DEF PreviewInv, Live, PreviewIsCurrent
  <2> QED BY <1>1, <2>1, <2>2, <2>3, <2>4 DEF ConvertsCurrent
<1>6. CASE ConvertPut
  <2>1. /\ converter.step = "put" /\ preview' = converter.pdf
        /\ converter' = [converter EXCEPT !.step = "ready"]
        /\ UNCHANGED <<doc, tasks>>
    BY <1>6 DEF ConvertPut, rows
  <2>2. converter'.step = "ready" /\ converter'.key = converter.key
    BY <2>1, TasksType
  <2>3. ConvertsCurrent
    BY <1>2, <2>1 DEF PreviewInv, Live, PreviewIsCurrent
  <2> QED BY <1>1, <2>1, <2>2, <2>3 DEF ConvertsCurrent
<1>7. CASE ConvertReady
  <2>1. /\ converter.step = "ready" /\ doc # Null /\ doc \in Document
        /\ doc' = [doc EXCEPT !.hasPreview = TRUE, !.previewStatus = "READY"]
        /\ converter' = Converting /\ UNCHANGED <<preview, tasks>>
    BY <1>7, TasksType, RowType DEF ConvertReady, storage
  <2>2. /\ doc'.key = doc.key /\ doc'.deleted = doc.deleted
        /\ doc'.previewStatus = "READY" /\ doc'.hasPreview
    BY <2>1 DEF Document
  <2>3. ConvertsCurrent
    BY <1>2, <2>1, <2>2 DEF PreviewInv, Live, PreviewIsCurrent
  <2>4. converter'.step = "idle"
    BY <2>1, TasksType
  <2> QED BY <1>1, <2>1, <2>2, <2>3, <2>4 DEF ConvertsCurrent, PreviewIsCurrent
<1>8. CASE ConvertFailed
  <2>1. /\ converter.step = "fail" /\ doc # Null /\ doc \in Document
        /\ doc' = [doc EXCEPT !.previewStatus = "FAILED"]
        /\ converter' = Converting
    BY <1>8, TasksType, RowType DEF ConvertFailed
  <2>2. doc'.previewStatus = "FAILED"
    BY <2>1 DEF Document
  <2>3. converter'.step = "idle"
    BY <2>1, TasksType
  <2> QED BY <2>2, <2>3 DEF PreviewIsCurrent
<1> QED BY <1>3, <1>4, <1>5, <1>6, <1>7, <1>8 DEF Preview

LEMMA ConvertKeepsText ==
    ASSUME TypeInv, TextInv, Preview
    PROVE  TextInv'
<1>1. UNCHANGED <<files, upload, extractor, faults>>
  BY Zenon DEF Preview, ConvertStart, ConvertMark, Convert, ConvertPut, ConvertReady,
               ConvertFailed, storage
<1>2. tasks'.extraction = tasks.extraction
  BY TasksType DEF Preview, ConvertStart, ConvertMark, Convert, ConvertPut, ConvertReady,
                   ConvertFailed
<1>3. \/ doc' = doc
      \/ /\ doc # Null /\ doc'.key = doc.key /\ doc'.deleted = doc.deleted
         /\ doc'.extraction = doc.extraction /\ doc'.text = doc.text
  <2>1. CASE ConvertStart \/ Convert \/ ConvertPut
    BY <2>1 DEF ConvertStart, Convert, ConvertPut, rows
  <2>2. CASE ConvertMark
    BY <2>2, TasksType, RowType DEF ConvertMark, Document
  <2>3. CASE ConvertReady
    BY <2>3, TasksType, RowType DEF ConvertReady, Document
  <2>4. CASE ConvertFailed
    BY <2>4, TasksType, RowType DEF ConvertFailed, Document
  <2> QED BY <2>1, <2>2, <2>3, <2>4 DEF Preview
<1> QED
  BY <1>1, <1>2, <1>3 DEF TextInv, Live, Busy, InFlight, ExtractsCurrent, TextIsCurrent

\* The row has the type of one of the uploads.
LEMMA TypeStays ==
    ASSUME TypeInv, TypeOfAnUpload,
           doc' = doc \/ (doc # Null /\ doc'.mime = doc.mime),
           \A u \in Uploads : upload[u].mime # Null => upload'[u].mime = upload[u].mime
    PROVE  TypeOfAnUpload'
<1> SUFFICES ASSUME doc' # Null
             PROVE  \E u \in Uploads : doc'.mime = upload'[u].mime
  BY DEF TypeOfAnUpload
<1>1. doc # Null /\ doc'.mime = doc.mime /\ doc.mime \in Mimes
  BY RowType
<1>2. PICK u \in Uploads : doc.mime = upload[u].mime
  BY <1>1 DEF TypeOfAnUpload
<1> QED BY <1>1, <1>2, DocumentAssumption

-----------------------------------------------------------------------------
(***************************************************************************)
(* Every step keeps the invariant.                                         *)
(***************************************************************************)

Settling == FailedByFault /\ TextInv /\ PreviewInv

LEMMA StartKeepsInv ==
    ASSUME Inv, NEW u \in Uploads, NEW name \in Names, NEW mime \in Mimes,
           CreateDocument(u, name, mime) \/ UploadNewVersion(u, name, mime)
    PROVE  Inv'
<1>1. PICK m \in Nat : NumberedTo(m)
  BY DEF Inv, NumbersInv
<1>2. TypeInv' /\ NumbersInv'
  BY <1>1, CreateDocumentKeeps, UploadNewVersionKeeps DEF Inv, NumbersInv
<1>3. PICK number, hadPreview :
        /\ upload[u].step = "ready"
        /\ Starts(u, number, name, mime, hadPreview)
        /\ UNCHANGED <<doc, versions, files, faults>>
  <2>1. CASE CreateDocument(u, name, mime)
    <3>1. /\ upload[u].step = "ready"
          /\ Starts(u, 1, name, mime, FALSE)
          /\ UNCHANGED <<doc, versions, files, faults>>
      BY <2>1 DEF CreateDocument, Starts, rows, storage
    <3> QED BY <3>1
  <2>2. CASE UploadNewVersion(u, name, mime)
    <3>1. /\ upload[u].step = "ready"
          /\ Starts(u, Max({v.number : v \in versions}) + 1, name, mime, doc.hasPreview)
          /\ UNCHANGED <<doc, versions, files, faults>>
      BY <2>2 DEF UploadNewVersion, Starts, rows, storage
    <3> QED BY <3>1
  <2> QED BY <2>1, <2>2
<1>4. StoredInv'
  BY <1>3, StartStores DEF Inv
<1>5. /\ upload'[u].step = "put" /\ upload[u].mime = Null
      /\ \A w \in Uploads \ {u} : upload'[w] = upload[w]
  BY <1>3 DEF Inv, Starts, TypeInv, TypeOK, UploadsHaveKeys, Started
<1>6. Settling'
  BY <1>3, <1>5, GoesOn DEF Inv, Settling
<1>7. TypeOfAnUpload'
  BY <1>3, <1>5, TypeStays DEF Inv
<1> QED BY <1>2, <1>4, <1>6, <1>7 DEF Inv, Settling

\* Of an upload under way.
LEMMA UploadKeepsInv ==
    ASSUME Inv, NEW u \in Uploads,
           \/ Put(u) \/ PutFails(u) \/ CommitFails(u)
           \/ Cleanup(u) \/ DropPreview(u) \/ Dispatch(u)
    PROVE  Inv'
<1>0. TypeInv /\ StoredInv
  BY DEF Inv
<1>1. PICK m \in Nat : NumberedTo(m)
  BY DEF Inv, NumbersInv
<1>2. TypeInv' /\ NumbersInv'
  BY <1>1, PutKeeps, CleanupKeeps, DispatchKeeps DEF Inv, NumbersInv
<1>3. PICK step \in UploadSteps \ {"ready"} :
        GoTo(u, step) /\ upload[u].step # "ready" /\ doc' = doc
  <2>1. CASE Put(u)
    BY <2>1 DEF Put, UploadSteps, rows
  <2>2. CASE PutFails(u)
    BY <2>2 DEF PutFails, UploadSteps, rows
  <2>3. CASE CommitFails(u)
    BY <2>3 DEF CommitFails, UploadSteps, rows
  <2>4. CASE Cleanup(u) \/ DropPreview(u)
    BY <2>4 DEF Cleanup, DropPreview, UploadSteps, rows
  <2>5. CASE Dispatch(u)
    BY <2>5 DEF Dispatch, UploadSteps, rows
  <2> QED BY <2>1, <2>2, <2>3, <2>4, <2>5
<1>4. /\ upload'[u].step = step
      /\ \A w \in Uploads \ {u} : upload'[w] = upload[w]
      /\ \A w \in Uploads : upload'[w].mime = upload[w].mime
  BY <1>3, StepOnly DEF Inv
<1>5. TypeOfAnUpload'
  BY <1>3, <1>4, TypeStays DEF Inv
<1>6. ASSUME Fault PROVE Settling'
  <2>1. faults' > 0
    BY <1>6, TasksType DEF Fault, Inv
  <2> QED BY <2>1, FaultsEndIt DEF Settling
<1>7. CASE Put(u)
  <2>1. /\ upload[u].step = "put" /\ GoTo(u, "commit")
        /\ files' = [files EXCEPT ![upload[u].key] = u]
        /\ versions' = versions /\ faults' = faults
    BY <1>7 DEF Put, rows
  <2>2. StoredInv'
    <3>1. "commit" \in UploadSteps /\ upload[u].step \in {"put", "cleanup"}
      BY <2>1 DEF UploadSteps
    <3>2. /\ files'[upload[u].key] = u
          /\ \A k \in Keys : k # upload[u].key => files'[k] = files[k]
      BY <1>0, <1>3, <2>1 DEF TypeInv, TypeOK, UploadsHaveKeys, Started
    <3> QED BY <1>0, <2>1, <3>1, <3>2, WriteStores
  <2>3. upload'[u].step = "commit"
    BY <2>1, StepOnly DEF Inv, UploadSteps
  <2>4. Settling'
    BY <1>4, <2>1, <2>3, GoesOn DEF Inv, Settling
  <2> QED BY <1>2, <1>5, <2>2, <2>4 DEF Inv, Settling
<1>8. CASE PutFails(u)
  <2>1. /\ upload[u].step = "put" /\ GoTo(u, "failed") /\ Fault
        /\ files' = [files EXCEPT ![upload[u].key] = Partial]
        /\ versions' = versions
    BY <1>8 DEF PutFails, rows
  <2>2. StoredInv'
    <3>1. "failed" \in UploadSteps /\ upload[u].step \in {"put", "cleanup"}
      BY <2>1 DEF UploadSteps
    <3>2. /\ files'[upload[u].key] = Partial
          /\ \A k \in Keys : k # upload[u].key => files'[k] = files[k]
      BY <1>0, <1>3, <2>1 DEF TypeInv, TypeOK, UploadsHaveKeys, Started
    <3> QED BY <1>0, <2>1, <3>1, <3>2, WriteStores
  <2> QED BY <1>2, <1>5, <1>6, <2>1, <2>2 DEF Inv, Settling
<1>9. CASE CommitFails(u)
  <2>1. /\ upload[u].step = "commit" /\ GoTo(u, "cleanup") /\ Fault
        /\ UNCHANGED <<versions, files>>
    BY <1>9 DEF CommitFails, rows, storage
  <2>2. StoredInv'
    BY <2>1, StepStores DEF Inv, UploadSteps
  <2> QED BY <1>2, <1>5, <1>6, <2>1, <2>2 DEF Inv, Settling
<1>10. CASE Cleanup(u)
  <2>1. /\ upload[u].step = "cleanup" /\ GoTo(u, "failed")
        /\ files' = [files EXCEPT ![upload[u].key] = Null]
        /\ versions' = versions /\ faults' = faults
    BY <1>10 DEF Cleanup, rows
  <2>2. StoredInv'
    <3>1. "failed" \in UploadSteps /\ upload[u].step \in {"put", "cleanup"}
      BY <2>1 DEF UploadSteps
    <3>2. /\ files'[upload[u].key] = Null
          /\ \A k \in Keys : k # upload[u].key => files'[k] = files[k]
      BY <1>0, <1>3, <2>1 DEF TypeInv, TypeOK, UploadsHaveKeys, Started
    <3> QED BY <1>0, <2>1, <3>1, <3>2, WriteStores
  <2>3. faults' > 0
    BY <2>1 DEF Inv, FailedByFault
  <2> QED BY <1>2, <1>5, <2>2, <2>3, FaultsEndIt DEF Inv
<1>11. CASE DropPreview(u)
  <2>1. /\ upload[u].step = "dropPreview" /\ GoTo(u, "dispatch")
        /\ UNCHANGED <<versions, files, faults>>
    BY <1>11 DEF DropPreview, rows
  <2>2. StoredInv'
    BY <2>1, StepStores DEF Inv, UploadSteps
  <2>3. upload'[u].step = "dispatch"
    BY <2>1, StepOnly DEF Inv, UploadSteps
  <2>4. Settling'
    BY <1>4, <2>1, <2>3, GoesOn DEF Inv, Settling
  <2> QED BY <1>2, <1>5, <2>2, <2>4 DEF Inv, Settling
<1>12. CASE Dispatch(u)
  <2>1. /\ upload[u].step = "dispatch" /\ GoTo(u, "done")
        /\ UNCHANGED <<versions, files>>
    BY <1>12 DEF Dispatch, rows, storage
  <2>2. StoredInv'
    BY <2>1, StepStores DEF Inv, UploadSteps
  <2>3. Settling'
    BY <1>12, DispatchQueues DEF Inv, Settling
  <2> QED BY <1>2, <1>5, <2>2, <2>3 DEF Inv, Settling
<1> QED BY <1>7, <1>8, <1>9, <1>10, <1>11, <1>12

LEMMA CommitKeepsInv ==
    ASSUME Inv, NEW u \in Uploads, Commit(u)
    PROVE  Inv'
<1>1. PICK m \in Nat : NumberedTo(m)
  BY DEF Inv, NumbersInv
<1>2. TypeInv' /\ NumbersInv'
  BY <1>1, CommitKeeps DEF Inv
<1>3. StoredInv'
  BY CommitStores DEF Inv
<1>4. PICK step \in {"dropPreview", "dispatch"} :
        upload[u].step = "commit" /\ GoTo(u, step) /\ doc' = Uploaded(u) /\ faults' = faults
  BY DEF Commit
<1>5. /\ upload'[u].step = step
      /\ \A w \in Uploads \ {u} : upload'[w] = upload[w]
      /\ upload'[u].mime = upload[u].mime
  BY <1>4, StepOnly DEF Inv, UploadSteps
<1>6. doc'.mime = upload'[u].mime
  BY <1>4, <1>5, UploadedType DEF Inv
<1>7. TypeOfAnUpload'
  BY <1>6 DEF TypeOfAnUpload
<1>8. Settling'
  BY <1>4, <1>5, GoesOn DEF Inv, Settling
<1> QED BY <1>2, <1>3, <1>7, <1>8 DEF Inv, Settling

LEMMA WorkKeepsInv ==
    ASSUME Inv, SoftDeleteDocument \/ Extract \/ ExtractDropped \/ Preview \/ ConvertDropped
    PROVE  Inv'
<1>1. PICK m \in Nat : NumberedTo(m)
  BY DEF Inv, NumbersInv
<1>2. TypeInv' /\ NumbersInv'
  BY <1>1, DeleteKeeps, ExtractKeeps, ConvertKeeps DEF Inv, NumbersInv
<1>3. UNCHANGED <<versions, files, upload>>
  BY Zenon DEF SoftDeleteDocument, Extract, ExtractStart, ExtractMark, ExtractRead,
               ExtractStore, ExtractDropped, Preview, ConvertStart, ConvertMark, Convert,
               ConvertPut, ConvertReady, ConvertFailed, ConvertDropped, rows, storage
<1>4. StoredInv'
  BY <1>3, StoredWhereUnchanged DEF Inv
<1>5. doc' = doc \/ (doc # Null /\ doc'.mime = doc.mime)
  <2>1. CASE SoftDeleteDocument
    BY <2>1, RowType DEF SoftDeleteDocument, Document, Inv
  <2>2. CASE Extract
    <3>1. CASE ExtractStart \/ ExtractRead
      BY <3>1 DEF ExtractStart, ExtractRead, rows
    <3>2. CASE ExtractMark
      BY <3>2, TasksType, RowType DEF ExtractMark, Document, Inv
    <3>3. CASE ExtractStore
      BY <3>3, TasksType, RowType DEF ExtractStore, Document, Inv
    <3> QED BY <2>2, <3>1, <3>2, <3>3 DEF Extract
  <2>3. CASE Preview
    <3>1. CASE ConvertStart \/ Convert \/ ConvertPut
      BY <3>1 DEF ConvertStart, Convert, ConvertPut, rows
    <3>2. CASE ConvertMark
      BY <3>2, TasksType, RowType DEF ConvertMark, Document, Inv
    <3>3. CASE ConvertReady
      BY <3>3, TasksType, RowType DEF ConvertReady, Document, Inv
    <3>4. CASE ConvertFailed
      BY <3>4, TasksType, RowType DEF ConvertFailed, Document, Inv
    <3> QED BY <2>3, <3>1, <3>2, <3>3, <3>4 DEF Preview
  <2>4. CASE ExtractDropped \/ ConvertDropped
    BY <2>4 DEF ExtractDropped, ConvertDropped, rows
  <2> QED BY <2>1, <2>2, <2>3, <2>4
<1>6. TypeOfAnUpload'
  BY <1>3, <1>5, TypeStays DEF Inv
<1>7. Settling'
  <2>1. CASE SoftDeleteDocument
    BY <2>1, DeletionEndsIt DEF Inv, Settling
  <2>2. CASE Extract
    <3>1. faults' = faults
      BY <2>2, Zenon DEF Extract, ExtractStart, ExtractMark, ExtractRead, ExtractStore
    <3>2. FailedByFault'
      BY <1>3, <3>1 DEF Inv, FailedByFault
    <3> QED BY <2>2, <3>2, ExtractIsCurrent, ExtractKeepsPreview DEF Inv, Settling
  <2>3. CASE Preview
    <3>1. faults' = faults
      BY <2>3, Zenon DEF Preview, ConvertStart, ConvertMark, Convert, ConvertPut,
                         ConvertReady, ConvertFailed
    <3>2. FailedByFault'
      BY <1>3, <3>1 DEF Inv, FailedByFault
    <3> QED BY <2>3, <3>2, ConvertIsCurrent, ConvertKeepsText DEF Inv, Settling
  <2>4. CASE ExtractDropped \/ ConvertDropped
    <3>1. faults' > 0
      BY <2>4, TasksType DEF ExtractDropped, ConvertDropped, Fault, Inv
    <3> QED BY <3>1, FaultsEndIt DEF Settling
  <2> QED BY <2>1, <2>2, <2>3, <2>4
<1> QED BY <1>2, <1>4, <1>6, <1>7 DEF Inv, Settling

LEMMA CrashKeepsInv ==
    ASSUME Inv, Crash
    PROVE  Inv'
<1>1. PICK m \in Nat : NumberedTo(m)
  BY DEF Inv, NumbersInv
<1>2. TypeInv' /\ NumbersInv'
  BY <1>1, CrashKeeps DEF Inv, NumbersInv
<1>3. StoredInv'
  BY CrashStores DEF Inv
<1>4. doc' = doc
  BY DEF Crash, rows
<1>5. TypeOfAnUpload'
  BY <1>4, CrashedUploads, TypeStays DEF Inv
<1>6. faults' > 0
  BY TasksType DEF Crash, Fault, Inv
<1> QED BY <1>2, <1>3, <1>5, <1>6, FaultsEndIt DEF Inv

LEMMA InvInitially == Init => Inv
<1> SUFFICES ASSUME Init PROVE Inv
  OBVIOUS
<1>1. TypeInv
  BY TypeInitially
<1>2. /\ doc = Null /\ versions = {} /\ faults = 0
      /\ \A u \in Uploads : upload[u].step = "ready"
  BY DEF Init, NoUpload
<1>3. NumberedTo(0)
  <2>1. Started = {} /\ Cardinality(Started) = 0
    BY <1>2, FS_EmptySet DEF Started
  <2>2. {v.number : v \in versions} = 1 .. 0
    BY <1>2
  <2> QED BY <1>2, <2>1, <2>2 DEF NumberedTo
<1>4. NumbersInv
  BY <1>3 DEF NumbersInv
<1>5. StoredInv /\ FailedByFault
  BY <1>2 DEF StoredInv, Written, FailedByFault
<1>6. TextInv /\ PreviewInv /\ TypeOfAnUpload
  BY <1>2 DEF TextInv, PreviewInv, TypeOfAnUpload, Live
<1> QED BY <1>1, <1>4, <1>5, <1>6 DEF Inv

LEMMA InvKept == Inv /\ [Next]_vars => Inv'
<1> SUFFICES ASSUME Inv, [Next]_vars PROVE Inv'
  OBVIOUS
<1>1. CASE Next
  <2>1. ASSUME NEW u \in Uploads, NEW name \in Names, NEW mime \in Mimes,
               CreateDocument(u, name, mime) \/ UploadNewVersion(u, name, mime)
        PROVE  Inv'
    BY <2>1, StartKeepsInv
  <2>2. ASSUME NEW u \in Uploads, Put(u) \/ PutFails(u) \/ CommitFails(u) \/ Finish(u)
        PROVE  Inv'
    BY <2>2, UploadKeepsInv, CommitKeepsInv DEF Finish
  <2>3. CASE SoftDeleteDocument \/ Extract \/ ExtractDropped \/ Preview \/ ConvertDropped
    BY <2>3, WorkKeepsInv
  <2>4. CASE Crash
    BY <2>4, CrashKeepsInv
  <2> QED BY <1>1, <2>1, <2>2, <2>3, <2>4, Zenon DEF Next
<1>2. CASE UNCHANGED vars
  <2>1. UNCHANGED <<doc, versions, files, preview, upload, tasks, extractor, converter, faults>>
    BY <1>2 DEF vars, rows, storage, jobs
  <2>2. TypeInv'
    BY <2>1 DEF Inv, TypeInv, TypeOK, UploadsHaveKeys, JobsHaveRows, Started
  <2>3. NumbersInv'
    BY <2>1 DEF Inv, NumbersInv, NumberedTo, Started
  <2>4. StoredInv'
    BY <2>1, StoredWhereUnchanged DEF Inv
  <2>5. TypeOfAnUpload' /\ FailedByFault'
    BY <2>1 DEF Inv, TypeOfAnUpload, FailedByFault
  <2>6. TextInv' /\ PreviewInv'
    BY <2>1 DEF Inv, TextInv, PreviewInv, Live, Busy, InFlight, AllDocx, ExtractsCurrent,
                TextIsCurrent, ConvertsCurrent, PreviewIsCurrent
  <2> QED BY <2>2, <2>3, <2>4, <2>5, <2>6 DEF Inv
<1> QED BY <1>1, <1>2

LEMMA AlwaysInv == Spec => []Inv
BY InvInitially, InvKept, PTL DEF Spec

-----------------------------------------------------------------------------

\* Every reachable state of the document is well typed: the numbers that
\* uploadNewVersion takes never run out, since there is one for each upload.
THEOREM DocumentTypeCorrect == Spec => []TypeOK
<1>1. Inv => TypeOK
  BY DEF Inv, TypeInv
<1> QED BY <1>1, AlwaysInv, PTL

\* The file of a version stays what was uploaded, whatever uploads, failures and
\* crashes there are, unless two uploads took the same key.
THEOREM VersionsStored == Spec => []VersionsAreStored
<1>1. Inv => VersionsAreStored
  BY DEF Inv, StoredInv, Kept, VersionsAreStored
<1> QED BY <1>1, AlwaysInv, PTL

\* Without faults, the text of a document at rest is that of its current file, or
\* its extraction failed.
THEOREM TextSettles == Spec => []SettledTextIsCurrent
<1>1. ASSUME Inv, Quiet, faults = 0, doc # Null, ~doc.deleted
      PROVE  TextIsCurrent
  <2>1. ~Busy /\ tasks.extraction = 0 /\ extractor.step = "idle"
    BY <1>1 DEF Quiet, NoTasks, Busy
  <2> QED BY <1>1, <2>1 DEF Inv, TextInv, Live, ExtractsCurrent
<1>2. Inv => SettledTextIsCurrent
  BY <1>1 DEF SettledTextIsCurrent, TextIsCurrent
<1> QED BY <1>2, AlwaysInv, PTL

\* The same for its preview, when every version has one.
THEOREM PreviewSettles == Spec => []SettledPreviewIsCurrent
<1>1. ASSUME Inv, Quiet, faults = 0, doc # Null, ~doc.deleted, AllDocx
      PROVE  PreviewIsCurrent
  <2>1. ~Busy /\ tasks.preview = 0 /\ converter.step = "idle"
    BY <1>1 DEF Quiet, NoTasks, Busy
  <2> QED BY <1>1, <2>1 DEF Inv, PreviewInv, Live, ConvertsCurrent
<1>2. Inv => SettledPreviewIsCurrent
  BY <1>1 DEF SettledPreviewIsCurrent, PreviewIsCurrent, AllDocx
<1> QED BY <1>2, AlwaysInv, PTL

=============================================================================
