------------------------ MODULE FirmLifecycleProofs -------------------------
(***************************************************************************)
(* Proofs about module FirmLifecycle, for every length of the trial, the   *)
(* grace period and the deletion delay, every set of keys and any number   *)
(* of concurrent requests.                                                 *)
(*                                                                         *)
(* The sweep decides on a snapshot and writes later.  The inductive        *)
(* invariant says what of the snapshot cannot be stale: the three dates,   *)
(* given or derived, and that its day is not in the future.                *)
(***************************************************************************)
EXTENDS FirmLifecycle, TLAPS

SameDates(f, g) ==
    /\ TrialEnd(f) = TrialEnd(g)
    /\ GraceEnd(f) = GraceEnd(g)
    /\ DeletionDue(f) = DeletionDue(g)

SnapshotIsUsable ==
    sweep # Null =>
        /\ firm \in Firm
        /\ SameDates(sweep.firm, firm)
        /\ sweep.now <= today

RequestsAreComplete ==
    \A r \in Requests :
        /\ request[r].step # "idle" => firm \in Firm
        /\ request[r].step \in {"activate", "applyLicense"} => request[r].key \in Keys
        /\ request[r].step = "changeEdition" => request[r].target \in EditionKey

IInv == TypeOK /\ NeverEarly /\ LicenceIsBacked /\ SnapshotIsUsable /\ RequestsAreComplete

-----------------------------------------------------------------------------

\* The dates of a firm are days (resolveTrialDates).
LEMMA DatesType ==
    ASSUME NEW f \in Firm
    PROVE  TrialEnd(f) \in Nat /\ GraceEnd(f) \in Nat /\ DeletionDue(f) \in Nat
<1>1. /\ f.createdAt \in Nat
      /\ f.trialEndsAt \in Nat \cup {Null}
      /\ f.graceEndsAt \in Nat \cup {Null}
      /\ f.deletionDueAt \in Nat \cup {Null}
  BY DEF Firm, Date
<1>2. TrialEnd(f) \in Nat
  BY <1>1, LifecycleAssumption DEF TrialEnd, Given
<1>3. GraceEnd(f) \in Nat
  BY <1>1, <1>2, LifecycleAssumption DEF GraceEnd, Given
<1>4. DeletionDue(f) \in Nat
  BY <1>1, <1>3, LifecycleAssumption DEF DeletionDue, Given
<1> QED BY <1>2, <1>3, <1>4

\* The patch of a sweep keeps the type of the row and its dates, and moves the
\* status only as far as the sweep's day allows (runFirmLifecycleSweep).
LEMMA PatchKeepsDates ==
    ASSUME NEW f \in Firm, NEW s \in Firm, NEW now \in Nat, SameDates(s, f)
    PROVE  /\ Patched(f, s, now) \in Firm
           /\ SameDates(Patched(f, s, now), f)
<1> DEFINE p == Patched(f, s, now)
<1>1. /\ TrialEnd(s) \in Nat /\ GraceEnd(s) \in Nat /\ DeletionDue(s) \in Nat
  BY DatesType
<1>2. SweptStatus(s, now) \in LifecycleStatus
  BY DEF SweptStatus, AfterSuspension, AfterGrace, AfterTrial, Firm, LifecycleStatus
<1>3. p \in Firm
  <2> DEFINE status == IF SweptStatus(s, now) # s.lifecycleStatus
                         THEN SweptStatus(s, now) ELSE f.lifecycleStatus
             trial == IF s.trialEndsAt = Null THEN TrialEnd(s) ELSE f.trialEndsAt
             grace == IF s.graceEndsAt = Null THEN GraceEnd(s) ELSE f.graceEndsAt
             due   == IF s.deletionDueAt = Null THEN DeletionDue(s) ELSE f.deletionDueAt
             suspended ==
                IF /\ AfterTrial(s, now) = "GRACE" /\ AfterGrace(s, now) = "SUSPENDED"
                   /\ s.suspendedAt = Null
                THEN now ELSE f.suspendedAt
             deleted == IF Deletes(s, now) THEN now ELSE f.deletedAt
  <2>1. p = [f EXCEPT !.trialEndsAt = trial, !.graceEndsAt = grace, !.deletionDueAt = due,
                      !.lifecycleStatus = status, !.suspendedAt = suspended,
                      !.deletedAt = deleted]
    BY DEF Patched, Firm
  <2>2. /\ status \in LifecycleStatus
        /\ trial \in Date /\ grace \in Date /\ due \in Date
        /\ suspended \in Date /\ deleted \in Date
    BY <1>1, <1>2 DEF Firm, Date
  <2> HIDE DEF p, status, trial, grace, due, suspended, deleted
  <2> QED BY <2>1, <2>2 DEF Firm
<1>4. /\ p.createdAt = f.createdAt
      /\ p.trialEndsAt = IF s.trialEndsAt = Null THEN TrialEnd(s) ELSE f.trialEndsAt
      /\ p.graceEndsAt = IF s.graceEndsAt = Null THEN GraceEnd(s) ELSE f.graceEndsAt
      /\ p.deletionDueAt = IF s.deletionDueAt = Null THEN DeletionDue(s) ELSE f.deletionDueAt
  BY DEF Patched, Firm
<1>5. Null \notin Nat
  BY LifecycleAssumption
<1>6. TrialEnd(p) = TrialEnd(f)
  BY <1>1, <1>4, <1>5 DEF TrialEnd, Given, SameDates
<1>7. GraceEnd(p) = GraceEnd(f)
  BY <1>1, <1>4, <1>5, <1>6 DEF GraceEnd, Given, SameDates
<1>8. DeletionDue(p) = DeletionDue(f)
  BY <1>1, <1>4, <1>5, <1>7 DEF DeletionDue, Given, SameDates
<1> QED BY <1>3, <1>6, <1>7, <1>8 DEF SameDates

\* A sweep changes the status only to one that is due on its day, never to a
\* licensed one, and marks a firm as deleted only when that is due.
LEMMA PatchIsDue ==
    ASSUME NEW f \in Firm, NEW s \in Firm, NEW now \in Nat, SameDates(s, f)
    PROVE  LET p == Patched(f, s, now)
           IN  /\ \/ p.lifecycleStatus = f.lifecycleStatus
                  \/ p.lifecycleStatus = "GRACE" /\ now >= TrialEnd(f)
                  \/ p.lifecycleStatus = "SUSPENDED" /\ now >= GraceEnd(f)
                  \/ p.lifecycleStatus = "DATA_DELETION_PENDING"
                  \/ p.lifecycleStatus = "PENDING_DELETION" /\ now >= DeletionDue(f)
               /\ \/ p.deletedAt = f.deletedAt
                  \/ p.deletedAt = now /\ now >= DeletionDue(f)
               /\ p.editionKey = f.editionKey
               /\ p.pendingEditionKey = f.pendingEditionKey
               /\ p.licenseKey = f.licenseKey
<1> DEFINE p == Patched(f, s, now)
<1>1. /\ p.lifecycleStatus = IF SweptStatus(s, now) # s.lifecycleStatus
                             THEN SweptStatus(s, now) ELSE f.lifecycleStatus
      /\ p.deletedAt = IF Deletes(s, now) THEN now ELSE f.deletedAt
      /\ p.editionKey = f.editionKey
      /\ p.pendingEditionKey = f.pendingEditionKey
      /\ p.licenseKey = f.licenseKey
  BY DEF Patched, Firm
<1>2. \/ SweptStatus(s, now) = s.lifecycleStatus
      \/ SweptStatus(s, now) = "GRACE" /\ now >= TrialEnd(s)
      \/ SweptStatus(s, now) = "SUSPENDED" /\ now >= GraceEnd(s)
      \/ SweptStatus(s, now) = "DATA_DELETION_PENDING"
      \/ SweptStatus(s, now) = "PENDING_DELETION" /\ now >= DeletionDue(s)
  BY DEF SweptStatus, Deletes, AfterSuspension, AfterGrace, AfterTrial
<1>3. Deletes(s, now) => now >= DeletionDue(s)
  BY DEF Deletes
<1> QED BY <1>1, <1>2, <1>3 DEF SameDates

-----------------------------------------------------------------------------

\* An installation that is not set up satisfies the invariant.
LEMMA InitIInv == Init => IInv
BY LifecycleAssumption DEF Init, IInv, TypeOK, NeverEarly, LicenceIsBacked, SnapshotIsUsable,
   RequestsAreComplete, Idle, RequestStep, Answer

\* Setup writes consistent dates.
LEMMA SetupIInv ==
    ASSUME IInv, NEW edition \in Editions, Setup(edition)
    PROVE  IInv'
<1> USE DEF IInv
<1> DEFINE row == [lifecycleStatus |-> "ACTIVE", editionKey |-> edition,
                   pendingEditionKey |-> Null, createdAt |-> today, trialEndsAt |-> Null,
                   graceEndsAt |-> Null, deletionDueAt |-> Null, suspendedAt |-> Null,
                   deletedAt |-> Null, licenseKey |-> Null]
<1>1. row \in Firm
  BY LifecycleAssumption DEF TypeOK, Firm, Date, LifecycleStatus
<1>2. /\ firm = Null
      /\ firm' = IF TrialEnabled(edition)
                   THEN [row EXCEPT !.trialEndsAt = TrialEnd(row), !.graceEndsAt = GraceEnd(row),
                                    !.deletionDueAt = DeletionDue(row)]
                   ELSE row
      /\ UNCHANGED <<today, sweep, request, answer>>
  BY DEF Setup
<1>3. /\ firm' \in Firm
      /\ firm'.lifecycleStatus = "ACTIVE"
      /\ firm'.deletedAt = Null
  <2>1. TrialEnd(row) \in Nat /\ GraceEnd(row) \in Nat /\ DeletionDue(row) \in Nat
    BY <1>1, DatesType
  <2> HIDE DEF row
  <2>2. row.lifecycleStatus = "ACTIVE" /\ row.deletedAt = Null
    BY DEF row
  <2> QED BY <1>1, <1>2, <2>1, <2>2 DEF Firm, Date
<1>4. TypeOK'
  BY <1>2, <1>3 DEF TypeOK
<1>5. NeverEarly' /\ LicenceIsBacked'
  BY <1>3 DEF NeverEarly, LicenceIsBacked
<1>6. SnapshotIsUsable'
  BY <1>2, NullAssumption DEF SnapshotIsUsable
<1>7. RequestsAreComplete'
  BY <1>2, <1>3 DEF RequestsAreComplete
<1> QED BY <1>4, <1>5, <1>6, <1>7

\* A sweep's write keeps the invariant, whatever was written since its snapshot.
LEMMA SweepWriteIInv ==
    ASSUME IInv, SweepWrite
    PROVE  IInv'
<1> USE DEF IInv
<1>1. /\ sweep # Null /\ sweep' = Null
      /\ UNCHANGED <<today, request, answer>>
  BY DEF SweepWrite
<1>2. /\ firm \in Firm /\ firm # Null
      /\ sweep.firm \in Firm /\ sweep.now \in Nat /\ today \in Nat
      /\ SameDates(sweep.firm, firm) /\ sweep.now <= today
  BY <1>1, NullAssumption DEF SnapshotIsUsable, TypeOK
<1>3. CASE firm' = firm
  BY <1>1, <1>2, <1>3 DEF TypeOK, NeverEarly, LicenceIsBacked, SnapshotIsUsable, RequestsAreComplete
<1>4. CASE firm' = Patched(firm, sweep.firm, sweep.now)
  <2>1. firm' \in Firm /\ SameDates(firm', firm)
    BY <1>2, <1>4, PatchKeepsDates
  <2>2. /\ \/ firm'.lifecycleStatus = firm.lifecycleStatus
           \/ firm'.lifecycleStatus = "GRACE" /\ sweep.now >= TrialEnd(firm)
           \/ firm'.lifecycleStatus = "SUSPENDED" /\ sweep.now >= GraceEnd(firm)
           \/ firm'.lifecycleStatus = "DATA_DELETION_PENDING"
           \/ firm'.lifecycleStatus = "PENDING_DELETION" /\ sweep.now >= DeletionDue(firm)
        /\ \/ firm'.deletedAt = firm.deletedAt
           \/ firm'.deletedAt = sweep.now /\ sweep.now >= DeletionDue(firm)
        /\ firm'.editionKey = firm.editionKey
        /\ firm'.pendingEditionKey = firm.pendingEditionKey
        /\ firm'.licenseKey = firm.licenseKey
    BY <1>2, <1>4, PatchIsDue
  <2>3. /\ TrialEnd(firm) \in Nat /\ GraceEnd(firm) \in Nat /\ DeletionDue(firm) \in Nat
    BY <1>2, DatesType
  <2>4. /\ TrialEnd(firm') = TrialEnd(firm)
        /\ GraceEnd(firm') = GraceEnd(firm)
        /\ DeletionDue(firm') = DeletionDue(firm)
    BY <2>1 DEF SameDates
  <2>5. TypeOK'
    BY <1>1, <2>1 DEF TypeOK
  <2>6. NeverEarly'
    BY <1>1, <1>2, <2>2, <2>3, <2>4 DEF NeverEarly
  <2>7. LicenceIsBacked'
    BY <1>1, <1>2, <2>2 DEF LicenceIsBacked
  <2>8. SnapshotIsUsable' /\ RequestsAreComplete'
    BY <1>1, <2>1 DEF SnapshotIsUsable, RequestsAreComplete
  <2> QED BY <2>5, <2>6, <2>7, <2>8
<1> QED BY <1>3, <1>4 DEF SweepWrite

\* Applying a licence keeps the invariant.
LEMMA ApplyLicenseIInv ==
    ASSUME IInv, NEW r \in Requests, ApplyLicense(r)
    PROVE  IInv' /\ SameDates(firm', firm)
<1> USE DEF IInv
<1>1. /\ request[r].key \in Keys
      /\ firm \in Firm
  BY DEF ApplyLicense, RequestsAreComplete
<1>2. /\ firm' = [firm EXCEPT !.licenseKey = request[r].key, !.lifecycleStatus = "LICENSED",
                              !.editionKey = request[r].key.edition, !.pendingEditionKey = Null]
      /\ request' = [request EXCEPT ![r] = Idle]
      /\ answer' = [answer EXCEPT ![r] = "activated"]
      /\ UNCHANGED <<today, sweep>>
  BY DEF ApplyLicense, Done
<1>3. request[r].key.edition \in EditionKey
  BY <1>1, LifecycleAssumption DEF Keys
<1>4. /\ firm' \in Firm
      /\ firm'.lifecycleStatus = "LICENSED"
      /\ firm'.licenseKey = request[r].key
      /\ firm'.editionKey = request[r].key.edition
      /\ firm'.pendingEditionKey = Null
      /\ firm'.deletedAt = firm.deletedAt
      /\ firm'.createdAt = firm.createdAt
      /\ firm'.trialEndsAt = firm.trialEndsAt
      /\ firm'.graceEndsAt = firm.graceEndsAt
      /\ firm'.deletionDueAt = firm.deletionDueAt
  BY <1>1, <1>2, <1>3 DEF Firm, LifecycleStatus
<1>5. SameDates(firm', firm)
  BY <1>4 DEF SameDates, TrialEnd, GraceEnd, DeletionDue
<1>6. firm # Null /\ firm' # Null
  BY <1>1, <1>4, NullAssumption
<1>7. TypeOK'
  BY <1>2, <1>4 DEF TypeOK, Idle, RequestStep, Answer
<1>8. NeverEarly'
  BY <1>2, <1>4, <1>5, <1>6 DEF NeverEarly, SameDates
<1>9. LicenceIsBacked'
  <2>1. request[r].key # Null
    BY <1>1, NullAssumption
  <2> QED BY <1>4, <2>1 DEF LicenceIsBacked
<1>10. SnapshotIsUsable'
  BY <1>2, <1>4, <1>5 DEF SnapshotIsUsable, SameDates
<1>11. RequestsAreComplete'
  BY <1>2, <1>4 DEF RequestsAreComplete, TypeOK, Idle
<1> QED BY <1>5, <1>7, <1>8, <1>9, <1>10, <1>11

\* So does a change of edition.
LEMMA ChangeEditionIInv ==
    ASSUME IInv, NEW r \in Requests, ChangeEdition(r)
    PROVE  IInv' /\ SameDates(firm', firm)
<1> USE DEF IInv
<1>1. /\ request[r].target \in EditionKey
      /\ firm \in Firm
  BY DEF ChangeEdition, RequestsAreComplete
<1>2. /\ firm' = [firm EXCEPT !.licenseKey = Null, !.pendingEditionKey = request[r].target,
                              !.lifecycleStatus = "ACTIVE", !.suspendedAt = Null]
      /\ request' = [request EXCEPT ![r] = Idle]
      /\ UNCHANGED <<today, sweep, answer>>
  BY DEF ChangeEdition, Changed
<1>4. /\ firm' \in Firm
      /\ firm'.lifecycleStatus = "ACTIVE"
      /\ firm'.deletedAt = firm.deletedAt
      /\ firm'.createdAt = firm.createdAt
      /\ firm'.trialEndsAt = firm.trialEndsAt
      /\ firm'.graceEndsAt = firm.graceEndsAt
      /\ firm'.deletionDueAt = firm.deletionDueAt
  BY <1>1, <1>2 DEF Firm, LifecycleStatus, Date
<1>5. SameDates(firm', firm)
  BY <1>4 DEF SameDates, TrialEnd, GraceEnd, DeletionDue
<1>6. firm # Null /\ firm' # Null
  BY <1>1, <1>4, NullAssumption
<1>7. TypeOK'
  <2>1. Idle \in [step : RequestStep, key : Keys \cup {Null}, target : EditionKey \cup {Null}]
    BY DEF Idle, RequestStep
  <2> QED BY <1>2, <1>4, <2>1 DEF TypeOK
<1>8. NeverEarly' /\ LicenceIsBacked'
  BY <1>2, <1>4, <1>5, <1>6 DEF NeverEarly, SameDates, LicenceIsBacked
<1>10. SnapshotIsUsable'
  BY <1>2, <1>4, <1>5 DEF SnapshotIsUsable, SameDates
<1>11. RequestsAreComplete'
  BY <1>2, <1>4 DEF RequestsAreComplete, TypeOK, Idle
<1> QED BY <1>5, <1>7, <1>8, <1>10, <1>11

\* A request that starts or moves on leaves the firm alone.
LEMMA RequestIInv ==
    ASSUME IInv, NEW r \in Requests,
           \/ \E key \in Keys : SubmitKey(r, key)
           \/ RejectKey(r) \/ RepeatKey(r) \/ AcceptKey(r)
           \/ \E edition \in Editions : SubmitChange(r, edition)
    PROVE  IInv' /\ UNCHANGED firm
<1> USE DEF IInv
<1>1. UNCHANGED <<today, firm, sweep>>
  BY DEF SubmitKey, RejectKey, RepeatKey, AcceptKey, SubmitChange
<1>2. NeverEarly' /\ LicenceIsBacked' /\ SnapshotIsUsable'
  BY <1>1 DEF NeverEarly, LicenceIsBacked, SnapshotIsUsable
<1>3. ASSUME NEW key \in Keys, SubmitKey(r, key)
      PROVE  TypeOK' /\ RequestsAreComplete'
  <2>1. firm \in Firm
    BY <1>3 DEF SubmitKey, TypeOK
  <2> QED BY <1>1, <1>3, <2>1 DEF SubmitKey, TypeOK, RequestsAreComplete, RequestStep, Answer
<1>4. ASSUME RejectKey(r) \/ RepeatKey(r)
      PROVE  TypeOK' /\ RequestsAreComplete'
  BY <1>1, <1>4 DEF RejectKey, RepeatKey, Done, TypeOK, RequestsAreComplete, Idle,
     RequestStep, Answer
<1>5. ASSUME AcceptKey(r)
      PROVE  TypeOK' /\ RequestsAreComplete'
  BY <1>1, <1>5 DEF AcceptKey, TypeOK, RequestsAreComplete, RequestStep
<1>6. ASSUME NEW edition \in Editions, SubmitChange(r, edition)
      PROVE  TypeOK' /\ RequestsAreComplete'
  <2>1. firm \in Firm /\ edition \in EditionKey
    BY <1>6, LifecycleAssumption DEF SubmitChange, TypeOK
  <2> QED BY <1>1, <1>6, <2>1 DEF SubmitChange, TypeOK, RequestsAreComplete, RequestStep, Answer
<1> QED BY <1>1, <1>2, <1>3, <1>4, <1>5, <1>6

\* Every step of the sweep, of a request and of the clock keeps the invariant.
LEMMA NextIInv == IInv /\ [Next]_vars => IInv'
<1> SUFFICES ASSUME IInv, [Next]_vars PROVE IInv'
  OBVIOUS
<1> USE DEF IInv
<1>1. CASE Tick
  <2>1. /\ today \in Nat /\ today' = today + 1
        /\ UNCHANGED <<firm, sweep, request, answer>>
    BY <1>1 DEF Tick, TypeOK
  <2>2. TypeOK' /\ LicenceIsBacked' /\ RequestsAreComplete'
    BY <2>1 DEF TypeOK, LicenceIsBacked, RequestsAreComplete
  <2>3. NeverEarly'
    <3>1. firm # Null => TrialEnd(firm) \in Nat /\ GraceEnd(firm) \in Nat
                                               /\ DeletionDue(firm) \in Nat
      BY DatesType DEF TypeOK
    <3> QED BY <2>1, <3>1 DEF NeverEarly
  <2>4. SnapshotIsUsable'
    BY <2>1 DEF SnapshotIsUsable, TypeOK
  <2> QED BY <2>2, <2>3, <2>4
<1>2. CASE SweepRead
  <2>1. /\ firm \in Firm /\ today \in Nat
        /\ sweep' = [firm |-> firm, now |-> today]
        /\ UNCHANGED <<today, firm, request, answer>>
    BY <1>2 DEF SweepRead, TypeOK
  <2>2. TypeOK' /\ NeverEarly' /\ LicenceIsBacked' /\ RequestsAreComplete'
    BY <2>1 DEF TypeOK, NeverEarly, LicenceIsBacked, RequestsAreComplete
  <2>3. SnapshotIsUsable'
    BY <2>1 DEF SnapshotIsUsable, SameDates
  <2> QED BY <2>2, <2>3
<1>3. CASE SweepAborted
  BY <1>3 DEF SweepAborted, TypeOK, NeverEarly, LicenceIsBacked, SnapshotIsUsable,
     RequestsAreComplete
<1>4. CASE UNCHANGED vars
  BY <1>4 DEF vars, TypeOK, NeverEarly, LicenceIsBacked, SnapshotIsUsable, RequestsAreComplete
<1> QED BY <1>1, <1>2, <1>3, <1>4, SetupIInv, SweepWriteIInv, ApplyLicenseIInv,
           ChangeEditionIInv, RequestIInv DEF Next

\* The inductive invariant holds in every behaviour of the sweep and requests.
THEOREM Invariance == Spec => []IInv
BY InitIInv, NextIInv, PTL DEF Spec

\* The row, the snapshot and the requests keep their types.
THEOREM TypeCorrect == Spec => []TypeOK
BY Invariance, PTL DEF IInv

\* No firm enters grace, suspension or deletion before its day, however stale
\* the snapshot is that the sweep decides on.
THEOREM NeverDegradedEarly == Spec => []NeverEarly
BY Invariance, PTL DEF IInv

\* A licensed firm has a key for the edition it runs and no change pending.
THEOREM LicenceBacked == Spec => []LicenceIsBacked
BY Invariance, PTL DEF IInv

\* No sweep, activation or edition change moves the dates of a firm.
THEOREM DatesNeverMove == Spec => DatesAreFixed
<1>1. IInv /\ [Next]_vars =>
        [firm # Null => /\ TrialEnd(firm)' = TrialEnd(firm)
                        /\ GraceEnd(firm)' = GraceEnd(firm)
                        /\ DeletionDue(firm)' = DeletionDue(firm)]_vars
  <2> SUFFICES ASSUME IInv, Next, firm # Null
               PROVE  SameDates(firm', firm)
    BY DEF SameDates, TrialEnd, GraceEnd, DeletionDue
  <2>1. CASE SweepWrite
    <3>1. /\ firm \in Firm /\ sweep.firm \in Firm /\ sweep.now \in Nat
          /\ SameDates(sweep.firm, firm)
      BY <2>1 DEF IInv, SnapshotIsUsable, SweepWrite, TypeOK
    <3>2. CASE firm' = firm
      BY <3>2 DEF SameDates
    <3>3. CASE firm' = Patched(firm, sweep.firm, sweep.now)
      BY <3>1, <3>3, PatchKeepsDates
    <3> QED BY <2>1, <3>2, <3>3 DEF SweepWrite
  <2>2. CASE UNCHANGED firm
    BY <2>2 DEF SameDates
  <2>3. ASSUME NEW edition \in Editions, Setup(edition)
        PROVE  FALSE
    BY <2>3 DEF Setup
  <2>4. ASSUME NEW r \in Requests, ApplyLicense(r) \/ ChangeEdition(r)
        PROVE  SameDates(firm', firm)
    BY <2>4, ApplyLicenseIInv, ChangeEditionIInv
  <2>5. CASE Tick \/ SweepRead \/ SweepAborted
    BY <2>2, <2>5 DEF Tick, SweepRead, SweepAborted
  <2>6. ASSUME NEW r \in Requests,
               \/ \E key \in Keys : SubmitKey(r, key)
               \/ RejectKey(r) \/ RepeatKey(r) \/ AcceptKey(r)
               \/ \E edition \in Editions : SubmitChange(r, edition)
        PROVE  UNCHANGED firm
    BY <2>6, RequestIInv
  <2> QED BY <2>1, <2>2, <2>3, <2>4, <2>5, <2>6 DEF Next
<1> QED BY <1>1, Invariance, PTL DEF Spec, DatesAreFixed

=============================================================================
