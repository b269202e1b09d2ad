---------------------------- MODULE FirmLifecycle ---------------------------
(***************************************************************************)
(* The life of the firm of a desktop installation: trial, grace period,    *)
(* suspension, deletion and licence.  Three parties change its row:        *)
(*   - the daily sweep (modules/editions/lifecycle.service.ts), which reads *)
(*     the row, decides on that snapshot and writes a patch later;         *)
(*   - licence activations (license.service.ts), which check the row and   *)
(*     then write it;                                                      *)
(*   - edition change requests (modules/firms/firms.service.ts), one       *)
(*     transaction each.                                                   *)
(* An API request passes the firmLifecycleWriteGuard before its handler.   *)
(* Time is counted in days, the unit of all the lifecycle dates.           *)
(***************************************************************************)
EXTENDS Integers

CONSTANTS
    Editions,       \* the editions in play
    Requests,       \* API requests in flight at a time
    TrialDays,      \* TRIAL_DAYS
    GraceDays,      \* GRACE_DAYS
    DeletionDelay,  \* DATA_DELETION_DELAY_HOURS, in days
    Expiries,       \* the days on which licence keys expire
    MaxDay,         \* bound: the clock stops here; the later days look the same
    Null            \* a column without a value

EditionKey == {"SOLO_OFFLINE", "SOLO_ONLINE", "LOCAL_FIRM_OFFLINE", "LOCAL_FIRM_ONLINE",
               "ENTERPRISE"}

ASSUME LifecycleAssumption ==
    /\ Editions \subseteq EditionKey
    /\ TrialDays \in Nat /\ GraceDays \in Nat /\ DeletionDelay \in Nat
    /\ Expiries \subseteq Nat
    /\ MaxDay \in Nat
    /\ Null \notin Nat /\ Null \notin EditionKey

LifecycleStatus == {"ACTIVE", "GRACE", "SUSPENDED", "PENDING_DELETION",
                    "DATA_DELETION_PENDING", "LICENSED"}

\* A licence key, by what its payload says; two keys are equal if their hashes are.
Keys == [edition : Editions, expiresAt : Expiries]

VARIABLES
    today,      \* the current day
    firm,       \* the Firm row and its settings, or Null before setup
    sweep,      \* the running sweep: its snapshot and its day, or Null
    request,    \* the step and the licence key or edition of each request
    answer      \* what the latest activation of each request slot was told

vars == <<today, firm, sweep, request, answer>>

-----------------------------------------------------------------------------

Date == Nat \cup {Null}

Firm == [lifecycleStatus : LifecycleStatus,
         editionKey : EditionKey, pendingEditionKey : EditionKey \cup {Null},
         createdAt : Nat, trialEndsAt : Date, graceEndsAt : Date, deletionDueAt : Date,
         suspendedAt : Date, deletedAt : Date,
         licenseKey : Keys \cup {Null}]

RequestStep == {"idle", "activate", "applyLicense", "changeEdition"}
Answer == {"none", "activated", "rejected", "locked"}

TypeOK ==
    /\ today \in Nat
    /\ firm \in Firm \cup {Null}
    /\ sweep \in [firm : Firm, now : Nat] \cup {Null}
    /\ request \in [Requests -> [step : RequestStep, key : Keys \cup {Null},
                                 target : EditionKey \cup {Null}]]
    /\ answer \in [Requests -> Answer]

\* Null is no row and no key.
ASSUME NullAssumption == Null \notin Firm /\ Null \notin Keys

Idle == [step |-> "idle", key |-> Null, target |-> Null]

Init ==
    /\ today = 0
    /\ firm = Null
    /\ sweep = Null
    /\ request = [r \in Requests |-> Idle]
    /\ answer = [r \in Requests |-> "none"]

-----------------------------------------------------------------------------
(***************************************************************************)
(* Editions and dates.                                                     *)
(***************************************************************************)

TrialEnabled(edition) == edition # "ENTERPRISE"
SelfServe(edition)    == edition # "ENTERPRISE"

Given(date, default) == IF date # Null THEN date ELSE default

\* resolveTrialDates: a date that is missing follows from the one before it.
TrialEnd(f)    == Given(f.trialEndsAt, f.createdAt + TrialDays)
GraceEnd(f)    == Given(f.graceEndsAt, TrialEnd(f) + GraceDays)
DeletionDue(f) == Given(f.deletionDueAt, GraceEnd(f) + DeletionDelay)

\* Setup of the installation, refused once there is a firm.
Setup(edition) ==
    LET row == [lifecycleStatus |-> "ACTIVE", editionKey |-> edition,
                pendingEditionKey |-> Null, createdAt |-> today, trialEndsAt |-> Null,
                graceEndsAt |-> Null, deletionDueAt |-> Null, suspendedAt |-> Null,
                deletedAt |-> Null, licenseKey |-> Null]
    IN  /\ firm = Null
        /\ firm' = IF TrialEnabled(edition)
                     THEN [row EXCEPT !.trialEndsAt = TrialEnd(row),
                                      !.graceEndsAt = GraceEnd(row),
                                      !.deletionDueAt = DeletionDue(row)]
                     ELSE row
        /\ UNCHANGED <<today, sweep, request, answer>>

Tick ==
    /\ today < MaxDay
    /\ today' = today + 1
    /\ UNCHANGED <<firm, sweep, request, answer>>

-----------------------------------------------------------------------------
(***************************************************************************)
(* runFirmLifecycleSweep.  The transitions are tried one after the other,  *)
(* each on what the one before it decided, so that one sweep may take      *)
(* several of them.                                                        *)
(***************************************************************************)

AfterTrial(f, now) ==
    IF f.lifecycleStatus = "ACTIVE" /\ now >= TrialEnd(f) THEN "GRACE" ELSE f.lifecycleStatus

\* Seeded fault: the grace period is measured against the end of the trial.
AfterGraceEarly(f, now) ==
    IF AfterTrial(f, now) = "GRACE" /\ now >= TrialEnd(f) THEN "SUSPENDED"
    ELSE AfterTrial(f, now)

AfterGrace(f, now) ==
    IF AfterTrial(f, now) = "GRACE" /\ now >= GraceEnd(f) THEN "SUSPENDED"
    ELSE AfterTrial(f, now)

AfterSuspension(f, now) ==
    IF AfterGrace(f, now) = "SUSPENDED" /\ now >= DeletionDue(f) THEN "DATA_DELETION_PENDING"
    ELSE AfterGrace(f, now)

Deletes(f, now) ==
    /\ AfterSuspension(f, now) = "DATA_DELETION_PENDING"
    /\ now >= DeletionDue(f)
    /\ f.deletedAt = Null

SweptStatus(f, now) ==
    IF Deletes(f, now) THEN "PENDING_DELETION" ELSE AfterSuspension(f, now)

\* Seeded fault: a firm is not looked at again once it has left its trial.
SubjectToSweepOnce(f) == f.lifecycleStatus = "ACTIVE" /\ TrialEnabled(f.editionKey)

SubjectToSweep(f) == f.lifecycleStatus # "LICENSED" /\ TrialEnabled(f.editionKey)

\* Seeded fault: the trial of a firm without dates starts with the sweep.
PatchedFromToday(row, s, now) ==
    [row EXCEPT
        !.trialEndsAt = IF s.trialEndsAt = Null THEN now + TrialDays ELSE @,
        !.lifecycleStatus =
            IF SweptStatus(s, now) # s.lifecycleStatus THEN SweptStatus(s, now) ELSE @]

\* The row after the patch the sweep computed from its snapshot s: only the
\* columns the patch names are written, the status only if it changed.
Patched(row, s, now) ==
    [row EXCEPT
        !.trialEndsAt   = IF s.trialEndsAt = Null THEN TrialEnd(s) ELSE @,
        !.graceEndsAt   = IF s.graceEndsAt = Null THEN GraceEnd(s) ELSE @,
        !.deletionDueAt = IF s.deletionDueAt = Null THEN DeletionDue(s) ELSE @,
        !.lifecycleStatus =
            IF SweptStatus(s, now) # s.lifecycleStatus THEN SweptStatus(s, now) ELSE @,
        !.suspendedAt =
            IF /\ AfterTrial(s, now) = "GRACE" /\ AfterGrace(s, now) = "SUSPENDED"
               /\ s.suspendedAt = Null
            THEN now ELSE @,
        !.deletedAt = IF Deletes(s, now) THEN now ELSE @]

\* Deleted firms are not listed.  The sweep's date is taken when it starts.
SweepRead ==
    /\ firm # Null
    /\ firm.deletedAt = Null
    /\ sweep = Null
    /\ sweep' = [firm |-> firm, now |-> today]
    /\ UNCHANGED <<today, firm, request, answer>>

SweepWrite ==
    /\ sweep # Null
    /\ firm' = IF SubjectToSweep(sweep.firm) THEN Patched(firm, sweep.firm, sweep.now)
               ELSE firm
    /\ sweep' = Null
    /\ UNCHANGED <<today, request, answer>>

\* The application is closed or the database fails in between; the next sweep
\* is that of another day.
SweepAborted ==
    /\ sweep # Null
    /\ sweep' = Null
    /\ UNCHANGED <<today, firm, request, answer>>

-----------------------------------------------------------------------------
(***************************************************************************)
(* API requests.  The write guard looks at the status the session lookup   *)
(* has read, before the handler runs.                                      *)
(***************************************************************************)

WriteBlocked == firm.lifecycleStatus \in {"SUSPENDED", "PENDING_DELETION"}

SubmitKey(r, key) ==
    /\ firm # Null
    /\ request[r].step = "idle"
    /\ request' = [request EXCEPT ![r] =
                        [step |-> IF WriteBlocked THEN "idle" ELSE "activate",
                         key |-> key, target |-> Null]]
    /\ answer' = [answer EXCEPT ![r] = IF WriteBlocked THEN "locked" ELSE "none"]
    /\ UNCHANGED <<today, firm, sweep>>

\* What activateLicense asks of a key: it is for a self-serve edition, for the
\* edition the firm is to have, and has not expired.
Matches(f, key) == key.edition = Given(f.pendingEditionKey, f.editionKey)

Accepts(f, key) == SelfServe(key.edition) /\ Matches(f, key) /\ key.expiresAt > today

AlreadyActivated(f, key) ==
    /\ f.licenseKey = key
    /\ f.lifecycleStatus = "LICENSED"
    /\ f.pendingEditionKey = Null
    /\ f.editionKey = key.edition

Done(r, code) ==
    /\ request' = [request EXCEPT ![r] = Idle]
    /\ answer' = [answer EXCEPT ![r] = code]

\* activateLicense: the checks, on a row that is read here.
RejectKey(r) ==
    /\ request[r].step = "activate"
    /\ ~Accepts(firm, request[r].key)
    /\ Done(r, "rejected")
    /\ UNCHANGED <<today, firm, sweep>>

RepeatKey(r) ==
    /\ request[r].step = "activate"
    /\ Accepts(firm, request[r].key)
    /\ AlreadyActivated(firm, request[r].key)
    /\ Done(r, "activated")
    /\ UNCHANGED <<today, firm, sweep>>

AcceptKey(r) ==
    /\ request[r].step = "activate"
    /\ Accepts(firm, request[r].key)
    /\ ~AlreadyActivated(firm, request[r].key)
    /\ request' = [request EXCEPT ![r].step = "applyLicense"]
    /\ UNCHANGED <<today, firm, sweep, answer>>

\* Seeded fault: the firm gets the edition it asked for, not that of the key.
ApplyPendingEdition(r) ==
    /\ request[r].step = "applyLicense"
    /\ firm' = [firm EXCEPT !.licenseKey = request[r].key,
                            !.lifecycleStatus = "LICENSED",
                            !.editionKey = firm.pendingEditionKey,
                            !.pendingEditionKey = Null]
    /\ Done(r, "activated")
    /\ UNCHANGED <<today, sweep>>

\* applyLicenseActivation: one transaction, whatever the row says by now.
ApplyLicense(r) ==
    /\ request[r].step = "applyLicense"
    /\ firm' = [firm EXCEPT !.licenseKey = request[r].key,
                            !.lifecycleStatus = "LICENSED",
                            !.editionKey = request[r].key.edition,
                            !.pendingEditionKey = Null]
    /\ Done(r, "activated")
    /\ UNCHANGED <<today, sweep>>

SubmitChange(r, edition) ==
    /\ firm # Null
    /\ request[r].step = "idle"
    /\ SelfServe(edition)
    /\ ~WriteBlocked
    /\ request' = [request EXCEPT ![r] =
                        [step |-> "changeEdition", key |-> Null, target |-> edition]]
    /\ answer' = [answer EXCEPT ![r] = "none"]
    /\ UNCHANGED <<today, firm, sweep>>

\* Seeded fault: the firm stays licensed for its old edition.
ChangedKeepingStatus(f, edition) ==
    [f EXCEPT !.licenseKey = Null, !.pendingEditionKey = edition, !.suspendedAt = Null]

\* The licence is dropped and the firm is active, its dates are left alone.
Changed(f, edition) ==
    [f EXCEPT !.licenseKey = Null, !.pendingEditionKey = edition,
              !.lifecycleStatus = "ACTIVE", !.suspendedAt = Null]

ChangeEdition(r) ==
    /\ request[r].step = "changeEdition"
    /\ firm' = Changed(firm, request[r].target)
    /\ request' = [request EXCEPT ![r] = Idle]
    /\ UNCHANGED <<today, sweep, answer>>

-----------------------------------------------------------------------------

Next ==
    \/ \E edition \in Editions : Setup(edition)
    \/ Tick
    \/ SweepRead
    \/ SweepWrite
    \/ SweepAborted
    \/ \E r \in Requests :
        \/ \E key \in Keys : SubmitKey(r, key)
        \/ RejectKey(r)
        \/ RepeatKey(r)
        \/ AcceptKey(r)
        \/ ApplyLicense(r)
        \/ \E edition \in Editions : SubmitChange(r, edition)
        \/ ChangeEdition(r)

Spec == Init /\ [][Next]_vars

(***************************************************************************)
(* Days pass, the application is open at the time of the sweep again and   *)
(* again, and a sweep that has read its snapshot is not cut short every    *)
(* time.  Nothing is promised of requests.                                 *)
(***************************************************************************)
Fairness == WF_vars(Tick) /\ WF_vars(SweepRead) /\ SF_vars(SweepWrite)

FairSpec == Spec /\ Fairness

-----------------------------------------------------------------------------
(***************************************************************************)
(* Properties.                                                             *)
(***************************************************************************)

\* A firm is never degraded before its day, however late the sweep's write
\* comes and whatever requests came between (the date tests of the sweep).
NeverEarly ==
    firm # Null =>
        /\ firm.lifecycleStatus = "GRACE" => today >= TrialEnd(firm)
        /\ firm.lifecycleStatus = "SUSPENDED" => today >= GraceEnd(firm)
        /\ firm.lifecycleStatus = "PENDING_DELETION" => today >= DeletionDue(firm)
        /\ firm.deletedAt # Null => firm.deletedAt >= DeletionDue(firm)

\* A licensed firm holds a key for the edition it runs, and no edition change
\* is pending: activations and change requests in any order and overlap leave
\* the two tables consistent (applyLicenseActivation, requestEditionChange).
LicenceIsBacked ==
    (firm # Null /\ firm.lifecycleStatus = "LICENSED") =>
        /\ firm.licenseKey # Null
        /\ firm.licenseKey.edition = firm.editionKey
        /\ firm.pendingEditionKey = Null

\* Trial dates that are set are never moved, by a sweep that fills in missing
\* ones from an old snapshot or by an edition change (the patch of the sweep).
DatesAreFixed ==
    [][firm # Null => /\ TrialEnd(firm)' = TrialEnd(firm)
                      /\ GraceEnd(firm)' = GraceEnd(firm)
                      /\ DeletionDue(firm)' = DeletionDue(firm)]_vars

\* Once the grace period is over, a trial firm is blocked sooner or later unless
\* it is licensed, whatever edition changes it asks for (the daily sweep).
TrialIsEnforced ==
    (firm # Null /\ firm.deletedAt = Null /\ TrialEnabled(firm.editionKey)
                 /\ today >= GraceEnd(firm))
        ~> (firm # Null /\ firm.lifecycleStatus \in {"SUSPENDED", "PENDING_DELETION", "LICENSED"})

=============================================================================
