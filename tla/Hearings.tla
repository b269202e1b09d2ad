------------------------------ MODULE Hearings ------------------------------
(***************************************************************************)
(* The hearings (CaseSession rows) of a case, the calendar events and the  *)
(* follow-up hearings that go with them, the lawyers told of them, and the *)
(* daily scan that sends reminders.                                        *)
(*                                                                         *)
(* A handler of hearings.service.ts is a READ COMMITTED transaction, one   *)
(* action per statement other transactions can come between.  A row it     *)
(* updates stays locked until it commits, so the commit writes what was    *)
(* requested over the row as it is then.  The HEARING_ASSIGNED message is  *)
(* the exception: dispatchNotification commits it on a connection of its   *)
(* own before the handler does.                                            *)
(*                                                                         *)
(* A day has one slot: two hearings conflict (are less than an hour apart) *)
(* when they are on the same day.  The case itself is not deleted.         *)
(* Outcome and notes are left out: no property tells them apart.           *)
(***************************************************************************)
EXTENDS Integers, Sequences

CONSTANTS
    Hearings,     \* ids a hearing can get
    Lawyers,      \* users a hearing can be assigned to
    Assignments,  \* active CaseAssignment rows of the case, which stay as they are
    Txs,          \* requests that run at the same time
    Windows,      \* how many days ahead the scan looks, in its order
    LastDay,      \* bound: the days are 0 .. LastDay
    MaxRequests,  \* bound: how many requests are made
    None

Days == 0 .. LastDay

VARIABLES
    hearings,  \* CaseSession rows, None for an id that is not used
    events,    \* startsAt of the Event of a hearing
    told,      \* <<lawyer, hearing>> of every HEARING_ASSIGNED dispatched
    pc,        \* the statement a request is about to execute
    req,       \* its payload
    seen,      \* the lawyer "existing" has, the follow-up it found
    requests,  \* how many requests were made
    missed,    \* auxiliary: hearings scheduled since a request checked for conflicts
    unseen,    \* auxiliary: pairs neither of which was checked against the other
    day,       \* today
    scan,      \* the reminder scan
    sent       \* reminders dispatched

rowVars  == <<hearings, events, unseen>>
txVars   == <<pc, req, seen, requests, missed>>
scanVars == <<day, scan, sent>>
vars     == <<rowVars, told, txVars, scanVars>>

Hearing == [at : Days, next : Days \cup {None}, lawyer : Lawyers \cup {None},
            parent : Hearings \cup {None}, deleted : BOOLEAN]

ASSUME HearingsAssumption ==
    /\ LastDay \in Nat /\ MaxRequests \in Nat
    /\ Windows \in Seq(Nat)
    /\ \A i, j \in 1 .. Len(Windows) : Windows[i] = Windows[j] => i = j
    /\ None \notin Hearings \cup Lawyers \cup Days \cup Hearing

\* CreateHearingDto and UpdateHearingDto; the other two requests have no dates.
Schedule == [kind : {"create", "update"}, hearing : Hearings, at : Days,
             next : Days \cup {None}, lawyer : Lawyers \cup {None}]
Other    == [kind : {"outcome", "delete"}, hearing : Hearings, at : {None},
             next : {None}, lawyer : {None}]
Request  == Schedule \cup Other

Reminder == [hearing : Hearings, assignment : Assignments, window : Nat, at : Days]

Existing == {h \in Hearings : hearings[h] # None}
Live     == {h \in Existing : ~hearings[h].deleted}

\* findFollowUpHearingByParentId; parentSessionId is unique, deleted rows included.
FollowUps(h) == {c \in Existing : hearings[c].parent = h}

-----------------------------------------------------------------------------
(***************************************************************************)
(* Transactions.                                                           *)
(***************************************************************************)

Steps == {"idle", "check", "write", "find", "link", "notify", "commit"}

\* Ids a request has: rows it inserted, or updated and keeps locked.
Target(t) == IF \/ pc[t] \in {"find", "link", "notify", "commit"}
                \/ pc[t] # "idle" /\ req[t].kind = "create"
             THEN {req[t].hearing} ELSE {}
Linked(t) == IF pc[t] \in {"notify", "commit"} /\ req[t].next # None
             THEN {seen[t].followUp} ELSE {}
Held(t)   == Target(t) \cup Linked(t)

Free(t, h)   == \A u \in Txs \ {t} : h \notin Held(u)
FreshId(t,h) == h \notin Existing /\ h \notin Held(t) /\ Free(t, h)

GoTo(t, step) == pc' = [pc EXCEPT ![t] = step]

NoRequest == [kind |-> "none", hearing |-> None, at |-> None,
              next |-> None, lawyer |-> None]
NothingSeen == [lawyer |-> None, followUp |-> None]

\* The request ends: it was answered or refused.
Finish(t) ==
    /\ GoTo(t, "idle")
    /\ req' = [req EXCEPT ![t] = NoRequest]
    /\ seen' = [seen EXCEPT ![t] = NothingSeen]

CanBegin(t) == pc[t] = "idle" /\ requests < MaxRequests

\* A request that schedules nothing has no conflict to look for.
Begin(t, r, previous, step) ==
    /\ requests' = requests + 1
    /\ req' = [req EXCEPT ![t] = r]
    /\ seen' = [seen EXCEPT ![t] = [lawyer |-> previous, followUp |-> None]]
    /\ GoTo(t, step)
    /\ UNCHANGED <<rowVars, told, missed, scanVars>>

\* parseAndValidateNextSessionAt
ValidDates(r) == r.next # None => r.next > r.at

\* Seeded fault: only a new hearing is checked for conflicts.
FirstStepCreateOnly(r) ==
    IF r.kind = "create" /\ r.lawyer # None THEN "check" ELSE "write"

FirstStep(r) ==
    IF r.kind \in {"create", "update"} /\ r.lawyer # None THEN "check" ELSE "write"

CreateHearing(t, r) ==
    /\ r.kind = "create"
    /\ FreshId(t, r.hearing)
    /\ ValidDates(r)
    /\ Begin(t, r, None, FirstStep(r))

UpdateHearing(t, r) ==
    /\ r.kind = "update"
    /\ r.hearing \in Live
    /\ ValidDates(r)
    /\ Begin(t, r, hearings[r.hearing].lawyer, FirstStep(r))

UpdateHearingOutcome(t, r) ==
    /\ r.kind = "outcome"
    /\ r.hearing \in Live
    /\ Begin(t, r, None, FirstStep(r))

DeleteHearing(t, r) ==
    /\ r.kind = "delete"
    /\ r.hearing \in Live
    /\ Begin(t, r, None, FirstStep(r))

\* findHearingConflicts: live hearings of the lawyer in the slot, but for the
\* one that is changed.
Conflicts(r) ==
    {g \in Live \ {r.hearing} : hearings[g].lawyer = r.lawyer /\ hearings[g].at = r.at}

\* checkConflictInTx
CheckConflict(t) ==
    /\ pc[t] = "check"
    /\ Conflicts(req[t]) = {}
    /\ GoTo(t, "write")
    /\ missed' = [missed EXCEPT ![t] = {}]
    /\ UNCHANGED <<rowVars, told, req, seen, requests, scanVars>>

ConflictFound(t) ==
    /\ pc[t] = "check"
    /\ Conflicts(req[t]) # {}
    /\ Finish(t)
    /\ UNCHANGED <<rowVars, told, requests, missed, scanVars>>

Schedules(t) == req[t].kind \in {"create", "update"}

\* Seeded fault: taking the lawyer off a hearing is a change of lawyer too.
TellsAnyChange(t) == Schedules(t) /\ req[t].lawyer # seen[t].lawyer

\* Seeded fault: a lawyer is told only of a hearing that had none.
TellsFirstOnly(t) == Schedules(t) /\ req[t].lawyer # None /\ seen[t].lawyer = None

\* updateHearing tells a lawyer other than the one it read, createHearing any.
Tells(t) == Schedules(t) /\ req[t].lawyer \notin {None, seen[t].lawyer}
AfterRows(t) == IF Tells(t) THEN "notify" ELSE "commit"

\* INSERT or UPDATE of the row and of its event.  The UPDATE names the id only:
\* a row deleted meanwhile is changed all the same.
WriteHearing(t) ==
    /\ pc[t] = "write"
    /\ Free(t, req[t].hearing)
    /\ GoTo(t, IF req[t].next # None THEN "find" ELSE AfterRows(t))
    /\ UNCHANGED <<rowVars, told, req, seen, requests, missed, scanVars>>

\* upsertFollowUpSessionIfNeeded looks for a live follow-up,
FindFollowUp(t) ==
    /\ pc[t] = "find"
    /\ \/ \E c \in FollowUps(req[t].hearing) \cap Live :
              seen' = [seen EXCEPT ![t].followUp = c]
       \/ /\ FollowUps(req[t].hearing) \cap Live = {}
          /\ UNCHANGED seen
    /\ GoTo(t, "link")
    /\ UNCHANGED <<rowVars, told, req, requests, missed, scanVars>>

\* and updates it,
UpdateFollowUp(t) ==
    /\ pc[t] = "link"
    /\ seen[t].followUp # None
    /\ Free(t, seen[t].followUp)
    /\ GoTo(t, AfterRows(t))
    /\ UNCHANGED <<rowVars, told, req, seen, requests, missed, scanVars>>

\* or inserts one,
CreateFollowUp(t, c) ==
    /\ pc[t] = "link"
    /\ seen[t].followUp = None
    /\ FollowUps(req[t].hearing) = {}
    /\ FreshId(t, c)
    /\ seen' = [seen EXCEPT ![t].followUp = c]
    /\ GoTo(t, AfterRows(t))
    /\ UNCHANGED <<rowVars, told, req, requests, missed, scanVars>>

\* which the unique index refuses beside a deleted one.
FollowUpRefused(t) ==
    /\ pc[t] = "link"
    /\ seen[t].followUp = None
    /\ FollowUps(req[t].hearing) # {}
    /\ Finish(t)
    /\ UNCHANGED <<rowVars, told, requests, missed, scanVars>>

\* dispatchNotification, in a transaction of its own that commits at once.
Notify(t) ==
    /\ pc[t] = "notify"
    /\ told' = told \cup {<<req[t].lawyer, req[t].hearing>>}
    /\ GoTo(t, "commit")
    /\ UNCHANGED <<rowVars, req, seen, requests, missed, scanVars>>

-----------------------------------------------------------------------------
(***************************************************************************)
(* COMMIT and ROLLBACK.                                                    *)
(***************************************************************************)

\* updateHearingRecordById and createHearingRecord, from the request.
Written(t) ==
    LET r == req[t]
    IN  [at |-> r.at, next |-> r.next, lawyer |-> r.lawyer,
         parent  |-> IF r.kind = "create" THEN None ELSE hearings[r.hearing].parent,
         deleted |-> IF r.kind = "create" THEN FALSE ELSE hearings[r.hearing].deleted]

\* The follow-up, found or new, starts over at the next date.
WrittenFollowUp(t) ==
    LET c == seen[t].followUp
    IN  [at |-> req[t].next, next |-> None, lawyer |-> req[t].lawyer,
         parent  |-> req[t].hearing,
         deleted |-> c \in Existing /\ hearings[c].deleted]

\* Seeded fault: a follow-up that was found keeps its event.
SyncedStale(t, c) ==
    IF c = req[t].hearing THEN req[t].at
    ELSE IF c \in Existing THEN events[c] ELSE req[t].next

\* syncEvent: startsAt of the event of a row just written.
Synced(t, c) == IF c = req[t].hearing THEN req[t].at ELSE req[t].next

HasChecked(t) == pc[t] \in Steps \ {"idle", "check"}

Pairs(S) == {{g, h} : g \in S, h \in Hearings}

\* Auxiliary: whoever checked for conflicts earlier has missed what is scheduled
\* now, and nobody checks a follow-up.
Scheduled(t) ==
    /\ missed' = [u \in Txs |-> IF u # t /\ HasChecked(u)
                                  THEN missed[u] \cup Held(t) ELSE {}]
    /\ unseen' = (unseen \ Pairs(Held(t)))
                 \cup {{req[t].hearing, g} : g \in missed[t]} \cup Pairs(Linked(t))

CommitSchedule(t) ==
    /\ pc[t] = "commit"
    /\ Schedules(t)
    /\ hearings' = [h \in Hearings |->
            IF h = req[t].hearing THEN Written(t)
            ELSE IF h \in Linked(t) THEN WrittenFollowUp(t) ELSE hearings[h]]
    /\ events' = [h \in Hearings |-> IF h \in Held(t) THEN Synced(t, h) ELSE events[h]]
    /\ Scheduled(t)
    /\ Finish(t)
    /\ UNCHANGED <<told, requests, scanVars>>

\* updateHearingOutcomeById and deleteHearing: neither the event nor the
\* follow-up of a deleted hearing is touched.
CommitOther(t) ==
    /\ pc[t] = "commit"
    /\ ~Schedules(t)
    /\ hearings' = [hearings EXCEPT ![req[t].hearing].deleted = @ \/ req[t].kind = "delete"]
    /\ Finish(t)
    /\ UNCHANGED <<events, unseen, told, requests, missed, scanVars>>

\* A statement or the notification fails, or the transaction times out.
Rollback(t) ==
    /\ pc[t] # "idle"
    /\ Finish(t)
    /\ UNCHANGED <<rowVars, told, requests, missed, scanVars>>

-----------------------------------------------------------------------------
(***************************************************************************)
(* The reminder scan: at 08:00 of a day on which the process runs, window  *)
(* by window, one dispatch after the other.                                *)
(***************************************************************************)

NoScan == [window |-> 0, pending |-> {}]

DayPasses ==
    /\ day < LastDay
    /\ scan.window \in {0, Len(Windows) + 1}
    /\ day' = day + 1
    /\ scan' = NoScan
    /\ UNCHANGED <<rowVars, told, txVars, sent>>

\* Seeded fault: the window has no end.
InWindowOpenEnded(h, w) == hearings[h].at >= day + w

InWindow(h, w) == hearings[h].at = day + w

\* findMany of the next window.  Deleted hearings are not left out.  There is a
\* dispatch for every assignment row, and nothing keeps two rows of a case from
\* naming one user.
Due(w) == {[hearing |-> h, assignment |-> a, window |-> w, at |-> hearings[h].at] :
               h \in {g \in Existing : InWindow(g, w)}, a \in Assignments}

ScanWindow ==
    /\ scan.window < Len(Windows)
    /\ scan.pending = {}
    /\ scan' = [window |-> scan.window + 1, pending |-> Due(Windows[scan.window + 1])]
    /\ UNCHANGED <<rowVars, told, txVars, day, sent>>

Remind(r) ==
    /\ r \in scan.pending
    /\ sent' = sent \cup {r}
    /\ scan' = [scan EXCEPT !.pending = @ \ {r}]
    /\ UNCHANGED <<rowVars, told, txVars, day>>

\* The last window is done, or a read or a dispatch throws: one try around all
\* scans ends them for the day.
ScanEnds ==
    /\ scan.window \in 1 .. Len(Windows)
    /\ scan' = [window |-> Len(Windows) + 1, pending |-> {}]
    /\ UNCHANGED <<rowVars, told, txVars, day, sent>>

-----------------------------------------------------------------------------
Init ==
    /\ hearings = [h \in Hearings |-> None]
    /\ events = [h \in Hearings |-> None]
    /\ told = {}
    /\ pc = [t \in Txs |-> "idle"]
    /\ req = [t \in Txs |-> NoRequest]
    /\ seen = [t \in Txs |-> NothingSeen]
    /\ requests = 0
    /\ missed = [t \in Txs |-> {}]
    /\ unseen = {}
    /\ day = 0
    /\ scan = NoScan
    /\ sent = {}

Step(t) ==
    \/ /\ CanBegin(t)
       /\ \/ \E r \in Schedule : CreateHearing(t, r) \/ UpdateHearing(t, r)
          \/ \E r \in Other : UpdateHearingOutcome(t, r) \/ DeleteHearing(t, r)
    \/ CheckConflict(t)
    \/ ConflictFound(t)
    \/ WriteHearing(t)
    \/ FindFollowUp(t)
    \/ UpdateFollowUp(t)
    \/ \E c \in Hearings : CreateFollowUp(t, c)
    \/ FollowUpRefused(t)
    \/ Notify(t)
    \/ CommitSchedule(t)
    \/ CommitOther(t)
    \/ Rollback(t)

Scan ==
    \/ DayPasses
    \/ ScanWindow
    \/ \E r \in scan.pending : Remind(r)
    \/ ScanEnds

Next == Scan \/ \E t \in Txs : Step(t)

Spec == Init /\ [][Next]_vars

-----------------------------------------------------------------------------
TypeOK ==
    /\ hearings \in [Hearings -> Hearing \cup {None}]
    /\ events \in [Hearings -> Days \cup {None}]
    /\ told \subseteq Lawyers \X Hearings
    /\ pc \in [Txs -> Steps]
    /\ req \in [Txs -> Request \cup {NoRequest}]
    /\ seen \in [Txs -> [lawyer : Lawyers \cup {None}, followUp : Hearings \cup {None}]]
    /\ requests \in 0 .. MaxRequests
    /\ missed \in [Txs -> SUBSET Hearings]
    /\ unseen \subseteq Pairs(Hearings)
    /\ day \in Days
    /\ scan.window \in 0 .. Len(Windows) + 1
    /\ scan.pending \subseteq Reminder
    /\ sent \subseteq Reminder

\* Every hearing has a calendar event, at its time, however its edits and those
\* of the hearing it follows overlap (syncEvent runs on rows its transaction
\* has locked).
EventFollowsHearing ==
    \A h \in Hearings : events[h] = IF h \in Existing THEN hearings[h].at ELSE None

\* A hearing and the hearings it follows on, as their rows say: the least set
\* that holds it and, with a hearing, its parent.
ClosedUp(S) == \A g \in S \cap Existing : hearings[g].parent \in S \cup {None}
Chain(h) ==
    {g \in Hearings : \A S \in SUBSET Hearings : h \in S /\ ClosedUp(S) => g \in S}

\* Nobody is the lawyer of a hearing without a message about it or about a
\* hearing it follows on: updateHearing compares with a lawyer read before its
\* row was locked, and a message is sent before the row is committed.
AssigneeIsTold ==
    \A h \in Existing : hearings[h].lawyer # None =>
        \E g \in Chain(h) : <<hearings[h].lawyer, g>> \in told

\* Two hearings of one lawyer are in one slot only when neither request could
\* see the other's, or when one is a follow-up its parent placed
\* (checkConflictInTx, upsertFollowUpSessionIfNeeded).
DoubleBookingIsUnseen ==
    \A g, h \in Live : g # h /\ hearings[g].lawyer # None
            /\ hearings[g].lawyer = hearings[h].lawyer
            /\ hearings[g].at = hearings[h].at
        => {g, h} \in unseen

\* No assignment of the case is about to bring a second reminder of a hearing's
\* date for a window, whatever day's scan is missed or broken off and wherever
\* the hearing is moved between them (scanHearingReminders).  It is once for a
\* row, not for a user: a lawyer assigned to the case twice is reminded twice.
RemindedOnce == scan.pending \cap sent = {}

=============================================================================
