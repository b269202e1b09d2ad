--------------------------- MODULE HearingsProofs ---------------------------
(***************************************************************************)
(* What holds of the hearings for any hearings, lawyers, requests, days    *)
(* and windows.                                                            *)
(***************************************************************************)
EXTENDS Hearings, TLAPS

\* What the steps of a request rely on.
RequestOK(t) ==
    /\ pc[t] # "idle" => /\ req[t] \in Request
                         /\ req[t].kind # "create" => req[t].hearing \in Existing
    /\ pc[t] = "notify" => Tells(t)
    /\ pc[t] \in {"notify", "commit"} /\ req[t].next # None => seen[t].followUp \in Hearings

TypeInv == TypeOK /\ \A t \in Txs : RequestOK(t)

-----------------------------------------------------------------------------
(***************************************************************************)
(* Typing.                                                                 *)
(***************************************************************************)

LEMMA InitTyped == Init => TypeInv
BY HearingsAssumption DEF Init, TypeInv, TypeOK, RequestOK, NoRequest, NothingSeen, NoScan,
   Days, Steps, Pairs

\* A new request has the type of its kind.
LEMMA BeginTyped ==
    ASSUME TypeInv, NEW t \in Txs, NEW r \in Request, NEW previous \in Lawyers \cup {None},
           r.kind # "create" => r.hearing \in Existing,
           CanBegin(t), Begin(t, r, previous, FirstStep(r))
    PROVE  TypeInv'
<1>1. FirstStep(r) \in {"check", "write"}
  BY DEF FirstStep
<1>2. TypeOK'
  BY <1>1, HearingsAssumption DEF TypeInv, TypeOK, Begin, GoTo, CanBegin, Steps, rowVars,
     scanVars
<1>3. ASSUME NEW u \in Txs PROVE RequestOK(u)'
  <2>1. CASE u = t
    BY <1>1, <2>1 DEF TypeInv, TypeOK, RequestOK, Begin, GoTo, Existing, rowVars
  <2>2. CASE u # t
    BY <2>2 DEF TypeInv, TypeOK, RequestOK, Begin, GoTo, Existing, rowVars, Tells, Schedules
  <2> QED BY <2>1, <2>2
<1> QED BY <1>2, <1>3 DEF TypeInv

\* A request that ends leaves nothing behind in its own variables.
LEMMA FinishTyped ==
    ASSUME TypeInv, NEW t \in Txs, Finish(t),
           UNCHANGED <<rowVars, told, requests, missed, scanVars>>
    PROVE  TypeInv'
<1>1. TypeOK'
  BY DEF TypeInv, TypeOK, Finish, GoTo, NothingSeen, Steps, rowVars, scanVars
<1>2. ASSUME NEW u \in Txs PROVE RequestOK(u)'
  <2>1. CASE u = t
    BY <2>1 DEF TypeInv, TypeOK, RequestOK, Finish, GoTo
  <2>2. CASE u # t
    BY <2>2 DEF TypeInv, TypeOK, RequestOK, Finish, GoTo, Existing, rowVars, Tells, Schedules
  <2> QED BY <2>1, <2>2
<1> QED BY <1>1, <1>2 DEF TypeInv

\* A request moves on and may learn of a follow-up.
LEMMA MoveTyped ==
    ASSUME TypeInv, NEW t \in Txs, NEW step \in Steps \ {"idle"},
           NEW c \in Hearings \cup {None},
           pc[t] # "idle", GoTo(t, step),
           seen' = [seen EXCEPT ![t].followUp = c],
           step = "notify" => Tells(t),
           step \in {"notify", "commit"} /\ req[t].next # None => c \in Hearings,
           missed' \in [Txs -> SUBSET Hearings],
           told' \subseteq Lawyers \X Hearings,
           UNCHANGED <<rowVars, req, requests, scanVars>>
    PROVE  TypeInv'
<1>1. TypeOK'
  <2>1. pc' \in [Txs -> Steps]
    BY DEF TypeInv, TypeOK, GoTo, Steps
  <2>2. seen' \in [Txs -> [lawyer : Lawyers \cup {None}, followUp : Hearings \cup {None}]]
    BY DEF TypeInv, TypeOK
  <2> QED BY <2>1, <2>2 DEF TypeInv, TypeOK, rowVars, scanVars
<1>2. ASSUME NEW u \in Txs PROVE RequestOK(u)'
  <2>1. CASE u = t
    BY <2>1 DEF TypeInv, TypeOK, RequestOK, GoTo, Existing, rowVars, Tells, Schedules
  <2>2. CASE u # t
    BY <2>2 DEF TypeInv, TypeOK, RequestOK, GoTo, Existing, rowVars, Tells, Schedules
  <2> QED BY <2>1, <2>2
<1> QED BY <1>1, <1>2 DEF TypeInv

\* The rows a schedule writes are hearings.
LEMMA WrittenTyped ==
    ASSUME TypeInv, NEW t \in Txs, pc[t] = "commit", Schedules(t)
    PROVE  /\ Written(t) \in Hearing
           /\ Held(t) \subseteq Hearings
           /\ req[t].hearing \in Held(t)
           /\ Linked(t) # {} => WrittenFollowUp(t) \in Hearing
           /\ \A h \in Held(t) : Synced(t, h) \in Days
<1>1. /\ req[t] \in Schedule
      /\ req[t].kind # "create" => req[t].hearing \in Existing
      /\ req[t].next # None => seen[t].followUp \in Hearings
  BY DEF TypeInv, RequestOK, Schedules, Request, Other
<1>2. req[t].kind # "create" => hearings[req[t].hearing] \in Hearing
  BY <1>1 DEF TypeInv, TypeOK, Existing
<1>3. Written(t) \in Hearing
  BY <1>1, <1>2 DEF Written, Schedule, Hearing
<1>4. Linked(t) # {} => WrittenFollowUp(t) \in Hearing
  <2> SUFFICES ASSUME Linked(t) # {} PROVE WrittenFollowUp(t) \in Hearing
    OBVIOUS
  <2>1. req[t].next # None
    BY DEF Linked
  <2>2. seen[t].followUp \in Existing => hearings[seen[t].followUp] \in Hearing
    BY DEF TypeInv, TypeOK, Existing
  <2> QED BY <1>1, <2>1, <2>2 DEF WrittenFollowUp, Schedule, Hearing
<1>5. Held(t) \subseteq Hearings /\ req[t].hearing \in Held(t)
  BY <1>1 DEF Held, Target, Linked, Schedule
<1>6. ASSUME NEW h \in Held(t) PROVE Synced(t, h) \in Days
  BY <1>1 DEF Held, Target, Linked, Synced, Schedule
<1> QED BY <1>3, <1>4, <1>5, <1>6

LEMMA CommitScheduleTyped ==
    ASSUME TypeInv, NEW t \in Txs, CommitSchedule(t)
    PROVE  TypeInv'
<1>0. /\ Written(t) \in Hearing
      /\ Held(t) \subseteq Hearings
      /\ req[t].hearing \in Held(t)
      /\ Linked(t) # {} => WrittenFollowUp(t) \in Hearing
      /\ \A h \in Held(t) : Synced(t, h) \in Days
  BY WrittenTyped DEF CommitSchedule
<1>1. hearings' \in [Hearings -> Hearing \cup {None}]
  BY <1>0 DEF TypeInv, TypeOK, CommitSchedule
<1>2. events' \in [Hearings -> Days \cup {None}]
  BY <1>0 DEF TypeInv, TypeOK, CommitSchedule
<1>3. missed' \in [Txs -> SUBSET Hearings]
  BY <1>0 DEF TypeInv, TypeOK, CommitSchedule, Scheduled
<1>4. unseen' \subseteq Pairs(Hearings)
  <2>1. Pairs(Linked(t)) \subseteq Pairs(Hearings)
    BY <1>0 DEF Pairs, Held
  <2>2. {{req[t].hearing, g} : g \in missed[t]} \subseteq Pairs(Hearings)
    BY <1>0 DEF Pairs, TypeInv, TypeOK
  <2> QED BY <2>1, <2>2 DEF CommitSchedule, Scheduled, TypeInv, TypeOK
<1>5. TypeOK'
  <2>1. /\ pc' \in [Txs -> Steps]
        /\ req' \in [Txs -> Request \cup {NoRequest}]
        /\ seen' \in [Txs -> [lawyer : Lawyers \cup {None}, followUp : Hearings \cup {None}]]
    BY DEF TypeInv, TypeOK, CommitSchedule, Finish, GoTo, Steps, NothingSeen
  <2> QED BY <1>1, <1>2, <1>3, <1>4, <2>1 DEF TypeInv, TypeOK, CommitSchedule, scanVars
<1>6. Existing \subseteq Existing'
  <2>1. ASSUME NEW h \in Existing PROVE h \in Existing'
    <3>1. hearings'[h] \in Hearing \/ hearings'[h] = hearings[h]
      BY <1>0, <2>1 DEF CommitSchedule, Existing
    <3> QED BY <2>1, <3>1, HearingsAssumption DEF Existing
  <2> QED BY <2>1
<1>7. ASSUME NEW u \in Txs PROVE RequestOK(u)'
  <2>1. CASE u = t
    BY <2>1 DEF TypeInv, TypeOK, RequestOK, CommitSchedule, Finish, GoTo
  <2>2. CASE u # t
    BY <1>6, <2>2 DEF TypeInv, TypeOK, RequestOK, CommitSchedule, Finish, GoTo, Tells, Schedules
  <2> QED BY <2>1, <2>2
<1> QED BY <1>5, <1>7 DEF TypeInv

LEMMA CommitOtherTyped ==
    ASSUME TypeInv, NEW t \in Txs, CommitOther(t)
    PROVE  TypeInv' /\ Existing' = Existing
<1>1. req[t].hearing \in Existing
  BY DEF TypeInv, RequestOK, CommitOther, Schedules, Request
<1>2. hearings[req[t].hearing] \in Hearing /\ req[t].hearing \in Hearings
  BY <1>1 DEF TypeInv, TypeOK, Existing
<1>3. hearings' \in [Hearings -> Hearing \cup {None}] /\ hearings'[req[t].hearing] \in Hearing
  BY <1>2 DEF TypeInv, TypeOK, CommitOther, Hearing
<1>4. Existing' = Existing
  BY <1>1, <1>2, <1>3, HearingsAssumption DEF TypeInv, TypeOK, CommitOther, Existing, Hearing
<1>5. TypeOK'
  BY <1>3 DEF TypeInv, TypeOK, CommitOther, Finish, GoTo, NothingSeen, Steps, scanVars
<1>6. ASSUME NEW u \in Txs PROVE RequestOK(u)'
  <2>1. CASE u = t
    BY <2>1 DEF TypeInv, TypeOK, RequestOK, CommitOther, Finish, GoTo
  <2>2. CASE u # t
    BY <1>4, <2>2 DEF TypeInv, TypeOK, RequestOK, CommitOther, Finish, GoTo, Tells, Schedules
  <2> QED BY <2>1, <2>2
<1> QED BY <1>4, <1>5, <1>6 DEF TypeInv

\* A day that passes, and every step of the scan.
LEMMA ScanTyped ==
    ASSUME TypeInv, Scan
    PROVE  TypeInv'
<1>0. \A t \in Txs : RequestOK(t)'
  BY DEF TypeInv, RequestOK, Scan, DayPasses, ScanWindow, Remind, ScanEnds, rowVars, txVars,
     Existing, Tells, Schedules
<1>1. CASE DayPasses
  <2>1. day' \in Days /\ scan'.window \in 0 .. Len(Windows) + 1 /\ scan'.pending = {}
    BY <1>1, HearingsAssumption DEF DayPasses, NoScan, TypeInv, TypeOK, Days
  <2> QED BY <1>0, <1>1, <2>1 DEF TypeInv, TypeOK, DayPasses, rowVars, txVars
<1>2. CASE ScanWindow
  <2>1. scan'.window = scan.window + 1 /\ scan'.pending = Due(Windows[scan.window + 1])
    BY <1>2 DEF ScanWindow
  <2>2. scan'.window \in 1 .. Len(Windows) /\ Windows[scan'.window] \in Nat
    BY <1>2, <2>1, HearingsAssumption DEF ScanWindow, TypeInv, TypeOK
  <2>3. \A h \in Existing : hearings[h].at \in Days
    BY DEF TypeInv, TypeOK, Existing, Hearing
  <2>4. scan'.pending \subseteq Reminder
    BY <2>1, <2>2, <2>3 DEF Due, Reminder, Existing
  <2> QED BY <1>0, <1>2, <2>2, <2>4 DEF TypeInv, TypeOK, ScanWindow, rowVars, txVars
<1>3. ASSUME NEW r \in scan.pending, Remind(r) PROVE TypeInv'
  <2>1. scan'.window = scan.window /\ scan'.pending \subseteq scan.pending
    BY <1>3 DEF Remind
  <2> QED BY <1>0, <1>3, <2>1 DEF TypeInv, TypeOK, Remind, rowVars, txVars
<1>4. CASE ScanEnds
  <2>1. scan'.window = Len(Windows) + 1 /\ scan'.pending = {}
    BY <1>4 DEF ScanEnds
  <2>2. Len(Windows) + 1 \in 0 .. Len(Windows) + 1
    BY HearingsAssumption
  <2> QED BY <1>0, <1>4, <2>1, <2>2 DEF TypeInv, TypeOK, ScanEnds, rowVars, txVars
<1> QED BY <1>1, <1>2, <1>3, <1>4 DEF Scan

\* The steps of a request that move it on.
Moves(t) ==
    \/ CheckConflict(t) \/ WriteHearing(t) \/ FindFollowUp(t) \/ UpdateFollowUp(t)
    \/ (\E c \in Hearings : CreateFollowUp(t, c)) \/ Notify(t)

LEMMA MovesTyped ==
    ASSUME TypeInv, NEW t \in Txs, Moves(t)
    PROVE  TypeInv'
<1>0. /\ AfterRows(t) \in {"notify", "commit"}
      /\ AfterRows(t) = "notify" => Tells(t)
      /\ seen[t].followUp \in Hearings \cup {None}
      /\ seen = [seen EXCEPT ![t].followUp = seen[t].followUp]
  BY DEF AfterRows, TypeInv, TypeOK
<1>1. CASE CheckConflict(t)
  <2>1. missed' \in [Txs -> SUBSET Hearings]
    BY <1>1 DEF CheckConflict, TypeInv, TypeOK
  <2> QED BY <1>0, <1>1, <2>1, MoveTyped DEF CheckConflict, TypeInv, TypeOK, Steps
<1>2. CASE WriteHearing(t)
  BY <1>0, <1>2, MoveTyped DEF WriteHearing, TypeInv, TypeOK, Steps
<1>3. CASE FindFollowUp(t)
  <2>1. PICK c \in Hearings \cup {None} : seen' = [seen EXCEPT ![t].followUp = c]
    BY <1>0, <1>3 DEF FindFollowUp, FollowUps, Existing
  <2> QED BY <1>3, <2>1, MoveTyped DEF FindFollowUp, TypeInv, TypeOK, Steps
<1>4. CASE UpdateFollowUp(t)
  BY <1>0, <1>4, MoveTyped DEF UpdateFollowUp, TypeInv, TypeOK, Steps
<1>5. ASSUME NEW c \in Hearings, CreateFollowUp(t, c) PROVE TypeInv'
  BY <1>0, <1>5, MoveTyped DEF CreateFollowUp, TypeInv, TypeOK, Steps
<1>6. CASE Notify(t)
  <2>1. req[t].lawyer \in Lawyers /\ req[t].hearing \in Hearings
    BY <1>6 DEF Notify, TypeInv, RequestOK, Tells, Request, Schedule, Other
  <2>2. told' \subseteq Lawyers \X Hearings
    BY <1>6, <2>1 DEF Notify, TypeInv, TypeOK
  <2>3. req[t].next # None => seen[t].followUp \in Hearings
    BY <1>6 DEF Notify, TypeInv, RequestOK
  <2> QED BY <1>0, <1>6, <2>2, <2>3, MoveTyped DEF Notify, TypeInv, TypeOK, Steps
<1> QED BY <1>1, <1>2, <1>3, <1>4, <1>5, <1>6 DEF Moves

\* The steps that end a request and write nothing.
Ends(t) == ConflictFound(t) \/ FollowUpRefused(t) \/ Rollback(t)

\* A request is made.
Begins(t) ==
    \E r \in Request, previous \in Lawyers \cup {None} :
        /\ CanBegin(t)
        /\ IF r.kind = "create" THEN FreshId(t, r.hearing) /\ previous = None
                                ELSE r.hearing \in Existing
        /\ r.kind = "update" => previous = hearings[r.hearing].lawyer
        /\ Begin(t, r, previous, FirstStep(r))

\* Every step of a request is one of these.
LEMMA StepCases ==
    ASSUME TypeInv, NEW t \in Txs, Step(t)
    PROVE  Begins(t) \/ Moves(t) \/ Ends(t) \/ CommitSchedule(t) \/ CommitOther(t)
<1>1. ASSUME NEW r \in Schedule, CanBegin(t), CreateHearing(t, r)
      PROVE  Begins(t)
  BY <1>1 DEF Begins, CreateHearing, Request
<1>2. ASSUME NEW r \in Schedule, CanBegin(t), UpdateHearing(t, r)
      PROVE  Begins(t)
  <2>1. r.hearing \in Existing /\ hearings[r.hearing].lawyer \in Lawyers \cup {None}
    BY <1>2 DEF UpdateHearing, Live, TypeInv, TypeOK, Existing, Hearing
  <2> QED BY <1>2, <2>1 DEF Begins, UpdateHearing, Request
<1>3. ASSUME NEW r \in Other, CanBegin(t), UpdateHearingOutcome(t, r) \/ DeleteHearing(t, r)
      PROVE  Begins(t)
  BY <1>3 DEF Begins, UpdateHearingOutcome, DeleteHearing, Request, Live
<1> QED BY <1>1, <1>2, <1>3 DEF Step, Moves, Ends

LEMMA NextTyped == TypeInv /\ [Next]_vars => TypeInv'
<1> SUFFICES ASSUME TypeInv, [Next]_vars PROVE TypeInv'
  OBVIOUS
<1>1. ASSUME NEW t \in Txs, Step(t) PROVE TypeInv'
  <2>1. CASE Begins(t)
    BY <2>1, BeginTyped DEF Begins
  <2>2. CASE Moves(t)
    BY <2>2, MovesTyped
  <2>3. CASE Ends(t)
    BY <2>3, FinishTyped DEF Ends, ConflictFound, FollowUpRefused, Rollback
  <2>4. CASE CommitSchedule(t)
    BY <2>4, CommitScheduleTyped
  <2>5. CASE CommitOther(t)
    BY <2>5, CommitOtherTyped
  <2> QED BY <1>1, <2>1, <2>2, <2>3, <2>4, <2>5, StepCases
<1>2. CASE UNCHANGED vars
  BY <1>2 DEF vars, rowVars, txVars, scanVars, TypeInv, TypeOK, RequestOK, Existing, Tells,
     Schedules
<1> QED BY <1>1, <1>2, ScanTyped DEF Next

LEMMA Typed == Spec => []TypeInv
BY InitTyped, NextTyped, PTL DEF Spec

\* Every reachable state is well typed, whatever requests overlap.
THEOREM TypeCorrect == Spec => []TypeOK
<1>1. TypeInv => TypeOK
  BY DEF TypeInv
<1> QED BY <1>1, Typed, PTL

-----------------------------------------------------------------------------
(***************************************************************************)
(* Only the two commits write hearings, their events and "unseen".         *)
(***************************************************************************)

LEMMA RowsKept ==
    ASSUME TypeInv, NEW t \in Txs, Begins(t) \/ Moves(t) \/ Ends(t)
    PROVE  UNCHANGED rowVars
BY DEF Begins, Begin, Moves, CheckConflict, WriteHearing, FindFollowUp, UpdateFollowUp,
   CreateFollowUp, Notify, Ends, ConflictFound, FollowUpRefused, Rollback, rowVars

LEMMA RowsKeptByScan == Scan => UNCHANGED <<rowVars, txVars>>
BY DEF Scan, DayPasses, ScanWindow, Remind, ScanEnds, rowVars, txVars

\* A commit gives a hearing and its event the same time.
LEMMA EventCommit ==
    ASSUME TypeInv, EventFollowsHearing, NEW t \in Txs, CommitSchedule(t)
    PROVE  EventFollowsHearing'
<1>0. /\ Written(t) \in Hearing
      /\ Linked(t) # {} => WrittenFollowUp(t) \in Hearing
      /\ Held(t) = {req[t].hearing} \cup Linked(t)
      /\ Written(t).at = req[t].at /\ WrittenFollowUp(t).at = req[t].next
  BY WrittenTyped DEF CommitSchedule, Held, Target, Written, WrittenFollowUp
<1>1. ASSUME NEW h \in Hearings
      PROVE  events'[h] = IF hearings'[h] # None THEN hearings'[h].at ELSE None
  <2>1. CASE h = req[t].hearing
    <3>1. hearings'[h] = Written(t) /\ events'[h] = req[t].at
      BY <1>0, <2>1 DEF CommitSchedule, Synced
    <3> QED BY <1>0, <3>1, HearingsAssumption
  <2>2. CASE h # req[t].hearing /\ h \in Linked(t)
    <3>1. hearings'[h] = WrittenFollowUp(t) /\ events'[h] = req[t].next
      BY <1>0, <2>2 DEF CommitSchedule, Synced
    <3> QED BY <1>0, <2>2, <3>1, HearingsAssumption
  <2>3. CASE h # req[t].hearing /\ h \notin Linked(t)
    <3>1. hearings'[h] = hearings[h] /\ events'[h] = events[h]
      BY <1>0, <2>3 DEF CommitSchedule
    <3> QED BY <3>1 DEF EventFollowsHearing, Existing
  <2> QED BY <2>1, <2>2, <2>3
<1> QED BY <1>1 DEF EventFollowsHearing, Existing

LEMMA NextEvents ==
    TypeInv /\ EventFollowsHearing /\ [Next]_vars => EventFollowsHearing'
<1> SUFFICES ASSUME TypeInv, EventFollowsHearing, [Next]_vars PROVE EventFollowsHearing'
  OBVIOUS
<1>1. CASE UNCHANGED rowVars
  BY <1>1 DEF EventFollowsHearing, Existing, rowVars
<1>2. ASSUME NEW t \in Txs, Step(t) PROVE EventFollowsHearing'
  <2>1. CASE Begins(t) \/ Moves(t) \/ Ends(t)
    BY <1>1, <2>1, RowsKept
  <2>2. CASE CommitSchedule(t)
    BY <2>2, EventCommit
  <2>3. CASE CommitOther(t)
    <3>1. Existing' = Existing
      BY <2>3, CommitOtherTyped
    <3>2. \A h \in Existing : hearings'[h].at = hearings[h].at
      BY <2>3 DEF CommitOther, TypeInv, TypeOK, Existing, Hearing
    <3> QED BY <2>3, <3>1, <3>2 DEF EventFollowsHearing, CommitOther
  <2> QED BY <1>2, <2>1, <2>2, <2>3, StepCases
<1> QED BY <1>1, <1>2, RowsKeptByScan DEF Next, vars, rowVars

\* The calendar follows the hearings, however edits of a hearing and of the one
\* it follows overlap.
THEOREM EventsFollow == Spec => []EventFollowsHearing
<1>1. Init => EventFollowsHearing
  BY DEF Init, EventFollowsHearing, Existing
<1> QED BY <1>1, NextEvents, Typed, PTL DEF Spec

-----------------------------------------------------------------------------
(***************************************************************************)
(* Reminders: what was sent was due on an earlier day, or today in a       *)
(* window the scan has reached.                                            *)
(***************************************************************************)

Reached(w) == \E i \in 1 .. Len(Windows) : i <= scan.window /\ Windows[i] = w

ReminderInv ==
    /\ \A r \in sent :
          \/ r.at - r.window < day
          \/ r.at - r.window = day /\ Reached(r.window)
    /\ \A r \in scan.pending :
          /\ scan.window \in 1 .. Len(Windows)
          /\ r.window = Windows[scan.window]
          /\ r.at = day + r.window
    /\ RemindedOnce

LEMMA NextReminders == TypeInv /\ ReminderInv /\ [Next]_vars => ReminderInv'
<1> SUFFICES ASSUME TypeInv, ReminderInv, [Next]_vars PROVE ReminderInv'
  OBVIOUS
<1>0. /\ \A r \in sent \cup scan.pending : r.at \in Int /\ r.window \in Int
      /\ day \in Int /\ scan.window \in Int /\ Len(Windows) \in Nat
      /\ \A i \in 1 .. Len(Windows) : Windows[i] \in Nat
  BY HearingsAssumption DEF TypeInv, TypeOK, Reminder, Days
<1>1. CASE UNCHANGED scanVars
  BY <1>1 DEF ReminderInv, Reached, RemindedOnce, scanVars
<1>2. CASE DayPasses
  <2>1. day' = day + 1 /\ scan'.pending = {} /\ sent' = sent
    BY <1>2 DEF DayPasses, NoScan
  <2>2. \A r \in sent : r.at - r.window < day + 1
    BY <1>0 DEF ReminderInv
  <2>3. \A r \in sent' : r.at - r.window < day'
    BY <2>1, <2>2
  <2>4. RemindedOnce'
    BY <2>1 DEF RemindedOnce
  <2> QED BY <2>1, <2>3, <2>4 DEF ReminderInv
<1>3. CASE ScanWindow
  <2>1. /\ scan'.window = scan.window + 1 /\ scan'.pending = Due(Windows[scan.window + 1])
        /\ day' = day /\ sent' = sent
    BY <1>3 DEF ScanWindow
  <2>2. scan.window + 1 \in 1 .. Len(Windows)
    BY <1>3, <1>0 DEF ScanWindow, TypeInv, TypeOK
  <2>3. \A r \in scan'.pending : r.window = Windows[scan'.window] /\ r.at = day + r.window
    BY <2>1 DEF Due, InWindow
  <2>4. \A w : Reached(w) => Reached(w)'
    BY <2>1, <1>0 DEF Reached
  <2>5. ASSUME NEW r \in scan'.pending, r \in sent PROVE FALSE
    <3>1. r.window = Windows[scan.window + 1] /\ r.at = day + r.window
      BY <2>1, <2>3, <2>5
    <3>2. Reached(r.window)
      BY <1>0, <2>5, <3>1 DEF ReminderInv
    <3>3. PICK i \in 1 .. Len(Windows) : i <= scan.window /\ Windows[i] = Windows[scan.window + 1]
      BY <3>1, <3>2 DEF Reached
    <3> QED BY <1>0, <2>2, <3>3, HearingsAssumption
  <2> QED BY <2>1, <2>2, <2>3, <2>4, <2>5 DEF ReminderInv, RemindedOnce
<1>4. ASSUME NEW r \in scan.pending, Remind(r) PROVE ReminderInv'
  <2>1. /\ sent' = sent \cup {r} /\ day' = day
        /\ scan'.window = scan.window /\ scan'.pending = scan.pending \ {r}
    BY <1>4 DEF Remind
  <2>2. r.at - r.window = day /\ Reached(r.window)
    BY <1>0 DEF ReminderInv, Reached
  <2> QED BY <2>1, <2>2 DEF ReminderInv, Reached, RemindedOnce
<1>5. CASE ScanEnds
  <2>1. /\ scan'.window = Len(Windows) + 1 /\ scan'.pending = {}
        /\ day' = day /\ sent' = sent
    BY <1>5 DEF ScanEnds
  <2>2. \A w : Reached(w) => Reached(w)'
    BY <2>1, <1>0 DEF Reached
  <2> QED BY <2>1, <2>2 DEF ReminderInv, RemindedOnce
<1>6. ASSUME NEW t \in Txs, Step(t) PROVE UNCHANGED scanVars
  <2>1. Begins(t) \/ Moves(t) \/ Ends(t) \/ CommitSchedule(t) \/ CommitOther(t)
    BY <1>6, StepCases
  <2> QED BY <2>1 DEF Begins, Begin, Moves, CheckConflict, WriteHearing, FindFollowUp,
          UpdateFollowUp, CreateFollowUp, Notify, Ends, ConflictFound, FollowUpRefused,
          Rollback, CommitSchedule, CommitOther, scanVars
<1>7. UNCHANGED vars => UNCHANGED scanVars
  BY DEF vars
<1> QED BY <1>1, <1>2, <1>3, <1>4, <1>5, <1>6, <1>7 DEF Next, Scan

\* No reminder is sent twice, for any windows that differ and whatever scans are
\* missed or broken off.
THEOREM RemindersOnce == Spec => []RemindedOnce
<1>1. Init => ReminderInv
  BY DEF Init, NoScan, ReminderInv, RemindedOnce
<1>2. ReminderInv => RemindedOnce
  BY DEF ReminderInv
<1> QED BY <1>1, <1>2, NextReminders, Typed, PTL DEF Spec

-----------------------------------------------------------------------------
(***************************************************************************)
(* Double bookings: a request that has looked for conflicts knows of every *)
(* hearing in its slot, or has missed it since.                            *)
(***************************************************************************)

CheckedInv ==
    \A t \in Txs : HasChecked(t) /\ Schedules(t) /\ req[t].lawyer # None =>
        Conflicts(req[t]) \subseteq missed[t]

\* A deletion or an outcome schedules nothing.
LEMMA CommitOtherKeeps ==
    ASSUME TypeInv, NEW t \in Txs, CommitOther(t)
    PROVE  /\ \A h \in Existing : /\ hearings'[h].at = hearings[h].at
                                  /\ hearings'[h].lawyer = hearings[h].lawyer
                                  /\ hearings'[h].parent = hearings[h].parent
           /\ Live' \subseteq Live
<1>1. Existing' = Existing
  BY CommitOtherTyped
<1>2. \A h \in Existing :
        /\ hearings'[h].at = hearings[h].at
        /\ hearings'[h].lawyer = hearings[h].lawyer
        /\ hearings'[h].parent = hearings[h].parent
        /\ hearings[h].deleted => hearings'[h].deleted
  <2> SUFFICES ASSUME NEW h \in Existing
               PROVE  /\ hearings'[h].at = hearings[h].at
                      /\ hearings'[h].lawyer = hearings[h].lawyer
                      /\ hearings'[h].parent = hearings[h].parent
                      /\ hearings[h].deleted => hearings'[h].deleted
    OBVIOUS
  <2>1. hearings[h] \in Hearing
    BY DEF TypeInv, TypeOK, Existing
  <2>2. CASE h # req[t].hearing
    BY <2>2 DEF CommitOther, TypeInv, TypeOK, Existing
  <2>3. CASE h = req[t].hearing
    <3> DEFINE gone == hearings[h].deleted \/ req[t].kind = "delete"
    <3>1. hearings'[h] = [hearings[h] EXCEPT !.deleted = gone]
      BY <2>3 DEF CommitOther, TypeInv, TypeOK, Existing
    <3>2. /\ hearings'[h].at = hearings[h].at /\ hearings'[h].lawyer = hearings[h].lawyer
          /\ hearings'[h].parent = hearings[h].parent
      BY <2>1, <3>1 DEF Hearing
    <3>3. hearings'[h].deleted = gone
      BY <2>1, <3>1 DEF Hearing
    <3> QED BY <3>2, <3>3
  <2> QED BY <2>2, <2>3
<1> QED BY <1>1, <1>2 DEF Live

LEMMA ConflictsShrink ==
    ASSUME TypeInv, NEW t \in Txs, CommitOther(t), NEW r
    PROVE  Conflicts(r)' \subseteq Conflicts(r)
BY CommitOtherKeeps DEF Conflicts, Live

\* A request that begins has not looked yet, unless it has nothing to look for.
LEMMA BeginChecked ==
    ASSUME TypeInv, CheckedInv, NEW t \in Txs, Begins(t)
    PROVE  CheckedInv'
<1>1. PICK r \in Request, previous \in Lawyers \cup {None} :
        CanBegin(t) /\ Begin(t, r, previous, FirstStep(r))
  BY DEF Begins
<1>2. hearings' = hearings /\ missed' = missed
  BY <1>1 DEF Begin, rowVars
<1>3. ASSUME NEW u \in Txs, (HasChecked(u) /\ Schedules(u) /\ req[u].lawyer # None)'
      PROVE  (Conflicts(req[u]) \subseteq missed[u])'
  <2>1. CASE u = t
    <3>1. req'[t] = r /\ pc'[t] = FirstStep(r)
      BY <1>1 DEF Begin, GoTo, TypeInv, TypeOK
    <3> QED BY <1>3, <2>1, <3>1 DEF HasChecked, Schedules, FirstStep
  <2>2. CASE u # t
    <3>1. req'[u] = req[u] /\ pc'[u] = pc[u]
      BY <1>1, <2>2 DEF Begin, GoTo, TypeInv, TypeOK
    <3> QED BY <1>2, <1>3, <3>1 DEF CheckedInv, HasChecked, Schedules, Conflicts, Live, Existing
  <2> QED BY <2>1, <2>2
<1> QED BY <1>3 DEF CheckedInv

\* Nothing a request does before its commit changes what others have missed.
LEMMA MoveChecked ==
    ASSUME TypeInv, CheckedInv, NEW t \in Txs, Moves(t) \/ Ends(t)
    PROVE  CheckedInv'
<1>1. hearings' = hearings
  BY RowsKept DEF rowVars
<1>2. ASSUME NEW u \in Txs, u # t
      PROVE  req'[u] = req[u] /\ pc'[u] = pc[u] /\ missed'[u] = missed[u]
  BY <1>2 DEF Moves, CheckConflict, WriteHearing, FindFollowUp, UpdateFollowUp,
     CreateFollowUp, Notify, Ends, ConflictFound, FollowUpRefused, Rollback, Finish, GoTo,
     TypeInv, TypeOK
<1>3. ASSUME NEW u \in Txs, (HasChecked(u) /\ Schedules(u) /\ req[u].lawyer # None)'
      PROVE  (Conflicts(req[u]) \subseteq missed[u])'
  <2>1. CASE u # t
    BY <1>1, <1>2, <1>3, <2>1 DEF CheckedInv, HasChecked, Schedules, Conflicts, Live, Existing
  <2>2. CASE u = t /\ CheckConflict(t)
    BY <1>1, <2>2 DEF CheckConflict, Conflicts, Live, Existing
  <2>3. CASE u = t /\ Moves(t) /\ ~CheckConflict(t)
    <3>1. req' = req /\ missed' = missed /\ HasChecked(t)
      BY <2>3 DEF Moves, WriteHearing, FindFollowUp, UpdateFollowUp, CreateFollowUp, Notify,
         HasChecked, Steps
    <3> QED BY <1>1, <1>3, <2>3, <3>1 DEF CheckedInv, Schedules, Conflicts, Live, Existing
  <2>4. CASE u = t /\ Ends(t)
    <3>1. pc'[t] = "idle"
      BY <2>4 DEF Ends, ConflictFound, FollowUpRefused, Rollback, Finish, GoTo, TypeInv, TypeOK
    <3> QED BY <1>3, <2>4, <3>1 DEF HasChecked
  <2> QED BY <2>1, <2>2, <2>3, <2>4
<1> QED BY <1>3 DEF CheckedInv

\* A commit is missed by everyone who has looked before.
LEMMA CommitChecked ==
    ASSUME TypeInv, CheckedInv, NEW t \in Txs, CommitSchedule(t) \/ CommitOther(t)
    PROVE  CheckedInv'
<1>1. pc'[t] = "idle"
  BY DEF CommitSchedule, CommitOther, Finish, GoTo, TypeInv, TypeOK
<1>2. ASSUME NEW u \in Txs, u # t PROVE req'[u] = req[u] /\ pc'[u] = pc[u]
  BY <1>2 DEF CommitSchedule, CommitOther, Finish, GoTo, TypeInv, TypeOK
<1>3. ASSUME NEW u \in Txs, (HasChecked(u) /\ Schedules(u) /\ req[u].lawyer # None)'
      PROVE  (Conflicts(req[u]) \subseteq missed[u])'
  <2>1. u # t
    BY <1>1, <1>3 DEF HasChecked
  <2>2. HasChecked(u) /\ Conflicts(req[u]) \subseteq missed[u] /\ req'[u] = req[u]
    BY <1>2, <1>3, <2>1 DEF CheckedInv, HasChecked, Schedules
  <2>3. CASE CommitSchedule(t)
    <3>1. missed'[u] = missed[u] \cup Held(t)
      BY <2>1, <2>2, <2>3 DEF CommitSchedule, Scheduled
    <3>2. ASSUME NEW g \in Conflicts(req[u])' PROVE g \in missed'[u]
      <4> DEFINE r == req[u]
      <4>1. g \in Conflicts(r)'
        BY <2>2, <3>2 DEF Conflicts
      <4>2. g \in Conflicts(r) \/ g \in Held(t)
        BY <2>2, <2>3, <3>2 DEF Conflicts, Live, Existing, Held, Target, CommitSchedule
      <4> QED BY <2>2, <3>1, <4>2
    <3> QED BY <3>2
  <2>4. CASE CommitOther(t)
    <3>1. missed' = missed
      BY <2>4 DEF CommitOther
    <3> QED BY <2>2, <2>4, <3>1, ConflictsShrink DEF Conflicts
  <2> QED BY <2>3, <2>4
<1> QED BY <1>3 DEF CheckedInv

\* A commit leaves no double booking that is not recorded as unseen.
LEMMA CommitUnseen ==
    ASSUME TypeInv, CheckedInv, DoubleBookingIsUnseen, NEW t \in Txs, CommitSchedule(t)
    PROVE  DoubleBookingIsUnseen'
<1> DEFINE h0 == req[t].hearing
           Clash(g, h) == /\ g \in Live' /\ h \in Live' /\ g # h
                          /\ hearings'[g].lawyer # None
                          /\ hearings'[g].lawyer = hearings'[h].lawyer
                          /\ hearings'[g].at = hearings'[h].at
<1>0. /\ Held(t) = {h0} \cup Linked(t) /\ h0 \in Hearings
      /\ unseen' = (unseen \ Pairs(Held(t))) \cup {{h0, g} : g \in missed[t]} \cup Pairs(Linked(t))
      /\ hearings'[h0] = Written(t)
      /\ Written(t).lawyer = req[t].lawyer /\ Written(t).at = req[t].at
  BY WrittenTyped DEF CommitSchedule, Scheduled, Held, Target, Written
<1>1. ASSUME NEW g \in Hearings \ Held(t)
      PROVE  hearings'[g] = hearings[g] /\ (g \in Live' => g \in Live)
  BY <1>0, <1>1 DEF CommitSchedule, Live, Existing
<1>2. ASSUME NEW g, NEW h, Clash(g, h), g \in Linked(t) PROVE {g, h} \in unseen'
  BY <1>0, <1>2 DEF Pairs, Live, Existing
<1>3. ASSUME NEW h, Clash(h0, h), h \notin Linked(t) PROVE {h0, h} \in unseen'
  <2>1. h \in Hearings \ Held(t)
    BY <1>0, <1>3 DEF Live, Existing
  <2>2. h \in Live /\ hearings'[h] = hearings[h]
    BY <1>1, <1>3, <2>1
  <2>3. h \in Conflicts(req[t]) /\ req[t].lawyer # None
    BY <1>0, <1>3, <2>2 DEF Conflicts
  <2>4. h \in missed[t]
    BY <2>3 DEF CheckedInv, HasChecked, Steps, CommitSchedule
  <2> QED BY <1>0, <2>4
<1>4. ASSUME NEW g, NEW h, Clash(g, h), g \notin Held(t), h \notin Held(t)
      PROVE  {g, h} \in unseen'
  <2>1. g \in Hearings /\ h \in Hearings
    BY <1>4 DEF Live, Existing
  <2>2. {g, h} \in unseen
    BY <1>1, <1>4, <2>1 DEF DoubleBookingIsUnseen
  <2>3. {g, h} \notin Pairs(Held(t))
    BY <1>4 DEF Pairs
  <2> QED BY <1>0, <2>2, <2>3
<1>5. ASSUME NEW g, NEW h, Clash(g, h) PROVE {g, h} \in unseen'
  <2>1. Clash(h, g) /\ {h, g} = {g, h}
    BY <1>5
  <2>2. CASE g \in Linked(t) \/ h \in Linked(t)
    BY <1>2, <1>5, <2>1, <2>2
  <2>3. CASE g \notin Linked(t) /\ h \notin Linked(t) /\ (g = h0 \/ h = h0)
    BY <1>3, <1>5, <2>1, <2>3
  <2>4. CASE g \notin Held(t) /\ h \notin Held(t)
    BY <1>4, <1>5, <2>4
  <2> QED BY <1>0, <2>2, <2>3, <2>4
<1> QED BY <1>5 DEF DoubleBookingIsUnseen

LEMMA NextUnseen ==
    TypeInv /\ CheckedInv /\ DoubleBookingIsUnseen /\ [Next]_vars
        => CheckedInv' /\ DoubleBookingIsUnseen'
<1> SUFFICES ASSUME TypeInv, CheckedInv, DoubleBookingIsUnseen, [Next]_vars
             PROVE  CheckedInv' /\ DoubleBookingIsUnseen'
  OBVIOUS
<1>1. UNCHANGED rowVars => DoubleBookingIsUnseen'
  BY DEF DoubleBookingIsUnseen, Live, Existing, rowVars
<1>2. CASE UNCHANGED <<rowVars, txVars>>
  BY <1>1, <1>2 DEF CheckedInv, HasChecked, Schedules, Conflicts, Live, Existing, rowVars, txVars
<1>3. ASSUME NEW t \in Txs, Step(t) PROVE CheckedInv' /\ DoubleBookingIsUnseen'
  <2>1. CASE Begins(t)
    BY <1>1, <2>1, RowsKept, BeginChecked
  <2>2. CASE Moves(t) \/ Ends(t)
    BY <1>1, <2>2, RowsKept, MoveChecked
  <2>3. CASE CommitSchedule(t)
    BY <2>3, CommitChecked, CommitUnseen
  <2>4. CASE CommitOther(t)
    <3>1. \A h \in Live' :
            /\ h \in Live
            /\ hearings'[h].at = hearings[h].at
            /\ hearings'[h].lawyer = hearings[h].lawyer
      BY <2>4, CommitOtherKeeps DEF Live
    <3>2. unseen' = unseen
      BY <2>4 DEF CommitOther
    <3>3. DoubleBookingIsUnseen'
      BY <3>1, <3>2 DEF DoubleBookingIsUnseen
    <3> QED BY <2>4, <3>3, CommitChecked
  <2> QED BY <1>3, <2>1, <2>2, <2>3, <2>4, StepCases
<1>4. UNCHANGED vars => UNCHANGED <<rowVars, txVars>>
  BY DEF vars
<1> QED BY <1>2, <1>3, <1>4, RowsKeptByScan DEF Next

\* A lawyer is double-booked only by requests neither of which could see the
\* other's hearing, or by a follow-up, for any number of requests at a time.
THEOREM DoubleBookingsUnseen == Spec => []DoubleBookingIsUnseen
<1>1. Init => CheckedInv /\ DoubleBookingIsUnseen
  BY DEF Init, CheckedInv, HasChecked, DoubleBookingIsUnseen, Live, Existing
<1> QED BY <1>1, NextUnseen, Typed, PTL DEF Spec

-----------------------------------------------------------------------------
(***************************************************************************)
(* What a request holds: rows nobody else holds, an id that is not used    *)
(* yet where it creates a row, and a follow-up whose parent is its hearing.*)
(***************************************************************************)

OwnRows(t) ==
    /\ pc[t] = "idle" => seen[t] = NothingSeen
    /\ pc[t] \in {"find", "link"} => req[t].next # None
    /\ pc[t] # "idle" /\ req[t].kind = "create" => req[t].hearing \notin Existing
    /\ seen[t].followUp # None =>
         IF seen[t].followUp \in Existing
           THEN hearings[seen[t].followUp].parent = req[t].hearing
           ELSE seen[t].followUp \in Linked(t)

HeldInv ==
    /\ \A t \in Txs : OwnRows(t)
    /\ \A t, u \in Txs : t # u => Held(t) \cap Held(u) = {}

\* A step of one request leaves the variables of the others alone.
LEMMA OthersKept ==
    ASSUME TypeInv, NEW t \in Txs, Step(t), NEW u \in Txs, u # t
    PROVE  pc'[u] = pc[u] /\ req'[u] = req[u] /\ seen'[u] = seen[u]
<1>1. CASE Begins(t)
  BY <1>1 DEF Begins, Begin, GoTo, TypeInv, TypeOK
<1>2. CASE Moves(t)
  BY <1>2 DEF Moves, CheckConflict, WriteHearing, FindFollowUp, UpdateFollowUp,
     CreateFollowUp, Notify, GoTo, TypeInv, TypeOK
<1>3. CASE Ends(t)
  BY <1>3 DEF Ends, ConflictFound, FollowUpRefused, Rollback, Finish, GoTo, TypeInv, TypeOK
<1>4. CASE CommitSchedule(t) \/ CommitOther(t)
  BY <1>4 DEF CommitSchedule, CommitOther, Finish, GoTo, TypeInv, TypeOK
<1> QED BY <1>1, <1>2, <1>3, <1>4, StepCases

\* A request that ends holds nothing.
LEMMA FinishHeld ==
    ASSUME TypeInv, NEW t \in Txs, Finish(t)
    PROVE  OwnRows(t)' /\ Held(t)' = {}
<1>1. pc'[t] = "idle" /\ seen'[t] = NothingSeen
  BY DEF Finish, GoTo, TypeInv, TypeOK
<1> QED BY <1>1 DEF OwnRows, Held, Target, Linked, NothingSeen

\* What a request takes hold of is free.
LEMMA BeginHeld ==
    ASSUME TypeInv, HeldInv, NEW t \in Txs, Begins(t)
    PROVE  OwnRows(t)' /\ \A h \in Held(t)' : Free(t, h)
<1>1. PICK r \in Request, previous \in Lawyers \cup {None} :
        /\ r.kind = "create" => FreshId(t, r.hearing)
        /\ Begin(t, r, previous, FirstStep(r))
  BY DEF Begins
<1>2. /\ req'[t] = r /\ pc'[t] = FirstStep(r) /\ hearings' = hearings
      /\ seen'[t].followUp = None
  BY <1>1 DEF Begin, GoTo, TypeInv, TypeOK, rowVars
<1>3. pc'[t] \in {"check", "write"}
  BY <1>2 DEF FirstStep
<1>4. Held(t)' \subseteq {r.hearing} /\ (Held(t)' # {} => r.kind = "create")
  BY <1>2, <1>3 DEF Held, Target, Linked
<1> QED BY <1>1, <1>2, <1>3, <1>4 DEF OwnRows, FreshId, Existing

LEMMA MovesHeld ==
    ASSUME TypeInv, HeldInv, NEW t \in Txs, Moves(t)
    PROVE  OwnRows(t)' /\ \A h \in Held(t)' : h \in Held(t) \/ Free(t, h)
<1>0. /\ OwnRows(t)
      /\ hearings' = hearings /\ Existing' = Existing
      /\ AfterRows(t) \in {"notify", "commit"}
  BY RowsKept DEF HeldInv, rowVars, AfterRows, Existing
<1>1. CASE CheckConflict(t)
  <2>1. pc[t] = "check" /\ pc'[t] = "write" /\ req' = req /\ seen' = seen
    BY <1>1 DEF CheckConflict, GoTo, TypeInv, TypeOK
  <2> QED BY <1>0, <2>1 DEF OwnRows, Held, Target, Linked
<1>2. CASE WriteHearing(t)
  <2>1. /\ pc[t] = "write" /\ req' = req /\ seen' = seen
        /\ pc'[t] = IF req[t].next # None THEN "find" ELSE AfterRows(t)
        /\ Free(t, req[t].hearing)
    BY <1>2 DEF WriteHearing, GoTo, TypeInv, TypeOK
  <2>2. Held(t)' = {req[t].hearing}
    BY <1>0, <2>1 DEF Held, Target, Linked
  <2>3. OwnRows(t)'
    BY <1>0, <2>1 DEF OwnRows, Linked
  <2> QED BY <2>1, <2>2, <2>3
<1>3. CASE FindFollowUp(t)
  <2>1. /\ pc[t] = "find" /\ pc'[t] = "link" /\ req' = req
        /\ \/ seen' = seen
           \/ \E c \in FollowUps(req[t].hearing) : seen' = [seen EXCEPT ![t].followUp = c]
    BY <1>3 DEF FindFollowUp, GoTo, TypeInv, TypeOK
  <2>2. \/ seen'[t] = seen[t]
        \/ /\ seen'[t].followUp \in Existing
           /\ hearings[seen'[t].followUp].parent = req[t].hearing
    BY <2>1 DEF FollowUps, TypeInv, TypeOK
  <2>3. OwnRows(t)'
    BY <1>0, <2>1, <2>2 DEF OwnRows, Linked
  <2> QED BY <2>1, <2>3 DEF Held, Target, Linked
<1>4. CASE UpdateFollowUp(t)
  <2>1. /\ pc[t] = "link" /\ pc'[t] = AfterRows(t) /\ req' = req /\ seen' = seen
        /\ Free(t, seen[t].followUp)
    BY <1>4 DEF UpdateFollowUp, GoTo, TypeInv, TypeOK
  <2>2. Held(t)' \subseteq {req[t].hearing, seen[t].followUp} /\ req[t].hearing \in Held(t)
    BY <2>1 DEF Held, Target, Linked
  <2>3. OwnRows(t)'
    BY <1>0, <2>1 DEF OwnRows, Linked
  <2> QED BY <2>1, <2>2, <2>3
<1>5. ASSUME NEW c \in Hearings, CreateFollowUp(t, c)
      PROVE  OwnRows(t)' /\ \A h \in Held(t)' : h \in Held(t) \/ Free(t, h)
  <2>1. /\ pc[t] = "link" /\ pc'[t] = AfterRows(t) /\ req' = req
        /\ seen'[t].followUp = c /\ FreshId(t, c)
    BY <1>5 DEF CreateFollowUp, GoTo, TypeInv, TypeOK
  <2>2. Held(t)' \subseteq {req[t].hearing, c} /\ req[t].hearing \in Held(t)
    BY <2>1 DEF Held, Target, Linked
  <2>3. req[t].next # None
    BY <1>0, <2>1 DEF OwnRows
  <2>4. OwnRows(t)'
    BY <1>0, <2>1, <2>3 DEF OwnRows, Linked, FreshId
  <2> QED BY <2>1, <2>2, <2>4 DEF FreshId
<1>6. CASE Notify(t)
  <2>1. pc[t] = "notify" /\ pc'[t] = "commit" /\ req' = req /\ seen' = seen
    BY <1>6 DEF Notify, GoTo, TypeInv, TypeOK
  <2> QED BY <1>0, <2>1 DEF OwnRows, Held, Target, Linked
<1> QED BY <1>1, <1>2, <1>3, <1>4, <1>5, <1>6 DEF Moves

\* Parents stay as they are, and a commit adds only what it holds.
LEMMA CommitParents ==
    ASSUME TypeInv, HeldInv, NEW t \in Txs, CommitSchedule(t) \/ CommitOther(t)
    PROVE  /\ \A h \in Existing :
                  h \in Existing' /\ hearings'[h].parent = hearings[h].parent
           /\ \A h \in Existing' : h \in Existing \/ h \in Held(t)
<1>0. OwnRows(t)
  BY DEF HeldInv
<1>1. CASE CommitSchedule(t)
  <2>1. /\ Held(t) = {req[t].hearing} \cup Linked(t)
        /\ Linked(t) # {} => Linked(t) = {seen[t].followUp}
        /\ \A h \in Hearings : hearings'[h] = IF h = req[t].hearing THEN Written(t)
              ELSE IF h \in Linked(t) THEN WrittenFollowUp(t) ELSE hearings[h]
    BY <1>1 DEF CommitSchedule, Held, Target, Linked
  <2>2. Written(t) \in Hearing /\ (Linked(t) # {} => WrittenFollowUp(t) \in Hearing)
    BY <1>1, WrittenTyped DEF CommitSchedule
  <2>3. ASSUME NEW h \in Existing
        PROVE  h \in Existing' /\ hearings'[h].parent = hearings[h].parent
    <3>1. CASE h = req[t].hearing
      <4>1. req[t].kind # "create" /\ hearings'[h] = Written(t)
        BY <1>0, <1>1, <2>1, <2>3, <3>1 DEF OwnRows, CommitSchedule, Existing
      <4> QED BY <2>2, <2>3, <3>1, <4>1, HearingsAssumption DEF Written, Existing
    <3>2. CASE h # req[t].hearing /\ h \in Linked(t)
      <4>1. hearings'[h] = WrittenFollowUp(t) /\ h = seen[t].followUp
        BY <2>1, <2>3, <3>2 DEF Existing
      <4>2. hearings[h].parent = req[t].hearing
        BY <1>0, <2>3, <4>1, HearingsAssumption DEF OwnRows, Existing
      <4> QED BY <2>2, <2>3, <3>2, <4>1, <4>2, HearingsAssumption DEF WrittenFollowUp, Existing
    <3>3. CASE h \notin Held(t)
      BY <2>1, <2>3, <3>3 DEF Existing
    <3> QED BY <2>1, <3>1, <3>2, <3>3
  <2>4. \A h \in Existing' : h \in Existing \/ h \in Held(t)
    BY <2>1 DEF Existing
  <2> QED BY <2>3, <2>4
<1>2. CASE CommitOther(t)
  <2>1. Existing' = Existing
    BY <1>2, CommitOtherTyped
  <2>2. \A h \in Existing : hearings'[h].parent = hearings[h].parent
    BY <1>2, CommitOtherKeeps
  <2> QED BY <2>1, <2>2
<1> QED BY <1>1, <1>2

\* A step of one request leaves what the others hold to them.
LEMMA StepHeld ==
    ASSUME TypeInv, HeldInv, NEW t \in Txs, Step(t)
    PROVE  HeldInv'
<1>1. /\ OwnRows(t)'
      /\ \A h \in Held(t)' : h \in Held(t) \/ Free(t, h)
  <2>1. CASE Begins(t)
    BY <2>1, BeginHeld
  <2>2. CASE Moves(t)
    BY <2>2, MovesHeld
  <2>3. CASE Ends(t) \/ CommitSchedule(t) \/ CommitOther(t)
    BY <2>3, FinishHeld
       DEF Ends, ConflictFound, FollowUpRefused, Rollback, CommitSchedule, CommitOther
  <2> QED BY <2>1, <2>2, <2>3, StepCases
<1>2. /\ \A h \in Existing : h \in Existing' /\ hearings'[h].parent = hearings[h].parent
      /\ \A h \in Existing' : h \in Existing \/ h \in Held(t)
  <2>1. CASE Begins(t) \/ Moves(t) \/ Ends(t)
    BY <2>1, RowsKept DEF rowVars, Existing
  <2>2. CASE CommitSchedule(t) \/ CommitOther(t)
    BY <2>2, CommitParents
  <2> QED BY <2>1, <2>2, StepCases
<1>3. ASSUME NEW u \in Txs, u # t
      PROVE  /\ pc'[u] = pc[u] /\ req'[u] = req[u] /\ seen'[u] = seen[u]
             /\ Held(u)' = Held(u) /\ Linked(u)' = Linked(u)
  <2>1. pc'[u] = pc[u] /\ req'[u] = req[u] /\ seen'[u] = seen[u]
    BY <1>3, OthersKept
  <2> QED BY <2>1 DEF Held, Target, Linked
<1>4. ASSUME NEW u \in Txs, u # t PROVE OwnRows(u)'
  <2>1. OwnRows(u) /\ Held(u) \cap Held(t) = {}
    BY <1>4 DEF HeldInv
  <2>2. pc[u] # "idle" /\ req[u].kind = "create" => req[u].hearing \in Held(u)
    BY DEF Held, Target
  <2>3. Linked(u) \subseteq Held(u)
    BY DEF Held
  <2> QED BY <1>2, <1>3, <1>4, <2>1, <2>2, <2>3 DEF OwnRows
<1>5. ASSUME NEW u \in Txs, NEW v \in Txs, u # v PROVE Held(u)' \cap Held(v)' = {}
  <2>1. CASE u # t /\ v # t
    BY <1>3, <1>5, <2>1 DEF HeldInv
  <2>2. CASE u = t
    BY <1>1, <1>3, <1>5, <2>2 DEF HeldInv, Free
  <2>3. CASE v = t
    BY <1>1, <1>3, <1>5, <2>3 DEF HeldInv, Free
  <2> QED BY <2>1, <2>2, <2>3
<1> QED BY <1>1, <1>4, <1>5 DEF HeldInv

LEMMA HeldApart == Spec => []HeldInv
<1>1. Init => HeldInv
  BY DEF Init, HeldInv, OwnRows, Held, Target, Linked, NothingSeen
<1>2. TypeInv /\ HeldInv /\ [Next]_vars => HeldInv'
  <2>1. ASSUME HeldInv, UNCHANGED <<rowVars, txVars>> PROVE HeldInv'
    <3>1. hearings' = hearings /\ pc' = pc /\ req' = req /\ seen' = seen
      BY <2>1 DEF rowVars, txVars
    <3>2. Existing' = Existing /\ \A t : Held(t)' = Held(t) /\ Linked(t)' = Linked(t)
      BY <3>1 DEF Existing, Held, Target, Linked
    <3>3. \A t \in Txs : OwnRows(t) => OwnRows(t)'
      BY <3>1, <3>2 DEF OwnRows
    <3> QED BY <2>1, <3>2, <3>3 DEF HeldInv
  <2>2. UNCHANGED vars => UNCHANGED <<rowVars, txVars>>
    BY DEF vars
  <2> QED BY <2>1, <2>2, RowsKeptByScan, StepHeld DEF Next
<1> QED BY <1>1, <1>2, Typed, PTL DEF Spec

-----------------------------------------------------------------------------
(***************************************************************************)
(* The lawyer of a hearing has been told of it or of one it follows on.    *)
(***************************************************************************)

ToldAbove(l, h) == \E g \in Chain(h) : <<l, g>> \in told

\* What a request has read or has dispatched still holds when it commits.
RequestTold(t) ==
    pc[t] # "idle" /\ Schedules(t) =>
        /\ seen[t].lawyer # None => ToldAbove(seen[t].lawyer, req[t].hearing)
        /\ pc[t] = "commit" /\ req[t].lawyer # None => ToldAbove(req[t].lawyer, req[t].hearing)

ToldInv == AssigneeIsTold /\ \A t \in Txs : RequestTold(t)

\* Rows that keep their parents keep the hearings they follow on.
LEMMA ChainGrows ==
    ASSUME \A g \in Existing : g \in Existing' /\ hearings'[g].parent = hearings[g].parent,
           NEW h
    PROVE  Chain(h) \subseteq Chain(h)'
<1>1. ASSUME NEW S, ClosedUp(S)' PROVE ClosedUp(S)
  BY <1>1 DEF ClosedUp
<1> QED BY <1>1 DEF Chain

LEMMA ToldAboveStays ==
    ASSUME \A g \in Existing : g \in Existing' /\ hearings'[g].parent = hearings[g].parent,
           told \subseteq told',
           NEW l, NEW h, ToldAbove(l, h)
    PROVE  ToldAbove(l, h)'
BY ChainGrows DEF ToldAbove

\* Rows keep their parents and messages are not taken back, whatever step.
LEMMA StepParents ==
    ASSUME TypeInv, HeldInv, NEW t \in Txs, Step(t)
    PROVE  /\ \A g \in Existing : g \in Existing' /\ hearings'[g].parent = hearings[g].parent
           /\ told \subseteq told'
<1>1. CASE Begins(t) \/ Moves(t) \/ Ends(t)
  <2>1. told \subseteq told'
    BY <1>1 DEF Begins, Begin, Moves, CheckConflict, WriteHearing, FindFollowUp,
       UpdateFollowUp, CreateFollowUp, Notify, Ends, ConflictFound, FollowUpRefused, Rollback
  <2> QED BY <1>1, <2>1, RowsKept DEF rowVars, Existing
<1>2. CASE CommitSchedule(t) \/ CommitOther(t)
  BY <1>2, CommitParents DEF CommitSchedule, CommitOther
<1> QED BY <1>1, <1>2, StepCases

\* What a request is about to commit has been told.
LEMMA OwnTold ==
    ASSUME TypeInv, HeldInv, ToldInv, NEW t \in Txs, Step(t)
    PROVE  RequestTold(t)'
<1>0. \A l, h : ToldAbove(l, h) => ToldAbove(l, h)'
  BY StepParents, ToldAboveStays
<1>1. CASE Begins(t)
  <2>1. PICK r \in Request, previous \in Lawyers \cup {None} :
          /\ r.kind = "create" => previous = None
          /\ r.kind = "update" => /\ r.hearing \in Existing
                                  /\ previous = hearings[r.hearing].lawyer
          /\ Begin(t, r, previous, FirstStep(r))
    BY <1>1 DEF Begins
  <2>2. req'[t] = r /\ pc'[t] \in {"check", "write"} /\ seen'[t].lawyer = previous
    BY <2>1 DEF Begin, GoTo, FirstStep, TypeInv, TypeOK
  <2>3. ASSUME Schedules(t)', previous # None PROVE ToldAbove(previous, r.hearing)
    BY <2>1, <2>2, <2>3 DEF Schedules, ToldInv, AssigneeIsTold, ToldAbove
  <2> QED BY <1>0, <2>2, <2>3 DEF RequestTold
<1>2. CASE Moves(t)
  <2>1. /\ pc[t] # "idle" /\ req' = req /\ seen'[t].lawyer = seen[t].lawyer
        /\ pc'[t] = "commit" => Notify(t) \/ AfterRows(t) = "commit"
    BY <1>2 DEF Moves, CheckConflict, WriteHearing, FindFollowUp, UpdateFollowUp,
       CreateFollowUp, Notify, GoTo, TypeInv, TypeOK
  <2>2. RequestTold(t) /\ Schedules(t)' = Schedules(t)
    BY <2>1 DEF ToldInv, Schedules
  <2> PICK g, l, k : g = req[t].hearing /\ l = req[t].lawyer /\ k = seen[t].lawyer
    OBVIOUS
  <2>3. ASSUME Schedules(t), pc'[t] = "commit", l # None
        PROVE  ToldAbove(l, g)'
    <3>1. CASE Notify(t)
      <4>1. g \in Hearings
        BY <3>1 DEF Notify, TypeInv, RequestOK, Request, Schedule, Other
      <4>2. g \in Chain(g)'
        BY <4>1 DEF Chain
      <4>3. <<l, g>> \in told'
        BY <3>1 DEF Notify
      <4> QED BY <4>2, <4>3 DEF ToldAbove
    <3>2. CASE AfterRows(t) = "commit"
      <4>1. l = seen[t].lawyer
        BY <2>3, <3>2 DEF AfterRows, Tells
      <4>2. ToldAbove(l, g)
        BY <2>1, <2>2, <2>3, <4>1 DEF RequestTold
      <4> QED BY <1>0, <4>2
    <3> QED BY <2>1, <2>3, <3>1, <3>2
  <2>4. ASSUME Schedules(t), k # None
        PROVE  ToldAbove(k, g)'
    BY <1>0, <2>1, <2>2, <2>4 DEF RequestTold
  <2> QED BY <2>1, <2>2, <2>3, <2>4 DEF RequestTold, ToldAbove
<1>3. CASE Ends(t) \/ CommitSchedule(t) \/ CommitOther(t)
  <2>1. pc'[t] = "idle"
    BY <1>3 DEF Ends, ConflictFound, FollowUpRefused, Rollback, CommitSchedule, CommitOther,
       Finish, GoTo, TypeInv, TypeOK
  <2> QED BY <2>1 DEF RequestTold
<1> QED BY <1>1, <1>2, <1>3, StepCases

\* A commit gives a row only a lawyer who was told.
LEMMA CommitTold ==
    ASSUME TypeInv, HeldInv, ToldInv, NEW t \in Txs, Step(t), CommitSchedule(t)
    PROVE  AssigneeIsTold'
<1> PICK g, l : g = req[t].hearing /\ l = req[t].lawyer
  OBVIOUS
<1>1. /\ Held(t) = {g} \cup Linked(t) /\ g \in Hearings /\ g # None
      /\ \A h \in Hearings : hearings'[h] = IF h = g THEN Written(t)
            ELSE IF h \in Linked(t) THEN WrittenFollowUp(t) ELSE hearings[h]
      /\ Written(t).lawyer = l
      /\ WrittenFollowUp(t).lawyer = l /\ WrittenFollowUp(t).parent = g
  BY WrittenTyped, HearingsAssumption
     DEF CommitSchedule, Held, Target, Written, WrittenFollowUp
<1>2. \A k, h : ToldAbove(k, h) => ToldAbove(k, h)'
  BY StepParents, ToldAboveStays
<1>3. ASSUME l # None PROVE ToldAbove(l, g)'
  <2>1. ToldAbove(l, g)
    BY <1>3 DEF ToldInv, RequestTold, CommitSchedule
  <2> QED BY <1>2, <2>1
<1>4. ASSUME NEW h \in Existing', NEW k, k = hearings'[h].lawyer, k # None
      PROVE  ToldAbove(k, h)'
  <2>0. h \in Hearings
    BY <1>4 DEF Existing
  <2>1. CASE h = g
    BY <1>1, <1>3, <1>4, <2>0, <2>1
  <2>2. CASE h # g /\ h \in Linked(t)
    <3>1. k = l /\ hearings'[h].parent = g
      BY <1>1, <1>4, <2>0, <2>2
    <3>2. ASSUME NEW S, h \in S, ClosedUp(S)' PROVE g \in S
      BY <1>1, <1>4, <3>1, <3>2 DEF ClosedUp
    <3>3. Chain(g)' \subseteq Chain(h)'
      BY <3>2 DEF Chain
    <3> QED BY <1>3, <1>4, <3>1, <3>3 DEF ToldAbove
  <2>3. CASE h \notin Held(t)
    <3>1. hearings'[h] = hearings[h]
      BY <1>1, <2>0, <2>3
    <3>2. h \in Existing
      BY <1>4, <3>1 DEF Existing
    <3>3. ToldAbove(k, h)
      BY <1>4, <3>1, <3>2 DEF ToldInv, AssigneeIsTold, ToldAbove
    <3> QED BY <1>2, <3>3
  <2> QED BY <1>1, <2>1, <2>2, <2>3
<1> QED BY <1>4 DEF AssigneeIsTold, ToldAbove

LEMMA NextTold == TypeInv /\ HeldInv /\ ToldInv /\ [Next]_vars => ToldInv'
<1> SUFFICES ASSUME TypeInv, HeldInv, ToldInv, [Next]_vars PROVE ToldInv'
  OBVIOUS
<1>1. CASE UNCHANGED <<rowVars, txVars>> /\ told' = told
  <2>1. hearings' = hearings /\ pc' = pc /\ req' = req /\ seen' = seen
    BY <1>1 DEF rowVars, txVars
  <2>2. Existing' = Existing /\ \A h : Chain(h)' = Chain(h)
    BY <2>1 DEF Existing, Chain, ClosedUp
  <2>3. \A t \in Txs : RequestTold(t)'
    BY <1>1, <2>1, <2>2 DEF ToldInv, RequestTold, ToldAbove, Schedules
  <2>4. AssigneeIsTold'
    BY <1>1, <2>1, <2>2 DEF ToldInv, AssigneeIsTold
  <2> QED BY <2>3, <2>4 DEF ToldInv
<1>2. ASSUME NEW t \in Txs, Step(t) PROVE ToldInv'
  <2>0. \A l, h : ToldAbove(l, h) => ToldAbove(l, h)'
    BY <1>2, StepParents, ToldAboveStays
  <2>1. ASSUME NEW u \in Txs PROVE RequestTold(u)'
    <3>1. CASE u = t
      BY <1>2, <3>1, OwnTold
    <3>2. CASE u # t
      <4>1. pc'[u] = pc[u] /\ req'[u] = req[u] /\ seen'[u] = seen[u]
        BY <1>2, <3>2, OthersKept
      <4>2. RequestTold(u)
        BY DEF ToldInv
      <4> QED BY <2>0, <4>1, <4>2 DEF RequestTold, Schedules, ToldAbove
    <3> QED BY <3>1, <3>2
  <2>2. AssigneeIsTold'
    <3>1. CASE CommitSchedule(t)
      BY <1>2, <3>1, CommitTold
    <3>2. ASSUME Existing' = Existing, \A h \in Existing : hearings'[h].lawyer = hearings[h].lawyer
          PROVE  AssigneeIsTold'
      BY <2>0, <3>2 DEF ToldInv, AssigneeIsTold, ToldAbove
    <3>3. CASE Begins(t) \/ Moves(t) \/ Ends(t)
      BY <3>2, <3>3, RowsKept DEF rowVars, Existing
    <3>4. CASE CommitOther(t)
      <4>1. Existing' = Existing
        BY <3>4, CommitOtherTyped
      <4>2. \A h \in Existing : hearings'[h].lawyer = hearings[h].lawyer
        BY <3>4, CommitOtherKeeps
      <4> QED BY <3>2, <4>1, <4>2
    <3> QED BY <1>2, <3>1, <3>3, <3>4, StepCases
  <2> QED BY <2>1, <2>2 DEF ToldInv
<1>3. Scan => UNCHANGED <<rowVars, txVars>> /\ told' = told
  BY RowsKeptByScan DEF Scan, DayPasses, ScanWindow, Remind, ScanEnds
<1>4. UNCHANGED vars => UNCHANGED <<rowVars, txVars>> /\ told' = told
  BY DEF vars
<1> QED BY <1>1, <1>2, <1>3, <1>4 DEF Next

\* Nobody becomes the lawyer of a hearing without having been told of it or of a
\* hearing it follows on, however requests overlap: the lawyer that updateHearing
\* compares with was told before, and rows never change their parents.
THEOREM AssigneesAreTold == Spec => []AssigneeIsTold
<1>1. Init => ToldInv
  BY DEF Init, ToldInv, AssigneeIsTold, RequestTold, Existing
<1>2. ToldInv => AssigneeIsTold
  BY DEF ToldInv
<1> QED BY <1>1, <1>2, NextTold, Typed, HeldApart, PTL DEF Spec

=============================================================================
