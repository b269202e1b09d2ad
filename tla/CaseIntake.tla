----------------------------- MODULE CaseIntake -----------------------------
(***************************************************************************)
(* The quick intake page (CaseQuickIntakePage.tsx) at work on a case file: *)
(* a submission creates the client and the case, then saves the sections   *)
(* of the form one after the other, the rows of a section in parallel, and *)
(* notes the sections of which a row failed, for the user to retry.        *)
(*                                                                         *)
(* The button is disabled only while a mutation the page observes is       *)
(* pending, so the user can submit again while another submission saves    *)
(* its sections.  Then there are several cases; any one of them is the     *)
(* file of CaseFile, with its other users, and a submission that saves     *)
(* another one is elsewhere.                                               *)
(*                                                                         *)
(* A request can be refused, and its answer can be lost.  Then the desktop *)
(* shell may be starting the backend again, and fetchWithDesktopRecovery   *)
(* sends the request a second time.                                        *)
(*                                                                         *)
(* Hearings, tasks and documents are sections like the four here.  Field   *)
(* validation, the permissions of the page's user and changes to the form  *)
(* between two submissions are left out.                                   *)
(***************************************************************************)
EXTENDS CaseFile

CONSTANTS
    Submissions,               \* calls of handleSubmit
    Courts, Parties, Members,  \* rows of the first three sections of the form
    TypeOf, UserOf,            \* type of a party row, user of an assignment row
    Target,                    \* status chosen on the form
    StatusRow,                 \* the row of the status section
    Others,                    \* another user of the case
    Targets,                   \* statuses that user sets
    MaxEvents                  \* bound: submissions that overlap, lost answers and
                               \* requests of the other user

Sections == <<"courts", "parties", "assignments", "status">>
SectionNames == {Sections[i] : i \in 1 .. Len(Sections)}

\* statusForm.status # ACTIVE
StatusRows == IF Target = "ACTIVE" THEN {} ELSE {StatusRow}
Drafts == Courts \cup Parties \cup Members \cup StatusRows

SectionOf(d) == CASE d \in Courts -> "courts" [] d \in Parties -> "parties"
                  [] d \in Members -> "assignments" [] OTHER -> "status"

\* A row of the form as one submission sends it.
Rows == Submissions \X Drafts

\* A retryContext; origin is the submission that created its case.
Context == [origin : Submissions, sections : SUBSET SectionNames]

ASSUME CaseIntakeAssumption ==
    /\ Rows \cup Others \subseteq Senders /\ Rows \cap Others = {}
    /\ Courts \cap (Parties \cup Members) = {} /\ Parties \cap Members = {}
    /\ StatusRow \notin Courts \cup Parties \cup Members
    /\ TypeOf \in [Parties -> PartyTypes] /\ UserOf \in [Members -> Users]
    /\ Target \in Statuses /\ Targets \subseteq Statuses
    /\ MaxEvents \in Nat
    /\ None \notin Submissions \cup Context

VARIABLES
    phase,      \* what every submission is doing
    context,    \* the retryContext it began with
    calls,      \* the submissions whose client and case the button waits for
    retry,      \* retryContext
    overlaps,   \* auxiliary: submissions begun while another one was running
    section,    \* the section a submission is saving
    failed,     \* its failedSections
    posts,      \* the request of every row
    resent,     \* rows whose request was sent again
    followed,   \* the submission that created the case of the file
    cases,      \* cases the page has created
    events,     \* what MaxEvents bounds
    lost,       \* auxiliary: answers lost, of every row and, under None, of a case
    saved,      \* auxiliary: times a row was saved
    reported    \* auxiliary: sections of the file reported as failed

button   == <<context, calls, retry, overlaps>>
work     == <<section, failed, posts, resent>>
created  == <<followed, cases>>
counters == <<events, lost, saved, reported>>
pageVars == <<phase, button, work, created, counters>>
vars     == <<fileVars, pageVars>>

Post(r) == LET d == r[2] IN
    CASE d \in Courts  -> [kind |-> "addCourt", target |-> None, arg |-> None, from |-> r]
      [] d \in Parties -> [kind |-> "addParty", target |-> None, arg |-> TypeOf[d], from |-> r]
      [] d \in Members -> [kind |-> "assign", target |-> None, arg |-> UserOf[d], from |-> r]
      [] OTHER         -> [kind |-> "status", target |-> None, arg |-> Target, from |-> r]

-----------------------------------------------------------------------------
(***************************************************************************)
(* The button.                                                             *)
(***************************************************************************)

Running == {"client", "refresh", "case", "sections", "elsewhere"}

\* isPending of a mutation is about its last call.
Submitting == calls.client # None \/ calls.case # None

Answered(call, n) == calls' = IF calls[call] = n THEN [calls EXCEPT ![call] = None] ELSE calls

\* The page has navigated to a case.
Left == \E n \in Submissions : phase[n] = "done"

GoOn(n, step) == phase' = [phase EXCEPT ![n] = step]

Unused == {n \in Submissions : phase[n] = "none"}
NextSubmission == CHOOSE n \in Submissions : n \in Unused

Event == events < MaxEvents /\ events' = events + 1

Submits(step) ==
    /\ Unused # {}
    /\ ~Left
    /\ ~Submitting
    /\ GoOn(NextSubmission, step)
    /\ context' = [context EXCEPT ![NextSubmission] = retry]
    /\ IF \E n \in Submissions : phase[n] \in Running
       THEN Event /\ overlaps' = overlaps + 1
       ELSE UNCHANGED <<events, overlaps>>

\* Without a retryContext a case is created, and before it a client or none.
Submit ==
    /\ retry = None
    /\ \E step \in {"client", "case"} :
        /\ Submits(step)
        /\ calls' = [calls EXCEPT ![step] = NextSubmission]
    /\ UNCHANGED <<fileVars, retry, work, created, lost, saved, reported>>

RetrySubmit ==
    /\ retry # None
    /\ Submits(IF retry.origin = followed THEN "sections" ELSE "elsewhere")
    /\ UNCHANGED <<fileVars, calls, retry, work, created, lost, saved, reported>>

-----------------------------------------------------------------------------
(***************************************************************************)
(* handleSubmit.                                                           *)
(***************************************************************************)

\* The list of clients is fetched before the case is created.
ClientCreated(n) ==
    /\ phase[n] = "client"
    /\ GoOn(n, "refresh")
    /\ Answered("client", n)
    /\ UNCHANGED <<fileVars, context, retry, overlaps, work, created, counters>>

CaseRequested(n) ==
    /\ phase[n] = "refresh"
    /\ GoOn(n, "case")
    /\ calls' = [calls EXCEPT !.case = n]
    /\ UNCHANGED <<fileVars, context, retry, overlaps, work, created, counters>>

CaseCreated(n) ==
    /\ phase[n] = "case"
    /\ cases' = cases + 1
    /\ \/ CreateCase /\ GoOn(n, "sections") /\ followed' = n
       \/ GoOn(n, "elsewhere") /\ UNCHANGED <<fileVars, followed>>
    /\ Answered("case", n)
    /\ UNCHANGED <<context, retry, overlaps, work, counters>>

\* The catch keeps no retryContext: the next submission starts over.
CreationFails(n) ==
    /\ phase[n] \in {"client", "case"}
    /\ GoOn(n, "failed")
    /\ Answered(phase[n], n)
    /\ UNCHANGED <<fileVars, context, retry, overlaps, work, created, counters>>

\* The case is there, but the page does not know its id: it is sent again, or the
\* user starts over.
CaseAnswerLost(n) ==
    /\ phase[n] = "case"
    /\ Event
    /\ lost' = [lost EXCEPT ![None] = @ + 1]
    /\ cases' = cases + 1
    /\ \/ UNCHANGED <<phase, calls>>
       \/ GoOn(n, "failed") /\ Answered("case", n)
    /\ UNCHANGED <<fileVars, context, retry, overlaps, work, followed, saved, reported>>

Origin(n) == IF context[n] = None THEN n ELSE context[n].origin

\* Seeded fault: a retry saves all sections again.
AttemptAlways(n, s) == TRUE

\* shouldAttemptSection
ShouldAttempt(n, s) == context[n] = None \/ s \in context[n].sections

Saving(n)  == phase[n] = "sections" /\ section[n] <= Len(Sections)
Current(n) == Sections[section[n]]
RowsOf(n)  == IF ShouldAttempt(n, Current(n))
              THEN {n} \X {d \in Drafts : SectionOf(d) = Current(n)} ELSE {}
ToPost(n)  == {r \in RowsOf(n) : posts[r] = "ready"}

\* A request takes any slot that is free: they differ in name only.
Slot       == CHOOSE t \in Txs : pc[t] = "idle"
NextRow(n) == CHOOSE r \in Rows : r \in ToPost(n)

PostRow(n) ==
    /\ Saving(n)
    /\ ToPost(n) # {}
    /\ \E t \in Txs : pc[t] = "idle"
    /\ Begin(Slot, Post(NextRow(n)))
    /\ posts' = [posts EXCEPT ![NextRow(n)] = "posted"]
    /\ UNCHANGED <<phase, button, section, failed, resent, created, counters>>

RowSettled(t) ==
    /\ req[t].from \in Rows
    /\ Take(t)
    /\ posts' = [posts EXCEPT ![req[t].from] = pc[t]]
    /\ UNCHANGED <<phase, button, section, failed, resent, created, counters>>

\* fetchWithDesktopRecovery sends it again, once, while the backend is restarted.
RowAnswerLost(t) == LET r == req[t].from IN
    /\ r \in Rows
    /\ Event
    /\ lost' = [lost EXCEPT ![r] = @ + 1]
    /\ Take(t)
    /\ \/ posts' = [posts EXCEPT ![r] = "refused"] /\ UNCHANGED resent
       \/ /\ r \notin resent
          /\ posts' = [posts EXCEPT ![r] = "ready"]
          /\ resent' = resent \cup {r}
    /\ UNCHANGED <<phase, button, section, failed, created, saved, reported>>

\* Promise.allSettled
SectionSettled(n) ==
    /\ Saving(n)
    /\ \A r \in RowsOf(n) : posts[r] \in {"saved", "refused"}
    /\ section' = [section EXCEPT ![n] = @ + 1]
    /\ failed' = IF \E r \in RowsOf(n) : posts[r] = "refused"
                 THEN [failed EXCEPT ![n] = @ \cup {Current(n)}] ELSE failed
    /\ UNCHANGED <<fileVars, phase, button, posts, resent, created, counters>>

Through(n) == phase[n] = "sections" /\ section[n] > Len(Sections)

AllSaved(n) ==
    /\ Through(n) /\ failed[n] = {}
    /\ GoOn(n, "done")
    /\ retry' = None
    /\ UNCHANGED <<fileVars, context, calls, overlaps, work, created, counters>>

\* Nobody sees the context of a page that has been left.
SavedWithIssues(n) ==
    /\ Through(n) /\ failed[n] # {}
    /\ GoOn(n, "issues")
    /\ retry' = [origin |-> Origin(n), sections |-> failed[n]]
    /\ reported' = reported \cup failed[n]
    /\ UNCHANGED <<fileVars, context, calls, overlaps, work, created, events, lost, saved>>

\* Which sections of another case failed does not matter here.
EndsElsewhere(n) ==
    /\ phase[n] = "elsewhere"
    /\ \/ GoOn(n, "done") /\ retry' = None
       \/ GoOn(n, "issues") /\ retry' = [origin |-> Origin(n), sections |-> {}]
    /\ UNCHANGED <<fileVars, context, calls, overlaps, work, created, counters>>

-----------------------------------------------------------------------------
(***************************************************************************)
(* The server and the other user.                                          *)
(***************************************************************************)

RowCommits(t) ==
    /\ Commit(t)
    /\ saved' = IF req[t].from \in Rows
                THEN [saved EXCEPT ![req[t].from] = @ + 1] ELSE saved
    /\ UNCHANGED <<phase, button, work, created, events, lost, reported>>

\* What the detail page of the case offers.
OtherRequest(from) ==
    [kind : {"status"}, target : {None}, arg : Targets, from : {from}]
    \cup [kind : {"updateParty"}, target : DOMAIN parties, arg : {"OPPONENT"}, from : {from}]
    \cup [kind : {"removeParty"}, target : DOMAIN parties, arg : {None}, from : {from}]
    \cup [kind : {"assign"}, target : {None}, arg : Users, from : {from}]
    \cup [kind : {"unassign"}, target : DOMAIN team, arg : {None}, from : {from}]
    \cup [kind : {"delete"}, target : {None}, arg : {None}, from : {from}]

OtherBegins ==
    /\ file # None
    /\ \E t \in Txs : pc[t] = "idle"
    /\ Event
    /\ \E from \in Others : \E r \in OtherRequest(from) : Begin(Slot, r)
    /\ UNCHANGED <<phase, button, work, created, lost, saved, reported>>

OtherTakes(t) ==
    /\ req[t].from \in Others
    /\ Take(t)
    /\ UNCHANGED pageVars

ServerStep(t) == Statement(t) /\ UNCHANGED pageVars

Init ==
    /\ FileInit
    /\ phase = [n \in Submissions |-> "none"]
    /\ context = [n \in Submissions |-> None]
    /\ calls = [client |-> None, case |-> None]
    /\ retry = None /\ overlaps = 0
    /\ section = [n \in Submissions |-> 1]
    /\ failed = [n \in Submissions |-> {}]
    /\ posts = [r \in Rows |-> "ready"] /\ resent = {}
    /\ followed = None /\ cases = 0 /\ events = 0
    /\ lost = [r \in Rows \cup {None} |-> 0]
    /\ saved = [r \in Rows |-> 0]
    /\ reported = {}

PageStep(n) ==
    \/ ClientCreated(n) \/ CaseRequested(n) \/ CaseCreated(n) \/ PostRow(n)
    \/ SectionSettled(n) \/ AllSaved(n) \/ SavedWithIssues(n) \/ EndsElsewhere(n)

Next ==
    \/ Submit \/ RetrySubmit \/ OtherBegins
    \/ \E n \in Submissions : CreationFails(n) \/ CaseAnswerLost(n) \/ PageStep(n)
    \/ \E t \in Txs :
        \/ RowSettled(t) \/ RowAnswerLost(t) \/ OtherTakes(t)
        \/ ServerStep(t) \/ RowCommits(t)

Spec == Init /\ [][Next]_vars

\* While the server can go on with a request, or its answer arrive, Prisma's limits
\* included, or the page can run its code, one of them does.  Nobody has to submit, retry
\* or lose anything.
Progress(t) == ServerStep(t) \/ RowCommits(t) \/ RowSettled(t) \/ OtherTakes(t)

Fairness == WF_vars((\E t \in Txs : Progress(t)) \/ \E n \in Submissions : PageStep(n))

FairSpec == Spec /\ Fairness

-----------------------------------------------------------------------------
(***************************************************************************)
(* Properties.                                                             *)
(***************************************************************************)

TypeOK ==
    /\ FileTypeOK
    /\ phase \in [Submissions -> Running \cup {"none", "failed", "issues", "done"}]
    /\ context \in [Submissions -> Context \cup {None}]
    /\ calls \in [client : Submissions \cup {None}, case : Submissions \cup {None}]
    /\ retry \in Context \cup {None}
    /\ section \in [Submissions -> 1 .. Len(Sections) + 1]
    /\ failed \in [Submissions -> SUBSET SectionNames]
    /\ posts \in [Rows -> {"ready", "posted", "saved", "refused"}]
    /\ resent \subseteq Rows
    /\ followed \in Submissions \cup {None} /\ (followed # None <=> file # None)

\* What the page tells is so (failedSections, shouldAttemptSection, retryContext):
\*   - it leaves for a case only when every row of the form is saved in that case;
\*   - a submission saves a row again only after an answer about it was lost, and a retry
\*     saves only rows of sections that were reported as failed, whatever runs beside it;
\*   - a second case is created only after an answer about the first was lost, or when the
\*     user submitted while another submission was running.
SavedAsReported ==
    /\ \A n \in Submissions : phase[n] = "done" /\ Origin(n) = followed =>
        \A d \in Drafts : \E r \in Rows : r[2] = d /\ saved[r] >= 1
    /\ \A r \in Rows :
        /\ saved[r] <= 1 + lost[r]
        /\ saved[r] >= 1 /\ context[r[1]] # None => SectionOf(r[2]) \in reported
    /\ cases <= 1 + lost[None] \/ overlaps > 0

\* Requests that wait for one another's connections or rows do not wait forever: again and
\* again every submission has ended and every request is answered (maxWait and timeout of
\* transactions).
Busy == \/ \E n \in Submissions : phase[n] \in Running
        \/ \E t \in Txs : pc[t] # "idle"
SubmissionEnds == []<>~Busy

=============================================================================
