# Verification of ELMS

ELMS is a case-management system for law firms: a Fastify and Prisma backend over PostgreSQL
(`packages/backend`), a React frontend (`packages/frontend`), and a Tauri shell
(`apps/desktop/src-tauri`) that installs, starts and supervises both on one machine. This directory
holds TLA+ models of its stateful core, the TLC configurations that check them, and TLAPS proofs.

`src/` below stands for `packages/backend/src/`. To check or prove something:

    tlc -workers 2 -config MCBilling.cfg MCBilling
    tlapm BillingProofs.tla

`PROJECT.json` names every run with its properties, the source lines behind every definition, a
seeded fault for every property, the findings, the hazards and the theorems.

## 1. Inventory

| Component | State | Operations | What is hard | Correct means |
|---|---|---|---|---|
| **Billing** `src/modules/billing`, `src/repositories/billing` | invoices, payments, credit applications, a credit balance and a credit ledger per client | create, update, issue, void, delete an invoice; add a payment; apply credit | each handler is several statements of one READ COMMITTED transaction; status and reversal are computed from earlier reads | balance = ledger, never negative; an invoice's ledger entries match its payments; nothing is settled beyond its total |
| **Firm lifecycle and licensing** `src/modules/editions`, `src/modules/firms`, `src/middleware` | lifecycle status, edition and pending edition, four dates, licence key hash | setup, daily sweep, licence activation, edition change, write guard | the sweep decides on a snapshot; activation checks and writes in separate transactions; missed sweeps | never degraded early; a licence fits its edition; dates fixed; trials end |
| **Documents** `src/modules/documents`, `src/jobs`, `src/storage` | document and version rows, files, preview file, two in-memory queues | upload, new version, delete, extract text, convert to PDF | file, row and queue are written one after the other; workers use rows read earlier; restarts | files of versions survive; text and preview belong to the current file; work ends |
| **Cases** `src/modules/cases` | status and history, parties, assignments, court stages | create, transition, party edits, assign, add a stage, delete | check, then write; a second connection inside a transaction | a client party remains; the history is a path of the table; stages have an order; requests end |
| **Quick intake page** `CaseQuickIntakePage.tsx`, `lib/api.ts` | form rows, failed sections, retry context | submit, retry | parallel requests, partial failure, requests sent again | what the page reports is what was saved |
| **Hearings** `src/modules/hearings` | hearings, follow-ups, calendar events | create, update, outcome, delete | conflict check, then write; a message committed before the row it speaks of | the event follows the hearing; the lawyer knows; double bookings only where nobody could see them |
| **Reminders** `src/modules/notifications` | notifications | daily scans, dispatch | one failure ends a scan; no record of what was sent | no assignment reminded twice of one date |
| **AI research** `src/modules/research` | sessions, messages, usage cache | ask a question, delete a session | cached limit, then insert | the monthly limit; the question reaches the provider |
| **Desktop supervision** `sidecar.rs` | child processes, flags, status | start, retry, repair, reset, change exposure, restore, exit | threads, a status and flags changed in steps, processes that exit | a ready runtime is watched, served and in the chosen mode |
| **Desktop data** `desktop_backup.rs`, `sidecar.rs` | database, uploads, markers, archives, policy | migrate, reset, back up, prune, restore | steps that fail or are cut short; markers that let a start skip work | the served schema is the release's; a usable archive stays; rows have files |
| Authentication, seats, library, templates, tasks, clients, powers, roles, lookups, expenses, portal, import, reports, search, dashboard, Google Calendar, cloud sign-in, the rest of the frontend | rows of their own | single-row edits, queries, parsing | little | not modelled, see section 6 |

**How the parts interact.** The shell starts PostgreSQL and the backend as child processes. The
frontend calls the backend over HTTP, and sends a request again when the backend was being restarted.
Every request passes the session lookup, the write guard of the firm's lifecycle and a permission
check, then a handler that runs in one tenant transaction (`withTenant`, `src/db/tenant.ts`).
Handlers share state through rows only, and the connections of one pool. Timers (sweep, reminders)
and in-memory queues (extraction, preview) run in the backend process beside the requests. Files are
in a directory that the database knows by key; a backup copies both.

The hazards of all these parts, with the lines where they bite, are in `PROJECT.json`.

## 2. Modules

| Module | Models | Checked by | Proved in |
|---|---|---|---|
| `BillingRules` | the arithmetic of `billing.service.ts` | through the next two | `BillingProofs` |
| `CreditAccount` | abstract: one account per client, posted to, never overdrawn | as a property | |
| `Billing` | the invoice, payment and credit handlers, one action each | `MCBilling` | `BillingProofs` |
| `BillingTxn` | the same handlers as concurrent transactions, one action per statement | `MCBillingTxn` | `BillingProofs` |
| `FirmLifecycle` | setup, sweep, licence and edition requests, write guard, clock | `MCFirmLifecycle` | `FirmLifecycleProofs` |
| `DocumentPipeline` | uploads, storage, rows, queues, workers, restart | `MCDocumentPipeline` | `DocumentProofs` |
| `CaseFile` | one case: status, parties, stages, team, and requests over a connection pool | through the next | `CaseProofs` |
| `CaseIntake` | the intake page at work on a `CaseFile`, beside other users | `MCCaseIntake` | `CaseProofs` |
| `Hearings` | hearings, follow-ups, events, messages, the reminder scan | `MCHearings` | `HearingsProofs` |
| `Research` | sessions, messages, the usage cache and limit | `MCResearch` | `ResearchProofs` |
| `Sidecar` | the shell's threads over backend processes and PostgreSQL | `MCSidecar` | `SidecarProofs` |
| `DesktopData` | database, uploads, markers and archives through starts, backups and restores | `MCDesktopData` | `DesktopDataProofs` |

Operators marked *Seeded fault* are plausible bugs. They stand beside the definition they alter and
nothing uses them, except to show that a property fails when the code has that bug. Variables marked
*auxiliary* record what happened; no guard reads them.

Two pairs of modules are specifications of one another: `Billing` and `BillingTxn` implement
`CreditAccount`, and `CaseIntake` implements `CaseFile`.

### Billing

*State.* An invoice slot has the columns of its row that matter (`status`, `clientOf`,
`totalAmount`). The handlers look at payments and credit applications through sums only, so the
model keeps three sums: payments, applications written next to a payment, applications of credit.
`postings` is the sum of the ledger entries that name the invoice; `availableAmount` and `ledger` are
the client's balance and the sum of all its entries. Money is an integer in the smallest unit.

*Actions.* One per handler of `billing.service.ts` that changes state. A handler throws before its
first write or is rolled back, so an error is a guard. `DeleteInvoice` clears the slot, as the
cascades of `prisma/schema.prisma` do, and a later `CreateInvoice` uses it again.

*Transactions.* In `BillingTxn` the same variables are the committed rows. A transaction has a
program counter, its request, what it has read and what it has written. A read sees committed rows
and its own writes, which is READ COMMITTED. Three locks of PostgreSQL are modelled, as external
definitions: on the invoice row, on the balance row, and the foreign-key lock that keeps a row alive.
The last write and the commit are one step. `Rollback` may come at any statement and stands for later
checks, deadlocks, timeouts and crashes alike: all of them leave the committed rows alone.

*Left out.* Line items (only the total they give), fee types, due dates, audit entries and the
invoice number. An invoice keeps the client it was created with: no handler changes it.

### Firm lifecycle

*State.* The firm row with its three dates, the key of its licence (equal keys have equal hashes),
the sweep's snapshot, and for each request the step it is at. The model's unit of time is a day, the
unit of `TRIAL_DAYS` and `GRACE_DAYS`; `DATA_DELETION_DELAY_HOURS` is one day.
`trialStartedAt` is always the creation date and is not kept apart.

*Actions.* `SweepRead` and `SweepWrite` are the two database calls of `runFirmLifecycleSweep`; the
decision in between is the chain `AfterTrial`, `AfterGrace`, `AfterSuspension`, `Deletes`, each on the
result of the one before. Activation is a check (`AcceptKey`, `RejectKey`, `RepeatKey`) and a write
(`ApplyLicense`). The write guard is part of `SubmitKey` and `SubmitChange`, which come before the
handler reads the row.

*Left out.* The signature of a key and its firm (a key that fails them is rejected without effect).
There is one firm: an installation has one.

### Documents

*State.* One document: its row, its versions, the storage under each key, the file under its one
preview key, the uploads in flight, the length of the two queues, and the task each queue runs. Files
are told apart by the upload that wrote them. Storage keys hold the document's id, so documents share
only the queues, whose order does not matter to a document.

*Actions.* A step ends where the code awaits the database or the storage: `Put`, then `Commit` or
`CommitFails` and `Cleanup`, then `DropPreview`, then `Dispatch`. The workers are `Extract...` and
`Convert...`. `Crash` ends requests, queues and tasks, may truncate a file being written, and keeps
rows and files.

*Left out.* The R2 and BullMQ drivers (the desktop uses the local ones), edits of title, type and
links, and the distinction between causes of a failed extraction. A write of a file is one step when
it succeeds. A file name may itself begin with `v2-` and so collide with the key of a later
version, and a first file called `preview.pdf` has the key of the preview (`runDocxPreview.ts:85`);
names are opaque here and these collisions are not modelled.

### Cases and the intake page

*`CaseFile`.* The rows of one case. A request waits for a connection, checks (`Check`: every read
before the first write), writes (`Write`: takes the row lock), sends its message and reads its answer
over a second connection (`Notify`, `Answer`: both are transactions of their own), and commits; what
it wrote shows at the commit. An insert locks nothing another request needs. `Rollback` is a failing
statement or one of Prisma's limits (`maxWait`, `timeout`). The answer is read outside the
transaction, so it does not hold the change: a status request answers with the old status. The four
rules of a file are stated for requests whose check was not overtaken: `seen.stale` marks a check when
another request on the same subject commits, and `raced` collects the subjects of commits that
relied on such a check.

*`CaseIntake`.* Calls of `handleSubmit`, any number of them at once: client, list of clients, case,
then section after section, the rows of one in parallel, `SectionSettled` for `Promise.allSettled`;
the failed sections are the `retryContext` of the next submission. The button looks only at the client
and case mutations (`calls`, `Submitting`), so the user may submit again while the list of clients is
fetched or sections are saved. `overlaps` counts these submissions. They may create several cases: any
one of them is the file (`followed` is the submission that created it), and a submission that saves
another case is `"elsewhere"`, where only how it ends matters. `RowAnswerLost` and `CaseAnswerLost`
are a backend that restarts after it executed a request: `fetchWithDesktopRecovery` sends it again,
once. Another user sets the status, changes or removes parties, assigns, unassigns or deletes.
`Slot`, `NextRow` and `NextSubmission` choose among equal alternatives.

*What follows from the code and is not a property.* A section that failed in one row is saved again
in all its rows; an assignment or a status that was saved is then refused (409, 422), so that
section never succeeds. When the creation of the case fails, the next submission creates the client
again. A second click while sections are saved creates a second case with all its rows; of two
submissions the one that ends last overwrites `retryContext`, and the failed sections of the other
are forgotten. A second click during a retry posts the failed sections again.

*Left out.* Columns edited by `updateCase`; editing, removing and reordering court stages (a reorder
sent from a stale list can leave two stages in one place); the sections for hearings, tasks and
documents, which work like the four here; validation and permissions of the page; a form that is
edited between two submissions.

### Hearings and reminders

*State.* Three kinds of rows: hearings (with deleted ones, whose unique parent id still counts),
events, messages. Per request what it has read. The scan's window and what is still to be sent.

*Actions.* A handler begins, checks for conflicts when it has a lawyer, writes the row, finds and
updates or creates the follow-up, tells the lawyer and commits (`CommitSchedule`, `CommitOther`). The
message is committed before the row: messages about a hearing that was rolled back exist, and no
property excludes them. The scan takes one window after the other; `Remind` sends one reminder or
ends the scan when it fails.

*Abstractions.* A day has one slot, so "less than an hour apart" is "on the same day". The case is
there throughout. Outcome, notes and the case of a hearing are data. The rows that assign
lawyers to the case (`Assignments`) stay as they are; reminders are counted per row, because nothing
keeps two rows from naming the same user.

### AI research

*State.* Sessions with the month of their creation, messages, the usage entry of the current month
(the month is part of the cache key, so older entries are never read), and per request what it knows.

*Actions.* One per await of `checkUsageLimit` and `sendMessage`. `raced` says that a question was
stored, or a count put in the cache, while another question was between its check and the cache;
`spent` is every question stored this month, and what of it the count does not find is `Uncounted`.

*Left out.* Editions without research (the routes refuse), excerpts and sources; the difference
between the UTC month of the cache key and the local month of the count.

### Desktop shell

*`Sidecar`.* The main thread runs commands (start, the three ways to retry, exposure change,
restore, exit) one at a time; a bootstrap task goes from `drain` to `report`; the monitor looks at
the backend and restarts it. `flags`, `status`, `runtime` and `token` are the fields behind the
mutexes of `RuntimeState`, and every lock is a step. A change of the exposure mode writes the new
mode to its file, looks whether a bootstrap is running (`"check"`) and, if one is or the change
fails, writes the old mode back (`"takeback"`). Two commands save a mode without a restart
(`backend_connection.rs`; this frontend sends only a base URL, `api.ts`). `astray` says that the
file and the last bootstrap disagree for one of these two reasons. Backends are processes that come
up, or exit when the port is taken or by a fault. *Prompt* is the one assumption about time:
starting or stopping a process, waiting in vain, a backup and a restore take seconds, and by then
every thread whose next step only touches memory has taken it. Without it a thread would have to be
suspended for seconds between two assignments.

*`DesktopData`.* The same bootstrap as steps on the disk, with backups and restores: every write is
a step that may fail, and the shell may stop between any two. The three markers are removed one after
the other, and a removal that fails is passed over, as in `clear_reset_markers`. `torn` records where
the code gives no guarantee, and the properties except it: a replaced database whose version marker is
still there (`"schema"`, until the marker is gone or the database is migrated), a restored database
without its uploads (`"files"`), and a start that `ELMS_SKIP_MIGRATIONS` told to skip them
(`"skipped"`, until a start migrates). The commands ask no more of the runtime than the code does: a
retry, a repair, a reset, a restore or a new policy need not wait for `ready` or `failed`.

*Left out.* Paths, logs and progress; the schedule of automatic backups; the policy form.

## 3. Runs

### Passing

| Run | Bounds | Shows |
|---|---|---|
| `billing` | 2 invoices, 2 clients, amounts and totals 1 and 2, at most 3 paid per invoice | after every sequence of requests no client's credit is unbacked, nothing is settled beyond its total, a full payment settles, a deletion takes its own postings; `Billing` implements `CreditAccount` |
| `billing_txn` | 2 invoices of 1 client, 2 transactions, unit amounts, at most 2 paid per invoice, symmetric | ledger and credit account stay right under every interleaving and rollback; open transactions do not overdraw together |
| `firm_lifecycle` | trial 2 days, grace 1, deletion 1, 6 days, keys that expire on day 3 or 9, editions with and without a trial, 2 requests | never early, licence and edition agree, dates fixed; with fairness, a trial past its grace period is blocked or licensed in the end |
| `documents` | 3 uploads, 2 names, 1 fault, symmetric | files of versions survive crashes, failures and other uploads; without a fault and once quiet, text and preview are those of the current file |
| `documents_ends` | 2 uploads of types with and without preview, with fairness, no fault | extractions end |
| `case_intake` | 3 submissions of 2 court rows and a second client party, 2 requests over 2 connections, 1 event | the rules of a file hold but for overtaken checks; what the page reports is what was saved; with fairness, submissions end |
| `hearings` | 3 hearings, 2 lawyers, 2 transactions, 3 requests, 2 days, symmetric | events follow hearings, an assignee is told, double bookings are unseen ones, no assignment row reminded twice |
| `research` | 2 requests, 2 sessions, limit 1 or none, 3 messages, a window of 2, 2 months, symmetric | the limit is passed by overlapping requests, deleted sessions and sessions of earlier months only; the question is asked while the conversation fits |
| `sidecar` | 3 process ids, 2 exposure modes, 2 bootstrap tasks, 2 restarts, 2 commands, 1 fault, with fairness | a ready runtime is watched and serves; without a fault it serves in the mode of the settings, but for a mode read before it was taken back or saved with no restart |
| `desktop_data` | 2 releases, 2 archives, retention 1 or 2, 1 stop, any write failing | the backend never serves another schema than its own, unless it was told to skip the migrations or a version marker outlived its database; a usable archive stays |
| `desktop_files` | 1 document, 1 release, 2 archives, 1 stop, any write failing | rows of the database and of archives have their files |

*Why these bounds are enough to meet the hard cases.* Two invoices that share a client are needed
to spend on one what overpaying the other created, and two clients to see that nobody else's credit
moves. Amounts of one and two against totals of one and two give exact, partial and excess payments;
a total that is lowered afterwards makes a recorded sum exceed it. Two transactions are the smallest
race, and every lock of the code is between two; with unit amounts there is no partial payment
among them, which the serial run has. Two requests at the firm give an activation overlapping an
edition change, while the sweep is a third party; six days pass all dates twice over for a firm that
skips sweeps. Three uploads are the first version and two that race for the second.

Two requests that hold both connections of a pool of two stand for the ten that hold ten. The form
of `case_intake` has two rows of one section, which race with each other, and one of another;
statuses and assignments come from the other user. Three submissions are two that overlap and a
retry, or a retry that is retried. The one event is a submission that overlaps another, a lost
answer or a request of the other user; that they also hold together is what the proofs say. Three
hearing ids are a hearing, its follow-up and a third that conflicts; a limit of one question is
passed by the second one already, and a month that ends meets every step of a question. The single
fault of `sidecar` is a backend that exits, an operation that fails or a crash of the shell at any
point of two overlapping commands, so `ReadyIsServed` is a single-fault guarantee (see the
differences below). One stop of the shell at any step of `desktop_data` with two releases leaves any
marker of the older release on the newer schema, or the reverse; so does a removal that fails.

The bounds in guards are `MaxPaid`, `MaxCredit` (sums stay finite), `MaxDay`, `MaxMonth` and
`LastDay` (time), `MaxRequests`, `MaxEvents` and `MaxCommands` (what users do), `MaxMessages`
(messages ever stored), `MaxArchives` (archives written), and `MaxFaults` and `MaxStops`.

Deadlock is checked in the billing, lifecycle and research runs. The others switch it off: uploads,
events, requests, commands and archives are finite, and with everything answered there is nothing
left to do. Where waiting on each other is the question, it is a liveness property (`SubmissionEnds`).

### Violation: where code and documents disagree

`paid_means_covered`: the user guide says that PAID means the full amount has been received; the code
counts a payment and its own credit application, so half is enough.

The models show further differences, for which no run is kept. Each is one line in a cfg, or a
formula as short as the sentence:

*Billing.* Under `TxnSpec` an overlapping payment, credit or issue overwrites VOID ("Voiding cannot
be undone"), and a deletion leaves the credit of a payment that commits meanwhile. Two simultaneous
part payments that together settle an invoice both write PARTIALLY_PAID. `updateInvoice` changes the
total of any invoice that is not void; the guide says that issuing locks most fields. The serial run
shows that these hold when requests do not overlap.

*Firm lifecycle.* A sweep under way overwrites LICENSED. A suspended firm cannot enter its licence:
the write guard answers 423 to the activation itself. One sweep takes a firm from its trial to its
deletion, where a comment in `lifecycle.service.ts` promises 24 hours in `DATA_DELETION_PENDING`. The
architecture page says only `solo_offline` has a trial (four editions have), and calls GRACE
read-only (the guard lets it write).

*Documents.* Two simultaneous versions of one name share a file, so a previous version may hold the
other's content. With `MaxFaults = 1` in `documents_ends`, a restart forgets the queue, and what was
PENDING stays so. A late extraction marks a new version INDEXED with the old text until its own
extraction ends. A conversion that ends after a version of another type was uploaded marks that
version READY with the preview of the old one, and nothing repairs it.

*Cases.* Two requests together remove the last two client parties, pass the status table twice (an
archived case reopens), assign a user twice, or give two stages the same place: the intake page posts
its stages in parallel, so the last happens without a second user. The button of the intake page stays
enabled while the sections are saved, so one user and a working network are enough for two cases.

*Hearings.* After a follow-up is deleted its parent can never be saved with a next date (the unique
`parentSessionId` still refers to it; the guide says the follow-up is created or updated). A
follow-up is not checked for conflicts and sends no message; saving its parent overwrites its date
and outcome. A deleted hearing keeps its event and is still reminded. A lawyer who
was assigned to a case twice gets every reminder twice (`RemindedOnce` is about an assignment row).
One failing reminder ends all scans of the day. `scanOverdueTasks` ignores `deletedAt` and runs beside
the digest that replaces it.

*Research.* The count looks at the creation of the session, so questions in sessions of earlier
months are never counted ("AI research messages per firm per calendar month"), and deleting a session
gives its questions back: asking, deleting and asking again passes the limit without any race.
`LimitPassedByUncounted` says that nothing else does, but for requests that overlap. It is about
`spent`, every question stored in the month, which no deletion takes anything from. The history is
the oldest twenty messages, not "Last 20 messages only", so in a longer conversation the new question
is never sent. A failed answer leaves a question that counts.

*Desktop.* A refused restore leaves the phase at "recovering". An exposure change that is refused
because a bootstrap is running has already written its mode; the bootstrap may read it before it is
taken back, becomes ready and serves on the refused addresses. An exposure change that races a
recovery adopts a backend of the old mode; one that times out restores the saved mode while the
bootstrap of the new one goes on. With two faults an exited child can be adopted. A restore or reset
cut short before its marker is removed leaves a marker the next start trusts ("ELMS does **not**
trust cached local migration markers after restore"). So does a reset whose removal of the marker
fails, which is only logged: if PostgreSQL then does not start, a retry serves an empty database. A
backup writes back the policy it read at its start. Truncated archives stay and count toward the
retention. A reset after a failed bootstrap removes the data directory under a running PostgreSQL.

### Fairness

`TrialIsEnforced` in `firm_lifecycle` assumes that days pass (WF of `Tick`), that the application is
open at the time of the sweep again and again (WF of `SweepRead`), and that a sweep which has read
its snapshot is not cut short every time (SF of `SweepWrite`; strong, since `SweepAborted` disables
it). `lifecycle.scheduler.ts` schedules the sweep daily and logs errors without stopping the
schedule. Nothing is assumed of users.

`documents_ends` assumes that a request which has its file proceeds and that the two drain loops
proceed (WF of `Finish`, `Extract`, `Preview`): the loops run until their queue is empty and catch
what a task throws. Clients may stop sending in the middle of a file.

`SubmissionEnds` in `case_intake` says that again and again nothing runs. It assumes only that while
the page can run its code, or a request can go on, one of them does (WF of `PageStep` and `Progress`
together): submissions, events and statements are finite, so it does not matter which. Going on
includes Prisma's limits: without them two requests that hold the pool wait for ever, which is what
the property's seeded fault shows. Nobody has to submit, retry, lose an answer or send a request.

`ReadyIsServed` in `sidecar` assumes that every thread goes on and that a backend that starts comes
up or exits. No command has to be given and nothing has to fail.

## 4. Proofs

Every safety property of the passing runs is proved, for every value of the constants; what only the
runs show is liveness. The inductive invariants were checked by TLC before they were proved.

**`BillingProofs`**, for any clients, finitely many invoices, any positive amounts, any totals. Of
`Billing`: type correctness, `BalanceMatchesLedger`, `PostingsMatchInvoice`, `CreditIsBacked`, the
action properties `VoidIsFinal`, `NeverOverApplied`, `FullPaymentSettles` and
`DeleteCancelsPostings`, and that it implements `CreditAccount`. The invariant adds `AbsentIsEmpty`
to the checked ones: a free slot holds no money and no client. Without it `CreateInvoice` could start
an invoice with somebody's postings. `NeverOverApplied` and the balance rest on three lemmas about the
rules: the remaining balance is never negative, a payment is split in two parts that add up, and a
derived status is never VOID. `FullPaymentSettles` holds because the sum that `deriveStatus` is given
counts every payment at least once; the violation run shows that it counts some twice.
`CreditIsBacked` is about a sum over all the invoices of a client. The lemmas before it say of
`Total`, a fold that picks its elements one after the other, that it does not depend on the order and
what a change of one summand does to it; each takes a smallest finite set for which it fails. Then
every handler changes one summand of one client by what it posts.

Of `BillingTxn`, for any number of transactions: type correctness, `BalanceMatchesLedger`,
`PostingsMatchInvoice`, `OpenPostingIsCovered`, and that the interleaved handlers still implement
`CreditAccount`. The invariant relates the committed rows (`RowsInv`), what each open transaction has
read and written (`HandlersOK`: what its next statement relies on, and that its pending amounts
balance) and the locks: a transaction that has taken from a balance holds its row, which is why nobody
can take the same money. A statement touches only what its own transaction holds; a commit adds what
it wrote to the rows; the lemmas follow this order. `CreditIsBacked` is not among these results: it
fails when a deletion overlaps a payment (section 3).

**`FirmLifecycleProofs`**, for any periods, keys and number of requests: type correctness,
`NeverEarly`, `LicenceIsBacked`, `DatesAreFixed`. The status is overwritten from a stale snapshot, so
the argument needs what about a snapshot cannot be stale: `SnapshotIsUsable` says that its three
dates, given or derived, are those of the row and that its day has come. `RequestsAreComplete`
says that a request at a step has what the step uses.

**`DocumentProofs`**, for any uploads, names, types and number of faults: type correctness,
`VersionsAreStored`, `SettledTextIsCurrent` and `SettledPreviewIsCurrent`. `NumbersInv` says that the
versions are numbered from one without a gap, so that the numbers uploads take never run out;
`StoredInv` that a file is there from the end of its write, since whatever else is written or removed
under its key comes from another upload with that key; `TextInv` and `PreviewInv` that there is always
a reason why the text, or the preview, will be current: an upload whose dispatch is to come, a task in
the queue, a task at work on the current key, or a row that is right already.

**`HearingsProofs`**, for any hearings, lawyers, requests, days and windows: type correctness,
`EventFollowsHearing`, `AssigneeIsTold`, `DoubleBookingIsUnseen` and `RemindedOnce`. `TypeInv` adds
to the types what a request at a step has in its hands; `CheckedInv` says that a conflict that arose
after a request's check is in `missed`, which is what the commit adds to `unseen`; `ReminderInv`
says that what a scan still has to send belongs to windows it has not finished on this day.
`AssigneeIsTold` needs two more: `HeldInv`, that two requests never hold the same row, so what a
request has read of a row it locked is still there; and `ToldInv`, that the lawyer a request has
read, and after its message the one it is about to write, has a message about the hearing or one it
follows on. `Chain`, the hearings a hearing follows on, is the least set closed under parents; since
parents never change, it only grows.

**`CaseProofs`**. Of `CaseFile`, for any number of requests, any users and any pool: type
correctness and `RulesHoldButForRaces`. `FileInv` has what a checked request has read; `FreshInv`
says that a check that is not stale still holds, because every commit that could break it is one of
the same subject and marks it. Of `CaseIntake`, for any form and any number of submissions,
overlapping or not, and of lost answers: every step of the page, the other users and the server is a
step of `CaseFile` or leaves it alone (`IntakeImplementsFile`), so the rules hold under the page
too; type correctness; and `SavedAsReported`. Their invariant, `PageInv`, follows the rows of every
submission through the page: a row has at most one request out, and only while its section is being
saved (`PostedOnce`); it is saved once more than answers about it were lost when the page counts it
as saved, and otherwise not (`SavedOnce`); what a retry saves was reported (`RetriesReported`); a
section that a submission has passed, or that a `retryContext` leaves out, is saved in the case it
is about (`SavedAtAll`, which needs `Origins`, whose case that is); and without an overlap a case is
created beside another only after a lost answer (`CasesInv`).

**`ResearchProofs`**, for any limit, requests, sessions, months and window: type correctness,
`LimitPassedByUncounted` and `QuestionIsAsked`. Besides the types, `CountInv` says that a count or a
decision nobody overtook still holds, and that the cache lags behind the messages by the questions
that are on their way to it; `AskedInv` that a request that waits for the provider has its question
among the messages; `SpentInv` that a question of this month has its row as long as its session is
there, so what was asked is what the count finds and `Uncounted`.

**`SidecarProofs`**, for any number of backend processes, bootstrap tasks, restarts, commands and
faults: type correctness, `ReadyIsWatched` and `ExposureInForce`. `MainInv` and `TaskInv` order the
threads: while the main thread restores or starts, no bootstrap is marked as running; at most one
task is at work, and a task that still has its result to report is through before the next launches.
`WatchInv` then says that a monitor leaves only for a shutdown or before a bootstrap that has
launched nothing, so a runtime that stays ready has one. `ExposureInForce` claims nothing after a
fault or while the settings are `astray`, and its invariant, `CalmInv`, is about the time before a
fault: the registered backend listens and is the one launched last (`ServedInv`), every launch has
its own token, so a process is never mistaken for another (`TokenInv`), and whatever reports ready
was launched with the mode that counts, unless the main thread or a new bootstrap is about to
replace it (`ModeInv`). That mode, `SettledMode`, is the one in the file, or the one before it while
the new mode may yet be refused or is to be taken back.

**`DesktopDataProofs`**, for any documents, releases, archives and stops: type correctness,
`ServesCurrentSchema`, `RowsHaveFiles`, `ArchivesAreComplete` and the action property
`WholeArchiveStays`. The argument has four parts. `Exclusion`: nothing is served while the database
is prepared or replaced, and a restore runs beside no backup but its own. `MarkerInv`: a version
marker of the installed release speaks of the database there is, or `torn` has `"schema"`; while a
reset removes the markers there is no database; and past the migrations the database is current, or
`torn` says why not. `UploadInv` and `BackupInv`: a document has its file before its row, so rows
dumped first are covered by files copied later, through every step of a backup. `RestoreInv`: the
archive being restored is whole, and from the replaced database to the end of the uploads the window
`"files"` is open.

*Assumptions.* Those the modules declare, all of them about constants: amounts positive, finitely many
invoices, `NoClient` not a client, periods natural numbers, finitely many uploads, `Null` and `None`
not among the values they stand beside (a row, a key, a database, a set of sections), the sections of
the form disjoint, the senders of the page not those of the other users. TLC evaluates them in every
run.

*Only model-checked.* Liveness (`TrialIsEnforced`, `ExtractionEnds`, `SubmissionEnds`,
`ReadyIsServed`): it is out of the prover's reach, and rests on the fairness above and on the bounds
of the runs.

## 5. Where it could go on

1. Proofs of safety facts the liveness properties rest on: in `CaseFile`, that a request which waits
   for a connection or a row waits for one that can still end; in `DocumentPipeline`, that the queue
   and the task at work account for every PENDING document when nothing fails.
2. Court stages edited, removed and reordered in `CaseFile`; the sections for hearings and documents
   in `CaseIntake`, composed with `Hearings` and `DocumentPipeline`.
3. The schedule of automatic backups, and its lock against restores, in `DesktopData`.

## 6. Not modelled

*Single-row edits and queries*: clients, tasks, powers, lookups, templates, roles, expenses, the
library's categories and articles, dashboard, reports, search, import, the portal. A model would
restate the statement. Some differences were met on the way: a library category can be moved under its
own descendant and vanishes from the tree, and a change of its type leaves its documents mismatched;
an import preview can be executed twice.

*Authentication and seats.* A session is a map entry whose user is read again for every request. The
seat limit is one seat or none; it is counted and then used without a lock, and not looked at when
a user is made active again. Two setup requests that both find no firm create two.

*Invoice numbers.* The latest number in string order and its successor, protected by a unique index:
two at once make one fail, and after 9999 the string order gives a number that was used.

*External services* (the AI provider, Google Calendar, cloud sign-in, mail, SMS) are modelled where a
handler waits for them, by success and failure only.

*The frontend*, two thirds of the lines of this repository, is presentation but for the intake page
and the request layer below it. The share of lines these models cover stays small for that reason.
