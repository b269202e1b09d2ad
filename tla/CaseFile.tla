------------------------------ MODULE CaseFile ------------------------------
(***************************************************************************)
(* The file of one case: its status and status history, its parties, its   *)
(* court stages and its team, and the requests of cases.service.ts that    *)
(* change them.                                                            *)
(*                                                                         *)
(* A handler is a READ COMMITTED transaction, one action per statement     *)
(* other requests can come between; what it wrote shows when it commits,   *)
(* and a row it updates stays locked until then.  It takes one connection  *)
(* of Prisma's pool and, while it holds that one, a second for a moment:   *)
(* dispatchNotification and getCaseRecord are transactions of their own.   *)
(* Prisma gives up what waits too long for a connection or a lock.         *)
(*                                                                         *)
(* Left out: the columns updateCase writes; a stageOrder in the payload,   *)
(* and reordering, editing and removing court stages; the read-only        *)
(* transaction that looks for conflicts of interest.                       *)
(***************************************************************************)
EXTENDS Integers, Sequences, FiniteSets

CONSTANTS
    Txs,        \* requests that run at the same time
    Users,      \* members of the firm
    Senders,    \* who waits for the answer of a request
    Pool,       \* connections of Prisma's pool
    None

Statuses == {"ACTIVE", "SUSPENDED", "CLOSED", "WON", "LOST", "SETTLED", "ARCHIVED"}
PartyTypes == {"CLIENT", "OPPONENT", "EXTERNAL"}

CaseRow == [status : Statuses, deleted : BOOLEAN]

ASSUME CaseFileAssumption ==
    /\ Pool \in Nat
    /\ None \notin Users \cup Senders \cup PartyTypes \cup CaseRow

\* ALLOWED_STATUS_TRANSITIONS
Allowed == [s \in Statuses |->
    CASE s = "ACTIVE"    -> Statuses \ {"ACTIVE", "ARCHIVED"}
      [] s = "SUSPENDED" -> {"ACTIVE", "CLOSED"}
      [] s = "ARCHIVED"  -> {}
      [] OTHER           -> {"ARCHIVED"}]

VARIABLES
    file,     \* status and deletedAt of the case, None before it is created
    history,  \* CaseStatusHistory, in the order the entries are written
    parties,  \* types of the CaseParty rows, "removed" for one that is deleted
    courts,   \* stageOrder of the CaseCourt rows
    team,     \* CaseAssignment rows
    told,     \* users a CASE_ASSIGNED message was dispatched to
    pc,       \* the statement a request is about to execute, then its outcome
    req,      \* its payload
    seen,     \* what it read
    raced     \* auxiliary: subjects of commits whose check was out of date

rows     == <<file, history, parties, courts, team>>
fileVars == <<rows, told, pc, req, seen, raced>>

Request == [kind : {"status"}, target : {None}, arg : Statuses, from : Senders]
      \cup [kind : {"addParty"}, target : {None}, arg : PartyTypes, from : Senders]
      \cup [kind : {"updateParty"}, target : Nat, arg : PartyTypes, from : Senders]
      \cup [kind : {"assign"}, target : {None}, arg : Users, from : Senders]
      \cup [kind : {"removeParty", "unassign"}, target : Nat, arg : {None}, from : Senders]
      \cup [kind : {"addCourt", "delete"}, target : {None}, arg : {None}, from : Senders]

Open    == {"check", "write", "notify", "answer", "commit"}  \* holds a connection
Checked == {"write", "notify", "answer", "commit"}
Locking == {"notify", "answer", "commit"}                    \* has executed its write
Steps   == {"idle", "wait", "saved", "refused"} \cup Open

NoRequest   == [kind |-> "none", target |-> None, arg |-> None, from |-> None]
NothingSeen == [status |-> None, stage |-> None, stale |-> FALSE]

-----------------------------------------------------------------------------
(***************************************************************************)
(* What the statements look at.                                            *)
(***************************************************************************)

PoolIsEmpty == Cardinality({t \in Txs : pc[t] \in Open}) >= Pool

\* The row a request updates: an insert locks no row of another.
RowOf(r) == CASE r.kind \in {"status", "delete"} -> <<"case", None>>
              [] r.kind \in {"updateParty", "removeParty"} -> <<"party", r.target>>
              [] r.kind = "unassign" -> <<"assignment", r.target>>
              [] OTHER -> None

Locked(t) ==
    /\ RowOf(req[t]) # None
    /\ \E u \in Txs \ {t} : pc[u] \in Locking /\ RowOf(req[u]) = RowOf(req[t])

IsParty(p)  == p \in DOMAIN parties /\ parties[p] # "removed"
OtherClient(p) == \E q \in DOMAIN parties \ {p} : parties[q] = "CLIENT"
OnTeam(u)   == \E a \in DOMAIN team : team[a].user = u /\ team[a].active

LastStage == IF courts = <<>> THEN -1
             ELSE CHOOSE m \in {courts[i] : i \in DOMAIN courts} :
                      \A i \in DOMAIN courts : courts[i] <= m

\* Seeded fault: the maximum itself.
SameStage == LastStage

NextStage == LastStage + 1

\* Seeded fault: a change of type is not checked, only a removal.
KeepsAClientOnRemoval(r) ==
    r.kind = "removeParty" /\ parties[r.target] = "CLIENT" => OtherClient(r.target)

\* A client party may stop being one, or go, when another stays.
KeepsAClient(r) ==
    parties[r.target] = "CLIENT" /\ r.arg # "CLIENT" => OtherClient(r.target)

\* The reads before the first write and the errors they end in.
Passes(r) ==
    /\ r.kind # "assign" => ~file.deleted
    /\ r.kind = "status" => r.arg \in Allowed[file.status]
    /\ r.kind \in {"updateParty", "removeParty"} => IsParty(r.target) /\ KeepsAClient(r)
    /\ r.kind = "assign" => ~OnTeam(r.arg)
    /\ r.kind = "unassign" => r.target \in DOMAIN team

\* What two requests that do not see each other can break.
Subject(r) == IF r.kind \in {"updateParty", "removeParty"} THEN "client" ELSE r.kind

-----------------------------------------------------------------------------
(***************************************************************************)
(* Requests.                                                               *)
(***************************************************************************)

GoTo(t, step) == pc' = [pc EXCEPT ![t] = step]

CreateCase ==
    /\ file = None
    /\ file' = [status |-> "ACTIVE", deleted |-> FALSE]
    /\ history' = <<[from |-> None, to |-> "ACTIVE"]>>
    /\ parties' = <<"CLIENT">>
    /\ UNCHANGED <<courts, team, told, pc, req, seen, raced>>

Begin(t, r) ==
    /\ file # None
    /\ pc[t] = "idle"
    /\ GoTo(t, "wait")
    /\ req' = [req EXCEPT ![t] = r]
    /\ UNCHANGED <<rows, told, seen, raced>>

Acquire(t) ==
    /\ pc[t] = "wait"
    /\ ~PoolIsEmpty
    /\ GoTo(t, "check")
    /\ UNCHANGED <<rows, told, req, seen, raced>>

Refuse(t) ==
    /\ GoTo(t, "refused")
    /\ seen' = [seen EXCEPT ![t] = NothingSeen]
    /\ UNCHANGED <<rows, told, req, raced>>

Check(t) ==
    /\ pc[t] = "check"
    /\ Passes(req[t])
    /\ GoTo(t, "write")
    /\ seen' = [seen EXCEPT ![t].status = file.status, ![t].stage = NextStage]
    /\ UNCHANGED <<rows, told, req, raced>>

CheckFails(t) ==
    /\ pc[t] = "check"
    /\ ~Passes(req[t])
    /\ Refuse(t)

\* A party another request has removed meanwhile is not found any more.
IsGone(r) == r.kind \in {"updateParty", "removeParty"} /\ ~IsParty(r.target)

StepAfterWrite(r) == CASE r.kind = "assign" -> "notify"
                       [] r.kind \in {"addCourt", "delete"} -> "commit"
                       [] OTHER -> "answer"

Write(t) ==
    /\ pc[t] = "write"
    /\ ~Locked(t)
    /\ ~IsGone(req[t])
    /\ GoTo(t, StepAfterWrite(req[t]))
    /\ UNCHANGED <<rows, told, req, seen, raced>>

WriteFails(t) ==
    /\ pc[t] = "write"
    /\ ~Locked(t)
    /\ IsGone(req[t])
    /\ Refuse(t)

\* addCaseAssignment looks for the case only now; the message is committed at once.
Notify(t) ==
    /\ pc[t] = "notify"
    /\ ~file.deleted
    /\ ~PoolIsEmpty
    /\ told' = told \cup {req[t].arg}
    /\ GoTo(t, "answer")
    /\ UNCHANGED <<rows, req, seen, raced>>

\* getCaseRecord: the case as other connections see it, so without the change.
Answer(t) ==
    /\ pc[t] = "answer"
    /\ ~file.deleted
    /\ ~PoolIsEmpty
    /\ GoTo(t, "commit")
    /\ UNCHANGED <<rows, told, req, seen, raced>>

CaseIsGone(t) ==
    /\ pc[t] \in {"notify", "answer"}
    /\ file.deleted
    /\ pc[t] = "answer" => ~PoolIsEmpty
    /\ Refuse(t)

\* The rows once a request has committed.
Saved(t) == LET r == req[t] IN
    /\ file' = CASE r.kind = "status" -> [file EXCEPT !.status = r.arg]
                 [] r.kind = "delete" -> [file EXCEPT !.deleted = TRUE]
                 [] OTHER -> file
    /\ history' = IF r.kind = "status"
                  THEN Append(history, [from |-> seen[t].status, to |-> r.arg])
                  ELSE history
    /\ parties' = CASE r.kind = "addParty" -> Append(parties, r.arg)
                    [] r.kind = "updateParty" -> [parties EXCEPT ![r.target] = r.arg]
                    [] r.kind = "removeParty" -> [parties EXCEPT ![r.target] = "removed"]
                    [] OTHER -> parties
    /\ courts' = IF r.kind = "addCourt" THEN Append(courts, seen[t].stage) ELSE courts
    /\ team' = CASE r.kind = "assign" -> Append(team, [user |-> r.arg, active |-> TRUE])
                 [] r.kind = "unassign" -> [team EXCEPT ![r.target].active = FALSE]
                 [] OTHER -> team

\* Requests whose check is out of date once this one commits.
Overtaken(t) ==
    {u \in Txs \ {t} : pc[u] \in Checked /\ Subject(req[u]) = Subject(req[t])}

Commit(t) ==
    /\ pc[t] = "commit"
    /\ Saved(t)
    /\ GoTo(t, "saved")
    /\ seen' = [u \in Txs |->
           CASE u = t -> NothingSeen
             [] u \in Overtaken(t) -> [seen[u] EXCEPT !.stale = TRUE]
             [] OTHER -> seen[u]]
    /\ raced' = IF seen[t].stale THEN raced \cup {Subject(req[t])} ELSE raced
    /\ UNCHANGED <<told, req>>

\* Seeded fault: the wait for the second connection has no limit.
MayEndUnnested(step) == step \in {"wait", "check", "write", "commit"}

MayEnd(step) == step \in {"wait"} \cup Open

\* A statement fails, or waits longer for a connection or a lock than maxWait and
\* timeout of the transaction allow.
Rollback(t) ==
    /\ MayEnd(pc[t])
    /\ Refuse(t)

\* The sender has the answer.
Take(t) ==
    /\ pc[t] \in {"saved", "refused"}
    /\ GoTo(t, "idle")
    /\ req' = [req EXCEPT ![t] = NoRequest]
    /\ seen' = [seen EXCEPT ![t] = NothingSeen]
    /\ UNCHANGED <<rows, told, raced>>

-----------------------------------------------------------------------------

FileInit ==
    /\ file = None /\ history = <<>> /\ parties = <<>> /\ courts = <<>> /\ team = <<>>
    /\ told = {} /\ raced = {}
    /\ pc = [t \in Txs |-> "idle"]
    /\ req = [t \in Txs |-> NoRequest]
    /\ seen = [t \in Txs |-> NothingSeen]

\* The steps of a request that other statements do not take part in.
Statement(t) ==
    \/ Acquire(t) \/ Check(t) \/ CheckFails(t) \/ Write(t) \/ WriteFails(t)
    \/ Notify(t) \/ Answer(t) \/ CaseIsGone(t) \/ Rollback(t)

FileNext ==
    \/ CreateCase
    \/ \E t \in Txs :
        \/ \E r \in Request : Begin(t, r)
        \/ Statement(t) \/ Commit(t) \/ Take(t)

FileSpec == FileInit /\ [][FileNext]_fileVars

-----------------------------------------------------------------------------
(***************************************************************************)
(* Properties.                                                             *)
(***************************************************************************)

Transition == [from : Statuses \cup {None}, to : Statuses]
Assignment == [user : Users, active : BOOLEAN]
Seen       == [status : Statuses \cup {None}, stage : Nat \cup {None},
               stale : BOOLEAN]

\* Every variable has its type, and a request that runs has a payload.
FileTypeOK ==
    /\ file \in CaseRow \cup {None}
    /\ history \in Seq(Transition)
    /\ parties \in Seq(PartyTypes \cup {"removed"})
    /\ courts \in Seq(Nat)
    /\ team \in Seq(Assignment)
    /\ told \subseteq Users
    /\ pc \in [Txs -> Steps]
    /\ req \in [Txs -> Request \cup {NoRequest}]
    /\ seen \in [Txs -> Seen]
    /\ \A t \in Txs : pc[t] # "idle" => file # None /\ req[t] \in Request

\* The history is a path of the transition table from ACTIVE to the status.
StatusFollowsTable ==
    /\ history # <<>> /\ history[Len(history)].to = file.status
    /\ \A i \in 2 .. Len(history) :
        "status" \notin raced => /\ history[i].from = history[i - 1].to
                                 /\ history[i].to \in Allowed[history[i].from]

\* "A case must have at least one client party" (cases.service.ts:911).
ClientStays == "client" \notin raced => \E p \in DOMAIN parties : parties[p] = "CLIENT"

\* No two court stages have the same place in the order.
StagesAreOrdered ==
    "addCourt" \notin raced =>
        \A i, j \in DOMAIN courts : i # j => courts[i] # courts[j]

\* "User is already assigned to this case" (cases.service.ts:998).
AssignedOnce ==
    "assign" \notin raced =>
        \A a, b \in DOMAIN team :
            a # b /\ team[a].active /\ team[b].active => team[a].user # team[b].user

\* The four rules of a file hold, but for requests whose check was overtaken: whatever
\* the order of requests, one at a time they keep them, and the status is always that
\* of the last history entry (the checks of changeCaseStatus, updateCaseParty,
\* removeCaseParty, addCaseCourt and addCaseAssignment).
RulesHoldButForRaces ==
    file # None =>
        StatusFollowsTable /\ ClientStays /\ StagesAreOrdered /\ AssignedOnce

=============================================================================
