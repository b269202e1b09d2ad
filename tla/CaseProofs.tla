---------------------------- MODULE CaseProofs -----------------------------
(***************************************************************************)
(* What holds of a case file for any number of requests at a time, any     *)
(* users and any size of the pool, and of the intake page and the other    *)
(* user that work on it, for any form and any number of events.            *)
(***************************************************************************)
EXTENDS CaseIntake, TLAPS

\* Some stage is the last one, so that there is a next one.
HasLastStage ==
    courts # <<>> => \E i \in DOMAIN courts : \A j \in DOMAIN courts : courts[j] <= courts[i]

\* What a request that was checked has read, and which of them send a message.
SeenOK(t) ==
    /\ pc[t] \in Checked => seen[t].status \in Statuses /\ seen[t].stage \in Nat
    /\ pc[t] = "notify" => req[t].kind = "assign"

FileInv == FileTypeOK /\ HasLastStage /\ \A t \in Txs : SeenOK(t)

-----------------------------------------------------------------------------
(***************************************************************************)
(* Typing.                                                                 *)
(***************************************************************************)

LEMMA FileInitTyped == FileInit => FileInv
BY CaseFileAssumption DEF FileInit, FileInv, FileTypeOK, HasLastStage, SeenOK, NoRequest,
   NothingSeen, Seen, Steps, Checked

\* The next stage is a number above all stages.
LEMMA NextStageIsNew ==
    ASSUME FileInv
    PROVE  NextStage \in Nat /\ \A i \in DOMAIN courts : courts[i] < NextStage
<1>1. courts \in Seq(Nat)
  BY DEF FileInv, FileTypeOK
<1>2. CASE courts = <<>>
  BY <1>2 DEF NextStage, LastStage
<1>3. CASE courts # <<>>
  <2> DEFINE S == {courts[i] : i \in DOMAIN courts}
             IsLast(m) == m \in S /\ \A i \in DOMAIN courts : courts[i] <= m
  <2>1. \E m : IsLast(m)
    BY <1>3 DEF FileInv, HasLastStage
  <2>2. LastStage = CHOOSE m : IsLast(m)
    BY <1>3 DEF LastStage
  <2>3. IsLast(LastStage)
    <3> HIDE DEF IsLast
    <3> QED BY <2>1, <2>2
  <2>4. LastStage \in Nat
    BY <1>1, <2>3
  <2> QED BY <1>1, <2>3, <2>4 DEF NextStage
<1> QED BY <1>2, <1>3

\* A step of one request that writes no row.
LEMMA MoveTyped ==
    ASSUME FileInv, NEW t \in Txs, pc[t] # "idle",
           NEW step \in Steps \ {"idle"}, GoTo(t, step),
           NEW s \in Seen, seen' = [seen EXCEPT ![t] = s],
           step \in Checked => s.status \in Statuses /\ s.stage \in Nat,
           step = "notify" => req[t].kind = "assign",
           told' \subseteq Users,
           UNCHANGED <<rows, req, raced>>
    PROVE  FileInv'
<1>1. FileTypeOK'
  BY DEF FileInv, FileTypeOK, GoTo, rows
<1>2. HasLastStage'
  BY DEF FileInv, HasLastStage, rows
<1>3. ASSUME NEW u \in Txs PROVE SeenOK(u)'
  <2>1. CASE u = t
    BY <2>1 DEF FileInv, FileTypeOK, SeenOK, GoTo
  <2>2. CASE u # t
    BY <2>2 DEF FileInv, FileTypeOK, SeenOK, GoTo
  <2> QED BY <2>1, <2>2
<1> QED BY <1>1, <1>2, <1>3 DEF FileInv

\* The statements of a request move on or refuse it.
StatementEffect(t) == \E step \in Steps \ {"idle"}, s \in Seen :
    /\ GoTo(t, step)
    /\ seen' = [seen EXCEPT ![t] = s]
    /\ step \in Checked => s.status \in Statuses /\ s.stage \in Nat
    /\ step = "notify" => req[t].kind = "assign"
    /\ told' \subseteq Users
    /\ UNCHANGED <<rows, req, raced>>

LEMMA RefuseEffect ==
    ASSUME FileInv, NEW t \in Txs, Refuse(t)
    PROVE  StatementEffect(t)
<1>1. "refused" \in Steps \ {"idle"} /\ "refused" \notin Checked /\ NothingSeen \in Seen
  BY DEF Steps, Checked, NothingSeen, Seen
<1>2. told' \subseteq Users
  BY DEF Refuse, FileInv, FileTypeOK
<1> QED BY <1>1, <1>2 DEF Refuse, StatementEffect

LEMMA StatementTyped ==
    ASSUME FileInv, NEW t \in Txs, Statement(t)
    PROVE  FileInv' /\ UNCHANGED <<rows, req, raced>> /\ StatementEffect(t) /\ pc[t] # "idle"
<1>0. /\ pc \in [Txs -> Steps] /\ seen \in [Txs -> Seen] /\ told \subseteq Users
      /\ pc[t] # "idle" => req[t] \in Request /\ file \in CaseRow
  BY DEF FileInv, FileTypeOK, Seen
<1>1. pc[t] # "idle"
  BY DEF Statement, Acquire, Check, CheckFails, Write, WriteFails, Notify, Answer, CaseIsGone,
     Rollback, MayEnd, Open
<1>2. StatementEffect(t)
  <2>1. CASE Acquire(t)
    <3>1. "check" \in Steps \ {"idle"} /\ "check" \notin Checked /\ seen[t] \in Seen
      BY <1>0 DEF Steps, Open, Checked
    <3>2. seen' = [seen EXCEPT ![t] = seen[t]]
      BY <1>0, <2>1 DEF Acquire
    <3> QED BY <1>0, <2>1, <3>1, <3>2 DEF Acquire, StatementEffect
  <2>2. CASE Check(t)
    <3> DEFINE s == [seen[t] EXCEPT !.status = file.status, !.stage = NextStage]
    <3>1. s \in Seen /\ s.status \in Statuses /\ s.stage \in Nat
      BY <1>0, <1>1, NextStageIsNew DEF Seen, CaseRow
    <3>2. seen' = [seen EXCEPT ![t] = s]
      BY <1>0, <2>2 DEF Check
    <3>3. "write" \in Steps \ {"idle"}
      BY DEF Steps, Open
    <3> HIDE DEF s
    <3> QED BY <1>0, <2>2, <3>1, <3>2, <3>3 DEF Check, StatementEffect
  <2>3. CASE Write(t)
    <3>1. /\ StepAfterWrite(req[t]) \in {"notify", "commit", "answer"}
          /\ StepAfterWrite(req[t]) = "notify" => req[t].kind = "assign"
      BY DEF StepAfterWrite
    <3>2. seen[t] \in Seen /\ seen[t].status \in Statuses /\ seen[t].stage \in Nat
      BY <1>0, <2>3 DEF Write, FileInv, SeenOK, Checked
    <3>3. seen' = [seen EXCEPT ![t] = seen[t]]
      BY <1>0, <2>3 DEF Write
    <3>4. StepAfterWrite(req[t]) \in Steps \ {"idle"}
      BY <3>1 DEF Steps, Open
    <3> QED BY <1>0, <2>3, <3>1, <3>2, <3>3, <3>4 DEF Write, StatementEffect
  <2>4. CASE Notify(t)
    <3>1. seen[t] \in Seen /\ seen[t].status \in Statuses /\ seen[t].stage \in Nat
      BY <1>0, <2>4 DEF Notify, FileInv, SeenOK, Checked
    <3>2. seen' = [seen EXCEPT ![t] = seen[t]] /\ "answer" \in Steps \ {"idle"}
      BY <1>0, <2>4 DEF Notify, Steps, Open
    <3>3. req[t].kind = "assign"
      BY <2>4 DEF Notify, FileInv, SeenOK
    <3>4. req[t].arg \in Users
      BY <1>0, <1>1, <3>3 DEF Request
    <3> QED BY <1>0, <2>4, <3>1, <3>2, <3>4 DEF Notify, StatementEffect
  <2>5. CASE Answer(t)
    <3>1. seen[t] \in Seen /\ seen[t].status \in Statuses /\ seen[t].stage \in Nat
      BY <1>0, <2>5 DEF Answer, FileInv, SeenOK, Checked
    <3>2. seen' = [seen EXCEPT ![t] = seen[t]] /\ "commit" \in Steps \ {"idle"}
      BY <1>0, <2>5 DEF Answer, Steps, Open
    <3> QED BY <1>0, <2>5, <3>1, <3>2 DEF Answer, StatementEffect
  <2>6. CASE CheckFails(t) \/ WriteFails(t) \/ CaseIsGone(t) \/ Rollback(t)
    BY <2>6, RefuseEffect DEF CheckFails, WriteFails, CaseIsGone, Rollback
  <2> QED BY <2>1, <2>2, <2>3, <2>4, <2>5, <2>6 DEF Statement
<1>3. PICK step \in Steps \ {"idle"}, s \in Seen :
        /\ GoTo(t, step)
        /\ seen' = [seen EXCEPT ![t] = s]
        /\ step \in Checked => s.status \in Statuses /\ s.stage \in Nat
        /\ step = "notify" => req[t].kind = "assign"
        /\ told' \subseteq Users
        /\ UNCHANGED <<rows, req, raced>>
  BY <1>2 DEF StatementEffect
<1>4. FileInv'
  BY <1>1, <1>3, MoveTyped
<1> QED BY <1>1, <1>2, <1>3, <1>4

\* A row of a list of rows is replaced, or is not there.
LEMMA RowReplaced ==
    ASSUME NEW S, NEW s \in Seq(S), NEW k, NEW x \in S
    PROVE  /\ [s EXCEPT ![k] = x] \in Seq(S)
           /\ DOMAIN [s EXCEPT ![k] = x] = DOMAIN s
<1> DEFINE r == [s EXCEPT ![k] = x]
<1>1. DOMAIN s = 1 .. Len(s) /\ Len(s) \in Nat /\ \A i \in 1 .. Len(s) : s[i] \in S
  OBVIOUS
<1>2. DOMAIN r = 1 .. Len(s) /\ \A i \in 1 .. Len(s) : r[i] \in S
  BY <1>1
<1>3. r \in [1 .. Len(s) -> S]
  BY <1>2
<1> QED BY <1>1, <1>2, <1>3

\* A row is added to a list of rows.
LEMMA RowAdded ==
    ASSUME NEW S, NEW s \in Seq(S), NEW x \in S
    PROVE  /\ Append(s, x) \in Seq(S)
           /\ DOMAIN Append(s, x) = DOMAIN s \cup {Len(s) + 1}
           /\ Len(s) + 1 \notin DOMAIN s
           /\ \A i \in DOMAIN s : Append(s, x)[i] = s[i]
           /\ Append(s, x)[Len(s) + 1] = x
           /\ Len(Append(s, x)) = Len(s) + 1
OBVIOUS

\* What a commit writes has the type of its rows.
LEMMA SavedTyped ==
    ASSUME FileInv, NEW t \in Txs, pc[t] = "commit", Saved(t)
    PROVE  /\ file' \in CaseRow
           /\ history' \in Seq(Transition)
           /\ parties' \in Seq(PartyTypes \cup {"removed"})
           /\ courts' \in Seq(Nat)
           /\ team' \in Seq(Assignment)
<1>1. /\ req[t] \in Request /\ file \in CaseRow
      /\ seen[t].status \in Statuses /\ seen[t].stage \in Nat
  BY DEF FileInv, FileTypeOK, SeenOK, Checked
<1>2. file' \in CaseRow
  BY <1>1 DEF Saved, Request, CaseRow
<1>3. history' \in Seq(Transition)
  <2>1. req[t].kind = "status" => [from |-> seen[t].status, to |-> req[t].arg] \in Transition
    BY <1>1 DEF Request, Transition
  <2> QED BY <2>1 DEF Saved, FileInv, FileTypeOK
<1>4. parties' \in Seq(PartyTypes \cup {"removed"})
  <2>1. req[t].kind \in {"addParty", "updateParty"} => req[t].arg \in PartyTypes
    BY <1>1 DEF Request
  <2>2. parties \in Seq(PartyTypes \cup {"removed"})
    BY DEF FileInv, FileTypeOK
  <2>3. CASE req[t].kind = "addParty"
    BY <2>1, <2>2, <2>3 DEF Saved
  <2>4. CASE req[t].kind = "updateParty"
    BY <2>1, <2>2, <2>4, RowReplaced DEF Saved
  <2>5. CASE req[t].kind = "removeParty"
    BY <2>2, <2>5, RowReplaced DEF Saved
  <2>6. CASE req[t].kind \notin {"addParty", "updateParty", "removeParty"}
    BY <2>2, <2>6 DEF Saved
  <2> QED BY <2>3, <2>4, <2>5, <2>6
<1>5. courts' \in Seq(Nat)
  BY <1>1 DEF Saved, FileInv, FileTypeOK
<1>6. team' \in Seq(Assignment)
  <2>1. req[t].kind = "assign" => [user |-> req[t].arg, active |-> TRUE] \in Assignment
    BY <1>1 DEF Request, Assignment
  <2>2. team \in Seq(Assignment)
    BY DEF FileInv, FileTypeOK
  <2>3. CASE req[t].kind = "unassign"
    <3>1. team' = [team EXCEPT ![req[t].target].active = FALSE]
      BY <2>3 DEF Saved
    <3>2. CASE req[t].target \in DOMAIN team
      <4> DEFINE a == [team[req[t].target] EXCEPT !.active = FALSE]
      <4>0. team[req[t].target] \in Assignment
        BY <2>2, <3>2
      <4>1. a \in Assignment
        BY <4>0 DEF Assignment
      <4>2. team' = [team EXCEPT ![req[t].target] = a]
        BY <3>1
      <4> HIDE DEF a
      <4> QED BY <2>2, <4>1, <4>2, RowReplaced
    <3>3. CASE req[t].target \notin DOMAIN team
      <4>1. DOMAIN team' = 1 .. Len(team) /\ \A i \in 1 .. Len(team) : team'[i] = team[i]
        BY <2>2, <3>1, <3>3
      <4>2. team' = [i \in 1 .. Len(team) |-> team'[i]]
        BY <3>1, <4>1
      <4>3. team' \in [1 .. Len(team) -> Assignment]
        BY <2>2, <4>1, <4>2
      <4> QED BY <2>2, <4>3
    <3> QED BY <3>2, <3>3
  <2>4. CASE req[t].kind # "unassign"
    BY <2>1, <2>2, <2>4 DEF Saved
  <2> QED BY <2>3, <2>4
<1> QED BY <1>2, <1>3, <1>4, <1>5, <1>6

LEMMA CommitTyped ==
    ASSUME FileInv, NEW t \in Txs, Commit(t)
    PROVE  FileInv'
<1>0. /\ seen \in [Txs -> Seen] /\ pc[t] = "commit" /\ Saved(t)
      /\ NothingSeen \in Seen
  BY DEF FileInv, FileTypeOK, Commit, NothingSeen, Seen
<1>1. ASSUME NEW u \in Txs
      PROVE  /\ seen'[u] \in Seen
             /\ u # t => seen'[u].status = seen[u].status /\ seen'[u].stage = seen[u].stage
  <2>1. [seen[u] EXCEPT !.stale = TRUE] \in Seen
    BY <1>0 DEF Seen
  <2> QED BY <1>0, <2>1 DEF Commit, Seen
<1>2. seen' \in [Txs -> Seen]
  BY <1>1 DEF Commit
<1>3. FileTypeOK'
  <2>1. file' # None /\ req' = req /\ told' = told /\ pc' \in [Txs -> Steps]
    <3>1. file \in CaseRow
      BY <1>0 DEF FileInv, FileTypeOK
    <3>2. file' # None
      BY <1>0, SavedTyped, CaseFileAssumption
    <3> QED BY <3>2 DEF Commit, GoTo, FileInv, FileTypeOK, Steps
  <2>2. \A u \in Txs : pc'[u] # "idle" => req[u] \in Request
    BY <1>0 DEF Commit, GoTo, FileInv, FileTypeOK
  <2> QED BY <1>0, <1>2, <2>1, <2>2, SavedTyped DEF FileInv, FileTypeOK
<1>4. HasLastStage'
  <2>1. CASE req[t].kind = "addCourt"
    <3>1. courts' = Append(courts, seen[t].stage) /\ seen[t].stage \in Nat /\ courts \in Seq(Nat)
      BY <1>0, <2>1 DEF Saved, FileInv, FileTypeOK, SeenOK, Checked
    <3>2. CASE courts = <<>>
      BY <3>1, <3>2 DEF HasLastStage
    <3>3. CASE courts # <<>>
      <4>1. PICK i \in DOMAIN courts : \A j \in DOMAIN courts : courts[j] <= courts[i]
        BY <3>3 DEF FileInv, HasLastStage
      <4>0. /\ DOMAIN courts' = DOMAIN courts \cup {Len(courts) + 1}
            /\ \A j \in DOMAIN courts : courts'[j] = courts[j] /\ courts[j] \in Nat
            /\ courts'[Len(courts) + 1] = seen[t].stage
        BY <3>1, RowAdded
      <4>2. CASE seen[t].stage <= courts[i]
        <5>1. \A j \in DOMAIN courts' : courts'[j] <= courts'[i]
          BY <4>0, <4>1, <4>2
        <5> QED BY <4>0, <5>1 DEF HasLastStage
      <4>3. CASE ~(seen[t].stage <= courts[i])
        <5>1. \A j \in DOMAIN courts' : courts'[j] <= courts'[Len(courts) + 1]
          BY <3>1, <4>0, <4>1, <4>3
        <5> QED BY <4>0, <5>1 DEF HasLastStage
      <4> QED BY <4>2, <4>3
    <3> QED BY <3>2, <3>3
  <2>2. CASE req[t].kind # "addCourt"
    BY <1>0, <2>2 DEF Saved, FileInv, HasLastStage
  <2> QED BY <2>1, <2>2
<1>5. ASSUME NEW u \in Txs PROVE SeenOK(u)'
  BY <1>0, <1>1 DEF Commit, GoTo, FileInv, FileTypeOK, SeenOK, Checked
<1> QED BY <1>3, <1>4, <1>5 DEF FileInv

LEMMA NextTyped == FileInv /\ [FileNext]_fileVars => FileInv'
<1> SUFFICES ASSUME FileInv, [FileNext]_fileVars PROVE FileInv'
  OBVIOUS
<1>1. CASE CreateCase
  <2>1. /\ file' \in CaseRow /\ history' \in Seq(Transition)
        /\ parties' \in Seq(PartyTypes \cup {"removed"})
    BY <1>1 DEF CreateCase, CaseRow, Statuses, Transition, PartyTypes
  <2>2. FileTypeOK'
    BY <1>1, <2>1 DEF CreateCase, FileInv, FileTypeOK
  <2> QED BY <1>1, <2>2 DEF CreateCase, FileInv, HasLastStage, SeenOK
<1>2. ASSUME NEW t \in Txs, NEW r \in Request, Begin(t, r) PROVE FileInv'
  <2>1. FileTypeOK'
    BY <1>2 DEF Begin, FileInv, FileTypeOK, GoTo, Steps, rows
  <2> QED BY <1>2, <2>1 DEF Begin, FileInv, FileTypeOK, HasLastStage, SeenOK, GoTo, rows, Checked
<1>3. ASSUME NEW t \in Txs, Statement(t) PROVE FileInv'
  BY <1>3, StatementTyped
<1>4. ASSUME NEW t \in Txs, Commit(t) PROVE FileInv'
  BY <1>4, CommitTyped
<1>5. ASSUME NEW t \in Txs, Take(t) PROVE FileInv'
  <2>1. FileTypeOK'
    BY <1>5 DEF Take, FileInv, FileTypeOK, GoTo, Steps, rows, Seen, NothingSeen
  <2> QED BY <1>5, <2>1 DEF Take, FileInv, FileTypeOK, HasLastStage, SeenOK, GoTo, rows, Checked
<1>6. CASE UNCHANGED fileVars
  BY <1>6 DEF fileVars, rows, FileInv, FileTypeOK, HasLastStage, SeenOK
<1> QED BY <1>1, <1>2, <1>3, <1>4, <1>5, <1>6 DEF FileNext

\* Every variable keeps its type.
THEOREM FileTypeCorrect == FileSpec => []FileTypeOK
BY FileInitTyped, NextTyped, PTL DEF FileSpec, FileInv

-----------------------------------------------------------------------------
(***************************************************************************)
(* The rules of the file.                                                  *)
(***************************************************************************)

\* What the check of a request established, as the rows are now.
StillHolds(t) ==
    /\ req[t].kind = "status" => /\ seen[t].status = file.status
                                 /\ req[t].arg \in Allowed[file.status]
    /\ req[t].kind \in {"updateParty", "removeParty"} =>
          req[t].target \in DOMAIN parties /\ KeepsAClient(req[t])
    /\ req[t].kind = "addCourt" => \A i \in DOMAIN courts : courts[i] < seen[t].stage
    /\ req[t].kind = "assign" => ~OnTeam(req[t].arg)

\* It holds until another request of the same subject commits.
FreshInv ==
    /\ file = None => courts = <<>> /\ team = <<>>
    /\ \A t \in Txs : pc[t] \in Checked /\ ~seen[t].stale => StillHolds(t)

LEMMA StatementFresh ==
    ASSUME FileInv, FreshInv, NEW t \in Txs, Statement(t)
    PROVE  FreshInv'
<1>0. UNCHANGED <<rows, req>> /\ pc \in [Txs -> Steps] /\ seen \in [Txs -> Seen]
  BY StatementTyped DEF FileInv, FileTypeOK
<1>1. ASSUME NEW u \in Txs, u # t PROVE pc'[u] = pc[u] /\ seen'[u] = seen[u]
  BY <1>0, <1>1, StatementTyped DEF StatementEffect, GoTo
<1>2. ASSUME pc'[t] \in Checked, ~seen'[t].stale
      PROVE  StillHolds(t)'
  <2>1. CASE Check(t)
    <3>1. Passes(req[t]) /\ seen'[t].status = file.status /\ seen'[t].stage = NextStage
      BY <1>0, <2>1 DEF Check, Seen
    <3>2. req[t].kind = "addCourt" => \A i \in DOMAIN courts : courts[i] < seen'[t].stage
      BY <3>1, NextStageIsNew
    <3> QED BY <1>0, <3>1, <3>2
            DEF Passes, StillHolds, rows, IsParty, KeepsAClient, OtherClient, OnTeam
  <2>2. CASE Write(t) \/ Notify(t) \/ Answer(t)
    <3>1. /\ pc[t] \in Checked
          /\ seen'[t].stale = seen[t].stale /\ seen'[t].status = seen[t].status
          /\ seen'[t].stage = seen[t].stage
      BY <1>0, <2>2 DEF Write, Notify, Answer, Checked, Seen
    <3> QED BY <1>0, <1>2, <3>1
            DEF FreshInv, StillHolds, rows, KeepsAClient, OtherClient, OnTeam
  <2>3. CASE Acquire(t)
    BY <1>0, <1>2, <2>3 DEF Acquire, GoTo, Checked
  <2>4. CASE CheckFails(t) \/ WriteFails(t) \/ CaseIsGone(t) \/ Rollback(t)
    BY <1>0, <1>2, <2>4 DEF CheckFails, WriteFails, CaseIsGone, Rollback, Refuse, GoTo, Checked
  <2> QED BY <2>1, <2>2, <2>3, <2>4 DEF Statement
<1>3. ASSUME NEW u \in Txs, u # t, pc'[u] \in Checked, ~seen'[u].stale
      PROVE  StillHolds(u)'
  BY <1>0, <1>1, <1>3 DEF FreshInv, StillHolds, rows, KeepsAClient, OtherClient, OnTeam
<1> QED BY <1>0, <1>2, <1>3 DEF FreshInv, rows

\* Another client party stays, whatever another subject commits.
LEMMA CommitFresh ==
    ASSUME FileInv, FreshInv, NEW t \in Txs, Commit(t)
    PROVE  FreshInv'
<1>0. /\ pc[t] = "commit" /\ Saved(t) /\ req' = req /\ seen \in [Txs -> Seen]
      /\ pc \in [Txs -> Steps] /\ file \in CaseRow /\ req[t] \in Request
      /\ parties \in Seq(PartyTypes \cup {"removed"}) /\ courts \in Seq(Nat)
      /\ team \in Seq(Assignment)
  BY DEF Commit, FileInv, FileTypeOK
<1>1. file' # None
  BY <1>0, SavedTyped, CaseFileAssumption
<1>2. ASSUME NEW u \in Txs, pc'[u] \in Checked, ~seen'[u].stale
      PROVE  StillHolds(u)'
  <2>1. u # t
    BY <1>0, <1>2 DEF Commit, GoTo, Checked
  <2>2. pc[u] \in Checked /\ u \notin Overtaken(t) /\ seen'[u] = seen[u]
    <3>1. pc'[u] = pc[u]
      BY <1>0, <2>1 DEF Commit, GoTo
    <3>2. u \in Overtaken(t) => seen'[u] = [seen[u] EXCEPT !.stale = TRUE]
      BY <2>1 DEF Commit
    <3>3. u \notin Overtaken(t)
      BY <1>0, <1>2, <3>2 DEF Seen
    <3> QED BY <1>2, <2>1, <3>1, <3>3 DEF Commit
  <2>3. StillHolds(u) /\ Subject(req[u]) # Subject(req[t])
    BY <1>2, <2>1, <2>2 DEF FreshInv, Overtaken
  <2>4. CASE req[u].kind = "status"
    <3>1. file'.status = file.status
      BY <1>0, <2>3, <2>4 DEF Subject, Saved, CaseRow
    <3> QED BY <1>0, <2>2, <2>3, <2>4, <3>1 DEF StillHolds
  <2>5. CASE req[u].kind \in {"updateParty", "removeParty"}
    <3>1. CASE req[t].kind = "addParty"
      <4>1. parties' = Append(parties, req[t].arg) /\ req[t].arg \in PartyTypes
        BY <1>0, <3>1 DEF Saved, Request
      <4> QED BY <1>0, <2>2, <2>3, <2>5, <4>1, RowAdded
              DEF StillHolds, KeepsAClient, OtherClient
    <3>2. CASE req[t].kind # "addParty"
      <4>1. parties' = parties
        BY <1>0, <2>3, <2>5, <3>2 DEF Subject, Saved
      <4> QED BY <1>0, <2>2, <2>3, <2>5, <4>1 DEF StillHolds, KeepsAClient, OtherClient
    <3> QED BY <3>1, <3>2
  <2>6. CASE req[u].kind = "addCourt"
    <3>1. courts' = courts
      BY <1>0, <2>3, <2>6 DEF Subject, Saved
    <3> QED BY <1>0, <2>2, <2>3, <2>6, <3>1 DEF StillHolds
  <2>7. CASE req[u].kind = "assign"
    <3>1. req[t].kind # "assign"
      BY <2>3, <2>7 DEF Subject
    <3>2. \A a \in DOMAIN team' : /\ a \in DOMAIN team
                                  /\ team'[a].user = team[a].user
                                  /\ team'[a].active => team[a].active
      BY <1>0, <3>1 DEF Saved, Assignment
    <3> QED BY <1>0, <2>2, <2>3, <2>7, <3>2 DEF StillHolds, OnTeam
  <2>8. CASE req[u].kind \notin {"status", "updateParty", "removeParty", "addCourt", "assign"}
    BY <1>0, <2>8 DEF StillHolds
  <2> QED BY <2>4, <2>5, <2>6, <2>7, <2>8
<1> QED BY <1>1, <1>2 DEF FreshInv

LEMMA NextFresh == FileInv /\ FreshInv /\ [FileNext]_fileVars => FreshInv'
<1> SUFFICES ASSUME FileInv, FreshInv, [FileNext]_fileVars PROVE FreshInv'
  OBVIOUS
<1>1. CASE CreateCase
  <2>0. file' \in CaseRow
    BY <1>1 DEF CreateCase, CaseRow, Statuses
  <2>1. file' # None
    BY <2>0, CaseFileAssumption
  <2>2. \A t \in Txs : pc'[t] \notin Checked
    BY <1>1 DEF CreateCase, FileInv, FileTypeOK, Checked
  <2> QED BY <2>1, <2>2 DEF FreshInv
<1>2. ASSUME NEW t \in Txs, NEW r \in Request, Begin(t, r) PROVE FreshInv'
  <2>1. UNCHANGED <<rows, seen>> /\ pc'[t] \notin Checked
    BY <1>2 DEF Begin, GoTo, FileInv, FileTypeOK, Checked
  <2>2. \A u \in Txs \ {t} : pc'[u] = pc[u] /\ req'[u] = req[u]
    BY <1>2 DEF Begin, GoTo, FileInv, FileTypeOK
  <2> QED BY <2>1, <2>2 DEF FreshInv, StillHolds, rows, KeepsAClient, OtherClient, OnTeam
<1>3. ASSUME NEW t \in Txs, Statement(t) PROVE FreshInv'
  BY <1>3, StatementFresh
<1>4. ASSUME NEW t \in Txs, Commit(t) PROVE FreshInv'
  BY <1>4, CommitFresh
<1>5. ASSUME NEW t \in Txs, Take(t) PROVE FreshInv'
  <2>1. UNCHANGED rows /\ pc'[t] \notin Checked
    BY <1>5 DEF Take, GoTo, FileInv, FileTypeOK, Checked
  <2>2. \A u \in Txs \ {t} : pc'[u] = pc[u] /\ req'[u] = req[u] /\ seen'[u] = seen[u]
    BY <1>5 DEF Take, GoTo, FileInv, FileTypeOK
  <2> QED BY <2>1, <2>2 DEF FreshInv, StillHolds, rows, KeepsAClient, OtherClient, OnTeam
<1>6. CASE UNCHANGED fileVars
  BY <1>6 DEF fileVars, rows, FreshInv, StillHolds, KeepsAClient, OtherClient, OnTeam
<1> QED BY <1>1, <1>2, <1>3, <1>4, <1>5, <1>6 DEF FileNext

\* A commit keeps the rules of its subject unless it was overtaken.
LEMMA CommitKeepsRules ==
    ASSUME FileInv, FreshInv, RulesHoldButForRaces, NEW t \in Txs, Commit(t)
    PROVE  RulesHoldButForRaces'
<1>0. /\ pc[t] = "commit" /\ Saved(t) /\ req' = req
      /\ raced' = IF seen[t].stale THEN raced \cup {Subject(req[t])} ELSE raced
      /\ file \in CaseRow /\ req[t] \in Request /\ file # None
      /\ history \in Seq(Transition) /\ courts \in Seq(Nat) /\ team \in Seq(Assignment)
      /\ parties \in Seq(PartyTypes \cup {"removed"})
      /\ seen[t].status \in Statuses /\ seen[t].stage \in Nat
  BY DEF Commit, FileInv, FileTypeOK, SeenOK, Checked
<1>1. Subject(req[t]) \notin raced' => StillHolds(t)
  BY <1>0 DEF FreshInv, Checked
<1>2. StatusFollowsTable'
  <2>1. CASE req[t].kind = "status"
    <3> DEFINE e == [from |-> seen[t].status, to |-> req[t].arg]
               n == Len(history)
    <3>1. e \in Transition /\ history' = Append(history, e) /\ file'.status = req[t].arg
      BY <1>0, <2>1 DEF Saved, Request, Transition, CaseRow
    <3>2. /\ Len(history') = n + 1 /\ history'[n + 1] = e /\ n \in Nat /\ n # 0
          /\ \A i \in 1 .. n : history'[i] = history[i]
      BY <1>0, <3>1 DEF RulesHoldButForRaces, StatusFollowsTable
    <3>3. "status" \notin raced' =>
            /\ "status" \notin raced
            /\ e.from = history[n].to
            /\ e.to \in Allowed[e.from]
      BY <1>0, <1>1, <2>1 DEF StillHolds, Subject, RulesHoldButForRaces, StatusFollowsTable
    <3>4. ASSUME NEW i \in 2 .. Len(history'), "status" \notin raced'
          PROVE  /\ history'[i].from = history'[i - 1].to
                 /\ history'[i].to \in Allowed[history'[i].from]
      <4>1. CASE i = n + 1
        BY <3>2, <3>3, <3>4, <4>1
      <4>2. CASE i # n + 1
        <5>1. i \in 2 .. n /\ history'[i] = history[i] /\ history'[i - 1] = history[i - 1]
          BY <3>2, <3>4, <4>2
        <5> QED BY <1>0, <3>3, <3>4, <5>1 DEF RulesHoldButForRaces, StatusFollowsTable
      <4> QED BY <4>1, <4>2
    <3>5. history' # <<>> /\ history'[Len(history')].to = file'.status
      BY <3>1, <3>2
    <3> QED BY <3>4, <3>5 DEF StatusFollowsTable
  <2>2. CASE req[t].kind # "status"
    <3>1. history' = history /\ file'.status = file.status /\ raced \subseteq raced'
      BY <1>0, <2>2 DEF Saved, CaseRow
    <3> QED BY <1>0, <3>1 DEF RulesHoldButForRaces, StatusFollowsTable
  <2> QED BY <2>1, <2>2
<1>3. ClientStays'
  <2> SUFFICES ASSUME "client" \notin raced'
               PROVE  \E p \in DOMAIN parties' : parties'[p] = "CLIENT"
    BY DEF ClientStays
  <2>1. PICK p \in DOMAIN parties : parties[p] = "CLIENT"
    BY <1>0 DEF RulesHoldButForRaces, ClientStays
  <2>2. CASE req[t].kind \in {"updateParty", "removeParty"}
    <3>1. KeepsAClient(req[t])
      BY <1>1, <2>2 DEF Subject, StillHolds
    <3>2. /\ DOMAIN parties' = DOMAIN parties
          /\ \A q \in DOMAIN parties \ {req[t].target} : parties'[q] = parties[q]
      BY <1>0, <2>2 DEF Saved
    <3>3. CASE p # req[t].target
      BY <2>1, <3>2, <3>3
    <3>4. CASE p = req[t].target /\ req[t].arg = "CLIENT"
      <4>1. req[t].kind = "updateParty"
        BY <1>0, <2>2, <3>4, CaseFileAssumption DEF Request, PartyTypes
      <4> QED BY <1>0, <2>1, <3>2, <3>4, <4>1 DEF Saved
    <3>5. CASE p = req[t].target /\ req[t].arg # "CLIENT"
      <4>1. OtherClient(p)
        BY <2>1, <3>1, <3>5 DEF KeepsAClient
      <4> QED BY <3>2, <3>5, <4>1 DEF OtherClient
    <3> QED BY <3>3, <3>4, <3>5
  <2>3. CASE req[t].kind = "addParty"
    <3>1. parties' = Append(parties, req[t].arg) /\ req[t].arg \in PartyTypes
      BY <1>0, <2>3 DEF Saved, Request
    <3> QED BY <1>0, <2>1, <3>1, RowAdded
  <2>4. CASE req[t].kind \notin {"addParty", "updateParty", "removeParty"}
    BY <1>0, <2>1, <2>4 DEF Saved
  <2> QED BY <2>2, <2>3, <2>4
<1>4. StagesAreOrdered'
  <2>1. CASE req[t].kind = "addCourt"
    <3>1. courts' = Append(courts, seen[t].stage)
      BY <1>0, <2>1 DEF Saved
    <3>2. /\ DOMAIN courts' = DOMAIN courts \cup {Len(courts) + 1}
          /\ \A i \in DOMAIN courts : courts'[i] = courts[i] /\ courts[i] \in Nat
          /\ courts'[Len(courts) + 1] = seen[t].stage
      BY <1>0, <3>1, RowAdded
    <3>3. "addCourt" \notin raced' =>
            /\ "addCourt" \notin raced
            /\ \A i \in DOMAIN courts : courts[i] < seen[t].stage
      BY <1>0, <1>1, <2>1 DEF StillHolds, Subject
    <3> QED BY <1>0, <3>2, <3>3 DEF RulesHoldButForRaces, StagesAreOrdered
  <2>2. CASE req[t].kind # "addCourt"
    <3>1. courts' = courts /\ raced \subseteq raced'
      BY <1>0, <2>2 DEF Saved
    <3> QED BY <1>0, <3>1 DEF RulesHoldButForRaces, StagesAreOrdered
  <2> QED BY <2>1, <2>2
<1>5. AssignedOnce'
  <2>1. CASE req[t].kind = "assign"
    <3> DEFINE a == [user |-> req[t].arg, active |-> TRUE]
    <3>1. team' = Append(team, a) /\ a \in Assignment
      BY <1>0, <2>1 DEF Saved, Request, Assignment
    <3>2. /\ DOMAIN team' = DOMAIN team \cup {Len(team) + 1}
          /\ \A i \in DOMAIN team : team'[i] = team[i]
          /\ team'[Len(team) + 1].user = req[t].arg
      BY <1>0, <3>1, RowAdded
    <3>3. "assign" \notin raced' => "assign" \notin raced /\ ~OnTeam(req[t].arg)
      BY <1>0, <1>1, <2>1 DEF StillHolds, Subject
    <3> QED BY <1>0, <3>2, <3>3 DEF RulesHoldButForRaces, AssignedOnce, OnTeam
  <2>2. CASE req[t].kind # "assign"
    <3>1. \A i \in DOMAIN team' : /\ i \in DOMAIN team
                                  /\ team'[i].user = team[i].user
                                  /\ team'[i].active => team[i].active
      BY <1>0, <2>2 DEF Saved, Assignment
    <3>2. raced \subseteq raced'
      BY <1>0
    <3> QED BY <1>0, <3>1, <3>2 DEF RulesHoldButForRaces, AssignedOnce
  <2> QED BY <2>1, <2>2
<1> QED BY <1>2, <1>3, <1>4, <1>5 DEF RulesHoldButForRaces

LEMMA NextKeepsRules ==
    FileInv /\ FreshInv /\ RulesHoldButForRaces /\ [FileNext]_fileVars => RulesHoldButForRaces'
<1> SUFFICES ASSUME FileInv, FreshInv, RulesHoldButForRaces, [FileNext]_fileVars
             PROVE  RulesHoldButForRaces'
  OBVIOUS
<1>1. CASE CreateCase
  <2>1. courts' = <<>> /\ team' = <<>>
    BY <1>1 DEF CreateCase, FreshInv
  <2>2. StatusFollowsTable'
    BY <1>1 DEF CreateCase, StatusFollowsTable
  <2> QED BY <1>1, <2>1, <2>2
          DEF CreateCase, RulesHoldButForRaces, ClientStays, StagesAreOrdered, AssignedOnce
<1>2. CASE UNCHANGED <<rows, raced>>
  BY <1>2 DEF rows, RulesHoldButForRaces, StatusFollowsTable, ClientStays, StagesAreOrdered,
     AssignedOnce
<1>3. ASSUME NEW t \in Txs, Statement(t) PROVE RulesHoldButForRaces'
  BY <1>2, <1>3, StatementTyped
<1>4. ASSUME NEW t \in Txs, Commit(t) PROVE RulesHoldButForRaces'
  BY <1>4, CommitKeepsRules
<1>5. ASSUME NEW t \in Txs, Take(t) \/ \E r \in Request : Begin(t, r)
      PROVE  RulesHoldButForRaces'
  BY <1>2, <1>5 DEF Take, Begin
<1>6. CASE UNCHANGED fileVars
  BY <1>2, <1>6 DEF fileVars
<1> QED BY <1>1, <1>3, <1>4, <1>5, <1>6 DEF FileNext

\* The invariant the rules rest on.
FileSafe == FileInv /\ FreshInv /\ RulesHoldButForRaces

LEMMA FileSafeInit == FileInit => FileSafe
BY FileInitTyped DEF FileInit, FileSafe, FreshInv, RulesHoldButForRaces, Checked

LEMMA FileSafeNext == FileSafe /\ [FileNext]_fileVars => FileSafe'
BY NextTyped, NextFresh, NextKeepsRules DEF FileSafe

\* The rules of a case file hold but for requests whose check was overtaken, for any
\* number of requests at a time.
THEOREM RulesHold == FileSpec => []RulesHoldButForRaces
BY FileSafeInit, FileSafeNext, PTL DEF FileSpec, FileSafe

-----------------------------------------------------------------------------
(***************************************************************************)
(* The intake page and the other user only use the requests of a case      *)
(* file, so what holds of every case file holds at their work.             *)
(***************************************************************************)

LEMMA RowParts ==
    ASSUME NEW r \in Rows
    PROVE  r[1] \in Submissions /\ r[2] \in Drafts
BY DEF Rows

LEMMA RowsOfSection ==
    ASSUME NEW n \in Submissions, NEW r
    PROVE  r \in RowsOf(n) <=> /\ r \in Rows /\ r[1] = n
                               /\ SectionOf(r[2]) = Current(n) /\ ShouldAttempt(n, Current(n))
<1> DEFINE D == {d \in Drafts : SectionOf(d) = Current(n)}
<1>1. r \in {n} \X D <=> r \in Rows /\ r[1] = n /\ SectionOf(r[2]) = Current(n)
  <2>1. r \in {n} \X D => r \in Rows /\ r[1] = n /\ SectionOf(r[2]) = Current(n)
    BY DEF Rows
  <2>2. ASSUME r \in Rows, r[1] = n, SectionOf(r[2]) = Current(n)
        PROVE  r \in {n} \X D
    BY <2>2 DEF Rows
  <2> QED BY <2>1, <2>2
<1> QED BY <1>1 DEF RowsOf

\* Every row is posted as a request of the case file.
LEMMA PostIsRequest ==
    ASSUME NEW r \in Rows
    PROVE  Post(r) \in Request /\ Post(r).from = r
<1>1. r \in Senders /\ Target \in Statuses
  BY CaseIntakeAssumption
<1> DEFINE d == r[2]
<1> HIDE DEF d
<1>2. CASE d \in Courts
  <2>1. d \notin Parties /\ d \notin Members
    BY <1>2, CaseIntakeAssumption
  <2>2. Post(r) = [kind |-> "addCourt", target |-> None, arg |-> None, from |-> r]
    BY <1>2, <2>1, Zenon DEF Post, d
  <2>3. QED
    BY <1>1, <1>2, <2>2, CaseIntakeAssumption DEF Request
<1>3. CASE d \in Parties
  <2>1. d \notin Courts /\ d \notin Members
    BY <1>3, CaseIntakeAssumption
  <2>2. Post(r) = [kind |-> "addParty", target |-> None, arg |-> TypeOf[d], from |-> r]
    BY <1>3, <2>1, Zenon DEF Post, d
  <2>3. QED
    BY <1>1, <1>3, <2>2, CaseIntakeAssumption DEF Request
<1>4. CASE d \in Members
  <2>1. d \notin Courts /\ d \notin Parties
    BY <1>4, CaseIntakeAssumption
  <2>2. Post(r) = [kind |-> "assign", target |-> None, arg |-> UserOf[d], from |-> r]
    BY <1>4, <2>1, Zenon DEF Post, d
  <2>3. QED
    BY <1>1, <1>4, <2>2, CaseIntakeAssumption DEF Request
<1>5. CASE d \notin Courts /\ d \notin Parties /\ d \notin Members
  <2>1. Post(r) = [kind |-> "status", target |-> None, arg |-> Target, from |-> r]
    BY <1>5, Zenon DEF Post, d
  <2>2. QED
    BY <1>1, <2>1 DEF Request
<1>6. QED
  BY <1>2, <1>3, <1>4, <1>5

\* And so is everything the other user can do.
LEMMA OtherIsRequest ==
    ASSUME FileTypeOK, NEW from \in Others, NEW r \in OtherRequest(from)
    PROVE  r \in Request
<1>1. from \in Senders /\ Targets \subseteq Statuses
  BY CaseIntakeAssumption
<1>2. DOMAIN parties \subseteq Nat /\ DOMAIN team \subseteq Nat
  BY DEF FileTypeOK
<1>3. {"OPPONENT"} \subseteq PartyTypes
  BY DEF PartyTypes
<1>4. QED
  BY <1>1, <1>2, <1>3 DEF OtherRequest, Request

\* A step of the page, of its server or of the other user is one of the case file, or
\* leaves the file alone.
LEMMA StepOfFile ==
    ASSUME FileTypeOK, [Next]_vars
    PROVE  [FileNext]_fileVars
<1>1. ASSUME NEW n \in Submissions, PostRow(n) PROVE FileNext
  <2>1. Slot \in Txs
    BY <1>1 DEF PostRow, Slot
  <2>2. NextRow(n) \in Rows
    BY <1>1, RowsOfSection DEF PostRow, NextRow, ToPost
  <2>3. Begin(Slot, Post(NextRow(n)))
    BY <1>1 DEF PostRow
  <2>4. QED
    BY <2>1, <2>2, <2>3, PostIsRequest DEF FileNext
<1>2. CASE OtherBegins
  <2>1. Slot \in Txs
    BY <1>2 DEF OtherBegins, Slot
  <2>2. PICK from \in Others : \E r \in OtherRequest(from) : Begin(Slot, r)
    BY <1>2 DEF OtherBegins
  <2>3. QED
    BY <2>1, <2>2, OtherIsRequest DEF FileNext
<1>3. ASSUME NEW n \in Submissions, CaseCreated(n) PROVE FileNext \/ UNCHANGED fileVars
  BY <1>3 DEF CaseCreated, FileNext
<1>4. ASSUME NEW t \in Txs, RowSettled(t) \/ RowAnswerLost(t) \/ OtherTakes(t)
      PROVE  Take(t)
  BY <1>4 DEF RowSettled, RowAnswerLost, OtherTakes
<1>5. ASSUME NEW t \in Txs, ServerStep(t) \/ RowCommits(t)
      PROVE  Statement(t) \/ Commit(t)
  BY <1>5 DEF ServerStep, RowCommits
<1>6. CASE Submit \/ RetrySubmit
  BY <1>6 DEF Submit, RetrySubmit
<1>7. ASSUME NEW n \in Submissions,
             \/ ClientCreated(n) \/ CaseRequested(n) \/ CreationFails(n) \/ CaseAnswerLost(n)
             \/ SectionSettled(n) \/ AllSaved(n) \/ SavedWithIssues(n) \/ EndsElsewhere(n)
      PROVE  UNCHANGED fileVars
  BY <1>7 DEF ClientCreated, CaseRequested, CreationFails, CaseAnswerLost, SectionSettled,
     AllSaved, SavedWithIssues, EndsElsewhere
<1>8. CASE UNCHANGED vars
  BY <1>8 DEF vars
<1>9. QED
  BY <1>1, <1>2, <1>3, <1>4, <1>5, <1>6, <1>7, <1>8 DEF Next, PageStep, FileNext

\* The intake page implements the case file.
THEOREM IntakeImplementsFile == Spec => FileSpec
<1>1. Init => FileInit
  BY DEF Init
<1>2. FileInv => FileTypeOK
  BY DEF FileInv
<1>3. FileInv /\ [Next]_vars => [FileNext]_fileVars
  BY <1>2, StepOfFile
<1>4. QED
  BY <1>1, <1>3, FileInitTyped, NextTyped, PTL DEF Spec, FileSpec

\* Whatever the page and the other user do, with submissions that overlap,
\* answers lost and sections saved again,
\* the rules of the file hold but for requests that were overtaken (changeCaseStatus,
\* updateCaseParty, removeCaseParty, addCaseCourt and addCaseAssignment).
THEOREM IntakeKeepsRules == Spec => []RulesHoldButForRaces
BY IntakeImplementsFile, RulesHold, PTL

-----------------------------------------------------------------------------
(***************************************************************************)
(* What the page knows.  Its requests carry the rows it has posted and are *)
(* not answered, what it counts as saved is, and a retryContext leaves out *)
(* only sections that are saved in its case.                               *)
(***************************************************************************)

Asking  == {"client", "refresh", "case"}
HasCase == {"sections", "elsewhere", "issues", "done"}

PageTyped ==
    /\ phase \in [Submissions -> Asking \cup HasCase \cup {"none", "failed"}]
    /\ context \in [Submissions -> Context \cup {None}]
    /\ calls \in [client : Submissions \cup {None}, case : Submissions \cup {None}]
    /\ retry \in Context \cup {None}
    /\ section \in [Submissions -> 1 .. 5]
    /\ failed \in [Submissions -> SUBSET SectionNames]
    /\ posts \in [Rows -> {"ready", "posted", "saved", "refused"}]
    /\ resent \subseteq Rows
    /\ followed \in Submissions \cup {None} /\ (followed # None <=> file # None)

CountsTyped ==
    /\ lost \in [Rows \cup {None} -> Nat]
    /\ saved \in [Rows -> Nat]
    /\ overlaps \in Nat /\ cases \in Nat

\* Whose case the submissions and the contexts are about.
Origins ==
    /\ \A n \in Submissions :
        /\ context[n] # None => phase[context[n].origin] \in HasCase
        /\ phase[n] \in Asking \cup {"none"} => context[n] = None
        /\ phase[n] = "sections" => Origin(n) = followed
        /\ phase[n] = "elsewhere" => Origin(n) # followed
    /\ retry # None => phase[retry.origin] \in HasCase
    /\ followed # None => phase[followed] \in HasCase

\* A submission that has not come to its sections has done nothing for them.
Untouched == \A n \in Submissions : phase[n] \notin {"sections", "issues", "done"} =>
    /\ section[n] = 1 /\ failed[n] = {}
    /\ \A r \in Rows : r[1] = n => posts[r] = "ready" /\ saved[r] = 0

\* A row of the section that is being saved.
IsDue(r) ==
    /\ phase[r[1]] = "sections" /\ section[r[1]] \in 1 .. 4
    /\ SectionOf(r[2]) = Sections[section[r[1]]] /\ ShouldAttempt(r[1], SectionOf(r[2]))

\* Every row is on its way once at most, and only while its section is being saved.
PostedOnce ==
    /\ \A t \in Txs : pc[t] # "idle" /\ req[t].from \in Rows => posts[req[t].from] = "posted"
    /\ \A t, u \in Txs :
           pc[t] # "idle" /\ pc[u] # "idle" /\ req[t].from \in Rows /\ req[u].from = req[t].from
               => t = u
    /\ \A r \in Rows : posts[r] = "posted" => IsDue(r)

\* The row has been saved, and the page has not seen the answer.
Unread(r) == \E t \in Txs : pc[t] = "saved" /\ req[t].from = r

Counted(r) == posts[r] = "saved" \/ Unread(r)

SavedOnce == \A r \in Rows :
    /\ saved[r] <= 1 + lost[r]
    /\ ~Counted(r) => saved[r] <= lost[r]

\* What a retry saves was reported.
IsReported(c) == c # None /\ c.origin = followed => c.sections \subseteq reported

RetriesReported ==
    /\ \A r \in Rows : saved[r] >= 1 =>
           Origin(r[1]) = followed /\ ShouldAttempt(r[1], SectionOf(r[2]))
    /\ \A n \in Submissions : IsReported(context[n])
    /\ IsReported(retry)

\* Some submission has saved the row in the file.
InFile(d) == \E r \in Rows : r[2] = d /\ saved[r] >= 1

Covers(c) == c # None /\ c.origin = followed =>
    \A d \in Drafts : SectionOf(d) \notin c.sections => InFile(d)

Passed(n, s) == \E i \in 1 .. 4 : i < section[n] /\ Sections[i] = s

SavedAtAll ==
    /\ \A r \in Rows : Counted(r) => saved[r] >= 1
    /\ \A n \in Submissions :
        /\ Covers(context[n])
        /\ \A d \in Drafts :
            \/ Passed(n, SectionOf(d)) /\ SectionOf(d) \notin failed[n]
            \/ phase[n] = "done" /\ Origin(n) = followed
            => InFile(d)
    /\ Covers(retry)

\* Without an overlap one submission runs at a time, and while no case is known none has
\* been created that was answered.
CasesInv == overlaps = 0 =>
    /\ cases <= 1 + lost[None]
    /\ \A n, m \in Submissions : phase[n] \in Running /\ phase[m] \in Running => n = m
    /\ \/ \E n \in Submissions : phase[n] \in Asking
       \/ retry = None /\ ~Left /\ \A n \in Submissions : phase[n] \notin Running
       => cases <= lost[None]

PageInv == /\ PageTyped /\ CountsTyped /\ Origins /\ Untouched /\ PostedOnce /\ SavedOnce
           /\ RetriesReported /\ SavedAtAll /\ CasesInv

-----------------------------------------------------------------------------
(***************************************************************************)
(* Sections and rows.                                                      *)
(***************************************************************************)

LEMMA SectionsAre ==
    /\ Len(Sections) = 4
    /\ SectionNames = {"courts", "parties", "assignments", "status"}
    /\ \A i \in 1 .. 4 : Sections[i] \in SectionNames
    /\ \A s \in SectionNames : \E i \in 1 .. 4 : Sections[i] = s
<1>1. Len(Sections) = 4
  BY DEF Sections
<1>2. /\ Sections[1] = "courts" /\ Sections[2] = "parties"
      /\ Sections[3] = "assignments" /\ Sections[4] = "status"
  BY DEF Sections
<1>3. 1 .. 4 = {1, 2, 3, 4}
  OBVIOUS
<1>4. SectionNames = {Sections[i] : i \in {1, 2, 3, 4}}
  BY <1>1, <1>3 DEF SectionNames
<1>5. SectionNames = {"courts", "parties", "assignments", "status"}
  BY <1>2, <1>4
<1> QED BY <1>1, <1>2, <1>3, <1>5

LEMMA SectionOfRow == ASSUME NEW d \in Drafts PROVE SectionOf(d) \in SectionNames
BY SectionsAre DEF SectionOf

\* None is no row, no submission and no retryContext.
LEMMA NoneIsNoRow == None \notin Rows /\ None \notin Submissions /\ None \notin Context
BY CaseFileAssumption, CaseIntakeAssumption

LEMMA PageInitHolds == ASSUME Init PROVE PageInv
<1>1. /\ file = None /\ pc = [t \in Txs |-> "idle"]
      /\ phase = [n \in Submissions |-> "none"] /\ context = [n \in Submissions |-> None]
      /\ calls = [client |-> None, case |-> None] /\ retry = None /\ overlaps = 0
      /\ section = [n \in Submissions |-> 1] /\ failed = [n \in Submissions |-> {}]
      /\ posts = [r \in Rows |-> "ready"] /\ resent = {} /\ followed = None /\ cases = 0
      /\ lost = [r \in Rows \cup {None} |-> 0] /\ saved = [r \in Rows |-> 0]
  BY DEF Init, FileInit
<1>2. PageTyped
  BY <1>1 DEF PageTyped
<1>3. CountsTyped
  BY <1>1 DEF CountsTyped
<1>4. Origins
  BY <1>1 DEF Origins, Asking, HasCase
<1>5. Untouched
  BY <1>1 DEF Untouched
<1>6. PostedOnce
  BY <1>1 DEF PostedOnce
<1>7. SavedOnce
  BY <1>1 DEF SavedOnce
<1>8. RetriesReported
  BY <1>1 DEF RetriesReported, IsReported
<1>9. SavedAtAll
  BY <1>1 DEF SavedAtAll, Covers, Counted, Unread, Passed
<1>10. CasesInv
  BY <1>1 DEF CasesInv, Running, Asking
<1> QED BY <1>2, <1>3, <1>4, <1>5, <1>6, <1>7, <1>8, <1>9, <1>10 DEF PageInv

-----------------------------------------------------------------------------
(***************************************************************************)
(* The button and the creation of the case.                                *)
(***************************************************************************)

\* The user submits.
LEMMA BeginKeeps ==
    ASSUME PageInv, NEW n \in Submissions, phase[n] = "none",
           NEW step \in Asking \cup {"sections", "elsewhere"},
           phase' = [phase EXCEPT ![n] = step], context' = [context EXCEPT ![n] = retry], ~Left,
           step \in Asking => retry = None,
           step \notin Asking => retry # None,
           step = "sections" => retry.origin = followed,
           step = "elsewhere" => retry.origin # followed,
           overlaps' = IF \E m \in Submissions : phase[m] \in Running
                       THEN overlaps + 1 ELSE overlaps,
           calls' \in [client : Submissions \cup {None}, case : Submissions \cup {None}],
           UNCHANGED <<file, pc, req, retry, section, failed, posts, resent, followed, cases,
                       lost, saved, reported>>
    PROVE  PageInv'
<1>1. /\ phase'[n] = step /\ context'[n] = retry
      /\ \A m \in Submissions \ {n} : phase'[m] = phase[m] /\ context'[m] = context[m]
  BY DEF PageInv, PageTyped
<1>2. \A m \in Submissions : phase[m] \in HasCase => m # n /\ phase'[m] = phase[m]
  BY <1>1 DEF HasCase
<1>3. \A m \in Submissions \ {n} :
          Origin(m)' = Origin(m) /\ \A s : ShouldAttempt(m, s)' <=> ShouldAttempt(m, s)
  BY <1>1 DEF Origin, ShouldAttempt
<1>4. PageTyped'
  <2>1. phase' \in [Submissions -> Asking \cup HasCase \cup {"none", "failed"}]
    BY DEF PageInv, PageTyped, HasCase
  <2>2. context' \in [Submissions -> Context \cup {None}]
    BY DEF PageInv, PageTyped
  <2> QED BY <2>1, <2>2 DEF PageInv, PageTyped
<1>5. CountsTyped'
  BY DEF PageInv, CountsTyped
<1>6. Origins'
  <2>1. \A c \in Context \cup {None} :
            c # None => c.origin \in Submissions
    BY DEF Context
  <2>2. \A m \in Submissions : context[m] # None => phase'[context[m].origin] \in HasCase
    BY <1>2, <2>1 DEF PageInv, PageTyped, Origins
  <2>3. retry # None => phase'[retry.origin] \in HasCase
    BY <1>2, <2>1 DEF PageInv, PageTyped, Origins
  <2>4. followed # None => phase'[followed] \in HasCase
    BY <1>2 DEF PageInv, PageTyped, Origins
  <2>5. step \notin Asking => Origin(n)' = retry.origin
    BY <1>1 DEF Origin
  <2>6. ASSUME NEW m \in Submissions
        PROVE  /\ context'[m] # None => phase'[context'[m].origin] \in HasCase
               /\ phase'[m] \in Asking \cup {"none"} => context'[m] = None
               /\ phase'[m] = "sections" => Origin(m)' = followed
               /\ phase'[m] = "elsewhere" => Origin(m)' # followed
    <3>1. CASE m = n
      BY <1>1, <2>3, <2>5, <3>1 DEF Asking
    <3>2. CASE m # n
      BY <1>1, <1>3, <2>2, <3>2 DEF PageInv, Origins
    <3> QED BY <3>1, <3>2
  <2> QED BY <2>3, <2>4, <2>6 DEF Origins
<1>7. /\ section[n] = 1 /\ failed[n] = {}
      /\ \A r \in Rows : r[1] = n => posts[r] = "ready" /\ saved[r] = 0
  BY DEF PageInv, Untouched
<1>8. Untouched'
  BY <1>1, <1>7 DEF PageInv, Untouched
<1>9. \A r \in Rows : IsDue(r) => IsDue(r)'
  <2> SUFFICES ASSUME NEW r \in Rows, IsDue(r) PROVE IsDue(r)'
    OBVIOUS
  <2>1. r[1] \in Submissions \ {n}
    BY RowParts DEF IsDue
  <2> QED BY <1>1, <1>3, <2>1 DEF IsDue
<1>10. PostedOnce'
  BY <1>9 DEF PageInv, PostedOnce
<1>11. \A r \in Rows : Counted(r)' <=> Counted(r)
  BY DEF Counted, Unread
<1>12. SavedOnce'
  BY <1>11 DEF PageInv, SavedOnce
<1>13. RetriesReported'
  <2>1. ASSUME NEW r \in Rows, saved[r] >= 1
        PROVE  Origin(r[1])' = followed /\ ShouldAttempt(r[1], SectionOf(r[2]))'
    <3>1. r[1] \in Submissions \ {n}
      BY <1>7, <2>1, RowParts
    <3> QED BY <1>3, <2>1, <3>1 DEF PageInv, RetriesReported
  <2>2. \A m \in Submissions : IsReported(context[m])' /\ IsReported(retry)'
    BY <1>1 DEF PageInv, RetriesReported, IsReported
  <2> QED BY <2>1, <2>2 DEF PageInv, RetriesReported, IsReported
<1>14. SavedAtAll'
  <2>1. \A d : InFile(d)' <=> InFile(d)
    BY DEF InFile
  <2>2. Covers(retry)' /\ \A m \in Submissions : Covers(context[m])'
    BY <1>1, <2>1 DEF PageInv, SavedAtAll, Covers
  <2>3. ASSUME NEW m \in Submissions, NEW d \in Drafts,
               \/ Passed(m, SectionOf(d))' /\ SectionOf(d) \notin failed'[m]
               \/ phase'[m] = "done" /\ Origin(m)' = followed
        PROVE  InFile(d)
    <3>1. m # n
      BY <1>1, <1>7, <2>3 DEF Passed, Asking
    <3>2. \/ Passed(m, SectionOf(d)) /\ SectionOf(d) \notin failed[m]
          \/ phase[m] = "done" /\ Origin(m) = followed
      BY <1>1, <1>3, <2>3, <3>1 DEF Passed
    <3> QED BY <3>2 DEF PageInv, SavedAtAll
  <2> QED BY <1>11, <2>1, <2>2, <2>3 DEF PageInv, SavedAtAll
<1>15. CasesInv'
  <2> SUFFICES ASSUME overlaps' = 0 PROVE CasesInv'
    BY DEF CasesInv
  <2>1. overlaps = 0 /\ \A m \in Submissions : phase[m] \notin Running
    BY DEF PageInv, CountsTyped
  <2>2. \A m \in Submissions : phase'[m] \in Running => m = n
    BY <1>1, <2>1
  <2>3. retry = None => cases <= lost[None]
    BY <2>1 DEF PageInv, CasesInv
  <2>4. cases <= 1 + lost[None]
    BY <2>1 DEF PageInv, CasesInv
  <2>5. (\E m \in Submissions : phase'[m] \in Asking) => retry = None
    BY <1>1, <2>1 DEF Asking, Running
  <2> QED BY <2>2, <2>3, <2>4, <2>5 DEF CasesInv
<1> QED BY <1>4, <1>5, <1>6, <1>8, <1>10, <1>12, <1>13, <1>14, <1>15 DEF PageInv

LEMMA SubmitsKeeps == ASSUME PageInv, Submit \/ RetrySubmit PROVE PageInv'
<1>1. PICK n \in Submissions : n = NextSubmission /\ phase[n] = "none"
  BY DEF Submit, RetrySubmit, Submits, NextSubmission, Unused
<1>2. /\ ~Left /\ context' = [context EXCEPT ![n] = retry]
      /\ overlaps' = IF \E m \in Submissions : phase[m] \in Running
                     THEN overlaps + 1 ELSE overlaps
      /\ UNCHANGED <<file, pc, req, retry, section, failed, posts, resent, followed, cases,
                     lost, saved, reported>>
  BY <1>1 DEF Submit, RetrySubmit, Submits, fileVars, rows, work, created
<1>3. CASE Submit
  <2>1. PICK step \in {"client", "case"} :
            /\ Submits(step) /\ calls' = [calls EXCEPT ![step] = NextSubmission]
    BY <1>3 DEF Submit
  <2>2. retry = None /\ phase' = [phase EXCEPT ![n] = step]
    BY <1>1, <1>3, <2>1 DEF Submit, Submits, GoOn
  <2>3. calls' \in [client : Submissions \cup {None}, case : Submissions \cup {None}]
    BY <1>1, <2>1 DEF PageInv, PageTyped
  <2>4. step \in Asking
    BY DEF Asking
  <2> QED BY <1>1, <1>2, <2>2, <2>3, <2>4, BeginKeeps DEF Asking
<1>4. CASE RetrySubmit
  <2> DEFINE step == IF retry.origin = followed THEN "sections" ELSE "elsewhere"
  <2>1. retry # None /\ phase' = [phase EXCEPT ![n] = step] /\ calls' = calls
    BY <1>1, <1>4 DEF RetrySubmit, Submits, GoOn
  <2>2. calls' \in [client : Submissions \cup {None}, case : Submissions \cup {None}]
    BY <2>1 DEF PageInv, PageTyped
  <2>3. CASE retry.origin = followed
    BY <1>1, <1>2, <2>1, <2>2, <2>3, BeginKeeps DEF Asking
  <2>4. CASE retry.origin # followed
    BY <1>1, <1>2, <2>1, <2>2, <2>4, BeginKeeps DEF Asking
  <2> QED BY <2>3, <2>4
<1> QED BY <1>3, <1>4

\* The client and the case are asked for.
LEMMA AskKeeps ==
    ASSUME PageInv, NEW n \in Submissions, phase[n] \in Asking,
           NEW step \in Asking \cup {"failed"}, phase' = [phase EXCEPT ![n] = step],
           calls' \in [client : Submissions \cup {None}, case : Submissions \cup {None}],
           UNCHANGED <<file, pc, req, context, retry, overlaps, section, failed, posts, resent,
                       followed, saved, reported>>,
           \/ UNCHANGED <<lost, cases>>
           \/ lost' = [lost EXCEPT ![None] = @ + 1] /\ cases' = cases + 1
    PROVE  PageInv'
<1>1. phase'[n] = step /\ \A m \in Submissions \ {n} : phase'[m] = phase[m]
  BY DEF PageInv, PageTyped
<1>2. \A m \in Submissions : phase[m] \in HasCase => m # n /\ phase'[m] = phase[m]
  BY <1>1 DEF HasCase, Asking
<1>3. \A m \in Submissions :
          Origin(m)' = Origin(m) /\ \A s : ShouldAttempt(m, s)' <=> ShouldAttempt(m, s)
  BY DEF Origin, ShouldAttempt
<1>4. PageTyped'
  <2>1. phase' \in [Submissions -> Asking \cup HasCase \cup {"none", "failed"}]
    BY DEF PageInv, PageTyped
  <2> QED BY <2>1 DEF PageInv, PageTyped
<1>5. CountsTyped' /\ (\A r \in Rows : lost'[r] = lost[r])
      /\ \/ lost'[None] = lost[None] /\ cases' = cases
         \/ lost'[None] = lost[None] + 1 /\ cases' = cases + 1
  BY NoneIsNoRow DEF PageInv, CountsTyped
<1>6. Origins'
  <2>1. \A c \in Context \cup {None} : c # None => c.origin \in Submissions
    BY DEF Context
  <2>2. \A m \in Submissions : context[m] # None => phase'[context[m].origin] \in HasCase
    BY <1>2, <2>1 DEF PageInv, PageTyped, Origins
  <2>3. retry # None => phase'[retry.origin] \in HasCase
    BY <1>2, <2>1 DEF PageInv, PageTyped, Origins
  <2>4. followed # None => phase'[followed] \in HasCase
    BY <1>2 DEF PageInv, PageTyped, Origins
  <2>5. context[n] = None
    BY DEF PageInv, Origins
  <2>6. \A m \in Submissions :
            /\ phase'[m] \in Asking \cup {"none"} => context[m] = None
            /\ phase'[m] = "sections" => Origin(m)' = followed
            /\ phase'[m] = "elsewhere" => Origin(m)' # followed
    BY <1>1, <1>3, <2>5 DEF PageInv, Origins, Asking
  <2> QED BY <2>2, <2>3, <2>4, <2>6 DEF Origins
<1>7. Untouched'
  BY <1>1 DEF PageInv, Untouched, Asking
<1>8. \A r \in Rows : IsDue(r) => IsDue(r)'
  <2> SUFFICES ASSUME NEW r \in Rows, IsDue(r) PROVE IsDue(r)'
    OBVIOUS
  <2>1. r[1] \in Submissions \ {n}
    BY RowParts DEF IsDue, Asking
  <2> QED BY <1>1, <1>3, <2>1 DEF IsDue
<1>9. PostedOnce'
  BY <1>8 DEF PageInv, PostedOnce
<1>10. \A r \in Rows : Counted(r)' <=> Counted(r)
  BY DEF Counted, Unread
<1>11. SavedOnce'
  BY <1>5, <1>10 DEF PageInv, SavedOnce
<1>12. RetriesReported'
  BY <1>3, RowParts DEF PageInv, RetriesReported, IsReported
<1>13. SavedAtAll'
  <2>1. \A d : InFile(d)' <=> InFile(d)
    BY DEF InFile
  <2>2. \A m \in Submissions : phase'[m] = "done" => phase[m] = "done"
    BY <1>1 DEF Asking
  <2> QED BY <1>3, <1>10, <2>1, <2>2 DEF PageInv, SavedAtAll, Covers, Passed
<1>14. CasesInv'
  <2> SUFFICES ASSUME overlaps = 0 PROVE CasesInv'
    BY DEF CasesInv
  <2>1. cases <= lost[None]
    BY DEF PageInv, CasesInv
  <2>2. cases' <= lost'[None] /\ cases' <= 1 + lost'[None]
    BY <1>5, <2>1 DEF PageInv, CountsTyped
  <2>3. \A m \in Submissions : phase'[m] \in Running => phase[m] \in Running
    BY <1>1 DEF Running, Asking
  <2>4. \A m, k \in Submissions : phase'[m] \in Running /\ phase'[k] \in Running => m = k
    BY <2>3 DEF PageInv, CasesInv
  <2> QED BY <2>2, <2>4 DEF CasesInv
<1> QED BY <1>4, <1>5, <1>6, <1>7, <1>9, <1>11, <1>12, <1>13, <1>14 DEF PageInv

LEMMA AnsweredTyped ==
    ASSUME PageTyped, NEW call \in {"client", "case"}, NEW n, Answered(call, n)
    PROVE  calls' \in [client : Submissions \cup {None}, case : Submissions \cup {None}]
BY DEF PageTyped, Answered

LEMMA AskingKeeps ==
    ASSUME PageInv, NEW n \in Submissions,
           ClientCreated(n) \/ CaseRequested(n) \/ CreationFails(n) \/ CaseAnswerLost(n)
    PROVE  PageInv'
<1>1. /\ phase[n] \in Asking
      /\ UNCHANGED <<file, pc, req, context, retry, overlaps, section, failed, posts, resent,
                     followed, saved, reported>>
      /\ \/ UNCHANGED <<lost, cases>>
         \/ lost' = [lost EXCEPT ![None] = @ + 1] /\ cases' = cases + 1
  BY DEF ClientCreated, CaseRequested, CreationFails, CaseAnswerLost, Asking, fileVars, rows,
     work, created, counters
<1>2. calls' \in [client : Submissions \cup {None}, case : Submissions \cup {None}]
  <2>1. PageTyped
    BY DEF PageInv
  <2>2. CASE ClientCreated(n) \/ CreationFails(n)
    BY <2>1, <2>2, AnsweredTyped DEF ClientCreated, CreationFails
  <2>3. CASE CaseRequested(n)
    BY <2>1, <2>3 DEF CaseRequested, PageTyped
  <2>4. CASE CaseAnswerLost(n)
    BY <2>1, <2>4, AnsweredTyped DEF CaseAnswerLost, PageTyped
  <2> QED BY <2>2, <2>3, <2>4
<1>3. \E step \in Asking \cup {"failed"} : phase' = [phase EXCEPT ![n] = step]
  <2>1. CASE phase' = phase
    <3>1. phase' = [phase EXCEPT ![n] = phase[n]]
      BY <2>1 DEF PageInv, PageTyped
    <3> QED BY <1>1, <3>1
  <2>2. CASE phase' # phase
    BY <2>2 DEF ClientCreated, CaseRequested, CreationFails, CaseAnswerLost, GoOn, Asking
  <2> QED BY <2>1, <2>2
<1>4. PICK step \in Asking \cup {"failed"} : phase' = [phase EXCEPT ![n] = step]
  BY <1>3
<1> QED BY <1>1, <1>2, <1>4, AskKeeps

\* Nothing is about a case that is still asked for.
LEMMA NotYetKnown ==
    ASSUME PageInv, NEW n \in Submissions, phase[n] \in Asking
    PROVE  /\ context[n] = None /\ Origin(n) = n /\ followed # n
           /\ \A m \in Submissions : phase[m] \in HasCase => m # n /\ Origin(m) # n
           /\ \A m \in Submissions : context[m] # None => context[m].origin # n
           /\ retry # None => retry.origin # n
<1>1. phase[n] \notin HasCase
  BY DEF Asking, HasCase
<1>2. context[n] = None /\ followed # n
  BY <1>1, NoneIsNoRow DEF PageInv, Origins
<1>3. /\ \A m \in Submissions : context[m] # None => context[m].origin # n
      /\ retry # None => retry.origin # n
  BY <1>1 DEF PageInv, Origins
<1> QED BY <1>1, <1>2, <1>3 DEF Origin

\* The case is there; it is the file or another one.
LEMMA CreatedKeeps ==
    ASSUME PageInv, NEW n \in Submissions, phase[n] = "case",
           NEW step \in {"sections", "elsewhere"}, phase' = [phase EXCEPT ![n] = step],
           cases' = cases + 1,
           calls' \in [client : Submissions \cup {None}, case : Submissions \cup {None}],
           UNCHANGED <<pc, req, context, retry, overlaps, section, failed, posts, resent, lost,
                       saved, reported>>,
           step = "sections" => followed = None /\ followed' = n /\ file' # None,
           step = "elsewhere" => UNCHANGED <<file, followed>>
    PROVE  PageInv'
<1>1. /\ phase'[n] = step /\ \A m \in Submissions \ {n} : phase'[m] = phase[m]
      /\ step \in HasCase
  BY DEF PageInv, PageTyped, HasCase
<1>2. \A m \in Submissions : phase[m] \in HasCase => phase'[m] \in HasCase
  BY <1>1 DEF HasCase
<1>3. \A m \in Submissions :
          Origin(m)' = Origin(m) /\ \A s : ShouldAttempt(m, s)' <=> ShouldAttempt(m, s)
  BY DEF Origin, ShouldAttempt
<1>4. /\ context[n] = None /\ Origin(n) = n /\ followed # n
      /\ \A m \in Submissions : phase[m] \in HasCase => m # n /\ Origin(m) # n
      /\ \A m \in Submissions : context[m] # None => context[m].origin # n
      /\ retry # None => retry.origin # n
  BY NotYetKnown DEF Asking
<1>5. /\ \A m \in Submissions : Origin(m) \in Submissions
      /\ \A c \in Context \cup {None} : c # None => c.origin \in Submissions
  <2>1. \A c \in Context \cup {None} : c # None => c.origin \in Submissions
    BY DEF Context
  <2> QED BY <2>1 DEF Origin, PageInv, PageTyped
<1>6. \A x \in Submissions : x = followed' /\ x # n => x = followed
  OBVIOUS
<1>7. PageTyped'
  <2>1. phase' \in [Submissions -> Asking \cup HasCase \cup {"none", "failed"}]
    BY <1>1 DEF PageInv, PageTyped
  <2>2. followed' \in Submissions \cup {None} /\ (followed' # None <=> file' # None)
    BY NoneIsNoRow DEF PageInv, PageTyped
  <2> QED BY <2>1, <2>2 DEF PageInv, PageTyped
<1>8. CountsTyped'
  BY DEF PageInv, CountsTyped
<1>9. Origins'
  <2>1. \A m \in Submissions : context[m] # None => phase'[context[m].origin] \in HasCase
    BY <1>2, <1>5 DEF PageInv, PageTyped, Origins
  <2>2. retry # None => phase'[retry.origin] \in HasCase
    BY <1>2, <1>5 DEF PageInv, PageTyped, Origins
  <2>3. followed' # None => phase'[followed'] \in HasCase
    BY <1>1, <1>2 DEF PageInv, PageTyped, Origins
  <2>4. ASSUME NEW m \in Submissions
        PROVE  /\ phase'[m] \in Asking \cup {"none"} => context[m] = None
               /\ phase'[m] = "sections" => Origin(m) = followed'
               /\ phase'[m] = "elsewhere" => Origin(m) # followed'
    <3>1. CASE m = n
      BY <1>1, <1>4, <3>1
    <3>2. CASE m # n
      <4>1. /\ phase[m] \in Asking \cup {"none"} => context[m] = None
            /\ phase[m] = "sections" => Origin(m) = followed
            /\ phase[m] = "elsewhere" => Origin(m) # followed
        BY DEF PageInv, Origins
      <4>2. phase[m] \in {"sections", "elsewhere"} => Origin(m) # n
        BY <1>4 DEF HasCase
      <4>3. phase[m] = "sections" => followed # None
        BY <1>5, <4>1, NoneIsNoRow
      <4> QED BY <1>1, <1>6, <3>2, <4>1, <4>2, <4>3
    <3> QED BY <3>1, <3>2
  <2> QED BY <1>3, <2>1, <2>2, <2>3, <2>4 DEF Origins
<1>10. Untouched'
  BY <1>1 DEF PageInv, Untouched
<1>11. \A r \in Rows : IsDue(r) => IsDue(r)'
  <2> SUFFICES ASSUME NEW r \in Rows, IsDue(r) PROVE IsDue(r)'
    OBVIOUS
  <2>1. r[1] \in Submissions \ {n}
    BY RowParts DEF IsDue
  <2> QED BY <1>1, <1>3, <2>1 DEF IsDue
<1>12. PostedOnce'
  BY <1>11 DEF PageInv, PostedOnce
<1>13. \A r \in Rows : Counted(r)' <=> Counted(r)
  BY DEF Counted, Unread
<1>14. SavedOnce'
  BY <1>13 DEF PageInv, SavedOnce
<1>15. RetriesReported'
  <2>1. ASSUME NEW r \in Rows, saved[r] >= 1 PROVE Origin(r[1]) = followed'
    <3>1. Origin(r[1]) = followed /\ Origin(r[1]) \in Submissions
      BY <1>5, <2>1, RowParts DEF PageInv, RetriesReported
    <3> QED BY <3>1, NoneIsNoRow
  <2>2. \A m \in Submissions : IsReported(context[m])'
    BY <1>4, <1>5, <1>6 DEF PageInv, PageTyped, RetriesReported, IsReported
  <2>3. IsReported(retry)'
    BY <1>4, <1>5, <1>6 DEF PageInv, PageTyped, RetriesReported, IsReported
  <2> QED BY <1>3, <2>1, <2>2, <2>3, RowParts DEF PageInv, RetriesReported
<1>16. SavedAtAll'
  <2>1. \A d : InFile(d)' <=> InFile(d)
    BY DEF InFile
  <2>2. \A m \in Submissions : Covers(context[m])'
    BY <1>4, <1>5, <1>6, <2>1 DEF PageInv, PageTyped, SavedAtAll, Covers
  <2>3. Covers(retry)'
    BY <1>4, <1>5, <1>6, <2>1 DEF PageInv, PageTyped, SavedAtAll, Covers
  <2>4. ASSUME NEW m \in Submissions, phase'[m] = "done", Origin(m)' = followed'
        PROVE  phase[m] = "done" /\ Origin(m) = followed
    <3>1. phase[m] = "done"
      BY <1>1, <2>4
    <3> QED BY <1>3, <1>4, <1>5, <1>6, <2>4, <3>1 DEF HasCase
  <2> QED BY <1>13, <2>1, <2>2, <2>3, <2>4 DEF PageInv, SavedAtAll, Passed
<1>17. CasesInv'
  <2> SUFFICES ASSUME overlaps = 0 PROVE CasesInv'
    BY DEF CasesInv
  <2>1. cases <= lost[None] /\ \A m \in Submissions : phase[m] \in Running => m = n
    BY DEF PageInv, CasesInv, Asking, Running
  <2>2. cases' <= 1 + lost[None]
    BY <2>1, NoneIsNoRow DEF PageInv, CountsTyped
  <2>3. \A m \in Submissions : phase'[m] \in Running => m = n
    BY <1>1, <2>1
  <2>4. phase'[n] \in Running /\ ~\E m \in Submissions : phase'[m] \in Asking
    BY <1>1, <2>3 DEF Running, Asking
  <2> QED BY <2>2, <2>3, <2>4 DEF CasesInv
<1> QED BY <1>7, <1>8, <1>9, <1>10, <1>12, <1>14, <1>15, <1>16, <1>17 DEF PageInv

LEMMA CaseCreatedKeeps ==
    ASSUME FileInv, PageInv, NEW n \in Submissions, CaseCreated(n) PROVE PageInv'
<1>1. /\ phase[n] = "case" /\ cases' = cases + 1 /\ Answered("case", n)
      /\ UNCHANGED <<context, retry, overlaps, section, failed, posts, resent, lost, saved,
                     reported>>
      /\ \/ CreateCase /\ GoOn(n, "sections") /\ followed' = n
         \/ GoOn(n, "elsewhere") /\ UNCHANGED <<fileVars, followed>>
  BY DEF CaseCreated, work, counters
<1>2. calls' \in [client : Submissions \cup {None}, case : Submissions \cup {None}]
  BY <1>1, AnsweredTyped DEF PageInv
<1>3. CASE CreateCase /\ GoOn(n, "sections") /\ followed' = n
  <2>1. file = None /\ file' = [status |-> "ACTIVE", deleted |-> FALSE] /\ UNCHANGED <<pc, req>>
    BY <1>3 DEF CreateCase
  <2>2. file' \in CaseRow
    BY <2>1 DEF CaseRow, Statuses
  <2>3. file' # None /\ followed = None
    BY <2>1, <2>2, CaseFileAssumption DEF PageInv, PageTyped
  <2> QED BY <1>1, <1>2, <1>3, <2>1, <2>3, CreatedKeeps DEF GoOn
<1>4. CASE GoOn(n, "elsewhere") /\ UNCHANGED <<fileVars, followed>>
  BY <1>1, <1>2, <1>4, CreatedKeeps DEF GoOn, fileVars, rows
<1> QED BY <1>1, <1>3, <1>4

-----------------------------------------------------------------------------
(***************************************************************************)
(* The rows.                                                               *)
(***************************************************************************)

\* What a submission is about stays while its rows are saved.
LEMMA FrontKept ==
    ASSUME PageInv,
           UNCHANGED <<phase, context, retry, overlaps, followed, cases, reported>>,
           lost'[None] = lost[None]
    PROVE  /\ Origins' /\ CasesInv'
           /\ \A n : Origin(n)' = Origin(n) /\ \A s : ShouldAttempt(n, s)' <=> ShouldAttempt(n, s)
           /\ \A n \in Submissions : IsReported(context[n])'
           /\ IsReported(retry)'
<1>1. \A n : Origin(n)' = Origin(n) /\ \A s : ShouldAttempt(n, s)' <=> ShouldAttempt(n, s)
  BY DEF Origin, ShouldAttempt
<1>2. Origins'
  BY <1>1 DEF PageInv, Origins
<1>3. CasesInv'
  BY DEF PageInv, CasesInv, Left
<1>4. IsReported(retry)' /\ \A n \in Submissions : IsReported(context[n])'
  BY DEF PageInv, RetriesReported, IsReported
<1> QED BY <1>1, <1>2, <1>3, <1>4

LEMMA PostRowKeeps ==
    ASSUME FileInv, PageInv, NEW n \in Submissions, PostRow(n) PROVE PageInv'
<1>1. PICK r \in Rows : r = NextRow(n) /\ r \in ToPost(n)
  <2>1. \E r \in Rows : r \in ToPost(n)
    BY RowsOfSection DEF PostRow, ToPost
  <2> QED BY <2>1 DEF NextRow
<1>2. PICK t \in Txs : t = Slot /\ pc[t] = "idle"
  BY DEF PostRow, Slot
<1>3. /\ phase[n] = "sections" /\ section[n] <= 4 /\ Begin(t, Post(r))
      /\ posts' = [posts EXCEPT ![r] = "posted"]
      /\ UNCHANGED <<phase, context, calls, retry, overlaps, section, failed, resent, followed,
                     cases, lost, saved, reported>>
  BY <1>1, <1>2, SectionsAre DEF PostRow, Saving, button, created, counters
<1>4. r[1] = n /\ posts[r] = "ready" /\ IsDue(r)
  <2>1. r \in RowsOf(n) /\ posts[r] = "ready"
    BY <1>1 DEF ToPost
  <2>2. section[n] \in 1 .. 4
    BY <1>3 DEF PageInv, PageTyped
  <2> QED BY <1>3, <2>1, <2>2, RowsOfSection DEF IsDue, Current
<1>5. /\ file' = file /\ pc'[t] = "wait" /\ req'[t].from = r
      /\ \A u \in Txs \ {t} : pc'[u] = pc[u] /\ req'[u] = req[u]
  BY <1>2, <1>3, PostIsRequest DEF Begin, GoTo, rows, FileInv, FileTypeOK
<1>6. posts'[r] = "posted" /\ \A q \in Rows \ {r} : posts'[q] = posts[q]
  BY <1>3 DEF PageInv, PageTyped
<1>7. /\ Origins' /\ CasesInv'
      /\ \A m : Origin(m)' = Origin(m) /\ \A s : ShouldAttempt(m, s)' <=> ShouldAttempt(m, s)
      /\ \A m \in Submissions : IsReported(context[m])'
      /\ IsReported(retry)'
  BY <1>3, FrontKept
<1>8. PageTyped'
  BY <1>3, <1>5 DEF PageInv, PageTyped
<1>9. CountsTyped'
  BY <1>3 DEF PageInv, CountsTyped
<1>10. Untouched'
  BY <1>3, <1>4, <1>6 DEF PageInv, Untouched
<1>11. \A q \in Rows : IsDue(q)' <=> IsDue(q)
  BY <1>3, <1>7 DEF IsDue
<1>12. PostedOnce'
  <2>1. \A u \in Txs \ {t} : pc[u] # "idle" /\ req[u].from \in Rows => req[u].from # r
    BY <1>4 DEF PageInv, PostedOnce
  <2>2. \A u \in Txs : pc'[u] # "idle" /\ req'[u].from \in Rows => posts'[req'[u].from] = "posted"
    BY <1>5, <1>6, <2>1 DEF PageInv, PostedOnce
  <2>3. ASSUME NEW u \in Txs, NEW v \in Txs, pc'[u] # "idle", pc'[v] # "idle",
               req'[u].from \in Rows, req'[v].from = req'[u].from
        PROVE  u = v
    BY <1>5, <2>1, <2>3 DEF PageInv, PostedOnce
  <2>4. \A q \in Rows : posts'[q] = "posted" => IsDue(q)'
    BY <1>4, <1>6, <1>11 DEF PageInv, PostedOnce
  <2> QED BY <2>2, <2>3, <2>4 DEF PostedOnce
<1>13. \A q \in Rows : Counted(q)' <=> Counted(q)
  <2>1. \A q \in Rows : Unread(q)' <=> Unread(q)
    BY <1>2, <1>5 DEF Unread
  <2> QED BY <1>4, <1>6, <2>1 DEF Counted
<1>14. SavedOnce'
  BY <1>3, <1>13 DEF PageInv, SavedOnce
<1>15. RetriesReported'
  BY <1>3, <1>7 DEF PageInv, RetriesReported
<1>16. SavedAtAll'
  <2>1. \A d : InFile(d)' <=> InFile(d)
    BY <1>3 DEF InFile
  <2> QED BY <1>3, <1>7, <1>13, <2>1 DEF PageInv, SavedAtAll, Covers, Passed
<1> QED BY <1>7, <1>8, <1>9, <1>10, <1>12, <1>14, <1>15, <1>16 DEF PageInv

\* A row is answered: its request is through, and nothing else is.
RowTaken(t, r) ==
    /\ r \in Rows /\ req[t].from = r /\ pc[t] \in {"saved", "refused"}
    /\ pc'[t] = "idle"
    /\ \A u \in Txs \ {t} : pc'[u] = pc[u] /\ req'[u] = req[u]
    /\ \A q \in Rows \ {r} : posts'[q] = posts[q]

LEMMA RowTakenKeeps ==
    ASSUME PageInv, NEW t \in Txs, NEW r, RowTaken(t, r), posts'[r] # "posted",
           UNCHANGED <<phase, context, section, failed, saved>>
    PROVE  /\ PostedOnce' /\ Untouched'
           /\ \A q \in Rows \ {r} : Counted(q)' <=> Counted(q)
           /\ ~Unread(r)'
           /\ pc[t] = "saved" => Counted(r)
           /\ pc[t] = "refused" => ~Counted(r)
           /\ phase[r[1]] = "sections"
<1>1. \A u \in Txs \ {t} : pc[u] # "idle" => req[u].from # r
  BY DEF RowTaken, PageInv, PostedOnce
<1>2. posts[r] = "posted" /\ IsDue(r) /\ phase[r[1]] = "sections"
  BY DEF RowTaken, PageInv, PostedOnce, IsDue
<1>3. \A u \in Txs : pc'[u] # "idle" => /\ u # t /\ pc[u] # "idle" /\ req'[u] = req[u]
                                        /\ req[u].from # r
  BY <1>1 DEF RowTaken
<1>4. PostedOnce'
  <2>1. \A u \in Txs : pc'[u] # "idle" /\ req'[u].from \in Rows => posts'[req'[u].from] = "posted"
    BY <1>3 DEF RowTaken, PageInv, PostedOnce
  <2>2. ASSUME NEW u \in Txs, NEW v \in Txs, pc'[u] # "idle", pc'[v] # "idle",
               req'[u].from \in Rows, req'[v].from = req'[u].from
        PROVE  u = v
    BY <1>3, <2>2 DEF PageInv, PostedOnce
  <2>3. \A q \in Rows : IsDue(q)' <=> IsDue(q)
    BY DEF IsDue, ShouldAttempt
  <2>4. \A q \in Rows : posts'[q] = "posted" => IsDue(q)'
    BY <2>3 DEF RowTaken, PageInv, PostedOnce
  <2> QED BY <2>1, <2>2, <2>4 DEF PostedOnce
<1>5. Untouched'
  BY <1>2 DEF RowTaken, PageInv, Untouched
<1>6. ~Unread(r)'
  BY <1>3 DEF RowTaken, Unread
<1>7. pc[t] = "saved" => Counted(r)
  BY DEF RowTaken, Counted, Unread
<1>8. pc[t] = "refused" => ~Counted(r)
  BY <1>1, <1>2 DEF Counted, Unread
<1>9. \A q \in Rows \ {r} : Counted(q)' <=> Counted(q)
  <2>1. \A q \in Rows \ {r} : Unread(q)' <=> Unread(q)
    BY DEF RowTaken, Unread
  <2> QED BY <2>1 DEF RowTaken, Counted
<1> QED BY <1>2, <1>4, <1>5, <1>6, <1>7, <1>8, <1>9

\* What an answered row leaves to show.
LEMMA AnsweredKeeps ==
    ASSUME PageInv, NEW t \in Txs, NEW r, RowTaken(t, r),
           posts'[r] \in {"ready", "saved", "refused"},
           posts' \in [Rows -> {"ready", "posted", "saved", "refused"}], resent' \subseteq Rows,
           UNCHANGED <<file, phase, context, calls, retry, overlaps, section, failed, followed,
                       cases, saved, reported>>,
           lost' \in [Rows \cup {None} -> Nat], lost'[None] = lost[None],
           \A q \in Rows \ {r} : lost'[q] = lost[q],
           \/ lost'[r] = lost[r] /\ posts'[r] = pc[t]
           \/ lost'[r] = lost[r] + 1 /\ posts'[r] # "saved"
    PROVE  PageInv'
<1>1. r \in Rows /\ pc[t] \in {"saved", "refused"}
  BY DEF RowTaken
<1>2. /\ PostedOnce' /\ Untouched'
      /\ \A q \in Rows \ {r} : Counted(q)' <=> Counted(q)
      /\ ~Unread(r)'
      /\ pc[t] = "saved" => Counted(r)
      /\ pc[t] = "refused" => ~Counted(r)
  BY RowTakenKeeps
<1>3. /\ Origins' /\ CasesInv'
      /\ \A m : Origin(m)' = Origin(m) /\ \A s : ShouldAttempt(m, s)' <=> ShouldAttempt(m, s)
      /\ \A m \in Submissions : IsReported(context[m])'
      /\ IsReported(retry)'
  BY FrontKept
<1>4. Counted(r)' <=> posts'[r] = "saved"
  BY <1>2 DEF Counted
<1>5. Counted(r)' => Counted(r) /\ lost'[r] = lost[r]
  BY <1>2, <1>4, SectionsAre DEF PageInv, CountsTyped
<1>6. PageTyped'
  BY DEF PageInv, PageTyped
<1>7. CountsTyped'
  BY DEF PageInv, CountsTyped
<1>8. SavedOnce'
  <2>1. saved[r] \in Nat /\ lost[r] \in Nat /\ lost'[r] \in Nat
    BY <1>1 DEF PageInv, CountsTyped
  <2>2. saved[r] <= 1 + lost[r] /\ (~Counted(r) => saved[r] <= lost[r])
    BY <1>1 DEF PageInv, SavedOnce
  <2>3. saved[r] <= 1 + lost'[r]
    BY <2>1, <2>2
  <2>4. ~Counted(r)' => saved[r] <= lost'[r]
    BY <1>1, <1>2, <1>4, <2>1, <2>2
  <2> QED BY <1>2, <2>3, <2>4 DEF PageInv, SavedOnce
<1>9. RetriesReported'
  BY <1>3 DEF PageInv, RetriesReported
<1>10. SavedAtAll'
  <2>1. \A d : InFile(d)' <=> InFile(d)
    BY DEF InFile
  <2>2. \A q \in Rows : Counted(q)' => saved[q] >= 1
    BY <1>2, <1>5 DEF PageInv, SavedAtAll
  <2> QED BY <1>3, <2>1, <2>2 DEF PageInv, SavedAtAll, Covers, Passed
<1> QED BY <1>2, <1>3, <1>6, <1>7, <1>8, <1>9, <1>10 DEF PageInv

LEMMA RowSettledKeeps == ASSUME FileInv, PageInv, NEW t \in Txs, RowSettled(t) PROVE PageInv'
<1>1. PICK r \in Rows : r = req[t].from
  BY DEF RowSettled
<1>2. /\ Take(t) /\ posts' = [posts EXCEPT ![r] = pc[t]] /\ UNCHANGED file
      /\ UNCHANGED <<phase, context, calls, retry, overlaps, section, failed, resent, followed,
                     cases, lost, saved, reported>>
  BY <1>1 DEF RowSettled, Take, rows, button, created, counters
<1>3. pc[t] \in {"saved", "refused"} /\ posts'[r] = pc[t]
  BY <1>2 DEF Take, PageInv, PageTyped
<1>4. posts' \in [Rows -> {"ready", "posted", "saved", "refused"}]
  BY <1>2, <1>3 DEF PageInv, PageTyped
<1>5. RowTaken(t, r)
  BY <1>1, <1>2 DEF RowTaken, Take, GoTo, FileInv, FileTypeOK, PageInv, PageTyped
<1>6. lost' \in [Rows \cup {None} -> Nat] /\ resent' \subseteq Rows
  BY <1>2 DEF PageInv, PageTyped, CountsTyped
<1> QED BY <1>2, <1>3, <1>4, <1>5, <1>6, AnsweredKeeps

LEMMA RowAnswerLostKeeps ==
    ASSUME FileInv, PageInv, NEW t \in Txs, RowAnswerLost(t) PROVE PageInv'
<1>1. PICK r \in Rows : r = req[t].from
  BY DEF RowAnswerLost
<1>2. /\ Take(t) /\ lost' = [lost EXCEPT ![r] = @ + 1] /\ UNCHANGED file
      /\ UNCHANGED <<phase, context, calls, retry, overlaps, section, failed, followed, cases,
                     saved, reported>>
  BY <1>1 DEF RowAnswerLost, Take, rows, button, created
<1>3. \/ posts' = [posts EXCEPT ![r] = "refused"] /\ UNCHANGED resent
      \/ posts' = [posts EXCEPT ![r] = "ready"] /\ resent' = resent \cup {r}
  BY <1>1 DEF RowAnswerLost
<1>4. posts'[r] \in {"refused", "ready"} /\ resent' \subseteq Rows
  BY <1>3 DEF PageInv, PageTyped
<1>5. posts' \in [Rows -> {"ready", "posted", "saved", "refused"}]
  BY <1>3 DEF PageInv, PageTyped
<1>6. RowTaken(t, r)
  BY <1>1, <1>2, <1>3 DEF RowTaken, Take, GoTo, FileInv, FileTypeOK, PageInv, PageTyped
<1>7. /\ lost' \in [Rows \cup {None} -> Nat] /\ lost'[r] = lost[r] + 1
      /\ lost'[None] = lost[None] /\ \A q \in Rows \ {r} : lost'[q] = lost[q]
  BY <1>2, NoneIsNoRow DEF PageInv, CountsTyped
<1> QED BY <1>2, <1>4, <1>5, <1>6, <1>7, AnsweredKeeps

LEMMA SectionSettledKeeps ==
    ASSUME PageInv, NEW n \in Submissions, SectionSettled(n) PROVE PageInv'
<1>1. /\ phase[n] = "sections" /\ section[n] <= 4 /\ section' = [section EXCEPT ![n] = @ + 1]
      /\ \A r \in RowsOf(n) : posts[r] \in {"saved", "refused"}
      /\ failed' = IF \E r \in RowsOf(n) : posts[r] = "refused"
                   THEN [failed EXCEPT ![n] = @ \cup {Current(n)}] ELSE failed
      /\ UNCHANGED <<file, pc, req, phase, context, calls, retry, overlaps, posts, resent,
                     followed, cases, lost, saved, reported>>
  BY SectionsAre DEF SectionSettled, Saving, button, created, counters, fileVars, rows
<1>2. section[n] \in 1 .. 4 /\ Current(n) \in SectionNames
  BY <1>1, SectionsAre DEF PageInv, PageTyped, Current
<1>3. section'[n] = section[n] + 1 /\ \A m \in Submissions \ {n} : section'[m] = section[m]
  BY <1>1 DEF PageInv, PageTyped
<1>4. /\ failed[n] \subseteq failed'[n]
      /\ (\E r \in RowsOf(n) : posts[r] = "refused") => Current(n) \in failed'[n]
      /\ \A m \in Submissions \ {n} : failed'[m] = failed[m]
  BY <1>1 DEF PageInv, PageTyped
<1>5. /\ Origins' /\ CasesInv'
      /\ \A m : Origin(m)' = Origin(m) /\ \A s : ShouldAttempt(m, s)' <=> ShouldAttempt(m, s)
      /\ \A m \in Submissions : IsReported(context[m])'
      /\ IsReported(retry)'
  BY <1>1, FrontKept
<1>6. PageTyped'
  <2>1. section' \in [Submissions -> 1 .. 5]
    BY <1>1, <1>2 DEF PageInv, PageTyped
  <2>2. failed' \in [Submissions -> SUBSET SectionNames]
    BY <1>1, <1>2 DEF PageInv, PageTyped
  <2> QED BY <1>1, <2>1, <2>2 DEF PageInv, PageTyped
<1>7. CountsTyped'
  BY <1>1 DEF PageInv, CountsTyped
<1>8. Untouched'
  BY <1>1, <1>3, <1>4 DEF PageInv, Untouched
<1>9. \A r \in Rows : posts[r] = "posted" => r[1] # n
  <2> SUFFICES ASSUME NEW r \in Rows, posts[r] = "posted", r[1] = n PROVE FALSE
    OBVIOUS
  <2>1. IsDue(r)
    BY DEF PageInv, PostedOnce
  <2>2. r \in RowsOf(n)
    BY <2>1, RowsOfSection DEF IsDue, Current
  <2> QED BY <1>1, <2>2
<1>10. PostedOnce'
  <2>1. ASSUME NEW r \in Rows, posts[r] = "posted" PROVE IsDue(r)'
    <3>1. IsDue(r) /\ r[1] \in Submissions \ {n}
      BY <1>9, <2>1, RowParts DEF PageInv, PostedOnce
    <3> QED BY <1>1, <1>3, <1>5, <3>1 DEF IsDue
  <2> QED BY <1>1, <2>1 DEF PageInv, PostedOnce
<1>11. \A r \in Rows : Counted(r)' <=> Counted(r)
  BY <1>1 DEF Counted, Unread
<1>12. SavedOnce'
  BY <1>1, <1>11 DEF PageInv, SavedOnce
<1>13. RetriesReported'
  BY <1>1, <1>5 DEF PageInv, RetriesReported
<1>14. SavedAtAll'
  <2>1. \A d : InFile(d)' <=> InFile(d)
    BY <1>1 DEF InFile
  <2>2. ASSUME NEW m \in Submissions, NEW d \in Drafts, Passed(m, SectionOf(d))',
               SectionOf(d) \notin failed'[m]
        PROVE  InFile(d)
    <3>1. CASE m # n
      BY <1>3, <1>4, <2>2, <3>1 DEF PageInv, SavedAtAll, Passed
    <3>2. CASE m = n
      <4>1. PICK i \in 1 .. 4 : i < section[n] + 1 /\ Sections[i] = SectionOf(d)
        BY <1>3, <2>2, <3>2 DEF Passed
      <4>2. CASE i < section[n]
        BY <1>4, <2>2, <3>2, <4>1, <4>2 DEF PageInv, SavedAtAll, Passed
      <4>3. CASE i = section[n]
        <5>1. SectionOf(d) = Current(n)
          BY <4>1, <4>3 DEF Current
        <5>2. CASE ShouldAttempt(n, Current(n))
          <6>1. <<n, d>> \in Rows /\ <<n, d>>[1] = n /\ <<n, d>>[2] = d
            BY DEF Rows
          <6>2. <<n, d>> \in RowsOf(n)
            BY <5>1, <5>2, <6>1, RowsOfSection
          <6>3. posts[<<n, d>>] = "saved"
            BY <1>1, <1>4, <2>2, <3>2, <5>1, <6>2
          <6>4. saved[<<n, d>>] >= 1
            BY <6>1, <6>3 DEF PageInv, SavedAtAll, Counted
          <6> QED BY <6>1, <6>4 DEF InFile
        <5>3. CASE ~ShouldAttempt(n, Current(n))
          <6>1. /\ context[n] # None /\ SectionOf(d) \notin context[n].sections
                /\ context[n].origin = followed
            BY <1>1, <5>1, <5>3 DEF ShouldAttempt, PageInv, Origins, Origin
          <6> QED BY <6>1 DEF PageInv, SavedAtAll, Covers
        <5> QED BY <5>2, <5>3
      <4> QED BY <1>2, <4>1, <4>2, <4>3
    <3> QED BY <3>1, <3>2
  <2>3. \A m \in Submissions : Covers(context[m])' /\ Covers(retry)'
    BY <1>1, <2>1 DEF PageInv, SavedAtAll, Covers
  <2> QED BY <1>1, <1>5, <1>11, <2>1, <2>2, <2>3 DEF PageInv, SavedAtAll, Covers
<1> QED BY <1>5, <1>6, <1>7, <1>8, <1>10, <1>12, <1>13, <1>14 DEF PageInv

-----------------------------------------------------------------------------
(***************************************************************************)
(* The end of a submission.                                                *)
(***************************************************************************)

\* It goes to the case, or stays and keeps a context that leaves out only what is saved.
LEMMA EndKeeps ==
    ASSUME PageInv, NEW n \in Submissions, phase[n] \in {"sections", "elsewhere"},
           phase[n] = "sections" => section[n] > 4,
           NEW step \in {"done", "issues"}, phase' = [phase EXCEPT ![n] = step],
           retry' \in Context \cup {None}, step = "issues" <=> retry' # None,
           retry' # None => retry'.origin = Origin(n),
           retry' # None /\ Origin(n) = followed =>
               /\ retry'.sections \subseteq reported'
               /\ \A d \in Drafts : SectionOf(d) \notin retry'.sections => InFile(d),
           step = "done" /\ Origin(n) = followed => \A d \in Drafts : InFile(d),
           reported \subseteq reported',
           UNCHANGED <<file, pc, req, context, calls, overlaps, section, failed, posts, resent,
                       followed, cases, lost, saved>>
    PROVE  PageInv'
<1>1. phase'[n] = step /\ \A m \in Submissions \ {n} : phase'[m] = phase[m]
  BY DEF PageInv, PageTyped
<1>2. \A m \in Submissions : phase[m] \in HasCase => phase'[m] \in HasCase
  BY <1>1 DEF HasCase
<1>3. \A m : Origin(m)' = Origin(m) /\ \A s : ShouldAttempt(m, s)' <=> ShouldAttempt(m, s)
  BY DEF Origin, ShouldAttempt
<1>4. PageTyped'
  <2>1. phase' \in [Submissions -> Asking \cup HasCase \cup {"none", "failed"}]
    BY DEF PageInv, PageTyped, HasCase
  <2> QED BY <2>1 DEF PageInv, PageTyped
<1>5. CountsTyped'
  BY DEF PageInv, CountsTyped
<1>6. Origins'
  <2>1. \A c \in Context \cup {None} : c # None => c.origin \in Submissions
    BY DEF Context
  <2>2. \A m \in Submissions : context[m] # None => phase'[context[m].origin] \in HasCase
    BY <1>2, <2>1 DEF PageInv, PageTyped, Origins
  <2>3. phase'[n] \in HasCase
    BY <1>1 DEF HasCase
  <2>4. retry' # None => phase'[retry'.origin] \in HasCase
    BY <2>2, <2>3 DEF Origin
  <2>5. followed # None => phase'[followed] \in HasCase
    BY <1>2 DEF PageInv, PageTyped, Origins
  <2>6. \A m \in Submissions :
            /\ phase'[m] \in Asking \cup {"none"} => context[m] = None
            /\ phase'[m] = "sections" => Origin(m)' = followed
            /\ phase'[m] = "elsewhere" => Origin(m)' # followed
    BY <1>1, <1>3 DEF PageInv, Origins, Asking
  <2> QED BY <2>2, <2>4, <2>5, <2>6 DEF Origins
<1>7. Untouched'
  BY <1>1 DEF PageInv, Untouched
<1>8. \A r \in Rows : IsDue(r) => IsDue(r)'
  <2> SUFFICES ASSUME NEW r \in Rows, IsDue(r) PROVE IsDue(r)'
    OBVIOUS
  <2>1. r[1] \in Submissions \ {n}
    BY RowParts DEF IsDue
  <2> QED BY <1>1, <1>3, <2>1 DEF IsDue
<1>9. PostedOnce'
  BY <1>8 DEF PageInv, PostedOnce
<1>10. \A r \in Rows : Counted(r)' <=> Counted(r)
  BY DEF Counted, Unread
<1>11. SavedOnce'
  BY <1>10 DEF PageInv, SavedOnce
<1>12. RetriesReported'
  <2>1. \A m \in Submissions : IsReported(context[m])'
    BY DEF PageInv, RetriesReported, IsReported
  <2>2. IsReported(retry)'
    BY DEF IsReported
  <2> QED BY <1>3, <2>1, <2>2 DEF PageInv, RetriesReported
<1>13. SavedAtAll'
  <2>1. \A d : InFile(d)' <=> InFile(d)
    BY DEF InFile
  <2>2. \A m \in Submissions : Covers(context[m])'
    BY <2>1 DEF PageInv, SavedAtAll, Covers
  <2>3. Covers(retry)'
    BY <2>1 DEF Covers
  <2>4. ASSUME NEW m \in Submissions, NEW d \in Drafts,
               \/ Passed(m, SectionOf(d))' /\ SectionOf(d) \notin failed[m]
               \/ phase'[m] = "done" /\ Origin(m) = followed
        PROVE  InFile(d)
    <3>1. CASE Passed(m, SectionOf(d))' /\ SectionOf(d) \notin failed[m]
      BY <3>1 DEF PageInv, SavedAtAll, Passed
    <3>2. CASE phase'[m] = "done" /\ Origin(m) = followed
      BY <1>1, <3>2 DEF PageInv, SavedAtAll
    <3> QED BY <2>4, <3>1, <3>2
  <2> QED BY <1>3, <1>10, <2>1, <2>2, <2>3, <2>4 DEF PageInv, SavedAtAll
<1>14. CasesInv'
  <2> SUFFICES ASSUME overlaps = 0 PROVE CasesInv'
    BY DEF CasesInv
  <2>1. \A m \in Submissions : phase'[m] \notin Running
    BY <1>1 DEF PageInv, CasesInv, Running
  <2>2. retry' = None => Left'
    BY <1>1 DEF Left
  <2>3. cases <= 1 + lost[None]
    BY DEF PageInv, CasesInv
  <2> QED BY <2>1, <2>2, <2>3 DEF CasesInv, Asking, Running
<1> QED BY <1>4, <1>5, <1>6, <1>7, <1>9, <1>11, <1>12, <1>13, <1>14 DEF PageInv

\* Once all sections are through, what none of them reported is saved.
LEMMA ThroughAllSections ==
    ASSUME PageInv, NEW n \in Submissions, section[n] > 4, NEW d \in Drafts,
           SectionOf(d) \notin failed[n]
    PROVE  InFile(d)
<1>1. section[n] = 5
  BY DEF PageInv, PageTyped
<1>2. Passed(n, SectionOf(d))
  BY <1>1, SectionsAre, SectionOfRow DEF Passed
<1> QED BY <1>2 DEF PageInv, SavedAtAll

\* The case a submission saves its sections in is that of a submission.
LEMMA OriginTyped ==
    ASSUME PageInv, NEW n \in Submissions
    PROVE  Origin(n) \in Submissions
<1>1. \A c \in Context : c.origin \in Submissions
  BY DEF Context
<1> QED BY <1>1 DEF Origin, PageInv, PageTyped

LEMMA AllSavedKeeps == ASSUME PageInv, NEW n \in Submissions, AllSaved(n) PROVE PageInv'
<1>1. /\ phase[n] = "sections" /\ section[n] > 4 /\ failed[n] = {}
      /\ phase' = [phase EXCEPT ![n] = "done"] /\ retry' = None
      /\ UNCHANGED <<file, pc, req, context, calls, overlaps, section, failed, posts, resent,
                     followed, cases, lost, saved, reported>>
  BY SectionsAre DEF AllSaved, Through, GoOn, work, created, counters, fileVars, rows
<1>2. \A d \in Drafts : InFile(d)
  BY <1>1, ThroughAllSections
<1> QED BY <1>1, <1>2, EndKeeps

LEMMA SavedWithIssuesKeeps ==
    ASSUME PageInv, NEW n \in Submissions, SavedWithIssues(n) PROVE PageInv'
<1>1. /\ phase[n] = "sections" /\ section[n] > 4
      /\ phase' = [phase EXCEPT ![n] = "issues"]
      /\ retry' = [origin |-> Origin(n), sections |-> failed[n]]
      /\ reported' = reported \cup failed[n]
      /\ UNCHANGED <<file, pc, req, context, calls, overlaps, section, failed, posts, resent,
                     followed, cases, lost, saved>>
  BY SectionsAre DEF SavedWithIssues, Through, GoOn, work, created, fileVars, rows
<1>2. \A d \in Drafts : SectionOf(d) \notin failed[n] => InFile(d)
  BY <1>1, ThroughAllSections
<1>3. retry' \in Context
  BY <1>1, OriginTyped DEF Context, PageInv, PageTyped
<1>4. retry'.origin = Origin(n) /\ retry'.sections = failed[n]
  BY <1>1
<1>5. retry' # None /\ reported \subseteq reported' /\ failed[n] \subseteq reported'
  BY <1>1, <1>3, NoneIsNoRow
<1> QED BY <1>1, <1>2, <1>3, <1>4, <1>5, EndKeeps

LEMMA EndsElsewhereKeeps ==
    ASSUME PageInv, NEW n \in Submissions, EndsElsewhere(n) PROVE PageInv'
<1>1. /\ phase[n] = "elsewhere"
      /\ UNCHANGED <<file, pc, req, context, calls, overlaps, section, failed, posts, resent,
                     followed, cases, lost, saved, reported>>
  BY DEF EndsElsewhere, work, created, counters, fileVars, rows
<1>2. Origin(n) # followed
  BY <1>1 DEF PageInv, Origins
<1>3. PICK c : c = [origin |-> Origin(n), sections |-> {}]
  OBVIOUS
<1>4. c \in Context /\ c.origin = Origin(n) /\ c # None
  BY <1>3, OriginTyped, NoneIsNoRow DEF Context
<1>5. CASE phase' = [phase EXCEPT ![n] = "done"] /\ retry' = None
  BY <1>1, <1>2, <1>5, EndKeeps
<1>6. CASE phase' = [phase EXCEPT ![n] = "issues"] /\ retry' = c
  BY <1>1, <1>2, <1>4, <1>6, EndKeeps
<1> QED BY <1>3, <1>5, <1>6 DEF EndsElsewhere, GoOn

-----------------------------------------------------------------------------
(***************************************************************************)
(* The steps of the server and of the other user.                          *)
(***************************************************************************)

\* What is under way of the rows of the page is the same, and so is the page.
LEMMA PageKept ==
    ASSUME PageInv, file' = None <=> file = None,
           UNCHANGED <<phase, button, work, created, lost, saved, reported>>,
           \A t \in Txs :
               /\ pc'[t] # "idle" /\ req'[t].from \in Rows =>
                      pc[t] # "idle" /\ req'[t].from = req[t].from
               /\ req'[t].from \in Rows \/ req[t].from \in Rows =>
                      (pc'[t] = "saved" /\ req'[t].from = req[t].from <=> pc[t] = "saved")
    PROVE  PageInv'
<1>1. UNCHANGED <<phase, context, calls, retry, overlaps, section, failed, posts, resent,
                  followed, cases, lost, saved, reported>>
  BY DEF button, work, created
<1>2. /\ Origins' /\ CasesInv'
      /\ \A m : Origin(m)' = Origin(m) /\ \A s : ShouldAttempt(m, s)' <=> ShouldAttempt(m, s)
      /\ \A m \in Submissions : IsReported(context[m])'
      /\ IsReported(retry)'
  BY <1>1, FrontKept
<1>3. PageTyped' /\ CountsTyped'
  BY <1>1 DEF PageInv, PageTyped, CountsTyped
<1>4. Untouched'
  BY <1>1 DEF PageInv, Untouched
<1>5. \A r \in Rows : IsDue(r)' <=> IsDue(r)
  BY <1>1, <1>2 DEF IsDue
<1>6. PostedOnce'
  BY <1>1, <1>5 DEF PageInv, PostedOnce
<1>7. \A r \in Rows : Unread(r)' <=> Unread(r)
  BY DEF Unread
<1>8. \A r \in Rows : Counted(r)' <=> Counted(r)
  BY <1>1, <1>7 DEF Counted
<1>9. SavedOnce'
  BY <1>1, <1>8 DEF PageInv, SavedOnce
<1>10. RetriesReported'
  BY <1>1, <1>2 DEF PageInv, RetriesReported
<1>11. SavedAtAll'
  <2>1. \A d : InFile(d)' <=> InFile(d)
    BY <1>1 DEF InFile
  <2> QED BY <1>1, <1>2, <1>8, <2>1 DEF PageInv, SavedAtAll, Covers, Passed
<1> QED BY <1>2, <1>3, <1>4, <1>6, <1>9, <1>10, <1>11 DEF PageInv

\* A statement is not what saves a row, nor what answers its request.
LEMMA StatementSavesNothing ==
    ASSUME FileInv, NEW t \in Txs, Statement(t)
    PROVE  /\ pc[t] \notin {"idle", "saved"} /\ pc'[t] \notin {"idle", "saved"}
           /\ \A u \in Txs \ {t} : pc'[u] = pc[u]
           /\ UNCHANGED <<file, req>>
<1>1. pc[t] \in {"wait"} \cup Open
  BY DEF Statement, Acquire, Check, CheckFails, Write, WriteFails, Notify, Answer, CaseIsGone,
     Rollback, MayEnd, Open
<1>2. \E step \in {"refused"} \cup Open : GoTo(t, step)
  <2>1. StepAfterWrite(req[t]) \in Open
    BY DEF StepAfterWrite, Open
  <2>2. CASE Acquire(t) \/ Check(t) \/ Write(t) \/ Notify(t) \/ Answer(t)
    BY <2>1, <2>2 DEF Acquire, Check, Write, Notify, Answer, Open
  <2>3. CASE CheckFails(t) \/ WriteFails(t) \/ CaseIsGone(t) \/ Rollback(t)
    BY <2>3 DEF CheckFails, WriteFails, CaseIsGone, Rollback, Refuse
  <2> QED BY <2>2, <2>3 DEF Statement
<1>3. UNCHANGED <<rows, req>>
  BY StatementTyped
<1> QED BY <1>1, <1>2, <1>3 DEF Open, GoTo, FileInv, FileTypeOK, rows

LEMMA ServerStepKeeps == ASSUME FileInv, PageInv, NEW t \in Txs, ServerStep(t) PROVE PageInv'
<1>1. Statement(t) /\ UNCHANGED <<phase, button, work, created, lost, saved, reported>>
  BY DEF ServerStep, pageVars, counters
<1> QED BY <1>1, StatementSavesNothing, PageKept

LEMMA OtherTakesKeeps == ASSUME FileInv, PageInv, NEW t \in Txs, OtherTakes(t) PROVE PageInv'
<1>1. /\ req[t].from \in Others /\ Take(t)
      /\ UNCHANGED <<phase, button, work, created, lost, saved, reported>>
  BY DEF OtherTakes, pageVars, counters
<1>2. /\ pc'[t] = "idle" /\ req'[t].from = None /\ UNCHANGED file
      /\ \A u \in Txs \ {t} : pc'[u] = pc[u] /\ req'[u] = req[u]
  BY <1>1 DEF Take, GoTo, FileInv, FileTypeOK, rows, NoRequest
<1>3. req[t].from \notin Rows /\ None \notin Rows
  BY <1>1, CaseIntakeAssumption, NoneIsNoRow
<1> QED BY <1>1, <1>2, <1>3, PageKept

LEMMA OtherBeginsKeeps == ASSUME FileInv, PageInv, OtherBegins PROVE PageInv'
<1>1. /\ \E from \in Others : \E r \in OtherRequest(from) : Begin(Slot, r)
      /\ UNCHANGED <<phase, button, work, created, lost, saved, reported>>
  BY DEF OtherBegins
<1>2. PICK t \in Txs : t = Slot /\ pc[t] = "idle"
  BY DEF OtherBegins, Slot
<1>3. PICK from \in Others : \E r \in OtherRequest(from) : Begin(t, r)
  BY <1>1, <1>2
<1>4. PICK r \in OtherRequest(from) : Begin(t, r)
  BY <1>3
<1>5. r.from \notin Rows
  BY CaseIntakeAssumption DEF OtherRequest
<1>6. /\ pc'[t] = "wait" /\ req'[t].from \notin Rows /\ UNCHANGED file
      /\ \A u \in Txs \ {t} : pc'[u] = pc[u] /\ req'[u] = req[u]
  BY <1>4, <1>5 DEF Begin, GoTo, FileInv, FileTypeOK, rows
<1> QED BY <1>1, <1>2, <1>6, PageKept

\* A row of the page is saved while its section is.
LEMMA RowSavedKeeps ==
    ASSUME PageInv, NEW t \in Txs, NEW r \in Rows, pc[t] = "commit", req[t].from = r,
           pc'[t] = "saved", \A u \in Txs \ {t} : pc'[u] = pc[u], UNCHANGED req,
           file # None, file' # None, saved' = [saved EXCEPT ![r] = @ + 1],
           UNCHANGED <<phase, button, work, created, lost, reported>>
    PROVE  PageInv'
<1>1. UNCHANGED <<phase, context, calls, retry, overlaps, section, failed, posts, resent,
                  followed, cases, lost, reported>>
  BY DEF button, work, created
<1>2. posts[r] = "posted" /\ IsDue(r)
  BY DEF PageInv, PostedOnce
<1>3. /\ Origins' /\ CasesInv'
      /\ \A m : Origin(m)' = Origin(m) /\ \A s : ShouldAttempt(m, s)' <=> ShouldAttempt(m, s)
      /\ \A m \in Submissions : IsReported(context[m])'
      /\ IsReported(retry)'
  BY <1>1, FrontKept
<1>4. saved'[r] = saved[r] + 1 /\ \A q \in Rows \ {r} : saved'[q] = saved[q]
  BY DEF PageInv, CountsTyped
<1>5. PageTyped' /\ CountsTyped'
  BY <1>1 DEF PageInv, PageTyped, CountsTyped
<1>6. Untouched'
  BY <1>1, <1>2, <1>4 DEF PageInv, Untouched, IsDue
<1>7. \A q \in Rows : IsDue(q)' <=> IsDue(q)
  BY <1>1, <1>3 DEF IsDue
<1>8. PostedOnce'
  BY <1>1, <1>7 DEF PageInv, PostedOnce
<1>9. ~Counted(r)
  BY <1>2 DEF Counted, Unread, PageInv, PostedOnce
<1>10. Counted(r)' /\ \A q \in Rows \ {r} : Counted(q)' <=> Counted(q)
  BY <1>1 DEF Counted, Unread
<1>11. SavedOnce'
  <2>1. saved[r] \in Nat /\ lost[r] \in Nat /\ saved[r] <= lost[r]
    BY <1>9 DEF PageInv, CountsTyped, SavedOnce
  <2>2. saved'[r] <= 1 + lost[r]
    BY <1>4, <2>1
  <2> QED BY <1>1, <1>4, <1>10, <2>2 DEF PageInv, SavedOnce
<1>12. RetriesReported'
  <2>1. Origin(r[1]) = followed /\ ShouldAttempt(r[1], SectionOf(r[2]))
    BY <1>2, RowParts DEF IsDue, PageInv, Origins
  <2> QED BY <1>1, <1>3, <1>4, <2>1 DEF PageInv, RetriesReported
<1>13. SavedAtAll'
  <2>1. saved[r] \in Nat /\ saved'[r] >= 1
    BY <1>4 DEF PageInv, CountsTyped
  <2>2. \A d : InFile(d) => InFile(d)'
    BY <1>4, <2>1 DEF InFile
  <2>3. \A q \in Rows : Counted(q)' => saved'[q] >= 1
    BY <1>4, <1>10, <2>1 DEF PageInv, SavedAtAll
  <2> QED BY <1>1, <1>3, <2>2, <2>3 DEF PageInv, SavedAtAll, Covers, Passed
<1> QED BY <1>3, <1>5, <1>6, <1>8, <1>11, <1>12, <1>13 DEF PageInv

LEMMA RowCommitsKeeps == ASSUME FileInv, PageInv, NEW t \in Txs, RowCommits(t) PROVE PageInv'
<1>1. /\ pc[t] = "commit" /\ Commit(t) /\ GoTo(t, "saved") /\ UNCHANGED req
      /\ saved' = IF req[t].from \in Rows
                  THEN [saved EXCEPT ![req[t].from] = @ + 1] ELSE saved
      /\ UNCHANGED <<phase, button, work, created, lost, reported>>
  BY DEF RowCommits, Commit
<1>2. pc'[t] = "saved" /\ \A u \in Txs \ {t} : pc'[u] = pc[u]
  BY <1>1 DEF GoTo, FileInv, FileTypeOK
<1>3. file \in CaseRow /\ file' \in CaseRow
  BY <1>1, SavedTyped DEF Commit, FileInv, FileTypeOK
<1>4. file # None /\ file' # None
  BY <1>3, CaseFileAssumption
<1>5. CASE req[t].from \in Rows
  <2>1. PICK r \in Rows : req[t].from = r
    BY <1>5
  <2> QED BY <1>1, <1>2, <1>4, <2>1, RowSavedKeeps
<1>6. CASE req[t].from \notin Rows
  BY <1>1, <1>2, <1>4, <1>6, PageKept
<1> QED BY <1>5, <1>6

LEMMA PageNext == FileInv /\ PageInv /\ [Next]_vars => PageInv'
<1> SUFFICES ASSUME FileInv, PageInv, [Next]_vars PROVE PageInv'
  OBVIOUS
<1>1. CASE Submit \/ RetrySubmit
  BY <1>1, SubmitsKeeps
<1>2. ASSUME NEW n \in Submissions, CreationFails(n) \/ CaseAnswerLost(n) \/ PageStep(n)
      PROVE  PageInv'
  <2>1. CASE ClientCreated(n) \/ CaseRequested(n) \/ CreationFails(n) \/ CaseAnswerLost(n)
    BY <2>1, AskingKeeps
  <2>2. CASE CaseCreated(n)
    BY <2>2, CaseCreatedKeeps
  <2>3. CASE PostRow(n) \/ SectionSettled(n)
    BY <2>3, PostRowKeeps, SectionSettledKeeps
  <2>4. CASE AllSaved(n) \/ SavedWithIssues(n) \/ EndsElsewhere(n)
    BY <2>4, AllSavedKeeps, SavedWithIssuesKeeps, EndsElsewhereKeeps
  <2> QED BY <1>2, <2>1, <2>2, <2>3, <2>4 DEF PageStep
<1>3. CASE OtherBegins
  BY <1>3, OtherBeginsKeeps
<1>4. ASSUME NEW t \in Txs, \/ RowSettled(t) \/ RowAnswerLost(t) \/ OtherTakes(t)
                            \/ ServerStep(t) \/ RowCommits(t)
      PROVE  PageInv'
  BY <1>4, RowSettledKeeps, RowAnswerLostKeeps, OtherTakesKeeps, ServerStepKeeps, RowCommitsKeeps
<1>5. CASE UNCHANGED vars
  <2>1. UNCHANGED <<phase, button, work, created, lost, saved, reported, file, pc, req>>
    BY <1>5 DEF vars, pageVars, counters, fileVars, rows
  <2> QED BY <2>1, PageKept
<1> QED BY <1>1, <1>2, <1>3, <1>4, <1>5 DEF Next

\* What is known of the file and of the page, together.
LEMMA IntakeHolds == Spec => [](FileInv /\ PageInv)
<1>1. Init => FileInv /\ PageInv
  BY FileInitTyped, PageInitHolds DEF Init
<1>2. FileInv /\ PageInv /\ [Next]_vars => FileInv' /\ PageInv'
  <2>1. FileInv => FileTypeOK
    BY DEF FileInv
  <2> QED BY <2>1, StepOfFile, NextTyped, PageNext
<1> QED BY <1>1, <1>2, PTL DEF Spec

\* Every variable of the file and of the page keeps its type, and a case is followed when
\* its file exists and not before (handleSubmit).
THEOREM IntakeTypeCorrect == Spec => []TypeOK
<1>1. FileInv /\ PageInv => TypeOK
  <2> SUFFICES ASSUME FileInv, PageInv PROVE TypeOK
    OBVIOUS
  <2>1. FileTypeOK
    BY DEF FileInv
  <2>2. phase \in [Submissions -> Running \cup {"none", "failed", "issues", "done"}]
    BY DEF PageInv, PageTyped, Running, Asking, HasCase
  <2> QED BY <2>1, <2>2, SectionsAre DEF PageInv, PageTyped, TypeOK
<1> QED BY <1>1, IntakeHolds, PTL

\* The page leaves for a case only when every row of the form is saved in it, a submission
\* saves a row again only after an answer about it was lost, a retry saves only sections
\* reported as failed, and a second case takes a lost answer or a submission that overlaps
\* another: for any form and any number of submissions, slots, lost answers and other
\* requests (failedSections, shouldAttemptSection, retryContext, submitting).
THEOREM SavedRowsReported == Spec => []SavedAsReported
<1>1. PageInv => SavedAsReported
  <2> SUFFICES ASSUME PageInv PROVE SavedAsReported
    OBVIOUS
  <2>1. \A n \in Submissions : phase[n] = "done" /\ Origin(n) = followed =>
            \A d \in Drafts : InFile(d)
    BY DEF PageInv, SavedAtAll
  <2>2. \A r \in Rows : saved[r] <= 1 + lost[r]
    BY DEF PageInv, SavedOnce
  <2>3. ASSUME NEW r \in Rows, saved[r] >= 1, context[r[1]] # None
        PROVE  SectionOf(r[2]) \in reported
    BY <2>3, RowParts DEF PageInv, RetriesReported, IsReported, Origin, ShouldAttempt
  <2>4. cases <= 1 + lost[None] \/ overlaps > 0
    BY DEF PageInv, CasesInv, CountsTyped
  <2> QED BY <2>1, <2>2, <2>3, <2>4 DEF SavedAsReported, InFile
<1> QED BY <1>1, IntakeHolds, PTL

=============================================================================
