--------------------------- MODULE ResearchProofs ---------------------------
(***************************************************************************)
(* What holds of AI research for any requests, sessions, limits and        *)
(* window, and for any number of messages and months.                      *)
(***************************************************************************)
EXTENDS Research, FiniteSetTheorems, TLAPS

\* The rows and the cache belong together.
RowsOK ==
    /\ IsFiniteSet(messages)
    /\ \A m \in messages : m.at < clock /\ created[m.session] \in Months
    /\ \A s \in Sessions : created[s] # Null => created[s] <= month
    /\ \A s \in open : created[s] # Null
    /\ limit \in inForce
    /\ usage # Null => usage.limit \in inForce

\* What the steps of a request rely on.
RequestOK(t) ==
    /\ pc[t] \in {"find", "store", "bump", "history", "stream"} => session[t] # Null
    /\ session[t] # Null => created[session[t]] # Null
    /\ pc[t] \in {"edition", "count", "cache"} =>
           /\ seen[t].key # Null /\ seen[t].key <= month
           /\ session[t] # Null => created[session[t]] <= seen[t].key
    /\ pc[t] \in {"count", "cache"} =>
           /\ seen[t].key <= seen[t].since /\ seen[t].since <= month
           /\ seen[t].key = month => seen[t].limit \in inForce

TypeInv == TypeOK /\ RowsOK /\ \A t \in Txs : RequestOK(t)

Bumping == {t \in Txs : pc[t] = "bump"}

\* A count or a decision that no question has overtaken still holds, and so does the
\* cache but for the questions that are on their way to it.
CountOK(t) ==
    /\ pc[t] = "cache" /\ ~seen[t].stale /\ seen[t].key = month
           => Cardinality(Charged) <= seen[t].used
    /\ pc[t] = "store" /\ ~seen[t].stale /\ ~raced /\ created[session[t]] = month
           => \E l \in inForce : l = 0 \/ Cardinality(Charged) < l

\* What the count finds is within the limit.
ChargedHeld == ~raced => \E l \in inForce : l = 0 \/ Cardinality(Charged) <= l

CountInv ==
    /\ ChargedHeld
    /\ ~raced /\ usage # Null => Cardinality(Charged) <= usage.used + Cardinality(Bumping)
    /\ \A t \in Txs : CountOK(t)

\* A question asked this month has its row as long as its session has one.
SpentInv ==
    /\ IsFiniteSet(spent)
    /\ \A m \in spent : /\ m.role = "USER" /\ created[m.session] # Null
                        /\ m.session \in open => m \in messages

\* The question of a request is there as long as its session is.
Stored(t) ==
    /\ question[t] < clock
    /\ \E m \in Of(session[t]) : m.at = question[t] /\ m.role = "USER"

Said(t) == {m \in Of(session[t]) : m.at <= question[t]}

AskedOK(t) ==
    /\ pc[t] \in {"bump", "history", "stream"} /\ session[t] \in open => Stored(t)
    /\ pc[t] = "stream" /\ session[t] \in open /\ Cardinality(Said(t)) <= Window
           => Said(t) \subseteq asked[t]

AskedInv == \A t \in Txs : AskedOK(t)

-----------------------------------------------------------------------------
(***************************************************************************)
(* Typing.                                                                 *)
(***************************************************************************)

LEMMA InitTyped == Init => TypeInv
<1> SUFFICES ASSUME Init PROVE TypeInv
  OBVIOUS
<1>1. TypeOK
  <2>1. 0 \in Months /\ NothingSeen \in Seen
    BY ResearchAssumption DEF NothingSeen, Seen, Months
  <2> QED BY <2>1 DEF Init, TypeOK, Steps
<1>2. RowsOK
  BY FS_EmptySet DEF Init, RowsOK
<1>3. ASSUME NEW t \in Txs PROVE RequestOK(t)
  BY DEF Init, RequestOK
<1> QED BY <1>1, <1>2, <1>3 DEF TypeInv

\* What the sessions, the edition and time change.
LEMMA WorldTyped ==
    ASSUME TypeInv,
           \/ \E s \in Sessions : CreateSession(s) \/ DeleteSession(s)
           \/ \E l \in Limits : ChangeEdition(l)
           \/ NextMonth \/ Expire
    PROVE  TypeInv'
<1>1. CASE \E s \in Sessions : CreateSession(s)
  <2>1. PICK s \in Sessions : CreateSession(s)
    BY <1>1
  <2>2. TypeOK'
    BY <2>1, ResearchAssumption DEF TypeInv, TypeOK, CreateSession, known, aux
  <2>3. RowsOK'
    BY <2>1, ResearchAssumption
    DEF TypeInv, TypeOK, RowsOK, CreateSession, known, aux, Months, Message
  <2>4. ASSUME NEW t \in Txs PROVE RequestOK(t)'
    BY <2>1, ResearchAssumption DEF TypeInv, TypeOK, RequestOK, CreateSession, known, aux
  <2> QED BY <2>2, <2>3, <2>4 DEF TypeInv
<1>2. CASE \E s \in Sessions : DeleteSession(s)
  <2>1. PICK s \in Sessions : DeleteSession(s)
    BY <1>2
  <2>2. TypeOK'
    BY <2>1 DEF TypeInv, TypeOK, DeleteSession, known, aux
  <2>3. IsFiniteSet(messages')
    BY <2>1, FS_Subset DEF TypeInv, RowsOK, DeleteSession
  <2>4. RowsOK'
    BY <2>1, <2>3 DEF TypeInv, RowsOK, DeleteSession, known, aux
  <2>5. ASSUME NEW t \in Txs PROVE RequestOK(t)'
    BY <2>1 DEF TypeInv, RequestOK, DeleteSession, known, aux
  <2> QED BY <2>2, <2>4, <2>5 DEF TypeInv
<1>3. CASE \E l \in Limits : ChangeEdition(l)
  <2>1. TypeOK'
    BY <1>3 DEF TypeInv, TypeOK, ChangeEdition, known, rows
  <2>2. RowsOK'
    BY <1>3 DEF TypeInv, RowsOK, ChangeEdition, rows
  <2>3. ASSUME NEW t \in Txs PROVE RequestOK(t)'
    BY <1>3 DEF TypeInv, RequestOK, ChangeEdition, known, rows
  <2> QED BY <2>1, <2>2, <2>3 DEF TypeInv
<1>4. CASE NextMonth
  <2>0. month \in Nat /\ month < MaxMonth /\ MaxMonth \in Nat /\ month' = month + 1
    BY <1>4, ResearchAssumption DEF TypeInv, TypeOK, NextMonth, Months
  <2>1. TypeOK'
    <3>1. month' \in Months
      BY <2>0 DEF Months
    <3> QED BY <1>4, <3>1 DEF TypeInv, TypeOK, NextMonth, known, rows
  <2>2. RowsOK'
    <3>1. ASSUME NEW s \in Sessions, created[s] # Null PROVE created[s] <= month'
      BY <2>0, <3>1 DEF TypeInv, TypeOK, RowsOK, Months
    <3> QED BY <1>4, <3>1 DEF TypeInv, RowsOK, NextMonth, rows
  <2>3. ASSUME NEW t \in Txs PROVE RequestOK(t)'
    <3>1. seen[t].key \in Months \cup {Null} /\ seen[t].since \in Months
      BY DEF TypeInv, TypeOK, Seen
    <3>2. pc[t] \in {"edition", "count", "cache"} => seen[t].key \in Nat
      BY <3>1 DEF TypeInv, RequestOK, Months
    <3> QED BY <1>4, <2>0, <3>1, <3>2 DEF TypeInv, RequestOK, NextMonth, known, rows, Months
  <2> QED BY <2>1, <2>2, <2>3 DEF TypeInv
<1>5. CASE Expire
  <2>1. TypeOK'
    BY <1>5 DEF TypeInv, TypeOK, Expire, known, rows, aux
  <2>2. RowsOK'
    BY <1>5 DEF TypeInv, RowsOK, Expire, rows, aux
  <2>3. ASSUME NEW t \in Txs PROVE RequestOK(t)'
    BY <1>5 DEF TypeInv, RequestOK, Expire, known, rows, aux
  <2> QED BY <2>1, <2>2, <2>3 DEF TypeInv
<1> QED BY <1>1, <1>2, <1>3, <1>4, <1>5

\* A request that changes no row and no usage keeps the others as they are.
LEMMA RowsKept ==
    ASSUME TypeInv, UNCHANGED <<month, limit, rows, usage, aux>>
    PROVE  RowsOK'
BY DEF TypeInv, RowsOK, rows, aux

LEMMA EndsTyped ==
    ASSUME TypeInv, NEW t \in Txs, Ends(t), UNCHANGED <<month, created, inForce>>
    PROVE  /\ pc' \in [Txs -> Steps] /\ session' \in [Txs -> Sessions \cup {Null}]
           /\ seen' \in [Txs -> Seen] /\ question' \in [Txs -> Nat]
           /\ asked' \in [Txs -> SUBSET Message]
           /\ \A u \in Txs : RequestOK(u)'
<1>1. NothingSeen \in Seen
  BY ResearchAssumption DEF NothingSeen, Seen, Months
<1>2. /\ pc' \in [Txs -> Steps] /\ session' \in [Txs -> Sessions \cup {Null}]
      /\ seen' \in [Txs -> Seen] /\ question' \in [Txs -> Nat]
      /\ asked' \in [Txs -> SUBSET Message]
  BY <1>1 DEF TypeInv, TypeOK, Ends, GoTo, Steps
<1>3. ASSUME NEW u \in Txs PROVE RequestOK(u)'
  <2>1. CASE u = t
    BY <2>1 DEF TypeInv, TypeOK, RequestOK, Ends, GoTo
  <2>2. CASE u # t
    BY <2>2 DEF TypeInv, TypeOK, RequestOK, Ends, GoTo
  <2> QED BY <2>1, <2>2
<1> QED BY <1>2, <1>3

LEMMA CheckedTyped ==
    ASSUME TypeInv, NEW t \in Txs, NEW allowed \in BOOLEAN, NEW stale \in BOOLEAN,
           Checked(t, allowed, stale), UNCHANGED <<month, created, inForce>>
    PROVE  /\ pc' \in [Txs -> Steps] /\ session' \in [Txs -> Sessions \cup {Null}]
           /\ seen' \in [Txs -> Seen] /\ question' \in [Txs -> Nat]
           /\ asked' \in [Txs -> SUBSET Message]
           /\ \A u \in Txs : RequestOK(u)'
<1>1. CASE Ends(t)
  BY <1>1, EndsTyped
<1>2. CASE /\ session[t] # Null /\ GoTo(t, "store")
           /\ seen' = [seen EXCEPT ![t] = [NothingSeen EXCEPT !.stale = stale]]
           /\ UNCHANGED <<session, question, asked>>
  <2>1. [NothingSeen EXCEPT !.stale = stale] \in Seen
    BY ResearchAssumption DEF NothingSeen, Seen, Months
  <2>2. /\ pc' \in [Txs -> Steps] /\ session' \in [Txs -> Sessions \cup {Null}]
        /\ seen' \in [Txs -> Seen] /\ question' \in [Txs -> Nat]
        /\ asked' \in [Txs -> SUBSET Message]
    BY <1>2, <2>1 DEF TypeInv, TypeOK, GoTo, Steps
  <2>3. ASSUME NEW u \in Txs PROVE RequestOK(u)'
    <3>1. CASE u = t
      BY <1>2, <3>1 DEF TypeInv, TypeOK, RequestOK, GoTo
    <3>2. CASE u # t
      BY <1>2, <3>2 DEF TypeInv, TypeOK, RequestOK, GoTo
    <3> QED BY <3>1, <3>2
  <2> QED BY <2>2, <2>3
<1> QED BY <1>1, <1>2 DEF Checked

\* A request that learns something and goes on.
LEMMA StepTyped ==
    ASSUME TypeInv, NEW t \in Txs, NEW step \in Steps, GoTo(t, step),
           NEW entry \in Seen, seen' = [seen EXCEPT ![t] = entry],
           NEW s \in Sessions \cup {Null}, session' = [session EXCEPT ![t] = s],
           question' \in [Txs -> Nat], asked' \in [Txs -> SUBSET Message],
           UNCHANGED <<month, limit, created, inForce>>,
           RequestOK(t)'
    PROVE  /\ pc' \in [Txs -> Steps] /\ session' \in [Txs -> Sessions \cup {Null}]
           /\ seen' \in [Txs -> Seen]
           /\ \A u \in Txs : RequestOK(u)'
<1>1. /\ pc' \in [Txs -> Steps] /\ session' \in [Txs -> Sessions \cup {Null}]
      /\ seen' \in [Txs -> Seen]
  BY DEF TypeInv, TypeOK, GoTo
<1>2. ASSUME NEW u \in Txs, u # t PROVE RequestOK(u)'
  BY <1>2 DEF TypeInv, TypeOK, RequestOK, GoTo
<1> QED BY <1>1, <1>2

\* The check of the limit.
LEMMA CheckTyped ==
    ASSUME TypeInv, NEW t \in Txs,
           CheckCache(t) \/ MissCache(t) \/ ReadEdition(t) \/ Count(t) \/ FillCache(t)
    PROVE  TypeInv'
<1>0. /\ seen[t] \in Seen /\ session[t] \in Sessions \cup {Null}
      /\ month \in Months /\ limit \in Limits /\ Limits \subseteq Nat
      /\ session = [session EXCEPT ![t] = session[t]]
      /\ Unbumped(t) \in BOOLEAN
  BY ResearchAssumption DEF TypeInv, TypeOK, Unbumped
<1>1. CASE CheckCache(t)
  <2>1. Allowed(usage.used, usage.limit) \in BOOLEAN
    BY DEF Allowed
  <2> DEFINE allowed == Allowed(usage.used, usage.limit)
  <2>2. /\ Checked(t, allowed, Unbumped(t))
        /\ UNCHANGED <<month, limit, rows, usage, aux>>
    BY <1>1 DEF CheckCache
  <2>3. UNCHANGED <<month, created, inForce>>
    BY <2>2 DEF rows, aux
  <2> HIDE DEF allowed
  <2>4. /\ pc' \in [Txs -> Steps] /\ session' \in [Txs -> Sessions \cup {Null}]
        /\ seen' \in [Txs -> Seen] /\ question' \in [Txs -> Nat]
        /\ asked' \in [Txs -> SUBSET Message]
        /\ \A u \in Txs : RequestOK(u)'
    BY <1>0, <2>1, <2>2, <2>3, CheckedTyped DEF allowed
  <2>5. RowsOK'
    BY <2>2, RowsKept
  <2> QED BY <2>2, <2>4, <2>5 DEF TypeInv, TypeOK, rows, aux
<1>2. CASE MissCache(t)
  <2> DEFINE entry == [seen[t] EXCEPT !.key = month]
  <2>1. entry \in Seen
    BY <1>0 DEF Seen
  <2>2. /\ GoTo(t, "edition") /\ seen' = [seen EXCEPT ![t] = entry]
        /\ UNCHANGED <<month, limit, rows, usage, session, question, asked, aux>>
    BY <1>2 DEF MissCache
  <2>3. RequestOK(t)'
    <3>1. pc'[t] = "edition" /\ seen'[t].key = month
      BY <1>0, <2>2 DEF TypeInv, TypeOK, GoTo, Seen
    <3>2. month # Null /\ month <= month
      BY <1>0, ResearchAssumption DEF Months
    <3>3. session[t] # Null => created[session[t]] # Null /\ created[session[t]] <= month
      BY <1>0 DEF TypeInv, RequestOK, RowsOK
    <3> QED BY <2>2, <3>1, <3>2, <3>3 DEF RequestOK, rows, aux
  <2>4. /\ pc' \in [Txs -> Steps] /\ seen' \in [Txs -> Seen]
        /\ \A u \in Txs : RequestOK(u)'
    <3>1. session' = [session EXCEPT ![t] = session[t]]
      BY <1>0, <2>2
    <3>2. question' \in [Txs -> Nat] /\ asked' \in [Txs -> SUBSET Message]
      BY <2>2 DEF TypeInv, TypeOK
    <3>3. UNCHANGED <<month, limit, created, inForce>> /\ "edition" \in Steps
      BY <2>2 DEF rows, aux, Steps
    <3> HIDE DEF entry
    <3> QED BY <1>0, <2>1, <2>2, <2>3, <3>1, <3>2, <3>3, StepTyped
  <2>5. RowsOK'
    BY <2>2, RowsKept
  <2> HIDE DEF entry
  <2> QED BY <2>2, <2>4, <2>5 DEF TypeInv, TypeOK, rows, aux
<1>3. CASE ReadEdition(t) /\ limit = 0
  <2>1. /\ Checked(t, TRUE, FALSE)
        /\ UNCHANGED <<month, limit, rows, usage, aux>>
    <3>1. ~(limit > 0)
      BY <1>3
    <3> QED BY <1>3, <3>1, Zenon DEF ReadEdition
  <2>2. UNCHANGED <<month, created, inForce>>
    BY <2>1 DEF rows, aux
  <2>3. /\ pc' \in [Txs -> Steps] /\ session' \in [Txs -> Sessions \cup {Null}]
        /\ seen' \in [Txs -> Seen] /\ question' \in [Txs -> Nat]
        /\ asked' \in [Txs -> SUBSET Message]
        /\ \A u \in Txs : RequestOK(u)'
    BY <2>1, <2>2, CheckedTyped
  <2>4. RowsOK'
    BY <2>1, RowsKept
  <2> QED BY <2>1, <2>3, <2>4 DEF TypeInv, TypeOK, rows, aux
<1>4. CASE ReadEdition(t) /\ limit # 0
  <2> DEFINE entry == [seen[t] EXCEPT !.limit = limit, !.since = month]
  <2>1. entry \in Seen
    BY <1>0 DEF Seen
  <2>2. /\ pc[t] = "edition" /\ GoTo(t, "count") /\ seen' = [seen EXCEPT ![t] = entry]
        /\ UNCHANGED <<month, limit, rows, usage, session, question, asked, aux>>
    BY <1>4 DEF ReadEdition
  <2>3. RequestOK(t)'
    <3>1. /\ pc'[t] = "count" /\ seen'[t].key = seen[t].key
          /\ seen'[t].since = month /\ seen'[t].limit = limit
      BY <1>0, <2>2 DEF TypeInv, TypeOK, GoTo, Seen
    <3>2. month <= month /\ limit \in inForce
      BY <1>0, ResearchAssumption DEF Months, TypeInv, RowsOK
    <3> QED BY <2>2, <3>1, <3>2 DEF TypeInv, RequestOK, rows, aux
  <2>4. /\ pc' \in [Txs -> Steps] /\ seen' \in [Txs -> Seen]
        /\ \A u \in Txs : RequestOK(u)'
    <3>1. session' = [session EXCEPT ![t] = session[t]]
      BY <1>0, <2>2
    <3>2. question' \in [Txs -> Nat] /\ asked' \in [Txs -> SUBSET Message]
      BY <2>2 DEF TypeInv, TypeOK
    <3>3. UNCHANGED <<month, limit, created, inForce>> /\ "count" \in Steps
      BY <2>2 DEF rows, aux, Steps
    <3> HIDE DEF entry
    <3> QED BY <1>0, <2>1, <2>2, <2>3, <3>1, <3>2, <3>3, StepTyped
  <2>5. RowsOK'
    BY <2>2, RowsKept
  <2> HIDE DEF entry
  <2> QED BY <2>2, <2>4, <2>5 DEF TypeInv, TypeOK, rows, aux
<1>5. CASE Count(t)
  <2> DEFINE n == Cardinality(AskedSince(seen[t].since))
             entry == [seen[t] EXCEPT !.used = n, !.stale = FALSE]
  <2>1. entry \in Seen
    <3>1. n \in Nat
      BY FS_Subset, FS_CardinalityType DEF AskedSince, TypeInv, RowsOK
    <3> HIDE DEF n
    <3> QED BY <1>0, <3>1 DEF Seen
  <2>2. /\ pc[t] = "count" /\ GoTo(t, "cache") /\ seen' = [seen EXCEPT ![t] = entry]
        /\ UNCHANGED <<month, limit, rows, usage, session, question, asked, aux>>
    BY <1>5 DEF Count
  <2> HIDE DEF n
  <2>3. RequestOK(t)'
    <3>1. /\ pc'[t] = "cache" /\ seen'[t].key = seen[t].key
          /\ seen'[t].since = seen[t].since /\ seen'[t].limit = seen[t].limit
      BY <1>0, <2>2 DEF TypeInv, TypeOK, GoTo, Seen
    <3> QED BY <2>2, <3>1 DEF TypeInv, RequestOK, rows, aux
  <2>4. /\ pc' \in [Txs -> Steps] /\ seen' \in [Txs -> Seen]
        /\ \A u \in Txs : RequestOK(u)'
    <3>1. session' = [session EXCEPT ![t] = session[t]]
      BY <1>0, <2>2
    <3>2. question' \in [Txs -> Nat] /\ asked' \in [Txs -> SUBSET Message]
      BY <2>2 DEF TypeInv, TypeOK
    <3>3. UNCHANGED <<month, limit, created, inForce>> /\ "cache" \in Steps
      BY <2>2 DEF rows, aux, Steps
    <3> HIDE DEF entry
    <3> QED BY <1>0, <2>1, <2>2, <2>3, <3>1, <3>2, <3>3, StepTyped
  <2>5. RowsOK'
    BY <2>2, RowsKept
  <2> HIDE DEF entry
  <2> QED BY <2>2, <2>4, <2>5 DEF TypeInv, TypeOK, rows, aux
<1>6. CASE FillCache(t)
  <2> DEFINE allowed == Allowed(seen[t].used, seen[t].limit)
  <2>1. /\ pc[t] = "cache"
        /\ usage' = IF seen[t].key = month
                    THEN [used |-> seen[t].used, limit |-> seen[t].limit] ELSE usage
        /\ Checked(t, allowed, seen[t].stale)
        /\ raced' = (raced \/ (seen[t].stale /\ seen[t].key = month))
        /\ UNCHANGED <<month, limit, rows, inForce, spent>>
    BY <1>6 DEF FillCache
  <2>2. allowed \in BOOLEAN /\ seen[t].stale \in BOOLEAN
    BY <1>0 DEF Allowed, Seen
  <2> HIDE DEF allowed
  <2>3. UNCHANGED <<month, created, inForce>>
    BY <2>1 DEF rows
  <2>4. /\ pc' \in [Txs -> Steps] /\ session' \in [Txs -> Sessions \cup {Null}]
        /\ seen' \in [Txs -> Seen] /\ question' \in [Txs -> Nat]
        /\ asked' \in [Txs -> SUBSET Message]
        /\ \A u \in Txs : RequestOK(u)'
    BY <2>1, <2>2, <2>3, CheckedTyped
  <2>5. usage' \in Entry \cup {Null} /\ (usage' # Null => usage'.limit \in inForce)
    <3>1. seen[t].key = month => seen[t].limit \in inForce
      BY <2>1 DEF TypeInv, RequestOK
    <3>2. seen[t].used \in Nat /\ seen[t].limit \in Nat
      BY <1>0 DEF Seen
    <3> QED BY <2>1, <3>1, <3>2 DEF TypeInv, TypeOK, RowsOK, Entry
  <2>6. RowsOK'
    BY <2>1, <2>5 DEF TypeInv, RowsOK, rows
  <2>7. raced' \in BOOLEAN
    BY <2>1
  <2> QED BY <2>1, <2>4, <2>5, <2>6, <2>7 DEF TypeInv, TypeOK, rows
<1> QED BY <1>1, <1>2, <1>3, <1>4, <1>5, <1>6

\* A row is added to the messages.
LEMMA InsertTyped ==
    ASSUME TypeInv, NEW t \in Txs, NEW role \in {"USER", "ASSISTANT"}, Insert(t, role),
           UNCHANGED <<month, limit, usage, inForce>>
    PROVE  /\ messages' \subseteq Message /\ clock' \in Nat
           /\ UNCHANGED <<created, open>>
           /\ RowsOK'
<1> DEFINE m == [session |-> session[t], role |-> role, at |-> clock]
<1>1. /\ session[t] \in open /\ messages' = messages \cup {m} /\ clock' = clock + 1
      /\ UNCHANGED <<created, open>>
  BY DEF Insert
<1>2. m \in Message /\ m.at = clock /\ m.session = session[t] /\ clock \in Nat
  BY <1>1 DEF TypeInv, TypeOK, Message
<1>3. created[m.session] \in Months
  BY <1>1, <1>2 DEF TypeInv, TypeOK, RowsOK
<1> HIDE DEF m
<1>4. messages' \subseteq Message /\ clock' \in Nat
  BY <1>1, <1>2 DEF TypeInv, TypeOK
<1>5. IsFiniteSet(messages')
  BY <1>1, FS_AddElement DEF TypeInv, RowsOK
<1>6. ASSUME NEW k \in messages' PROVE k.at < clock' /\ created'[k.session] \in Months
  <2>1. CASE k \in messages
    <3>1. k.at < clock /\ k.at \in Nat /\ created[k.session] \in Months
      BY <2>1 DEF TypeInv, TypeOK, RowsOK, Message
    <3> QED BY <1>1, <1>2, <3>1
  <2>2. CASE k = m
    BY <1>1, <1>2, <1>3, <2>2
  <2> QED BY <1>1, <2>1, <2>2
<1>7. RowsOK'
  BY <1>1, <1>5, <1>6 DEF TypeInv, RowsOK
<1> QED BY <1>1, <1>4, <1>7

\* The question, its way to the provider and the answer.
LEMMA AskTyped ==
    ASSUME TypeInv, NEW t \in Txs,
           \/ \E s \in Sessions \cup {Null} : Begin(t, s)
           \/ FindSession(t) \/ StoreQuestion(t) \/ BumpCache(t) \/ ReadHistory(t)
           \/ StoreAnswer(t) \/ Fails(t)
    PROVE  TypeInv'
<1>0. seen[t] \in Seen /\ session[t] \in Sessions \cup {Null}
  BY DEF TypeInv, TypeOK
<1>1. CASE \E s \in Sessions \cup {Null} : Begin(t, s)
  <2>1. PICK s \in Sessions \cup {Null} : Begin(t, s)
    BY <1>1
  <2>2. TypeOK'
    BY <2>1 DEF TypeInv, TypeOK, Begin, GoTo, Steps, rows, known, aux
  <2>3. RowsOK'
    BY <2>1, RowsKept DEF Begin
  <2>4. ASSUME NEW u \in Txs PROVE RequestOK(u)'
    <3>1. CASE u = t
      BY <2>1, <3>1 DEF TypeInv, TypeOK, RequestOK, Begin, GoTo, rows, known, aux
    <3>2. CASE u # t
      BY <2>1, <3>2 DEF TypeInv, TypeOK, RequestOK, Begin, GoTo, rows, known, aux
    <3> QED BY <3>1, <3>2
  <2> QED BY <2>2, <2>3, <2>4 DEF TypeInv
<1>2. CASE FindSession(t)
  <2>2. TypeOK'
    BY <1>2 DEF TypeInv, TypeOK, FindSession, GoTo, Steps, rows, known, aux
  <2>3. RowsOK'
    BY <1>2, RowsKept DEF FindSession
  <2>4. ASSUME NEW u \in Txs PROVE RequestOK(u)'
    BY <1>2 DEF TypeInv, TypeOK, RequestOK, FindSession, GoTo, rows, known, aux
  <2> QED BY <2>2, <2>3, <2>4 DEF TypeInv
<1>3. CASE StoreQuestion(t)
  <2>0. /\ pc[t] = "store" /\ Insert(t, "USER") /\ GoTo(t, "bump")
        /\ question' = [question EXCEPT ![t] = clock]
        /\ seen' = [u \in Txs |-> IF u # t /\ pc[u] \in {"cache", "store"}
                                  THEN [seen[u] EXCEPT !.stale = TRUE]
                                  ELSE IF u = t THEN NothingSeen ELSE seen[u]]
        /\ raced' = (raced \/ seen[t].stale)
        /\ spent' = spent \cup (messages' \ messages)
        /\ UNCHANGED <<month, limit, usage, session, asked, inForce>>
    BY <1>3 DEF StoreQuestion
  <2>1. /\ messages' \subseteq Message /\ clock' \in Nat /\ UNCHANGED <<created, open>>
        /\ RowsOK'
    BY <2>0, InsertTyped
  <2>2. NothingSeen \in Seen
    BY ResearchAssumption DEF NothingSeen, Seen, Months
  <2>3. ASSUME NEW u \in Txs
        PROVE  /\ seen'[u] \in Seen
               /\ u # t => /\ seen'[u].key = seen[u].key /\ seen'[u].since = seen[u].since
                           /\ seen'[u].limit = seen[u].limit
    <3>1. seen[u] \in Seen
      BY DEF TypeInv, TypeOK
    <3> QED BY <2>0, <2>2, <3>1 DEF Seen
  <2>4. seen' \in [Txs -> Seen]
    BY <2>0, <2>3
  <2>5. raced' \in BOOLEAN /\ pc' \in [Txs -> Steps] /\ question' \in [Txs -> Nat]
    BY <1>0, <2>0 DEF TypeInv, TypeOK, GoTo, Steps, Seen
  <2>6. TypeOK'
    BY <2>0, <2>1, <2>4, <2>5 DEF TypeInv, TypeOK
  <2>7. ASSUME NEW u \in Txs PROVE RequestOK(u)'
    <3>1. CASE u = t
      BY <2>0, <2>1, <3>1 DEF TypeInv, TypeOK, RequestOK, GoTo
    <3>2. CASE u # t
      BY <2>0, <2>1, <2>3, <3>2 DEF TypeInv, TypeOK, RequestOK, GoTo
    <3> QED BY <3>1, <3>2
  <2> QED BY <2>1, <2>6, <2>7 DEF TypeInv
<1>4. CASE BumpCache(t)
  <2>0. usage # Null => usage \in Entry /\ usage' = [usage EXCEPT !.used = @ + 1]
    BY <1>4 DEF TypeInv, TypeOK, BumpCache, Bumped
  <2>1. /\ usage' \in Entry \cup {Null}
        /\ usage' # Null => usage'.limit = usage.limit /\ usage # Null
    BY <1>4, <2>0 DEF BumpCache, Entry
  <2>2. TypeOK'
    BY <1>4, <2>1 DEF TypeInv, TypeOK, BumpCache, GoTo, Steps, rows, known, aux
  <2>3. RowsOK'
    BY <1>4, <2>1 DEF TypeInv, RowsOK, BumpCache, rows, aux
  <2>4. ASSUME NEW u \in Txs PROVE RequestOK(u)'
    BY <1>4 DEF TypeInv, TypeOK, RequestOK, BumpCache, GoTo, rows, known, aux
  <2> QED BY <2>2, <2>3, <2>4 DEF TypeInv
<1>5. CASE ReadHistory(t)
  <2>1. History(session[t]) \subseteq Message
    BY DEF History, Of, TypeInv, TypeOK
  <2>2. TypeOK'
    BY <1>5, <2>1 DEF TypeInv, TypeOK, ReadHistory, GoTo, Steps, rows, aux
  <2>3. RowsOK'
    BY <1>5, RowsKept DEF ReadHistory
  <2>4. ASSUME NEW u \in Txs PROVE RequestOK(u)'
    BY <1>5 DEF TypeInv, TypeOK, RequestOK, ReadHistory, GoTo, rows, aux
  <2> QED BY <2>2, <2>3, <2>4 DEF TypeInv
<1>6. CASE StoreAnswer(t)
  <2>0. /\ Insert(t, "ASSISTANT") /\ Ends(t) /\ UNCHANGED <<month, limit, usage, aux>>
        /\ UNCHANGED inForce /\ UNCHANGED raced /\ UNCHANGED spent
    BY <1>6 DEF StoreAnswer, aux
  <2>1. /\ messages' \subseteq Message /\ clock' \in Nat /\ UNCHANGED <<created, open>>
        /\ RowsOK'
    BY <2>0, InsertTyped
  <2>2. /\ pc' \in [Txs -> Steps] /\ session' \in [Txs -> Sessions \cup {Null}]
        /\ seen' \in [Txs -> Seen] /\ question' \in [Txs -> Nat]
        /\ asked' \in [Txs -> SUBSET Message]
        /\ \A u \in Txs : RequestOK(u)'
    BY <2>0, <2>1, EndsTyped
  <2> QED BY <2>0, <2>1, <2>2 DEF TypeInv, TypeOK
<1>7. CASE Fails(t)
  <2>0. /\ Ends(t) /\ UNCHANGED <<month, limit, rows, usage, aux>>
        /\ UNCHANGED <<created, inForce>>
    BY <1>7 DEF Fails, rows, aux
  <2>1. /\ pc' \in [Txs -> Steps] /\ session' \in [Txs -> Sessions \cup {Null}]
        /\ seen' \in [Txs -> Seen] /\ question' \in [Txs -> Nat]
        /\ asked' \in [Txs -> SUBSET Message]
        /\ \A u \in Txs : RequestOK(u)'
    BY <2>0, EndsTyped
  <2>2. RowsOK'
    BY <2>0, RowsKept
  <2> QED BY <2>0, <2>1, <2>2 DEF TypeInv, TypeOK, rows, aux
<1> QED BY <1>1, <1>2, <1>3, <1>4, <1>5, <1>6, <1>7

LEMMA NextTyped ==
    ASSUME TypeInv, [Next]_vars
    PROVE  TypeInv'
<1>1. CASE Next
  BY <1>1, WorldTyped, CheckTyped, AskTyped, Zenon DEF Next, Request
<1>2. CASE UNCHANGED vars
  <2>1. RowsOK'
    BY <1>2, RowsKept DEF vars
  <2>2. TypeOK'
    BY <1>2 DEF TypeInv, TypeOK, vars, rows, known, aux
  <2>3. ASSUME NEW u \in Txs PROVE RequestOK(u)'
    BY <1>2 DEF TypeInv, RequestOK, vars, rows, known, aux
  <2> QED BY <2>1, <2>2, <2>3 DEF TypeInv
<1> QED BY <1>1, <1>2

LEMMA Typed == Spec => []TypeInv
<1>1. Init => TypeInv
  BY InitTyped
<1>2. TypeInv /\ [Next]_vars => TypeInv'
  BY NextTyped
<1> QED BY <1>1, <1>2, PTL DEF Spec

\* Every variable of AI research has its type.
THEOREM ResearchTypeCorrect == Spec => []TypeOK
<1>1. TypeInv => TypeOK
  BY DEF TypeInv
<1> QED BY <1>1, Typed, PTL

-----------------------------------------------------------------------------
(***************************************************************************)
(* The limit.                                                              *)
(***************************************************************************)

LEMMA Countable ==
    ASSUME TypeInv
    PROVE  /\ IsFiniteSet(Charged) /\ Cardinality(Charged) \in Nat
           /\ IsFiniteSet(Bumping) /\ Cardinality(Bumping) \in Nat
           /\ \A l \in inForce : l \in Nat
           /\ \A t \in Txs : seen[t] \in Seen
           /\ usage # Null => usage \in Entry
<1>1. Charged \subseteq messages /\ Bumping \subseteq Txs
  BY DEF Charged, AskedSince, Bumping
<1>2. /\ IsFiniteSet(Charged) /\ Cardinality(Charged) \in Nat
      /\ IsFiniteSet(Bumping) /\ Cardinality(Bumping) \in Nat
  BY <1>1, FS_Subset, FS_CardinalityType, ResearchAssumption DEF TypeInv, RowsOK
<1> QED BY <1>2, ResearchAssumption DEF TypeInv, TypeOK

LEMMA InitCounts == Init => CountInv
<1> SUFFICES ASSUME Init PROVE CountInv
  OBVIOUS
<1>1. Charged = {}
  BY DEF Init, Charged, AskedSince
<1>2. Cardinality(Charged) = 0
  BY <1>1, FS_EmptySet
<1>3. limit \in inForce /\ 0 <= limit
  BY ResearchAssumption DEF Init
<1>4. ChargedHeld
  BY <1>2, <1>3 DEF ChargedHeld
<1> QED BY <1>4 DEF Init, CountInv, CountOK

\* When no question is added, nothing that was known becomes false.
LEMMA FewerCharged ==
    ASSUME TypeInv, CountInv, Charged' \subseteq Charged,
           month' = month, inForce \subseteq inForce',
           raced' = raced, usage' \in {usage, Null},
           UNCHANGED <<pc, session, known>>,
           \A t \in Txs : pc[t] = "store" => created'[session[t]] = created[session[t]]
    PROVE  CountInv'
<1> DEFINE N == Cardinality(Charged)
           M == Cardinality(Charged')
<1>1. M \in Nat /\ N \in Nat /\ M <= N
  BY Countable, FS_Subset, FS_CardinalityType
<1>2. Bumping' = Bumping
  BY DEF Bumping
<1>3. /\ \A l \in inForce : l \in Nat
      /\ \A t \in Txs : seen[t] \in Seen
      /\ usage # Null => usage \in Entry
      /\ Cardinality(Bumping) \in Nat
  BY Countable
<1>4. /\ ~raced => \E l \in inForce : l = 0 \/ N <= l
      /\ ~raced /\ usage # Null => N <= usage.used + Cardinality(Bumping)
      /\ \A t \in Txs :
            /\ pc[t] = "cache" /\ ~seen[t].stale /\ seen[t].key = month => N <= seen[t].used
            /\ pc[t] = "store" /\ ~seen[t].stale /\ ~raced /\ created[session[t]] = month
                   => \E l \in inForce : l = 0 \/ N < l
  BY DEF CountInv, CountOK, ChargedHeld
<1> HIDE DEF N, M
<1>5. ~raced => \E l \in inForce' : l = 0 \/ M <= l
  BY <1>1, <1>3, <1>4
<1>6. ~raced /\ usage' # Null => M <= usage'.used + Cardinality(Bumping)
  <2> SUFFICES ASSUME ~raced, usage' # Null
               PROVE  M <= usage'.used + Cardinality(Bumping)
    OBVIOUS
  <2>1. usage' = usage /\ usage.used \in Nat
    BY <1>3 DEF Entry
  <2> QED BY <2>1, <1>1, <1>3, <1>4
<1>7. ASSUME NEW t \in Txs
      PROVE  /\ pc[t] = "cache" /\ ~seen[t].stale /\ seen[t].key = month => M <= seen[t].used
             /\ pc[t] = "store" /\ ~seen[t].stale /\ ~raced /\ created'[session[t]] = month
                    => \E l \in inForce' : l = 0 \/ M < l
  BY <1>1, <1>3, <1>4 DEF Seen
<1> QED BY <1>2, <1>5, <1>6, <1>7
        DEF CountInv, CountOK, ChargedHeld, N, M, known

LEMMA WorldCounts ==
    ASSUME TypeInv, CountInv,
           \/ \E s \in Sessions : CreateSession(s) \/ DeleteSession(s)
           \/ \E l \in Limits : ChangeEdition(l)
           \/ NextMonth \/ Expire
    PROVE  CountInv'
<1>1. CASE \E s \in Sessions : CreateSession(s)
  <2>1. PICK s \in Sessions : CreateSession(s)
    BY <1>1
  <2>2. Charged' \subseteq Charged
    <3>1. ASSUME NEW m \in messages PROVE created'[m.session] = created[m.session]
      <4>1. created[m.session] # Null /\ m.session \in Sessions
        BY ResearchAssumption DEF TypeInv, TypeOK, RowsOK, Months, Message
      <4> QED BY <2>1, <4>1 DEF CreateSession, TypeInv, TypeOK
    <3> QED BY <2>1, <3>1 DEF CreateSession, Charged, AskedSince
  <2>3. ASSUME NEW t \in Txs, pc[t] = "store"
        PROVE  created'[session[t]] = created[session[t]]
    <3>1. session[t] \in Sessions /\ created[session[t]] # Null
      BY <2>3 DEF TypeInv, TypeOK, RequestOK
    <3> QED BY <2>1, <3>1 DEF CreateSession, TypeInv, TypeOK
  <2> QED BY <2>1, <2>2, <2>3, FewerCharged DEF CreateSession, aux
<1>2. CASE \E s \in Sessions : DeleteSession(s)
  <2>1. PICK s \in Sessions : DeleteSession(s)
    BY <1>2
  <2>2. Charged' \subseteq Charged
    BY <2>1 DEF DeleteSession, Charged, AskedSince
  <2> QED BY <2>1, <2>2, FewerCharged DEF DeleteSession, aux
<1>3. CASE \E l \in Limits : ChangeEdition(l)
  <2>1. Charged' \subseteq Charged
    BY <1>3 DEF ChangeEdition, Charged, AskedSince, rows
  <2> QED BY <1>3, <2>1, FewerCharged DEF ChangeEdition, rows
<1>4. CASE NextMonth
  <2>0. month \in Nat /\ month' = month + 1
    BY <1>4 DEF TypeInv, TypeOK, NextMonth, Months
  <2>1. Charged' = {}
    <3>1. ASSUME NEW m \in messages PROVE ~(created[m.session] >= month')
      <4>1. /\ m.session \in Sessions /\ created[m.session] \in Nat
        BY DEF TypeInv, TypeOK, RowsOK, Months, Message
      <4>2. created[m.session] <= month
        BY <4>1, ResearchAssumption DEF TypeInv, RowsOK
      <4> QED BY <2>0, <4>1, <4>2
    <3> QED BY <1>4, <3>1 DEF NextMonth, Charged, AskedSince, rows
  <2>2. Cardinality(Charged)' = 0
    BY <2>1, FS_EmptySet
  <2>3. limit \in inForce' /\ limit \in Nat
    BY <1>4, ResearchAssumption DEF NextMonth, TypeInv, TypeOK
  <2>4. ChargedHeld'
    BY <2>2, <2>3 DEF ChargedHeld
  <2>5. usage' = Null
    BY <1>4 DEF NextMonth
  <2>6. ASSUME NEW t \in Txs PROVE CountOK(t)'
    <3>1. pc[t] = "cache" => seen[t].key # month'
      <4> SUFFICES ASSUME pc[t] = "cache" PROVE seen[t].key # month'
        OBVIOUS
      <4>1. seen[t].key <= month /\ seen[t].key \in Nat
        BY DEF TypeInv, TypeOK, RequestOK, Seen, Months
      <4> QED BY <2>0, <4>1
    <3>2. pc[t] = "store" => created[session[t]] # month'
      <4> SUFFICES ASSUME pc[t] = "store" PROVE created[session[t]] # month'
        OBVIOUS
      <4>1. session[t] \in Sessions /\ created[session[t]] # Null
        BY DEF TypeInv, TypeOK, RequestOK
      <4>2. created[session[t]] \in Nat /\ created[session[t]] <= month
        BY <4>1 DEF TypeInv, TypeOK, RowsOK, Months
      <4> QED BY <2>0, <4>2
    <3> QED BY <1>4, <3>1, <3>2 DEF CountOK, NextMonth, rows, known
  <2> QED BY <2>4, <2>5, <2>6 DEF CountInv
<1>5. CASE Expire
  <2>1. Charged' \subseteq Charged
    BY <1>5 DEF Expire, Charged, AskedSince, rows
  <2> QED BY <1>5, <2>1, FewerCharged DEF Expire, rows, aux
<1> QED BY <1>1, <1>2, <1>3, <1>4, <1>5

\* A step of one request that adds no question keeps what the others know.
LEMMA OthersCount ==
    ASSUME TypeInv, CountInv, NEW t \in Txs,
           Charged' = Charged, UNCHANGED <<month, created, inForce>>, raced => raced',
           pc[t] # "bump", pc'[t] # "bump",
           \A u \in Txs \ {t} : /\ pc'[u] = pc[u] /\ session'[u] = session[u]
                                /\ seen'[u] = seen[u],
           ~raced' /\ usage' # Null =>
               \/ usage' = usage
               \/ Cardinality(Charged) <= usage'.used /\ usage'.used \in Nat,
           CountOK(t)'
    PROVE  CountInv'
<1>1. Bumping' = Bumping
  BY DEF Bumping
<1>2. Cardinality(Charged) \in Nat /\ Cardinality(Bumping) \in Nat
  BY Countable
<1>3. ChargedHeld'
  BY DEF CountInv, ChargedHeld
<1>4. ~raced' /\ usage' # Null => Cardinality(Charged)' <= usage'.used + Cardinality(Bumping)'
  BY <1>1, <1>2 DEF CountInv
<1>5. ASSUME NEW u \in Txs PROVE CountOK(u)'
  BY DEF CountInv, CountOK
<1> QED BY <1>3, <1>4, <1>5 DEF CountInv

\* How the check of a request ends.
LEMMA CheckedShape ==
    ASSUME TypeInv, NEW t \in Txs, NEW allowed \in BOOLEAN, NEW stale \in BOOLEAN,
           Checked(t, allowed, stale)
    PROVE  /\ \A u \in Txs \ {t} : /\ pc'[u] = pc[u] /\ session'[u] = session[u]
                                   /\ seen'[u] = seen[u]
           /\ pc'[t] \in {"store", "done"}
           /\ pc'[t] = "store" => /\ allowed /\ session'[t] = session[t]
                                  /\ seen'[t].stale = stale
<1>1. CASE Ends(t)
  BY <1>1 DEF TypeInv, TypeOK, Ends, GoTo
<1>2. CASE /\ allowed /\ GoTo(t, "store")
           /\ seen' = [seen EXCEPT ![t] = [NothingSeen EXCEPT !.stale = stale]]
           /\ UNCHANGED <<session, question, asked>>
  <2>1. [NothingSeen EXCEPT !.stale = stale].stale = stale
    BY DEF NothingSeen
  <2> QED BY <1>2, <2>1 DEF TypeInv, TypeOK, GoTo
<1> QED BY <1>1, <1>2 DEF Checked

LEMMA CheckCounts ==
    ASSUME TypeInv, CountInv, NEW t \in Txs,
           CheckCache(t) \/ MissCache(t) \/ ReadEdition(t) \/ Count(t) \/ FillCache(t)
    PROVE  CountInv'
<1> DEFINE N == Cardinality(Charged)
<1>0. /\ seen[t] \in Seen /\ N \in Nat /\ month \in Nat
      /\ \A l \in inForce : l \in Nat
      /\ usage # Null => usage \in Entry
      /\ Unbumped(t) \in BOOLEAN
  BY Countable DEF TypeInv, TypeOK, Months, Unbumped
<1>1. CASE CheckCache(t)
  <2> DEFINE allowed == Allowed(usage.used, usage.limit)
  <2>1. /\ pc[t] = "check" /\ usage # Null /\ Checked(t, allowed, Unbumped(t))
        /\ UNCHANGED <<month, limit, rows, usage, aux>>
    BY <1>1 DEF CheckCache
  <2>2. allowed \in BOOLEAN
    BY DEF Allowed
  <2> HIDE DEF allowed
  <2>3. /\ \A u \in Txs \ {t} : /\ pc'[u] = pc[u] /\ session'[u] = session[u]
                                /\ seen'[u] = seen[u]
        /\ pc'[t] \in {"store", "done"}
        /\ pc'[t] = "store" => allowed /\ seen'[t].stale = Unbumped(t)
    BY <1>0, <2>1, <2>2, CheckedShape
  <2>4. Charged' = Charged
    BY <2>1 DEF Charged, AskedSince, rows
  <2>5. CountOK(t)'
    <3>1. ASSUME pc'[t] = "store", ~Unbumped(t), ~raced
          PROVE  \E l \in inForce : N < l
      <4>1. Bumping = {}
        BY <2>1, <3>1 DEF Unbumped, Bumping
      <4>2. N <= usage.used
        <5>1. Cardinality(Bumping) = 0
          BY <4>1, FS_EmptySet
        <5>2. N <= usage.used + Cardinality(Bumping)
          BY <2>1, <3>1 DEF CountInv
        <5> QED BY <1>0, <2>1, <5>1, <5>2 DEF Entry
      <4>3. usage.limit \in inForce /\ usage.used < usage.limit
        BY <2>1, <2>3, <3>1 DEF TypeInv, RowsOK, allowed, Allowed
      <4> QED BY <1>0, <2>1, <4>2, <4>3 DEF Entry
    <3> HIDE DEF N
    <3>2. pc'[t] = "store" /\ ~Unbumped(t) /\ ~raced => \E l \in inForce : l = 0 \/ N < l
      BY <3>1
    <3> QED BY <2>1, <2>3, <2>4, <3>2 DEF CountOK, aux, N
  <2> QED BY <2>1, <2>3, <2>4, <2>5, OthersCount DEF rows, aux
<1>2. CASE MissCache(t)
  <2>1. Charged' = Charged
    BY <1>2 DEF MissCache, Charged, AskedSince, rows
  <2>2. /\ \A u \in Txs \ {t} : /\ pc'[u] = pc[u] /\ session'[u] = session[u]
                                /\ seen'[u] = seen[u]
        /\ pc'[t] = "edition" /\ pc[t] = "check"
    BY <1>2 DEF MissCache, GoTo, TypeInv, TypeOK
  <2>3. CountOK(t)'
    BY <2>2 DEF CountOK
  <2> QED BY <1>2, <2>1, <2>2, <2>3, OthersCount DEF MissCache, rows, aux
<1>3. CASE ReadEdition(t) /\ limit = 0
  <2>1. /\ pc[t] = "edition" /\ Checked(t, TRUE, FALSE)
        /\ UNCHANGED <<month, limit, rows, usage, aux>>
    <3>1. ~(limit > 0)
      BY <1>3
    <3> QED BY <1>3, <3>1, Zenon DEF ReadEdition
  <2>2. /\ \A u \in Txs \ {t} : /\ pc'[u] = pc[u] /\ session'[u] = session[u]
                                /\ seen'[u] = seen[u]
        /\ pc'[t] \in {"store", "done"}
    BY <2>1, CheckedShape
  <2>3. Charged' = Charged
    BY <2>1 DEF Charged, AskedSince, rows
  <2>4. CountOK(t)'
    <3>1. 0 \in inForce
      BY <1>3 DEF TypeInv, RowsOK
    <3> QED BY <2>1, <2>2, <3>1 DEF CountOK, aux
  <2> QED BY <2>1, <2>2, <2>3, <2>4, OthersCount DEF rows, aux
<1>4. CASE ReadEdition(t) /\ limit # 0
  <2>1. Charged' = Charged
    BY <1>4 DEF ReadEdition, Charged, AskedSince, rows
  <2>2. /\ \A u \in Txs \ {t} : /\ pc'[u] = pc[u] /\ session'[u] = session[u]
                                /\ seen'[u] = seen[u]
        /\ pc'[t] = "count" /\ pc[t] = "edition"
    BY <1>4 DEF ReadEdition, GoTo, TypeInv, TypeOK
  <2>3. CountOK(t)'
    BY <2>2 DEF CountOK
  <2> QED BY <1>4, <2>1, <2>2, <2>3, OthersCount DEF ReadEdition, rows, aux
<1>5. CASE Count(t)
  <2>1. Charged' = Charged
    BY <1>5 DEF Count, Charged, AskedSince, rows
  <2>2. /\ \A u \in Txs \ {t} : /\ pc'[u] = pc[u] /\ session'[u] = session[u]
                                /\ seen'[u] = seen[u]
        /\ pc'[t] = "cache" /\ pc[t] = "count"
    BY <1>5 DEF Count, GoTo, TypeInv, TypeOK
  <2>3. /\ seen'[t].used = Cardinality(AskedSince(seen[t].since))
        /\ seen'[t].key = seen[t].key
    BY <1>0, <1>5 DEF Count, TypeInv, TypeOK, Seen
  <2>4. seen[t].key = month => Cardinality(AskedSince(seen[t].since)) = N
    <3> SUFFICES ASSUME seen[t].key = month PROVE seen[t].since = month
      BY DEF Charged
    <3>1. month <= seen[t].since /\ seen[t].since <= month /\ seen[t].since \in Nat
      BY <1>0, <2>2 DEF TypeInv, RequestOK, Seen, Months
    <3> QED BY <1>0, <3>1
  <2>5. CountOK(t)'
    <3>1. seen'[t].key = month' => N <= seen'[t].used
      <4>1. seen'[t].key = month' => seen'[t].used = N
        BY <1>5, <2>3, <2>4 DEF Count
      <4> HIDE DEF N
      <4> QED BY <1>0, <4>1
    <3> QED BY <2>1, <2>2, <3>1 DEF CountOK
  <2> QED BY <1>5, <2>1, <2>2, <2>5, OthersCount DEF Count, rows, aux
<1>6. CASE FillCache(t)
  <2> DEFINE allowed == Allowed(seen[t].used, seen[t].limit)
  <2>1. /\ pc[t] = "cache"
        /\ usage' = IF seen[t].key = month
                    THEN [used |-> seen[t].used, limit |-> seen[t].limit] ELSE usage
        /\ Checked(t, allowed, seen[t].stale)
        /\ raced' = (raced \/ (seen[t].stale /\ seen[t].key = month))
        /\ UNCHANGED <<month, limit, rows, inForce, spent>>
    BY <1>6 DEF FillCache
  <2>2. allowed \in BOOLEAN /\ seen[t].stale \in BOOLEAN
    BY <1>0 DEF Allowed, Seen
  <2> HIDE DEF allowed
  <2>3. /\ \A u \in Txs \ {t} : /\ pc'[u] = pc[u] /\ session'[u] = session[u]
                                /\ seen'[u] = seen[u]
        /\ pc'[t] \in {"store", "done"}
        /\ pc'[t] = "store" => /\ allowed /\ session'[t] = session[t]
                               /\ seen'[t].stale = seen[t].stale
    BY <2>1, <2>2, CheckedShape
  <2>4. Charged' = Charged
    BY <2>1 DEF Charged, AskedSince, rows
  <2>5. ~seen[t].stale /\ seen[t].key = month => N <= seen[t].used
    BY <2>1 DEF CountInv, CountOK
  <2>6. seen[t].used \in Nat /\ seen[t].limit \in Nat
    BY <1>0 DEF Seen
  <2> HIDE DEF N
  <2>7. ~raced' /\ usage' # Null => \/ usage' = usage
                                    \/ N <= usage'.used /\ usage'.used \in Nat
    <3>1. CASE seen[t].key = month
      <4>1. usage'.used = seen[t].used
        BY <2>1, <3>1
      <4>2. ~raced' => ~seen[t].stale
        BY <2>1, <2>2, <3>1
      <4> QED BY <2>5, <2>6, <3>1, <4>1, <4>2
    <3>2. CASE seen[t].key # month
      <4>1. usage' = usage
        BY <2>1, <3>2
      <4> QED BY <4>1
    <3> QED BY <3>1, <3>2
  <2>8. CountOK(t)'
    <3>1. ASSUME pc'[t] = "store", ~seen[t].stale, created[session[t]] = month
          PROVE  \E l \in inForce : N < l
      <4>1. session[t] \in Sessions /\ created[session[t]] \in Nat
        <5>1. session[t] # Null
          BY <2>1, <2>2, <3>1 DEF Checked, Ends, GoTo, TypeInv, TypeOK
        <5>2. session[t] \in Sessions /\ created[session[t]] # Null
          BY <5>1 DEF TypeInv, TypeOK, RequestOK
        <5> QED BY <5>2 DEF TypeInv, TypeOK, Months
      <4>2. /\ seen[t].key \in Nat /\ seen[t].key <= month
            /\ created[session[t]] <= seen[t].key
        BY <1>0, <2>1, <4>1, ResearchAssumption DEF TypeInv, RequestOK, Seen, Months
      <4>3. seen[t].key = month
        BY <1>0, <3>1, <4>1, <4>2
      <4>4. seen[t].limit \in inForce
        BY <2>1, <4>3 DEF TypeInv, RequestOK
      <4>5. seen[t].used < seen[t].limit
        BY <2>3, <3>1 DEF allowed, Allowed
      <4> QED BY <1>0, <2>5, <2>6, <3>1, <4>3, <4>4, <4>5
    <3> QED BY <2>1, <2>3, <2>4, <3>1 DEF CountOK, rows, N
  <2> QED BY <2>1, <2>2, <2>3, <2>4, <2>7, <2>8, OthersCount DEF rows, N
<1> QED BY <1>1, <1>2, <1>3, <1>4, <1>5, <1>6

\* A question is charged to the month its session began in.
LEMMA StoreCounts ==
    ASSUME TypeInv, CountInv, NEW t \in Txs, StoreQuestion(t)
    PROVE  CountInv'
<1> DEFINE N == Cardinality(Charged)
           M == Cardinality(Charged')
           B == Cardinality(Bumping)
           q == [session |-> session[t], role |-> "USER", at |-> clock]
<1>0. /\ N \in Nat /\ B \in Nat /\ IsFiniteSet(Charged) /\ IsFiniteSet(Bumping)
      /\ \A l \in inForce : l \in Nat
      /\ \A u \in Txs : seen[u] \in Seen
      /\ usage # Null => usage \in Entry
  BY Countable
<1>1. /\ pc[t] = "store" /\ session[t] \in open /\ messages' = messages \cup {q}
      /\ created' = created
      /\ seen' = [u \in Txs |-> IF u # t /\ pc[u] \in {"cache", "store"}
                                THEN [seen[u] EXCEPT !.stale = TRUE]
                                ELSE IF u = t THEN NothingSeen ELSE seen[u]]
      /\ raced' = (raced \/ seen[t].stale)
      /\ UNCHANGED <<month, limit, usage, session, asked, inForce>>
  BY DEF StoreQuestion, Insert
<1>2. pc' = [pc EXCEPT ![t] = "bump"]
  BY DEF StoreQuestion, GoTo
<1>3. q.session = session[t]
  OBVIOUS
<1> HIDE DEF q
<1>4. created[session[t]] \in Nat /\ created[session[t]] <= month /\ month \in Nat
  <2>1. session[t] \in Sessions /\ created[session[t]] # Null
    BY <1>1 DEF TypeInv, TypeOK, RowsOK
  <2> QED BY <2>1 DEF TypeInv, TypeOK, RowsOK, Months
<1>5. Charged' \subseteq Charged \cup {q}
  BY <1>1 DEF Charged, AskedSince
<1>6. created[session[t]] # month => Charged' \subseteq Charged
  <2> SUFFICES ASSUME created[session[t]] # month PROVE Charged' \subseteq Charged
    OBVIOUS
  <2>1. ~(created[q.session] >= month)
    BY <1>3, <1>4
  <2> QED BY <1>1, <2>1 DEF Charged, AskedSince
<1>7. M \in Nat /\ M <= N + 1 /\ (created[session[t]] # month => M <= N)
  <2>1. /\ IsFiniteSet(Charged \cup {q})
        /\ Cardinality(Charged \cup {q}) = IF q \in Charged THEN N ELSE N + 1
    BY <1>0, FS_AddElement
  <2>2. /\ IsFiniteSet(Charged') /\ M <= Cardinality(Charged \cup {q})
    BY <1>5, <2>1, FS_Subset
  <2>3. M \in Nat
    BY <2>2, FS_CardinalityType
  <2>4. created[session[t]] # month => M <= N
    BY <1>0, <1>6, FS_Subset
  <2> HIDE DEF M, N
  <2> QED BY <1>0, <2>1, <2>2, <2>3, <2>4
<1>8. Cardinality(Bumping)' = B + 1
  <2>1. Bumping' = Bumping \cup {t} /\ t \notin Bumping
    BY <1>1, <1>2 DEF Bumping, TypeInv, TypeOK
  <2> QED BY <1>0, <2>1, FS_AddElement
<1>9. /\ ~raced => \E l \in inForce : l = 0 \/ N <= l
      /\ ~raced /\ usage # Null => N <= usage.used + B
      /\ ~seen[t].stale /\ ~raced /\ created[session[t]] = month
             => \E l \in inForce : l = 0 \/ N < l
  BY <1>1 DEF CountInv, CountOK, ChargedHeld
<1>10. seen[t].stale \in BOOLEAN
  BY <1>0 DEF Seen
<1>11. ASSUME NEW u \in Txs PROVE CountOK(u)'
  <2>1. CASE u = t
    BY <1>1, <1>2, <2>1 DEF CountOK, TypeInv, TypeOK
  <2>2. CASE u # t /\ pc[u] \in {"cache", "store"}
    <3>1. seen'[u].stale
      <4>1. seen'[u] = [seen[u] EXCEPT !.stale = TRUE]
        BY <1>1, <2>2
      <4> QED BY <1>0, <4>1 DEF Seen
    <3> QED BY <3>1 DEF CountOK
  <2>3. CASE u # t /\ pc[u] \notin {"cache", "store"}
    BY <1>2, <2>3 DEF CountOK, TypeInv, TypeOK
  <2> QED BY <2>1, <2>2, <2>3
<1> HIDE DEF N, M, B
<1>12. ~raced' => \E l \in inForce : l = 0 \/ M <= l
  <2> SUFFICES ASSUME ~raced' PROVE \E l \in inForce : l = 0 \/ M <= l
    OBVIOUS
  <2>1. ~raced /\ ~seen[t].stale
    BY <1>1, <1>10
  <2>2. CASE created[session[t]] = month
    <3>1. PICK l \in inForce : l = 0 \/ N < l
      BY <1>9, <2>1, <2>2
    <3> QED BY <1>0, <1>7, <3>1
  <2>3. CASE created[session[t]] # month
    <3>1. PICK l \in inForce : l = 0 \/ N <= l
      BY <1>9, <2>1
    <3> QED BY <1>0, <1>7, <2>3, <3>1
  <2> QED BY <2>2, <2>3
<1>13. ~raced' /\ usage # Null => M <= usage.used + (B + 1)
  <2> SUFFICES ASSUME ~raced', usage # Null PROVE M <= usage.used + (B + 1)
    OBVIOUS
  <2>1. N <= usage.used + B /\ usage.used \in Nat
    BY <1>0, <1>1, <1>9, <1>10 DEF Entry
  <2> QED BY <1>0, <1>7, <2>1
<1> QED BY <1>1, <1>8, <1>11, <1>12, <1>13 DEF CountInv, ChargedHeld, M

\* A question reaches the cache.
LEMMA BumpCounts ==
    ASSUME TypeInv, CountInv, NEW t \in Txs, BumpCache(t)
    PROVE  CountInv'
<1> DEFINE N == Cardinality(Charged)
           B == Cardinality(Bumping)
<1>0. /\ N \in Nat /\ B \in Nat /\ IsFiniteSet(Bumping)
      /\ usage # Null => usage \in Entry
  BY Countable
<1>1. /\ pc[t] = "bump" /\ pc' = [pc EXCEPT ![t] = "history"]
      /\ usage' = IF usage = Null THEN Null ELSE [usage EXCEPT !.used = @ + 1]
      /\ UNCHANGED <<month, limit, rows, session, known, aux>>
  BY DEF BumpCache, GoTo, Bumped
<1>2. Charged' = Charged
  BY <1>1 DEF Charged, AskedSince, rows
<1>3. Cardinality(Bumping)' = B - 1
  <2>1. Bumping' = Bumping \ {t} /\ t \in Bumping
    BY <1>1 DEF Bumping, TypeInv, TypeOK
  <2> QED BY <1>0, <2>1, FS_RemoveElement
<1>4. ~raced /\ usage # Null => N <= usage.used + B
  BY DEF CountInv
<1> HIDE DEF N, B
<1>5. ~raced' /\ usage' # Null => N <= usage'.used + (B - 1)
  <2> SUFFICES ASSUME ~raced, usage # Null PROVE N <= usage'.used + (B - 1)
    BY <1>1 DEF aux
  <2>1. usage'.used = usage.used + 1 /\ usage.used \in Nat
    BY <1>0, <1>1 DEF Entry
  <2> QED BY <1>0, <1>4, <2>1
<1>6. ChargedHeld'
  BY <1>1, <1>2 DEF CountInv, ChargedHeld, aux
<1>7. ASSUME NEW u \in Txs PROVE CountOK(u)'
  BY <1>1, <1>2 DEF CountInv, CountOK, TypeInv, TypeOK, rows, known, aux
<1> QED BY <1>2, <1>3, <1>5, <1>6, <1>7 DEF CountInv, N

LEMMA AskCounts ==
    ASSUME TypeInv, CountInv, NEW t \in Txs,
           \/ \E s \in Sessions \cup {Null} : Begin(t, s)
           \/ FindSession(t) \/ ReadHistory(t) \/ StoreAnswer(t) \/ Fails(t)
    PROVE  CountInv'
<1>1. Charged' = Charged /\ UNCHANGED <<month, created, inForce, raced, usage>>
  <2>1. CASE StoreAnswer(t)
    <3>1. [session |-> session[t], role |-> "ASSISTANT", at |-> clock].role # "USER"
      OBVIOUS
    <3> QED BY <2>1, <3>1 DEF StoreAnswer, Insert, Charged, AskedSince, aux
  <2>2. CASE ~StoreAnswer(t)
    BY <2>2 DEF Begin, FindSession, ReadHistory, Fails, Charged, AskedSince, rows, aux
  <2> QED BY <2>1, <2>2
<1>2. /\ \A u \in Txs \ {t} : /\ pc'[u] = pc[u] /\ session'[u] = session[u]
                              /\ seen'[u] = seen[u]
      /\ pc[t] # "bump" /\ pc'[t] \in {"find", "check", "stream", "done"}
  <2>1. CASE \E s \in Sessions \cup {Null} : Begin(t, s)
    BY <2>1 DEF Begin, GoTo, TypeInv, TypeOK, known
  <2>2. CASE FindSession(t)
    BY <2>2 DEF FindSession, GoTo, TypeInv, TypeOK, known
  <2>3. CASE ReadHistory(t)
    BY <2>3 DEF ReadHistory, GoTo, TypeInv, TypeOK
  <2>4. CASE StoreAnswer(t)
    BY <2>4 DEF StoreAnswer, Ends, GoTo, TypeInv, TypeOK
  <2>5. CASE Fails(t)
    BY <2>5 DEF Fails, Ends, GoTo, TypeInv, TypeOK
  <2> QED BY <2>1, <2>2, <2>3, <2>4, <2>5
<1>3. CountOK(t)'
  BY <1>2 DEF CountOK
<1> QED BY <1>1, <1>2, <1>3, OthersCount

LEMMA NextCounts ==
    ASSUME TypeInv, CountInv, [Next]_vars
    PROVE  CountInv'
<1>1. CASE Next
  BY <1>1, WorldCounts, CheckCounts, StoreCounts, BumpCounts, AskCounts, Zenon
  DEF Next, Request
<1>2. CASE UNCHANGED vars
  <2>1. Charged' \subseteq Charged
    BY <1>2 DEF vars, rows, Charged, AskedSince
  <2> QED BY <1>2, <2>1, FewerCharged DEF vars, rows, aux
<1> QED BY <1>1, <1>2

-----------------------------------------------------------------------------
(***************************************************************************)
(* The questions of a month.                                               *)
(***************************************************************************)

LEMMA SpentKept ==
    ASSUME SpentInv, messages \subseteq messages', UNCHANGED <<created, open, spent>>
    PROVE  SpentInv'
BY DEF SpentInv

LEMMA NextSpent ==
    ASSUME TypeInv, SpentInv, [Next]_vars
    PROVE  SpentInv'
<1>1. CASE \E s \in Sessions : CreateSession(s)
  <2>1. PICK s \in Sessions : CreateSession(s)
    BY <1>1
  <2>2. created' = [created EXCEPT ![s] = month] /\ created[s] = Null
        /\ open' = open \cup {s} /\ messages' = messages /\ spent' = spent
    BY <2>1 DEF CreateSession, aux
  <2>3. ASSUME NEW m \in spent
        PROVE  created'[m.session] # Null /\ (m.session \in open' => m \in messages')
    <3>1. created[m.session] # Null /\ m.session # s
      BY <2>2 DEF SpentInv
    <3>2. created'[m.session] = created[m.session]
      BY <2>2, <3>1 DEF TypeInv, TypeOK
    <3> QED BY <2>2, <3>1, <3>2 DEF SpentInv
  <2> QED BY <2>2, <2>3 DEF SpentInv
<1>2. CASE \E s \in Sessions : DeleteSession(s)
  <2>1. PICK s \in Sessions : DeleteSession(s)
    BY <1>2
  <2>2. /\ open' = open \ {s} /\ messages' = messages \ Of(s)
        /\ UNCHANGED <<created, spent>>
    BY <2>1 DEF DeleteSession, aux
  <2> QED BY <2>2 DEF SpentInv, Of
<1>3. CASE NextMonth
  BY <1>3, FS_EmptySet DEF NextMonth, SpentInv
<1>4. CASE \E t \in Txs : StoreQuestion(t)
  <2>1. PICK t \in Txs : StoreQuestion(t)
    BY <1>4
  <2> DEFINE q == [session |-> session[t], role |-> "USER", at |-> clock]
  <2>2. /\ session[t] \in open /\ messages' = messages \cup {q}
        /\ spent' = spent \cup (messages' \ messages) /\ UNCHANGED <<created, open>>
    BY <2>1 DEF StoreQuestion, Insert
  <2>3. q.role = "USER" /\ q.session = session[t] /\ created[session[t]] # Null
    BY <2>2 DEF TypeInv, RowsOK, TypeOK
  <2> HIDE DEF q
  <2>4. IsFiniteSet(spent \cup {q})
    BY FS_AddElement DEF SpentInv
  <2>5. spent' \subseteq spent \cup {q} /\ IsFiniteSet(spent')
    BY <2>2, <2>4, FS_Subset
  <2> QED BY <2>2, <2>3, <2>5 DEF SpentInv
<1>5. CASE \E t \in Txs : StoreAnswer(t)
  <2>1. messages \subseteq messages' /\ UNCHANGED <<created, open, spent>>
    BY <1>5 DEF StoreAnswer, Insert, aux
  <2> QED BY <2>1, SpentKept
<1>6. CASE \/ \E l \in Limits : ChangeEdition(l)
           \/ Expire \/ UNCHANGED vars
           \/ \E t \in Txs :
                \/ \E s \in Sessions \cup {Null} : Begin(t, s)
                \/ CheckCache(t) \/ MissCache(t) \/ ReadEdition(t) \/ Count(t) \/ FillCache(t)
                \/ FindSession(t) \/ BumpCache(t) \/ ReadHistory(t) \/ Fails(t)
  <2>1. messages \subseteq messages' /\ UNCHANGED <<created, open, spent>>
    BY <1>6 DEF ChangeEdition, Expire, vars, Begin, CheckCache, MissCache, ReadEdition, Count,
       FillCache, FindSession, BumpCache, ReadHistory, Fails, rows, aux
  <2> QED BY <2>1, SpentKept
<1> QED BY <1>1, <1>2, <1>3, <1>4, <1>5, <1>6, Zenon DEF Next, Request

\* What was asked this month is what the count finds and what it cannot find any more.
LEMMA SpentIsCounted ==
    ASSUME TypeInv, SpentInv
    PROVE  /\ Cardinality(spent) <= Cardinality(Charged) + Cardinality(Uncounted)
           /\ Cardinality(spent) \in Nat /\ Cardinality(Uncounted) \in Nat
<1>1. spent \ Uncounted \subseteq Charged
  <2> SUFFICES ASSUME NEW m \in spent, m \notin Uncounted PROVE m \in Charged
    OBVIOUS
  <2>1. m \in messages /\ m.role = "USER" /\ created[m.session] = month
    BY DEF SpentInv, Uncounted
  <2>2. month >= month
    BY DEF TypeInv, TypeOK, Months
  <2> QED BY <2>1, <2>2 DEF Charged, AskedSince
<1>2. /\ IsFiniteSet(Charged) /\ Cardinality(Charged) \in Nat
      /\ IsFiniteSet(spent) /\ Uncounted \subseteq spent
  BY Countable DEF SpentInv, Uncounted
<1>3. /\ IsFiniteSet(Uncounted) /\ IsFiniteSet(spent \ Uncounted)
      /\ Cardinality(spent \ Uncounted) <= Cardinality(Charged)
  BY <1>1, <1>2, FS_Subset
<1>4. Cardinality(spent) = Cardinality(spent \ Uncounted) + Cardinality(Uncounted)
  <2> DEFINE found == spent \ Uncounted
  <2>1. found \cup Uncounted = spent /\ found \cap Uncounted = {}
    BY <1>2
  <2>2. IsFiniteSet(found) /\ Cardinality(found) \in Nat /\ Cardinality(Uncounted) \in Nat
    BY <1>3, FS_CardinalityType
  <2> HIDE DEF found
  <2>3. Cardinality(found \cup Uncounted)
            = Cardinality(found) + Cardinality(Uncounted) - Cardinality(found \cap Uncounted)
    BY <1>3, <2>2, FS_Union
  <2>4. Cardinality(found \cap Uncounted) = 0
    BY <2>1, FS_EmptySet
  <2>5. Cardinality(spent) = Cardinality(found) + Cardinality(Uncounted) - 0
    BY <2>1, <2>3, <2>4, Zenon
  <2>6. Cardinality(spent) = Cardinality(found) + Cardinality(Uncounted)
    BY <2>2, <2>5
  <2> QED BY <2>6 DEF found
<1>5. /\ Cardinality(spent) \in Nat /\ Cardinality(Uncounted) \in Nat
      /\ Cardinality(spent \ Uncounted) \in Nat
  BY <1>2, <1>3, FS_CardinalityType
<1> QED BY <1>2, <1>3, <1>4, <1>5

\* The questions of a month pass the limit by those of deleted sessions and of sessions
\* of earlier months only, but for requests that overlap between the count or the check
\* and the cache (checkUsageLimit, sendMessage).
THEOREM LimitPassedAsUncounted == Spec => []LimitPassedByUncounted
<1>1. Init => CountInv /\ SpentInv
  BY InitCounts, FS_EmptySet DEF Init, SpentInv
<1>2. TypeInv /\ CountInv /\ SpentInv /\ [Next]_vars => (CountInv /\ SpentInv)'
  BY NextCounts, NextSpent
<1>3. TypeInv /\ CountInv /\ SpentInv => LimitPassedByUncounted
  <2> SUFFICES ASSUME TypeInv, CountInv, SpentInv, ~raced
               PROVE  \E l \in inForce : l = 0 \/ Cardinality(spent) <= l + Cardinality(Uncounted)
    BY DEF LimitPassedByUncounted
  <2>1. PICK l \in inForce : l = 0 \/ Cardinality(Charged) <= l
    BY DEF CountInv, ChargedHeld
  <2>2. l \in Nat /\ Cardinality(Charged) \in Nat
    BY Countable
  <2>3. l = 0 \/ Cardinality(spent) <= l + Cardinality(Uncounted)
    BY <2>1, <2>2, SpentIsCounted
  <2> QED BY <2>3
<1> QED BY <1>1, <1>2, <1>3, Typed, PTL DEF Spec

-----------------------------------------------------------------------------
(***************************************************************************)
(* What the provider is sent.                                              *)
(***************************************************************************)

\* The window takes a conversation that fits into it as a whole.
LEMMA HistoryIsAll ==
    ASSUME TypeInv, NEW t \in Txs, Cardinality(Said(t)) <= Window
    PROVE  Said(t) \subseteq History(session[t])
<1>1. Said(t) \subseteq messages /\ messages \subseteq Message
  BY DEF Said, Of, TypeInv, TypeOK
<1>2. IsFiniteSet(Said(t)) /\ Cardinality(Said(t)) \in Nat
  BY <1>1, FS_Subset, FS_CardinalityType DEF TypeInv, RowsOK
<1>3. ASSUME NEW m \in Said(t) PROVE m \in History(session[t])
  <2> DEFINE before == {k \in Of(session[t]) : k.at < m.at}
  <2>1. before \subseteq Said(t) \ {m}
    <3>1. question[t] \in Nat /\ m.at \in Nat /\ m.at <= question[t]
      BY <1>1 DEF Said, Message, TypeInv, TypeOK
    <3>2. ASSUME NEW k \in before PROVE k \in Said(t) \ {m}
      <4>1. k.at \in Nat /\ k \in Of(session[t]) /\ k.at < m.at
        BY <1>1 DEF Of, Message, TypeInv, TypeOK
      <4> QED BY <3>1, <4>1 DEF Said
    <3> QED BY <3>2
  <2>2. /\ IsFiniteSet(Said(t) \ {m})
        /\ Cardinality(Said(t) \ {m}) = Cardinality(Said(t)) - 1
    BY <1>2, FS_RemoveElement
  <2> HIDE DEF before
  <2>3. Cardinality(before) \in Nat /\ Cardinality(before) <= Cardinality(Said(t)) - 1
    BY <2>1, <2>2, FS_Subset, FS_CardinalityType
  <2>4. Cardinality(before) < Window
    BY <1>2, <2>3, ResearchAssumption
  <2> QED BY <2>4 DEF Said, History, before
<1> QED BY <1>3

\* Nothing that is stored later, and nothing that happens to another session, changes
\* what was said before a question.
LEMMA AskedKept ==
    ASSUME TypeInv, AskedInv, NEW t \in Txs,
           pc'[t] = pc[t], session'[t] = session[t], question'[t] = question[t],
           asked'[t] = asked[t], clock <= clock', TypeInv',
           pc[t] \in {"bump", "history", "stream"} /\ session[t] \in open' =>
               /\ session[t] \in open
               /\ Of(session[t]) \subseteq messages',
           \A m \in messages' : m \in messages \/ m.at >= clock
    PROVE  AskedOK(t)'
<1> SUFFICES ASSUME pc[t] \in {"bump", "history", "stream"}, session[t] \in open'
             PROVE  /\ Stored(t)'
                    /\ pc[t] = "stream" /\ Cardinality(Said(t)') <= Window
                           => Said(t)' \subseteq asked[t]
  BY DEF AskedOK
<1>1. /\ session[t] \in open /\ Of(session[t]) \subseteq messages' /\ Stored(t)
      /\ clock \in Nat /\ question[t] \in Nat
  BY DEF AskedInv, AskedOK, TypeInv, TypeOK
<1>2. Of(session[t]) \subseteq Of(session[t])'
  BY <1>1 DEF Of
<1>3. Stored(t)'
  <2>1. question'[t] < clock'
    BY <1>1 DEF Stored, TypeInv, TypeOK
  <2> QED BY <1>1, <1>2, <2>1 DEF Stored
<1>4. Said(t)' = Said(t)
  <2>1. ASSUME NEW m \in Said(t) PROVE m \in Said(t)'
    BY <1>2, <2>1 DEF Said
  <2>2. ASSUME NEW m \in Said(t)' PROVE m \in Said(t)
    <3>1. m \in messages' /\ m.session = session[t] /\ m.at <= question[t]
      BY <2>2 DEF Said, Of
    <3>2. m.at \in Nat /\ question[t] < clock
      BY <1>1, <3>1 DEF Stored, TypeInv, TypeOK, Message
    <3>3. m \in messages
      BY <1>1, <3>1, <3>2
    <3> QED BY <3>1, <3>3 DEF Said, Of
  <2> QED BY <2>1, <2>2
<1> QED BY <1>1, <1>3, <1>4 DEF AskedInv, AskedOK

\* A step of one request leaves the questions of the others alone.
LEMMA OthersAsked ==
    ASSUME TypeInv, TypeInv', AskedInv, NEW t \in Txs,
           \A u \in Txs \ {t} : /\ pc'[u] = pc[u] /\ session'[u] = session[u]
                                /\ question'[u] = question[u] /\ asked'[u] = asked[u],
           open' = open, messages \subseteq messages', clock <= clock',
           \A m \in messages' : m \in messages \/ m.at >= clock,
           AskedOK(t)'
    PROVE  AskedInv'
<1>1. ASSUME NEW u \in Txs \ {t} PROVE AskedOK(u)'
  <2>1. Of(session[u]) \subseteq messages'
    BY DEF Of
  <2> QED BY <2>1, AskedKept
<1> QED BY <1>1 DEF AskedInv

\* What the sessions, the edition and time change.
LEMMA WorldAsked ==
    ASSUME TypeInv, TypeInv', AskedInv, NEW t \in Txs,
           \/ \E s \in Sessions : CreateSession(s) \/ DeleteSession(s)
           \/ \E l \in Limits : ChangeEdition(l)
           \/ NextMonth \/ Expire \/ UNCHANGED vars
    PROVE  AskedOK(t)'
<1>0. clock \in Nat /\ clock <= clock
  BY DEF TypeInv, TypeOK
<1>1. Of(session[t]) \subseteq messages
  BY DEF Of
<1>2. CASE \E s \in Sessions : CreateSession(s)
  <2>1. PICK s \in Sessions : CreateSession(s)
    BY <1>2
  <2>2. pc[t] \in {"bump", "history", "stream"} => session[t] # s
    BY <2>1 DEF CreateSession, TypeInv, RequestOK
  <2>3. /\ UNCHANGED <<messages, clock, pc, session, question, asked>>
        /\ open' = open \cup {s}
    BY <2>1 DEF CreateSession, known
  <2> QED BY <1>0, <1>1, <2>2, <2>3, AskedKept
<1>3. CASE \E s \in Sessions : DeleteSession(s)
  <2>1. PICK s \in Sessions : DeleteSession(s)
    BY <1>3
  <2>2. /\ UNCHANGED <<clock, pc, session, question, asked>>
        /\ open' = open \ {s} /\ messages' = messages \ Of(s)
    BY <2>1 DEF DeleteSession, known
  <2>3. session[t] \in open' => Of(session[t]) \subseteq messages'
    BY <2>2 DEF Of
  <2>4. \A m \in messages' : m \in messages
    BY <2>2
  <2> QED BY <1>0, <2>2, <2>3, <2>4, AskedKept
<1>4. CASE \/ \E l \in Limits : ChangeEdition(l)
           \/ NextMonth \/ Expire \/ UNCHANGED vars
  <2>1. UNCHANGED <<open, messages, clock, pc, session, question, asked>>
    BY <1>4 DEF ChangeEdition, NextMonth, Expire, vars, rows, known
  <2> QED BY <1>0, <1>1, <2>1, AskedKept
<1> QED BY <1>2, <1>3, <1>4

\* How the check of a request ends for its question.
LEMMA CheckAsked ==
    ASSUME TypeInv, TypeInv', AskedInv, NEW t \in Txs,
           \/ \E s \in Sessions \cup {Null} : Begin(t, s)
           \/ CheckCache(t) \/ MissCache(t) \/ ReadEdition(t) \/ Count(t) \/ FillCache(t)
           \/ FindSession(t) \/ StoreAnswer(t) \/ Fails(t)
    PROVE  AskedInv'
<1> DEFINE Quiet ==
        /\ \A u \in Txs \ {t} : /\ pc'[u] = pc[u] /\ session'[u] = session[u]
                                /\ question'[u] = question[u] /\ asked'[u] = asked[u]
        /\ pc'[t] \notin {"bump", "history", "stream"}
<1>1. ASSUME NEW allowed, NEW stale, Checked(t, allowed, stale)
      PROVE  Quiet
  <2>1. CASE Ends(t)
    BY <2>1 DEF TypeInv, TypeOK, Ends, GoTo
  <2>2. CASE /\ GoTo(t, "store") /\ UNCHANGED <<session, question, asked>>
    BY <2>2 DEF TypeInv, TypeOK, GoTo
  <2> QED BY <1>1, <2>1, <2>2 DEF Checked
<1>2. CASE \/ \E s \in Sessions \cup {Null} : Begin(t, s)
           \/ CheckCache(t) \/ MissCache(t) \/ ReadEdition(t) \/ Count(t) \/ FillCache(t)
           \/ FindSession(t) \/ Fails(t)
  <2>1. UNCHANGED <<open, messages, clock>>
    BY <1>2 DEF Begin, CheckCache, MissCache, ReadEdition, Count, FillCache, FindSession,
       Fails, rows
  <2>2. Quiet
    <3>1. CASE \E s \in Sessions \cup {Null} : Begin(t, s)
      BY <3>1 DEF Begin, GoTo, TypeInv, TypeOK, known
    <3>2. CASE CheckCache(t)
      BY <1>1, <3>2 DEF CheckCache
    <3>3. CASE MissCache(t)
      BY <3>3 DEF MissCache, GoTo, TypeInv, TypeOK
    <3>4. CASE ReadEdition(t)
      <4>1. CASE Checked(t, TRUE, FALSE)
        BY <1>1, <4>1
      <4>2. CASE GoTo(t, "count") /\ UNCHANGED <<session, question, asked>>
        BY <4>2 DEF GoTo, TypeInv, TypeOK
      <4> QED BY <3>4, <4>1, <4>2 DEF ReadEdition
    <3>5. CASE Count(t)
      BY <3>5 DEF Count, GoTo, TypeInv, TypeOK
    <3>6. CASE FillCache(t)
      BY <1>1, <3>6 DEF FillCache
    <3>7. CASE FindSession(t)
      BY <3>7 DEF FindSession, GoTo, TypeInv, TypeOK, known
    <3>8. CASE Fails(t)
      BY <3>8 DEF Fails, Ends, GoTo, TypeInv, TypeOK
    <3> QED BY <1>2, <3>1, <3>2, <3>3, <3>4, <3>5, <3>6, <3>7, <3>8
  <2>3. clock \in Nat /\ clock <= clock
    BY DEF TypeInv, TypeOK
  <2>4. AskedOK(t)'
    BY <2>2 DEF AskedOK
  <2> QED BY <2>1, <2>2, <2>3, <2>4, OthersAsked
<1>3. CASE StoreAnswer(t)
  <2>1. Quiet
    BY <1>3 DEF StoreAnswer, Ends, GoTo, TypeInv, TypeOK
  <2> DEFINE a == [session |-> session[t], role |-> "ASSISTANT", at |-> clock]
  <2>2. open' = open /\ messages' = messages \cup {a} /\ clock' = clock + 1 /\ clock \in Nat
    BY <1>3 DEF StoreAnswer, Insert, TypeInv, TypeOK
  <2>3. a.at >= clock /\ clock <= clock'
    BY <2>2
  <2> HIDE DEF a
  <2>4. AskedOK(t)'
    BY <2>1 DEF AskedOK
  <2> QED BY <2>1, <2>2, <2>3, <2>4, OthersAsked
<1> QED BY <1>2, <1>3

\* The question on its way to the provider.
LEMMA AskAsked ==
    ASSUME TypeInv, TypeInv', AskedInv, NEW t \in Txs,
           StoreQuestion(t) \/ BumpCache(t) \/ ReadHistory(t)
    PROVE  AskedInv'
<1>1. CASE StoreQuestion(t)
  <2> DEFINE q == [session |-> session[t], role |-> "USER", at |-> clock]
  <2>1. /\ messages' = messages \cup {q} /\ clock' = clock + 1 /\ clock \in Nat
        /\ pc' = [pc EXCEPT ![t] = "bump"] /\ question' = [question EXCEPT ![t] = clock]
        /\ UNCHANGED <<open, session, asked>>
    BY <1>1 DEF StoreQuestion, Insert, GoTo, TypeInv, TypeOK
  <2>2. /\ pc'[t] = "bump" /\ question'[t] = clock
        /\ \A u \in Txs \ {t} : pc'[u] = pc[u] /\ question'[u] = question[u]
    BY <2>1 DEF TypeInv, TypeOK
  <2>3. q.at = clock /\ q.session = session[t] /\ q.role = "USER"
    OBVIOUS
  <2> HIDE DEF q
  <2>4. Stored(t)'
    <3>1. q \in Of(session[t])'
      BY <2>1, <2>3 DEF Of
    <3> QED BY <2>1, <2>2, <2>3, <3>1 DEF Stored
  <2>5. AskedOK(t)'
    BY <2>2, <2>4 DEF AskedOK
  <2>6. clock <= clock' /\ q.at >= clock
    BY <2>1, <2>3
  <2> QED BY <2>1, <2>2, <2>5, <2>6, OthersAsked
<1>2. CASE BumpCache(t)
  <2>1. /\ pc[t] = "bump" /\ pc' = [pc EXCEPT ![t] = "history"] /\ clock \in Nat
        /\ UNCHANGED <<open, messages, clock, session, question, asked>>
    BY <1>2 DEF BumpCache, GoTo, TypeInv, TypeOK, rows, known
  <2>2. pc'[t] = "history" /\ \A u \in Txs \ {t} : pc'[u] = pc[u]
    BY <2>1 DEF TypeInv, TypeOK
  <2>3. Stored(t)' = Stored(t)
    BY <2>1 DEF Stored, Of
  <2>4. AskedOK(t)'
    BY <2>1, <2>2, <2>3 DEF AskedOK, AskedInv
  <2>5. clock <= clock
    BY <2>1
  <2> QED BY <2>1, <2>2, <2>4, <2>5, OthersAsked
<1>3. CASE ReadHistory(t)
  <2>1. /\ pc[t] = "history" /\ pc' = [pc EXCEPT ![t] = "stream"] /\ clock \in Nat
        /\ asked' = [asked EXCEPT ![t] = History(session[t])]
        /\ UNCHANGED <<open, messages, clock, session, question>>
    BY <1>3 DEF ReadHistory, GoTo, TypeInv, TypeOK, rows
  <2>2. /\ pc'[t] = "stream" /\ asked'[t] = History(session[t])
        /\ \A u \in Txs \ {t} : pc'[u] = pc[u] /\ asked'[u] = asked[u]
    BY <2>1 DEF TypeInv, TypeOK
  <2>3. Stored(t)' = Stored(t) /\ Said(t)' = Said(t)
    BY <2>1 DEF Stored, Said, Of
  <2>4. Cardinality(Said(t)) <= Window => Said(t) \subseteq History(session[t])
    BY HistoryIsAll
  <2>5. AskedOK(t)'
    BY <2>1, <2>2, <2>3, <2>4 DEF AskedOK, AskedInv
  <2>6. clock <= clock
    BY <2>1
  <2> QED BY <2>1, <2>2, <2>5, <2>6, OthersAsked
<1> QED BY <1>1, <1>2, <1>3

LEMMA NextAsked ==
    ASSUME TypeInv, TypeInv', AskedInv, [Next]_vars
    PROVE  AskedInv'
<1>1. CASE \/ \E s \in Sessions : CreateSession(s) \/ DeleteSession(s)
           \/ \E l \in Limits : ChangeEdition(l)
           \/ NextMonth \/ Expire \/ UNCHANGED vars
  <2>1. ASSUME NEW t \in Txs PROVE AskedOK(t)'
    BY <1>1, WorldAsked, Zenon
  <2> QED BY <2>1 DEF AskedInv
<1>2. CASE \E t \in Txs : (\E s \in Sessions \cup {Null} : Begin(t, s)) \/ Request(t)
  BY <1>2, CheckAsked, AskAsked, Zenon DEF Request
<1> QED BY <1>1, <1>2, Zenon DEF Next

\* What was said up to a question, and the question itself, reaches the provider in any
\* conversation that fits into the window (sendMessage, listResearchMessages).
THEOREM QuestionAsked == Spec => []QuestionIsAsked
<1>1. Init => AskedInv
  BY DEF Init, AskedInv, AskedOK
<1>2. TypeInv /\ TypeInv' /\ AskedInv /\ [Next]_vars => AskedInv'
  BY NextAsked
<1>3. TypeInv /\ AskedInv => QuestionIsAsked
  <2> SUFFICES ASSUME TypeInv, AskedInv, NEW t \in Txs, pc[t] = "stream",
                      session[t] \in open, Cardinality(Said(t)) <= Window
               PROVE  /\ Said(t) \subseteq asked[t]
                      /\ \E m \in asked[t] : m.at = question[t] /\ m.role = "USER"
    BY DEF QuestionIsAsked, Said
  <2>1. Said(t) \subseteq asked[t] /\ Stored(t)
    BY DEF AskedInv, AskedOK
  <2>2. PICK m \in Of(session[t]) : m.at = question[t] /\ m.role = "USER"
    BY <2>1 DEF Stored
  <2>3. m \in Said(t)
    BY <2>2 DEF Said, TypeInv, TypeOK
  <2> QED BY <2>1, <2>2, <2>3
<1> QED BY <1>1, <1>2, <1>3, Typed, PTL DEF Spec
=============================================================================
