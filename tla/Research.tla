------------------------------ MODULE Research ------------------------------
(***************************************************************************)
(* AI research of one firm (research.service.ts): sessions with their      *)
(* messages, and the monthly limit on questions, which is counted in the   *)
(* database and kept in a cache of the process for a short time.           *)
(*                                                                         *)
(* A handler gives way to others at every await: one action per await,     *)
(* with the code that runs up to the next one.                             *)
(*                                                                         *)
(* Left out: editions without research, which the routes refuse; the       *)
(* excerpts and sources of an answer; the difference between the UTC month *)
(* of the cache and the local one of the count.                            *)
(***************************************************************************)
EXTENDS Integers, FiniteSets

CONSTANTS
    Txs,          \* requests that run at the same time
    Sessions,     \* ids of sessions
    Limits,       \* monthly limits of editions, 0 for an unlimited one
    Window,       \* messages of a session the provider is sent
    MaxMessages,  \* bound: messages stored
    MaxMonth,     \* bound: months that pass
    Null

Months == 0 .. MaxMonth

ASSUME ResearchAssumption ==
    /\ Limits \subseteq Nat
    /\ Window \in Nat /\ MaxMessages \in Nat /\ MaxMonth \in Nat
    /\ IsFiniteSet(Txs)
    /\ Null \notin Sessions \cup Nat \cup [used : Nat, limit : Nat]

VARIABLES
    month,     \* the calendar month
    limit,     \* limit of the firm's edition and AI_MONTHLY_LIMIT
    created,   \* ResearchSession.createdAt, Null before
    open,      \* sessions that have a row
    messages,  \* ResearchMessage rows; clock stands for createdAt
    clock,
    usage,     \* usageCache: the fresh entry of this month, Null without one
    pc,        \* what a request is waiting for
    session,   \* its session, Null for GET /usage
    seen,      \* what it knows of the usage
    question,  \* createdAt of the question it stored
    asked,     \* chatMessages: what it sends to the provider
    inForce,   \* auxiliary: limits in force this month
    raced,     \* auxiliary: the usage of this month was counted past a question
    spent      \* auxiliary: questions stored this month, those of deleted sessions too

rows  == <<created, open, messages, clock>>
known == <<seen, question, asked>>
aux   == <<inForce, raced, spent>>
vars  == <<month, limit, rows, usage, pc, session, known, aux>>

Message == [session : Sessions, role : {"USER", "ASSISTANT"}, at : Nat]
Entry   == [used : Nat, limit : Nat]
Seen    == [key : Months \cup {Null}, since : Months, limit : Nat, used : Nat, stale : BOOLEAN]

NothingSeen == [key |-> Null, since |-> 0, limit |-> 0, used |-> 0, stale |-> FALSE]

-----------------------------------------------------------------------------

\* countFirmUserResearchMessagesSince: questions of the sessions created since then.
AskedSince(k) == {m \in messages : m.role = "USER" /\ created[m.session] >= k}

Charged == AskedSince(month)

Allowed(used, max) == used < max

\* Seeded fault: the cached usage is left as it was counted.
Kept(entry) == entry

\* The cached usage once a question is stored.
Bumped(entry) == [entry EXCEPT !.used = @ + 1]

Of(s) == {m \in messages : m.session = s}

\* Seeded fault: one message short of the window.
ShortHistory(s) ==
    {m \in Of(s) : Cardinality({k \in Of(s) : k.at < m.at}) < Window - 1}

\* listResearchMessages: the oldest messages, in ascending order.
History(s) == {m \in Of(s) : Cardinality({k \in Of(s) : k.at < m.at}) < Window}

-----------------------------------------------------------------------------
(***************************************************************************)
(* Sessions, editions and time.                                            *)
(***************************************************************************)

CreateSession(s) ==
    /\ created[s] = Null
    /\ created' = [created EXCEPT ![s] = month]
    /\ open' = open \cup {s}
    /\ UNCHANGED <<month, limit, messages, clock, usage, pc, session, known, aux>>

\* The messages go with their session.
DeleteSession(s) ==
    /\ s \in open
    /\ open' = open \ {s}
    /\ messages' = messages \ Of(s)
    /\ UNCHANGED <<month, limit, created, clock, usage, pc, session, known, aux>>

ChangeEdition(l) ==
    /\ limit' = l
    /\ inForce' = inForce \cup {l}
    /\ UNCHANGED <<month, rows, usage, pc, session, known, raced, spent>>

\* The key of the cache holds the month: the entries of another are not found any more.
NextMonth ==
    /\ month < MaxMonth
    /\ month' = month + 1
    /\ usage' = Null
    /\ inForce' = {limit}
    /\ raced' = FALSE
    /\ spent' = {}
    /\ UNCHANGED <<limit, rows, pc, session, known>>

\* RESEARCH_USAGE_CACHE_TTL_MS
Expire ==
    /\ usage # Null
    /\ usage' = Null
    /\ UNCHANGED <<month, limit, rows, pc, session, known, aux>>

-----------------------------------------------------------------------------
(***************************************************************************)
(* checkUsageLimit.                                                        *)
(***************************************************************************)

GoTo(t, step) == pc' = [pc EXCEPT ![t] = step]

\* The request is answered, or refused; nothing of it is kept.
Ends(t) ==
    /\ GoTo(t, "done")
    /\ session' = [session EXCEPT ![t] = Null]
    /\ seen' = [seen EXCEPT ![t] = NothingSeen]
    /\ question' = [question EXCEPT ![t] = 0]
    /\ asked' = [asked EXCEPT ![t] = {}]

\* GET /usage only wants to know.
Checked(t, allowed, stale) ==
    \/ /\ session[t] # Null /\ allowed
       /\ GoTo(t, "store")
       /\ seen' = [seen EXCEPT ![t] = [NothingSeen EXCEPT !.stale = stale]]
       /\ UNCHANGED <<session, question, asked>>
    \/ /\ session[t] = Null \/ ~allowed
       /\ Ends(t)

\* A question that is stored but not yet in the cache.
Unbumped(t) == \E u \in Txs \ {t} : pc[u] = "bump"

CheckCache(t) ==
    /\ pc[t] = "check"
    /\ usage # Null
    /\ Checked(t, Allowed(usage.used, usage.limit), Unbumped(t))
    /\ UNCHANGED <<month, limit, rows, usage, aux>>

MissCache(t) ==
    /\ pc[t] = "check"
    /\ usage = Null
    /\ GoTo(t, "edition")
    /\ seen' = [seen EXCEPT ![t].key = month]
    /\ UNCHANGED <<month, limit, rows, usage, session, question, asked, aux>>

ReadEdition(t) ==
    /\ pc[t] = "edition"
    /\ \/ /\ limit = 0
          /\ Checked(t, TRUE, FALSE)
       \/ /\ limit > 0
          /\ GoTo(t, "count")
          /\ seen' = [seen EXCEPT ![t].limit = limit, ![t].since = month]
          /\ UNCHANGED <<session, question, asked>>
    /\ UNCHANGED <<month, limit, rows, usage, aux>>

Count(t) ==
    /\ pc[t] = "count"
    /\ GoTo(t, "cache")
    /\ seen' = [seen EXCEPT ![t].used = Cardinality(AskedSince(seen[t].since)),
                           ![t].stale = FALSE]
    /\ UNCHANGED <<month, limit, rows, usage, session, question, asked, aux>>

FillCache(t) ==
    /\ pc[t] = "cache"
    /\ usage' = IF seen[t].key = month
                THEN [used |-> seen[t].used, limit |-> seen[t].limit] ELSE usage
    /\ Checked(t, Allowed(seen[t].used, seen[t].limit), seen[t].stale)
    /\ raced' = (raced \/ (seen[t].stale /\ seen[t].key = month))
    /\ UNCHANGED <<month, limit, rows, inForce, spent>>

-----------------------------------------------------------------------------
(***************************************************************************)
(* sendMessage.                                                            *)
(***************************************************************************)

Begin(t, s) ==
    /\ pc[t] = "done"
    /\ s # Null => created[s] # Null
    /\ session' = [session EXCEPT ![t] = s]
    /\ GoTo(t, IF s = Null THEN "check" ELSE "find")
    /\ UNCHANGED <<month, limit, rows, usage, known, aux>>

FindSession(t) ==
    /\ pc[t] = "find"
    /\ session[t] \in open
    /\ GoTo(t, "check")
    /\ UNCHANGED <<month, limit, rows, usage, session, known, aux>>

Insert(t, role) ==
    /\ session[t] \in open
    /\ clock < MaxMessages
    /\ messages' = messages \cup {[session |-> session[t], role |-> role, at |-> clock]}
    /\ clock' = clock + 1
    /\ UNCHANGED <<created, open>>

\* Whoever has counted, or decided to store a question, did so without this one.
StoreQuestion(t) ==
    /\ pc[t] = "store"
    /\ Insert(t, "USER")
    /\ GoTo(t, "bump")
    /\ question' = [question EXCEPT ![t] = clock]
    /\ seen' = [u \in Txs |-> IF u # t /\ pc[u] \in {"cache", "store"}
                              THEN [seen[u] EXCEPT !.stale = TRUE]
                              ELSE IF u = t THEN NothingSeen ELSE seen[u]]
    /\ raced' = (raced \/ seen[t].stale)
    /\ spent' = spent \cup (messages' \ messages)
    /\ UNCHANGED <<month, limit, usage, session, asked, inForce>>

BumpCache(t) ==
    /\ pc[t] = "bump"
    /\ usage' = IF usage = Null THEN Null ELSE Bumped(usage)
    /\ GoTo(t, "history")
    /\ UNCHANGED <<month, limit, rows, session, known, aux>>

ReadHistory(t) ==
    /\ pc[t] = "history"
    /\ asked' = [asked EXCEPT ![t] = History(session[t])]
    /\ GoTo(t, "stream")
    /\ UNCHANGED <<month, limit, rows, usage, session, seen, question, aux>>

StoreAnswer(t) ==
    /\ pc[t] = "stream"
    /\ Insert(t, "ASSISTANT")
    /\ Ends(t)
    /\ UNCHANGED <<month, limit, usage, aux>>

\* The session is gone, or the database or the provider fails: the page is told.
Fails(t) ==
    /\ \/ pc[t] \in {"find", "store"} /\ session[t] \notin open
       \/ pc[t] \in {"edition", "count", "history", "stream"}
    /\ Ends(t)
    /\ UNCHANGED <<month, limit, rows, usage, aux>>

-----------------------------------------------------------------------------

Init ==
    /\ month = 0 /\ limit \in Limits
    /\ created = [s \in Sessions |-> Null] /\ open = {} /\ messages = {} /\ clock = 0
    /\ usage = Null
    /\ pc = [t \in Txs |-> "done"]
    /\ session = [t \in Txs |-> Null]
    /\ seen = [t \in Txs |-> NothingSeen]
    /\ question = [t \in Txs |-> 0]
    /\ asked = [t \in Txs |-> {}]
    /\ inForce = {limit} /\ raced = FALSE /\ spent = {}

Request(t) ==
    \/ CheckCache(t) \/ MissCache(t) \/ ReadEdition(t) \/ Count(t) \/ FillCache(t)
    \/ FindSession(t) \/ StoreQuestion(t) \/ BumpCache(t) \/ ReadHistory(t)
    \/ StoreAnswer(t) \/ Fails(t)

Next ==
    \/ \E s \in Sessions : CreateSession(s) \/ DeleteSession(s)
    \/ \E l \in Limits : ChangeEdition(l)
    \/ NextMonth \/ Expire
    \/ \E t \in Txs : \/ \E s \in Sessions \cup {Null} : Begin(t, s)
                      \/ Request(t)

Spec == Init /\ [][Next]_vars

-----------------------------------------------------------------------------
(***************************************************************************)
(* Properties.                                                             *)
(***************************************************************************)

Steps == {"find", "check", "edition", "count", "cache", "store", "bump", "history",
          "stream", "done"}

\* Every variable has its type.
TypeOK ==
    /\ month \in Months /\ limit \in Limits
    /\ created \in [Sessions -> Months \cup {Null}]
    /\ open \subseteq Sessions
    /\ messages \subseteq Message /\ clock \in Nat
    /\ usage \in Entry \cup {Null}
    /\ pc \in [Txs -> Steps]
    /\ session \in [Txs -> Sessions \cup {Null}]
    /\ seen \in [Txs -> Seen]
    /\ question \in [Txs -> Nat]
    /\ asked \in [Txs -> SUBSET Message]
    /\ inForce \subseteq Limits /\ raced \in BOOLEAN
    /\ spent \subseteq Message

\* Questions of this month that countFirmUserResearchMessagesSince does not find: they
\* went with their session, or their session was created in an earlier month.
Uncounted == {m \in spent : m.session \notin open \/ created[m.session] # month}

\* The questions stored in a month, those of deleted sessions too, pass the limit of
\* every edition of that month by no more than the count cannot find any more, but for
\* requests that overlap between the count or the check and the cache: neither the time
\* an entry is kept, nor its counting on, nor a change of edition lets one more through
\* (checkUsageLimit, sendMessage).  It is not the maximum of messages a month that the
\* documentation promises: deleting a session gives its questions back.
LimitPassedByUncounted ==
    ~raced => \E l \in inForce :
        l = 0 \/ Cardinality(spent) <= l + Cardinality(Uncounted)

\* What the provider is sent holds the question and all that was said before it, as
\* long as the conversation fits into the window (sendMessage, listResearchMessages).
QuestionIsAsked ==
    \A t \in Txs :
        LET said == {m \in Of(session[t]) : m.at <= question[t]}
        IN  pc[t] = "stream" /\ session[t] \in open /\ Cardinality(said) <= Window
                => /\ said \subseteq asked[t]
                   /\ \E m \in asked[t] : m.at = question[t] /\ m.role = "USER"

=============================================================================
