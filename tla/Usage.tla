------------------------------- MODULE Usage -------------------------------
(***************************************************************************)
(* What a user's AI calls leave behind: usage records and the daily        *)
(* counters of the heatmap (app/services/usage_analytics.py,               *)
(* app/services/heatmap_service.py), the context gate that reads them back *)
(* (app/routers/ai_proxy.py, app/routers/sessions.py), and the counters of *)
(* a session.  The context length of a record comes from the model cache.  *)
(*                                                                         *)
(* A call passes the gate, waits for the provider, then records what it    *)
(* used in a transaction that reads the day's counters and overwrites      *)
(* them.  One user; a record's time is its place in the order of records.  *)
(***************************************************************************)
EXTENDS ModelCache, Integers, FiniteSetsExt

CONSTANTS
    Answers,      \* what a call may use: [prompt, completion] tokens, 0 if not told
    Reports,      \* what a client may report: [used, size, tokens]
    Default,      \* the context length of a model that is not cached
    Sessions, Deltas,
    MaxCalls, MaxCallsInFlight, MaxDays   \* bounds

Session == [model : Models, lines : Nat]

ASSUME UsageAssumption ==
    /\ NoRow \notin Nat /\ NoRow \notin Session
    /\ Sessions \cap Nat = {}
    /\ \A a \in Answers : a.prompt \in Nat /\ a.completion \in Nat
    /\ \A r \in Reports : r.used \in Nat /\ r.size \in Nat /\ r.tokens \in Nat
    /\ Default \in Nat \ {0} /\ Deltas \subseteq Nat
    /\ MaxCalls \in Nat /\ MaxCallsInFlight \in Nat /\ MaxDays \in Nat

VARIABLES
    records,  \* the committed rows of model_usage
    days,     \* the committed rows of contribution_days: tokens of a day
    session,  \* the committed rows of sessions
    calls,    \* calls and requests that have not ended
    begun,    \* how many have begun
    today,
    alone,    \* of each model, the time of its last record to begin, if no other
              \* of the model was being written then; else 0
    filled,   \* whether the last record of each model to be committed was written
              \* alone and filled the window; one without a size says nothing
    slipped,  \* whether the gate has let one through for a model that is filled
    counted,  \* the last counters to be committed: of a day, of a session
    told      \* the lines that committed requests have reported of a session

windowVars == <<alone, filled>>
usageVars == <<records, days, session, calls, begun, today, slipped, counted, told, windowVars>>
proxyVars == <<cacheVars, usageVars>>

Record == [at : Nat, model : Models, used : Nat, size : Nat, tokens : Nat]
Days == 0..MaxDays

\* Calls of the proxy, reports of a client, and updates of a session.
Call == [id : Nat, op : {"call"}, model : Models]
Recording == [id : Nat, op : {"record"}, record : Record, day : Days, seen : Nat \cup {NoRow}]
Patch == [id : Nat, op : {"patch"}, s : Sessions, seen : Nat, delta : Deltas]

UsageTypeOK ==
    /\ CacheTypeOK
    /\ records \subseteq Record
    /\ days \in [Days -> Nat \cup {NoRow}]
    /\ session \in [Sessions -> Session \cup {NoRow}]
    /\ calls \subseteq Call \cup Recording \cup Patch
    /\ begun \in 0..MaxCalls /\ today \in Days
    /\ slipped \in BOOLEAN /\ filled \in [Models -> BOOLEAN] /\ alone \in [Models -> Nat]
    /\ counted \in [Days \cup Sessions -> Nat]
    /\ told \in [Sessions -> Nat]

UsageInit ==
    /\ CacheInit
    /\ records = {} /\ calls = {} /\ begun = 0 /\ today = 0
    /\ days = [d \in Days |-> NoRow]
    /\ session = [s \in Sessions |-> NoRow]
    /\ slipped = FALSE
    /\ filled = [m \in Models |-> FALSE] /\ alone = [m \in Models |-> 0]
    /\ counted = [x \in Days \cup Sessions |-> 0]
    /\ told = [s \in Sessions |-> 0]

-----------------------------------------------------------------------------
(* The context gate *)

\* Python's round of n / d: a half goes to the even side.
Round(n, d) ==
    LET q == n \div d  rest == 2 * (n % d)
    IN  IF rest > d \/ (rest = d /\ q % 2 = 1) THEN q + 1 ELSE q

RemainingPct(r) == Max({0, 100 - Round(100 * r.used, r.size)})

\* The records get_remaining_pct looks at.
Sized(m) == {r \in records : r.model = m /\ r.size > 0}

\* Faulty: the oldest record.
Latest_Ascending(rs) == CHOOSE r \in rs : \A other \in rs : r.at <= other.at

Latest(rs) == CHOOSE r \in rs : \A other \in rs : other.at <= r.at

IsContextExhausted(m) == Sized(m) # {} /\ RemainingPct(Latest(Sized(m))) = 0

Arrives ==
    /\ begun < MaxCalls /\ Cardinality(calls) < MaxCallsInFlight
    /\ begun' = begun + 1

PassesGate(m) ==
    /\ ~IsContextExhausted(m)
    /\ slipped' = (slipped \/ filled[m])

-----------------------------------------------------------------------------
(* Calls *)

Begins(m) ==
    /\ Arrives
    /\ PassesGate(m)
    /\ calls' = calls \cup {[id |-> begun + 1, op |-> "call", model |-> m]}
    /\ UNCHANGED <<cacheVars, records, days, session, today, counted, told, windowVars>>

\* POST /chat: the response is the call's.
Chat(m) == Begins(m)

\* POST /chat/stream: the gate answers before the stream begins, and the call
\* goes on in the generator of the response, which ends as /chat does.
ChatStream(m) == Begins(m)

ProviderFails(c) ==
    /\ c \in calls /\ c.op = "call"
    /\ calls' = calls \ {c}
    /\ UNCHANGED <<cacheVars, records, days, session, begun, today, slipped, counted, told, windowVars>>

\* The time of the next record.
Stamp ==
    1 + Max({0} \cup {r.at : r \in records}
                \cup {c.record.at : c \in {d \in calls : d.op = "record"}})

\* A record of m begins to be written.
BeginsRecord(m) ==
    alone' = [alone EXCEPT ![m] =
                IF \E c \in calls : c.op = "record" /\ c.record.model = m THEN 0 ELSE Stamp]

\* record_model_usage up to the look-up of today's counters.
Recorded(id, m, used, size, tokens) ==
    [id |-> id, op |-> "record", day |-> today, seen |-> days[today],
     record |-> [at |-> Stamp, model |-> m, used |-> used, size |-> size, tokens |-> tokens]]

ProviderAnswers(c) ==
    /\ c \in calls /\ c.op = "call"
    /\ \E a \in Answers :
          calls' = (calls \ {c}) \cup
              {Recorded(c.id, c.model, a.prompt, ContextWindow(c.model, Default),
                        a.prompt + a.completion)}
    /\ BeginsRecord(c.model)
    /\ UNCHANGED <<cacheVars, records, days, session, begun, today, slipped, counted, told, filled>>

\* A client that calls a provider itself reports what it used, within a session.
RecordUsage(m, report) ==
    /\ \E s \in Sessions : session[s] # NoRow
    /\ ~(report.size > 0 /\ report.used >= report.size)
    /\ Arrives
    /\ calls' = calls \cup {Recorded(begun + 1, m, report.used, report.size, report.tokens)}
    /\ BeginsRecord(m)
    /\ UNCHANGED <<cacheVars, records, days, session, today, slipped, counted, told, filled>>

Counters(seen) == IF seen = NoRow THEN 0 ELSE seen

Fills(r) == alone[r.model] = r.at /\ r.used >= r.size

\* A row of counters is unique to a day: the second insertion fails.
RecordCommit(c) ==
    /\ c \in calls /\ c.op = "record"
    /\ c.seen = NoRow => days[c.day] = NoRow
    /\ calls' = calls \ {c}
    /\ records' = records \cup {c.record}
    /\ days' = [days EXCEPT ![c.day] = Counters(c.seen) + c.record.tokens]
    /\ counted' = [counted EXCEPT ![c.day] = c.record.tokens]
    /\ filled' = [filled EXCEPT ![c.record.model] =
                     IF c.record.size = 0 THEN @ ELSE Fills(c.record)]
    /\ UNCHANGED <<cacheVars, session, begun, today, slipped, told, alone>>

\* Faulty: the counters are committed before the record.
RecordAborts_CountersKept(c) ==
    /\ c \in calls /\ c.op = "record"
    /\ calls' = calls \ {c}
    /\ days' = [days EXCEPT ![c.day] = Counters(c.seen) + c.record.tokens]
    /\ UNCHANGED <<cacheVars, records, session, begun, today, slipped, counted, told, windowVars>>

\* The record and the counters go together; the answer is returned all the same.
RecordAborts(c) ==
    /\ c \in calls /\ c.op = "record"
    /\ calls' = calls \ {c}
    /\ UNCHANGED <<cacheVars, records, days, session, begun, today, slipped, counted, told, windowVars>>

NewDay ==
    /\ today < MaxDays
    /\ today' = today + 1
    /\ UNCHANGED <<cacheVars, records, days, session, calls, begun, slipped, counted, told, windowVars>>

-----------------------------------------------------------------------------
(* Sessions *)

CreateSession(s, m) ==
    /\ session[s] = NoRow
    /\ Arrives
    /\ PassesGate(m)
    /\ session' = [session EXCEPT ![s] = [model |-> m, lines |-> 0]]
    /\ UNCHANGED <<cacheVars, records, days, calls, today, counted, told, windowVars>>

\* A message of the user is gated, one of any other role is not.
CreateMessage(s) ==
    /\ session[s] # NoRow
    /\ Arrives
    /\ PassesGate(session[s].model) \/ UNCHANGED slipped
    /\ UNCHANGED <<cacheVars, records, days, session, calls, today, counted, told, windowVars>>

UpdateSession(s, delta) ==
    /\ session[s] # NoRow
    /\ Arrives
    /\ calls' = calls \cup {[id |-> begun + 1, op |-> "patch", s |-> s,
                             seen |-> session[s].lines, delta |-> delta]}
    /\ UNCHANGED <<cacheVars, records, days, session, today, slipped, counted, told, windowVars>>

UpdateCommit(c) ==
    /\ c \in calls /\ c.op = "patch"
    /\ calls' = calls \ {c}
    /\ session' = [session EXCEPT ![c.s].lines = c.seen + c.delta]
    /\ counted' = [counted EXCEPT ![c.s] = c.delta]
    /\ told' = [told EXCEPT ![c.s] = @ + c.delta]
    /\ UNCHANGED <<cacheVars, records, days, begun, today, slipped, windowVars>>

-----------------------------------------------------------------------------

UsageNext ==
    \/ CacheNext /\ UNCHANGED usageVars
    \/ \E m \in Models :
        \/ Chat(m) \/ ChatStream(m)
        \/ \E report \in Reports : RecordUsage(m, report)
        \/ \E s \in Sessions : CreateSession(s, m)
    \/ \E s \in Sessions : CreateMessage(s) \/ \E delta \in Deltas : UpdateSession(s, delta)
    \/ \E c \in calls :
        \/ ProviderFails(c) \/ ProviderAnswers(c)
        \/ RecordCommit(c) \/ RecordAborts(c) \/ UpdateCommit(c)
    \/ NewDay

UsageSpec == UsageInit /\ [][UsageNext]_proxyVars

-----------------------------------------------------------------------------

\* Once a record that no other of its model overlapped has filled the window, no
\* call, session or message of the user is let through for the model, until a
\* later record says otherwise: not by reports without a size, by calls of other
\* models, by refreshes that change the length, nor by rounding
\* (is_context_exhausted in ai_chat, ai_chat_stream, create_session and
\* create_message, which asks it for messages of the role "user" only).
GateHolds == ~slipped

Total(f) == MapThenSumSet(LAMBDA x : Counters(f[x]), DOMAIN f)

\* Overlapping calls lose updates, but the counters never run ahead of what was
\* reported, nor below the last report that was committed: those of all days
\* against the usage records, those of a session against its updates
\* (update_contribution_day, update_session).
CountersWithinReports ==
    /\ Total(days) <= MapThenSumSet(LAMBDA r : r.tokens, records)
    /\ \A d \in Days : counted[d] <= Counters(days[d])
    /\ \A s \in Sessions : session[s] # NoRow =>
           counted[s] <= session[s].lines /\ session[s].lines <= told[s]
=============================================================================
