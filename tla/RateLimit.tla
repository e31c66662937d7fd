----------------------------- MODULE RateLimit -----------------------------
(***************************************************************************)
(* The sliding-window limit on the AI requests of one user                 *)
(* (app/services/rate_limit.py): the sorted set ratelimit:<user>:ai in     *)
(* Redis, shared by every worker process.                                  *)
(*                                                                         *)
(* A request reads its plan and the clock, then runs one pipeline (prune,  *)
(* count, add, expire) that Redis executes at once.  When it is denied it  *)
(* reads the oldest score with a second command and removes its own entry  *)
(* with a third; others run theirs in between.  Clocks agree; at most      *)
(* MaxDelay passes between reading the clock and the pipeline.             *)
(***************************************************************************)
EXTENDS Integers, Sequences, FiniteSets

CONSTANTS
    Window,      \* WINDOW_SECONDS, in ticks
    Second,      \* the ticks in a second: retry_after is in seconds
    Limits,      \* the limits of the plans
    MaxDelay,    \* assumed bound on the age of a clock reading
    MaxRequests, \* bound on the requests
    MaxTime,     \* bound on the clock
    MaxInFlight, \* bound on the requests between their steps
    MayVanish    \* whether a denied request may end before it cleans up

ASSUME ConstantsAssumption ==
    /\ Window \in Nat \ {0} /\ Second \in Nat \ {0}
    /\ Limits \subseteq Nat \ {0}
    /\ MaxDelay \in 0..Window
    /\ MaxRequests \in Nat /\ MaxTime \in Nat /\ MaxInFlight \in Nat
    /\ MayVanish \in BOOLEAN

VARIABLES
    now,
    started,   \* number of requests so far: the last id
    flight,    \* requests between their steps
    entries,   \* the sorted set: its members with their scores
    touched,   \* when the time to live of the key was last set
    admitted,  \* every admission in order: id, score, limit, when it was decided
    denied     \* the last denial to read the oldest score, if no pipeline ran since

vars == <<now, started, flight, entries, touched, admitted, denied>>

Request == [id : Nat, stamp : Nat, limit : Limits, step : {"stamped", "denied", "told"}]
Entry == [id : Nat, stamp : Nat]
Admission == [id : Nat, stamp : Nat, limit : Limits, at : Nat]
\* wait is the retry_after, until when it has passed, others how many entries
\* there were but its own.
Denial == [id : Nat, limit : Nat, wait : Nat, until : Nat, others : Nat]
NoDenial == [id |-> 0, limit |-> 0, wait |-> 0, until |-> 0, others |-> 0]

TypeOK ==
    /\ now \in Nat /\ started \in Nat /\ touched \in Nat
    /\ flight \subseteq Request
    /\ entries \subseteq Entry
    /\ admitted \in Seq(Admission)
    /\ denied \in Denial

Init ==
    /\ now = 0 /\ started = 0 /\ touched = 0
    /\ flight = {} /\ entries = {} /\ admitted = <<>>
    /\ denied = NoDenial

Tick ==
    /\ now < MaxTime
    /\ \A r \in flight : r.step = "stamped" => now < r.stamp + MaxDelay
    /\ now' = now + 1
    /\ UNCHANGED <<started, flight, entries, touched, admitted, denied>>

\* The plan and the clock are read.
Begin(limit) ==
    /\ started < MaxRequests
    /\ Cardinality(flight) < MaxInFlight
    /\ started' = started + 1
    /\ flight' = flight \cup {[id |-> started + 1, stamp |-> now, limit |-> limit,
                               step |-> "stamped"]}
    /\ UNCHANGED <<now, entries, touched, admitted, denied>>

\* zremrangebyscore -inf .. stamp - Window, both ends included.
Pruned(stamp) == {e \in entries : e.stamp > stamp - Window}

\* Faulty: scores the request with the start of the window.
Execute_WindowStart(r) ==
    /\ r.step = "stamped"
    /\ entries' = Pruned(r.stamp) \cup {[id |-> r.id, stamp |-> r.stamp - Window]}
    /\ touched' = now

\* The pipeline; the count is taken before the request is added.
Execute(r) ==
    /\ r.step = "stamped"
    /\ entries' = Pruned(r.stamp) \cup {[id |-> r.id, stamp |-> r.stamp]}
    /\ touched' = now

\* Faulty: one too many.
Allow_OffByOne(r) ==
    /\ Execute(r)
    /\ Cardinality(Pruned(r.stamp)) <= r.limit
    /\ flight' = flight \ {r}
    /\ admitted' = Append(admitted, [id |-> r.id, stamp |-> r.stamp,
                                     limit |-> r.limit, at |-> now])
    /\ denied' = NoDenial
    /\ UNCHANGED <<now, started>>

Allow(r) ==
    /\ Execute(r)
    /\ Cardinality(Pruned(r.stamp)) < r.limit
    /\ flight' = flight \ {r}
    /\ admitted' = Append(admitted, [id |-> r.id, stamp |-> r.stamp,
                                     limit |-> r.limit, at |-> now])
    /\ denied' = NoDenial
    /\ UNCHANGED <<now, started>>

Deny(r) ==
    /\ Execute(r)
    /\ Cardinality(Pruned(r.stamp)) >= r.limit
    /\ flight' = (flight \ {r}) \cup {[r EXCEPT !.step = "denied"]}
    /\ denied' = NoDenial
    /\ UNCHANGED <<now, started, admitted>>

\* Faulty: rounds the wait down.
RetryAfter_RoundDown(oldest, stamp) ==
    LET seconds == (oldest + Window - stamp) \div Second
    IN  IF seconds > 1 THEN seconds ELSE 1

RetryAfter(oldest, stamp) ==
    LET seconds == (oldest + Window - stamp) \div Second + 1
    IN  IF seconds > 1 THEN seconds ELSE 1

Oldest == {e \in entries : \A d \in entries : e.stamp <= d.stamp}

Waits(r) == IF entries = {} THEN {Window \div Second}
                            ELSE {RetryAfter(e.stamp, r.stamp) : e \in Oldest}

NotOf(id) == {e \in entries : e.id # id}

\* The second command: the oldest score, of which the wait is computed.
ReadOldest(r) ==
    /\ r.step = "denied"
    /\ flight' = (flight \ {r}) \cup {[r EXCEPT !.step = "told"]}
    /\ \E seconds \in Waits(r) :
          denied' = [id |-> r.id, limit |-> r.limit, wait |-> Second * seconds,
                     until |-> now + Second * seconds,
                     others |-> Cardinality(NotOf(r.id))]
    /\ UNCHANGED <<now, started, entries, touched, admitted>>

\* The third: the own entry is removed, and the reply is sent.
Refuse(r) ==
    /\ r.step = "told"
    /\ entries' = NotOf(r.id)
    /\ flight' = flight \ {r}
    /\ denied' = IF denied.id = r.id THEN [denied EXCEPT !.until = now + denied.wait]
                                    ELSE denied
    /\ UNCHANGED <<now, started, touched, admitted>>

\* The request is cancelled or its worker ends: its entry stays.
Vanish(r) ==
    /\ MayVanish
    /\ r.step \in {"denied", "told"}
    /\ flight' = flight \ {r}
    /\ denied' = IF denied.id = r.id THEN NoDenial ELSE denied
    /\ UNCHANGED <<now, started, entries, touched, admitted>>

\* The key was not used for twice the window.
ExpireKey ==
    /\ entries # {}
    /\ now >= touched + 2 * Window
    /\ entries' = {}
    /\ UNCHANGED <<now, started, flight, touched, admitted, denied>>

CheckRateLimit(r) == Allow(r) \/ Deny(r) \/ ReadOldest(r) \/ Refuse(r) \/ Vanish(r)

Next ==
    \/ Tick
    \/ \E limit \in Limits : Begin(limit)
    \/ \E r \in flight : CheckRateLimit(r)
    \/ ExpireKey

Spec == Init /\ [][Next]_vars

-----------------------------------------------------------------------------

\* The sliding window, whatever the order in which the pipelines run, whatever
\* denied requests leave behind and when Redis drops the key: of the admissions
\* up to the i-th, those less than a window before it - shortened by the age a
\* clock reading may have - are within its limit (check_rate_limit).
InWindowOf(i) ==
    {j \in 1..i : admitted[j].at > admitted[i].at - (Window - MaxDelay)}

WithinLimit ==
    \A i \in 1..Len(admitted) : Cardinality(InWindowOf(i)) <= admitted[i].limit

\* The wait is long enough: who was denied with no more than the limit of its
\* plan in the window, waits for the Retry-After and has the window to itself
\* from the reading of the oldest score on, is admitted under that plan -
\* although the wait is rounded to seconds, starts when the reply is sent, may
\* be counted from the denied request's own entry, and other denied requests
\* still remove theirs.  A pipeline that runs after the reading is not covered:
\* one that is admitted on the way to the reply, under a higher plan, takes the
\* place the wait was counted for (check_rate_limit).
RetryAfterSuffices ==
    denied # NoDenial /\ denied.others <= denied.limit
        /\ flight = {} /\ now >= denied.until
        => Cardinality(Pruned(now)) < denied.limit

=============================================================================
