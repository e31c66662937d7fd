----------------------------- MODULE NightlyJob -----------------------------
(***************************************************************************)
(* The nightly job (app/jobs/expiry_checker.py) as every worker process    *)
(* runs it: one transaction that counts a trial day for each free user,    *)
(* ends elapsed grace periods and queues reminder e-mails                  *)
(* (app/services/email.py).  The scheduler (app/scheduler.py) lives in     *)
(* memory, so each worker runs the job each night.                         *)
(*                                                                         *)
(* The transaction is split where workers can meet: the read of the users, *)
(* the flush that locks their rows until the commit, the flush of the      *)
(* expired rows, the look-ups of the reminders, the commit.  READ          *)
(* COMMITTED: a look-up sees what other workers have committed by then.    *)
(*                                                                         *)
(* The job runs shortly after midnight and periods end later in the day:   *)
(* a period that ends on day e has e - night full days left.  Each user    *)
(* has an e-mail address and at most one subscription; webhooks run before *)
(* the job of the night (their races are the subject of WebhookTx).        *)
(***************************************************************************)
EXTENDS Processes, Integers, FiniteSets

CONSTANTS
    Users,
    TrialDays,   \* TRIAL_DAYS
    Thresholds,  \* remaining days that call for a trial reminder
    SoonDays,    \* threshold_days of is_trial_expiring_soon
    WarnDays,    \* the grace-warning window
    RenewDays,   \* the renewal-reminder window
    Grace, Period,
    StartUsed,   \* trial days each user carries over at sign-up
    MaxNight     \* bound on the nights

ASSUME NightlyAssumption ==
    /\ IsFiniteSet(Workers)
    /\ None \notin Nat
    /\ {TrialDays, WarnDays, RenewDays, Grace, Period, MaxNight} \subseteq Nat
    /\ SoonDays \in Nat
    /\ Thresholds \subseteq 1..SoonDays
    /\ StartUsed \in [Users -> 0..TrialDays]

VARIABLES
    night,
    used,   \* users.trial_days_used
    plan,   \* users.plan
    sub,    \* the subscription of each user
    mails,  \* the pending and sent rows of email_queue
    job     \* the run of each worker tonight

nightlyVars == <<night, used, plan, sub, mails, job>>

Sub == [status : {"none", "active", "past_due", "expired"},
        end : Nat \cup {None}, grace : Nat \cup {None}]

\* A queued e-mail.  Its email_type is kind and days, on its created_at; until
\* (the end of the period it is about) and by (the worker that queued it) are
\* not in the row.
Mail == [user : Users, kind : {"trial", "renewal", "grace"}, days : Nat,
         on : 0..MaxNight, until : Nat \cup {None}, by : Workers]

\* seen is what the worker read of users.trial_days_used.
Steps == {"waiting", "read", "trial", "grace", "remind"}
Finished == {"done", "raised", "down"}
Waiting == [step |-> "waiting", seen |-> [u \in Users |-> None],
            expired |-> {}, queued |-> {}]

NightlyTypeOK ==
    /\ night \in 0..MaxNight
    /\ used \in [Users -> 0..TrialDays]
    /\ plan \in [Users -> {"free", "pro"}]
    /\ sub \in [Users -> Sub]
    /\ mails \subseteq Mail
    /\ job \in [Workers -> [step : Steps \cup Finished,
                            seen : [Users -> 0..(TrialDays - 1) \cup {None}],
                            expired : SUBSET Users,
                            queued : SUBSET Mail]]

NightlyInit ==
    /\ night = 0
    /\ used = StartUsed
    /\ plan = [u \in Users |-> "free"]
    /\ sub = [u \in Users |-> [status |-> "none", end |-> None, grace |-> None]]
    /\ mails = {}
    /\ job = [w \in Workers |-> Waiting]

-----------------------------------------------------------------------------
(* Webhooks of the day, and the night that follows.                        *)

Daytime == \A w \in Workers : job[w].step = "waiting"

\* subscription.activated or a renewal.
Activate(u) ==
    /\ Daytime
    /\ sub[u].status = "active" => sub[u].end <= night
    /\ sub' = [sub EXCEPT ![u].status = "active", ![u].end = night + Period]
    /\ plan' = [plan EXCEPT ![u] = "pro"]
    /\ UNCHANGED <<night, used, mails, job>>

Revoke(u) ==
    /\ Daytime
    /\ sub[u].status = "active"
    /\ sub' = [sub EXCEPT ![u].status = "past_due", ![u].grace = night + Grace]
    /\ UNCHANGED <<night, used, plan, mails, job>>

NextNight ==
    /\ \A w \in Workers : job[w].step \in Finished
    /\ night < MaxNight
    /\ night' = night + 1
    /\ job' = [w \in Workers |-> Waiting]
    /\ UNCHANGED <<used, plan, sub, mails>>

-----------------------------------------------------------------------------
(* run_expiry_checker of worker w.                                         *)

\* The look-up compares user_id and email_type: neither the period nor the night.
SameReminder(m, n) == m.user = n.user /\ m.kind = n.kind /\ m.days = n.days
Live(m) == {x \in mails : SameReminder(x, m)}

\* scalar_one_or_none of two rows raises, and the job rolls back as a whole.
LookupRaises(wanted) == \E m \in wanted : Cardinality(Live(m)) > 1

\* Faulty: queues without looking.
NotYetQueued_Again(wanted) == wanted

NotYetQueued(wanted) == {m \in wanted : Live(m) = {}}

Raise(w) ==
    /\ job' = [job EXCEPT ![w] = [Waiting EXCEPT !.step = "raised"]]
    /\ UNCHANGED <<night, used, plan, sub, mails>>

Proceed(w, run) ==
    /\ job' = [job EXCEPT ![w] = run]
    /\ UNCHANGED <<night, used, plan, sub, mails>>

\* Faulty: counts one day more.
OnTrial_Inclusive(u) == plan[u] = "free" /\ used[u] <= TrialDays

OnTrial(u) == plan[u] = "free" /\ used[u] < TrialDays

ReadUsers(w) ==
    /\ job[w].step = "waiting"
    /\ Proceed(w, [job[w] EXCEPT !.step = "read",
                       !.seen = [u \in Users |-> IF OnTrial(u) THEN used[u]
                                                              ELSE None]])

\* The row of u in users is locked by the open transaction of v.
HoldsUser(v, u) ==
    /\ job[v].step \in {"trial", "grace", "remind"}
    /\ job[v].seen[u] # None \/ u \in job[v].expired

TrialReminders(w) ==
    {[user |-> u, kind |-> "trial", days |-> TrialDays - (job[w].seen[u] + 1),
      on |-> night, until |-> None, by |-> w] :
        u \in {x \in Users : /\ job[w].seen[x] # None
                             /\ TrialDays - (job[w].seen[x] + 1) \in Thresholds}}

\* Faulty: the reminders are looked up without having locked the users.
IncrementTrialDays_NoLock(w) ==
    /\ job[w].step = "read"
    /\ IF LookupRaises(TrialReminders(w))
       THEN Raise(w)
       ELSE Proceed(w, [job[w] EXCEPT !.step = "trial",
                            !.queued = NotYetQueued(TrialReminders(w))])

\* Every increment is flushed before a reminder is looked up: a worker waits
\* here for the commit of another that increments the same user.
IncrementTrialDays(w) ==
    /\ job[w].step = "read"
    /\ \A v \in Workers \ {w}, u \in Users :
          job[w].seen[u] # None => ~HoldsUser(v, u)
    /\ IF LookupRaises(TrialReminders(w))
       THEN Raise(w)
       ELSE Proceed(w, [job[w] EXCEPT !.step = "trial",
                            !.queued = NotYetQueued(TrialReminders(w))])

Elapsed(u) == sub[u].status = "past_due" /\ sub[u].grace < night

EnforceGracePeriodExpiry(w) ==
    /\ job[w].step = "trial"
    /\ LET elapsed == {u \in Users : Elapsed(u)} IN
         /\ \A v \in Workers \ {w}, u \in elapsed : ~HoldsUser(v, u)
         /\ Proceed(w, [job[w] EXCEPT !.step = "grace", !.expired = elapsed])

AtLeastOne(n) == IF n < 1 THEN 1 ELSE n
Within(end, days) == end # None /\ end >= night /\ end - night < days

GraceWarnings(w) ==
    {[user |-> u, kind |-> "grace", days |-> AtLeastOne(sub[u].grace - night),
      on |-> night, until |-> sub[u].grace, by |-> w] :
        u \in {x \in Users \ job[w].expired :
                  sub[x].status = "past_due" /\ Within(sub[x].grace, WarnDays)}}

RenewalReminders(w) ==
    {[user |-> u, kind |-> "renewal", days |-> AtLeastOne(sub[u].end - night),
      on |-> night, until |-> sub[u].end, by |-> w] :
        u \in {x \in Users \ job[w].expired :
                  /\ sub[x].status \in {"active", "past_due"}
                  /\ Within(sub[x].end, RenewDays)}}

NotifyExpiring(w) ==
    /\ job[w].step = "grace"
    /\ LET wanted == GraceWarnings(w) \cup RenewalReminders(w) IN
         IF LookupRaises(wanted)
         THEN Raise(w)
         ELSE Proceed(w, [job[w] EXCEPT !.step = "remind",
                              !.queued = @ \cup NotYetQueued(wanted)])

\* increment_trial_days of the value the run has read.
Incremented(n) == IF n + 1 < TrialDays THEN n + 1 ELSE TrialDays

\* Faulty: an expired row leaves the plan of its user alone.
CommitJob_KeepsPlan(w) ==
    /\ job[w].step = "remind"
    /\ used' = [u \in Users |->
                  IF job[w].seen[u] # None THEN Incremented(job[w].seen[u])
                                           ELSE used[u]]
    /\ sub' = [u \in Users |-> IF u \in job[w].expired
                               THEN [sub[u] EXCEPT !.status = "expired"] ELSE sub[u]]
    /\ mails' = mails \cup job[w].queued
    /\ job' = [job EXCEPT ![w] = [Waiting EXCEPT !.step = "done"]]
    /\ UNCHANGED <<night, plan>>

CommitJob(w) ==
    /\ job[w].step = "remind"
    /\ used' = [u \in Users |->
                  IF job[w].seen[u] # None THEN Incremented(job[w].seen[u])
                                           ELSE used[u]]
    /\ sub' = [u \in Users |-> IF u \in job[w].expired
                               THEN [sub[u] EXCEPT !.status = "expired"] ELSE sub[u]]
    /\ plan' = [u \in Users |-> IF u \in job[w].expired THEN "free" ELSE plan[u]]
    /\ mails' = mails \cup job[w].queued
    /\ job' = [job EXCEPT ![w] = [Waiting EXCEPT !.step = "done"]]
    /\ UNCHANGED night

\* The worker is down, or loses its connection: nothing of its run remains.
Down(w) ==
    /\ job[w].step \in Steps
    /\ job' = [job EXCEPT ![w] = [Waiting EXCEPT !.step = "down"]]
    /\ UNCHANGED <<night, used, plan, sub, mails>>

RunExpiryChecker(w) ==
    \/ ReadUsers(w)
    \/ IncrementTrialDays(w)
    \/ EnforceGracePeriodExpiry(w)
    \/ NotifyExpiring(w)
    \/ CommitJob(w)
    \/ Down(w)

NightlyNext ==
    \/ \E u \in Users : Activate(u) \/ Revoke(u)
    \/ NextNight
    \/ \E w \in Workers : RunExpiryChecker(w)

NightlySpec == NightlyInit /\ [][NightlyNext]_nightlyVars

-----------------------------------------------------------------------------

AllFinished == \A w \in Workers : job[w].step \in Finished
SomeCommitted == \E w \in Workers : job[w].step = "done"

\* Whichever workers crash or give up on a night, one commit settles it: no
\* elapsed grace period is left when the last run has ended, and no user of an
\* expired subscription is still on the Pro plan.
NightSettled ==
    AllFinished /\ SomeCommitted =>
        \A u \in Users :
            /\ ~Elapsed(u)
            /\ sub[u].status = "expired" => plan[u] = "free"

\* A night is lost to its own look-ups, every run of it raising, only because on
\* an earlier night overlapping workers both queued one renewal reminder or grace
\* warning, which no lock orders: not because of a user who renews, of reminders
\* of another period, or of a run that follows another.
NightLostToOverlap ==
    \A w \in Workers : job[w].step = "raised" /\ ~SomeCommitted =>
        \E m, n \in mails :
            /\ SameReminder(m, n) /\ m.kind # "trial"
            /\ m.on = n.on /\ m.on < night
            /\ m.by # n.by

\* A trial that has passed a threshold since sign-up has exactly one reminder
\* of it.  Workers that run at the same time lose one of the increments but do
\* not queue a reminder twice: the row locks of the increments make the second
\* look after the first has committed.
TrialReminderPerThreshold ==
    \A u \in Users : \A d \in Thresholds :
        TrialDays - d \in (StartUsed[u] + 1)..used[u] =>
            Cardinality({m \in mails : m.user = u /\ m.kind = "trial" /\ m.days = d}) = 1

=============================================================================
