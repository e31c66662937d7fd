------------------------------ MODULE Billing ------------------------------
(***************************************************************************)
(* Subscription billing: users.plan, the subscriptions table and the       *)
(* webhook sentinels, as changed by the Polar webhook receiver             *)
(* (app/routers/webhooks.py), the billing service                          *)
(* (app/services/billing.py), the nightly grace-period job                 *)
(* (app/jobs/expiry_checker.py) and the admin override; read by the access *)
(* gate every authenticated request goes through (app/dependencies.py,     *)
(* app/middleware/auth.py).                                                *)
(*                                                                         *)
(* Polar is external: it owns the truth about each subscription and sends  *)
(* events at least once.  Events are never lost, may be redelivered at any *)
(* time and may be processed in any order.  A webhook is one transaction   *)
(* and one action here; module WebhookTx splits it.  Time is counted in    *)
(* days.                                                                   *)
(***************************************************************************)
EXTENDS Integers, FiniteSets, Sequences

CONSTANTS
    Users, Subs,
    Owner,       \* the pakalon_user_id in the metadata of a Polar subscription
    None,        \* SQL NULL
    Grace,       \* GRACE_PERIOD_DAYS
    Period,      \* length in days of the period one payment buys
    EventTypes,  \* the event types Polar sends
    OmitsEnd,    \* whether an update may lack current_period_end
    AdminPlans,  \* plans the admin endpoint hands out
    MaxDay,      \* bound on the clock
    MaxSent      \* bound on the number of events Polar sends

Plans == {"free", "pro", "enterprise"}
Activations == {"activated", "updated"}
AllEventTypes == Activations \cup {"revoked", "paused", "resumed", "refunded"}
Statuses == {"absent", "active", "past_due", "paused", "canceled", "expired"}

ASSUME ConstantsAssumption ==
    /\ IsFiniteSet(Subs)
    /\ Owner \in [Subs -> Users]
    /\ None \notin Int
    /\ Grace \in Nat
    /\ Period \in Nat \ {0}
    /\ EventTypes \subseteq AllEventTypes
    /\ OmitsEnd \in BOOLEAN
    /\ AdminPlans \subseteq Plans
    /\ MaxDay \in Nat
    /\ MaxSent \in Nat

VARIABLES
    day,        \* today
    polar,      \* Polar's own state of each subscription
    sent,       \* every event Polar ever sent, in order; its index is its id
    sentinels,  \* the telemetry_events rows "webhook:polar:<id>"
    plan,       \* users.plan
    row,        \* the subscriptions row of each Polar subscription
    cancelling  \* the row a DELETE /billing/cancel holds while it calls Polar

vars == <<day, polar, sent, sentinels, plan, row, cancelling>>

Day == 0..MaxDay
PolarState == [status : {"none", "active", "paused", "revoked"}, end : Nat]
Event == [type : EventTypes, sub : Subs, end : Nat \cup {None}]
Sentinel == [event : Nat, on : Day, early : BOOLEAN]
Row == [status : Statuses, start : Day \cup {None},
        end : Nat \cup {None}, grace : Nat \cup {None}, created : Nat]
NoRow == [status |-> "absent", start |-> None, end |-> None,
          grace |-> None, created |-> 0]

TypeOK ==
    /\ day \in Day
    /\ polar \in [Subs -> PolarState]
    /\ sent \in Seq(Event)
    /\ sentinels \subseteq Sentinel
    /\ plan \in [Users -> Plans]
    /\ row \in [Subs -> Row]
    /\ cancelling \in [Users -> Subs \cup {None}]

Init ==
    /\ day = 0
    /\ polar = [s \in Subs |-> [status |-> "none", end |-> 0]]
    /\ sent = <<>>
    /\ sentinels = {}
    /\ plan = [u \in Users |-> "free"]
    /\ row = [s \in Subs |-> NoRow]
    /\ cancelling = [u \in Users |-> None]

-----------------------------------------------------------------------------
(* Polar and the clock.                                                    *)

Tick ==
    /\ day < MaxDay
    /\ day' = day + 1
    /\ UNCHANGED <<polar, sent, sentinels, plan, row, cancelling>>

\* Polar records the new state of s and queues the event about it.
Send(type, s, status, end, payloadEnd) ==
    /\ type \in EventTypes
    /\ Len(sent) < MaxSent
    /\ polar' = [polar EXCEPT ![s] = [status |-> status, end |-> end]]
    /\ sent' = Append(sent, [type |-> type, sub |-> s, end |-> payloadEnd])
    /\ UNCHANGED <<day, sentinels, plan, row, cancelling>>

\* First payment, or the payment method of a revoked subscription is fixed.
PolarActivate(s) ==
    /\ polar[s].status \in {"none", "revoked"}
    /\ Send("activated", s, "active", day + Period, day + Period)

\* A renewal at the end of the period, or any other change of the details.
PolarUpdate(s) ==
    /\ polar[s].status = "active"
    /\ \E end \in {polar[s].end}
                  \cup (IF polar[s].end <= day THEN {day + Period} ELSE {}) :
         \E payloadEnd \in {end} \cup (IF OmitsEnd THEN {None} ELSE {}) :
            Send("updated", s, "active", end, payloadEnd)

PolarRevoke(s) ==
    /\ polar[s].status \in {"active", "paused"}
    /\ Send("revoked", s, "revoked", polar[s].end, polar[s].end)

PolarPause(s) ==
    /\ polar[s].status = "active"
    /\ Send("paused", s, "paused", polar[s].end, polar[s].end)

PolarResume(s) ==
    /\ polar[s].status = "paused"
    /\ Send("resumed", s, "active", polar[s].end, polar[s].end)

\* A refund or a dispute of an order; the subscription itself is unaffected.
PolarRefund(s) ==
    /\ polar[s].status # "none"
    /\ Send("refunded", s, polar[s].status, polar[s].end, polar[s].end)

-----------------------------------------------------------------------------
(* POST /webhooks/polar.                                                   *)

Exists(s) == row[s].status # "absent"
ActiveOf(u) == {s \in Subs : Owner[s] = u /\ row[s].status = "active"}

Processed(i) == \E x \in sentinels : x.event = i

\* Faulty: the sentinel is not looked up, so a redelivery is handled again.
Accept_NoDedup(i, types) ==
    /\ sent[i].type \in types

\* The receiver takes event i for the first time.  A redelivery finds the
\* sentinel and returns without a change: it is a stuttering step.
Accept(i, types) ==
    /\ sent[i].type \in types
    /\ ~Processed(i)

\* Event i is processed before one that was sent before it.
Early(i) == \E j \in 1..(i - 1) : ~Processed(j)

RecordSentinel(i) ==
    sentinels' = sentinels \cup {[event |-> i, on |-> day, early |-> Early(i)]}

\* Faulty: an existing row gets the new period end but keeps its status.
ActivatedRow_KeepStatus(old, end) ==
    IF old.status = "absent"
    THEN [status |-> "active", start |-> day, end |-> end, grace |-> None,
          created |-> Cardinality({s \in Subs : Exists(s)}) + 1]
    ELSE [old EXCEPT !.end = end]

\* The row after subscription.activated or subscription.updated.
ActivatedRow(old, end) ==
    IF old.status = "absent"
    THEN [status |-> "active", start |-> day, end |-> end, grace |-> None,
          created |-> Cardinality({s \in Subs : Exists(s)}) + 1]
    ELSE [old EXCEPT !.status = "active", !.end = end,
                     !.start = IF @ = None THEN day ELSE @]

HandleActivated(i) ==
    /\ Accept(i, Activations)
    /\ LET s == sent[i].sub IN
         /\ row' = [row EXCEPT ![s] = ActivatedRow(@, sent[i].end)]
         /\ plan' = [plan EXCEPT ![Owner[s]] = "pro"]
    /\ RecordSentinel(i)
    /\ UNCHANGED <<day, polar, sent, cancelling>>

\* The handlers that touch nothing but an existing row.
ChangeRow(i, type, newRow) ==
    /\ Accept(i, {type})
    /\ row' = [row EXCEPT ![sent[i].sub] =
                  IF Exists(sent[i].sub) THEN newRow ELSE @]
    /\ RecordSentinel(i)
    /\ UNCHANGED <<day, polar, sent, plan, cancelling>>

\* Faulty: stores the name of the event as the status.
RevokedRow_RawStatus(old) ==
    [old EXCEPT !.status = "revoked", !.grace = day + Grace]

\* Faulty: the grace period starts when the paid period would have ended.
RevokedRow_FromPeriodEnd(old) ==
    [old EXCEPT !.status = "past_due",
                !.grace = Grace + (IF old.end = None THEN day ELSE old.end)]

RevokedRow(old) == [old EXCEPT !.status = "past_due", !.grace = day + Grace]
PausedRow(old) == [old EXCEPT !.status = "paused"]
ResumedRow(old) == [old EXCEPT !.status = "active", !.grace = None,
                               !.start = IF @ = None THEN day ELSE @]

HandleRevoked(i) == ChangeRow(i, "revoked", RevokedRow(row[sent[i].sub]))
HandlePaused(i) == ChangeRow(i, "paused", PausedRow(row[sent[i].sub]))
HandleResumed(i) == ChangeRow(i, "resumed", ResumedRow(row[sent[i].sub]))

\* scalar_one_or_none raises when the user has two active rows: the request
\* fails, rolls back and changes nothing.
HandleRefundedOrDisputed(i) ==
    /\ Accept(i, {"refunded"})
    /\ LET u == Owner[sent[i].sub] IN
         /\ \A s, t \in ActiveOf(u) : s = t
         /\ row' = [s \in Subs |->
                      IF s \in ActiveOf(u)
                      THEN [row[s] EXCEPT !.status = "canceled", !.grace = day]
                      ELSE row[s]]
         /\ plan' = [plan EXCEPT ![u] = "free"]
    /\ RecordSentinel(i)
    /\ UNCHANGED <<day, polar, sent, cancelling>>

PolarWebhook(i) ==
    \/ HandleActivated(i)
    \/ HandleRevoked(i)
    \/ HandlePaused(i)
    \/ HandleResumed(i)
    \/ HandleRefundedOrDisputed(i)

-----------------------------------------------------------------------------
(* The access gate: get_user_from_token, then _check_subscription_access,  *)
(* both on the user's most recently created row.                           *)

IsLatest(u, s) ==
    /\ Owner[s] = u
    /\ Exists(s)
    /\ \A t \in Subs : Owner[t] = u => row[t].created <= row[s].created

TokenGate(s) ==
    ~ /\ row[s].status = "canceled"
      /\ row[s].grace # None
      /\ row[s].grace < day

SubscriptionGate(s) ==
    \/ /\ row[s].status = "active"
       /\ row[s].end # None => day <= row[s].end
    \/ /\ row[s].status \in {"past_due", "expired"}
       /\ row[s].grace # None
       /\ day <= row[s].grace

\* u is let in as a Pro user.  Users on another plan are always let in.
AdmittedAsPro(u) ==
    /\ plan[u] = "pro"
    /\ \E s \in Subs : IsLatest(u, s) /\ TokenGate(s) /\ SubscriptionGate(s)

-----------------------------------------------------------------------------
(* DELETE /billing/cancel.  The row is read, then Polar is called with     *)
(* retries that sleep for minutes, then the row is overwritten.            *)

CancelBegin(u) ==
    /\ cancelling[u] = None
    /\ AdmittedAsPro(u)
    /\ \A s, t \in ActiveOf(u) : s = t
    /\ \E s \in ActiveOf(u) : cancelling' = [cancelling EXCEPT ![u] = s]
    /\ UNCHANGED <<day, polar, sent, sentinels, plan, row>>

CancelCommit(u) ==
    /\ cancelling[u] # None
    /\ row' = [row EXCEPT ![cancelling[u]].status = "canceled"]
    /\ cancelling' = [cancelling EXCEPT ![u] = None]
    /\ UNCHANGED <<day, polar, sent, sentinels, plan>>

\* Every attempt failed: the exception of with_retry rolls the request back, and
\* the dead letter it has flushed with it.
CancelFail(u) ==
    /\ cancelling[u] # None
    /\ cancelling' = [cancelling EXCEPT ![u] = None]
    /\ UNCHANGED <<day, polar, sent, sentinels, plan, row>>

-----------------------------------------------------------------------------
(* The nightly job and the admin override.  A night may pass without the   *)
(* job: a raise in any part of it rolls the whole of it back, which is the *)
(* subject of NightlyJob, so no step here is bound to happen.              *)

GraceElapsed(s) ==
    /\ row[s].status = "past_due"
    /\ row[s].grace # None
    /\ row[s].grace <= day

\* Faulty: the rows expire, the plans stay.
EnforceGracePeriodExpiry_RowOnly ==
    /\ \E s \in Subs : GraceElapsed(s)
    /\ row' = [s \in Subs |->
                 IF GraceElapsed(s) THEN [row[s] EXCEPT !.status = "expired"]
                                    ELSE row[s]]
    /\ UNCHANGED <<day, polar, sent, sentinels, plan, cancelling>>

EnforceGracePeriodExpiry ==
    /\ \E s \in Subs : GraceElapsed(s)
    /\ row' = [s \in Subs |->
                 IF GraceElapsed(s) THEN [row[s] EXCEPT !.status = "expired"]
                                    ELSE row[s]]
    /\ plan' = [u \in Users |->
                  IF \E s \in Subs : GraceElapsed(s) /\ Owner[s] = u
                  THEN "free" ELSE plan[u]]
    /\ UNCHANGED <<day, polar, sent, sentinels, cancelling>>

AdminSetPlan(u, p) ==
    /\ p \in AdminPlans
    /\ plan' = [plan EXCEPT ![u] = p]
    /\ UNCHANGED <<day, polar, sent, sentinels, row, cancelling>>

-----------------------------------------------------------------------------

PolarNext ==
    \E s \in Subs :
        \/ PolarActivate(s)
        \/ PolarUpdate(s)
        \/ PolarRevoke(s)
        \/ PolarPause(s)
        \/ PolarResume(s)
        \/ PolarRefund(s)

UserNext ==
    \E u \in Users :
        \/ CancelBegin(u)
        \/ CancelCommit(u)
        \/ CancelFail(u)
        \/ \E p \in Plans : AdminSetPlan(u, p)

Next ==
    \/ Tick
    \/ PolarNext
    \/ \E i \in 1..Len(sent) : PolarWebhook(i)
    \/ UserNext
    \/ EnforceGracePeriodExpiry

Spec == Init /\ [][Next]_vars

-----------------------------------------------------------------------------
(* What must hold of every behaviour.                                      *)

Activation(i, s) ==
    i \in 1..Len(sent) /\ sent[i].sub = s /\ sent[i].type \in Activations

\* Polar reported s paid through today, or for an open-ended period.
PaidThroughToday(s) ==
    \E i \in 1..Len(sent) :
        /\ Activation(i, s)
        /\ sent[i].end # None => day <= sent[i].end

\* A revocation of s was first processed at most Grace days ago.
InGraceOfRevocation(s) ==
    \E i \in 1..Len(sent) :
        /\ sent[i].sub = s
        /\ sent[i].type = "revoked"
        /\ Processed(i)
        /\ \A x \in sentinels : x.event = i => day <= x.on + Grace

\* Why NoFreeRide is preserved: the period end of every row came in an
\* activation Polar sent for it; the grace period of a past_due or expired row
\* counts from the processing of a revocation; an event leaves one sentinel;
\* a cancellation in flight holds a row that exists.
RowsBacked ==
    \A s \in Subs :
        /\ Exists(s) => \E i \in 1..Len(sent) :
                            Activation(i, s) /\ sent[i].end = row[s].end
        /\ row[s].status \in {"past_due", "expired"} =>
              \E x \in sentinels :
                  /\ sent[x.event].sub = s
                  /\ sent[x.event].type = "revoked"
                  /\ row[s].grace = x.on + Grace
SentinelsUnique ==
    /\ \A x \in sentinels : x.event \in 1..Len(sent)
    /\ \A x, y \in sentinels : x.event = y.event => x = y
CancelHoldsRow == \A u \in Users : cancelling[u] # None => Exists(cancelling[u])
IInv == TypeOK /\ RowsBacked /\ SentinelsUnique /\ CancelHoldsRow

\* Nobody rides for free: whoever is let in as a Pro user has a subscription
\* that Polar reported paid through today, or whose revocation was first
\* processed at most a grace period ago - however events are delayed,
\* duplicated or reordered and however cancellations, the nightly job and the
\* admin override fall between them.  A redelivery extends no grace period.
\* (The gates of dependencies.py and auth.py, the handlers, the dedup.)
NoFreeRide ==
    \A u \in Users : AdmittedAsPro(u) =>
        \E s \in Subs : Owner[s] = u
                        /\ (PaidThroughToday(s) \/ InGraceOfRevocation(s))

\* A Pro user has a subscription row that has not expired: every expiry, late
\* or not, takes the plan away from its owner, and only an activation (which
\* revives its row) gives it back.  Admins who grant Pro are excluded.
ProHasLiveRow ==
    \A u \in Users : plan[u] = "pro" =>
        \E s \in Subs : Owner[s] = u /\ row[s].status \notin {"absent", "expired"}

\* Nobody loses the Pro plan by a redelivery or early: a plan goes from pro to
\* another value only when a refund is processed for the first time, when a
\* past_due row of the user reaches the end of its grace period, or by an
\* admin.
DowngradeJustified ==
    [][\A u \in Users :
          plan[u] = "pro" /\ plan'[u] # "pro" =>
            \/ \E i \in 1..Len(sent) :
                  /\ sent[i].type = "refunded"
                  /\ Owner[sent[i].sub] = u
                  /\ ~Processed(i)
                  /\ Processed(i)'
            \/ \E s \in Subs :
                  /\ Owner[s] = u
                  /\ GraceElapsed(s)
                  /\ row'[s].status = "expired"
            \/ plan'[u] \in AdminPlans]_vars

\* Every event of u is processed, each in its turn; none was a refund, and they
\* are about one subscription.
CaughtUpInOrder(u) ==
    /\ \A i \in 1..Len(sent) : Processed(i)
    /\ \A x \in sentinels : ~x.early
    /\ \A i \in 1..Len(sent) : Owner[sent[i].sub] = u => sent[i].type # "refunded"
    /\ \A s, t \in Subs : Owner[s] = u /\ Owner[t] = u /\ Exists(s) /\ Exists(t) => s = t

\* When the receiver has caught up with what Polar sent, in order, a
\* subscription that Polar holds active and paid through today gives its owner
\* the Pro plan and lets them in, and one that Polar paused lets nobody in,
\* unless it was cancelled locally or an admin has set the plan.  It needs the
\* order, one subscription per user and no refunds: the README names what
\* breaks it otherwise (the handlers of billing.py, both gates).
PaidUserServed ==
    \A s \in Subs :
        /\ CaughtUpInOrder(Owner[s])
        /\ row[s].status \notin {"absent", "canceled"}
        /\ plan[Owner[s]] \notin AdminPlans
        => /\ polar[s].status = "active" /\ day <= polar[s].end
                  => AdmittedAsPro(Owner[s])
           /\ polar[s].status = "paused" => ~AdmittedAsPro(Owner[s])

=============================================================================
