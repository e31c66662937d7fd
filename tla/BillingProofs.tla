--------------------------- MODULE BillingProofs ---------------------------
(***************************************************************************)
(* Theorems about Billing, and about its transactions in WebhookTx, for    *)
(* every number of users, subscriptions, events and requests in flight,    *)
(* every grace period and every length of a paid period.                   *)
(***************************************************************************)
EXTENDS WebhookTx, FiniteSetTheorems, TLAPS

\* The rows that exist can be counted, so a new row gets a creation number.
LEMMA CreatedIsNat == Cardinality({s \in Subs : Exists(s)}) \in Nat
  <1>1. IsFiniteSet({s \in Subs : Exists(s)})
    BY ConstantsAssumption, FS_Subset
  <1> QED
    BY <1>1, FS_CardinalityType

\* The row an activation leaves is a row, whatever row was there.
LEMMA ActivatedRowType ==
  ASSUME day \in Day, NEW old \in Row, NEW end \in Nat \cup {None}
  PROVE  /\ ActivatedRow(old, end) \in Row
         /\ ActivatedRow(old, end).status = "active"
         /\ ActivatedRow(old, end).end = end
  <1>1. CASE old.status = "absent"
    BY <1>1, CreatedIsNat DEF Row, ActivatedRow, Statuses
  <1>2. CASE old.status # "absent"
    BY <1>2 DEF Row, ActivatedRow, Statuses
  <1> QED
    BY <1>1, <1>2

\* Every Polar action appends one well-formed event and changes only Polar.
LEMMA PolarStep ==
  ASSUME day \in Day, polar \in [Subs -> PolarState], PolarNext
  PROVE  /\ UNCHANGED <<day, sentinels, plan, row, cancelling>>
         /\ polar' \in [Subs -> PolarState]
         /\ \E e \in Event : sent' = Append(sent, e)
  <1> USE ConstantsAssumption
  <1>1. PICK s \in Subs : \/ PolarActivate(s)
                          \/ PolarUpdate(s)
                          \/ PolarRevoke(s)
                          \/ PolarPause(s)
                          \/ PolarResume(s)
                          \/ PolarRefund(s)
    BY DEF PolarNext
  <1>2. ASSUME NEW type, NEW status \in {"none", "active", "paused", "revoked"},
               NEW end \in Nat, NEW payloadEnd \in Nat \cup {None},
               Send(type, s, status, end, payloadEnd)
        PROVE  /\ UNCHANGED <<day, sentinels, plan, row, cancelling>>
               /\ polar' \in [Subs -> PolarState]
               /\ \E e \in Event : sent' = Append(sent, e)
    <2>1. [type |-> type, sub |-> s, end |-> payloadEnd] \in Event
      BY <1>2 DEF Send, Event
    <2> QED
      BY <1>2, <2>1 DEF Send, PolarState
  <1>3. /\ day \in Nat
        /\ day + Period \in Nat
        /\ polar[s].end \in Nat
        /\ polar[s].status \in {"none", "active", "paused", "revoked"}
    BY DEF PolarState, Day
  <1>4. CASE PolarActivate(s)
    BY <1>2, <1>3, <1>4 DEF PolarActivate
  <1>5. CASE PolarUpdate(s)
    <2>1. PICK end \in {polar[s].end}
                  \cup (IF polar[s].end <= day THEN {day + Period} ELSE {}) :
               \E payloadEnd \in {end} \cup (IF OmitsEnd THEN {None} ELSE {}) :
                 Send("updated", s, "active", end, payloadEnd)
      BY <1>5 DEF PolarUpdate
    <2>2. PICK payloadEnd \in {end} \cup (IF OmitsEnd THEN {None} ELSE {}) :
                 Send("updated", s, "active", end, payloadEnd)
      BY <2>1
    <2>3. end \in Nat /\ payloadEnd \in Nat \cup {None}
      BY <1>3, <2>1, <2>2
    <2> QED
      BY <1>2, <2>2, <2>3
  <1>6. CASE PolarRevoke(s)
    BY <1>2, <1>3, <1>6 DEF PolarRevoke
  <1>7. CASE PolarPause(s)
    BY <1>2, <1>3, <1>7 DEF PolarPause
  <1>8. CASE PolarResume(s)
    BY <1>2, <1>3, <1>8 DEF PolarResume
  <1>9. CASE PolarRefund(s)
    BY <1>2, <1>3, <1>9 DEF PolarRefund
  <1> QED
    BY <1>1, <1>4, <1>5, <1>6, <1>7, <1>8, <1>9

LEMMA LogTyped == TypeOK => /\ day \in Day
                             /\ polar \in [Subs -> PolarState]
                             /\ sent \in Seq(Event)
  BY DEF TypeOK

-----------------------------------------------------------------------------
(* Type correctness.                                                       *)

LEMMA TypeInductive == TypeOK /\ [Next]_vars => TypeOK'
  <1> SUFFICES ASSUME TypeOK, [Next]_vars PROVE TypeOK'
    OBVIOUS
  <1> USE ConstantsAssumption
  <1>1. CASE Tick
    BY <1>1 DEF Tick, TypeOK, Day
  <1>2. CASE PolarNext
    <2>1. PICK e \in Event : sent' = Append(sent, e)
      BY <1>2, PolarStep, LogTyped
    <2>2. sent' \in Seq(Event)
      BY <2>1 DEF TypeOK
    <2> QED
      BY <1>2, <2>2, PolarStep, LogTyped DEF TypeOK
  <1>3. ASSUME NEW i \in 1..Len(sent), PolarWebhook(i) PROVE TypeOK'
    <2> DEFINE s == sent[i].sub
    <2>1. sent[i] \in Event
      BY DEF TypeOK
    <2>2. s \in Subs /\ sent[i].end \in Nat \cup {None} /\ Owner[s] \in Users
      BY <2>1 DEF Event
    <2>3. [event |-> i, on |-> day, early |-> Early(i)] \in Sentinel
      BY DEF TypeOK, Sentinel, Early
    <2>4. ASSUME RecordSentinel(i) PROVE sentinels' \subseteq Sentinel
      BY <2>3, <2>4 DEF RecordSentinel, TypeOK
    <2>5. CASE HandleActivated(i)
      <3>1. ActivatedRow(row[s], sent[i].end) \in Row
        BY <2>2, ActivatedRowType, LogTyped DEF TypeOK
      <3> QED
        BY <2>2, <2>4, <2>5, <3>1 DEF HandleActivated, TypeOK, Plans
    <2>6. ASSUME NEW type, NEW new \in Row, ChangeRow(i, type, new)
          PROVE  TypeOK'
      BY <2>2, <2>4, <2>6 DEF ChangeRow, TypeOK
    <2>7. \A r \in Row : /\ RevokedRow(r) \in Row
                         /\ PausedRow(r) \in Row
                         /\ ResumedRow(r) \in Row
      <3>1. day + Grace \in Nat
        BY DEF TypeOK, Day
      <3> QED
        BY <3>1 DEF RevokedRow, PausedRow, ResumedRow, Row, Statuses, TypeOK
    <2>0. row[s] \in Row
      BY <2>2 DEF TypeOK
    <2>8. CASE HandleRevoked(i)
      BY <2>6, <2>0, <2>7, <2>8 DEF HandleRevoked
    <2>9. CASE HandlePaused(i)
      BY <2>6, <2>0, <2>7, <2>9 DEF HandlePaused
    <2>10. CASE HandleResumed(i)
      BY <2>6, <2>0, <2>7, <2>10 DEF HandleResumed
    <2>11. CASE HandleRefundedOrDisputed(i)
      <3>1. row' \in [Subs -> Row]
        <4>0. day \in Nat
          BY DEF TypeOK, Day
        <4>1. \A r \in Row : [r EXCEPT !.status = "canceled", !.grace = day] \in Row
          BY <4>0 DEF Row, Statuses
        <4> QED
          BY <2>11, <4>1 DEF HandleRefundedOrDisputed, TypeOK
      <3>2. plan' \in [Users -> Plans]
        BY <2>11 DEF HandleRefundedOrDisputed, TypeOK, Plans
      <3> QED
        BY <2>4, <2>11, <3>1, <3>2 DEF HandleRefundedOrDisputed, TypeOK
    <2> QED
      BY <1>3, <2>5, <2>8, <2>9, <2>10, <2>11 DEF PolarWebhook
  <1>4. CASE UserNext
    <2>1. PICK u \in Users : \/ CancelBegin(u)
                             \/ CancelCommit(u)
                             \/ CancelFail(u)
                             \/ \E p \in Plans : AdminSetPlan(u, p)
      BY <1>4 DEF UserNext
    <2>2. CASE CancelBegin(u)
      BY <2>2 DEF CancelBegin, ActiveOf, TypeOK
    <2>3. CASE CancelCommit(u)
      <3>1. \A r \in Row : [r EXCEPT !.status = "canceled"] \in Row
        BY DEF Row, Statuses
      <3>2. cancelling[u] \in Subs
        BY <2>3 DEF CancelCommit, TypeOK
      <3> QED
        BY <2>3, <3>1, <3>2 DEF CancelCommit, TypeOK
    <2>4. CASE CancelFail(u)
      BY <2>4 DEF CancelFail, TypeOK
    <2>5. CASE \E p \in Plans : AdminSetPlan(u, p)
      BY <2>5 DEF AdminSetPlan, TypeOK
    <2> QED
      BY <2>1, <2>2, <2>3, <2>4, <2>5
  <1>5. CASE EnforceGracePeriodExpiry
    <2>1. row' \in [Subs -> Row]
      <3>1. \A r \in Row : [r EXCEPT !.status = "expired"] \in Row
        BY DEF Row, Statuses
      <3> QED
        BY <1>5, <3>1 DEF EnforceGracePeriodExpiry, TypeOK
    <2>2. plan' \in [Users -> Plans]
      BY <1>5 DEF EnforceGracePeriodExpiry, TypeOK, Plans
    <2> QED
      BY <1>5, <2>1, <2>2 DEF EnforceGracePeriodExpiry, TypeOK
  <1>6. CASE UNCHANGED vars
    BY <1>6 DEF vars, TypeOK
  <1> QED
    BY <1>1, <1>2, <1>3, <1>4, <1>5, <1>6 DEF Next

\* Every variable keeps its type in every behaviour of the billing tables.
THEOREM TypeCorrect == Spec => []TypeOK
  <1>1. Init => TypeOK
    BY ConstantsAssumption DEF Init, TypeOK, Day, PolarState, Plans, Row, NoRow, Statuses
  <1> QED
    BY <1>1, TypeInductive, PTL DEF Spec

-----------------------------------------------------------------------------
(* A Pro user has a live row.                                              *)

LEMMA LiveRowInductive ==
  ASSUME "pro" \notin AdminPlans, TypeOK, ProHasLiveRow, [Next]_vars
  PROVE  ProHasLiveRow'
  <1> USE ConstantsAssumption
  <1>1. SUFFICES ASSUME NEW u \in Users, plan'[u] = "pro"
                 PROVE  \E s \in Subs : /\ Owner[s] = u
                                        /\ row'[s].status \notin {"absent", "expired"}
    BY DEF ProHasLiveRow
  \* What keeps the user's plan and expires none of the user's rows is enough.
  <1>2. ASSUME plan[u] = "pro",
               \A s \in Subs : Owner[s] = u =>
                  \/ row'[s].status = row[s].status
                  \/ row'[s].status \notin {"absent", "expired"}
        PROVE  \E s \in Subs : /\ Owner[s] = u
                               /\ row'[s].status \notin {"absent", "expired"}
    BY <1>1, <1>2 DEF ProHasLiveRow
  <1>3. CASE UNCHANGED <<plan, row>>
    BY <1>1, <1>2, <1>3
  <1>4. CASE Tick \/ PolarNext
    BY <1>3, <1>4, PolarStep, LogTyped DEF Tick
  <1>5. ASSUME NEW i \in 1..Len(sent), PolarWebhook(i)
        PROVE  \E s \in Subs : /\ Owner[s] = u
                               /\ row'[s].status \notin {"absent", "expired"}
    <2> DEFINE t == sent[i].sub
    <2>1. sent[i] \in Event
      BY DEF TypeOK
    <2>2. t \in Subs /\ sent[i].end \in Nat \cup {None} /\ row[t] \in Row
      BY <2>1 DEF Event, TypeOK
    <2>3. CASE HandleActivated(i)
      <3>1. ActivatedRow(row[t], sent[i].end).status = "active"
        BY <2>2, ActivatedRowType, LogTyped
      <3>2. row'[t].status = "active"
        BY <2>2, <2>3, <3>1 DEF HandleActivated, TypeOK
      <3>3. CASE Owner[t] = u
        BY <2>2, <3>2, <3>3
      <3>4. CASE Owner[t] # u
        BY <1>1, <1>2, <2>2, <2>3, <3>4 DEF HandleActivated, TypeOK
      <3> QED
        BY <3>3, <3>4
    <2>4. ASSUME NEW type, NEW new, ChangeRow(i, type, new),
                 new.status \notin {"absent", "expired"}
          PROVE  \E s \in Subs : /\ Owner[s] = u
                                 /\ row'[s].status \notin {"absent", "expired"}
      BY <1>1, <1>2, <2>2, <2>4 DEF ChangeRow, TypeOK
    <2>5. CASE HandleRevoked(i)
      BY <2>2, <2>4, <2>5 DEF HandleRevoked, RevokedRow, Row
    <2>6. CASE HandlePaused(i)
      BY <2>2, <2>4, <2>6 DEF HandlePaused, PausedRow, Row
    <2>7. CASE HandleResumed(i)
      BY <2>2, <2>4, <2>7 DEF HandleResumed, ResumedRow, Row
    <2>8. CASE HandleRefundedOrDisputed(i)
      <3>1. plan[u] = "pro" /\ Owner[t] # u
        BY <1>1, <2>2, <2>8 DEF HandleRefundedOrDisputed, TypeOK
      <3>2. \A s \in Subs : Owner[s] = u => row'[s] = row[s]
        BY <2>8, <3>1 DEF HandleRefundedOrDisputed, ActiveOf
      <3> QED
        BY <1>2, <3>1, <3>2
    <2> QED
      BY <1>5, <2>3, <2>5, <2>6, <2>7, <2>8 DEF PolarWebhook
  <1>6. CASE UserNext
    <2>1. PICK v \in Users : \/ CancelBegin(v)
                             \/ CancelCommit(v)
                             \/ CancelFail(v)
                             \/ \E p \in Plans : AdminSetPlan(v, p)
      BY <1>6 DEF UserNext
    <2>2. CASE CancelBegin(v) \/ CancelFail(v)
      BY <1>3, <2>2 DEF CancelBegin, CancelFail
    <2>3. CASE CancelCommit(v)
      <3>1. \A s \in Subs : row'[s].status \in {row[s].status, "canceled"}
        BY <2>3 DEF CancelCommit, TypeOK, Row
      <3> QED
        BY <1>1, <1>2, <2>3, <3>1 DEF CancelCommit
    <2>4. CASE \E p \in Plans : AdminSetPlan(v, p)
      BY <1>1, <1>2, <2>4 DEF AdminSetPlan, TypeOK
    <2> QED
      BY <2>1, <2>2, <2>3, <2>4
  <1>7. CASE EnforceGracePeriodExpiry
    <2>1. \A s \in Subs : Owner[s] = u => ~GraceElapsed(s)
      BY <1>1, <1>7 DEF EnforceGracePeriodExpiry
    <2>2. plan[u] = "pro" /\ \A s \in Subs : Owner[s] = u => row'[s] = row[s]
      BY <1>1, <1>7, <2>1 DEF EnforceGracePeriodExpiry
    <2> QED
      BY <1>2, <2>2
  <1>8. CASE UNCHANGED vars
    BY <1>3, <1>8 DEF vars
  <1> QED
    BY <1>4, <1>5, <1>6, <1>7, <1>8 DEF Next

\* As long as admins grant no Pro plan, a Pro user has a subscription row that
\* is not expired, in any order of events, cancellations and nightly jobs.
THEOREM ProHasLiveRowInvariant ==
  ASSUME "pro" \notin AdminPlans
  PROVE  Spec => []ProHasLiveRow
  <1>1. Init => ProHasLiveRow
    BY DEF Init, ProHasLiveRow
  <1>2. TypeOK /\ ProHasLiveRow /\ [Next]_vars => ProHasLiveRow'
    BY LiveRowInductive
  <1> QED
    BY <1>1, <1>2, TypeCorrect, PTL DEF Spec

-----------------------------------------------------------------------------
(* Nobody loses the Pro plan without a reason.                             *)

LEMMA DowngradeStep ==
  ASSUME TypeOK, [Next]_vars, NEW u \in Users,
         plan[u] = "pro", plan'[u] # "pro"
  PROVE  \/ \E i \in 1..Len(sent) :
               /\ sent[i].type = "refunded"
               /\ Owner[sent[i].sub] = u
               /\ ~Processed(i)
               /\ Processed(i)'
         \/ \E s \in Subs :
               /\ Owner[s] = u
               /\ GraceElapsed(s)
               /\ row'[s].status = "expired"
         \/ plan'[u] \in AdminPlans
  <1>1. CASE Tick \/ PolarNext \/ UNCHANGED vars
    BY <1>1, PolarStep, LogTyped DEF Tick, vars
  <1>2. ASSUME NEW i \in 1..Len(sent), PolarWebhook(i)
        PROVE  /\ sent[i].type = "refunded"
               /\ Owner[sent[i].sub] = u
               /\ ~Processed(i)
               /\ Processed(i)'
    <2>1. HandleRefundedOrDisputed(i)
      <3>1. CASE HandleActivated(i)
        BY <3>1 DEF HandleActivated, TypeOK
      <3>2. CASE HandleRevoked(i) \/ HandlePaused(i) \/ HandleResumed(i)
        BY <3>2 DEF HandleRevoked, HandlePaused, HandleResumed, ChangeRow
      <3> QED
        BY <1>2, <3>1, <3>2 DEF PolarWebhook
    <2>2. sent[i].type = "refunded" /\ ~Processed(i)
      BY <2>1 DEF HandleRefundedOrDisputed, Accept
    <2>3. Owner[sent[i].sub] = u
      BY <2>1 DEF HandleRefundedOrDisputed, TypeOK
    <2>4. Processed(i)'
      <3>1. [event |-> i, on |-> day, early |-> Early(i)] \in sentinels'
        BY <2>1 DEF HandleRefundedOrDisputed, RecordSentinel
      <3> QED
        BY <3>1 DEF Processed
    <2> QED
      BY <2>2, <2>3, <2>4
  <1>3. CASE UserNext
    <2>1. PICK v \in Users : \/ CancelBegin(v)
                             \/ CancelCommit(v)
                             \/ CancelFail(v)
                             \/ \E p \in Plans : AdminSetPlan(v, p)
      BY <1>3 DEF UserNext
    <2>2. \E p \in Plans : AdminSetPlan(v, p)
      BY <2>1 DEF CancelBegin, CancelCommit, CancelFail
    <2> QED
      BY <2>2 DEF AdminSetPlan, TypeOK
  <1>4. CASE EnforceGracePeriodExpiry
    <2>1. PICK s \in Subs : GraceElapsed(s) /\ Owner[s] = u
      BY <1>4 DEF EnforceGracePeriodExpiry, TypeOK
    <2>2. row'[s] = [row[s] EXCEPT !.status = "expired"]
      BY <1>4, <2>1 DEF EnforceGracePeriodExpiry
    <2>3. row[s] \in Row
      BY DEF TypeOK
    <2>4. row'[s].status = "expired"
      BY <2>2, <2>3 DEF Row
    <2> QED
      BY <2>1, <2>4
  <1> QED
    BY <1>1, <1>2, <1>3, <1>4 DEF Next

\* A plan leaves pro only for a refund processed for the first time, an elapsed
\* grace period of the user's own row, or an admin.
THEOREM DowngradeIsJustified == Spec => DowngradeJustified
  <1>1. TypeOK /\ [Next]_vars =>
          [\A u \in Users :
              plan[u] = "pro" /\ plan'[u] # "pro" =>
                \/ \E i \in 1..Len(sent) :
                      /\ sent[i].type = "refunded"
                      /\ Owner[sent[i].sub] = u
                      /\ ~Processed(i)
                      /\ Processed(i)'
                \/ \E s \in Subs :
                      /\ Owner[s] = u
                      /\ GraceElapsed(s)
                      /\ row'[s].status = "expired"
                \/ plan'[u] \in AdminPlans]_vars
    BY DowngradeStep
  <1> QED
    BY <1>1, TypeCorrect, PTL DEF Spec, DowngradeJustified

-----------------------------------------------------------------------------
(* Nobody rides for free.                                                  *)

\* The invariant is enough: a gate lets a row in by its period end or by its
\* grace period, and both are backed by an event.
LEMMA GatesAreBacked == IInv => NoFreeRide
  <1> USE ConstantsAssumption
  <1>1. SUFFICES ASSUME IInv, NEW u \in Users, NEW s \in Subs,
                        IsLatest(u, s), SubscriptionGate(s)
                 PROVE  Owner[s] = u
                        /\ (PaidThroughToday(s) \/ InGraceOfRevocation(s))
    BY DEF NoFreeRide, AdmittedAsPro
  <1>2. Owner[s] = u /\ Exists(s) /\ row[s] \in Row /\ day \in Nat
    BY <1>1 DEF IsLatest, IInv, TypeOK, Day
  <1>3. CASE row[s].status = "active" /\ (row[s].end # None => day <= row[s].end)
    <2>1. PICK i \in 1..Len(sent) : Activation(i, s) /\ sent[i].end = row[s].end
      BY <1>1, <1>2 DEF IInv, RowsBacked
    <2> QED
      BY <1>2, <1>3, <2>1 DEF PaidThroughToday
  <1>4. CASE /\ row[s].status \in {"past_due", "expired"}
             /\ row[s].grace # None
             /\ day <= row[s].grace
    <2>1. PICK x \in sentinels : /\ sent[x.event].sub = s
                                 /\ sent[x.event].type = "revoked"
                                 /\ row[s].grace = x.on + Grace
      BY <1>1, <1>4 DEF IInv, RowsBacked
    <2>2. x.event \in 1..Len(sent)
      BY <1>1, <2>1 DEF IInv, SentinelsUnique
    <2>3. Processed(x.event)
      BY <2>1 DEF Processed
    <2>4. \A y \in sentinels : y.event = x.event => day <= y.on + Grace
      BY <1>1, <1>4, <2>1 DEF IInv, SentinelsUnique
    <2> QED
      BY <1>2, <2>1, <2>2, <2>3, <2>4 DEF InGraceOfRevocation
  <1> QED
    BY <1>1, <1>3, <1>4 DEF SubscriptionGate

\* An appended event disturbs no earlier one.
LEMMA SentGrows ==
  ASSUME sent \in Seq(Event), NEW e \in Event, sent' = Append(sent, e)
  PROVE  /\ Len(sent') = Len(sent) + 1
         /\ Len(sent) \in Nat
         /\ \A i \in 1..Len(sent) : i \in 1..Len(sent') /\ sent'[i] = sent[i]
  OBVIOUS

\* Backing survives a step that keeps the log, drops no sentinel and, for every
\* row, keeps status, end and grace or gives them new backing.
LEMMA BackingKept ==
  ASSUME IInv,
         \A i \in 1..Len(sent) : i \in 1..Len(sent') /\ sent'[i] = sent[i],
         sentinels \subseteq sentinels',
         NEW s \in Subs,
         Exists(s),
         row'[s].end = row[s].end,
         \/ row'[s].status \notin {"past_due", "expired"}
         \/ /\ row[s].status \in {"past_due", "expired"}
            /\ row'[s].grace = row[s].grace
  PROVE  /\ \E i \in 1..Len(sent') :
               (Activation(i, s))' /\ sent'[i].end = row'[s].end
         /\ row'[s].status \in {"past_due", "expired"} =>
               \E x \in sentinels' :
                  /\ sent'[x.event].sub = s
                  /\ sent'[x.event].type = "revoked"
                  /\ row'[s].grace = x.on + Grace
  <1>1. PICK i \in 1..Len(sent) : Activation(i, s) /\ sent[i].end = row[s].end
    BY DEF IInv, RowsBacked
  <1>2. i \in 1..Len(sent') /\ (Activation(i, s))' /\ sent'[i].end = row'[s].end
    BY <1>1 DEF Activation
  <1>3. ASSUME row'[s].status \in {"past_due", "expired"}
        PROVE  \E x \in sentinels' :
                  /\ sent'[x.event].sub = s
                  /\ sent'[x.event].type = "revoked"
                  /\ row'[s].grace = x.on + Grace
    <2>1. PICK x \in sentinels : /\ sent[x.event].sub = s
                                 /\ sent[x.event].type = "revoked"
                                 /\ row[s].grace = x.on + Grace
      BY <1>3 DEF IInv, RowsBacked
    <2>2. x.event \in 1..Len(sent)
      BY DEF IInv, SentinelsUnique
    <2> QED
      BY <1>3, <2>1, <2>2
  <1> QED
    BY <1>2, <1>3

\* What every step does to the log of events and to the sentinels.
LEMMA LogsGrow ==
  ASSUME TypeOK, [Next]_vars
  PROVE  /\ \A i \in 1..Len(sent) : i \in 1..Len(sent') /\ sent'[i] = sent[i]
         /\ sentinels \subseteq sentinels'
  <1>1. CASE PolarNext
    BY <1>1, PolarStep, LogTyped, SentGrows
  <1>2. ASSUME NEW i \in 1..Len(sent), PolarWebhook(i)
        PROVE  sent' = sent /\ sentinels \subseteq sentinels'
    BY <1>2 DEF PolarWebhook, HandleActivated, HandleRevoked, HandlePaused,
                HandleResumed, ChangeRow, HandleRefundedOrDisputed, RecordSentinel
  <1>3. CASE Tick \/ UserNext \/ EnforceGracePeriodExpiry \/ UNCHANGED vars
    BY <1>3 DEF Tick, UserNext, CancelBegin, CancelCommit, CancelFail,
                AdminSetPlan, EnforceGracePeriodExpiry, vars
  <1> QED
    BY <1>1, <1>2, <1>3 DEF Next

LEMMA SentinelsUniqueInductive ==
  ASSUME IInv, [Next]_vars
  PROVE  SentinelsUnique'
  <1> USE DEF IInv
  <1>1. CASE sentinels' = sentinels
    BY <1>1, LogsGrow DEF SentinelsUnique
  <1>2. ASSUME NEW i \in 1..Len(sent), PolarWebhook(i)
        PROVE  SentinelsUnique'
    <2>1. ~Processed(i) /\ RecordSentinel(i)
      BY <1>2 DEF PolarWebhook, HandleActivated, HandleRevoked, HandlePaused,
                  HandleResumed, ChangeRow, HandleRefundedOrDisputed, Accept
    <2>2. \A x \in sentinels : x.event # i /\ x.event \in 1..Len(sent')
      BY <2>1, LogsGrow DEF Processed, SentinelsUnique
    <2>3. i \in 1..Len(sent')
      BY LogsGrow
    <2> QED
      BY <2>1, <2>2, <2>3 DEF RecordSentinel, SentinelsUnique
  <1>3. CASE Tick \/ PolarNext \/ UserNext \/ EnforceGracePeriodExpiry \/ UNCHANGED vars
    BY <1>1, <1>3, PolarStep, LogTyped
       DEF Tick, UserNext, CancelBegin, CancelCommit, CancelFail,
           AdminSetPlan, EnforceGracePeriodExpiry, vars
  <1> QED
    BY <1>2, <1>3 DEF Next

\* Rows are never removed, so a cancellation in flight keeps its row.
LEMMA RowsStay ==
  ASSUME TypeOK, [Next]_vars, NEW s \in Subs, Exists(s)
  PROVE  (Exists(s))'
  <1> USE DEF Exists
  <1>1. CASE row' = row
    BY <1>1
  <1>2. ASSUME NEW i \in 1..Len(sent), PolarWebhook(i)
        PROVE  (Exists(s))'
    <2> DEFINE t == sent[i].sub
    <2>1. sent[i] \in Event
      BY DEF TypeOK
    <2>2. t \in Subs /\ sent[i].end \in Nat \cup {None} /\ row[t] \in Row /\ row[s] \in Row
      BY <2>1 DEF Event, TypeOK
    <2>3. CASE HandleActivated(i)
      BY <2>2, <2>3, ActivatedRowType, LogTyped DEF HandleActivated, TypeOK
    <2>4. ASSUME NEW type, NEW new, ChangeRow(i, type, new), new.status # "absent"
          PROVE  (Exists(s))'
      BY <2>2, <2>4 DEF ChangeRow, TypeOK
    <2>5. CASE HandleRevoked(i) \/ HandlePaused(i) \/ HandleResumed(i)
      BY <2>2, <2>4, <2>5 DEF HandleRevoked, RevokedRow, HandlePaused, PausedRow,
                              HandleResumed, ResumedRow, Row
    <2>6. CASE HandleRefundedOrDisputed(i)
      BY <2>2, <2>6 DEF HandleRefundedOrDisputed, Row
    <2> QED
      BY <1>2, <2>3, <2>5, <2>6 DEF PolarWebhook
  <1>3. ASSUME NEW v \in Users, CancelCommit(v)
        PROVE  (Exists(s))'
    BY <1>3 DEF CancelCommit, TypeOK, Row
  <1>4. CASE EnforceGracePeriodExpiry
    <2>1. row[s] \in Row /\ row'[s] \in {row[s], [row[s] EXCEPT !.status = "expired"]}
      BY <1>4 DEF EnforceGracePeriodExpiry, TypeOK
    <2> QED
      BY <2>1 DEF Row
  <1>5. CASE UserNext
    BY <1>1, <1>3, <1>5 DEF UserNext, CancelBegin, CancelFail, AdminSetPlan
  <1>6. CASE Tick \/ PolarNext \/ UNCHANGED vars
    BY <1>1, <1>6, PolarStep, LogTyped DEF Tick, vars
  <1> QED
    BY <1>2, <1>4, <1>5, <1>6 DEF Next

LEMMA CancelHoldsRowInductive ==
  ASSUME IInv, [Next]_vars
  PROVE  CancelHoldsRow'
  <1> USE DEF IInv
  <1>1. SUFFICES ASSUME NEW u \in Users, cancelling'[u] # None
                 PROVE  \/ (Exists(cancelling[u]))' /\ cancelling'[u] = cancelling[u]
                        \/ Exists(cancelling'[u]) /\ row' = row
    BY DEF CancelHoldsRow, Exists
  <1>2. CASE cancelling'[u] = cancelling[u]
    <2>1. cancelling[u] \in Subs /\ Exists(cancelling[u])
      BY <1>1, <1>2 DEF TypeOK, CancelHoldsRow
    <2>2. \A s \in Subs : Exists(s) => (Exists(s))'
      BY RowsStay
    <2> QED
      BY <1>2, <2>1, <2>2 DEF Exists
  <1>3. CASE cancelling'[u] # cancelling[u]
    <2>1. CancelBegin(u)
      <3>1. UserNext
        BY <1>3, PolarStep, LogTyped
           DEF Next, Tick, PolarWebhook, HandleActivated, HandleRevoked,
               HandlePaused, HandleResumed, ChangeRow, HandleRefundedOrDisputed,
               EnforceGracePeriodExpiry, vars
      <3>2. PICK v \in Users : \/ CancelBegin(v)
                               \/ CancelCommit(v)
                               \/ CancelFail(v)
                               \/ \E p \in Plans : AdminSetPlan(v, p)
        BY <3>1 DEF UserNext
      <3>3. CancelBegin(v)
        BY <1>1, <1>3, <3>2 DEF CancelCommit, CancelFail, AdminSetPlan, TypeOK
      <3> QED
        BY <1>3, <3>3 DEF CancelBegin, TypeOK
    <2>2. PICK s \in ActiveOf(u) : cancelling' = [cancelling EXCEPT ![u] = s]
      BY <2>1 DEF CancelBegin
    <2>3. cancelling'[u] = s /\ Exists(s) /\ row' = row
      BY <2>1, <2>2 DEF CancelBegin, ActiveOf, Exists, TypeOK
    <2> QED
      BY <2>3
  <1> QED
    BY <1>2, <1>3

LEMMA RowsBackedInductive ==
  ASSUME IInv, [Next]_vars
  PROVE  RowsBacked'
  <1> USE ConstantsAssumption
  <1> DEFINE Backed(s) ==
        /\ (Exists(s))' => \E i \in 1..Len(sent') :
                              (Activation(i, s))' /\ sent'[i].end = row'[s].end
        /\ row'[s].status \in {"past_due", "expired"} =>
              \E x \in sentinels' :
                  /\ sent'[x.event].sub = s
                  /\ sent'[x.event].type = "revoked"
                  /\ row'[s].grace = x.on + Grace
  <1>1. SUFFICES ASSUME NEW s \in Subs PROVE Backed(s)
    BY DEF RowsBacked
  <1>2. TypeOK /\ row[s] \in Row
    BY DEF IInv, TypeOK
  <1>3. CASE row'[s] = row[s]
    BY <1>3, BackingKept, LogsGrow DEF Exists, IInv
  \* A row keeps its period end and gets a status that needs no backing.
  <1>4. CASE Exists(s) /\ row'[s].end = row[s].end
             /\ row'[s].status \notin {"past_due", "expired"}
    BY <1>4, BackingKept, LogsGrow DEF IInv
  <1>5. ASSUME NEW i \in 1..Len(sent), PolarWebhook(i)
        PROVE  Backed(s)
    <2> DEFINE t == sent[i].sub
    <2>1. sent[i] \in Event
      BY <1>2 DEF TypeOK
    <2>2. t \in Subs /\ sent[i].end \in Nat \cup {None} /\ row[t] \in Row
      BY <1>2, <2>1 DEF Event, TypeOK
    <2>3. CASE HandleActivated(i)
      <3>1. sent[i].type \in Activations /\ sent' = sent
        BY <2>3 DEF HandleActivated, Accept
      <3>2. row'[t].status = "active" /\ row'[t].end = sent[i].end
        BY <1>2, <2>2, <2>3, ActivatedRowType, LogTyped DEF HandleActivated, TypeOK
      <3>3. CASE s = t
        BY <3>1, <3>2, <3>3 DEF Activation
      <3>4. CASE s # t
        BY <1>2, <1>3, <2>3, <3>4 DEF HandleActivated, TypeOK
      <3> QED
        BY <3>3, <3>4
    <2>4. CASE HandleRevoked(i)
      <3>1. sent[i].type = "revoked" /\ sent' = sent
        BY <2>4 DEF HandleRevoked, ChangeRow, Accept
      <3>2. CASE s = t /\ Exists(t)
        <4>1. /\ row'[t].status = "past_due"
              /\ row'[t].grace = day + Grace
              /\ row'[t].end = row[t].end
          BY <1>2, <2>2, <2>4, <3>2
             DEF HandleRevoked, ChangeRow, RevokedRow, TypeOK, Row
        <4>2. [event |-> i, on |-> day, early |-> Early(i)] \in sentinels'
          BY <2>4 DEF HandleRevoked, ChangeRow, RecordSentinel
        <4>3. PICK j \in 1..Len(sent) : Activation(j, s) /\ sent[j].end = row[s].end
          BY <3>2 DEF IInv, RowsBacked
        <4> QED
          BY <3>1, <3>2, <4>1, <4>2, <4>3 DEF Activation
      <3>3. CASE ~(s = t /\ Exists(t))
        BY <1>2, <1>3, <2>4, <3>3 DEF HandleRevoked, ChangeRow, TypeOK
      <3> QED
        BY <3>2, <3>3
    <2>5. CASE HandlePaused(i) \/ HandleResumed(i)
      <3>1. \/ row'[s] = row[s]
            \/ Exists(s) /\ row'[s] \in {PausedRow(row[s]), ResumedRow(row[s])}
        BY <1>2, <2>2, <2>5 DEF HandlePaused, HandleResumed, ChangeRow, TypeOK
      <3>2. \A r \in {PausedRow(row[s]), ResumedRow(row[s])} :
               r.end = row[s].end /\ r.status \in {"paused", "active"}
        BY <1>2 DEF PausedRow, ResumedRow, Row
      <3> QED
        BY <1>3, <1>4, <3>1, <3>2
    <2>6. CASE HandleRefundedOrDisputed(i)
      <3>1. \/ row'[s] = row[s]
            \/ /\ row[s].status = "active"
               /\ row'[s] = [row[s] EXCEPT !.status = "canceled", !.grace = day]
        BY <2>6 DEF HandleRefundedOrDisputed, ActiveOf
      <3>2. [row[s] EXCEPT !.status = "canceled", !.grace = day].end = row[s].end
        BY <1>2 DEF Row
      <3>3. [row[s] EXCEPT !.status = "canceled", !.grace = day].status = "canceled"
        BY <1>2 DEF Row
      <3> QED
        BY <1>3, <1>4, <3>1, <3>2, <3>3 DEF Exists
    <2> QED
      BY <1>5, <2>3, <2>4, <2>5, <2>6 DEF PolarWebhook
  <1>6. ASSUME NEW v \in Users, CancelCommit(v)
        PROVE  Backed(s)
    <2>1. CASE cancelling[v] = s
      <3>1. row'[s] = [row[s] EXCEPT !.status = "canceled"] /\ Exists(s)
        BY <1>6, <2>1 DEF CancelCommit, IInv, TypeOK, CancelHoldsRow
      <3> QED
        BY <1>2, <1>4, <3>1 DEF Row
    <2>2. CASE cancelling[v] # s
      BY <1>3, <1>6, <2>2 DEF CancelCommit, IInv, TypeOK
    <2> QED
      BY <2>1, <2>2
  <1>7. CASE EnforceGracePeriodExpiry
    <2>1. CASE ~GraceElapsed(s)
      BY <1>3, <1>7, <2>1 DEF EnforceGracePeriodExpiry
    <2>2. CASE GraceElapsed(s)
      <3>1. row'[s] = [row[s] EXCEPT !.status = "expired"]
        BY <1>7, <2>2 DEF EnforceGracePeriodExpiry
      <3>2. /\ row'[s].status = "expired"
            /\ row'[s].end = row[s].end
            /\ row'[s].grace = row[s].grace
        BY <1>2, <3>1 DEF Row
      <3>3. Exists(s) /\ row[s].status = "past_due"
        BY <2>2 DEF GraceElapsed, Exists
      <3> QED
        BY <3>2, <3>3, BackingKept, LogsGrow DEF IInv
    <2> QED
      BY <2>1, <2>2
  <1>8. CASE UserNext
    BY <1>3, <1>6, <1>8 DEF UserNext, CancelBegin, CancelFail, AdminSetPlan
  <1>9. CASE Tick \/ PolarNext \/ UNCHANGED vars
    BY <1>2, <1>3, <1>9, PolarStep, LogTyped DEF Tick, vars
  <1> QED
    BY <1>5, <1>7, <1>8, <1>9 DEF Next

\* The backing of the gates is an invariant.
LEMMA IInvariant == Spec => []IInv
  <1>1. Init => IInv
    <2>1. Init => TypeOK
      BY ConstantsAssumption DEF Init, TypeOK, Day, PolarState, Plans, Row, NoRow, Statuses
    <2> QED
      BY <2>1 DEF Init, IInv, RowsBacked, SentinelsUnique, CancelHoldsRow,
                  Exists, NoRow
  <1>2. IInv /\ [Next]_vars => IInv'
    <2>1. IInv /\ [Next]_vars => TypeOK'
      BY TypeInductive DEF IInv
    <2> QED
      BY <2>1, RowsBackedInductive, SentinelsUniqueInductive,
         CancelHoldsRowInductive DEF IInv
  <1> QED
    BY <1>1, <1>2, PTL DEF Spec

\* Whoever is let in as a Pro user has a subscription paid through today, or one
\* revoked at most Grace days ago, for every number of users, subscriptions and
\* events and every order in which they are processed.
THEOREM NoFreeRideInvariant == Spec => []NoFreeRide
  BY IInvariant, GatesAreBacked, PTL

-----------------------------------------------------------------------------
(* Who has paid is served.  A receiver that works in the order of sending   *)
(* has processed a prefix of the log, so the last event of a subscription   *)
(* it has processed determines the row, as the last one sent tells Polar's  *)
(* state.                                                                   *)

\* Event i tells the state of subscription s; a refund does not.
Tells(i, s) == i \in 1..Len(sent) /\ sent[i].sub = s /\ sent[i].type # "refunded"
StatusAfter(type) ==
    IF type \in {"revoked", "paused"} THEN type ELSE "active"

\* The last event told Polar's state, the last activation Polar's period.
Told ==
    \A s \in Subs, i \in 1..Len(sent) :
        /\ Tells(i, s) /\ (\A j \in 1..Len(sent) : Tells(j, s) => j <= i)
              => polar[s].status = StatusAfter(sent[i].type)
        /\ Activation(i, s) /\ (\A j \in 1..Len(sent) : Activation(j, s) => j <= i)
              => sent[i].end \in {None, polar[s].end}

\* After a revocation Polar sends nothing about s before it is paid again.
PaidAgain ==
    \A s \in Subs, i, j \in 1..Len(sent) :
        /\ Tells(i, s) /\ sent[i].type = "revoked"
        /\ Tells(j, s) /\ i < j
        /\ \A k \in 1..Len(sent) : Tells(k, s) => k <= i \/ j <= k
        => sent[j].type \in Activations

InOrder == \A x \in sentinels : ~x.early

\* In order, what was sent before a processed event is processed.
Prefix ==
    InOrder => \A i, j \in 1..Len(sent) : Processed(i) /\ j < i => Processed(j)

\* A row that is not there is no user's latest.
Unordered == \A s \in Subs : ~Exists(s) => row[s].created = 0

\* The last processed event of s that tells its state, or its period.
LastTold(i, s) ==
    /\ Tells(i, s) /\ Processed(i)
    /\ \A j \in 1..Len(sent) : Tells(j, s) /\ Processed(j) => j <= i
LastPaid(i, s) ==
    /\ Activation(i, s) /\ Processed(i)
    /\ \A j \in 1..Len(sent) : Activation(j, s) /\ Processed(j) => j <= i

\* s is its owner's only row, and nothing of the owner's was refunded.
Plain(s) ==
    /\ \A i \in 1..Len(sent) : Owner[sent[i].sub] = Owner[s] => sent[i].type # "refunded"
    /\ \A t \in Subs : Owner[t] = Owner[s] /\ Exists(t) => t = s

\* What the row and the plan may be after an event of a type.
RowAfter(type) ==
    {"canceled"} \cup IF type = "revoked" THEN {"past_due", "expired"}
                                          ELSE {StatusAfter(type)}
Follows(s) ==
    \E i \in 1..Len(sent) :
        /\ LastTold(i, s)
        /\ row[s].status \in RowAfter(sent[i].type)
        /\ sent[i].type # "revoked" => plan[Owner[s]] \in AdminPlans \cup {"pro"}
PaidFor(s) == \E i \in 1..Len(sent) : LastPaid(i, s) /\ row[s].end = sent[i].end
RowFollows ==
    InOrder => \A s \in Subs : Plain(s) /\ Exists(s) => Follows(s) /\ PaidFor(s)

Served == Told /\ PaidAgain /\ Prefix /\ Unordered /\ RowFollows

\* Polar's next event tells the state it has just moved to.
LEMMA PolarTells ==
  ASSUME TypeOK, PolarNext
  PROVE  \E s \in Subs, e \in Event :
            /\ sent' = Append(sent, e) /\ e.sub = s
            /\ \A t \in Subs \ {s} : polar'[t] = polar[t]
            /\ e.type = "refunded" => polar'[s] = polar[s]
            /\ e.type # "refunded" => polar'[s].status = StatusAfter(e.type)
            /\ IF e.type \in Activations THEN e.end \in {None, polar'[s].end}
                                         ELSE polar'[s].end = polar[s].end
            /\ polar[s].status = "revoked" /\ e.type # "refunded"
                  => e.type \in Activations
  <1> USE ConstantsAssumption
  <1>1. PICK s \in Subs : \/ PolarActivate(s)
                          \/ PolarUpdate(s)
                          \/ PolarRevoke(s)
                          \/ PolarPause(s)
                          \/ PolarResume(s)
                          \/ PolarRefund(s)
    BY DEF PolarNext
  <1>2. /\ day \in Nat /\ day + Period \in Nat
        /\ polar \in [Subs -> PolarState] /\ polar[s].end \in Nat
        /\ polar[s].status \in {"none", "active", "paused", "revoked"}
    BY DEF TypeOK, PolarState, Day
  <1>3. ASSUME NEW type, NEW status \in {"none", "active", "paused", "revoked"},
               NEW end \in Nat, NEW paid \in Nat \cup {None},
               Send(type, s, status, end, paid),
               type = "refunded" => status = polar[s].status /\ end = polar[s].end,
               type # "refunded" => status = StatusAfter(type),
               IF type \in Activations THEN paid \in {None, end} ELSE end = polar[s].end,
               polar[s].status = "revoked" /\ type # "refunded" => type \in Activations
        PROVE  \E e \in Event :
                  /\ sent' = Append(sent, e) /\ e.sub = s
                  /\ \A t \in Subs \ {s} : polar'[t] = polar[t]
                  /\ e.type = "refunded" => polar'[s] = polar[s]
                  /\ e.type # "refunded" => polar'[s].status = StatusAfter(e.type)
                  /\ IF e.type \in Activations THEN e.end \in {None, polar'[s].end}
                                               ELSE polar'[s].end = polar[s].end
                  /\ polar[s].status = "revoked" /\ e.type # "refunded"
                        => e.type \in Activations
    <2> DEFINE e == [type |-> type, sub |-> s, end |-> paid]
    <2>1. e \in Event /\ sent' = Append(sent, e)
      BY <1>3 DEF Send, Event
    <2>2. /\ polar'[s].status = status /\ polar'[s].end = end
          /\ \A t \in Subs \ {s} : polar'[t] = polar[t]
      BY <1>2, <1>3 DEF Send
    <2>3. type = "refunded" => polar'[s] = polar[s]
      BY <1>2, <1>3 DEF Send, PolarState
    <2>4. e.type = type /\ e.sub = s /\ e.end = paid
      OBVIOUS
    <2> HIDE DEF e
    <2>5. e.type # "refunded" => polar'[s].status = StatusAfter(e.type)
      BY <1>3, <2>2, <2>4
    <2>6. IF e.type \in Activations THEN e.end \in {None, polar'[s].end}
                                    ELSE polar'[s].end = polar[s].end
      BY <1>3, <2>2, <2>4
    <2> QED
      BY <1>3, <2>1, <2>2, <2>3, <2>4, <2>5, <2>6
  <1>4. CASE PolarActivate(s)
    BY <1>1, <1>2, <1>3, <1>4 DEF PolarActivate, StatusAfter, Activations
  <1>5. CASE PolarUpdate(s)
    <2>1. PICK end \in {polar[s].end}
                  \cup (IF polar[s].end <= day THEN {day + Period} ELSE {}) :
               \E payloadEnd \in {end} \cup (IF OmitsEnd THEN {None} ELSE {}) :
                 Send("updated", s, "active", end, payloadEnd)
      BY <1>5 DEF PolarUpdate
    <2>2. PICK payloadEnd \in {end} \cup (IF OmitsEnd THEN {None} ELSE {}) :
                 Send("updated", s, "active", end, payloadEnd)
      BY <2>1
    <2>3. end \in Nat /\ payloadEnd \in Nat \cup {None} /\ payloadEnd \in {None, end}
      BY <1>2, <2>1, <2>2
    <2> QED
      BY <1>3, <2>2, <2>3 DEF StatusAfter, Activations
  <1>6. CASE PolarRevoke(s)
    BY <1>2, <1>3, <1>6 DEF PolarRevoke, StatusAfter, Activations
  <1>7. CASE PolarPause(s)
    BY <1>2, <1>3, <1>7 DEF PolarPause, StatusAfter, Activations
  <1>8. CASE PolarResume(s)
    BY <1>2, <1>3, <1>8 DEF PolarResume, StatusAfter, Activations
  <1>9. CASE PolarRefund(s)
    BY <1>2, <1>3, <1>9 DEF PolarRefund, StatusAfter, Activations
  <1> QED
    BY <1>1, <1>4, <1>5, <1>6, <1>7, <1>8, <1>9

\* A step that leaves Polar and the log alone, or lets Polar send one event.
LEMMA ToldStays ==
  ASSUME TypeOK, Told, PaidAgain, [Next]_vars
  PROVE  Told' /\ PaidAgain'
  <1>1. CASE sent' = sent /\ polar' = polar
    BY <1>1 DEF Told, PaidAgain, Tells, Activation
  <1>2. CASE PolarNext
    <2>1. PICK s \in Subs, e \in Event :
            /\ sent' = Append(sent, e) /\ e.sub = s
            /\ \A t \in Subs \ {s} : polar'[t] = polar[t]
            /\ e.type = "refunded" => polar'[s] = polar[s]
            /\ e.type # "refunded" => polar'[s].status = StatusAfter(e.type)
            /\ IF e.type \in Activations THEN e.end \in {None, polar'[s].end}
                                         ELSE polar'[s].end = polar[s].end
            /\ polar[s].status = "revoked" /\ e.type # "refunded"
                  => e.type \in Activations
      BY <1>2, PolarTells
    <2>0. PICK n : n = Len(sent) + 1
      OBVIOUS
    <2>2. /\ Len(sent) \in Nat /\ 1..Len(sent') = 1..Len(sent) \cup {n}
          /\ sent'[n] = e
          /\ \A i \in 1..Len(sent) : sent'[i] = sent[i] /\ i < n
      BY <2>0, <2>1, SentGrows DEF TypeOK
    <2>3. \A t \in Subs : \A i \in 1..Len(sent) :
             /\ Tells(i, t)' <=> Tells(i, t)
             /\ Activation(i, t)' <=> Activation(i, t)
      BY <2>2 DEF Tells, Activation
    <2>4. \A t \in Subs : /\ Tells(n, t)' <=> t = s /\ e.type # "refunded"
                          /\ Activation(n, t)' <=> t = s /\ e.type \in Activations
      BY <2>1, <2>2 DEF Tells, Activation
    <2>5. ASSUME NEW t \in Subs, NEW i \in 1..Len(sent'), Tells(i, t)',
                 \A j \in 1..Len(sent') : Tells(j, t)' => j <= i
          PROVE  polar'[t].status = StatusAfter(sent'[i].type)
      <3>1. CASE i = n
        BY <2>1, <2>2, <2>4, <2>5, <3>1
      <3>2. CASE i # n
        <4>1. i \in 1..Len(sent) /\ i < n
          BY <2>2, <3>2
        <4>2. ~Tells(n, t)'
          BY <2>0, <2>2, <2>5, <4>1
        <4>3. polar'[t] = polar[t]
          BY <2>1, <2>4, <4>2
        <4>4. Tells(i, t) /\ \A j \in 1..Len(sent) : Tells(j, t) => j <= i
          BY <2>2, <2>3, <2>5, <4>1
        <4>5. polar[t].status = StatusAfter(sent[i].type)
          BY <4>1, <4>4 DEF Told
        <4> QED
          BY <2>2, <4>1, <4>3, <4>5
      <3> QED
        BY <3>1, <3>2
    <2>6. ASSUME NEW t \in Subs, NEW i \in 1..Len(sent'), Activation(i, t)',
                 \A j \in 1..Len(sent') : Activation(j, t)' => j <= i
          PROVE  sent'[i].end \in {None, polar'[t].end}
      <3>1. CASE i = n
        BY <2>1, <2>2, <2>4, <2>6, <3>1
      <3>2. CASE i # n
        <4>1. i \in 1..Len(sent) /\ i < n
          BY <2>2, <3>2
        <4>2. ~Activation(n, t)'
          BY <2>0, <2>2, <2>6, <4>1
        <4>3. polar'[t].end = polar[t].end
          BY <2>1, <2>4, <4>2
        <4>4. Activation(i, t) /\ \A j \in 1..Len(sent) : Activation(j, t) => j <= i
          BY <2>2, <2>3, <2>6, <4>1
        <4>5. sent[i].end \in {None, polar[t].end}
          BY <4>1, <4>4 DEF Told
        <4> QED
          BY <2>2, <4>1, <4>3, <4>5
      <3> QED
        BY <3>1, <3>2
    <2>7. ASSUME NEW t \in Subs, NEW i \in 1..Len(sent'), NEW j \in 1..Len(sent'),
                 Tells(i, t)', sent'[i].type = "revoked", Tells(j, t)', i < j,
                 \A k \in 1..Len(sent') : Tells(k, t)' => k <= i \/ j <= k
          PROVE  sent'[j].type \in Activations
      <3>1. i \in 1..Len(sent) /\ sent[i].type = "revoked" /\ Tells(i, t)
        BY <2>2, <2>3, <2>7
      <3>2. CASE j = n
        <4>1. \A k \in 1..Len(sent) : Tells(k, t) => k <= i
          BY <2>2, <2>3, <2>7, <3>2
        <4>2. polar[t].status = StatusAfter("revoked")
          BY <3>1, <4>1 DEF Told
        <4> QED
          BY <2>1, <2>2, <2>4, <2>7, <3>2, <4>2 DEF StatusAfter
      <3>3. CASE j # n
        <4>1. j \in 1..Len(sent) /\ Tells(j, t)
          BY <2>2, <2>3, <2>7, <3>3
        <4>2. \A k \in 1..Len(sent) : Tells(k, t) => k <= i \/ j <= k
          BY <2>2, <2>3, <2>7
        <4>3. sent[j].type \in Activations
          BY <2>7, <3>1, <4>1, <4>2 DEF PaidAgain
        <4> QED
          BY <2>2, <4>1, <4>3
      <3> QED
        BY <3>2, <3>3
    <2>8. Told'
      BY <2>5, <2>6 DEF Told
    <2>9. PaidAgain'
      BY <2>7 DEF PaidAgain
    <2> QED
      BY <2>8, <2>9
  <1>3. CASE \E i \in 1..Len(sent) : PolarWebhook(i)
    BY <1>1, <1>3 DEF PolarWebhook, HandleActivated, HandleRevoked, HandlePaused,
                      HandleResumed, ChangeRow, HandleRefundedOrDisputed
  <1>4. CASE Tick \/ UserNext \/ EnforceGracePeriodExpiry \/ UNCHANGED vars
    BY <1>1, <1>4 DEF Tick, UserNext, CancelBegin, CancelCommit, CancelFail,
                      AdminSetPlan, EnforceGracePeriodExpiry, vars
  <1> QED
    BY <1>2, <1>3, <1>4 DEF Next

\* What event i names.
LEMMA EventNames ==
  ASSUME TypeOK, NEW i \in 1..Len(sent)
  PROVE  /\ sent[i].type \in AllEventTypes
         /\ sent[i].sub \in Subs
         /\ sent[i].end \in Nat \cup {None}
         /\ row[sent[i].sub] \in Row
         /\ Owner[sent[i].sub] \in Users
  <1>1. sent[i] \in Event
    BY DEF TypeOK
  <1>2. /\ sent[i].type \in EventTypes /\ sent[i].sub \in Subs
        /\ sent[i].end \in Nat \cup {None}
    BY <1>1 DEF Event
  <1> QED
    BY <1>2, ConstantsAssumption DEF TypeOK

\* A webhook processes one event, for the first time.
LEMMA WebhookStep ==
  ASSUME NEW i \in 1..Len(sent), PolarWebhook(i)
  PROVE  /\ day' = day /\ polar' = polar /\ sent' = sent /\ cancelling' = cancelling
         /\ ~Processed(i)
         /\ \A j : Processed(j)' <=> Processed(j) \/ j = i
         /\ InOrder' => InOrder /\ ~Early(i)
  <1>1. /\ day' = day /\ polar' = polar /\ sent' = sent /\ cancelling' = cancelling
        /\ ~Processed(i) /\ RecordSentinel(i)
    BY DEF PolarWebhook, HandleActivated, HandleRevoked, HandlePaused,
           HandleResumed, ChangeRow, HandleRefundedOrDisputed, Accept
  <1> DEFINE x == [event |-> i, on |-> day, early |-> Early(i)]
  <1>2. PICK y : y = x
    OBVIOUS
  <1>3. y.event = i /\ (y.early <=> Early(i)) /\ sentinels' = sentinels \cup {y}
    BY <1>1, <1>2 DEF RecordSentinel
  <1> QED
    BY <1>1, <1>3 DEF Processed, InOrder

\* Every other step leaves the sentinels alone.
LEMMA SentinelsStay ==
  ASSUME TypeOK, [Next]_vars, \A i \in 1..Len(sent) : ~PolarWebhook(i)
  PROVE  sentinels' = sentinels
  BY PolarStep DEF Next, Tick, UserNext, CancelBegin, CancelCommit, CancelFail,
                   AdminSetPlan, EnforceGracePeriodExpiry, vars, TypeOK

\* Every other step cancels or expires a row, if it touches it, and changes a
\* plan for an elapsed grace period or for an admin.
LEMMA OtherStep ==
  ASSUME IInv, [Next]_vars, \A i \in 1..Len(sent) : ~PolarWebhook(i), NEW s \in Subs
  PROVE  /\ row'[s].end = row[s].end /\ row'[s].created = row[s].created
         /\ \/ row'[s].status = row[s].status
            \/ row[s].status # "absent" /\ row'[s].status = "canceled"
            \/ row[s].status = "past_due" /\ row'[s].status = "expired"
         /\ \/ plan'[Owner[s]] = plan[Owner[s]]
            \/ plan'[Owner[s]] \in AdminPlans
            \/ \E t \in Subs : Owner[t] = Owner[s] /\ row[t].status = "past_due"
  <1> USE ConstantsAssumption
  <1>1. row[s] \in Row /\ Owner[s] \in Users
    BY DEF IInv, TypeOK
  <1>2. CASE UNCHANGED <<row, plan>>
    BY <1>2
  <1>3. ASSUME NEW u \in Users, CancelCommit(u)
        PROVE  /\ plan' = plan
               /\ row'[s].end = row[s].end /\ row'[s].created = row[s].created
               /\ \/ row'[s].status = row[s].status
                  \/ row[s].status # "absent" /\ row'[s].status = "canceled"
    <2>1. CASE cancelling[u] = s
      <3>1. Exists(s) /\ row'[s] = [row[s] EXCEPT !.status = "canceled"]
        BY <1>3, <2>1 DEF CancelCommit, IInv, TypeOK, CancelHoldsRow
      <3> QED
        BY <1>1, <1>3, <3>1 DEF CancelCommit, Exists, Row
    <2>2. CASE cancelling[u] # s
      BY <1>3, <2>2 DEF CancelCommit, IInv, TypeOK
    <2> QED
      BY <2>1, <2>2
  <1>4. ASSUME NEW u \in Users, NEW p \in Plans, AdminSetPlan(u, p)
        PROVE  /\ row' = row
               /\ plan'[Owner[s]] = plan[Owner[s]] \/ plan'[Owner[s]] \in AdminPlans
    BY <1>1, <1>4 DEF AdminSetPlan, IInv, TypeOK
  <1>5. CASE EnforceGracePeriodExpiry
    <2>1. \/ row'[s] = row[s]
          \/ row[s].status = "past_due" /\ row'[s] = [row[s] EXCEPT !.status = "expired"]
      BY <1>5 DEF EnforceGracePeriodExpiry, GraceElapsed
    <2>2. \/ plan'[Owner[s]] = plan[Owner[s]]
          \/ \E t \in Subs : Owner[t] = Owner[s] /\ row[t].status = "past_due"
      BY <1>1, <1>5 DEF EnforceGracePeriodExpiry, GraceElapsed
    <2> QED
      BY <1>1, <2>1, <2>2 DEF Row
  <1>6. CASE UserNext
    <2>1. PICK u \in Users : \/ CancelBegin(u)
                             \/ CancelCommit(u)
                             \/ CancelFail(u)
                             \/ \E p \in Plans : AdminSetPlan(u, p)
      BY <1>6 DEF UserNext
    <2>2. CASE CancelCommit(u)
      BY <1>3, <2>2
    <2>3. CASE \E p \in Plans : AdminSetPlan(u, p)
      BY <1>4, <2>3
    <2>4. CASE CancelBegin(u) \/ CancelFail(u)
      BY <1>2, <2>4 DEF CancelBegin, CancelFail
    <2> QED
      BY <2>1, <2>2, <2>3, <2>4
  <1>7. CASE Tick \/ PolarNext \/ UNCHANGED vars
    BY <1>2, <1>7, PolarStep DEF Tick, vars, IInv, TypeOK
  <1> QED
    BY <1>5, <1>6, <1>7 DEF Next

\* What a webhook leaves of the row and the plan of a subscription that its
\* event neither tells about nor, if it was refunded, shares the owner with.
LEMMA OtherRow ==
  ASSUME IInv, NEW i \in 1..Len(sent), PolarWebhook(i), NEW s \in Subs,
         sent[i].sub # s,
         sent[i].type = "refunded" => Owner[sent[i].sub] # Owner[s]
  PROVE  /\ row'[s] = row[s]
         /\ \/ plan'[Owner[s]] = plan[Owner[s]]
            \/ Owner[sent[i].sub] = Owner[s] /\ (Exists(sent[i].sub))'
  <1> USE ConstantsAssumption
  <1>1. sent[i].sub \in Subs /\ sent[i].end \in Nat \cup {None}
    BY EventNames DEF IInv
  <1>2. row[sent[i].sub] \in Row /\ Owner[s] \in Users
    BY EventNames DEF IInv
  <1>3. CASE HandleActivated(i)
    <2>1. row'[s] = row[s] /\ row'[sent[i].sub].status = "active"
      BY <1>1, <1>2, <1>3, ActivatedRowType DEF HandleActivated, IInv, TypeOK
    <2>2. sent' = sent
      BY <1>3 DEF HandleActivated
    <2>3. (Exists(sent[i].sub))'
      BY <2>1, <2>2 DEF Exists
    <2> QED
      BY <1>2, <1>3, <2>1, <2>3 DEF HandleActivated, IInv, TypeOK
  <1>4. CASE HandleRevoked(i) \/ HandlePaused(i) \/ HandleResumed(i)
    BY <1>1, <1>4 DEF HandleRevoked, HandlePaused, HandleResumed, ChangeRow, IInv, TypeOK
  <1>5. CASE HandleRefundedOrDisputed(i)
    BY <1>1, <1>2, <1>5 DEF HandleRefundedOrDisputed, Accept, ActiveOf, IInv, TypeOK
  <1> QED
    BY <1>3, <1>4, <1>5 DEF PolarWebhook

LEMMA PrefixInductive ==
  ASSUME IInv, Prefix, [Next]_vars
  PROVE  Prefix'
  <1>0. /\ \A i \in 1..Len(sent) : i \in 1..Len(sent')
        /\ Len(sent) \in Nat
    BY LogsGrow DEF IInv, TypeOK
  <1>1. ASSUME NEW i \in 1..Len(sent), PolarWebhook(i)
        PROVE  Prefix'
    <2>1. SUFFICES ASSUME InOrder', NEW k \in 1..Len(sent), NEW j \in 1..Len(sent),
                          Processed(k)', j < k
                   PROVE  Processed(j)'
      BY <1>1, WebhookStep DEF Prefix
    <2>2. InOrder /\ ~Early(i)
      BY <1>1, <2>1, WebhookStep
    <2>3. CASE k = i
      <3>1. j \in 1..(i - 1)
        BY <2>1, <2>3
      <3> QED
        BY <1>1, <2>2, <3>1, WebhookStep DEF Early
    <2>4. CASE k # i
      BY <1>1, <2>1, <2>2, <2>4, WebhookStep DEF Prefix
    <2> QED
      BY <2>3, <2>4
  <1>2. ASSUME sentinels' = sentinels
        PROVE  Prefix'
    <2>1. \A j : Processed(j)' <=> Processed(j)
      BY <1>2 DEF Processed
    <2>2. \A j : Processed(j) => j \in 1..Len(sent)
      BY DEF Processed, IInv, SentinelsUnique
    <2>3. SUFFICES ASSUME InOrder, NEW k \in 1..Len(sent), NEW j \in 1..Len(sent'),
                          Processed(k), j < k
                   PROVE  Processed(j)
      BY <1>2, <2>1, <2>2 DEF Prefix, InOrder
    <2>4. j \in 1..Len(sent)
      BY <1>0, <2>3
    <2> QED
      BY <2>3, <2>4 DEF Prefix
  <1> QED
    BY <1>1, <1>2, SentinelsStay DEF IInv

LEMMA UnorderedInductive ==
  ASSUME IInv, Unordered, [Next]_vars
  PROVE  Unordered'
  <1> USE ConstantsAssumption
  <1>1. SUFFICES ASSUME NEW s \in Subs, (~Exists(s))' PROVE row'[s].created = 0
    BY DEF Unordered
  <1>2. ~Exists(s) /\ row[s].created = 0
    BY <1>1, RowsStay DEF IInv, Unordered
  <1>3. ASSUME NEW i \in 1..Len(sent), PolarWebhook(i)
        PROVE  row'[s] = row[s]
    <2>1. sent[i].sub \in Subs /\ sent[i].end \in Nat \cup {None}
          /\ row[sent[i].sub] \in Row /\ row[s] \in Row
      BY EventNames DEF IInv, TypeOK
    <2>2. CASE HandleActivated(i)
      <3>1. row'[sent[i].sub].status = "active"
        BY <2>1, <2>2, ActivatedRowType DEF HandleActivated, IInv, TypeOK
      <3>2. sent[i].sub # s
        BY <1>1, <3>1 DEF Exists
      <3> QED
        BY <2>1, <2>2, <3>2 DEF HandleActivated, IInv, TypeOK
    <2>3. CASE HandleRevoked(i) \/ HandlePaused(i) \/ HandleResumed(i)
      BY <1>2, <2>1, <2>3
         DEF HandleRevoked, HandlePaused, HandleResumed, ChangeRow, IInv, TypeOK
    <2>4. CASE HandleRefundedOrDisputed(i)
      BY <1>2, <2>4 DEF HandleRefundedOrDisputed, ActiveOf, Exists
    <2> QED
      BY <1>3, <2>2, <2>3, <2>4 DEF PolarWebhook
  <1>4. CASE \A i \in 1..Len(sent) : ~PolarWebhook(i)
    BY <1>2, <1>4, OtherStep
  <1> QED
    BY <1>2, <1>3, <1>4

\* The last event of a kind that is processed stays the last one if the step
\* processes none of that kind.
LEMMA LastStays ==
  ASSUME TypeOK, [Next]_vars, NEW s \in Subs, NEW i \in 1..Len(sent)
  PROVE  /\ i \in 1..Len(sent') /\ sent'[i] = sent[i]
         /\ /\ LastTold(i, s)
            /\ \A j \in 1..Len(sent') : Tells(j, s)' /\ Processed(j)'
                                           => j \in 1..Len(sent) /\ Processed(j)
            => LastTold(i, s)'
         /\ /\ LastPaid(i, s)
            /\ \A j \in 1..Len(sent') : Activation(j, s)' /\ Processed(j)'
                                           => j \in 1..Len(sent) /\ Processed(j)
            => LastPaid(i, s)'
  <1>1. \A j \in 1..Len(sent) : /\ j \in 1..Len(sent') /\ sent'[j] = sent[j]
                                /\ Tells(j, s)' <=> Tells(j, s)
                                /\ Activation(j, s)' <=> Activation(j, s)
                                /\ Processed(j) => Processed(j)'
    BY LogsGrow DEF Tells, Activation, Processed
  <1>2. ASSUME LastTold(i, s),
               \A j \in 1..Len(sent') : Tells(j, s)' /\ Processed(j)'
                                           => j \in 1..Len(sent) /\ Processed(j)
        PROVE  LastTold(i, s)'
    BY <1>1, <1>2 DEF LastTold
  <1>3. ASSUME LastPaid(i, s),
               \A j \in 1..Len(sent') : Activation(j, s)' /\ Processed(j)'
                                           => j \in 1..Len(sent) /\ Processed(j)
        PROVE  LastPaid(i, s)'
    BY <1>1, <1>3 DEF LastPaid
  <1> QED
    BY <1>1, <1>2, <1>3

\* What is plain after a step was so before it.
LEMMA PlainBefore ==
  ASSUME TypeOK, [Next]_vars, NEW s \in Subs, Plain(s)'
  PROVE  Plain(s)
  <1>1. \A i \in 1..Len(sent) : i \in 1..Len(sent') /\ sent'[i] = sent[i]
    BY LogsGrow
  <1>2. \A t \in Subs : Exists(t) => (Exists(t))'
    BY RowsStay
  <1> QED
    BY <1>1, <1>2 DEF Plain

\* A step that processes nothing and may cancel or expire the row.
LEMMA FollowsUnprocessed ==
  ASSUME IInv, RowFollows, [Next]_vars, \A i \in 1..Len(sent) : ~PolarWebhook(i),
         InOrder, NEW s \in Subs, Plain(s), Exists(s)'
  PROVE  Follows(s)' /\ PaidFor(s)'
  <1>1. /\ sentinels' = sentinels
        /\ row'[s].end = row[s].end
        /\ \/ row'[s].status = row[s].status
           \/ row[s].status # "absent" /\ row'[s].status = "canceled"
           \/ row[s].status = "past_due" /\ row'[s].status = "expired"
        /\ \/ plan'[Owner[s]] = plan[Owner[s]]
           \/ plan'[Owner[s]] \in AdminPlans
           \/ \E t \in Subs : Owner[t] = Owner[s] /\ row[t].status = "past_due"
    BY OtherStep, SentinelsStay DEF IInv
  <1>2. Exists(s)
    BY <1>1 DEF Exists
  <1>3. \A j : Processed(j)' => j \in 1..Len(sent) /\ Processed(j)
    BY <1>1 DEF Processed, IInv, SentinelsUnique
  <1>4. Follows(s)'
    <2>1. PICK i \in 1..Len(sent) :
             /\ LastTold(i, s)
             /\ row[s].status \in RowAfter(sent[i].type)
             /\ sent[i].type # "revoked" => plan[Owner[s]] \in AdminPlans \cup {"pro"}
      BY <1>2 DEF RowFollows, Follows
    <2>2. i \in 1..Len(sent') /\ sent'[i] = sent[i] /\ LastTold(i, s)'
      BY <1>3, <2>1, LastStays DEF IInv
    <2>3. row[s].status = "past_due" => sent[i].type = "revoked"
      BY <2>1 DEF RowAfter, StatusAfter
    <2>4. row'[s].status \in RowAfter(sent[i].type)
      BY <1>1, <2>1, <2>3 DEF RowAfter, StatusAfter
    <2>5. sent[i].type # "revoked" => plan'[Owner[s]] \in AdminPlans \cup {"pro"}
      <3>1. \A t \in Subs : Owner[t] = Owner[s] /\ row[t].status = "past_due" => t = s
        BY DEF Plain, Exists
      <3> QED
        BY <1>1, <2>1, <2>3, <3>1
    <2> QED
      BY <2>2, <2>4, <2>5 DEF Follows, RowAfter, StatusAfter
  <1>5. PaidFor(s)'
    <2>1. PICK i \in 1..Len(sent) : LastPaid(i, s) /\ row[s].end = sent[i].end
      BY <1>2 DEF RowFollows, PaidFor
    <2>2. i \in 1..Len(sent') /\ sent'[i] = sent[i] /\ LastPaid(i, s)'
      BY <1>3, <2>1, LastStays DEF IInv
    <2> QED
      BY <1>1, <2>1, <2>2 DEF PaidFor
  <1> QED
    BY <1>4, <1>5

\* A webhook about another subscription.
LEMMA FollowsOthers ==
  ASSUME IInv, RowFollows, [Next]_vars, NEW i \in 1..Len(sent), PolarWebhook(i),
         InOrder, NEW s \in Subs, Plain(s), Plain(s)', Exists(s)', ~Tells(i, s)
  PROVE  Follows(s)' /\ PaidFor(s)'
  <1>1. /\ sent[i].sub # s
        /\ sent[i].type = "refunded" => Owner[sent[i].sub] # Owner[s]
    BY DEF Tells, Plain
  <1>2. /\ row'[s] = row[s]
        /\ \/ plan'[Owner[s]] = plan[Owner[s]]
           \/ Owner[sent[i].sub] = Owner[s] /\ (Exists(sent[i].sub))'
    BY <1>1, OtherRow
  <1>3. sent[i].sub \in Subs /\ sent' = sent /\ \A j : Processed(j)' <=> Processed(j) \/ j = i
    BY EventNames, WebhookStep DEF IInv
  <1>4. plan'[Owner[s]] = plan[Owner[s]]
    <2>1. \A t \in Subs : Owner[t] = Owner[s] /\ (Exists(t))' => t = s
      BY DEF Plain
    <2>2. (Exists(sent[i].sub))' <=> row'[sent[i].sub].status # "absent"
      BY <1>3 DEF Exists
    <2> QED
      BY <1>1, <1>2, <1>3, <2>1, <2>2 DEF Exists
  <1>5. Exists(s)
    BY <1>2 DEF Exists
  <1>6. ~Activation(i, s)
    BY <1>1 DEF Activation
  <1>7. \A j \in 1..Len(sent') : /\ Tells(j, s)' /\ Processed(j)' => j \in 1..Len(sent) /\ Processed(j)
                                 /\ Activation(j, s)' /\ Processed(j)' => j \in 1..Len(sent) /\ Processed(j)
    BY <1>3, <1>6 DEF Tells, Activation
  <1>8. PICK k \in 1..Len(sent) :
           /\ LastTold(k, s)
           /\ row[s].status \in RowAfter(sent[k].type)
           /\ sent[k].type # "revoked" => plan[Owner[s]] \in AdminPlans \cup {"pro"}
    BY <1>5 DEF RowFollows, Follows
  <1>9. PICK m \in 1..Len(sent) : LastPaid(m, s) /\ row[s].end = sent[m].end
    BY <1>5 DEF RowFollows, PaidFor
  <1>10. LastTold(k, s)' /\ LastPaid(m, s)'
    BY <1>7, <1>8, <1>9, LastStays DEF IInv
  <1> QED
    BY <1>2, <1>3, <1>4, <1>8, <1>9, <1>10 DEF Follows, PaidFor, RowAfter, StatusAfter

\* A webhook about s, in its turn.
LEMMA FollowsTold ==
  ASSUME IInv, PaidAgain, Prefix, RowFollows, [Next]_vars,
         NEW i \in 1..Len(sent), PolarWebhook(i), InOrder', InOrder,
         NEW s \in Subs, Plain(s), Exists(s)', Tells(i, s)
  PROVE  Follows(s)' /\ PaidFor(s)'
  <1> USE ConstantsAssumption
  <1>1. /\ sent' = sent /\ ~Processed(i) /\ ~Early(i)
        /\ \A j : Processed(j)' <=> Processed(j) \/ j = i
    BY WebhookStep
  <1>2. /\ \A j \in 1..Len(sent) : j < i => Processed(j)
        /\ \A j \in 1..Len(sent) : Processed(j) => j < i
    BY <1>1 DEF Early, Prefix
  <1>3. LastTold(i, s)'
    BY <1>1, <1>2 DEF LastTold, Tells
  <1>4. row[s] \in Row /\ Owner[s] \in Users /\ sent[i].sub = s /\ sent[i].end \in Nat \cup {None}
    BY EventNames DEF IInv, TypeOK, Tells
  <1>5. CASE HandleActivated(i)
    <2>1. /\ sent[i].type \in Activations
          /\ row'[s].status = "active" /\ row'[s].end = sent[i].end
          /\ plan'[Owner[s]] = "pro"
      BY <1>4, <1>5, ActivatedRowType DEF HandleActivated, Accept, IInv, TypeOK
    <2>2. LastPaid(i, s)'
      BY <1>1, <1>2, <2>1 DEF LastPaid, Activation, Tells
    <2>3. "active" \in RowAfter(sent[i].type)
      BY <2>1 DEF RowAfter, StatusAfter, Activations
    <2> QED
      BY <1>1, <1>3, <2>1, <2>2, <2>3 DEF Follows, PaidFor, RowAfter, StatusAfter
  <1>6. CASE HandleRevoked(i) \/ HandlePaused(i) \/ HandleResumed(i)
    <2>1. /\ Exists(s)
          /\ sent[i].type \in {"revoked", "paused", "resumed"}
          /\ row'[s].status = CASE sent[i].type = "revoked" -> "past_due"
                                [] sent[i].type = "paused" -> "paused"
                                [] sent[i].type = "resumed" -> "active"
          /\ row'[s].end = row[s].end /\ plan' = plan
      <3>1. ASSUME NEW type, NEW new, ChangeRow(i, type, new)
            PROVE  /\ Exists(s) /\ sent[i].type = type /\ row'[s] = new
                   /\ plan' = plan
        BY <1>1, <1>4, <3>1 DEF ChangeRow, Accept, Exists, IInv, TypeOK
      <3>0. /\ RevokedRow(row[s]).status = "past_due" /\ RevokedRow(row[s]).end = row[s].end
            /\ PausedRow(row[s]).status = "paused" /\ PausedRow(row[s]).end = row[s].end
            /\ ResumedRow(row[s]).status = "active" /\ ResumedRow(row[s]).end = row[s].end
        BY <1>4 DEF RevokedRow, PausedRow, ResumedRow, Row
      <3>2. CASE HandleRevoked(i)
        BY <1>4, <3>0, <3>1, <3>2 DEF HandleRevoked
      <3>3. CASE HandlePaused(i)
        BY <1>4, <3>0, <3>1, <3>3 DEF HandlePaused
      <3>4. CASE HandleResumed(i)
        BY <1>4, <3>0, <3>1, <3>4 DEF HandleResumed
      <3> QED
        BY <1>6, <3>2, <3>3, <3>4
    <2>2. PICK k \in 1..Len(sent) :
             /\ LastTold(k, s)
             /\ row[s].status \in RowAfter(sent[k].type)
             /\ sent[k].type # "revoked" => plan[Owner[s]] \in AdminPlans \cup {"pro"}
      BY <2>1 DEF RowFollows, Follows
    <2>3. sent[k].type # "revoked"
      <3>1. Tells(k, s) /\ k < i
        BY <1>2, <2>2 DEF LastTold
      <3>2. \A j \in 1..Len(sent) : Tells(j, s) => j <= k \/ i <= j
        BY <1>2, <2>2 DEF LastTold
      <3>3. sent[i].type \notin Activations
        BY <2>1 DEF Activations
      <3> QED
        BY <3>1, <3>2, <3>3 DEF PaidAgain
    <2>4. row'[s].status \in RowAfter(sent[i].type)
      BY <2>1 DEF RowAfter, StatusAfter
    <2>5. PICK m \in 1..Len(sent) : LastPaid(m, s) /\ row[s].end = sent[m].end
      BY <2>1 DEF RowFollows, PaidFor
    <2>6. ~Activation(i, s)
      BY <2>1 DEF Activation, Activations
    <2>7. \A j \in 1..Len(sent') : Activation(j, s)' /\ Processed(j)'
                                      => j \in 1..Len(sent) /\ Processed(j)
      BY <1>1, <2>6 DEF Activation
    <2>8. LastPaid(m, s)'
      BY <2>5, <2>7, LastStays DEF IInv
    <2>9. plan'[Owner[s]] \in AdminPlans \cup {"pro"}
      BY <2>1, <2>2, <2>3
    <2>10. Follows(s)'
      BY <1>1, <1>3, <2>4, <2>9 DEF Follows, RowAfter, StatusAfter
    <2>11. PaidFor(s)'
      BY <1>1, <2>1, <2>5, <2>8 DEF PaidFor
    <2> QED
      BY <2>10, <2>11
  <1>7. CASE HandleRefundedOrDisputed(i)
    BY <1>7 DEF HandleRefundedOrDisputed, Accept, Tells
  <1> QED
    BY <1>5, <1>6, <1>7 DEF PolarWebhook

LEMMA RowFollowsInductive ==
  ASSUME IInv, PaidAgain, Prefix, RowFollows, [Next]_vars
  PROVE  RowFollows'
  <1>1. SUFFICES ASSUME InOrder', NEW s \in Subs, Plain(s)', Exists(s)'
                 PROVE  Follows(s)' /\ PaidFor(s)'
    BY DEF RowFollows
  <1>2. Plain(s)
    BY <1>1, PlainBefore DEF IInv
  <1>3. InOrder
    BY <1>1, LogsGrow DEF IInv, InOrder
  <1>4. ASSUME NEW i \in 1..Len(sent), PolarWebhook(i)
        PROVE  Follows(s)' /\ PaidFor(s)'
    BY <1>1, <1>2, <1>3, <1>4, FollowsOthers, FollowsTold
  <1>5. CASE \A i \in 1..Len(sent) : ~PolarWebhook(i)
    BY <1>1, <1>2, <1>3, <1>5, FollowsUnprocessed
  <1> QED
    BY <1>4, <1>5

\* When all is processed, the row is what Polar holds, and the gates read it.
LEMMA CaughtUpIsServed == IInv /\ Served => PaidUserServed
  <1> SUFFICES ASSUME IInv, Served, NEW s \in Subs, CaughtUpInOrder(Owner[s]),
                      row[s].status \notin {"absent", "canceled"},
                      plan[Owner[s]] \notin AdminPlans
               PROVE  /\ polar[s].status = "active" /\ day <= polar[s].end
                             => AdmittedAsPro(Owner[s])
                      /\ polar[s].status = "paused" => ~AdmittedAsPro(Owner[s])
    BY DEF PaidUserServed
  <1> USE ConstantsAssumption
  <1>1. /\ Owner[s] \in Users /\ row \in [Subs -> Row] /\ row[s] \in Row
        /\ polar[s].end \in Nat /\ day \in Nat
    BY DEF IInv, TypeOK, PolarState, Day
  <1>2. InOrder /\ Plain(s) /\ Exists(s) /\ \A i \in 1..Len(sent) : Processed(i)
    BY DEF CaughtUpInOrder, InOrder, Plain, Exists
  <1>3. PICK i \in 1..Len(sent) :
           /\ LastTold(i, s)
           /\ row[s].status \in RowAfter(sent[i].type)
           /\ sent[i].type # "revoked" => plan[Owner[s]] \in AdminPlans \cup {"pro"}
    BY <1>2 DEF Served, RowFollows, Follows
  <1>4. PICK k \in 1..Len(sent) : LastPaid(k, s) /\ row[s].end = sent[k].end
    BY <1>2 DEF Served, RowFollows, PaidFor
  <1>5. polar[s].status = StatusAfter(sent[i].type)
    BY <1>2, <1>3 DEF Served, Told, LastTold
  <1>6. row[s].end \in {None, polar[s].end}
    BY <1>2, <1>4 DEF Served, Told, LastPaid
  <1>7. \A t \in Subs : Owner[t] = Owner[s] /\ Exists(t) => t = s
    BY <1>2 DEF Plain
  <1>8. IsLatest(Owner[s], s)
    <2>1. \A t \in Subs : Owner[t] = Owner[s] => row[t].created <= row[s].created
      <3>1. \A t \in Subs : Owner[t] = Owner[s] => t = s \/ row[t].created = 0
        BY <1>7 DEF Served, Unordered
      <3>2. row[s].created \in Nat
        BY <1>1 DEF Row
      <3> QED
        BY <3>1, <3>2
    <2> QED
      BY <1>2, <2>1 DEF IsLatest
  <1>9. ASSUME polar[s].status = "active", day <= polar[s].end
        PROVE  AdmittedAsPro(Owner[s])
    <2>1. sent[i].type # "revoked" /\ row[s].status = "active"
      BY <1>3, <1>5, <1>9 DEF StatusAfter, RowAfter
    <2>2. plan[Owner[s]] = "pro"
      BY <1>3, <2>1
    <2>3. TokenGate(s) /\ SubscriptionGate(s)
      BY <1>6, <1>9, <2>1 DEF TokenGate, SubscriptionGate
    <2> QED
      BY <1>8, <2>2, <2>3 DEF AdmittedAsPro
  <1>10. ASSUME polar[s].status = "paused"
         PROVE  ~AdmittedAsPro(Owner[s])
    <2>1. row[s].status = "paused"
      BY <1>3, <1>5, <1>10 DEF StatusAfter, RowAfter
    <2>2. ~SubscriptionGate(s)
      BY <2>1 DEF SubscriptionGate
    <2> QED
      BY <1>7, <2>2 DEF AdmittedAsPro, IsLatest
  <1> QED
    BY <1>9, <1>10

\* A receiver that has caught up with Polar in the order of sending admits the
\* owner of a subscription that Polar holds active and paid through today and
\* turns away the owner of a paused one, for any number of users, subscriptions,
\* events and days (the handlers of billing.py and both gates).
THEOREM PaidUserServedInvariant == Spec => []PaidUserServed
  <1>1. Init => Served
    BY DEF Init, Served, Told, PaidAgain, Prefix, Unordered, RowFollows, Exists,
           NoRow, Tells, Activation
  <1>2. IInv /\ Served /\ [Next]_vars => Served'
    BY ToldStays, PrefixInductive, UnorderedInductive, RowFollowsInductive
       DEF IInv, Served
  <1> QED
    BY <1>1, <1>2, IInvariant, CaughtUpIsServed, PTL DEF Spec

-----------------------------------------------------------------------------
(* The transactions of WebhookTx.                                          *)

InFlight(w) == tx[w] # NoTx
Target(w) == sent[tx[w].event].sub
Activates(w) == InFlight(w) /\ sent[tx[w].event].type \in Activations

\* A request in flight handles an event that was sent.
EventsKnown == \A w \in Slots : InFlight(w) => tx[w].event \in 1..Len(sent)

\* A row that is not there has no period, and what was read stays.
AbsentRows ==
    \A s \in Subs :
        /\ ~Exists(s) => row[s].end = None
        /\ \A w \in Slots : IF tx[w].row[s].status = "absent"
                            THEN tx[w].row[s].end = None ELSE Exists(s)
        /\ job.row[s].status # "absent" => Exists(s)

\* Every period end came in an activation of the subscription.
EndsBacked ==
    \A s \in Subs : Exists(s) =>
        \E i \in 1..Len(sent) : Activation(i, s) /\ sent[i].end = row[s].end

\* Every grace period, in force or not, counts from the processing of a
\* revocation, or ends with that of a refund.
Backs(x, s, grace) ==
    \/ /\ sent[x.event].type = "revoked"
       /\ sent[x.event].sub = s
       /\ grace = x.on + Grace
    \/ /\ sent[x.event].type = "refunded"
       /\ Owner[sent[x.event].sub] = Owner[s]
       /\ grace = x.on
GraceBacked ==
    \A s \in Subs : row[s].grace # None =>
        \E x \in sentinels : Backs(x, s, row[s].grace)

\* Two deliveries that both missed the sentinel commit on one day.
CopiesOfOneDay ==
    /\ IsFiniteSet(sentinels)
    /\ \A x \in sentinels : x.on <= day
    /\ \A x, y \in sentinels : x.event = y.event => x.on = y.on
    /\ \A w \in Slots : InFlight(w) =>
          \A x \in sentinels : x.event = tx[w].event => x.on = day

TxIInv ==
    /\ TxTypeOK
    /\ EventsKnown
    /\ AbsentRows
    /\ EndsBacked
    /\ GraceBacked
    /\ CopiesOfOneDay
    /\ CancelHoldsRow

\* An activation that found its row active writes no status: the row is live
\* still, unless the job came in between.
ActivationsSeeLive ==
    \A w \in Slots :
        /\ Activates(w)
        /\ Owner[Target(w)] \notin raced
        /\ tx[w].row[Target(w)].status = "active"
        => row[Target(w)].status \notin {"absent", "expired"}

\* The unit of work writes a column exactly if it wants another value than it read.
LEMMA DirtyRow ==
  ASSUME NEW c \in Row, NEW r \in Row, NEW n \in Row
  PROVE  /\ Dirty(c, r, n) \in Row
         /\ Dirty(c, r, n).status = IF n.status # r.status THEN n.status ELSE c.status
         /\ Dirty(c, r, n).end = IF n.end # r.end THEN n.end ELSE c.end
         /\ Dirty(c, r, n).grace = IF n.grace # r.grace THEN n.grace ELSE c.grace
  <1> DEFINE d == Dirty(c, r, n)
  <1>1. d = [status |-> IF n.status # r.status THEN n.status ELSE c.status,
             start |-> IF n.start # r.start THEN n.start ELSE c.start,
             end |-> IF n.end # r.end THEN n.end ELSE c.end,
             grace |-> IF n.grace # r.grace THEN n.grace ELSE c.grace,
             created |-> IF n.created # r.created THEN n.created ELSE c.created]
    BY DEF Dirty, Row
  <1> HIDE DEF d
  <1>2. /\ d.status = IF n.status # r.status THEN n.status ELSE c.status
        /\ d.end = IF n.end # r.end THEN n.end ELSE c.end
        /\ d.grace = IF n.grace # r.grace THEN n.grace ELSE c.grace
    BY <1>1
  <1>3. d \in Row
    BY <1>1 DEF Row
  <1> QED
    BY <1>2, <1>3 DEF d

LEMMA DirtyPlan ==
  ASSUME NEW c \in [Users -> Plans], NEW r \in [Users -> Plans], NEW n \in [Users -> Plans]
  PROVE  /\ Dirty(c, r, n) \in [Users -> Plans]
         /\ \A u \in Users : Dirty(c, r, n)[u] = IF n[u] # r[u] THEN n[u] ELSE c[u]
  BY DEF Dirty

LEMMA SnapshotType ==
  /\ NoTx.row \in [Subs -> Row] /\ NoTx.plan \in [Users -> Plans] /\ NoTx.event = None
  /\ \A x \in Snapshot : x.row \in [Subs -> Row] /\ x.plan \in [Users -> Plans]
  /\ \A e \in Nat : row \in [Subs -> Row] /\ plan \in [Users -> Plans]
                       => Take(e) \in Snapshot /\ Take(e) # NoTx
  <1>1. NoRow \in Row
    BY DEF NoRow, Row, Statuses
  <1>2. NoTx.row = [s \in Subs |-> NoRow] /\ NoTx.plan = [u \in Users |-> "free"]
        /\ NoTx.event = None
    BY DEF NoTx
  <1>3. NoTx.row \in [Subs -> Row] /\ NoTx.plan \in [Users -> Plans]
    BY <1>1, <1>2 DEF Plans
  <1>4. \A e : Take(e).event = e
    BY DEF Take
  <1>5. \A e \in Nat : Take(e) # NoTx
    BY <1>2, <1>4, ConstantsAssumption
  <1> QED
    BY <1>2, <1>3, <1>5 DEF Snapshot, Take

\* What the handler of event i wants of the row o of t it has read.
Wants(i, t, o, n) ==
    \/ /\ n = o
       /\ ~Activation(i, t)
    \/ /\ Activation(i, t)
       /\ n.status = "active"
       /\ n.end = sent[i].end
       /\ n.grace \in {o.grace, None}
    \/ /\ sent[i].type = "revoked" /\ sent[i].sub = t
       /\ o.status # "absent" /\ n.status = "past_due"
       /\ n.grace = day + Grace /\ n.end = o.end
    \/ /\ sent[i].type \in {"paused", "resumed"} /\ sent[i].sub = t
       /\ o.status # "absent" /\ n.status \in {"paused", "active"}
       /\ n.grace \in {o.grace, None} /\ n.end = o.end
    \/ /\ sent[i].type = "refunded" /\ Owner[sent[i].sub] = Owner[t]
       /\ o.status = "active" /\ n.status = "canceled"
       /\ n.grace = day /\ n.end = o.end

LEMMA WantedRow ==
  ASSUME TxTypeOK, NEW i \in 1..Len(sent), NEW r \in [Subs -> Row], NEW t \in Subs
  PROVE  /\ WantedRows(i, r)[t] \in Row
         /\ Wants(i, t, r[t], WantedRows(i, r)[t])
  <1> USE ConstantsAssumption
  <1> DEFINE s == sent[i].sub
             n == WantedRows(i, r)[t]
             type == sent[i].type
  <1>1. sent[i] \in Event /\ day \in Nat /\ day \in Day
    BY DEF TxTypeOK, Day
  <1>0. n = WantedRows(i, r)[t]
    OBVIOUS
  <1> SUFFICES n \in Row /\ Wants(i, t, r[t], n)
    OBVIOUS
  <1> HIDE DEF n
  <1>2. s \in Subs /\ sent[i].end \in Nat \cup {None} /\ type \in AllEventTypes
    BY <1>1 DEF Event
  <1>3. r[t] \in Row /\ r[s] \in Row /\ day + Grace \in Nat
    BY <1>1, <1>2
  <1>4. CASE type \in Activations
    <2>1. WantedRows(i, r) = [r EXCEPT ![s] = ActivatedRow(@, sent[i].end)]
      BY <1>4 DEF WantedRows, Activations
    <2>2. CASE t = s
      <3>1. n = ActivatedRow(r[t], sent[i].end)
        BY <1>0, <1>2, <2>1, <2>2
      <3>2. ActivatedRow(r[t], sent[i].end).grace \in {r[t].grace, None}
        BY <1>3 DEF ActivatedRow, Row
      <3>3. Activation(i, t)
        BY <1>4, <2>2 DEF Activation
      <3> QED
        BY <1>1, <1>2, <1>3, <3>1, <3>2, <3>3, ActivatedRowType DEF Wants
    <2>3. CASE t # s
      <3>1. n = r[t] /\ ~Activation(i, t)
        BY <1>0, <1>2, <2>1, <2>3 DEF Activation
      <3> QED
        BY <1>3, <3>1 DEF Wants
    <2> QED
      BY <2>2, <2>3
  \* The handlers that change an existing row only.
  <1>5. ASSUME NEW new \in Row, type \notin Activations,
               WantedRows(i, r) = [r EXCEPT ![s] = IF @.status = "absent" THEN @ ELSE new],
               r[s].status # "absent" => Wants(i, s, r[s], new)
        PROVE  n \in Row /\ Wants(i, t, r[t], n)
    <2>1. ~Activation(i, t)
      BY <1>5 DEF Activation
    <2>2. n \in Row /\ (n = r[t] \/ (t = s /\ r[s].status # "absent" /\ n = new))
      BY <1>0, <1>2, <1>3, <1>5
    <2>3. CASE n = r[t]
      BY <2>1, <2>2, <2>3 DEF Wants
    <2>4. CASE t = s /\ r[s].status # "absent" /\ n = new
      BY <1>5, <2>4
    <2> QED
      BY <2>2, <2>3, <2>4
  <1>6. CASE type = "revoked"
    <2>1. /\ RevokedRow(r[s]) \in Row
          /\ RevokedRow(r[s]).status = "past_due"
          /\ RevokedRow(r[s]).grace = day + Grace
          /\ RevokedRow(r[s]).end = r[s].end
      BY <1>3 DEF RevokedRow, Row, Statuses
    <2>2. WantedRows(i, r) =
            [r EXCEPT ![s] = IF @.status = "absent" THEN @ ELSE RevokedRow(r[s])]
      BY <1>6 DEF WantedRows, Activations
    <2> QED
      BY <1>5, <1>6, <2>1, <2>2 DEF Wants, Activations
  <1>7. CASE type = "paused"
    <2>1. /\ PausedRow(r[s]) \in Row
          /\ PausedRow(r[s]).status = "paused"
          /\ PausedRow(r[s]).grace = r[s].grace
          /\ PausedRow(r[s]).end = r[s].end
      BY <1>3 DEF PausedRow, Row, Statuses
    <2>2. WantedRows(i, r) =
            [r EXCEPT ![s] = IF @.status = "absent" THEN @ ELSE PausedRow(r[s])]
      BY <1>7 DEF WantedRows, Activations
    <2> QED
      BY <1>5, <1>7, <2>1, <2>2 DEF Wants, Activations
  <1>8. CASE type = "resumed"
    <2>1. /\ ResumedRow(r[s]) \in Row
          /\ ResumedRow(r[s]).status = "active"
          /\ ResumedRow(r[s]).grace = None
          /\ ResumedRow(r[s]).end = r[s].end
      BY <1>1, <1>3 DEF ResumedRow, Row, Statuses
    <2>2. WantedRows(i, r) =
            [r EXCEPT ![s] = IF @.status = "absent" THEN @ ELSE ResumedRow(r[s])]
      BY <1>8 DEF WantedRows, Activations
    <2> QED
      BY <1>5, <1>8, <2>1, <2>2 DEF Wants, Activations
  <1>9. CASE type = "refunded"
    <2>1. n = IF Owner[t] = Owner[s] /\ r[t].status = "active"
              THEN [r[t] EXCEPT !.status = "canceled", !.grace = day] ELSE r[t]
      BY <1>0, <1>9 DEF WantedRows, Activations
    <2>2. ~Activation(i, t)
      BY <1>9 DEF Activation, Activations
    <2>3. /\ [r[t] EXCEPT !.status = "canceled", !.grace = day] \in Row
          /\ [r[t] EXCEPT !.status = "canceled", !.grace = day].status = "canceled"
          /\ [r[t] EXCEPT !.status = "canceled", !.grace = day].grace = day
          /\ [r[t] EXCEPT !.status = "canceled", !.grace = day].end = r[t].end
      BY <1>1, <1>3 DEF Row, Statuses
    <2> QED
      BY <1>3, <1>9, <2>1, <2>2, <2>3 DEF Wants
  <1> QED
    BY <1>2, <1>4, <1>6, <1>7, <1>8, <1>9 DEF AllEventTypes


\* What the commit of a request leaves of a row, column by column.
LEMMA CommitRow ==
  ASSUME TxTypeOK, EventsKnown, AbsentRows, NEW w \in Slots, TxCommit(w), NEW t \in Subs,
         NEW i, i = tx[w].event
  PROVE  /\ row'[t] \in Row
         /\ Exists(t) => row'[t].status # "absent"
         /\ \/ row'[t].end = row[t].end /\ (row'[t].status # "absent" => Exists(t))
            \/ Activation(i, t) /\ row'[t].end = sent[i].end
         /\ ~Exists(t) /\ row'[t].status = "absent" => row'[t].end = row[t].end
         /\ \/ row'[t].grace \in {row[t].grace, None}
            \/ /\ sent[i].type = "revoked"
               /\ sent[i].sub = t
               /\ row'[t].grace = day + Grace
            \/ /\ sent[i].type = "refunded"
               /\ Owner[sent[i].sub] = Owner[t]
               /\ row'[t].grace = day
         /\ row'[t].status \in {row[t].status, "active", "past_due", "paused", "canceled"}
         /\ Activation(i, t) => row'[t].status = "active" \/ tx[w].row[t].status = "active"
  <1> USE ConstantsAssumption
  <1> DEFINE o == tx[w].row[t]
             n == WantedRows(i, tx[w].row)[t]
  <1>1. tx[w] \in Snapshot /\ row[t] \in Row /\ InFlight(w)
    BY DEF TxTypeOK, TxCommit, InFlight
  <1>2. tx[w].row \in [Subs -> Row] /\ o \in Row /\ i \in 1..Len(sent)
    BY <1>1, SnapshotType DEF EventsKnown
  <1>3. n \in Row /\ Wants(i, t, o, n)
    BY <1>2, WantedRow
  <1>4. row'[t] = Dirty(row[t], o, n)
    BY DEF TxCommit, WriteBack
  <1>5. /\ ~Exists(t) => row[t].end = None
        /\ o.status = "absent" => o.end = None
        /\ o.status # "absent" => Exists(t)
    BY DEF AbsentRows
  <1>6. Activation(i, t) /\ o.status = "absent" => ~Exists(t)
    BY <1>2 DEF TxCommit, InsertConflict, Activation
  <1> HIDE DEF o, n
  <1>7. /\ row'[t] \in Row
        /\ row'[t].status = IF n.status # o.status THEN n.status ELSE row[t].status
        /\ row'[t].end = IF n.end # o.end THEN n.end ELSE row[t].end
        /\ row'[t].grace = IF n.grace # o.grace THEN n.grace ELSE row[t].grace
    BY <1>1, <1>2, <1>3, <1>4, DirtyRow
  <1>8. CASE n = o /\ ~Activation(i, t)
    BY <1>7, <1>8 DEF Exists
  <1>9. CASE Activation(i, t) /\ n.status = "active" /\ n.end = sent[i].end
             /\ n.grace \in {o.grace, None}
    <2>1. row'[t].end \in {row[t].end, sent[i].end}
      BY <1>7, <1>9
    <2>2. ~Exists(t) => row'[t].end = sent[i].end
      BY <1>5, <1>6, <1>7, <1>9
    <2>3. row'[t].grace \in {row[t].grace, None}
      BY <1>7, <1>9
    <2>4. row'[t].status \in {row[t].status, "active"}
      BY <1>7, <1>9
    <2>5. row'[t].status = "active" \/ o.status = "active"
      BY <1>7, <1>9
    <2>6. ~Exists(t) => o.status = "absent" /\ row'[t].status = "active"
      BY <1>5, <1>7, <1>9
    <2> QED
      BY <1>7, <1>9, <2>1, <2>2, <2>3, <2>4, <2>5, <2>6 DEF Exists, o
  <1>10. CASE /\ sent[i].type \in {"revoked", "paused", "resumed", "refunded"}
              /\ o.status # "absent" /\ n.end = o.end
              /\ n.status \in {"past_due", "paused", "active", "canceled"}
              /\ \/ n.grace \in {o.grace, None}
                 \/ /\ sent[i].type = "revoked"
                    /\ sent[i].sub = t
                    /\ n.grace = day + Grace
                 \/ /\ sent[i].type = "refunded"
                    /\ Owner[sent[i].sub] = Owner[t]
                    /\ n.grace = day
    <2>1. Exists(t) /\ ~Activation(i, t)
      BY <1>5, <1>10 DEF Activation, Activations
    <2>2. row'[t].status \in {row[t].status, "active", "past_due", "paused", "canceled"}
      BY <1>7, <1>10
    <2>3. row'[t].end = row[t].end
      BY <1>7, <1>10
    <2>4. \/ row'[t].grace \in {row[t].grace, None}
          \/ row'[t].grace = n.grace
      BY <1>7
    <2>5. row'[t].status # "absent"
      BY <2>1, <2>2 DEF Exists
    <2> QED
      BY <1>7, <1>10, <2>1, <2>2, <2>3, <2>4, <2>5
  <1> QED
    BY <1>3, <1>8, <1>9, <1>10 DEF Wants

LEMMA CommitPlan ==
  ASSUME TxTypeOK, EventsKnown, NEW w \in Slots, TxCommit(w), NEW i, i = tx[w].event
  PROVE  /\ plan' \in [Users -> Plans]
         /\ \A u \in Users :
               \/ plan'[u] = plan[u]
               \/ /\ sent[i].type \in Activations
                  /\ Owner[sent[i].sub] = u
                  /\ plan'[u] = "pro"
               \/ plan'[u] = "free"
  <1> USE ConstantsAssumption
  <1> DEFINE p == tx[w].plan
             q == WantedPlan(i, p)
  <1>1. tx[w] \in Snapshot /\ plan \in [Users -> Plans] /\ InFlight(w)
    BY DEF TxTypeOK, TxCommit, InFlight
  <1>2. p \in [Users -> Plans] /\ i \in 1..Len(sent)
    BY <1>1, SnapshotType DEF EventsKnown
  <1>3. /\ q \in [Users -> Plans]
        /\ \A u \in Users :
              \/ q[u] = p[u]
              \/ /\ sent[i].type \in Activations
                 /\ Owner[sent[i].sub] = u
                 /\ q[u] = "pro"
              \/ q[u] = "free"
    <2>1. sent[i] \in Event
      BY <1>2 DEF TxTypeOK
    <2>2. Owner[sent[i].sub] \in Users
      BY <2>1 DEF Event
    <2>3. CASE sent[i].type \in Activations
      <3>1. q = [p EXCEPT ![Owner[sent[i].sub]] = "pro"]
        BY <2>3 DEF WantedPlan, Activations
      <3> QED
        BY <1>2, <2>2, <2>3, <3>1 DEF Plans
    <2>4. CASE sent[i].type = "refunded"
      <3>1. q = [p EXCEPT ![Owner[sent[i].sub]] = "free"]
        BY <2>4 DEF WantedPlan, Activations
      <3> QED
        BY <1>2, <2>2, <3>1 DEF Plans
    <2>5. CASE sent[i].type \notin Activations /\ sent[i].type # "refunded"
      BY <1>2, <2>5 DEF WantedPlan
    <2> QED
      BY <2>3, <2>4, <2>5
  <1>4. plan' = Dirty(plan, p, q)
    BY DEF TxCommit, WriteBack
  <1> HIDE DEF p, q
  <1>5. /\ plan' \in [Users -> Plans]
        /\ \A u \in Users : plan'[u] = IF q[u] # p[u] THEN q[u] ELSE plan[u]
    BY <1>1, <1>2, <1>3, <1>4, DirtyPlan
  <1> QED
    BY <1>3, <1>5

\* The commit of the nightly job expires what it has read as elapsed, and writes
\* no other column of a row.
LEMMA JobRow ==
  ASSUME TxTypeOK, JobCommit, NEW t \in Subs
  PROVE  /\ row'[t] \in Row
         /\ row'[t].end = row[t].end
         /\ row'[t].grace = row[t].grace
         /\ row'[t].status = IF JobElapsed(t) THEN "expired" ELSE row[t].status
  <1> DEFINE o == job.row[t]
             n == IF JobElapsed(t) THEN [o EXCEPT !.status = "expired"] ELSE o
  <1>1. job \in Snapshot /\ row[t] \in Row
    BY DEF TxTypeOK
  <1>2. o \in Row
    BY <1>1, SnapshotType
  <1>3. n \in Row /\ n.end = o.end /\ n.grace = o.grace
        /\ n.status = IF JobElapsed(t) THEN "expired" ELSE o.status
    BY <1>2 DEF Row, Statuses
  <1>4. row'[t] = Dirty(row[t], o, n)
    BY DEF JobCommit, WriteBack
  <1>5. JobElapsed(t) => o.status = "past_due"
    BY DEF JobElapsed
  <1> HIDE DEF o, n
  <1> QED
    BY <1>1, <1>2, <1>3, <1>4, <1>5, DirtyRow

LEMMA JobPlan ==
  ASSUME TxTypeOK, JobCommit
  PROVE  /\ plan' \in [Users -> Plans]
         /\ \A u \in Users :
               \/ plan'[u] = "free"
               \/ /\ plan'[u] = plan[u]
                  /\ \/ \A s \in Subs : JobElapsed(s) => Owner[s] # u
                     \/ plan[u] # job.plan[u]
  <1> DEFINE p == job.plan
             q == [u \in Users |-> IF \E s \in Subs : JobElapsed(s) /\ Owner[s] = u
                                   THEN "free" ELSE p[u]]
  <1>1. job \in Snapshot /\ plan \in [Users -> Plans]
    BY DEF TxTypeOK
  <1>2. p \in [Users -> Plans]
    BY <1>1, SnapshotType
  <1>3. q \in [Users -> Plans]
    BY <1>2 DEF Plans
  <1>4. plan' = Dirty(plan, p, q)
    BY DEF JobCommit, WriteBack
  <1>5. /\ plan' \in [Users -> Plans]
        /\ \A u \in Users : plan'[u] = IF q[u] # p[u] THEN q[u] ELSE plan[u]
    <2> HIDE DEF p, q
    <2> QED
      BY <1>1, <1>2, <1>3, <1>4, DirtyPlan
  <1>6. ASSUME NEW u \in Users
        PROVE  \/ plan'[u] = "free"
               \/ /\ plan'[u] = plan[u]
                  /\ \/ \A s \in Subs : JobElapsed(s) => Owner[s] # u
                     \/ plan[u] # job.plan[u]
    <2>1. CASE \A s \in Subs : JobElapsed(s) => Owner[s] # u
      BY <1>5, <2>1
    <2>2. CASE \E s \in Subs : JobElapsed(s) /\ Owner[s] = u
      <3>1. q[u] = "free"
        BY <2>2
      <3> QED
        BY <1>5, <3>1
    <2> QED
      BY <2>1, <2>2
  <1> QED
    BY <1>5, <1>6


\* A user's or an admin's step changes a status to canceled, a plan, or nothing.
LEMMA UserStep ==
  ASSUME TxTypeOK, CancelHoldsRow, UserNext
  PROVE  /\ day' = day /\ polar' = polar /\ sent' = sent /\ sentinels' = sentinels
         /\ plan' \in [Users -> Plans]
         /\ \A u \in Users : plan'[u] = plan[u] \/ plan'[u] \in AdminPlans
         /\ row' \in [Subs -> Row]
         /\ \A t \in Subs : /\ row'[t].end = row[t].end
                            /\ row'[t].grace = row[t].grace
                            /\ \/ row'[t].status = row[t].status
                               \/ row'[t].status = "canceled" /\ Exists(t)
         /\ cancelling' \in [Users -> Subs \cup {None}]
         /\ CancelHoldsRow'
  <1> USE ConstantsAssumption
  <1>1. PICK u \in Users : \/ CancelBegin(u)
                           \/ CancelCommit(u)
                           \/ CancelFail(u)
                           \/ \E p \in Plans : AdminSetPlan(u, p)
    BY DEF UserNext
  <1>2. CASE CancelBegin(u)
    <2>1. PICK s \in ActiveOf(u) : cancelling' = [cancelling EXCEPT ![u] = s]
      BY <1>2 DEF CancelBegin
    <2>2. s \in Subs /\ Exists(s)
      BY <2>1 DEF ActiveOf, Exists
    <2>3. CancelHoldsRow'
      BY <1>2, <2>1, <2>2 DEF CancelBegin, CancelHoldsRow, Exists, TxTypeOK
    <2> QED
      BY <1>2, <2>1, <2>2, <2>3 DEF CancelBegin, TxTypeOK
  <1>3. CASE CancelCommit(u)
    <2>1. cancelling[u] \in Subs /\ Exists(cancelling[u])
      BY <1>3 DEF CancelCommit, TxTypeOK, CancelHoldsRow
    <2>2. \A r \in Row : /\ [r EXCEPT !.status = "canceled"] \in Row
                         /\ [r EXCEPT !.status = "canceled"].status = "canceled"
                         /\ [r EXCEPT !.status = "canceled"].end = r.end
                         /\ [r EXCEPT !.status = "canceled"].grace = r.grace
      BY DEF Row, Statuses
    <2>3. row' \in [Subs -> Row]
      BY <1>3, <2>1, <2>2 DEF CancelCommit, TxTypeOK
    <2>4. \A t \in Subs : row'[t] = IF t = cancelling[u]
                                    THEN [row[t] EXCEPT !.status = "canceled"] ELSE row[t]
      BY <1>3, <2>1 DEF CancelCommit, TxTypeOK
    <2>5. ASSUME NEW t \in Subs
          PROVE  /\ row'[t].end = row[t].end
                 /\ row'[t].grace = row[t].grace
                 /\ \/ row'[t].status = row[t].status
                    \/ row'[t].status = "canceled" /\ Exists(t)
      <3>1. row[t] \in Row
        BY DEF TxTypeOK
      <3>2. CASE t = cancelling[u]
        <4>1. row'[t] = [row[t] EXCEPT !.status = "canceled"]
          BY <2>4, <3>2
        <4> QED
          BY <2>1, <2>2, <3>1, <3>2, <4>1
      <3>3. CASE t # cancelling[u]
        BY <2>4, <3>3
      <3> QED
        BY <3>2, <3>3
    <2>6. cancelling' = [cancelling EXCEPT ![u] = None]
      BY <1>3 DEF CancelCommit
    <2>7. CancelHoldsRow'
      BY <2>5, <2>6 DEF CancelHoldsRow, Exists, TxTypeOK
    <2> QED
      BY <1>3, <2>3, <2>5, <2>6, <2>7 DEF CancelCommit, TxTypeOK
  <1>4. CASE CancelFail(u)
    <2>1. CancelHoldsRow'
      BY <1>4 DEF CancelFail, CancelHoldsRow, Exists, TxTypeOK
    <2> QED
      BY <1>4, <2>1 DEF CancelFail, TxTypeOK
  <1>5. CASE \E p \in Plans : AdminSetPlan(u, p)
    <2>1. CancelHoldsRow'
      BY <1>5 DEF AdminSetPlan, CancelHoldsRow, Exists
    <2> QED
      BY <1>5, <2>1 DEF AdminSetPlan, TxTypeOK
  <1> QED
    BY <1>1, <1>2, <1>3, <1>4, <1>5

\* Backing survives a step that keeps the logs and gives every period end and
\* every grace period it writes an event of its own.
LEMMA BackingStays ==
  ASSUME TxTypeOK, EndsBacked, GraceBacked,
         \A i \in 1..Len(sent) : i \in 1..Len(sent') /\ sent'[i] = sent[i],
         sentinels \subseteq sentinels',
         \A t \in Subs :
            \/ row'[t].end = row[t].end /\ (row'[t].status # "absent" => Exists(t))
            \/ \E i \in 1..Len(sent) : Activation(i, t) /\ row'[t].end = sent[i].end,
         \A t \in Subs :
            \/ row'[t].grace \in {row[t].grace, None}
            \/ \E x \in sentinels' : x.event \in 1..Len(sent) /\ Backs(x, t, row'[t].grace)
  PROVE  EndsBacked' /\ GraceBacked'
  <1>1. ASSUME NEW t \in Subs, (Exists(t))'
        PROVE  \E i \in 1..Len(sent') : (Activation(i, t))' /\ sent'[i].end = row'[t].end
    <2>1. PICK i \in 1..Len(sent) : Activation(i, t) /\ row'[t].end = sent[i].end
      BY <1>1 DEF EndsBacked, Exists
    <2> QED
      BY <2>1 DEF Activation
  <1>2. ASSUME NEW t \in Subs, row'[t].grace # None
        PROVE  \E x \in sentinels' : (Backs(x, t, row[t].grace))'
    <2>1. PICK x \in sentinels' : x.event \in 1..Len(sent) /\ Backs(x, t, row'[t].grace)
      <3>1. CASE row'[t].grace = row[t].grace
        <4>1. PICK x \in sentinels : Backs(x, t, row[t].grace)
          BY <1>2, <3>1 DEF GraceBacked
        <4>2. x.event \in 1..Len(sent)
          BY DEF TxTypeOK
        <4> QED
          BY <3>1, <4>1, <4>2
      <3> QED
        BY <1>2, <3>1
    <2>2. sent'[x.event] = sent[x.event]
      BY <2>1
    <2> QED
      BY <2>1, <2>2 DEF Backs
  <1> QED
    BY <1>1, <1>2 DEF EndsBacked, GraceBacked

\* What was read stays, if no row goes and what is read is what is there.
LEMMA ReadsStay ==
  ASSUME AbsentRows,
         \A t \in Subs : Exists(t) => row'[t].status # "absent",
         \A t \in Subs : row'[t].status = "absent" => row'[t].end = row[t].end,
         \A w \in Slots : tx'[w].row \in {tx[w].row, NoTx.row, row},
         job'.row \in {job.row, NoTx.row, row}
  PROVE  AbsentRows'
  <1>1. \A t \in Subs : NoTx.row[t].status = "absent" /\ NoTx.row[t].end = None
    BY DEF NoTx, NoRow
  <1>2. ASSUME NEW t \in Subs, ~(Exists(t))' PROVE row'[t].end = None
    BY <1>2 DEF AbsentRows, Exists
  <1>3. ASSUME NEW t \in Subs, NEW w \in Slots
        PROVE  IF tx'[w].row[t].status = "absent" THEN tx'[w].row[t].end = None
                                                  ELSE (Exists(t))'
    <2>1. CASE tx'[w].row = tx[w].row
      BY <2>1 DEF AbsentRows, Exists
    <2>2. CASE tx'[w].row = NoTx.row
      BY <1>1, <2>2
    <2>3. CASE tx'[w].row = row
      BY <2>3 DEF AbsentRows, Exists
    <2> QED
      BY <2>1, <2>2, <2>3
  <1>4. ASSUME NEW t \in Subs, job'.row[t].status # "absent" PROVE (Exists(t))'
    <2>1. CASE job'.row = job.row
      BY <1>4, <2>1 DEF AbsentRows, Exists
    <2>2. CASE job'.row = NoTx.row
      BY <1>1, <1>4, <2>2
    <2>3. CASE job'.row = row
      BY <1>4, <2>3 DEF Exists
    <2> QED
      BY <2>1, <2>2, <2>3
  <1> QED
    BY <1>2, <1>3, <1>4 DEF AbsentRows


LEMMA TxTickStep ==
  ASSUME TxIInv, Idle, Tick, UNCHANGED <<tx, job, raced>>
  PROVE  TxIInv'
  <1> USE ConstantsAssumption DEF TxIInv
  <1>1. /\ polar' = polar /\ sent' = sent /\ sentinels' = sentinels /\ plan' = plan
        /\ row' = row /\ cancelling' = cancelling /\ tx' = tx /\ job' = job /\ raced' = raced
        /\ day' = day + 1 /\ day' \in Day /\ day \in Nat
    BY DEF Tick, TxTypeOK, Day
  <1>2. TxTypeOK'
    BY <1>1 DEF TxTypeOK, Snapshot, NoTx
  <1>3. EventsKnown' /\ AbsentRows' /\ EndsBacked' /\ CancelHoldsRow'
    BY <1>1 DEF EventsKnown, InFlight, NoTx, AbsentRows, EndsBacked, CancelHoldsRow,
                Exists, Activation
  <1>4. GraceBacked'
    BY <1>1 DEF GraceBacked, Backs
  <1>5. CopiesOfOneDay'
    <2>1. \A x \in sentinels : x.on \in Nat
      BY DEF TxTypeOK, Day
    <2> QED
      BY <1>1, <2>1 DEF CopiesOfOneDay, InFlight, Idle
  <1> QED
    BY <1>2, <1>3, <1>4, <1>5

LEMMA TxPolarStep ==
  ASSUME TxIInv, PolarNext, UNCHANGED <<tx, job, raced>>
  PROVE  TxIInv'
  <1> USE ConstantsAssumption DEF TxIInv
  <1>1. /\ day' = day /\ sentinels' = sentinels /\ plan' = plan /\ row' = row
        /\ cancelling' = cancelling /\ tx' = tx /\ job' = job /\ raced' = raced
        /\ polar' \in [Subs -> PolarState]
    BY PolarStep DEF TxTypeOK
  <1>2. PICK e \in Event : sent' = Append(sent, e)
    BY PolarStep DEF TxTypeOK
  <1>3. /\ sent' \in Seq(Event)
        /\ \A i \in 1..Len(sent) : i \in 1..Len(sent') /\ sent'[i] = sent[i]
    BY <1>2, SentGrows DEF TxTypeOK
  <1>4. TxTypeOK'
    <2>1. sentinels \subseteq [event : 1..Len(sent'), on : Day, early : BOOLEAN, copy : Nat]
      BY <1>3 DEF TxTypeOK
    <2>2. Snapshot' = Snapshot
      BY DEF Snapshot, NoTx
    <2> QED
      BY <1>1, <1>3, <2>1, <2>2 DEF TxTypeOK
  <1>5. EndsBacked' /\ GraceBacked'
    <2>1. \A t \in Subs : /\ row'[t].end = row[t].end /\ row'[t].grace = row[t].grace
                          /\ row'[t].status # "absent" => Exists(t)
      BY <1>1 DEF Exists
    <2> QED
      BY <1>1, <1>3, <2>1, BackingStays
  <1>6. EventsKnown'
    BY <1>1, <1>3 DEF EventsKnown, InFlight, NoTx
  <1>7. AbsentRows' /\ CopiesOfOneDay' /\ CancelHoldsRow'
    BY <1>1 DEF AbsentRows, CopiesOfOneDay, CancelHoldsRow, Exists, InFlight, NoTx
  <1> QED
    BY <1>4, <1>5, <1>6, <1>7

LEMMA TxUserStep ==
  ASSUME TxIInv, UserNext, UNCHANGED <<tx, job, raced>>
  PROVE  TxIInv'
  <1> USE ConstantsAssumption DEF TxIInv
  <1>1. /\ day' = day /\ polar' = polar /\ sent' = sent /\ sentinels' = sentinels
        /\ plan' \in [Users -> Plans]
        /\ row' \in [Subs -> Row]
        /\ \A t \in Subs : /\ row'[t].end = row[t].end
                           /\ row'[t].grace = row[t].grace
                           /\ \/ row'[t].status = row[t].status
                              \/ row'[t].status = "canceled" /\ Exists(t)
        /\ cancelling' \in [Users -> Subs \cup {None}]
        /\ CancelHoldsRow'
        /\ tx' = tx /\ job' = job /\ raced' = raced
    BY UserStep
  <1>2. TxTypeOK'
    BY <1>1 DEF TxTypeOK, Snapshot, NoTx
  <1>3. EndsBacked' /\ GraceBacked'
    <2>1. \A t \in Subs : row'[t].end = row[t].end /\ (row'[t].status # "absent" => Exists(t))
      BY <1>1 DEF Exists
    <2> QED
      BY <1>1, <2>1, BackingStays
  <1>4. AbsentRows'
    <2>1. \A t \in Subs : Exists(t) => row'[t].status # "absent"
      BY <1>1 DEF Exists
    <2> QED
      BY <1>1, <2>1, ReadsStay
  <1>5. EventsKnown' /\ CopiesOfOneDay'
    BY <1>1 DEF EventsKnown, CopiesOfOneDay, InFlight, NoTx
  <1> QED
    BY <1>1, <1>2, <1>3, <1>4, <1>5

\* Reads and rollbacks: only what is in flight changes.
LEMMA TxReadStep ==
  ASSUME TxIInv, UNCHANGED <<vars, raced>>,
         tx' \in [Slots -> Snapshot], job' \in Snapshot,
         \A w \in Slots : \/ tx'[w] \in {tx[w], NoTx}
                          \/ \E i \in 1..Len(sent) : ~Processed(i) /\ tx'[w] = Take(i),
         job' \in {job, NoTx, Take(0)}
  PROVE  TxIInv'
  <1> USE ConstantsAssumption DEF TxIInv
  <1>1. /\ day' = day /\ polar' = polar /\ sent' = sent /\ sentinels' = sentinels
        /\ plan' = plan /\ row' = row /\ cancelling' = cancelling /\ raced' = raced
    BY DEF vars
  <1>2. TxTypeOK'
    BY <1>1 DEF TxTypeOK, Snapshot, NoTx
  <1>3. EndsBacked' /\ GraceBacked' /\ CancelHoldsRow'
    BY <1>1 DEF EndsBacked, GraceBacked, Backs, CancelHoldsRow, Exists, Activation
  <1>4. \A e : Take(e).row = row /\ Take(e).event = e
    BY DEF Take
  <1>5. AbsentRows'
    <2>1. \A w \in Slots : tx'[w].row \in {tx[w].row, NoTx.row, row}
      BY <1>4
    <2>2. job'.row \in {job.row, NoTx.row, row}
      BY <1>4
    <2> QED
      BY <1>1, <2>1, <2>2, ReadsStay DEF Exists
  <1>6. ASSUME NEW w \in Slots, tx'[w] # NoTx
        PROVE  /\ tx'[w].event \in 1..Len(sent)
               /\ \A x \in sentinels : x.event = tx'[w].event => x.on = day
    <2>1. CASE tx'[w] = tx[w]
      BY <1>6, <2>1 DEF EventsKnown, CopiesOfOneDay, InFlight
    <2>2. CASE \E i \in 1..Len(sent) : ~Processed(i) /\ tx'[w] = Take(i)
      BY <1>4, <2>2 DEF Processed
    <2> QED
      BY <1>6, <2>1, <2>2
  <1>7. EventsKnown' /\ CopiesOfOneDay'
    BY <1>1, <1>6 DEF EventsKnown, CopiesOfOneDay, InFlight, NoTx
  <1> QED
    BY <1>2, <1>3, <1>5, <1>7

LEMMA TxCommitStep ==
  ASSUME TxIInv, NEW w \in Slots, TxCommit(w)
  PROVE  TxIInv'
  <1> USE ConstantsAssumption DEF TxIInv
  <1> DEFINE copy == Cardinality({x \in sentinels : x.event = tx[w].event})
             new == [event |-> tx[w].event, on |-> day, early |-> Early(tx[w].event),
                     copy |-> copy]
  <1>1. /\ day' = day /\ polar' = polar /\ sent' = sent /\ cancelling' = cancelling
        /\ job' = job /\ raced' = raced
        /\ tx' = [tx EXCEPT ![w] = NoTx]
        /\ sentinels' = sentinels \cup {new}
        /\ InFlight(w)
    BY DEF TxCommit, InFlight
  <1>2. PICK i \in 1..Len(sent) : i = tx[w].event
    BY <1>1 DEF EventsKnown
  <1>3. new.event = i /\ new.on = day /\ new \in sentinels'
    BY <1>1, <1>2
  <1>4. new \in [event : 1..Len(sent), on : Day, early : BOOLEAN, copy : Nat]
    <2>1. IsFiniteSet({x \in sentinels : x.event = tx[w].event})
      BY FS_Subset DEF CopiesOfOneDay
    <2>2. copy \in Nat
      BY <2>1, FS_CardinalityType
    <2> QED
      BY <1>2, <2>2 DEF TxTypeOK, Early
  <1> HIDE DEF new
  <1>5. \A t \in Subs :
           /\ row'[t] \in Row
           /\ Exists(t) => row'[t].status # "absent"
           /\ \/ row'[t].end = row[t].end /\ (row'[t].status # "absent" => Exists(t))
              \/ Activation(i, t) /\ row'[t].end = sent[i].end
           /\ ~Exists(t) /\ row'[t].status = "absent" => row'[t].end = row[t].end
           /\ \/ row'[t].grace \in {row[t].grace, None}
              \/ sent[i].type = "revoked" /\ sent[i].sub = t /\ row'[t].grace = day + Grace
              \/ /\ sent[i].type = "refunded"
                 /\ Owner[sent[i].sub] = Owner[t]
                 /\ row'[t].grace = day
    BY <1>2, CommitRow
  <1>6. TxTypeOK'
    <2>1. row' \in [Subs -> Row]
      <3>1. row' = [t \in Subs |-> row'[t]]
        BY DEF TxCommit, WriteBack
      <3> QED
        BY <1>5, <3>1
    <2>2. plan' \in [Users -> Plans]
      BY <1>2, CommitPlan
    <2>3. Snapshot' = Snapshot /\ NoTx \in Snapshot
      BY DEF Snapshot, NoTx
    <2>4. tx' \in [Slots -> Snapshot]
      BY <1>1, <2>3 DEF TxTypeOK
    <2> QED
      BY <1>1, <1>4, <2>1, <2>2, <2>3, <2>4 DEF TxTypeOK
  <1>7. EndsBacked' /\ GraceBacked'
    <2>1. \A t \in Subs :
             \/ row'[t].grace \in {row[t].grace, None}
             \/ \E x \in sentinels' : x.event \in 1..Len(sent) /\ Backs(x, t, row'[t].grace)
      BY <1>3, <1>5 DEF Backs
    <2>2. \A t \in Subs :
             \/ row'[t].end = row[t].end /\ (row'[t].status # "absent" => Exists(t))
             \/ \E j \in 1..Len(sent) : Activation(j, t) /\ row'[t].end = sent[j].end
      BY <1>5
    <2> QED
      BY <1>1, <2>1, <2>2, BackingStays
  <1>8. \A v \in Slots : tx'[v] = IF v = w THEN NoTx ELSE tx[v]
    BY <1>1 DEF TxTypeOK
  <1>9. AbsentRows'
    <2>1. \A t \in Subs : row'[t].status = "absent" => row'[t].end = row[t].end
      BY <1>5
    <2>2. \A v \in Slots : tx'[v].row \in {tx[v].row, NoTx.row, row}
      BY <1>8
    <2> QED
      BY <1>1, <1>5, <2>1, <2>2, ReadsStay
  <1>10. EventsKnown'
    BY <1>1, <1>8 DEF EventsKnown, InFlight, NoTx
  <1>11. CopiesOfOneDay'
    <2>1. IsFiniteSet(sentinels')
      BY <1>1, FS_AddElement DEF CopiesOfOneDay
    <2>2. \A x \in sentinels : x.event = i => x.on = day
      BY <1>1, <1>2 DEF CopiesOfOneDay
    <2>3. \A x \in sentinels' : x.on <= day
      BY <1>1, <1>3 DEF CopiesOfOneDay, TxTypeOK, Day
    <2>4. \A x, y \in sentinels' : x.event = y.event => x.on = y.on
      BY <1>1, <1>3, <2>2 DEF CopiesOfOneDay
    <2>5. ASSUME NEW v \in Slots, tx'[v] # NoTx, NEW x \in sentinels', x.event = tx'[v].event
          PROVE  x.on = day
      BY <1>1, <1>3, <1>8, <2>5 DEF CopiesOfOneDay, InFlight
    <2> QED
      BY <1>1, <2>1, <2>3, <2>4, <2>5 DEF CopiesOfOneDay, InFlight, NoTx
  <1>12. CancelHoldsRow'
    BY <1>1, <1>5 DEF CancelHoldsRow, Exists, TxTypeOK
  <1> QED
    BY <1>6, <1>7, <1>9, <1>10, <1>11, <1>12

LEMMA TxJobStep ==
  ASSUME TxIInv, JobCommit
  PROVE  TxIInv'
  <1> USE ConstantsAssumption DEF TxIInv
  <1>1. /\ day' = day /\ polar' = polar /\ sent' = sent /\ cancelling' = cancelling
        /\ sentinels' = sentinels /\ tx' = tx /\ job' = NoTx
        /\ raced' = raced \cup {u \in Users : Overlapped(u)}
    BY DEF JobCommit
  <1>2. \A t \in Subs : /\ row'[t] \in Row
                        /\ row'[t].end = row[t].end
                        /\ row'[t].grace = row[t].grace
                        /\ row'[t].status = IF JobElapsed(t) THEN "expired" ELSE row[t].status
    BY JobRow
  <1>3. \A t \in Subs : JobElapsed(t) => Exists(t)
    BY DEF JobElapsed, AbsentRows
  <1>4. \A t \in Subs : row'[t].status # "absent" <=> Exists(t)
    BY <1>2, <1>3 DEF Exists
  <1>5. TxTypeOK'
    <2>1. row' \in [Subs -> Row]
      <3>1. row' = [t \in Subs |-> row'[t]]
        BY DEF JobCommit, WriteBack
      <3> QED
        BY <1>2, <3>1
    <2>2. plan' \in [Users -> Plans]
      BY JobPlan
    <2>3. Snapshot' = Snapshot /\ NoTx \in Snapshot
      BY DEF Snapshot, NoTx
    <2> QED
      BY <1>1, <2>1, <2>2, <2>3 DEF TxTypeOK
  <1>6. EndsBacked' /\ GraceBacked'
    BY <1>1, <1>2, <1>4, BackingStays
  <1>7. AbsentRows'
    BY <1>1, <1>2, <1>4, ReadsStay
  <1>8. EventsKnown' /\ CopiesOfOneDay'
    BY <1>1 DEF EventsKnown, CopiesOfOneDay, InFlight, NoTx
  <1>9. CancelHoldsRow'
    BY <1>1, <1>4 DEF CancelHoldsRow, Exists, TxTypeOK
  <1> QED
    BY <1>5, <1>6, <1>7, <1>8, <1>9


LEMMA TxStep == TxIInv /\ [TxNext]_txVars => TxIInv'
  <1> SUFFICES ASSUME TxIInv, [TxNext]_txVars PROVE TxIInv'
    OBVIOUS
  <1>0. /\ tx \in [Slots -> Snapshot] /\ job \in Snapshot /\ NoTx \in Snapshot
        /\ \A e \in Nat : Take(e) \in Snapshot
    BY SnapshotType DEF TxIInv, TxTypeOK, Snapshot
  <1>1. CASE Idle /\ Tick /\ UNCHANGED <<tx, job, raced>>
    BY <1>1, TxTickStep
  <1>2. CASE PolarNext /\ UNCHANGED <<tx, job, raced>>
    BY <1>2, TxPolarStep
  <1>3. CASE UserNext /\ UNCHANGED <<tx, job, raced>>
    BY <1>3, TxUserStep
  <1>4. ASSUME NEW w \in Slots, NEW i \in 1..Len(sent), TxBegin(w, i) PROVE TxIInv'
    <2>1. tx' = [tx EXCEPT ![w] = Take(i)] /\ job' = job /\ UNCHANGED <<vars, raced>>
          /\ ~Processed(i)
      BY <1>4 DEF TxBegin
    <2>2. tx' \in [Slots -> Snapshot]
      BY <1>0, <2>1
    <2>3. \A v \in Slots : tx'[v] = tx[v] \/ tx'[v] = Take(i)
      BY <1>0, <2>1
    <2> QED
      BY <1>0, <2>1, <2>2, <2>3, TxReadStep
  <1>5. ASSUME NEW w \in Slots, TxCommit(w) PROVE TxIInv'
    BY <1>5, TxCommitStep
  <1>6. ASSUME NEW w \in Slots, TxAbort(w) PROVE TxIInv'
    <2>1. tx' = [tx EXCEPT ![w] = NoTx] /\ job' = job /\ UNCHANGED <<vars, raced>>
      BY <1>6 DEF TxAbort
    <2>2. tx' \in [Slots -> Snapshot]
      BY <1>0, <2>1
    <2>3. \A v \in Slots : tx'[v] \in {tx[v], NoTx}
      BY <1>0, <2>1
    <2> QED
      BY <1>0, <2>1, <2>2, <2>3, TxReadStep
  <1>7. CASE JobBegin
    BY <1>0, <1>7, TxReadStep DEF JobBegin
  <1>8. CASE JobCommit
    BY <1>8, TxJobStep
  <1>9. CASE UNCHANGED txVars
    BY <1>0, <1>9, TxReadStep DEF txVars
  <1> QED
    BY <1>1, <1>2, <1>3, <1>4, <1>5, <1>6, <1>7, <1>8, <1>9 DEF TxNext

LEMMA TxInvariant == TxSpec => []TxIInv
  <1>1. TxInit => TxIInv
    <2> USE ConstantsAssumption
    <2> SUFFICES ASSUME TxInit PROVE TxIInv
      OBVIOUS
    <2>1. NoRow \in Row /\ NoRow.status = "absent" /\ NoRow.end = None /\ NoRow.grace = None
      BY DEF NoRow, Row, Statuses
    <2>2. NoTx \in Snapshot /\ \A s \in Subs : NoTx.row[s] = NoRow
      BY DEF Snapshot, NoTx
    <2>3. \A s \in Subs : row[s] = NoRow
      BY DEF TxInit, Init
    <2>4. TxTypeOK
      BY <2>1, <2>2 DEF TxInit, Init, TxTypeOK, Day, PolarState, Plans
    <2>5. EventsKnown /\ AbsentRows
      BY <2>1, <2>2, <2>3 DEF TxInit, EventsKnown, AbsentRows, InFlight, Exists
    <2>6. EndsBacked /\ GraceBacked
      BY <2>1, <2>3 DEF EndsBacked, GraceBacked, Exists
    <2>7. CopiesOfOneDay
      BY FS_EmptySet DEF TxInit, Init, CopiesOfOneDay
    <2>8. CancelHoldsRow
      BY DEF TxInit, Init, CancelHoldsRow
    <2> QED
      BY <2>4, <2>5, <2>6, <2>7, <2>8 DEF TxIInv
  <1> QED
    BY <1>1, TxStep, PTL DEF TxSpec

\* The transactions, what they have read and the rows they write keep their types,
\* for any number of requests in flight: no combination of columns leaves a row
\* that is none (get_session, polar_webhook).
THEOREM TransactionsTypeCorrect == TxSpec => []TxTypeOK
  <1>1. TxIInv => TxTypeOK
    BY DEF TxIInv
  <1> QED
    BY <1>1, TxInvariant, PTL

\* Whoever is admitted as Pro has paid through today, or a grace period left, or
\* was refunded today, however webhooks, cancellations and the nightly job overlap
\* (polar_webhook, run_expiry_checker, _check_subscription_access).
THEOREM NoFreeRideUnderInterleaving == TxSpec => []NoFreeRideUnlessRefunded
  <1>1. TxIInv => NoFreeRideUnlessRefunded
    <2> USE ConstantsAssumption
    <2>1. SUFFICES ASSUME TxIInv, NEW u \in Users, NEW s \in Subs,
                          IsLatest(u, s), SubscriptionGate(s)
                   PROVE  \/ RefundedToday(u)
                          \/ Owner[s] = u
                             /\ (PaidThroughToday(s) \/ InGraceOfRevocation(s))
      BY DEF NoFreeRideUnlessRefunded, AdmittedAsPro
    <2> USE DEF TxIInv
    <2>2. Owner[s] = u /\ Exists(s)
      BY <2>1 DEF IsLatest
    <2>3. CASE row[s].status = "active" /\ (row[s].end # None => day <= row[s].end)
      <3>1. PICK i \in 1..Len(sent) : Activation(i, s) /\ sent[i].end = row[s].end
        BY <2>1, <2>2 DEF EndsBacked
      <3> QED
        BY <2>2, <2>3, <3>1 DEF PaidThroughToday
    <2>4. CASE row[s].grace # None /\ day <= row[s].grace
      <3>1. PICK x \in sentinels : Backs(x, s, row[s].grace)
        BY <2>1, <2>4 DEF GraceBacked
      <3>2. x.event \in 1..Len(sent) /\ Processed(x.event) /\ x.on \in Nat /\ day \in Nat
        BY <2>1, <3>1 DEF TxTypeOK, Processed, Day
      <3>3. CASE /\ sent[x.event].type = "revoked"
                 /\ sent[x.event].sub = s
                 /\ row[s].grace = x.on + Grace
        <4>1. \A y \in sentinels : y.event = x.event => day <= y.on + Grace
          BY <2>1, <2>4, <3>1, <3>3 DEF CopiesOfOneDay
        <4> QED
          BY <2>2, <3>2, <3>3, <4>1 DEF InGraceOfRevocation
      <3>4. CASE /\ sent[x.event].type = "refunded"
                 /\ Owner[sent[x.event].sub] = Owner[s]
                 /\ row[s].grace = x.on
        <4>1. x.on = day
          BY <2>1, <2>4, <3>1, <3>2, <3>4 DEF CopiesOfOneDay
        <4> QED
          BY <2>2, <3>1, <3>4, <4>1 DEF RefundedToday
      <3> QED
        BY <3>1, <3>3, <3>4 DEF Backs
    <2> QED
      BY <2>1, <2>3, <2>4 DEF SubscriptionGate
  <1> QED
    BY <1>1, TxInvariant, PTL


Live(t) == row[t].status \notin {"absent", "expired"}

\* What a request in flight relies on stays, if no row of a user who is not raced
\* dies, and what is read is what is there.
LEMMA ReadsStayLive ==
  ASSUME EventsKnown, ActivationsSeeLive,
         raced \subseteq raced',
         \A i \in 1..Len(sent) : i \in 1..Len(sent') /\ sent'[i] = sent[i],
         NEW w \in Slots,
         Activates(w)',
         Owner[Target(w)'] \notin raced',
         (tx[w].row[Target(w)].status)' = "active",
         \/ /\ tx'[w] = tx[w]
            /\ Live(Target(w)) => row'[Target(w)].status \notin {"absent", "expired"}
         \/ \E i \in 1..Len(sent) : tx'[w] = Take(i) /\ row' = row
  PROVE  row'[Target(w)'].status \notin {"absent", "expired"}
  <1>1. tx'[w] # NoTx
    BY DEF Activates, InFlight, NoTx
  <1>2. CASE /\ tx'[w] = tx[w]
             /\ Live(Target(w)) => row'[Target(w)].status \notin {"absent", "expired"}
    <2>1. tx[w].event \in 1..Len(sent) /\ InFlight(w)
      BY <1>1, <1>2 DEF EventsKnown, InFlight
    <2>2. Target(w)' = Target(w) /\ sent'[tx'[w].event] = sent[tx[w].event]
      BY <1>2, <2>1 DEF Target
    <2>3. Activates(w) /\ Owner[Target(w)] \notin raced
      BY <2>1, <2>2 DEF Activates
    <2>4. tx[w].row[Target(w)].status = "active"
      BY <1>2, <2>2
    <2> QED
      BY <1>2, <2>2, <2>3, <2>4 DEF ActivationsSeeLive, Live
  <1>3. CASE \E i \in 1..Len(sent) : tx'[w] = Take(i) /\ row' = row
    <2>1. tx'[w].row = row'
      BY <1>3 DEF Take
    <2> QED
      BY <2>1
  <1> QED
    BY <1>2, <1>3

\* A Pro user keeps a live row, if none of the user's dies and whoever gets the
\* plan has one.
LEMMA ProStaysLive ==
  ASSUME LiveRowUnlessRaced,
         raced \subseteq raced',
         \A u \in Users \ raced' : plan'[u] = "pro" =>
            \/ /\ plan[u] = "pro"
               /\ \A s \in Subs : Owner[s] = u /\ Live(s)
                                     => row'[s].status \notin {"absent", "expired"}
            \/ \E s \in Subs : Owner[s] = u /\ row'[s].status \notin {"absent", "expired"}
  PROVE  LiveRowUnlessRaced'
  BY DEF LiveRowUnlessRaced, Live

LEMMA LiveCommitStep ==
  ASSUME TxIInv, ActivationsSeeLive, LiveRowUnlessRaced, NEW w \in Slots, TxCommit(w)
  PROVE  ActivationsSeeLive' /\ LiveRowUnlessRaced'
  <1> USE ConstantsAssumption DEF TxIInv
  <1>1. sent' = sent /\ raced' = raced /\ tx' = [tx EXCEPT ![w] = NoTx] /\ InFlight(w)
    BY DEF TxCommit, InFlight
  <1>2. PICK i \in 1..Len(sent) : i = tx[w].event
    BY <1>1 DEF EventsKnown
  <1>3. sent[i].sub \in Subs
    <2>1. sent[i] \in Event
      BY DEF TxTypeOK
    <2> QED
      BY <2>1 DEF Event
  <1>4. \A t \in Subs :
           /\ row'[t].status \in {row[t].status, "active", "past_due", "paused", "canceled"}
           /\ Activation(i, t) => row'[t].status = "active" \/ tx[w].row[t].status = "active"
    BY <1>2, CommitRow
  <1>5. \A t \in Subs : Live(t) => row'[t].status \notin {"absent", "expired"}
    BY <1>4 DEF Live
  <1>6. \A v \in Slots : tx'[v] = IF v = w THEN NoTx ELSE tx[v]
    BY <1>1 DEF TxTypeOK
  <1>7. ActivationsSeeLive'
    <2>1. SUFFICES ASSUME NEW v \in Slots, Activates(v)', Owner[Target(v)'] \notin raced',
                          (tx[v].row[Target(v)].status)' = "active"
                   PROVE  row'[Target(v)'].status \notin {"absent", "expired"}
      BY DEF ActivationsSeeLive
    <2>2. tx'[v] = tx[v] /\ tx[v] # NoTx
      BY <1>6, <2>1 DEF Activates, InFlight, NoTx
    <2>3. Target(v) \in Subs
      <3>1. tx[v].event \in 1..Len(sent)
        BY <2>2 DEF EventsKnown, InFlight
      <3>2. sent[tx[v].event] \in Event
        BY <3>1 DEF TxTypeOK
      <3> QED
        BY <3>2 DEF Target, Event
    <2> QED
      BY <1>1, <1>5, <2>1, <2>2, <2>3, ReadsStayLive
  <1>8. ASSUME NEW u \in Users \ raced, plan'[u] = "pro"
        PROVE  plan[u] = "pro"
               \/ \E s \in Subs : Owner[s] = u /\ row'[s].status \notin {"absent", "expired"}
    <2>1. \/ plan[u] = "pro"
          \/ sent[i].type \in Activations /\ Owner[sent[i].sub] = u
      BY <1>2, <1>8, CommitPlan
    <2>2. CASE sent[i].type \in Activations /\ Owner[sent[i].sub] = u
      <3> DEFINE s == sent[i].sub
      <3>1. Activation(i, s) /\ Target(w) = s /\ Activates(w)
        BY <1>1, <1>2, <2>2 DEF Activation, Target, Activates
      <3>2. row'[s].status = "active" \/ tx[w].row[s].status = "active"
        BY <1>3, <1>4, <3>1
      <3>3. tx[w].row[s].status = "active" => Live(s)
        BY <1>8, <2>2, <3>1 DEF ActivationsSeeLive, Live
      <3>4. row'[s].status \notin {"absent", "expired"}
        BY <1>3, <1>5, <3>2, <3>3
      <3> QED
        BY <1>3, <2>2, <3>4
    <2> QED
      BY <2>1, <2>2
  <1>9. LiveRowUnlessRaced'
    BY <1>1, <1>5, <1>8, ProStaysLive
  <1> QED
    BY <1>7, <1>9

LEMMA LiveJobStep ==
  ASSUME TxIInv, ActivationsSeeLive, LiveRowUnlessRaced, JobCommit
  PROVE  ActivationsSeeLive' /\ LiveRowUnlessRaced'
  <1> USE ConstantsAssumption DEF TxIInv
  <1>1. sent' = sent /\ tx' = tx /\ raced' = raced \cup {u \in Users : Overlapped(u)}
    BY DEF JobCommit
  <1>2. \A t \in Subs : row'[t].status = IF JobElapsed(t) THEN "expired" ELSE row[t].status
    BY JobRow
  <1>3. ActivationsSeeLive'
    <2>1. SUFFICES ASSUME NEW w \in Slots, Activates(w)', Owner[Target(w)'] \notin raced',
                          (tx[w].row[Target(w)].status)' = "active"
                   PROVE  row'[Target(w)'].status \notin {"absent", "expired"}
      BY DEF ActivationsSeeLive
    <2>2. Activates(w) /\ Target(w)' = Target(w)
      BY <1>1, <2>1 DEF Activates, InFlight, Target, NoTx
    <2>3. Target(w) \in Subs /\ Owner[Target(w)] \in Users
      <3>1. tx[w].event \in 1..Len(sent)
        BY <2>2 DEF EventsKnown, Activates
      <3>2. sent[tx[w].event] \in Event
        BY <3>1 DEF TxTypeOK
      <3> QED
        BY <3>2 DEF Target, Event
    <2>4. ~Overlapped(Owner[Target(w)])
      BY <1>1, <2>1, <2>2, <2>3
    <2>5. ~JobElapsed(Target(w))
      BY <2>2, <2>3, <2>4 DEF Overlapped, Activates, InFlight, Target
    <2>6. Live(Target(w)) => row'[Target(w)].status \notin {"absent", "expired"}
      BY <1>2, <2>3, <2>5 DEF Live
    <2> QED
      BY <1>1, <2>1, <2>6, ReadsStayLive
  <1>4. ASSUME NEW u \in Users \ raced', plan'[u] = "pro"
        PROVE  /\ plan[u] = "pro"
               /\ \A s \in Subs : Owner[s] = u /\ Live(s)
                                     => row'[s].status \notin {"absent", "expired"}
    <2>1. /\ plan'[u] = plan[u]
          /\ \/ \A s \in Subs : JobElapsed(s) => Owner[s] # u
             \/ plan[u] # job.plan[u]
      BY <1>4, JobPlan
    <2>2. ~Overlapped(u)
      BY <1>1, <1>4
    <2>3. \A s \in Subs : JobElapsed(s) => Owner[s] # u
      BY <2>1, <2>2 DEF Overlapped
    <2> QED
      BY <1>2, <1>4, <2>1, <2>3 DEF Live
  <1>5. LiveRowUnlessRaced'
    BY <1>1, <1>4, ProStaysLive
  <1> QED
    BY <1>3, <1>5

\* The steps that commit nothing of a webhook or of the job expire no row.
LEMMA LiveOtherStep ==
  ASSUME TxIInv, ActivationsSeeLive, LiveRowUnlessRaced, "pro" \notin AdminPlans,
         raced' = raced,
         \A i \in 1..Len(sent) : i \in 1..Len(sent') /\ sent'[i] = sent[i],
         \A t \in Subs : Live(t) => row'[t].status \notin {"absent", "expired"},
         \A u \in Users : plan'[u] = plan[u] \/ plan'[u] \in AdminPlans,
         \A w \in Slots : \/ tx'[w] \in {tx[w], NoTx}
                          \/ \E i \in 1..Len(sent) : tx'[w] = Take(i) /\ row' = row
  PROVE  ActivationsSeeLive' /\ LiveRowUnlessRaced'
  <1> USE ConstantsAssumption DEF TxIInv
  <1>1. ActivationsSeeLive'
    <2>1. SUFFICES ASSUME NEW w \in Slots, Activates(w)', Owner[Target(w)'] \notin raced',
                          (tx[w].row[Target(w)].status)' = "active"
                   PROVE  row'[Target(w)'].status \notin {"absent", "expired"}
      BY DEF ActivationsSeeLive
    <2>2. tx'[w] # NoTx
      BY <2>1 DEF Activates, InFlight, NoTx
    <2>3. CASE \E i \in 1..Len(sent) : tx'[w] = Take(i) /\ row' = row
      BY <2>1, <2>3, ReadsStayLive
    <2>4. CASE tx'[w] = tx[w]
      <3>1. tx[w].event \in 1..Len(sent)
        BY <2>2, <2>4 DEF EventsKnown, InFlight
      <3>2. sent[tx[w].event] \in Event
        BY <3>1 DEF TxTypeOK
      <3>3. Target(w) \in Subs
        BY <3>2 DEF Target, Event
      <3> QED
        BY <2>1, <2>4, <3>3, ReadsStayLive
    <2> QED
      BY <2>2, <2>3, <2>4
  <1>2. LiveRowUnlessRaced'
    BY ProStaysLive
  <1> QED
    BY <1>1, <1>2

LEMMA LiveStep ==
  ASSUME TxIInv, ActivationsSeeLive, LiveRowUnlessRaced, "pro" \notin AdminPlans,
         [TxNext]_txVars
  PROVE  ActivationsSeeLive' /\ LiveRowUnlessRaced'
  <1> USE ConstantsAssumption DEF TxIInv
  \* The steps that change no row.
  <1>1. ASSUME raced' = raced, row' = row, plan' = plan,
               \A i \in 1..Len(sent) : i \in 1..Len(sent') /\ sent'[i] = sent[i],
               \A w \in Slots : \/ tx'[w] \in {tx[w], NoTx}
                                \/ \E i \in 1..Len(sent) : tx'[w] = Take(i)
        PROVE  ActivationsSeeLive' /\ LiveRowUnlessRaced'
    BY <1>1, LiveOtherStep DEF Live
  <1>2. CASE Idle /\ Tick /\ UNCHANGED <<tx, job, raced>>
    BY <1>1, <1>2 DEF Tick
  <1>3. CASE PolarNext /\ UNCHANGED <<tx, job, raced>>
    <2>1. row' = row /\ plan' = plan
      BY <1>3, PolarStep DEF TxTypeOK
    <2>2. \A i \in 1..Len(sent) : i \in 1..Len(sent') /\ sent'[i] = sent[i]
      BY <1>3, PolarStep, SentGrows DEF TxTypeOK
    <2> QED
      BY <1>1, <1>3, <2>1, <2>2
  <1>4. CASE UserNext /\ UNCHANGED <<tx, job, raced>>
    <2>1. /\ sent' = sent
          /\ \A u \in Users : plan'[u] = plan[u] \/ plan'[u] \in AdminPlans
          /\ \A t \in Subs : \/ row'[t].status = row[t].status
                             \/ row'[t].status = "canceled" /\ Exists(t)
      BY <1>4, UserStep
    <2>2. \A t \in Subs : Live(t) => row'[t].status \notin {"absent", "expired"}
      BY <2>1 DEF Live
    <2> QED
      BY <1>4, <2>1, <2>2, LiveOtherStep
  <1>5. ASSUME NEW w \in Slots, NEW i \in 1..Len(sent), TxBegin(w, i)
        PROVE  ActivationsSeeLive' /\ LiveRowUnlessRaced'
    <2>1. \A v \in Slots : tx'[v] = tx[v] \/ tx'[v] = Take(i)
      BY <1>5 DEF TxBegin, TxTypeOK
    <2> QED
      BY <1>1, <1>5, <2>1 DEF TxBegin, vars
  <1>6. ASSUME NEW w \in Slots, TxCommit(w)
        PROVE  ActivationsSeeLive' /\ LiveRowUnlessRaced'
    BY <1>6, LiveCommitStep
  <1>7. ASSUME NEW w \in Slots, TxAbort(w)
        PROVE  ActivationsSeeLive' /\ LiveRowUnlessRaced'
    <2>1. \A v \in Slots : tx'[v] \in {tx[v], NoTx}
      BY <1>7 DEF TxAbort, TxTypeOK
    <2> QED
      BY <1>1, <1>7, <2>1 DEF TxAbort, vars
  <1>8. CASE JobBegin
    BY <1>1, <1>8 DEF JobBegin, vars
  <1>9. CASE JobCommit
    BY <1>9, LiveJobStep
  <1>10. CASE UNCHANGED txVars
    BY <1>1, <1>10 DEF txVars, vars
  <1> QED
    BY <1>2, <1>3, <1>4, <1>5, <1>6, <1>7, <1>8, <1>9, <1>10 DEF TxNext

\* As long as admins grant no Pro plan, overlapping webhooks leave no Pro user
\* without a row that is not expired: only a nightly job that expires a row while
\* an activation of its owner is under way does (handle_polar_subscription_activated,
\* _enforce_grace_period_expiry).
THEOREM LiveRowUnlessRacedInvariant ==
  ASSUME "pro" \notin AdminPlans
  PROVE  TxSpec => []LiveRowUnlessRaced
  <1>1. TxInit => ActivationsSeeLive /\ LiveRowUnlessRaced
    BY DEF TxInit, Init, ActivationsSeeLive, Activates, InFlight, LiveRowUnlessRaced
  <1>2. /\ TxIInv /\ ActivationsSeeLive /\ LiveRowUnlessRaced /\ [TxNext]_txVars
        => (ActivationsSeeLive /\ LiveRowUnlessRaced)'
    BY LiveStep
  <1> QED
    BY <1>1, <1>2, TxInvariant, PTL DEF TxSpec


-----------------------------------------------------------------------------
(* A transaction whose reads are current is one step of Billing.           *)

\* What Billing calls a sentinel: two deliveries in one look like one.
OneSentinel == {[event |-> x.event, on |-> x.on, early |-> x.early] : x \in sentinels}
Atomic == INSTANCE Billing WITH sentinels <- OneSentinel

\* What the request has read, the sentinel it missed included, is still so.
ReadsCurrent(w) ==
    /\ ~Processed(tx[w].event)
    /\ \A s \in Subs : Owner[s] = Owner[Target(w)] => tx[w].row[s] = row[s]
    /\ tx[w].plan[Owner[Target(w)]] = plan[Owner[Target(w)]]

\* The elapsed rows the job has read, and the plans of their owners, are still so.
JobReadsCurrent ==
    \A s \in Subs : GraceElapsed(s) \/ JobElapsed(s) =>
        /\ job.row[s] = row[s]
        /\ job.plan[Owner[s]] = plan[Owner[s]]

\* What would be left of the commits if each checked what it has read.
CommitsCurrent ==
    /\ \A w \in Slots : TxCommit(w) => ReadsCurrent(w)
    /\ JobCommit => JobReadsCurrent

\* What a transaction in flight has looked at before it went on: a refund that
\* found two active rows has raised, a job without an elapsed row does nothing.
RefundsSeeOne ==
    \A w \in Slots : InFlight(w) /\ sent[tx[w].event].type = "refunded" =>
        \A s, t \in Subs :
            /\ Owner[s] = Owner[Target(w)] /\ tx[w].row[s].status = "active"
            /\ Owner[t] = Owner[Target(w)] /\ tx[w].row[t].status = "active"
            => s = t
JobHasWork == job # NoTx => \E s \in Subs : JobElapsed(s)

LEMMA LookedStays ==
  ASSUME TxIInv, RefundsSeeOne, JobHasWork, [TxNext]_txVars
  PROVE  RefundsSeeOne' /\ JobHasWork'
  <1> USE ConstantsAssumption
  <1>0. /\ TxTypeOK /\ EventsKnown
        /\ tx \in [Slots -> Snapshot]
        /\ \A i \in 1..Len(sent) : sent[i] \in Event
    BY DEF TxIInv, TxTypeOK
  \* A step that keeps the day and what is in flight, or ends it.
  <1>1. ASSUME \A i \in 1..Len(sent) : sent'[i] = sent[i],
               \A w \in Slots : tx'[w] \in {tx[w], NoTx}
        PROVE  RefundsSeeOne'
    <2> SUFFICES ASSUME NEW w \in Slots, tx'[w] # NoTx,
                        sent'[tx'[w].event].type = "refunded",
                        NEW s \in Subs, NEW t \in Subs,
                        Owner[s] = Owner[sent'[tx'[w].event].sub],
                        tx'[w].row[s].status = "active",
                        Owner[t] = Owner[sent'[tx'[w].event].sub],
                        tx'[w].row[t].status = "active"
                 PROVE  s = t
      BY DEF RefundsSeeOne, InFlight, Target, NoTx
    <2>1. tx'[w] = tx[w] /\ InFlight(w)
      BY <1>1 DEF InFlight
    <2>2. sent'[tx[w].event] = sent[tx[w].event]
      BY <1>0, <1>1, <2>1 DEF EventsKnown
    <2> QED
      BY <2>1, <2>2 DEF RefundsSeeOne, Target
  <1>2. ASSUME \/ job' = NoTx
               \/ job' = job /\ (day' = day \/ job = NoTx)
        PROVE  JobHasWork'
    BY <1>2 DEF JobHasWork, JobElapsed, NoTx
  <1>3. CASE Idle /\ Tick /\ UNCHANGED <<tx, job, raced>>
    <2>1. job = NoTx /\ job' = job /\ tx' = tx /\ sent' = sent
      BY <1>3 DEF Idle, Tick
    <2> QED
      BY <1>1, <1>2, <2>1
  <1>4. CASE PolarNext /\ UNCHANGED <<tx, job, raced>>
    <2>1. day' = day /\ \E e \in Event : sent' = Append(sent, e)
      BY <1>4, <1>0, PolarStep DEF TxTypeOK
    <2>2. \A i \in 1..Len(sent) : sent'[i] = sent[i]
      BY <2>1, <1>0 DEF TxTypeOK
    <2> QED
      BY <1>1, <1>2, <1>4, <2>1, <2>2
  <1>5. CASE UserNext /\ UNCHANGED <<tx, job, raced>>
    <2>1. day' = day /\ sent' = sent
      BY <1>5, <1>0, UserStep DEF TxIInv
    <2> QED
      BY <1>1, <1>2, <1>5, <2>1
  <1>6. ASSUME NEW w \in Slots, NEW i \in 1..Len(sent), TxBegin(w, i)
        PROVE  RefundsSeeOne' /\ JobHasWork'
    <2>1. /\ tx' = [tx EXCEPT ![w] = Take(i)] /\ job' = job
          /\ day' = day /\ sent' = sent /\ row' = row
          /\ sent[i].type = "refunded" => \A s, t \in ActiveOf(Owner[sent[i].sub]) : s = t
      BY <1>6 DEF TxBegin, vars
    <2>2. JobHasWork'
      BY <1>2, <2>1
    <2>3. \A v \in Slots : tx'[v] = IF v = w THEN Take(i) ELSE tx[v]
      BY <1>0, <2>1
    <2>4. Take(i).event = i /\ Take(i).row = row
      BY DEF Take
    <2>5. ASSUME NEW v \in Slots, tx'[v] # NoTx, sent[tx'[v].event].type = "refunded",
                 NEW s \in Subs, NEW t \in Subs,
                 Owner[s] = Owner[sent[tx'[v].event].sub], tx'[v].row[s].status = "active",
                 Owner[t] = Owner[sent[tx'[v].event].sub], tx'[v].row[t].status = "active"
          PROVE  s = t
      <3>1. CASE v = w
        <4>1. tx'[v].event = i /\ tx'[v].row = row
          BY <2>3, <2>4, <3>1
        <4>2. s \in ActiveOf(Owner[sent[i].sub]) /\ t \in ActiveOf(Owner[sent[i].sub])
          BY <2>5, <4>1 DEF ActiveOf
        <4> QED
          BY <2>1, <2>5, <4>1, <4>2
      <3>2. CASE v # w
        <4>1. tx'[v] = tx[v]
          BY <2>3, <3>2
        <4> QED
          BY <2>5, <4>1 DEF RefundsSeeOne, InFlight, Target
      <3> QED
        BY <3>1, <3>2
    <2> QED
      BY <2>1, <2>2, <2>5 DEF RefundsSeeOne, InFlight, Target, NoTx
  <1>7. ASSUME NEW w \in Slots, TxCommit(w) \/ TxAbort(w)
        PROVE  RefundsSeeOne' /\ JobHasWork'
    <2>1. /\ tx' = [tx EXCEPT ![w] = NoTx] /\ job' = job
          /\ day' = day /\ sent' = sent
      BY <1>7 DEF TxCommit, TxAbort, vars
    <2>2. \A v \in Slots : tx'[v] \in {tx[v], NoTx}
      BY <1>0, <2>1
    <2> QED
      BY <1>1, <1>2, <2>1, <2>2
  <1>8. CASE JobBegin
    <2>1. /\ tx' = tx /\ job' = Take(0) /\ day' = day /\ sent' = sent
          /\ \E s \in Subs : GraceElapsed(s)
      BY <1>8 DEF JobBegin, vars
    <2>2. Take(0).row = row
      BY DEF Take
    <2>3. JobHasWork'
      BY <2>1, <2>2 DEF JobHasWork, JobElapsed, GraceElapsed
    <2> QED
      BY <1>1, <2>1, <2>3
  <1>9. CASE JobCommit
    <2>1. tx' = tx /\ job' = NoTx /\ sent' = sent
      BY <1>9 DEF JobCommit
    <2> QED
      BY <1>1, <1>2, <2>1
  <1>10. CASE UNCHANGED txVars
    <2>1. tx' = tx /\ job' = job /\ sent' = sent /\ day' = day
      BY <1>10 DEF txVars, vars
    <2> QED
      BY <1>1, <1>2, <2>1
  <1> QED
    BY <1>3, <1>4, <1>5, <1>6, <1>7, <1>8, <1>9, <1>10 DEF TxNext

\* A record written over itself is the record that is wanted; nothing wanted
\* leaves it alone.
LEMMA DirtyIsWanted ==
  ASSUME NEW c \in Row, NEW n \in Row
  PROVE  Dirty(c, c, n) = n /\ Dirty(c, n, n) = c
  <1>1. ASSUME NEW o \in Row
        PROVE  Dirty(c, o, n) =
                 [status |-> IF n.status # o.status THEN n.status ELSE c.status,
                  start |-> IF n.start # o.start THEN n.start ELSE c.start,
                  end |-> IF n.end # o.end THEN n.end ELSE c.end,
                  grace |-> IF n.grace # o.grace THEN n.grace ELSE c.grace,
                  created |-> IF n.created # o.created THEN n.created ELSE c.created]
    BY DEF Dirty, Row
  <1>2. \A o \in Row : o = [status |-> o.status, start |-> o.start, end |-> o.end,
                            grace |-> o.grace, created |-> o.created]
    BY DEF Row
  <1>3. Dirty(c, c, n) = [status |-> n.status, start |-> n.start, end |-> n.end,
                          grace |-> n.grace, created |-> n.created]
    BY <1>1
  <1>4. Dirty(c, n, n) = [status |-> c.status, start |-> c.start, end |-> c.end,
                          grace |-> c.grace, created |-> c.created]
    BY <1>1
  <1> QED
    BY <1>2, <1>3, <1>4

\* The lookups see of the sentinels only what Billing keeps of them.
LEMMA LookupsAgree ==
  /\ \A i : Atomic!Processed(i) <=> Processed(i)
  /\ \A i : Atomic!Early(i) = Early(i)
  <1>1. ASSUME NEW i PROVE Atomic!Processed(i) <=> Processed(i)
    <2>1. ASSUME Processed(i) PROVE Atomic!Processed(i)
      <3>1. PICK x \in sentinels : x.event = i
        BY <2>1 DEF Processed
      <3>2. [event |-> x.event, on |-> x.on, early |-> x.early] \in OneSentinel
        BY DEF OneSentinel
      <3> QED
        BY <3>1, <3>2 DEF Atomic!Processed
    <2>2. ASSUME Atomic!Processed(i) PROVE Processed(i)
      BY <2>2 DEF Processed, Atomic!Processed, OneSentinel
    <2> QED
      BY <2>1, <2>2
  <1>2. \A i : Atomic!Early(i) <=> Early(i)
    BY <1>1 DEF Early, Atomic!Early
  <1> QED
    BY <1>1, <1>2 DEF Early, Atomic!Early

\* What a handler wants of the rows of the event's owner depends on those alone,
\* and it wants no other row changed.
LEMMA WantedRowIsLocal ==
  ASSUME TxTypeOK, NEW i \in 1..Len(sent), NEW r \in [Subs -> Row], NEW t \in Subs
  PROVE  /\ Owner[t] # Owner[sent[i].sub] => WantedRows(i, r)[t] = r[t]
         /\ \A o \in [Subs -> Row] : o[t] = r[t] => WantedRows(i, o)[t] = WantedRows(i, r)[t]
         /\ WantedRows(i, r) = [s \in Subs |-> WantedRows(i, r)[s]]
  <1> USE ConstantsAssumption
  <1> DEFINE s == sent[i].sub
             type == sent[i].type
  <1>1. sent[i] \in Event
    BY DEF TxTypeOK
  <1>2. s \in Subs /\ type \in AllEventTypes
    BY <1>1 DEF Event
  <1>3. CASE type \in Activations
    <2>1. \A o \in [Subs -> Row] : WantedRows(i, o) = [o EXCEPT ![s] = ActivatedRow(@, sent[i].end)]
      BY <1>3 DEF WantedRows, Activations
    <2> QED
      BY <1>2, <2>1
  <1>4. CASE type = "refunded"
    <2>1. \A o \in [Subs -> Row] : WantedRows(i, o) =
            [q \in Subs |-> IF Owner[q] = Owner[s] /\ o[q].status = "active"
                            THEN [o[q] EXCEPT !.status = "canceled", !.grace = day]
                            ELSE o[q]]
      BY <1>4 DEF WantedRows, Activations
    <2>2. \A o \in [Subs -> Row] : WantedRows(i, o)[t] =
             IF Owner[t] = Owner[s] /\ o[t].status = "active"
             THEN [o[t] EXCEPT !.status = "canceled", !.grace = day] ELSE o[t]
      BY <2>1
    <2> QED
      BY <2>1, <2>2
  <1>5. CASE type = "revoked"
    <2>1. \A o \in [Subs -> Row] : WantedRows(i, o) =
            [o EXCEPT ![s] = IF @.status = "absent" THEN @ ELSE RevokedRow(o[s])]
      BY <1>5 DEF WantedRows, Activations
    <2> QED
      BY <1>2, <2>1
  <1>6. CASE type = "paused"
    <2>1. \A o \in [Subs -> Row] : WantedRows(i, o) =
            [o EXCEPT ![s] = IF @.status = "absent" THEN @ ELSE PausedRow(o[s])]
      BY <1>6 DEF WantedRows, Activations
    <2> QED
      BY <1>2, <2>1
  <1>7. CASE type = "resumed"
    <2>1. \A o \in [Subs -> Row] : WantedRows(i, o) =
            [o EXCEPT ![s] = IF @.status = "absent" THEN @ ELSE ResumedRow(o[s])]
      BY <1>7 DEF WantedRows, Activations
    <2> QED
      BY <1>2, <2>1
  <1> QED
    BY <1>2, <1>3, <1>4, <1>5, <1>6, <1>7 DEF AllEventTypes

\* A commit with current reads leaves the rows, the plans and the sentinels that
\* the handler would leave in one step.
LEMMA CurrentWrites ==
  ASSUME TxIInv, NEW w \in Slots, TxCommit(w), ReadsCurrent(w), NEW i, i = tx[w].event
  PROVE  /\ row' = WantedRows(i, row)
         /\ plan' = WantedPlan(i, plan)
         /\ OneSentinel' = OneSentinel \cup
               {[event |-> i, on |-> day, early |-> Early(i)]}
  <1> USE ConstantsAssumption DEF TxIInv
  <1> DEFINE o == tx[w].row
             p == tx[w].plan
             u == Owner[sent[i].sub]
  <1>1. /\ tx[w] \in Snapshot /\ row \in [Subs -> Row] /\ plan \in [Users -> Plans]
        /\ InFlight(w)
    BY DEF TxTypeOK, TxCommit, InFlight
  <1>2. o \in [Subs -> Row] /\ p \in [Users -> Plans] /\ i \in 1..Len(sent)
    BY <1>1, SnapshotType DEF EventsKnown
  <1>3. sent[i] \in Event
    BY <1>2 DEF TxTypeOK
  <1>4. u \in Users
    BY <1>3 DEF Event
  <1>5. /\ row' = [t \in Subs |-> Dirty(row[t], o[t], WantedRows(i, o)[t])]
        /\ plan' = Dirty(plan, p, WantedPlan(i, p))
    BY DEF TxCommit, WriteBack
  <1>6. /\ \A t \in Subs : Owner[t] = u => o[t] = row[t]
        /\ p[u] = plan[u]
    BY DEF ReadsCurrent, Target
  <1>7. ASSUME NEW t \in Subs PROVE row'[t] = WantedRows(i, row)[t]
    <2>1. row[t] \in Row /\ o[t] \in Row /\ WantedRows(i, o)[t] \in Row
      BY <1>1, <1>2, WantedRow
    <2>2. row'[t] = Dirty(row[t], o[t], WantedRows(i, o)[t])
      BY <1>5
    <2>3. CASE Owner[t] = u
      <3>1. WantedRows(i, row)[t] = WantedRows(i, o)[t] /\ o[t] = row[t]
        BY <1>1, <1>2, <1>6, <2>3, WantedRowIsLocal
      <3> QED
        BY <2>1, <2>2, <3>1, DirtyIsWanted
    <2>4. CASE Owner[t] # u
      <3>1. WantedRows(i, row)[t] = row[t] /\ WantedRows(i, o)[t] = o[t]
        BY <1>1, <1>2, <2>4, WantedRowIsLocal
      <3> QED
        BY <2>1, <2>2, <3>1, DirtyIsWanted
    <2> QED
      BY <2>3, <2>4
  <1>8. row' = WantedRows(i, row)
    <2>1. WantedRows(i, row) = [t \in Subs |-> WantedRows(i, row)[t]]
      BY <1>1, <1>2, <1>3, WantedRowIsLocal DEF Event
    <2> QED
      BY <1>5, <1>7, <2>1
  <1>9. plan' = WantedPlan(i, plan)
    <2>0. ASSUME NEW q \in Plans,
                 WantedPlan(i, p) = [p EXCEPT ![u] = q],
                 WantedPlan(i, plan) = [plan EXCEPT ![u] = q]
          PROVE  plan' = WantedPlan(i, plan)
      <3>1. WantedPlan(i, p) \in [Users -> Plans]
        BY <1>2, <2>0
      <3>2. plan' \in [Users -> Plans]
            /\ \A c \in Users : plan'[c] =
                  IF WantedPlan(i, p)[c] # p[c] THEN WantedPlan(i, p)[c] ELSE plan[c]
        BY <1>1, <1>2, <1>5, <3>1, DirtyPlan
      <3>3. \A c \in Users : plan'[c] = [plan EXCEPT ![u] = q][c]
        BY <1>1, <1>2, <1>4, <1>6, <2>0, <3>2
      <3> QED
        BY <1>1, <2>0, <3>2, <3>3
    <2>1. CASE sent[i].type \in Activations
      <3>1. WantedPlan(i, p) = [p EXCEPT ![u] = "pro"]
            /\ WantedPlan(i, plan) = [plan EXCEPT ![u] = "pro"]
        BY <2>1 DEF WantedPlan, Activations
      <3> QED
        BY <2>0, <3>1 DEF Plans
    <2>2. CASE sent[i].type = "refunded"
      <3>1. WantedPlan(i, p) = [p EXCEPT ![u] = "free"]
            /\ WantedPlan(i, plan) = [plan EXCEPT ![u] = "free"]
        BY <2>2 DEF WantedPlan, Activations
      <3> QED
        BY <2>0, <3>1 DEF Plans
    <2>3. CASE sent[i].type \notin Activations /\ sent[i].type # "refunded"
      <3>1. WantedPlan(i, p) = p /\ WantedPlan(i, plan) = plan
        BY <2>3 DEF WantedPlan
      <3> QED
        BY <1>1, <1>2, <1>5, <3>1 DEF Dirty
    <2> QED
      BY <2>1, <2>2, <2>3
  <1>10. OneSentinel' = OneSentinel \cup {[event |-> i, on |-> day, early |-> Early(i)]}
    <2> DEFINE copy == Cardinality({x \in sentinels : x.event = i})
               new == [event |-> i, on |-> day, early |-> Early(i), copy |-> copy]
    <2>1. sentinels' = sentinels \cup {new}
      BY DEF TxCommit
    <2>2. new.event = i /\ new.on = day /\ new.early = Early(i)
      OBVIOUS
    <2> HIDE DEF new
    <2> QED
      BY <2>1, <2>2 DEF OneSentinel
  <1> QED
    BY <1>8, <1>9, <1>10

\* So it is the whole handler of Billing.
LEMMA CurrentCommitIsAtomic ==
  ASSUME TxIInv, RefundsSeeOne, NEW w \in Slots, TxCommit(w), ReadsCurrent(w)
  PROVE  Atomic!Next
  <1> USE ConstantsAssumption DEF TxIInv
  <1>1. PICK i \in 1..Len(sent) : i = tx[w].event
    BY DEF TxCommit, EventsKnown, InFlight
  <1> DEFINE s == sent[i].sub
             type == sent[i].type
  <1>2. sent[i] \in Event /\ row \in [Subs -> Row] /\ plan \in [Users -> Plans]
    BY DEF TxTypeOK
  <1>3. s \in Subs /\ type \in AllEventTypes
    BY <1>2 DEF Event
  <1>4. /\ row' = WantedRows(i, row)
        /\ plan' = WantedPlan(i, plan)
        /\ OneSentinel' = OneSentinel \cup {[event |-> i, on |-> day, early |-> Early(i)]}
    BY <1>1, CurrentWrites
  <1>5. UNCHANGED <<day, polar, sent, cancelling>>
    BY DEF TxCommit
  <1>6. Atomic!RecordSentinel(i)
    BY <1>4, LookupsAgree DEF Atomic!RecordSentinel
  <1>7. ~Atomic!Processed(i)
    BY <1>1, LookupsAgree DEF ReadsCurrent
  <1>8. CASE type \in Activations
    <2>1. row' = [row EXCEPT ![s] = ActivatedRow(@, sent[i].end)]
          /\ plan' = [plan EXCEPT ![Owner[s]] = "pro"]
      BY <1>4, <1>8 DEF WantedRows, WantedPlan, Activations
    <2>2. \A old, end : Atomic!ActivatedRow(old, end) = ActivatedRow(old, end)
      <3>1. \A S : Atomic!Cardinality(S) = Cardinality(S)
        BY DEF Atomic!Cardinality, Cardinality
      <3> QED
        BY <3>1 DEF Atomic!ActivatedRow, ActivatedRow, Atomic!Exists, Exists
    <2>3. Atomic!Accept(i, Atomic!Activations)
      BY <1>7, <1>8 DEF Atomic!Accept, Atomic!Activations, Activations
    <2>5. row' = [row EXCEPT ![s] = Atomic!ActivatedRow(row[s], sent[i].end)]
      BY <1>2, <2>1, <2>2
    <2>4. Atomic!HandleActivated(i)
      BY <1>5, <1>6, <2>1, <2>5, <2>3 DEF Atomic!HandleActivated
    <2> QED
      BY <2>4 DEF Atomic!Next, Atomic!PolarWebhook
  \* The handlers that touch nothing but an existing row.
  <1>9. ASSUME NEW new, type \notin Activations, type # "refunded",
               WantedRows(i, row) = [row EXCEPT ![s] = IF @.status = "absent" THEN @ ELSE new]
        PROVE  Atomic!ChangeRow(i, type, new)
    <2>1. row' = [row EXCEPT ![s] = IF Atomic!Exists(s) THEN new ELSE @]
      BY <1>2, <1>3, <1>4, <1>9 DEF Atomic!Exists
    <2>2. plan' = plan
      BY <1>4, <1>9 DEF WantedPlan
    <2> QED
      BY <1>5, <1>6, <1>7, <2>1, <2>2 DEF Atomic!ChangeRow, Atomic!Accept
  <1>10. CASE type = "revoked"
    <2>1. WantedRows(i, row) =
            [row EXCEPT ![s] = IF @.status = "absent" THEN @ ELSE RevokedRow(row[s])]
      BY <1>10 DEF WantedRows, Activations
    <2>2. Atomic!ChangeRow(i, "revoked", RevokedRow(row[s]))
      BY <1>9, <1>10, <2>1 DEF Activations
    <2>3. Atomic!HandleRevoked(i)
      BY <2>2 DEF Atomic!HandleRevoked, RevokedRow, Atomic!RevokedRow
    <2> QED
      BY <2>3 DEF Atomic!Next, Atomic!PolarWebhook
  <1>11. CASE type = "paused"
    <2>1. WantedRows(i, row) =
            [row EXCEPT ![s] = IF @.status = "absent" THEN @ ELSE PausedRow(row[s])]
      BY <1>11 DEF WantedRows, Activations
    <2>2. Atomic!ChangeRow(i, "paused", PausedRow(row[s]))
      BY <1>9, <1>11, <2>1 DEF Activations
    <2>3. Atomic!HandlePaused(i)
      BY <2>2 DEF Atomic!HandlePaused, PausedRow, Atomic!PausedRow
    <2> QED
      BY <2>3 DEF Atomic!Next, Atomic!PolarWebhook
  <1>12. CASE type = "resumed"
    <2>1. WantedRows(i, row) =
            [row EXCEPT ![s] = IF @.status = "absent" THEN @ ELSE ResumedRow(row[s])]
      BY <1>12 DEF WantedRows, Activations
    <2>2. Atomic!ChangeRow(i, "resumed", ResumedRow(row[s]))
      BY <1>9, <1>12, <2>1 DEF Activations
    <2>3. Atomic!HandleResumed(i)
      BY <2>2 DEF Atomic!HandleResumed, ResumedRow, Atomic!ResumedRow
    <2> QED
      BY <2>3 DEF Atomic!Next, Atomic!PolarWebhook
  <1>13. CASE type = "refunded"
    <2>1. row' = [t \in Subs |->
                    IF Owner[t] = Owner[s] /\ row[t].status = "active"
                    THEN [row[t] EXCEPT !.status = "canceled", !.grace = day]
                    ELSE row[t]]
          /\ plan' = [plan EXCEPT ![Owner[s]] = "free"]
      BY <1>4, <1>13 DEF WantedRows, WantedPlan, Activations
    <2>2. \A a, b \in Atomic!ActiveOf(Owner[s]) : a = b
      <3>1. \A t \in Subs : Owner[t] = Owner[s] => tx[w].row[t] = row[t]
        BY <1>1 DEF ReadsCurrent, Target
      <3>2. InFlight(w) /\ Target(w) = s /\ sent[tx[w].event].type = "refunded"
        BY <1>1, <1>13 DEF TxCommit, InFlight, Target
      <3> QED
        BY <3>1, <3>2 DEF Atomic!ActiveOf, RefundsSeeOne
    <2>3. row' = [t \in Subs |->
                    IF t \in Atomic!ActiveOf(Owner[s])
                    THEN [row[t] EXCEPT !.status = "canceled", !.grace = day]
                    ELSE row[t]]
      BY <2>1 DEF Atomic!ActiveOf
    <2>4. Atomic!HandleRefundedOrDisputed(i)
      BY <1>5, <1>6, <1>7, <1>13, <2>1, <2>2, <2>3
         DEF Atomic!HandleRefundedOrDisputed, Atomic!Accept
    <2> QED
      BY <2>4 DEF Atomic!Next, Atomic!PolarWebhook
  <1> QED
    BY <1>3, <1>8, <1>10, <1>11, <1>12, <1>13 DEF AllEventTypes

\* The nightly job with current reads expires the rows, and takes the plans, that
\* have elapsed now.
LEMMA CurrentJobIsAtomic ==
  ASSUME TxIInv, JobHasWork, JobCommit, JobReadsCurrent
  PROVE  Atomic!Next
  <1> USE ConstantsAssumption DEF TxIInv
  <1>1. /\ job \in Snapshot /\ row \in [Subs -> Row] /\ plan \in [Users -> Plans]
        /\ Owner \in [Subs -> Users]
    BY DEF TxTypeOK
  <1>2. job.row \in [Subs -> Row] /\ job.plan \in [Users -> Plans]
    BY <1>1, SnapshotType
  <1>3. \A s \in Subs : JobElapsed(s) <=> GraceElapsed(s)
    BY DEF JobReadsCurrent, JobElapsed, GraceElapsed
  <1>4. \A s \in Subs : JobElapsed(s) =>
           job.row[s] = row[s] /\ job.plan[Owner[s]] = plan[Owner[s]]
    BY DEF JobReadsCurrent
  <1>5. row' = [s \in Subs |-> IF GraceElapsed(s) THEN [row[s] EXCEPT !.status = "expired"]
                                                  ELSE row[s]]
    <2>1. row' = [s \in Subs |-> Dirty(row[s], job.row[s],
                    IF JobElapsed(s) THEN [job.row[s] EXCEPT !.status = "expired"]
                                     ELSE job.row[s])]
      BY DEF JobCommit, WriteBack
    <2>2. ASSUME NEW s \in Subs
          PROVE  row'[s] = IF GraceElapsed(s) THEN [row[s] EXCEPT !.status = "expired"]
                                              ELSE row[s]
      <3>1. row[s] \in Row /\ job.row[s] \in Row
        BY <1>1, <1>2
      <3>2. [row[s] EXCEPT !.status = "expired"] \in Row
        BY <3>1 DEF Row, Statuses
      <3>3. CASE JobElapsed(s)
        <4>1. row'[s] = Dirty(row[s], row[s], [row[s] EXCEPT !.status = "expired"])
          BY <1>4, <2>1, <3>3
        <4> QED
          BY <1>3, <3>1, <3>2, <3>3, <4>1, DirtyIsWanted
      <3>4. CASE ~JobElapsed(s)
        <4>1. row'[s] = Dirty(row[s], job.row[s], job.row[s])
          BY <2>1, <3>4
        <4> QED
          BY <1>3, <3>1, <3>4, <4>1, DirtyIsWanted
      <3> QED
        BY <3>3, <3>4
    <2> QED
      BY <2>1, <2>2
  <1>6. plan' = [u \in Users |-> IF \E s \in Subs : GraceElapsed(s) /\ Owner[s] = u
                                 THEN "free" ELSE plan[u]]
    <2> DEFINE q == [u \in Users |-> IF \E s \in Subs : JobElapsed(s) /\ Owner[s] = u
                                     THEN "free" ELSE job.plan[u]]
    <2>1. q \in [Users -> Plans]
      BY <1>2 DEF Plans
    <2>2. plan' = Dirty(plan, job.plan, q)
      BY DEF JobCommit, WriteBack
    <2>3. \A u \in Users : q[u] = IF \E s \in Subs : JobElapsed(s) /\ Owner[s] = u
                                  THEN "free" ELSE job.plan[u]
      OBVIOUS
    <2> HIDE DEF q
    <2>4. plan' \in [Users -> Plans]
          /\ \A u \in Users : plan'[u] = IF q[u] # job.plan[u] THEN q[u] ELSE plan[u]
      BY <1>1, <1>2, <2>1, <2>2, DirtyPlan
    <2>5. ASSUME NEW u \in Users
          PROVE  plan'[u] = IF \E s \in Subs : GraceElapsed(s) /\ Owner[s] = u
                            THEN "free" ELSE plan[u]
      <3>1. CASE \E s \in Subs : JobElapsed(s) /\ Owner[s] = u
        BY <1>3, <1>4, <2>3, <2>4, <3>1
      <3>2. CASE ~ \E s \in Subs : JobElapsed(s) /\ Owner[s] = u
        BY <1>3, <2>3, <2>4, <3>2
      <3> QED
        BY <3>1, <3>2
    <2> QED
      BY <2>4, <2>5
  <1>7. \E s \in Subs : GraceElapsed(s)
    BY <1>3 DEF JobHasWork, JobCommit
  <1>8. UNCHANGED <<day, polar, sent, OneSentinel, cancelling>>
    BY DEF JobCommit, OneSentinel
  <1>9. Atomic!EnforceGracePeriodExpiry
    <2>1. \A s \in Subs : Atomic!GraceElapsed(s) <=> GraceElapsed(s)
      BY DEF Atomic!GraceElapsed, GraceElapsed
    <2> QED
      BY <1>5, <1>6, <1>7, <1>8, <2>1 DEF Atomic!EnforceGracePeriodExpiry
  <1> QED
    BY <1>9 DEF Atomic!Next

\* Polar, the users and the admins act on Billing as they do on the transactions.
LEMMA PolarIsAtomic ==
  ASSUME PolarNext PROVE Atomic!Next
  <1>1. PICK s \in Subs : \/ PolarActivate(s)
                          \/ PolarUpdate(s)
                          \/ PolarRevoke(s)
                          \/ PolarPause(s)
                          \/ PolarResume(s)
                          \/ PolarRefund(s)
    BY DEF PolarNext
  <1>2. ASSUME NEW type, NEW status, NEW end, NEW payloadEnd,
               Send(type, s, status, end, payloadEnd)
        PROVE  Atomic!Send(type, s, status, end, payloadEnd)
    BY <1>2 DEF Send, Atomic!Send, OneSentinel
  <1>3. CASE PolarActivate(s)
    BY <1>2, <1>3 DEF PolarActivate, Atomic!PolarActivate, Atomic!PolarNext, Atomic!Next
  <1>4. CASE PolarUpdate(s)
    <2>1. Atomic!PolarUpdate(s)
      BY <1>2, <1>4 DEF PolarUpdate, Atomic!PolarUpdate
    <2> QED
      BY <2>1 DEF Atomic!PolarNext, Atomic!Next
  <1>5. CASE PolarRevoke(s)
    BY <1>2, <1>5 DEF PolarRevoke, Atomic!PolarRevoke, Atomic!PolarNext, Atomic!Next
  <1>6. CASE PolarPause(s)
    BY <1>2, <1>6 DEF PolarPause, Atomic!PolarPause, Atomic!PolarNext, Atomic!Next
  <1>7. CASE PolarResume(s)
    BY <1>2, <1>7 DEF PolarResume, Atomic!PolarResume, Atomic!PolarNext, Atomic!Next
  <1>8. CASE PolarRefund(s)
    BY <1>2, <1>8 DEF PolarRefund, Atomic!PolarRefund, Atomic!PolarNext, Atomic!Next
  <1> QED
    BY <1>1, <1>3, <1>4, <1>5, <1>6, <1>7, <1>8

LEMMA UserIsAtomic ==
  ASSUME UserNext PROVE Atomic!Next
  <1>1. PICK u \in Users : \/ CancelBegin(u)
                           \/ CancelCommit(u)
                           \/ CancelFail(u)
                           \/ \E p \in Plans : AdminSetPlan(u, p)
    BY DEF UserNext
  <1>2. sentinels' = sentinels => OneSentinel' = OneSentinel
    BY DEF OneSentinel
  <1>3. CASE CancelBegin(u)
    <2>1. Atomic!AdmittedAsPro(u) <=> AdmittedAsPro(u)
      BY DEF Atomic!AdmittedAsPro, AdmittedAsPro, Atomic!IsLatest, IsLatest, Atomic!Exists,
             Exists, Atomic!TokenGate, TokenGate, Atomic!SubscriptionGate, SubscriptionGate
    <2>2. Atomic!ActiveOf(u) = ActiveOf(u)
      BY DEF Atomic!ActiveOf, ActiveOf
    <2>3. Atomic!CancelBegin(u)
      BY <1>2, <1>3, <2>1, <2>2 DEF CancelBegin, Atomic!CancelBegin
    <2> QED
      BY <2>3 DEF Atomic!UserNext, Atomic!Next
  <1>4. CASE CancelCommit(u)
    <2>1. Atomic!CancelCommit(u)
      BY <1>2, <1>4 DEF CancelCommit, Atomic!CancelCommit
    <2> QED
      BY <2>1 DEF Atomic!UserNext, Atomic!Next
  <1>5. CASE CancelFail(u)
    <2>1. Atomic!CancelFail(u)
      BY <1>2, <1>5 DEF CancelFail, Atomic!CancelFail
    <2> QED
      BY <2>1 DEF Atomic!UserNext, Atomic!Next
  <1>6. CASE \E p \in Plans : AdminSetPlan(u, p)
    <2>1. PICK p \in Plans : AdminSetPlan(u, p)
      BY <1>6
    <2>2. Atomic!AdminSetPlan(u, p) /\ p \in Atomic!Plans
      BY <1>2, <2>1 DEF AdminSetPlan, Atomic!AdminSetPlan, Plans, Atomic!Plans
    <2> QED
      BY <2>2 DEF Atomic!UserNext, Atomic!Next
  <1> QED
    BY <1>1, <1>3, <1>4, <1>5, <1>6

LEMMA StepIsAtomic ==
  ASSUME TxIInv, RefundsSeeOne, JobHasWork, [TxNext]_txVars, CommitsCurrent
  PROVE  [Atomic!Next]_(Atomic!vars)
  <1>1. ASSUME UNCHANGED vars PROVE UNCHANGED Atomic!vars
    BY <1>1 DEF vars, Atomic!vars, OneSentinel
  <1>2. CASE Idle /\ Tick /\ UNCHANGED <<tx, job, raced>>
    <2>1. Atomic!Tick
      BY <1>2 DEF Tick, Atomic!Tick, OneSentinel
    <2> QED
      BY <2>1 DEF Atomic!Next
  <1>3. CASE PolarNext /\ UNCHANGED <<tx, job, raced>>
    BY <1>3, PolarIsAtomic
  <1>4. CASE UserNext /\ UNCHANGED <<tx, job, raced>>
    BY <1>4, UserIsAtomic
  <1>5. ASSUME NEW w \in Slots, NEW i \in 1..Len(sent), TxBegin(w, i)
        PROVE  UNCHANGED vars
    BY <1>5 DEF TxBegin
  <1>6. ASSUME NEW w \in Slots, TxCommit(w) PROVE Atomic!Next
    BY <1>6, CurrentCommitIsAtomic DEF CommitsCurrent
  <1>7. ASSUME NEW w \in Slots, TxAbort(w) PROVE UNCHANGED vars
    BY <1>7 DEF TxAbort
  <1>8. CASE JobBegin
    BY <1>1, <1>8 DEF JobBegin
  <1>9. CASE JobCommit
    BY <1>9, CurrentJobIsAtomic DEF CommitsCurrent
  <1>10. CASE UNCHANGED txVars
    BY <1>1, <1>10 DEF txVars
  <1> QED
    BY <1>1, <1>2, <1>3, <1>4, <1>5, <1>6, <1>7, <1>8, <1>9, <1>10 DEF TxNext

LEMMA LookedInvariant == TxSpec => [](RefundsSeeOne /\ JobHasWork)
  <1>1. TxInit => RefundsSeeOne /\ JobHasWork
    BY DEF TxInit, RefundsSeeOne, JobHasWork, InFlight
  <1>2. TxIInv /\ RefundsSeeOne /\ JobHasWork /\ [TxNext]_txVars
          => RefundsSeeOne' /\ JobHasWork'
    BY LookedStays
  <1> QED
    BY <1>1, <1>2, TxInvariant, PTL DEF TxSpec

\* In every behaviour of the overlapping transactions, a step that commits no
\* stale read is a step of Billing, where each handler is one step: the other
\* requests in flight, what they have read and the copies of a sentinel make no
\* difference to it (polar_webhook, _enforce_grace_period_expiry, get_session).
THEOREM CurrentStepsAreAtomic ==
  TxSpec => [][CommitsCurrent => [Atomic!Next]_(Atomic!vars)]_txVars
  <1>1. TxIInv /\ RefundsSeeOne /\ JobHasWork /\ [TxNext]_txVars
          => [CommitsCurrent => [Atomic!Next]_(Atomic!vars)]_txVars
    BY StepIsAtomic
  <1> QED
    BY <1>1, TxInvariant, LookedInvariant, PTL DEF TxSpec

\* So if no commit rests on a stale read, as if the rows had version numbers that
\* get_session checked, the overlapping transactions implement Billing: what the
\* code loses by the overlap, it loses to stale reads alone (get_session).
THEOREM CurrentCommitsImplementBilling ==
  TxSpec /\ [][CommitsCurrent]_txVars => Atomic!Spec
  <1>1. TxInit => Atomic!Init
    <2> SUFFICES ASSUME TxInit PROVE Atomic!Init
      OBVIOUS
    <2>1. OneSentinel = {}
      BY DEF TxInit, Init, OneSentinel
    <2> QED
      BY <2>1 DEF TxInit, Init, Atomic!Init, NoRow, Atomic!NoRow
  <1>2. TxIInv /\ RefundsSeeOne /\ JobHasWork /\ [TxNext]_txVars /\ [CommitsCurrent]_txVars
          => [Atomic!Next]_(Atomic!vars)
    <2> SUFFICES ASSUME TxIInv, RefundsSeeOne, JobHasWork, [TxNext]_txVars,
                        [CommitsCurrent]_txVars
                 PROVE  [Atomic!Next]_(Atomic!vars)
      OBVIOUS
    <2>1. CASE CommitsCurrent
      BY <2>1, StepIsAtomic
    <2>2. CASE UNCHANGED txVars
      BY <2>2 DEF txVars, vars, Atomic!vars, OneSentinel
    <2> QED
      BY <2>1, <2>2
  <1> QED
    BY <1>1, <1>2, TxInvariant, LookedInvariant, PTL DEF TxSpec, Atomic!Spec
=============================================================================
