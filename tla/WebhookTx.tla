----------------------------- MODULE WebhookTx -----------------------------
(***************************************************************************)
(* Billing with its transactions taken apart.  A webhook request and the   *)
(* nightly job each read what they need, await, and commit later: get_     *)
(* session (app/database.py) commits once at the end, at READ COMMITTED    *)
(* and without locks.  The ORM then writes, by primary key, only the       *)
(* columns whose value differs from the value that was read; a column set  *)
(* to the value it already had is not written.                             *)
(*                                                                         *)
(* Each slot is a request in flight in one of the worker processes.  A     *)
(* transaction is shorter than a day.                                      *)
(***************************************************************************)
EXTENDS Billing

CONSTANT Slots

VARIABLES
    tx,   \* the webhook transaction of each slot, with what it has read
    job,  \* the nightly job's transaction
    raced \* history: users whose expiry met an activation under way

txVars == <<vars, tx, job, raced>>

NoTx == [event |-> None, row |-> [s \in Subs |-> NoRow],
         plan |-> [u \in Users |-> "free"]]
Snapshot == [event : Nat, row : [Subs -> Row], plan : [Users -> Plans]] \cup {NoTx}
Idle == job = NoTx /\ \A w \in Slots : tx[w] = NoTx

TxInit ==
    /\ Init
    /\ tx = [w \in Slots |-> NoTx]
    /\ job = NoTx
    /\ raced = {}

Take(e) == [event |-> e, row |-> row, plan |-> plan]

-----------------------------------------------------------------------------
(* What a handler leaves in its own objects, given the rows and the plans  *)
(* it has read.                                                            *)

WantedRows(i, r) ==
    LET s == sent[i].sub
        To(new) == [r EXCEPT ![s] = IF @.status = "absent" THEN @ ELSE new]
    IN  CASE sent[i].type \in Activations ->
                 [r EXCEPT ![s] = ActivatedRow(@, sent[i].end)]
          [] sent[i].type = "revoked" -> To(RevokedRow(r[s]))
          [] sent[i].type = "paused" -> To(PausedRow(r[s]))
          [] sent[i].type = "resumed" -> To(ResumedRow(r[s]))
          [] sent[i].type = "refunded" ->
                 [t \in Subs |->
                    IF Owner[t] = Owner[s] /\ r[t].status = "active"
                    THEN [r[t] EXCEPT !.status = "canceled", !.grace = day]
                    ELSE r[t]]

WantedPlan(i, p) ==
    CASE sent[i].type \in Activations -> [p EXCEPT ![Owner[sent[i].sub]] = "pro"]
      [] sent[i].type = "refunded" -> [p EXCEPT ![Owner[sent[i].sub]] = "free"]
      [] OTHER -> p

\* The UPDATE of the unit of work: only what the transaction changed.
Dirty(current, read, wanted) ==
    [c \in DOMAIN current |-> IF wanted[c] # read[c] THEN wanted[c] ELSE current[c]]

WriteBack(snapshot, rows, plans) ==
    /\ row' = [s \in Subs |-> Dirty(row[s], snapshot.row[s], rows[s])]
    /\ plan' = Dirty(plan, snapshot.plan, plans)

-----------------------------------------------------------------------------
(* POST /webhooks/polar.                                                   *)

\* Faulty: the reads happen without the look-up of the sentinel.
TxBegin_NoLookup(w, i) ==
    /\ tx[w] = NoTx
    /\ tx' = [tx EXCEPT ![w] = Take(i)]
    /\ UNCHANGED <<vars, job, raced>>

\* The look-up of the sentinel and the reads of the handler.  One sentinel row:
\* a duplicate, nothing happens.  Two: scalar_one_or_none raises, every later
\* delivery fails.  Two active rows of the user fail a refund.
TxBegin(w, i) ==
    /\ tx[w] = NoTx
    /\ ~Processed(i)
    /\ sent[i].type = "refunded" =>
          \A s, t \in ActiveOf(Owner[sent[i].sub]) : s = t
    /\ tx' = [tx EXCEPT ![w] = Take(i)]
    /\ UNCHANGED <<vars, job, raced>>

\* INSERT of a second row for one polar_sub_id violates the unique constraint.
InsertConflict(w) ==
    LET i == tx[w].event
        s == sent[i].sub
    IN  /\ sent[i].type \in Activations
        /\ tx[w].row[s].status = "absent"
        /\ Exists(s)

TxCommit(w) ==
    /\ tx[w] # NoTx
    /\ ~InsertConflict(w)
    /\ LET i == tx[w].event IN
         /\ WriteBack(tx[w], WantedRows(i, tx[w].row), WantedPlan(i, tx[w].plan))
         /\ sentinels' = sentinels \cup
              {[event |-> i, on |-> day, early |-> Early(i),
                copy |-> Cardinality({x \in sentinels : x.event = i})]}
    /\ tx' = [tx EXCEPT ![w] = NoTx]
    /\ UNCHANGED <<day, polar, sent, cancelling, job, raced>>

\* The constraint, a lost connection or a restart of the worker: rolled back.
TxAbort(w) ==
    /\ tx[w] # NoTx
    /\ tx' = [tx EXCEPT ![w] = NoTx]
    /\ UNCHANGED <<vars, job, raced>>

-----------------------------------------------------------------------------
(* The nightly job.                                                        *)

JobBegin ==
    /\ job = NoTx
    /\ \E s \in Subs : GraceElapsed(s)
    /\ job' = Take(0)
    /\ UNCHANGED <<vars, tx, raced>>

JobElapsed(s) ==
    /\ job.row[s].status = "past_due"
    /\ job.row[s].grace # None
    /\ job.row[s].grace <= day

\* Faulty: the expiry leaves the plan to some other job.
JobCommit_RowOnly ==
    /\ job # NoTx
    /\ WriteBack(job,
          [s \in Subs |->
             IF JobElapsed(s) THEN [job.row[s] EXCEPT !.status = "expired"]
                              ELSE job.row[s]],
          job.plan)
    /\ job' = NoTx
    /\ UNCHANGED <<day, polar, sent, sentinels, cancelling, tx, raced>>

\* The job expires a row of u while an activation of u is under way, or the plan
\* is no longer the one it has read.
Overlapped(u) ==
    /\ \E s \in Subs : JobElapsed(s) /\ Owner[s] = u
    /\ \/ plan[u] # job.plan[u]
       \/ \E w \in Slots :
             /\ tx[w] # NoTx
             /\ sent[tx[w].event].type \in Activations
             /\ Owner[sent[tx[w].event].sub] = u

JobCommit ==
    /\ job # NoTx
    /\ WriteBack(job,
          [s \in Subs |->
             IF JobElapsed(s) THEN [job.row[s] EXCEPT !.status = "expired"]
                              ELSE job.row[s]],
          [u \in Users |->
             IF \E s \in Subs : JobElapsed(s) /\ Owner[s] = u
             THEN "free" ELSE job.plan[u]])
    /\ job' = NoTx
    /\ raced' = raced \cup {u \in Users : Overlapped(u)}
    /\ UNCHANGED <<day, polar, sent, sentinels, cancelling, tx>>

-----------------------------------------------------------------------------

TxNext ==
    \/ Idle /\ Tick /\ UNCHANGED <<tx, job, raced>>
    \/ PolarNext /\ UNCHANGED <<tx, job, raced>>
    \/ UserNext /\ UNCHANGED <<tx, job, raced>>
    \/ \E w \in Slots :
          \/ \E i \in 1..Len(sent) : TxBegin(w, i)
          \/ TxCommit(w)
          \/ TxAbort(w)
    \/ JobBegin
    \/ JobCommit

TxSpec == TxInit /\ [][TxNext]_txVars

-----------------------------------------------------------------------------

\* The transactions keep to their types; sentinels of one event differ in copy.
TxTypeOK ==
    /\ day \in Day /\ polar \in [Subs -> PolarState] /\ sent \in Seq(Event)
    /\ row \in [Subs -> Row] /\ plan \in [Users -> Plans]
    /\ sentinels \subseteq [event : 1..Len(sent), on : Day, early : BOOLEAN, copy : Nat]
    /\ cancelling \in [Users -> Subs \cup {None}]
    /\ tx \in [Slots -> Snapshot]
    /\ job \in Snapshot
    /\ raced \subseteq Users

RefundedToday(u) ==
    \E x \in sentinels :
        sent[x.event].type = "refunded" /\ Owner[sent[x.event].sub] = u /\ x.on = day

\* What the interleaving leaves of NoFreeRide: all of it but for a refund.  A
\* refund ends the grace period of a row the moment it cancels it, and nobody
\* looks at that of a canceled row; a nightly job that has read the row as
\* past_due then makes it an expired one, whose owner the gate lets in until the
\* refund's own time is over, here its day
\* (handle_polar_order_refunded_or_disputed, _check_subscription_access).
NoFreeRideUnlessRefunded ==
    \A u \in Users : AdmittedAsPro(u) =>
        \/ RefundedToday(u)
        \/ \E s \in Subs : Owner[s] = u
                           /\ (PaidThroughToday(s) \/ InGraceOfRevocation(s))

\* What the interleaving leaves of ProHasLiveRow: however webhooks overlap, in
\* whatever order, a Pro user has a row that has not expired, until the nightly
\* job expires one while an activation of the user is under way.  Then the job
\* may leave the plan that the activation has restored meanwhile, or the
\* activation the row that the job has expired: neither writes what it finds
\* already as it wants it (_enforce_grace_period_expiry,
\* handle_polar_subscription_activated).
LiveRowUnlessRaced ==
    \A u \in Users \ raced : plan[u] = "pro" =>
        \E s \in Subs : Owner[s] = u /\ row[s].status \notin {"absent", "expired"}

=============================================================================
