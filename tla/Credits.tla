------------------------------ MODULE Credits ------------------------------
(***************************************************************************)
(* The credit ledger of one user (app/services/credits.py) and the routes  *)
(* over it.  A transaction computes the month and reads the row when it    *)
(* begins, and writes when it commits; others commit in between.           *)
(*                                                                         *)
(* A row is told from the one it replaces by its id.  The unique index on  *)
(* (user, month) refuses a second row, an UPDATE of a row that is gone     *)
(* fails (StaleDataError), and an UPDATE writes the number that was        *)
(* computed, not an increment.  debit_credits is called by no route yet:   *)
(* its caller is taken to commit what it returns and to roll back what it  *)
(* raises.                                                                 *)
(***************************************************************************)
EXTENDS Integers, FiniteSets

CONSTANTS
    FirstMonth, LastMonth,
    Plans, PlanCredits,      \* PLAN_CREDITS
    Amounts,                 \* what a call may cost
    Reqs, None,
    MaxBegun, MaxChanges     \* bounds

Months == FirstMonth..LastMonth

ASSUME CreditsAssumption ==
    /\ FirstMonth \in Nat /\ LastMonth \in Nat /\ FirstMonth <= LastMonth
    /\ PlanCredits \in [Plans -> Nat] /\ "free" \in Plans
    /\ Amounts \subseteq Nat \ {0}
    /\ MaxBegun \in Nat /\ MaxChanges \in Nat

VARIABLES
    month,       \* the calendar month
    plan,        \* the plan of the user
    ledger,      \* the row of each month
    txs,         \* transactions in flight
    granted,     \* the debits charged to the row of a month
    overlapped,  \* whether two debits of the month's row were under way at once
    seen,        \* the numbers the row of a month has held
    begun, changes

history == <<granted, overlapped, seen>>
creditVars == <<month, plan, ledger, txs, granted, overlapped, seen, begun, changes>>

Row == [id : Nat, total : Nat, used : Nat]
NoRow == [id |-> 0, total |-> 0, used |-> 0]
Exists(row) == row.id # 0

OpenTx == [op : {"open"}, month : Months, read : Row, plan : Plans]
DebitTx == [op : {"debit"}, month : Months, read : Row, plan : Plans, amount : Amounts]
ResetTx == [op : {"reset"}, month : Months, read : Row, plan : Plans]
NoTx == [op |-> "none", month |-> None]

CreditsTypeOK ==
    /\ month \in Months /\ plan \in Plans
    /\ ledger \in [Months -> Row]
    /\ txs \in [Reqs -> OpenTx \cup DebitTx \cup ResetTx \cup {NoTx}]
    /\ granted \in [Months -> Nat] /\ overlapped \in [Months -> BOOLEAN]
    /\ seen \in [Months -> SUBSET Nat]
    /\ begun \in 0..MaxBegun /\ changes \in 0..MaxChanges

CreditsInit ==
    /\ month = FirstMonth /\ plan = "free"
    /\ ledger = [m \in Months |-> NoRow]
    /\ txs = [r \in Reqs |-> NoTx]
    /\ granted = [m \in Months |-> 0]
    /\ overlapped = [m \in Months |-> FALSE]
    /\ seen = [m \in Months |-> {0}]
    /\ begun = 0 /\ changes = 0

CreditsRemaining(row) == IF row.used >= row.total THEN 0 ELSE row.total - row.used

\* What GET /credits/startup-check answers of a row.
CanInteract(row) == row.total = 0 \/ CreditsRemaining(row) > 0

\* The row that get_or_create_ledger returns.
Current(p) ==
    IF Exists(ledger[month]) THEN ledger[month]
    ELSE [id |-> 0, total |-> PlanCredits[p], used |-> 0]

Debits(m) == {r \in Reqs : txs[r].op = "debit" /\ txs[r].month = m}

Begin(r, tx) ==
    /\ txs[r] = NoTx /\ txs' = [txs EXCEPT ![r] = tx]
    /\ begun < MaxBegun /\ begun' = begun + 1
    /\ UNCHANGED <<month, plan, ledger, changes>>
End(r) == txs' = [txs EXCEPT ![r] = NoTx] /\ UNCHANGED <<month, plan, begun, changes>>

\* GET /credits/balance and /credits/startup-check; where the row exists they
\* write nothing.
GetOrCreateLedger(r) ==
    /\ ~Exists(ledger[month])
    /\ Begin(r, [op |-> "open", month |-> month, read |-> Current(plan), plan |-> plan])
    /\ UNCHANGED history

\* An allowance of nothing exempts: the row is made and nothing is charged.
DebitExempt(r, p) ==
    /\ Current(p).total = 0 /\ ~Exists(ledger[month])
    /\ Begin(r, [op |-> "open", month |-> month, read |-> Current(p), plan |-> p])
    /\ UNCHANGED history

\* Faulty: does not ask what remains.
DebitCredits_Unchecked(r, amount, p) ==
    /\ Current(p).total # 0
    /\ Begin(r, [op |-> "debit", month |-> month, read |-> Current(p), plan |-> p,
                 amount |-> amount])
    /\ overlapped' = [overlapped EXCEPT ![month] = @ \/ Debits(month) # {}]
    /\ UNCHANGED <<granted, seen>>

\* Otherwise what remains must suffice, or InsufficientCreditsError ends the
\* request.
DebitCredits(r, amount, p) ==
    /\ Current(p).total # 0 /\ amount <= CreditsRemaining(Current(p))
    /\ Begin(r, [op |-> "debit", month |-> month, read |-> Current(p), plan |-> p,
                 amount |-> amount])
    /\ overlapped' = [overlapped EXCEPT ![month] = @ \/ Debits(month) # {}]
    /\ UNCHANGED <<granted, seen>>

\* POST /admin/credits/<user>/reset, for any plan.
ResetPeriod(r, p) ==
    /\ Begin(r, [op |-> "reset", month |-> month, read |-> ledger[month], plan |-> p])
    /\ UNCHANGED history

\* Faulty: the row is looked up again by user and month.
Unmoved_ByMonth(t) == Exists(t.read) => Exists(ledger[t.month])

\* The row that was read is still there, and none has come where none was.
Unmoved(t) == t.read.id = ledger[t.month].id

\* A row with its first charge takes the place of what the month has.
Insert(m, total, first) ==
    /\ ledger' = [ledger EXCEPT ![m] = [id |-> @.id + 1, total |-> total, used |-> first]]
    /\ granted' = [granted EXCEPT ![m] = first]
    /\ seen' = [seen EXCEPT ![m] = {0, first}]

OpenCommit(r) ==
    LET t == txs[r]
    IN  /\ t.op = "open" /\ Unmoved(t)
        /\ Insert(t.month, PlanCredits[t.plan], 0)
        /\ End(r) /\ UNCHANGED overlapped

DebitCommit(r) ==
    LET t == txs[r]
        sum == t.read.used + t.amount
    IN  /\ t.op = "debit" /\ Unmoved(t)
        /\ IF Exists(t.read)
           THEN /\ ledger' = [ledger EXCEPT ![t.month].used = sum]
                /\ granted' = [granted EXCEPT ![t.month] = @ + t.amount]
                /\ seen' = [seen EXCEPT ![t.month] = @ \cup {sum}]
           ELSE Insert(t.month, PlanCredits[t.plan], t.amount)
        /\ End(r) /\ UNCHANGED overlapped

\* Faulty: what remains rolls over, as a use below zero.
ResetCommit_RollsOver(r) ==
    LET t == txs[r]
    IN  /\ t.op = "reset" /\ Unmoved(t)
        /\ Insert(t.month, PlanCredits[t.plan], t.read.used - t.read.total)
        /\ End(r)
        /\ overlapped' = [overlapped EXCEPT ![t.month] = FALSE]

\* The row is deleted and another inserted.
ResetCommit(r) ==
    LET t == txs[r]
    IN  /\ t.op = "reset" /\ Unmoved(t)
        /\ Insert(t.month, PlanCredits[t.plan], 0)
        /\ End(r)
        /\ overlapped' = [overlapped EXCEPT ![t.month] = FALSE]

\* A constraint, a stale row, the database or the client ends a transaction.
Rollback(r) ==
    /\ txs[r] # NoTx /\ End(r)
    /\ UNCHANGED <<ledger, history>>

\* Payments and administrators change the plan, and leave the ledger alone.
SetPlan(p) ==
    /\ p # plan /\ plan' = p
    /\ changes < MaxChanges /\ changes' = changes + 1
    /\ UNCHANGED <<month, ledger, txs, history, begun>>

NextMonth ==
    /\ month < LastMonth /\ month' = month + 1
    /\ UNCHANGED <<plan, ledger, txs, history, begun, changes>>

RequestStep(r) ==
    \/ GetOrCreateLedger(r)
    \/ \E p \in Plans : DebitExempt(r, p) \/ ResetPeriod(r, p)
    \/ \E p \in Plans, amount \in Amounts : DebitCredits(r, amount, p)
    \/ OpenCommit(r) \/ DebitCommit(r) \/ ResetCommit(r) \/ Rollback(r)

CreditsNext == \/ \E r \in Reqs : RequestStep(r)
               \/ \E p \in Plans : SetPlan(p)
               \/ NextMonth

CreditsSpec == CreditsInit /\ [][CreditsNext]_creditVars

-----------------------------------------------------------------------------

\* The row of a month counts what was charged to it: never more than was
\* granted and, unless two debits were under way at once, no less; it never
\* exceeds the allowance; and nobody is kept out who has not been granted the
\* whole of it, whatever resets, plan changes and month ends come between
\* (debit_credits, reset_period, startup_credit_check).
LedgerCounts ==
    \A m \in Months :
        /\ ledger[m].used <= ledger[m].total
        /\ ledger[m].used <= granted[m]
        /\ ~overlapped[m] => ledger[m].used = granted[m]
        /\ ~CanInteract(ledger[m]) => granted[m] >= ledger[m].total

Book == INSTANCE CreditBook
    WITH rows <- ledger, Allowances <- {PlanCredits[p] : p \in Plans}

\* The ledger keeps the promise of CreditBook (credits.py): every commit opens
\* one row, or charges the row that was read, in its month and within its
\* allowance.
ImplementsBook == Book!BookSpec

=============================================================================
