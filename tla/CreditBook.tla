----------------------------- MODULE CreditBook -----------------------------
(***************************************************************************)
(* What the credit ledger of a user promises (app/services/credits.py):    *)
(* one row a month; a charge is within the row's allowance and counted on  *)
(* top of what the row held at some time, never of what another row held.  *)
(* That is less than an account that loses no charge: two overlapping      *)
(* debits may both count on top of the same amount.                        *)
(***************************************************************************)
EXTENDS Integers

CONSTANTS Months, Amounts, Allowances

VARIABLES
    rows,   \* the row of each month: which one, its allowance and its use
    seen    \* what the row has held as its use

bookVars == <<rows, seen>>

Row == [id : Nat, total : Nat, used : Nat]
NoRow == [id |-> 0, total |-> 0, used |-> 0]

BookInit ==
    /\ rows = [m \in Months |-> NoRow]
    /\ seen = [m \in Months |-> {0}]

\* A new row, the first of its month or in place of another, on which at most
\* one charge has been made.
Open(m, total, first) ==
    /\ first \in {0} \cup Amounts /\ first <= total
    /\ rows' = [rows EXCEPT ![m] = [id |-> @.id + 1, total |-> total, used |-> first]]
    /\ seen' = [seen EXCEPT ![m] = {0, first}]

Charge(m, amount, base) ==
    /\ rows[m].id # 0
    /\ base \in seen[m] /\ base + amount <= rows[m].total
    /\ rows' = [rows EXCEPT ![m].used = base + amount]
    /\ seen' = [seen EXCEPT ![m] = @ \cup {base + amount}]

BookNext ==
    \E m \in Months :
        \/ \E total \in Allowances, first \in {0} \cup Amounts : Open(m, total, first)
        \/ \E amount \in Amounts : \E base \in seen[m] : Charge(m, amount, base)

BookSpec == BookInit /\ [][BookNext]_bookVars

=============================================================================
