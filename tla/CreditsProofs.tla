--------------------------- MODULE CreditsProofs ---------------------------
(***************************************************************************)
(* Proofs about Credits for every number of requests and months, every     *)
(* plan and every amount: types, LedgerCounts and the refinement of        *)
(* CreditBook.                                                             *)
(*                                                                         *)
(* The invariant says of a transaction in flight what its commit relies    *)
(* on.  It has read a row that the month may have replaced since, never    *)
(* one that is still to come (ReadsPast).  While the row is the same, its  *)
(* allowance is what was read, and what was read of its use is a number it *)
(* has held (ReadsHold); a debit fits into what was read (DebitFits).      *)
(* Numbers that were held are covered by what was granted (SeenGranted),   *)
(* and unless two debits overlapped, the one in flight has read the        *)
(* present use (ReadsPresent) and is the only one (AloneUnlessOverlapped). *)
(***************************************************************************)
EXTENDS Credits, TLAPS

InFlight(r) == txs[r].op # "none"
Same(r) == txs[r].read.id = ledger[txs[r].month].id

ReadsPast == \A r \in Reqs : InFlight(r) => txs[r].read.id <= ledger[txs[r].month].id
ReadsHold ==
    \A r \in Reqs : InFlight(r) /\ txs[r].op = "debit" /\ Same(r) /\ Exists(txs[r].read) =>
        /\ txs[r].read.total = ledger[txs[r].month].total
        /\ txs[r].read.used \in seen[txs[r].month]
DebitFits ==
    \A r \in Reqs : txs[r].op = "debit" =>
        /\ txs[r].read.used + txs[r].amount <= txs[r].read.total
        /\ ~Exists(txs[r].read) => txs[r].read.total = PlanCredits[txs[r].plan]
                                   /\ txs[r].read.used = 0
SeenGranted == \A m \in Months : \A x \in seen[m] : x <= granted[m]
UsedSeen == \A m \in Months : ledger[m].used \in seen[m]
WithinTotal == \A m \in Months : ledger[m].used <= ledger[m].total
ReadsPresent ==
    \A r \in Reqs : txs[r].op = "debit" /\ Same(r) /\ Exists(txs[r].read)
                    /\ ~overlapped[txs[r].month] =>
        txs[r].read.used = ledger[txs[r].month].used
AloneUnlessOverlapped ==
    \A r, q \in Reqs :
        /\ txs[r].op = "debit" /\ txs[q].op = "debit"
        /\ txs[r].month = txs[q].month
        /\ Same(r) /\ Same(q) /\ ~overlapped[txs[r].month]
        => r = q
CountedUnlessOverlapped ==
    \A m \in Months : ~overlapped[m] => ledger[m].used = granted[m]

IInv ==
    /\ CreditsTypeOK
    /\ ReadsPast /\ ReadsHold /\ DebitFits
    /\ SeenGranted /\ UsedSeen /\ WithinTotal
    /\ ReadsPresent /\ AloneUnlessOverlapped /\ CountedUnlessOverlapped

-----------------------------------------------------------------------------

\* What the fields of a transaction in flight are.
LEMMA TxFields ==
  ASSUME CreditsTypeOK, NEW r \in Reqs, InFlight(r)
  PROVE  /\ txs[r].op \in {"open", "debit", "reset"}
         /\ txs[r].month \in Months /\ txs[r].plan \in Plans
         /\ txs[r].read \in Row
         /\ txs[r].op = "debit" => txs[r].amount \in Amounts
  <1>1. txs[r] \in OpenTx \cup DebitTx \cup ResetTx \cup {NoTx}
    BY DEF CreditsTypeOK
  <1>2. txs[r] # NoTx
    BY DEF InFlight, NoTx
  <1>3. CASE txs[r] \in OpenTx
    BY <1>3 DEF OpenTx
  <1>4. CASE txs[r] \in DebitTx
    BY <1>4 DEF DebitTx
  <1>5. CASE txs[r] \in ResetTx
    BY <1>5 DEF ResetTx
  <1> QED
    BY <1>1, <1>2, <1>3, <1>4, <1>5

LEMMA RowFields ==
  ASSUME CreditsTypeOK, NEW m \in Months
  PROVE  ledger[m] \in Row /\ ledger[m].id \in Nat
         /\ ledger[m].total \in Nat /\ ledger[m].used \in Nat
  BY DEF CreditsTypeOK, Row

\* The row that is read: of the month, and within its allowance.
LEMMA CurrentRow ==
  ASSUME CreditsTypeOK, WithinTotal, NEW p \in Plans
  PROVE  /\ Current(p) \in Row
         /\ Current(p).id = ledger[month].id
         /\ Exists(Current(p)) => Current(p) = ledger[month]
         /\ ~Exists(Current(p)) => Current(p).total = PlanCredits[p]
                                   /\ Current(p).used = 0
         /\ Current(p).used <= Current(p).total
  <1>1. PlanCredits[p] \in Nat /\ month \in Months
    BY CreditsAssumption DEF CreditsTypeOK
  <1>2. ledger[month] \in Row
    BY <1>1, RowFields
  <1>3. CASE Exists(ledger[month])
    BY <1>1, <1>2, <1>3 DEF Current, WithinTotal, Row
  <1>4. CASE ~Exists(ledger[month])
    BY <1>1, <1>2, <1>4 DEF Current, Row, Exists
  <1> QED
    BY <1>3, <1>4

LEMMA InitEstablishes == CreditsInit => IInv
  <1> SUFFICES ASSUME CreditsInit PROVE IInv
    OBVIOUS
  <1> USE CreditsAssumption
  <1>1. NoRow \in Row /\ NoTx.op = "none" /\ NoRow.used = 0 /\ NoRow.total = 0
    BY DEF NoRow, Row, NoTx
  <1>2. FirstMonth \in Months
    BY DEF Months
  <1>3. CreditsTypeOK
    BY <1>1, <1>2 DEF CreditsInit, CreditsTypeOK
  <1>4. \A r \in Reqs : txs[r].op = "none"
    BY <1>1 DEF CreditsInit
  <1>5. ReadsPast /\ ReadsHold /\ DebitFits /\ ReadsPresent /\ AloneUnlessOverlapped
    BY <1>4 DEF ReadsPast, ReadsHold, DebitFits, ReadsPresent,
                AloneUnlessOverlapped, InFlight
  <1>6. SeenGranted /\ UsedSeen /\ WithinTotal /\ CountedUnlessOverlapped
    BY <1>1 DEF CreditsInit, SeenGranted, UsedSeen, WithinTotal,
                CountedUnlessOverlapped
  <1> QED
    BY <1>3, <1>5, <1>6 DEF IInv

\* A transaction that begins has read what the month has; a debit that begins
\* beside another one marks the month.
LEMMA BeginPreserves ==
  ASSUME IInv, NEW r \in Reqs, NEW tx \in OpenTx \cup DebitTx \cup ResetTx,
         Begin(r, tx), tx.month = month, tx.read.id = ledger[month].id,
         UNCHANGED <<granted, seen>>,
         overlapped' \in [Months -> BOOLEAN],
         \A m \in Months : overlapped[m] => overlapped'[m],
         tx.op = "debit" =>
            /\ tx.read.used + tx.amount <= tx.read.total
            /\ Exists(tx.read) => tx.read = ledger[month]
            /\ ~Exists(tx.read) => tx.read.total = PlanCredits[tx.plan]
                                   /\ tx.read.used = 0
            /\ ~overlapped'[month] => Debits(month) = {}
  PROVE  IInv'
  <1> USE DEF IInv
  <1>1. /\ \A q \in Reqs : txs'[q] = IF q = r THEN tx ELSE txs[q]
        /\ UNCHANGED <<month, plan, ledger, changes, granted, seen>>
        /\ month \in Months /\ txs[r].op = "none"
    BY DEF Begin, CreditsTypeOK, NoTx
  <1>2. CreditsTypeOK'
    BY CreditsAssumption DEF Begin, CreditsTypeOK
  <1>3. ReadsPast'
    BY <1>1, RowFields DEF ReadsPast, InFlight
  <1>4. ReadsHold' /\ ReadsPresent'
    <2>1. ledger[month].used \in seen[month]
      BY <1>1 DEF UsedSeen
    <2>2. \A q \in Reqs : txs[q].op = "debit" => txs[q].month \in Months
      BY TxFields DEF InFlight
    <2>3. ReadsHold'
      BY <1>1, <2>1 DEF ReadsHold, InFlight, Same, Exists
    <2>4. ReadsPresent'
      BY <1>1, <2>2 DEF ReadsPresent, Same, Exists
    <2> QED
      BY <2>3, <2>4
  <1>5. DebitFits'
    BY <1>1 DEF DebitFits, Exists
  <1>6. AloneUnlessOverlapped'
    <2> SUFFICES ASSUME NEW p \in Reqs, NEW q \in Reqs,
                        txs'[p].op = "debit", txs'[q].op = "debit",
                        txs'[p].month = txs'[q].month, Same(p)', Same(q)',
                        ~overlapped'[txs'[p].month]
                 PROVE  p = q
      BY DEF AloneUnlessOverlapped
    <2>1. CASE p # r /\ q # r
      <3>1. txs[p].month \in Months
        BY <1>1, <2>1, TxFields DEF InFlight
      <3> QED
        BY <1>1, <2>1, <3>1 DEF AloneUnlessOverlapped, Same
    <2>2. CASE p = r /\ q # r
      BY <1>1, <2>2 DEF Debits
    <2>3. CASE p # r /\ q = r
      BY <1>1, <2>3 DEF Debits
    <2> QED
      BY <2>1, <2>2, <2>3
  <1>7. SeenGranted' /\ UsedSeen' /\ WithinTotal' /\ CountedUnlessOverlapped'
    BY <1>1 DEF SeenGranted, UsedSeen, WithinTotal, CountedUnlessOverlapped
  <1> QED
    BY <1>2, <1>3, <1>4, <1>5, <1>6, <1>7

\* A transaction that ends is no longer in flight; the others stay as they are.
LEMMA EndEffect ==
  ASSUME CreditsTypeOK, NEW r \in Reqs, End(r)
  PROVE  /\ \A q \in Reqs : q # r => txs'[q] = txs[q]
         /\ txs'[r].op = "none"
         /\ txs' \in [Reqs -> OpenTx \cup DebitTx \cup ResetTx \cup {NoTx}]
         /\ UNCHANGED <<month, plan, begun, changes>>
  BY DEF End, CreditsTypeOK, NoTx

\* A row takes the place of what the month has: what every other transaction of
\* the month has read is gone.
LEMMA InsertPreserves ==
  ASSUME IInv, NEW r \in Reqs, NEW m \in Months, NEW total \in Nat, NEW first \in Nat,
         first <= total, Insert(m, total, first), End(r),
         overlapped' \in [Months -> BOOLEAN],
         \A k \in Months : k # m => overlapped'[k] = overlapped[k]
  PROVE  IInv'
  <1> USE DEF IInv
  <1>1. /\ \A q \in Reqs : q # r => txs'[q] = txs[q]
        /\ txs'[r].op = "none"
        /\ txs' \in [Reqs -> OpenTx \cup DebitTx \cup ResetTx \cup {NoTx}]
        /\ UNCHANGED <<month, plan, begun, changes>>
    BY EndEffect
  <1>2. ledger[m] \in Row /\ ledger[m].id \in Nat
    BY RowFields
  <1> DEFINE new == [id |-> ledger[m].id + 1, total |-> total, used |-> first]
  <1>3. new \in Row
    BY <1>2 DEF Row
  <1>4. /\ ledger' = [ledger EXCEPT ![m] = new]
        /\ granted' = [granted EXCEPT ![m] = first]
        /\ seen' = [seen EXCEPT ![m] = {0, first}]
    BY DEF Insert
  <1>5. /\ \A k \in Months : ledger'[k] = IF k = m THEN new ELSE ledger[k]
        /\ \A k \in Months : granted'[k] = IF k = m THEN first ELSE granted[k]
        /\ \A k \in Months : seen'[k] = IF k = m THEN {0, first} ELSE seen[k]
    BY <1>4 DEF CreditsTypeOK
  <1>6. CreditsTypeOK'
    BY <1>1, <1>3, <1>4 DEF CreditsTypeOK
  <1>7. new.id = ledger[m].id + 1 /\ new.total = total /\ new.used = first
    OBVIOUS
  <1> HIDE DEF new
  <1>8. ASSUME NEW q \in Reqs, InFlight(q)'
        PROVE  /\ q # r /\ txs'[q] = txs[q] /\ InFlight(q)
               /\ txs[q].month \in Months /\ txs[q].read.id \in Nat
               /\ txs[q].read.id <= ledger[txs[q].month].id
    <2>1. q # r /\ txs'[q] = txs[q] /\ InFlight(q)
      BY <1>1, <1>8 DEF InFlight
    <2> QED
      BY <2>1, TxFields DEF Row, ReadsPast
  <1>9. ReadsPast'
    BY <1>2, <1>5, <1>7, <1>8 DEF ReadsPast
  <1>10. ASSUME NEW q \in Reqs, InFlight(q)', Same(q)'
         PROVE  txs[q].month # m /\ Same(q)
    BY <1>2, <1>5, <1>7, <1>8, <1>10 DEF Same
  <1>11. \A q \in Reqs : txs'[q].op = "debit" => InFlight(q)'
    BY DEF InFlight
  <1>12. ReadsHold'
    BY <1>5, <1>8, <1>10 DEF ReadsHold
  <1>13. DebitFits'
    BY <1>8, <1>11 DEF DebitFits
  <1>14. ReadsPresent'
    BY <1>5, <1>8, <1>10, <1>11 DEF ReadsPresent
  <1>15. AloneUnlessOverlapped'
    BY <1>8, <1>10, <1>11 DEF AloneUnlessOverlapped
  <1>16. SeenGranted' /\ UsedSeen' /\ WithinTotal' /\ CountedUnlessOverlapped'
    BY <1>5, <1>7 DEF SeenGranted, UsedSeen, WithinTotal, CountedUnlessOverlapped
  <1> QED
    BY <1>6, <1>9, <1>12, <1>13, <1>14, <1>15, <1>16

\* A debit whose row is still there writes the sum it computed.
LEMMA ChargePreserves ==
  ASSUME IInv, NEW r \in Reqs, DebitCommit(r), Exists(txs[r].read)
  PROVE  IInv'
  <1> USE DEF IInv
  <1> DEFINE m == txs[r].month
             sum == txs[r].read.used + txs[r].amount
  <1>1. txs[r].op = "debit" /\ InFlight(r) /\ Same(r)
    BY DEF DebitCommit, InFlight, Same, Unmoved
  <1>2. /\ m \in Months /\ txs[r].read \in Row /\ txs[r].read.used \in Nat
        /\ txs[r].amount \in Nat
        /\ ledger[m] \in Row /\ granted[m] \in Nat
        /\ seen[m] \in SUBSET Nat
    BY <1>1, TxFields, RowFields, CreditsAssumption DEF Row, CreditsTypeOK
  <1>3. /\ txs[r].read.used \in seen[m] /\ txs[r].read.total = ledger[m].total
        /\ sum <= ledger[m].total
        /\ txs[r].read.used <= granted[m]
        /\ sum \in Nat /\ sum <= granted[m] + txs[r].amount
        /\ ~overlapped[m] => txs[r].read.used = ledger[m].used
    BY <1>1, <1>2 DEF ReadsHold, DebitFits, SeenGranted, ReadsPresent, Same
  <1>4. /\ ledger' = [ledger EXCEPT ![m] = [ledger[m] EXCEPT !.used = sum]]
        /\ granted' = [granted EXCEPT ![m] = granted[m] + txs[r].amount]
        /\ seen' = [seen EXCEPT ![m] = seen[m] \cup {sum}]
        /\ UNCHANGED overlapped /\ End(r)
    BY DEF DebitCommit, CreditsTypeOK
  <1>5. /\ \A q \in Reqs : q # r => txs'[q] = txs[q]
        /\ txs'[r].op = "none"
        /\ txs' \in [Reqs -> OpenTx \cup DebitTx \cup ResetTx \cup {NoTx}]
        /\ UNCHANGED <<month, plan, begun, changes>>
    BY <1>4, EndEffect
  <1> DEFINE new == [ledger[m] EXCEPT !.used = sum]
  <1>6. /\ new \in Row /\ new.id = ledger[m].id /\ new.total = ledger[m].total
        /\ new.used = sum
    BY <1>2, <1>3 DEF Row
  <1> HIDE DEF new
  <1>7. /\ \A k \in Months : ledger'[k] = IF k = m THEN new ELSE ledger[k]
        /\ \A k \in Months :
              granted'[k] = IF k = m THEN granted[m] + txs[r].amount ELSE granted[k]
        /\ \A k \in Months : seen'[k] = IF k = m THEN seen[m] \cup {sum} ELSE seen[k]
    BY <1>2, <1>4 DEF CreditsTypeOK, new
  <1>8. CreditsTypeOK'
    <2>1. ledger' \in [Months -> Row]
      BY <1>4, <1>6 DEF CreditsTypeOK, new
    <2>2. granted' \in [Months -> Nat] /\ seen' \in [Months -> SUBSET Nat]
      BY <1>2, <1>3, <1>4 DEF CreditsTypeOK
    <2> QED
      BY <1>4, <1>5, <2>1, <2>2 DEF CreditsTypeOK
  <1>9. ASSUME NEW q \in Reqs, InFlight(q)'
        PROVE  /\ q # r /\ txs'[q] = txs[q] /\ InFlight(q)
               /\ txs[q].month \in Months
               /\ ledger'[txs[q].month].id = ledger[txs[q].month].id
               /\ ledger'[txs[q].month].total = ledger[txs[q].month].total
               /\ seen[txs[q].month] \subseteq seen'[txs[q].month]
               /\ Same(q)' => Same(q)
    <2>1. q # r /\ txs'[q] = txs[q] /\ InFlight(q)
      BY <1>5, <1>9 DEF InFlight
    <2>2. txs[q].month \in Months
      BY <2>1, TxFields
    <2> QED
      BY <1>6, <1>7, <2>1, <2>2 DEF Same
  <1>10. \A q \in Reqs : txs'[q].op = "debit" => InFlight(q)'
    BY DEF InFlight
  <1>11. ReadsPast'
    BY <1>9 DEF ReadsPast
  <1>12. ReadsHold'
    BY <1>9 DEF ReadsHold
  <1>13. DebitFits'
    BY <1>9, <1>10 DEF DebitFits
  <1>14. ReadsPresent'
    <2> SUFFICES ASSUME NEW q \in Reqs, txs'[q].op = "debit", Same(q)',
                        Exists(txs'[q].read), ~overlapped'[txs'[q].month]
                 PROVE  txs'[q].read.used = ledger'[txs'[q].month].used
      BY DEF ReadsPresent
    <2>1. /\ q # r /\ txs'[q] = txs[q] /\ Same(q)
          /\ txs[q].month \in Months /\ ~overlapped[txs[q].month]
      BY <1>4, <1>9, <1>10
    <2>2. txs[q].month # m
      BY <1>1, <2>1 DEF AloneUnlessOverlapped
    <2> QED
      BY <1>7, <2>1, <2>2 DEF ReadsPresent
  <1>15. AloneUnlessOverlapped'
    BY <1>4, <1>9, <1>10 DEF AloneUnlessOverlapped
  <1>16. SeenGranted'
    <2> SUFFICES ASSUME NEW k \in Months, NEW x \in seen'[k] PROVE x <= granted'[k]
      BY DEF SeenGranted
    <2>1. CASE k # m
      BY <1>7, <2>1 DEF SeenGranted
    <2>2. CASE k = m /\ x \in seen[m]
      BY <1>2, <1>7, <2>2 DEF SeenGranted
    <2>3. CASE k = m /\ x = sum
      BY <1>3, <1>7, <2>3
    <2> QED
      BY <1>7, <2>1, <2>2, <2>3
  <1>17. UsedSeen' /\ WithinTotal'
    BY <1>3, <1>6, <1>7 DEF UsedSeen, WithinTotal
  <1>18. CountedUnlessOverlapped'
    BY <1>2, <1>3, <1>4, <1>6, <1>7 DEF CountedUnlessOverlapped
  <1> QED
    BY <1>8, <1>11, <1>12, <1>13, <1>14, <1>15, <1>16, <1>17, <1>18

\* The first debit of a month opens its row, charged with what it costs.
LEMMA FirstDebit ==
  ASSUME IInv, NEW r \in Reqs, DebitCommit(r), ~Exists(txs[r].read)
  PROVE  /\ txs[r].month \in Months /\ txs[r].plan \in Plans
         /\ PlanCredits[txs[r].plan] \in Nat
         /\ txs[r].amount \in Amounts /\ txs[r].amount \in Nat
         /\ txs[r].amount <= PlanCredits[txs[r].plan]
         /\ Insert(txs[r].month, PlanCredits[txs[r].plan], txs[r].amount)
         /\ End(r) /\ UNCHANGED overlapped
  <1> USE CreditsAssumption DEF IInv
  <1>1. txs[r].op = "debit" /\ InFlight(r)
    BY DEF DebitCommit, InFlight
  <1>2. txs[r].month \in Months /\ txs[r].plan \in Plans /\ txs[r].amount \in Amounts
    BY <1>1, TxFields
  <1>3. PlanCredits[txs[r].plan] \in Nat /\ txs[r].amount \in Nat
    BY <1>2
  <1>4. txs[r].amount <= PlanCredits[txs[r].plan]
    BY <1>1, <1>3 DEF DebitFits
  <1> QED
    BY <1>2, <1>3, <1>4 DEF DebitCommit

\* A look-up or a reset that commits opens a row with the plan's allowance.
LEMMA FreshRow ==
  ASSUME CreditsTypeOK, NEW r \in Reqs, OpenCommit(r) \/ ResetCommit(r)
  PROVE  /\ txs[r].month \in Months /\ txs[r].plan \in Plans
         /\ PlanCredits[txs[r].plan] \in Nat
         /\ Insert(txs[r].month, PlanCredits[txs[r].plan], 0)
         /\ End(r)
         /\ overlapped' \in [Months -> BOOLEAN]
         /\ \A k \in Months : k # txs[r].month => overlapped'[k] = overlapped[k]
  <1>1. InFlight(r)
    BY DEF OpenCommit, ResetCommit, InFlight
  <1>2. txs[r].month \in Months /\ txs[r].plan \in Plans
    BY <1>1, TxFields
  <1>3. PlanCredits[txs[r].plan] \in Nat
    BY <1>2, CreditsAssumption
  <1> QED
    BY <1>2, <1>3 DEF OpenCommit, ResetCommit, CreditsTypeOK

LEMMA StepPreserves == IInv /\ [CreditsNext]_creditVars => IInv'
  <1> SUFFICES ASSUME IInv, [CreditsNext]_creditVars PROVE IInv'
    OBVIOUS
  <1> USE CreditsAssumption DEF IInv
  <1>1. ASSUME NEW r \in Reqs, GetOrCreateLedger(r) PROVE IInv'
    <2> DEFINE tx == [op |-> "open", month |-> month, read |-> Current(plan),
                      plan |-> plan]
    <2>1. month \in Months /\ plan \in Plans
      BY DEF CreditsTypeOK
    <2>2. /\ tx \in OpenTx /\ tx.op # "debit" /\ tx.month = month
          /\ tx.read.id = ledger[month].id
      BY <2>1, CurrentRow DEF OpenTx
    <2>3. Begin(r, tx) /\ UNCHANGED <<granted, seen, overlapped>>
      BY <1>1 DEF GetOrCreateLedger, history
    <2> QED
      BY <2>2, <2>3, BeginPreserves DEF CreditsTypeOK
  <1>2. ASSUME NEW r \in Reqs, NEW p \in Plans, DebitExempt(r, p) PROVE IInv'
    <2> DEFINE tx == [op |-> "open", month |-> month, read |-> Current(p), plan |-> p]
    <2>1. month \in Months
      BY DEF CreditsTypeOK
    <2>2. /\ tx \in OpenTx /\ tx.op # "debit" /\ tx.month = month
          /\ tx.read.id = ledger[month].id
      BY <2>1, CurrentRow DEF OpenTx
    <2>3. Begin(r, tx) /\ UNCHANGED <<granted, seen, overlapped>>
      BY <1>2 DEF DebitExempt, history
    <2> QED
      BY <2>2, <2>3, BeginPreserves DEF CreditsTypeOK
  <1>3. ASSUME NEW r \in Reqs, NEW p \in Plans, ResetPeriod(r, p) PROVE IInv'
    <2> DEFINE tx == [op |-> "reset", month |-> month, read |-> ledger[month],
                      plan |-> p]
    <2>1. month \in Months
      BY DEF CreditsTypeOK
    <2>2. /\ tx \in ResetTx /\ tx.op # "debit" /\ tx.month = month
          /\ tx.read.id = ledger[month].id
      BY <2>1, RowFields DEF ResetTx
    <2>3. Begin(r, tx) /\ UNCHANGED <<granted, seen, overlapped>>
      BY <1>3 DEF ResetPeriod, history
    <2> QED
      BY <2>2, <2>3, BeginPreserves DEF CreditsTypeOK
  <1>4. ASSUME NEW r \in Reqs, NEW amount \in Amounts, NEW p \in Plans,
               DebitCredits(r, amount, p)
        PROVE  IInv'
    <2> DEFINE row == Current(p)
               tx == [op |-> "debit", month |-> month, read |-> row, plan |-> p,
                      amount |-> amount]
    <2>1. /\ month \in Months /\ row \in Row /\ row.id = ledger[month].id
          /\ row.used <= row.total /\ amount \in Nat \ {0}
          /\ Exists(row) => row = ledger[month]
          /\ ~Exists(row) => row.total = PlanCredits[p] /\ row.used = 0
      BY CurrentRow DEF CreditsTypeOK
    <2>2. /\ Begin(r, tx) /\ UNCHANGED <<granted, seen>>
          /\ amount <= CreditsRemaining(row)
          /\ overlapped' = [overlapped EXCEPT ![month] =
                               overlapped[month] \/ Debits(month) # {}]
      BY <1>4 DEF DebitCredits, CreditsTypeOK
    <2> HIDE DEF row
    <2>3. row.used + amount <= row.total
      BY <2>1, <2>2 DEF CreditsRemaining, Row
    <2>4. /\ tx \in DebitTx /\ tx.month = month /\ tx.read = row /\ tx.plan = p
          /\ tx.amount = amount
      BY <2>1 DEF DebitTx
    <2>5. overlapped \in [Months -> BOOLEAN]
      BY DEF CreditsTypeOK
    <2>6. /\ overlapped' \in [Months -> BOOLEAN]
          /\ \A m \in Months : overlapped[m] => overlapped'[m]
          /\ ~overlapped'[month] => Debits(month) = {}
      BY <2>1, <2>2, <2>5, Zenon
    <2> HIDE DEF tx
    <2> QED
      BY <2>1, <2>2, <2>3, <2>4, <2>6, BeginPreserves
  <1>5. ASSUME NEW r \in Reqs, OpenCommit(r) \/ ResetCommit(r) PROVE IInv'
    BY <1>5, FreshRow, InsertPreserves
  <1>6. ASSUME NEW r \in Reqs, DebitCommit(r) PROVE IInv'
    <2>1. CASE Exists(txs[r].read)
      BY <1>6, <2>1, ChargePreserves
    <2>2. CASE ~Exists(txs[r].read)
      BY <1>6, <2>2, FirstDebit, InsertPreserves DEF CreditsTypeOK
    <2> QED
      BY <2>1, <2>2
  <1>7. ASSUME NEW r \in Reqs, Rollback(r) PROVE IInv'
    <2>1. /\ \A q \in Reqs : q # r => txs'[q] = txs[q]
          /\ txs'[r].op = "none"
          /\ txs' \in [Reqs -> OpenTx \cup DebitTx \cup ResetTx \cup {NoTx}]
          /\ UNCHANGED <<month, plan, begun, changes>>
      BY <1>7, EndEffect DEF Rollback
    <2>2. UNCHANGED <<ledger, granted, overlapped, seen>>
      BY <1>7 DEF Rollback, history
    <2>3. CreditsTypeOK'
      BY <2>1, <2>2 DEF CreditsTypeOK
    <2>4. ReadsPast' /\ ReadsHold' /\ DebitFits' /\ ReadsPresent'
      BY <2>1, <2>2 DEF ReadsPast, ReadsHold, DebitFits, ReadsPresent, InFlight, Same
    <2>5. AloneUnlessOverlapped'
      BY <2>1, <2>2 DEF AloneUnlessOverlapped, Same
    <2> QED
      BY <2>2, <2>3, <2>4, <2>5
         DEF SeenGranted, UsedSeen, WithinTotal, CountedUnlessOverlapped
  <1>8. CASE UNCHANGED <<ledger, txs, granted, overlapped, seen>> /\ CreditsTypeOK'
    BY <1>8 DEF ReadsPast, ReadsHold, DebitFits, SeenGranted, UsedSeen, WithinTotal,
                ReadsPresent, AloneUnlessOverlapped, CountedUnlessOverlapped,
                InFlight, Same
  <1>9. ASSUME NEW p \in Plans, SetPlan(p) PROVE IInv'
    BY <1>8, <1>9 DEF SetPlan, history, CreditsTypeOK
  <1>10. CASE NextMonth
    BY <1>8, <1>10 DEF NextMonth, history, CreditsTypeOK, Months
  <1>11. CASE UNCHANGED creditVars
    BY <1>8, <1>11 DEF creditVars, CreditsTypeOK
  <1> QED
    BY <1>1, <1>2, <1>3, <1>4, <1>5, <1>6, <1>7, <1>9, <1>10, <1>11
       DEF CreditsNext, RequestStep

\* The values of every variable keep their types, whatever number of requests
\* overlaps, resets and rolls back (services/credits.py).
THEOREM TypeCorrect == CreditsSpec => []CreditsTypeOK
  <1>1. IInv => CreditsTypeOK
    BY DEF IInv
  <1> QED
    BY <1>1, InitEstablishes, StepPreserves, PTL DEF CreditsSpec

\* A row never counts more than was granted on it nor more than its allowance,
\* counts all of it unless two debits overlapped, and refuses no user who has
\* not been granted the whole of it (debit_credits, reset_period).
THEOREM LedgerCountsInvariant == CreditsSpec => []LedgerCounts
  <1>1. IInv => LedgerCounts
    <2> SUFFICES ASSUME IInv, NEW m \in Months
                 PROVE  /\ ledger[m].used <= ledger[m].total
                        /\ ledger[m].used <= granted[m]
                        /\ ~overlapped[m] => ledger[m].used = granted[m]
                        /\ ~CanInteract(ledger[m]) => granted[m] >= ledger[m].total
      BY DEF LedgerCounts
    <2>1. /\ ledger[m].used \in Nat /\ ledger[m].total \in Nat /\ granted[m] \in Nat
      BY RowFields DEF IInv, CreditsTypeOK
    <2>2. /\ ledger[m].used <= ledger[m].total /\ ledger[m].used <= granted[m]
          /\ ~overlapped[m] => ledger[m].used = granted[m]
      BY DEF IInv, WithinTotal, UsedSeen, SeenGranted, CountedUnlessOverlapped
    <2> QED
      BY <2>1, <2>2 DEF CanInteract, CreditsRemaining
  <1> QED
    BY <1>1, InitEstablishes, StepPreserves, PTL DEF CreditsSpec

LEMMA InsertOpens ==
  ASSUME NEW m \in Months, NEW p \in Plans, NEW first \in {0} \cup Amounts,
         first <= PlanCredits[p], Insert(m, PlanCredits[p], first)
  PROVE  Book!BookNext
  <1>1. PlanCredits[p] \in {PlanCredits[q] : q \in Plans}
    OBVIOUS
  <1>2. Book!Open(m, PlanCredits[p], first)
    BY DEF Book!Open, Insert
  <1> QED
    BY <1>1, <1>2 DEF Book!BookNext

\* Every step of the ledger is a step of the book or leaves it alone.
LEMMA StepImplements == IInv /\ [CreditsNext]_creditVars => [Book!BookNext]_(Book!bookVars)
  <1> SUFFICES ASSUME IInv, [CreditsNext]_creditVars
               PROVE  Book!BookNext \/ UNCHANGED <<ledger, seen>>
    BY DEF Book!bookVars
  <1> USE CreditsAssumption
  <1>1. CreditsTypeOK
    BY DEF IInv
  <1>2. ASSUME NEW r \in Reqs, OpenCommit(r) \/ ResetCommit(r) PROVE Book!BookNext
    <2>1. /\ txs[r].month \in Months /\ txs[r].plan \in Plans
          /\ PlanCredits[txs[r].plan] \in Nat
          /\ Insert(txs[r].month, PlanCredits[txs[r].plan], 0)
      BY <1>1, <1>2, FreshRow
    <2> QED
      BY <2>1, InsertOpens
  <1>3. ASSUME NEW r \in Reqs, DebitCommit(r) PROVE Book!BookNext
    <2>1. CASE ~Exists(txs[r].read)
      BY <1>3, <2>1, FirstDebit, InsertOpens
    <2>2. CASE Exists(txs[r].read)
      <3> DEFINE t == txs[r]
      <3>1. t.op = "debit" /\ InFlight(r) /\ Same(r)
        BY <1>3 DEF DebitCommit, InFlight, Same, Unmoved
      <3>2. t.month \in Months /\ t.amount \in Amounts
        BY <1>1, <3>1, TxFields
      <3>3. /\ t.read.used \in seen[t.month]
            /\ t.read.used + t.amount <= ledger[t.month].total
            /\ ledger[t.month].id # 0
        BY <2>2, <3>1 DEF IInv, ReadsHold, DebitFits, Exists, Same
      <3>4. Book!Charge(t.month, t.amount, t.read.used)
        BY <1>3, <2>2, <3>3 DEF DebitCommit, Book!Charge
      <3> QED
        BY <3>2, <3>3, <3>4 DEF Book!BookNext
    <2> QED
      BY <2>1, <2>2
  <1>4. ASSUME NEW r \in Reqs, NEW tx, Begin(r, tx) PROVE UNCHANGED ledger
    BY <1>4 DEF Begin
  <1>5. ASSUME NEW r \in Reqs, NEW p \in Plans,
               GetOrCreateLedger(r) \/ DebitExempt(r, p) \/ ResetPeriod(r, p)
        PROVE  UNCHANGED <<ledger, seen>>
    BY <1>4, <1>5 DEF GetOrCreateLedger, DebitExempt, ResetPeriod, history
  <1>6. ASSUME NEW r \in Reqs, NEW amount \in Amounts, NEW p \in Plans,
               DebitCredits(r, amount, p)
        PROVE  UNCHANGED <<ledger, seen>>
    BY <1>4, <1>6 DEF DebitCredits
  <1>7. ASSUME NEW r \in Reqs, Rollback(r) PROVE UNCHANGED <<ledger, seen>>
    BY <1>7 DEF Rollback, history
  <1>8. ASSUME NEW p \in Plans, SetPlan(p) PROVE UNCHANGED <<ledger, seen>>
    BY <1>8 DEF SetPlan, history
  <1>9. CASE NextMonth
    BY <1>9 DEF NextMonth, history
  <1>10. CASE UNCHANGED creditVars
    BY <1>10 DEF creditVars
  <1> QED
    BY <1>2, <1>3, <1>5, <1>6, <1>7, <1>8, <1>9, <1>10 DEF CreditsNext, RequestStep

\* The ledger implements CreditBook: every commit opens one row, or charges the
\* row that was read within its allowance, on top of a number that it has held
\* (services/credits.py).
THEOREM LedgerImplementsBook == CreditsSpec => ImplementsBook
  <1>1. CreditsInit => Book!BookInit
    BY DEF CreditsInit, Book!BookInit, NoRow, Book!NoRow
  <1> QED
    BY <1>1, InitEstablishes, StepPreserves, StepImplements, PTL
       DEF CreditsSpec, ImplementsBook, Book!BookSpec
=============================================================================
