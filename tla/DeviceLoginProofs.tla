------------------------- MODULE DeviceLoginProofs -------------------------
(***************************************************************************)
(* Proofs about DeviceLogin for every number of devices, users, requests   *)
(* and codes, and every lifetime.                                          *)
(*                                                                         *)
(* An answer is approved through the row or through the cache, and both    *)
(* are written by confirmations that checked the code earlier.  So all     *)
(* four - a confirmation in flight, the cache, the row and the answer -    *)
(* trace back to a submission in time (IInv), whatever row the device has  *)
(* by then: codes are never drawn twice (CodesDrawn), and a flushed        *)
(* confirmation holds the row it has checked (LockHoldsRow).               *)
(***************************************************************************)
EXTENDS DeviceLogin, TLAPS

\* User u submitted code c on device d, before its deadline if it is the
\* present one.
Submitted(d, c, u) ==
    \E s \in submitted :
        /\ s.device = d /\ s.code = c /\ s.user = u
        /\ c = row[d].code => s.at <= row[d].expires

CodesDrawn ==
    /\ \A d \in Devices : row[d].code <= codes
    /\ \A s \in submitted : s.code <= codes
LockHoldsRow ==
    \A w \in Slots : tx[w].flushed => row[tx[w].device].code = tx[w].code
TxSubmitted ==
    \A w \in Slots : tx[w] # NoTx => Submitted(tx[w].device, tx[w].code, tx[w].user)
CacheSubmitted ==
    \A d \in Devices : cache[d] # NoEntry =>
        Submitted(d, cache[d].code, cache[d].token.user)
RowSubmitted ==
    \A d \in Devices : row[d].status = "approved" =>
        Submitted(d, row[d].code, row[d].user)
AnswerSubmitted ==
    \A d \in Devices : answer[d].status = "approved" =>
        /\ answer[d].token \in Token
        /\ Submitted(d, answer[d].code, answer[d].token.user)

\* A revocation outlives its token.
RevokedUntilExpiry == \A r \in revoked : r.until >= r.token.iat + Life

IInv ==
    /\ TypeOK
    /\ CodesDrawn /\ LockHoldsRow
    /\ TxSubmitted /\ CacheSubmitted /\ RowSubmitted /\ AnswerSubmitted
    /\ RevokedUntilExpiry

-----------------------------------------------------------------------------

LEMMA InitEstablishes == Init => IInv
  <1> SUFFICES ASSUME Init PROVE IInv
    OBVIOUS
  <1>1. NoAnswer \in Answer /\ NoAnswer.status # "approved"
    BY ConstantsAssumption DEF NoAnswer, Answer
  <1>2. TypeOK
    BY <1>1, ConstantsAssumption DEF Init, TypeOK, Time
  <1>3. CodesDrawn /\ LockHoldsRow /\ TxSubmitted /\ CacheSubmitted /\ RowSubmitted
    BY ConstantsAssumption
       DEF Init, CodesDrawn, LockHoldsRow, TxSubmitted, CacheSubmitted, RowSubmitted,
           NoRow, NoTx
  <1>4. AnswerSubmitted /\ RevokedUntilExpiry
    BY <1>1 DEF Init, AnswerSubmitted, RevokedUntilExpiry
  <1> QED
    BY <1>2, <1>3, <1>4 DEF IInv

\* A submission stays one while the row keeps its code and its deadline, or has
\* another code.
LEMMA SubmissionStays ==
  ASSUME NEW d \in Devices, NEW c, NEW u, Submitted(d, c, u),
         submitted \subseteq submitted',
         \/ row'[d].code = row[d].code /\ row'[d].expires = row[d].expires
         \/ row'[d].code # c
  PROVE  Submitted(d, c, u)'
  BY DEF Submitted

LEMMA RowFields ==
  ASSUME TypeOK, NEW d \in Devices
  PROVE  /\ row[d].code \in Nat
         /\ row[d].status # "absent" => row[d] \in Row
  BY ConstantsAssumption DEF TypeOK, Row, NoRow, Code

LEMMA TxFields ==
  ASSUME TypeOK, NEW w \in Slots
  PROVE  /\ tx[w] # NoTx => /\ tx[w] \in Confirmation
                            /\ tx[w].device \in Devices /\ tx[w].code \in Code
                            /\ tx[w].user \in Users
         /\ tx[w].flushed => tx[w] # NoTx
  <1>1. tx[w] \in Confirmation \/ tx[w] = NoTx
    BY DEF TypeOK
  <1> QED
    BY <1>1 DEF Confirmation, NoTx

\* The codes that are traced back to a submission have been drawn.
LEMMA SubmittedWasDrawn ==
  ASSUME TypeOK, CodesDrawn, NEW d, NEW c, NEW u, Submitted(d, c, u)
  PROVE  c <= codes
  BY DEF CodesDrawn, Submitted

\* Whatever keeps the rows' codes and deadlines keeps what is traced back.
LEMMA TracesStay ==
  ASSUME IInv, submitted \subseteq submitted',
         \A d \in Devices : row'[d].code = row[d].code /\ row'[d].expires = row[d].expires
  PROVE  /\ UNCHANGED tx => TxSubmitted'
         /\ UNCHANGED cache => CacheSubmitted'
         /\ UNCHANGED row => RowSubmitted'
         /\ UNCHANGED answer => AnswerSubmitted'
  <1> USE DEF IInv
  <1>1. ASSUME UNCHANGED tx PROVE TxSubmitted'
    BY <1>1, TxFields, SubmissionStays DEF TxSubmitted
  <1>2. ASSUME UNCHANGED cache PROVE CacheSubmitted'
    BY <1>2, SubmissionStays DEF CacheSubmitted
  <1>3. ASSUME UNCHANGED row PROVE RowSubmitted'
    BY <1>3, SubmissionStays DEF RowSubmitted
  <1>4. ASSUME UNCHANGED answer PROVE AnswerSubmitted'
    BY <1>4, SubmissionStays DEF AnswerSubmitted
  <1> QED
    BY <1>1, <1>2, <1>3, <1>4

LEMMA CreatePreserves ==
  ASSUME IInv, NEW d \in Devices, CreateDeviceCode(d)
  PROVE  IInv'
  <1> USE ConstantsAssumption DEF IInv
  <1> DEFINE new == [code |-> codes + 1, status |-> "pending", expires |-> now + TTL,
                     user |-> None]
  <1>1. /\ codes < MaxCodes /\ codes' = codes + 1
        /\ row' = [row EXCEPT ![d] = new]
        /\ answer' = [answer EXCEPT ![d] = NoAnswer]
        /\ UNCHANGED <<now, cache, tx, submitted, revoked>>
        /\ \A w \in Slots : tx[w].flushed => tx[w].device # d
    BY DEF CreateDeviceCode, Locked
  <1>2. new \in Row /\ new.code = codes + 1 /\ new.status # "approved"
    BY <1>1 DEF Row, Code, TypeOK, Time
  <1> HIDE DEF new
  <1>3. \A e \in Devices : row'[e] = IF e = d THEN new ELSE row[e]
    BY <1>1 DEF TypeOK
  <1>4. NoAnswer \in Answer /\ NoAnswer.status # "approved"
    BY DEF NoAnswer, Answer
  <1>5. TypeOK'
    BY <1>1, <1>2, <1>4 DEF TypeOK
  <1>6. CodesDrawn'
    <2>1. \A s \in submitted : s.code \in Nat
      BY DEF TypeOK, Code
    <2> QED
      BY <1>1, <1>2, <1>3, <2>1, RowFields DEF CodesDrawn, TypeOK
  <1>7. LockHoldsRow'
    BY <1>1, <1>3, TxFields DEF LockHoldsRow
  <1>8. ASSUME NEW e \in Devices, NEW c \in Nat, NEW u, Submitted(e, c, u)
        PROVE  Submitted(e, c, u)'
    <2>1. c # codes + 1
      BY <1>8, SubmittedWasDrawn DEF TypeOK
    <2> QED
      BY <1>1, <1>2, <1>3, <1>8, <2>1, SubmissionStays
  <1>9. TxSubmitted'
    BY <1>1, <1>8, TxFields DEF TxSubmitted, Code
  <1>10. CacheSubmitted'
    <2>1. \A e \in Devices : cache[e] # NoEntry => cache[e].code \in Nat
      BY DEF TypeOK, Entry, Code
    <2> QED
      BY <1>1, <1>8, <2>1 DEF CacheSubmitted
  <1>11. RowSubmitted'
    BY <1>2, <1>3, <1>8, RowFields DEF RowSubmitted
  <1>12. AnswerSubmitted'
    <2>1. \A e \in Devices : answer[e].code \in Nat
                             /\ answer'[e] = IF e = d THEN NoAnswer ELSE answer[e]
      BY <1>1 DEF TypeOK, Answer
    <2> QED
      BY <1>4, <1>8, <2>1 DEF AnswerSubmitted
  <1>13. RevokedUntilExpiry'
    BY <1>1 DEF RevokedUntilExpiry
  <1> QED
    BY <1>5, <1>6, <1>7, <1>9, <1>10, <1>11, <1>12, <1>13

LEMMA ConfirmBeginPreserves ==
  ASSUME IInv, NEW w \in Slots, NEW d \in Devices, NEW c \in Code, NEW u \in Users,
         ConfirmBegin(w, d, c, u)
  PROVE  IInv'
  <1> USE ConstantsAssumption DEF IInv
  <1> DEFINE s == [device |-> d, code |-> c, user |-> u, at |-> now]
             t == [device |-> d, code |-> c, user |-> u, flushed |-> FALSE]
  <1>1. /\ c <= codes /\ now <= row[d].expires /\ row[d].code = c
        /\ tx' = [tx EXCEPT ![w] = t]
        /\ submitted' = submitted \cup {s}
        /\ UNCHANGED <<now, codes, row, cache, answer, revoked>>
    BY DEF ConfirmBegin, MayConfirm
  <1>2. \A v \in Slots : tx'[v] = IF v = w THEN t ELSE tx[v]
    BY <1>1 DEF TypeOK
  <1>3. TypeOK'
    BY <1>1 DEF TypeOK, Confirmation
  <1>4. CodesDrawn'
    BY <1>1 DEF CodesDrawn
  <1>5. LockHoldsRow'
    BY <1>1, <1>2 DEF LockHoldsRow
  <1>6. Submitted(d, c, u)'
    <2>1. s \in submitted' /\ s.at <= row'[d].expires
      BY <1>1
    <2> QED
      BY <2>1 DEF Submitted
  <1>7. TxSubmitted'
    <2> SUFFICES ASSUME NEW v \in Slots, tx'[v] # NoTx
                 PROVE  Submitted(tx[v].device, tx[v].code, tx[v].user)'
      BY DEF TxSubmitted
    <2>1. CASE v = w
      BY <1>2, <1>6, <2>1
    <2>2. CASE v # w
      BY <1>1, <1>2, <2>2, TxFields, SubmissionStays DEF TxSubmitted
    <2> QED
      BY <2>1, <2>2
  <1>8. CacheSubmitted' /\ RowSubmitted' /\ AnswerSubmitted'
    BY <1>1, TracesStay
  <1>9. RevokedUntilExpiry'
    BY <1>1 DEF RevokedUntilExpiry
  <1> QED
    BY <1>3, <1>4, <1>5, <1>7, <1>8, <1>9

LEMMA ConfirmFlushPreserves ==
  ASSUME IInv, NEW w \in Slots, ConfirmFlush(w)
  PROVE  IInv'
  <1> USE ConstantsAssumption DEF IInv
  <1> DEFINE d == tx[w].device
             e == [token |-> [user |-> tx[w].user, iat |-> now],
                   code |-> tx[w].code, until |-> now + TTL]
             t == [tx[w] EXCEPT !.flushed = TRUE]
  <1>1. /\ tx[w] # NoTx /\ row[d].code = tx[w].code
        /\ tx' = [tx EXCEPT ![w] = t]
        /\ cache' = [cache EXCEPT ![d] = e] \/ cache' = cache
        /\ UNCHANGED <<now, codes, row, answer, submitted, revoked>>
    BY DEF ConfirmFlush, TypeOK
  <1>2. /\ tx[w] \in Confirmation /\ d \in Devices /\ tx[w].code \in Code
        /\ tx[w].user \in Users
    BY <1>1, TxFields
  <1>3. /\ t \in Confirmation /\ t.device = d /\ t.code = tx[w].code
        /\ t.user = tx[w].user
    BY <1>2 DEF Confirmation
  <1>4. e \in Entry /\ e.code = tx[w].code /\ e.token.user = tx[w].user
    BY <1>2 DEF Entry, Token, TypeOK, Time
  <1> HIDE DEF e, t
  <1>5. /\ \A v \in Slots : tx'[v] = IF v = w THEN t ELSE tx[v]
        /\ \A b \in Devices : cache'[b] = cache[b] \/ (b = d /\ cache'[b] = e)
    BY <1>1, <1>2 DEF TypeOK
  <1>6. TypeOK'
    BY <1>1, <1>2, <1>3, <1>4 DEF TypeOK
  <1>7. CodesDrawn' /\ RowSubmitted' /\ AnswerSubmitted' /\ RevokedUntilExpiry'
    BY <1>1, TracesStay DEF CodesDrawn, RevokedUntilExpiry
  <1>8. LockHoldsRow'
    BY <1>1, <1>3, <1>5 DEF LockHoldsRow
  <1>9. Submitted(d, tx[w].code, tx[w].user)
    BY <1>1 DEF TxSubmitted
  <1>10. TxSubmitted'
    <2>1. \A v \in Slots : tx'[v] # NoTx =>
            Submitted(tx'[v].device, tx'[v].code, tx'[v].user)
      BY <1>3, <1>5, <1>9 DEF TxSubmitted
    <2> QED
      BY <1>1, <2>1 DEF TxSubmitted, Submitted
  <1>11. CacheSubmitted'
    <2>1. \A b \in Devices : cache'[b] # NoEntry =>
            Submitted(b, cache'[b].code, cache'[b].token.user)
      BY <1>4, <1>5, <1>9 DEF CacheSubmitted
    <2> QED
      BY <1>1, <2>1 DEF CacheSubmitted, Submitted
  <1> QED
    BY <1>6, <1>7, <1>8, <1>10, <1>11

LEMMA ConfirmCommitPreserves ==
  ASSUME IInv, NEW w \in Slots, ConfirmCommit(w)
  PROVE  IInv'
  <1> USE ConstantsAssumption DEF IInv
  <1> DEFINE d == tx[w].device
             new == [row[d] EXCEPT !.status = "approved", !.user = tx[w].user]
  <1>1. /\ tx[w].flushed
        /\ tx' = [tx EXCEPT ![w] = NoTx]
        /\ UNCHANGED <<now, codes, cache, answer, submitted, revoked>>
    BY DEF ConfirmCommit
  <1>2. /\ tx[w] # NoTx /\ d \in Devices /\ tx[w].code \in Code /\ tx[w].user \in Users
        /\ row[d].code = tx[w].code
    BY <1>1, TxFields DEF LockHoldsRow
  <1>3. row' = [row EXCEPT ![d] = new]
    BY <1>2 DEF ConfirmCommit, TypeOK
  <1>4. row[d] \in Row
    BY <1>2 DEF TypeOK, NoRow, Code
  <1>5. /\ new \in Row /\ new.code = row[d].code /\ new.expires = row[d].expires
        /\ new.user = tx[w].user
    BY <1>2, <1>4 DEF Row
  <1> HIDE DEF new
  <1>6. /\ \A e \in Devices : row'[e] = IF e = d THEN new ELSE row[e]
        /\ \A v \in Slots : tx'[v] = IF v = w THEN NoTx ELSE tx[v]
    BY <1>1, <1>3 DEF TypeOK
  <1>7. \A e \in Devices : row'[e].code = row[e].code /\ row'[e].expires = row[e].expires
    BY <1>5, <1>6
  <1>8. TypeOK'
    BY <1>1, <1>3, <1>5 DEF TypeOK
  <1>9. CodesDrawn' /\ RevokedUntilExpiry'
    BY <1>1, <1>7 DEF CodesDrawn, RevokedUntilExpiry
  <1>10. LockHoldsRow'
    <2>1. ~NoTx.flushed
      BY DEF NoTx
    <2> QED
      BY <1>6, <1>7, <2>1, TxFields DEF LockHoldsRow
  <1>11. CacheSubmitted' /\ AnswerSubmitted'
    BY <1>1, <1>7, TracesStay
  <1>12. TxSubmitted'
    BY <1>1, <1>6, <1>7, TxFields, SubmissionStays DEF TxSubmitted
  <1>13. RowSubmitted'
    <2> SUFFICES ASSUME NEW e \in Devices, row'[e].status = "approved"
                 PROVE  Submitted(e, row[e].code, row[e].user)'
      BY DEF RowSubmitted
    <2>1. Submitted(e, row'[e].code, row'[e].user)
      BY <1>2, <1>5, <1>6 DEF RowSubmitted, TxSubmitted
    <2> QED
      BY <1>1, <1>7, <2>1, SubmissionStays
  <1> QED
    BY <1>8, <1>9, <1>10, <1>11, <1>12, <1>13

\* Every reply of a poll: an approval it gives traces back to a submission.
LEMMA ReplyPreserves ==
  ASSUME IInv, NEW d \in Devices, NEW status \in {"pending", "expired", "approved"},
         NEW token \in Token \cup {None}, NEW code \in 0..MaxCodes,
         Reply(d, status, token, code),
         status = "approved" => token \in Token /\ Submitted(d, code, token.user),
         UNCHANGED <<now, codes, row, cache, tx, submitted, revoked>>
  PROVE  IInv'
  <1> USE DEF IInv
  <1> DEFINE new == [status |-> status, token |-> token, code |-> code]
  <1>1. new \in Answer /\ answer' = [answer EXCEPT ![d] = new]
    BY DEF Answer, Reply
  <1>2. new.status = status /\ new.token = token /\ new.code = code
    OBVIOUS
  <1> HIDE DEF new
  <1>3. TypeOK'
    BY <1>1 DEF TypeOK
  <1>4. CodesDrawn' /\ LockHoldsRow' /\ RevokedUntilExpiry'
    BY DEF CodesDrawn, LockHoldsRow, RevokedUntilExpiry
  <1>5. TxSubmitted' /\ CacheSubmitted' /\ RowSubmitted'
    BY TracesStay
  <1>6. AnswerSubmitted'
    <2>1. \A e \in Devices : answer'[e] = IF e = d THEN new ELSE answer[e]
      BY <1>1 DEF TypeOK
    <2> QED
      BY <1>2, <2>1 DEF AnswerSubmitted, Submitted
  <1> QED
    BY <1>3, <1>4, <1>5, <1>6

LEMMA PollPreserves ==
  ASSUME IInv, NEW d \in Devices, PollStatus(d)
  PROVE  IInv'
  <1> USE ConstantsAssumption DEF IInv
  <1>1. UNCHANGED <<now, codes, cache, tx, submitted, revoked>>
    BY DEF PollStatus
  <1>2. row[d].code \in 0..MaxCodes
    BY DEF TypeOK, Row, NoRow, Code
  <1>3. CASE PollCached(d)
    <2>1. /\ cache[d] # NoEntry /\ UNCHANGED row
          /\ Reply(d, "approved", cache[d].token, cache[d].code)
      BY <1>3 DEF PollCached, Cached
    <2>2. cache[d].token \in Token /\ cache[d].code \in 0..MaxCodes
      BY <2>1 DEF TypeOK, Entry, Code
    <2> QED
      BY <1>1, <2>1, <2>2, ReplyPreserves DEF CacheSubmitted
  <1>4. CASE PollExpired(d)
    BY <1>1, <1>2, <1>4, ReplyPreserves DEF PollExpired
  <1>5. CASE PollPending(d)
    BY <1>1, <1>2, <1>5, ReplyPreserves DEF PollPending
  <1>6. CASE PollApproved(d)
    <2> DEFINE token == [user |-> row[d].user, iat |-> now]
    <2>1. /\ row[d].status = "approved" /\ UNCHANGED row
          /\ Reply(d, "approved", token, row[d].code)
      BY <1>6 DEF PollApproved
    <2>2. Submitted(d, row[d].code, row[d].user)
      BY <2>1 DEF RowSubmitted
    <2>3. row[d].user \in Users
      BY <2>2 DEF Submitted, TypeOK
    <2>4. token \in Token /\ token.user = row[d].user
      BY <2>3 DEF Token, TypeOK
    <2> HIDE DEF token
    <2> QED
      BY <1>1, <1>2, <2>1, <2>2, <2>4, ReplyPreserves
  <1>7. CASE PollDeadline(d)
    <2> DEFINE new == [row[d] EXCEPT !.status = "expired"]
               reply == [status |-> "expired", token |-> None, code |-> row[d].code]
    <2>1. /\ row[d].status \in {"pending", "approved"}
          /\ row' = [row EXCEPT ![d] = new]
          /\ answer' = [answer EXCEPT ![d] = reply]
      BY <1>7 DEF PollDeadline, Reply, TypeOK
    <2>2. row[d] \in Row
      BY <2>1, RowFields
    <2>3. /\ new \in Row /\ new.code = row[d].code /\ new.expires = row[d].expires
          /\ new.status # "approved"
      BY <2>2 DEF Row
    <2>4. reply \in Answer /\ reply.status # "approved"
      BY <1>2 DEF Answer
    <2> HIDE DEF new, reply
    <2>5. /\ \A e \in Devices : row'[e] = IF e = d THEN new ELSE row[e]
          /\ \A e \in Devices : answer'[e] = IF e = d THEN reply ELSE answer[e]
      BY <2>1 DEF TypeOK
    <2>6. \A e \in Devices : row'[e].code = row[e].code /\ row'[e].expires = row[e].expires
      BY <2>3, <2>5
    <2>7. TypeOK'
      BY <1>1, <2>1, <2>3, <2>4 DEF TypeOK
    <2>8. CodesDrawn' /\ RevokedUntilExpiry'
      BY <1>1, <2>6 DEF CodesDrawn, RevokedUntilExpiry
    <2>9. LockHoldsRow'
      BY <1>1, <2>6, TxFields DEF LockHoldsRow
    <2>10. TxSubmitted' /\ CacheSubmitted'
      BY <1>1, <2>6, TracesStay
    <2>11. RowSubmitted'
      BY <1>1, <2>3, <2>5, <2>6, SubmissionStays DEF RowSubmitted
    <2>12. AnswerSubmitted'
      BY <1>1, <2>4, <2>5, <2>6, SubmissionStays DEF AnswerSubmitted
    <2> QED
      BY <2>7, <2>8, <2>9, <2>10, <2>11, <2>12
  <1> QED
    BY <1>3, <1>4, <1>5, <1>6, <1>7 DEF PollStatus

\* A revocation lasts as long as its token, and a minute at least.
LEMMA LogoutPreserves ==
  ASSUME IInv, NEW d \in Devices, Logout(d)
  PROVE  IInv'
  <1> USE ConstantsAssumption DEF IInv
  <1> DEFINE t == answer[d].token
  <1>1. /\ answer[d].status = "approved" /\ now < t.iat + Life
        /\ revoked' = revoked \cup {[token |-> t, until |-> RevocationEnd(t)]}
        /\ UNCHANGED <<now, codes, row, cache, tx, answer, submitted>>
    BY DEF Logout
  <1>2. t \in Token /\ t.iat \in Nat /\ now \in Nat
    BY <1>1 DEF AnswerSubmitted, Token, Time, TypeOK
  <1>3. RevocationEnd(t) \in Nat /\ RevocationEnd(t) >= t.iat + Life
    BY <1>1, <1>2 DEF RevocationEnd, MinRevocation
  <1>4. TypeOK'
    BY <1>1, <1>2, <1>3 DEF TypeOK
  <1>5. CodesDrawn' /\ LockHoldsRow'
    BY <1>1 DEF CodesDrawn, LockHoldsRow
  <1>6. TxSubmitted' /\ CacheSubmitted' /\ RowSubmitted' /\ AnswerSubmitted'
    BY <1>1, TracesStay
  <1>7. RevokedUntilExpiry'
    BY <1>1, <1>3 DEF RevokedUntilExpiry
  <1> QED
    BY <1>4, <1>5, <1>6, <1>7

LEMMA StepPreserves == IInv /\ [Next]_vars => IInv'
  <1> SUFFICES ASSUME IInv, [Next]_vars PROVE IInv'
    OBVIOUS
  <1> USE ConstantsAssumption DEF IInv
  <1>1. ASSUME UNCHANGED <<codes, row, cache, tx, answer, submitted, revoked>>,
               now' \in Time
        PROVE  IInv'
    <2>1. TypeOK' /\ CodesDrawn' /\ LockHoldsRow' /\ RevokedUntilExpiry'
      BY <1>1 DEF TypeOK, CodesDrawn, LockHoldsRow, RevokedUntilExpiry
    <2>2. TxSubmitted' /\ CacheSubmitted' /\ RowSubmitted' /\ AnswerSubmitted'
      BY <1>1, TracesStay
    <2> QED
      BY <2>1, <2>2
  <1>2. CASE Tick
    BY <1>1, <1>2 DEF Tick, TypeOK, Time
  <1>3. ASSUME NEW w \in Slots, ConfirmAbort(w) PROVE IInv'
    <2>1. /\ \A v \in Slots : tx'[v] = IF v = w THEN NoTx ELSE tx[v]
          /\ UNCHANGED <<now, codes, row, cache, answer, submitted, revoked>>
      BY <1>3 DEF ConfirmAbort, TypeOK
    <2>2. ~NoTx.flushed
      BY DEF NoTx
    <2>3. TypeOK'
      BY <1>3 DEF ConfirmAbort, TypeOK
    <2>4. CodesDrawn' /\ LockHoldsRow' /\ RevokedUntilExpiry'
      BY <2>1, <2>2 DEF CodesDrawn, LockHoldsRow, RevokedUntilExpiry
    <2>5. CacheSubmitted' /\ RowSubmitted' /\ AnswerSubmitted'
      BY <2>1, TracesStay
    <2>6. TxSubmitted'
      BY <2>1, TxFields, SubmissionStays DEF TxSubmitted
    <2> QED
      BY <2>3, <2>4, <2>5, <2>6
  <1>4. CASE UNCHANGED vars
    BY <1>1, <1>4 DEF vars, TypeOK
  <1> QED
    BY <1>2, <1>3, <1>4, CreatePreserves, PollPreserves, LogoutPreserves,
       ConfirmBeginPreserves, ConfirmFlushPreserves, ConfirmCommitPreserves
       DEF Next

LEMMA InvariantHolds == Spec => []IInv
  BY InitEstablishes, StepPreserves, PTL DEF Spec

\* Rows, cached approvals, confirmations and answers keep their types, whatever
\* overlaps, fails or rolls back (services/device_code.py).
THEOREM TypeCorrect == Spec => []TypeOK
  <1>1. IInv => TypeOK
    BY DEF IInv
  <1> QED
    BY <1>1, InvariantHolds, PTL

\* Nobody is answered "approved" who has not submitted that very code on that
\* device before its deadline, through the cache or the row, with any number of
\* devices, confirmations in flight and new codes (confirm_code, poll_status).
THEOREM ApprovedWasSubmittedInvariant == Spec => []ApprovedWasSubmitted
  <1>1. IInv => ApprovedWasSubmitted
    <2> SUFFICES ASSUME IInv, NEW d \in Devices, answer[d].status = "approved"
                 PROVE  Submitted(d, answer[d].code, answer[d].token.user)
      BY DEF ApprovedWasSubmitted, Submitted
    <2> QED
      BY DEF IInv, AnswerSubmitted
  <1> QED
    BY <1>1, InvariantHolds, PTL

\* A token that was revoked is never accepted again, for every lifetime of
\* tokens and codes (revoke_token, is_token_revoked).
THEOREM LoggedOutStaysOutInvariant == Spec => []LoggedOutStaysOut
  <1>1. IInv => LoggedOutStaysOut
    <2> SUFFICES ASSUME IInv, NEW r \in revoked, Accepted(r.token) PROVE FALSE
      BY DEF LoggedOutStaysOut
    <2>1. /\ r.until >= r.token.iat + Life /\ r.until \in Nat
          /\ r.token.iat \in Nat /\ now \in Nat
      BY ConstantsAssumption DEF IInv, RevokedUntilExpiry, TypeOK, Token, Time
    <2>2. now < r.token.iat + Life /\ ~(now < r.until)
      BY DEF Accepted
    <2> QED
      BY <2>1, <2>2, ConstantsAssumption
  <1> QED
    BY <1>1, InvariantHolds, PTL
=============================================================================
