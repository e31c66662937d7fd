---------------------------- MODULE DeviceLogin ----------------------------
(***************************************************************************)
(* Signing in a CLI with a device code (app/services/device_code.py,       *)
(* app/routers/auth.py) and signing out (app/middleware/auth.py).          *)
(*                                                                         *)
(* The CLI creates a code for its device_id and polls; the user submits    *)
(* the code on the web.  The code lives in a row of device_codes, and the  *)
(* approval also in Redis under device_token:<device_id>, written after    *)
(* the row is flushed (and so locked) and before the request commits.  A   *)
(* confirmation is split at those points; creating and polling are single  *)
(* transactions.  Redis may fail on any write.                             *)
(*                                                                         *)
(* confirm_code and web_confirm_code differ only in how the user is found. *)
(* Codes are drawn at random; here every code is new.                      *)
(***************************************************************************)
EXTENDS Integers, FiniteSets

CONSTANTS
    Devices, Users, Slots, None,
    TTL,       \* DEVICE_CODE_TTL_SECONDS
    Life,      \* lifetime of a token, jwt_expire_days
    MaxTime,   \* bound on the clock
    MaxCodes   \* bound on the codes ever created

ASSUME ConstantsAssumption ==
    /\ None \notin Nat /\ None \notin Users
    /\ TTL \in Nat /\ Life \in Nat /\ MaxTime \in Nat /\ MaxCodes \in Nat

VARIABLES
    now,
    codes,      \* number of codes created so far: the next code
    row,        \* the device_codes row of each device
    cache,      \* device_token:<device_id> in Redis
    tx,         \* the confirmation each request slot is processing
    answer,     \* what the last poll of each device returned
    submitted,  \* every code submitted that passed the checks
    revoked     \* revoked_token:<fingerprint> in Redis, with its time to live

vars == <<now, codes, row, cache, tx, answer, submitted, revoked>>

Time == 0..MaxTime
Code == 1..MaxCodes
Row == [code : Code, status : {"pending", "approved", "expired"},
        expires : Nat, user : Users \cup {None}]
NoRow == [code |-> 0, status |-> "absent", expires |-> 0, user |-> None]

\* A JWT: two tokens of one user issued in the same instant are the same.
Token == [user : Users, iat : Time]

\* A cached approval; the code it is for is not in the payload.
Entry == [token : Token, code : Code, until : Nat]
NoEntry == [token |-> None, code |-> 0, until |-> 0]

Confirmation == [device : Devices, code : Code, user : Users, flushed : BOOLEAN]
NoTx == [device |-> None, code |-> 0, user |-> None, flushed |-> FALSE]

Answer == [status : {"none", "pending", "expired", "approved"},
           token : Token \cup {None}, code : 0..MaxCodes]
NoAnswer == [status |-> "none", token |-> None, code |-> 0]

TypeOK ==
    /\ now \in Time /\ codes \in 0..MaxCodes
    /\ row \in [Devices -> Row \cup {NoRow}]
    /\ cache \in [Devices -> Entry \cup {NoEntry}]
    /\ tx \in [Slots -> Confirmation \cup {NoTx}]
    /\ answer \in [Devices -> Answer]
    /\ submitted \subseteq [device : Devices, code : Code, user : Users, at : Time]
    /\ \A t \in revoked : t.token \in Token /\ t.until \in Nat

Init ==
    /\ now = 0 /\ codes = 0
    /\ row = [d \in Devices |-> NoRow]
    /\ cache = [d \in Devices |-> NoEntry]
    /\ tx = [w \in Slots |-> NoTx]
    /\ answer = [d \in Devices |-> NoAnswer]
    /\ submitted = {}
    /\ revoked = {}

Tick ==
    /\ now < MaxTime
    /\ now' = now + 1
    /\ UNCHANGED <<codes, row, cache, tx, answer, submitted, revoked>>

-----------------------------------------------------------------------------
(* POST /auth/devices.                                                     *)

Locked(d) == \E w \in Slots : tx[w].device = d /\ tx[w].flushed

\* The old row of the device is deleted - waiting for a confirmation that has
\* locked it - and a new one inserted.  A cached approval stays where it is.
CreateDeviceCode(d) ==
    /\ codes < MaxCodes
    /\ ~Locked(d)
    /\ codes' = codes + 1
    /\ row' = [row EXCEPT ![d] = [code |-> codes + 1, status |-> "pending",
                                  expires |-> now + TTL, user |-> None]]
    /\ answer' = [answer EXCEPT ![d] = NoAnswer]
    /\ UNCHANGED <<now, cache, tx, submitted, revoked>>

-----------------------------------------------------------------------------
(* POST /auth/devices/{device_id}/confirm and .../web-confirm.             *)

\* Faulty: any code of the device will do.
MayConfirm_AnyCode(d, c) == row[d].status = "pending" /\ now <= row[d].expires

MayConfirm(d, c) ==
    row[d].status = "pending" /\ now <= row[d].expires /\ row[d].code = c

\* A code that does not pass raises; the request rolls back (the status
\* "expired" it may have flushed too) and changes nothing.
ConfirmBegin(w, d, c, u) ==
    /\ tx[w] = NoTx
    /\ c <= codes
    /\ MayConfirm(d, c)
    /\ tx' = [tx EXCEPT ![w] = [device |-> d, code |-> row[d].code, user |-> u,
                                flushed |-> FALSE]]
    /\ submitted' = submitted \cup {[device |-> d, code |-> c, user |-> u, at |-> now]}
    /\ UNCHANGED <<now, codes, row, cache, answer, revoked>>

\* The flush of status "approved" locks the row, whatever its status is by
\* now; then the approval is cached, if Redis answers.
ConfirmFlush(w) ==
    /\ tx[w] # NoTx /\ ~tx[w].flushed
    /\ LET d == tx[w].device IN
         /\ ~Locked(d)
         /\ row[d].code = tx[w].code
         /\ tx' = [tx EXCEPT ![w].flushed = TRUE]
         /\ \/ cache' = [cache EXCEPT ![d] =
                  [token |-> [user |-> tx[w].user, iat |-> now],
                   code |-> tx[w].code, until |-> now + TTL]]
            \/ cache' = cache
    /\ UNCHANGED <<now, codes, row, answer, submitted, revoked>>

ConfirmCommit(w) ==
    /\ tx[w].flushed
    /\ row' = [row EXCEPT ![tx[w].device].status = "approved",
                          ![tx[w].device].user = tx[w].user]
    /\ tx' = [tx EXCEPT ![w] = NoTx]
    /\ UNCHANGED <<now, codes, cache, answer, submitted, revoked>>

\* The row was replaced meanwhile, or the request fails: the database rolls
\* back, Redis does not.
ConfirmAbort(w) ==
    /\ tx[w] # NoTx
    /\ tx' = [tx EXCEPT ![w] = NoTx]
    /\ UNCHANGED <<now, codes, row, cache, answer, submitted, revoked>>

-----------------------------------------------------------------------------
(* GET /auth/devices/{device_id}/token.                                    *)

Cached(d) == cache[d] # NoEntry /\ now <= cache[d].until

Reply(d, status, token, code) ==
    answer' = [answer EXCEPT ![d] = [status |-> status, token |-> token, code |-> code]]

PollCached(d) ==
    /\ Cached(d)
    /\ Reply(d, "approved", cache[d].token, cache[d].code)
    /\ UNCHANGED row

\* Without a cached approval, or if Redis does not answer, the row decides.

\* Faulty: passes on what the row says.
PollExpired_RawStatus(d) ==
    /\ row[d].status \in {"absent", "expired"}
    /\ Reply(d, row[d].status, None, row[d].code)
    /\ UNCHANGED row

PollExpired(d) ==
    /\ row[d].status \in {"absent", "expired"}
    /\ Reply(d, "expired", None, row[d].code)
    /\ UNCHANGED row

\* Also of an approved row whose deadline has passed.  Waits for its lock.
PollDeadline(d) ==
    /\ row[d].status \in {"pending", "approved"} /\ now > row[d].expires
    /\ ~Locked(d)
    /\ row' = [row EXCEPT ![d].status = "expired"]
    /\ Reply(d, "expired", None, row[d].code)

PollApproved(d) ==
    /\ row[d].status = "approved" /\ now <= row[d].expires
    /\ Reply(d, "approved", [user |-> row[d].user, iat |-> now], row[d].code)
    /\ UNCHANGED row

PollPending(d) ==
    /\ row[d].status = "pending" /\ now <= row[d].expires
    /\ Reply(d, "pending", None, row[d].code)
    /\ UNCHANGED row

PollStatus(d) ==
    /\ \/ PollCached(d)
       \/ PollExpired(d)
       \/ PollDeadline(d)
       \/ PollApproved(d)
       \/ PollPending(d)
    /\ UNCHANGED <<now, codes, cache, tx, submitted, revoked>>

-----------------------------------------------------------------------------
(* POST /auth/logout, and the check of every authenticated request.        *)

MinRevocation == 1  \* ttl_seconds is at least a minute

\* Faulty: the revocation is kept as long as a device code.
RevocationEnd_Short(t) == now + TTL

RevocationEnd(t) ==
    LET left == t.iat + Life - now IN
    now + (IF left > MinRevocation THEN left ELSE MinRevocation)

Accepted(t) ==
    /\ now < t.iat + Life
    /\ ~\E r \in revoked : r.token = t /\ now < r.until

Logout(d) ==
    /\ answer[d].status = "approved"
    /\ LET t == answer[d].token IN
         /\ now < t.iat + Life
         /\ revoked' = revoked \cup {[token |-> t, until |-> RevocationEnd(t)]}
    /\ UNCHANGED <<now, codes, row, cache, tx, answer, submitted>>

Next ==
    \/ Tick
    \/ \E d \in Devices : CreateDeviceCode(d) \/ PollStatus(d) \/ Logout(d)
    \/ \E w \in Slots :
          \/ \E d \in Devices, c \in Code, u \in Users : ConfirmBegin(w, d, c, u)
          \/ ConfirmFlush(w)
          \/ ConfirmCommit(w)
          \/ ConfirmAbort(w)

Spec == Init /\ [][Next]_vars

-----------------------------------------------------------------------------

\* An approved answer names a user who submitted that very code, before its
\* deadline, on that device - through the cache or the database, with any
\* overlap of confirmations, rollbacks and new codes.
ApprovedWasSubmitted ==
    \A d \in Devices : answer[d].status = "approved" =>
        \E s \in submitted :
            /\ s.device = d
            /\ s.code = answer[d].code
            /\ s.user = answer[d].token.user
            /\ answer[d].code = row[d].code => s.at <= row[d].expires

\* Signing out is final while Redis answers: a token that was revoked is not
\* accepted again, up to its own expiry and beyond, although the revocation
\* itself expires and another login of the user may yield the same token
\* (revoke_token, is_token_revoked).
LoggedOutStaysOut == \A r \in revoked : ~Accepted(r.token)

=============================================================================
