------------------------------ MODULE Accounts ------------------------------
(***************************************************************************)
(* The trial of a user (app/services/trial_abuse.py): rows of users and    *)
(* machine_ids, the sign-ins and the Supabase webhook that create them,    *)
(* the nightly increment, account deletion and the resets of an            *)
(* administrator.                                                          *)
(*                                                                         *)
(* A row is known by its supabase_id, which is unique; rows are never      *)
(* removed.  A transaction reads when it begins and writes when it         *)
(* commits; in between, others commit.  The SELECTs of a sign-in are one   *)
(* step: a later SELECT could only see more days, or the lower count of a  *)
(* reset.  A vector is a login, an e-mail address or a machine.            *)
(***************************************************************************)
EXTENDS Integers, FiniteSets, FiniteSetsExt

CONSTANTS
    Ids,                     \* supabase ids
    Logins, Emails, Machines, None,
    Profiles,                \* what a sign-in may say of its user
    Reqs,                    \* slots for transactions in flight
    TrialDays,               \* TRIAL_DAYS
    Development,             \* settings.is_development
    MaxNights, MaxRows, MaxOverrides, MaxBegun    \* bounds

Vectors == Logins \cup Emails \cup Machines
Profile == [login : Logins \cup {None}, email : Emails \cup {None},
            machine : Machines \cup {None}]

ASSUME AccountsAssumption ==
    /\ TrialDays \in Nat \ {0}
    /\ MaxNights \in Nat /\ MaxRows \in Nat /\ MaxOverrides \in Nat /\ MaxBegun \in Nat
    /\ Profiles \subseteq Profile
    /\ Development \in BOOLEAN
    /\ None \notin Vectors
    \* each kind of vector has a column of its own
    /\ Logins \cap Emails = {} /\ Logins \cap Machines = {} /\ Emails \cap Machines = {}

VARIABLES
    users,    \* the rows of users, by supabase_id
    links,    \* the rows of machine_ids
    rows,     \* the rows a user owns in sessions, messages, usage ...
    txs,      \* transactions in flight
    job,      \* what the nightly job has read
    night,    \* how many nights have been committed
    served,   \* the nights in which an account of a vector used a trial day
    lag,      \* how many nights a sign-in may have missed, per vector
    excused,  \* vectors whose trial something else than a sign-in has changed
    hooked,   \* vectors that the Supabase webhook gave to a new row
    erased,   \* the accounts that were deleted
    unaware,  \* of these rows, those whose request cannot know of the deletion
    overrides, \* how many overrides there have been
    begun     \* and transactions

trialVars == <<job, night, served, lag, excused, hooked, overrides>>
accountVars == <<users, links, rows, txs, job, night, served, lag, excused, hooked, overrides, erased, unaware, begun>>

User == [login : Logins \cup {None}, email : Emails \cup {None},
         plan : {"free", "paid"}, days : 0..TrialDays, deleted : BOOLEAN]
NoUser == [login |-> None, email |-> None, plan |-> "absent", days |-> 0,
           deleted |-> FALSE]

SignIn == [op : {"signin"}, id : Ids, profile : Profile, new : BOOLEAN,
           carried : 0..TrialDays, link : BOOLEAN, night : Nat]
Hook == [op : {"hook"}, id : Ids, profile : Profile, new : BOOLEAN]
Deletion == [op : {"delete"}, id : Ids, doomed : SUBSET (1..MaxRows)]
Work == [op : {"work"}, id : Ids, unaware : BOOLEAN]
NoTx == [op |-> "none", id |-> None]

NotRead == -1
NoNight == [running |-> FALSE, days |-> [i \in Ids |-> NotRead]]

AccountsTypeOK ==
    /\ users \in [Ids -> User \cup {NoUser}]
    /\ links \subseteq Ids \X Machines
    /\ rows \in [Ids -> SUBSET (1..MaxRows)]
    /\ txs \in [Reqs -> SignIn \cup Hook \cup Deletion \cup Work \cup {NoTx}]
    /\ job \in [running : BOOLEAN, days : [Ids -> (0..TrialDays - 1) \cup {NotRead}]]
    /\ night \in Nat
    /\ served \in [Vectors -> Nat] /\ lag \in [Vectors -> Nat]
    /\ excused \subseteq Vectors /\ hooked \subseteq Vectors
    /\ erased \subseteq Ids /\ unaware \in [Ids -> SUBSET (1..MaxRows)]
    /\ overrides \in 0..MaxOverrides /\ begun \in 0..MaxBegun

AccountsInit ==
    /\ users = [i \in Ids |-> NoUser]
    /\ links = {}
    /\ rows = [i \in Ids |-> {}]
    /\ txs = [r \in Reqs |-> NoTx]
    /\ job = NoNight
    /\ night = 0
    /\ served = [v \in Vectors |-> 0] /\ lag = [v \in Vectors |-> 0]
    /\ excused = {} /\ hooked = {}
    /\ erased = {} /\ unaware = [i \in Ids |-> {}]
    /\ overrides = 0 /\ begun = 0

Exists(i) == users[i] # NoUser
Live(i) == Exists(i) /\ ~users[i].deleted
Has(i, v) == users[i].login = v \/ users[i].email = v \/ <<i, v>> \in links
VectorsOf(i) == {v \in Vectors : Has(i, v)}
Shared(i) == {v \in VectorsOf(i) : \E j \in Ids \ {i} : Has(j, v)}

RemainingTrialDays(u) == IF u.plan = "paid" THEN 0 ELSE TrialDays - u.days
CanDeleteAccount(u) == u.plan = "paid" \/ RemainingTrialDays(u) > 0

\* The history of the trial: a night for the vectors of counted, missed nights
\* for those of created; excused vectors are not followed any more.
Track(counted, created, missed, changed) ==
    LET followed == Vectors \ (excused \cup changed)
    IN  /\ excused' = excused \cup changed
        /\ served' = [v \in Vectors |->
               IF v \notin followed THEN 0
               ELSE IF v \in counted THEN served[v] + 1 ELSE served[v]]
        /\ lag' = [v \in Vectors |->
               IF v \notin followed THEN 0
               ELSE IF v \in created THEN lag[v] + missed ELSE lag[v]]

-----------------------------------------------------------------------------
(* Signing in *)

Begin(r, tx) ==
    /\ txs[r] = NoTx /\ txs' = [txs EXCEPT ![r] = tx]
    /\ begun < MaxBegun /\ begun' = begun + 1
End(r) == txs' = [txs EXCEPT ![r] = NoTx] /\ UNCHANGED begun

Matches(i, p) ==
    \/ p.login # None /\ users[i].login = p.login
    \/ p.email # None /\ users[i].email = p.email
    \/ p.machine # None /\ <<i, p.machine>> \in links

\* Faulty: deleted accounts are not counted.
Carried_LiveOnly(p) == Max({0} \cup {users[i].days : i \in {j \in Ids : Matches(j, p) /\ Live(j)}})

\* The days used by any account that the sign-in shares a vector with.
Carried(p) == Max({0} \cup {users[i].days : i \in {j \in Ids : Matches(j, p)}})

GetOrCreateUser(r, i, p) ==
    /\ Begin(r, [op |-> "signin", id |-> i, profile |-> p, new |-> ~Exists(i),
                 carried |-> IF Exists(i) THEN 0 ELSE Carried(p),
                 link |-> p.machine # None /\ <<i, p.machine>> \notin links,
                 night |-> night])
    /\ UNCHANGED <<users, links, rows, trialVars, erased, unaware>>

NewUser(p, days) ==
    [login |-> p.login, email |-> p.email, plan |-> "free", days |-> days,
     deleted |-> FALSE]

\* The mutable fields, each only when the sign-in brings a value.
Updated(u, p) ==
    [u EXCEPT !.login = IF p.login = None THEN @ ELSE p.login,
              !.email = IF p.email = None THEN @ ELSE p.email]

Upserted(i, new, p, days) ==
    [users EXCEPT ![i] = IF new THEN NewUser(p, days) ELSE Updated(@, p)]

\* The nights a new account may lack: those that ended since its transaction
\* read, and one that is running.
Missed(t) == night - t.night + (IF job.running THEN 1 ELSE 0)

\* The vectors of row i after this step, and those it has gained or lost.
Gets(i) == {v \in Vectors : \/ users'[i].login = v \/ users'[i].email = v
                            \/ <<i, v>> \in links'}
Moved(i) == (Gets(i) \ VectorsOf(i)) \cup (VectorsOf(i) \ Gets(i))

SignInCommit(r) ==
    LET t == txs[r]
    IN  /\ t.op = "signin"
        /\ t.new => ~Exists(t.id)
        /\ t.link => <<t.id, t.profile.machine>> \notin links
        /\ users' = Upserted(t.id, t.new, t.profile, t.carried)
        /\ links' = IF t.link THEN links \cup {<<t.id, t.profile.machine>>} ELSE links
        /\ End(r)
        /\ Track({}, IF t.new THEN Gets(t.id) ELSE {}, Missed(t),
                 IF t.new THEN {} ELSE Moved(t.id))
        /\ UNCHANGED <<rows, job, night, hooked, overrides, erased, unaware>>

\* auth.users INSERT or UPDATE.
SupabaseWebhook(r, i, p) ==
    /\ Begin(r, [op |-> "hook", id |-> i, profile |-> [p EXCEPT !.machine = None],
                 new |-> ~Exists(i)])
    /\ UNCHANGED <<users, links, rows, trialVars, erased, unaware>>

HookCommit(r) ==
    LET t == txs[r]
    IN  /\ t.op = "hook"
        /\ t.new => ~Exists(t.id)
        /\ users' = Upserted(t.id, t.new, t.profile, 0)
        /\ UNCHANGED <<links, rows, job, night, overrides, erased, unaware>>
        /\ End(r)
        /\ hooked' = hooked \cup {v \in Moved(t.id) : t.new /\ \E j \in Ids : Has(j, v)}
        /\ Track({}, {}, 0, IF t.new THEN {} ELSE Moved(t.id))

\* A unique constraint, the database or the client ends the transaction.
Rollback(r) ==
    /\ txs[r] # NoTx
    /\ End(r)
    /\ UNCHANGED <<users, links, rows, trialVars, erased, unaware>>

-----------------------------------------------------------------------------
(* The nightly increment *)

\* Faulty: goes on after TRIAL_DAYS.
NightRead_Uncapped ==
    /\ ~job.running /\ night < MaxNights
    /\ job' = [running |-> TRUE,
               days |-> [i \in Ids |->
                   IF Live(i) /\ users[i].plan = "free"
                   THEN users[i].days ELSE NotRead]]
    /\ UNCHANGED <<users, links, rows, txs, night, served, lag, excused, hooked, overrides, erased, unaware, begun>>

NightRead ==
    /\ ~job.running /\ night < MaxNights
    /\ job' = [running |-> TRUE,
               days |-> [i \in Ids |->
                   IF Live(i) /\ users[i].plan = "free" /\ users[i].days < TrialDays
                   THEN users[i].days ELSE NotRead]]
    /\ UNCHANGED <<users, links, rows, txs, night, served, lag, excused, hooked, overrides, erased, unaware, begun>>

Counted == {i \in Ids : job.days[i] # NotRead}

Incremented(days) == IF days < TrialDays THEN days + 1 ELSE TrialDays

\* What was read, plus one, is written over what is there.
NightCommit ==
    /\ job.running
    /\ users' = [i \in Ids |-> IF i \in Counted
                               THEN [users[i] EXCEPT !.days = Incremented(job.days[i])]
                               ELSE users[i]]
    /\ Track(UNION {VectorsOf(i) : i \in Counted}, {}, 0, {})
    /\ night' = night + 1
    /\ job' = NoNight
    /\ UNCHANGED <<links, rows, txs, hooked, overrides, erased, unaware, begun>>

NightFails ==
    /\ job.running
    /\ job' = NoNight
    /\ UNCHANGED <<users, links, rows, txs, night, served, lag, excused, hooked, overrides, erased, unaware, begun>>

-----------------------------------------------------------------------------
(* Requests of the user *)

\* Faulty: does not ask whether the account is deleted.
WorkBegin_NotGated(r, i) ==
    /\ Exists(i)
    /\ Begin(r, [op |-> "work", id |-> i, unaware |-> FALSE])
    /\ UNCHANGED <<users, links, rows, trialVars, erased, unaware>>

\* A request that keeps something, a session, a message, usage ..., and asks.
WorkBegin(r, i) ==
    /\ Live(i)
    /\ Begin(r, [op |-> "work", id |-> i, unaware |-> FALSE])
    /\ UNCHANGED <<users, links, rows, trialVars, erased, unaware>>

\* What never asks: telemetry with the token of the account, a subscription that
\* Polar activates and the reminders of its end.
UngatedBegin(r, i) ==
    /\ Exists(i)
    /\ Begin(r, [op |-> "work", id |-> i, unaware |-> TRUE])
    /\ UNCHANGED <<users, links, rows, trialVars, erased, unaware>>

BeingDeleted(i) == \E q \in Reqs : txs[q].op = "delete" /\ txs[q].id = i

WorkCommit(r) ==
    LET i == txs[r].id
    IN  /\ txs[r].op = "work"
        /\ \E k \in (1..MaxRows) \ rows[i] :
              /\ rows' = [rows EXCEPT ![i] = @ \cup {k}]
              /\ unaware' = [unaware EXCEPT ![i] =
                    IF txs[r].unaware \/ BeingDeleted(i) THEN @ \cup {k} ELSE @]
        /\ End(r)
        /\ UNCHANGED <<users, links, trialVars, erased>>

\* The statements of the cascade run, and see the rows there are.
DeleteUser(r, i) ==
    /\ Live(i) /\ CanDeleteAccount(users[i])
    /\ Begin(r, [op |-> "delete", id |-> i, doomed |-> rows[i]])
    /\ UNCHANGED <<users, links, rows, trialVars, erased, unaware>>

\* Ends r; what else its account has under way overlapped the deletion.
EndDeletion(r) ==
    /\ txs' = [q \in Reqs |->
                  IF q = r THEN NoTx
                  ELSE IF txs[q].op = "work" /\ txs[q].id = txs[r].id
                  THEN [txs[q] EXCEPT !.unaware = TRUE] ELSE txs[q]]
    /\ UNCHANGED begun

\* A statement that fails aborts the transaction, and the account with it is
\* kept: that is Rollback.
DeleteCommit(r) ==
    LET t == txs[r]
    IN  /\ t.op = "delete"
        /\ users' = [users EXCEPT ![t.id].deleted = TRUE]
        /\ rows' = [rows EXCEPT ![t.id] = @ \ t.doomed]
        /\ unaware' = [unaware EXCEPT ![t.id] = @ \ t.doomed]
        /\ EndDeletion(r)
        /\ erased' = erased \cup {t.id}
        /\ UNCHANGED <<links, trialVars>>

-----------------------------------------------------------------------------
(* Overrides *)

Override(changed) ==
    /\ overrides < MaxOverrides /\ overrides' = overrides + 1
    /\ Track({}, {}, 0, changed)
    /\ UNCHANGED <<job, night, hooked>>

\* POST /admin/users/<id>/set-plan; payments change the plan likewise.
SetPlan(i, plan) ==
    /\ Exists(i) /\ users[i].plan # plan
    /\ users' = [users EXCEPT ![i].plan = plan]
    /\ Override(IF plan = "free" THEN Shared(i) ELSE {})
    /\ UNCHANGED <<links, rows, txs, erased, unaware, begun>>

ResetTrial(i) ==
    /\ Exists(i)
    /\ users' = [users EXCEPT ![i].days = 0]
    /\ Override(VectorsOf(i))
    /\ UNCHANGED <<links, rows, txs, erased, unaware, begun>>

\* POST /users/<id>/telemetry/reset, for development only.
ResetUserTelemetry(i, resetTrialDays) ==
    /\ Development /\ Live(i)
    /\ links' = {l \in links : l[1] # i}
    /\ users' = [users EXCEPT ![i].days = IF resetTrialDays THEN 0 ELSE @]
    /\ \E gone \in SUBSET rows[i] : /\ rows' = [rows EXCEPT ![i] = @ \ gone]
                                  /\ unaware' = [unaware EXCEPT ![i] = @ \ gone]
    /\ Override(VectorsOf(i))
    /\ UNCHANGED <<txs, erased, begun>>

RequestStep(r) ==
    \/ \E i \in Ids, p \in Profiles : GetOrCreateUser(r, i, p) \/ SupabaseWebhook(r, i, p)
    \/ SignInCommit(r) \/ HookCommit(r) \/ Rollback(r)
    \/ \E i \in Ids : WorkBegin(r, i) \/ UngatedBegin(r, i) \/ DeleteUser(r, i)
    \/ WorkCommit(r) \/ DeleteCommit(r)

AccountsNext ==
    \/ \E r \in Reqs : RequestStep(r)
    \/ NightRead \/ NightCommit \/ NightFails
    \/ \E i \in Ids :
          \/ \E plan \in {"free", "paid"} : SetPlan(i, plan)
          \/ ResetTrial(i)
          \/ \E reset \in BOOLEAN : ResetUserTelemetry(i, reset)

AccountsSpec == AccountsInit /\ [][AccountsNext]_accountVars

-----------------------------------------------------------------------------

\* One trial for all: whatever is deleted and signed up again, the accounts
\* that share a login, an e-mail address or a machine use, between them, no
\* more nights of trial than TRIAL_DAYS - but for the nights that a sign-in
\* overlapped - as long as sign-ins create them and nobody resets a trial or
\* moves an existing account to another vector (get_or_create_user_by_github).
TrialServedOnce ==
    \A v \in Vectors \ (excused \cup hooked) : served[v] <= TrialDays + lag[v]

\* The same, "to prevent trial resets via account deletion + re-signup", for
\* every account, whoever has created its row (trial_abuse.py:59-60).
NoTrialReset ==
    \A v \in Vectors \ excused : served[v] <= TrialDays + lag[v]

\* A deletion lasts: what a deleted account owns was written by requests that
\* were under way when it was deleted or that never ask whether it is - the
\* cascade spares nothing that was committed, no request that asks gets in
\* later, and signing in again does not revive the account (delete_user,
\* get_user_from_token, get_or_create_user_by_github).
ErasedStaysErased ==
    \A i \in erased : rows[i] \subseteq unaware[i]

=============================================================================
