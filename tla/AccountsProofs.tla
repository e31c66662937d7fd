--------------------------- MODULE AccountsProofs ---------------------------
(***************************************************************************)
(* Proofs about Accounts for every number of identities, vectors and       *)
(* transactions, every length of the trial and of the run.                 *)
(*                                                                         *)
(* That one trial serves all accounts of a vector rests on where its       *)
(* nights are recorded: in the row of some account that has the vector     *)
(* (SomeAccountCounts), in that of every account still on trial            *)
(* (TrialsCount), in what the nightly job has read (CountedTrials, and     *)
(* LeftOut for the accounts it does not count), and in what the sign-ins   *)
(* under way have read (SignInsCarry).  That a deletion lasts rests on     *)
(* what the requests in flight know of it (TxKnowsDeletion).               *)
(***************************************************************************)
EXTENDS Accounts, WellFoundedInduction, TLAPS

Followed == Vectors \ (excused \cup hooked)
OnTrial(i) == Live(i) /\ users[i].plan = "free"

\* What is linked, counted or in flight belongs to a row of users.
LinksOfUsers == \A i \in Ids, m \in Machines : <<i, m>> \in links => Exists(i)
JobOfUsers ==
    /\ \A i \in Counted : Exists(i)
    /\ ~job.running => job = NoNight
OfUsers(t) ==
    /\ t.op \in {"signin", "hook"} => t.new \/ Exists(t.id)
    /\ t.op \in {"delete", "work"} => Exists(t.id)
    /\ t.op = "signin" => t.night <= night /\ (t.link => t.profile.machine # None)
TxOfUsers == \A r \in Reqs : OfUsers(txs[r])

ErasedDeleted == \A i \in erased : users[i].deleted
KnowsDeletion(t) ==
    /\ t.op = "work" /\ t.id \in erased => t.unaware
    /\ t.op = "delete" => rows[t.id] \subseteq unaware[t.id] \cup t.doomed
TxKnowsDeletion == \A r \in Reqs : KnowsDeletion(txs[r])

SomeAccountCounts ==
    \A v \in Followed :
        \/ served[v] <= lag[v]
        \/ \E i \in Ids : Has(i, v) /\ served[v] <= users[i].days + lag[v]
TrialsCount ==
    \A v \in Followed, i \in Ids :
        OnTrial(i) /\ Has(i, v) => served[v] <= users[i].days + lag[v]
CountedTrials ==
    \A v \in Followed, i \in Counted :
        Has(i, v) => served[v] <= job.days[i] + lag[v]
LeftOut ==
    \A v \in Followed, i \in Ids \ Counted :
        job.running /\ OnTrial(i) /\ Has(i, v) =>
            \/ users[i].days >= TrialDays
            \/ served[v] < users[i].days + lag[v]
            \/ \A j \in Ids \ {i} : ~Has(j, v)
VectorsOfProfile(p) == {p.login, p.email, p.machine}
Carries(t) ==
    t.op = "signin" /\ t.new =>
        \A v \in Followed : v \in VectorsOfProfile(t.profile) =>
            served[v] <= t.carried + lag[v] + (night - t.night)
SignInsCarry == \A r \in Reqs : Carries(txs[r])

Structure == AccountsTypeOK /\ LinksOfUsers /\ JobOfUsers /\ TxOfUsers
Erasure == ErasedDeleted /\ TxKnowsDeletion /\ ErasedStaysErased
Trial ==
    SomeAccountCounts /\ TrialsCount /\ CountedTrials /\ LeftOut /\ SignInsCarry
IInv == Structure /\ Erasure /\ Trial

-----------------------------------------------------------------------------
(* The rows, the transactions and the operators of the model *)

\* Whether a row is there shows in its plan.
LEMMA UserFields ==
  ASSUME AccountsTypeOK, NEW i \in Ids
  PROVE  /\ Exists(i) <=> users[i] \in User
         /\ users[i].days \in 0..TrialDays
         /\ users[i].login \in Logins \cup {None} /\ users[i].email \in Emails \cup {None}
         /\ users[i].deleted \in BOOLEAN
         /\ ~Exists(i) => users[i] = NoUser
  <1>1. users[i] \in User \/ users[i] = NoUser
    BY DEF AccountsTypeOK
  <1>2. NoUser \notin User
    BY DEF NoUser, User
  <1>3. 0 \in 0..TrialDays
    BY AccountsAssumption
  <1>4. CASE users[i] \in User
    BY <1>2, <1>4 DEF Exists, User
  <1>5. CASE users[i] = NoUser
    BY <1>2, <1>3, <1>5 DEF Exists, NoUser
  <1> QED
    BY <1>1, <1>4, <1>5

LEMMA TxFields ==
  ASSUME AccountsTypeOK, NEW r \in Reqs
  PROVE  /\ txs[r].op \in {"signin", "hook", "delete", "work", "none"}
         /\ txs[r].op = "signin" => txs[r] \in SignIn
         /\ txs[r].op = "hook" => txs[r] \in Hook
         /\ txs[r].op = "delete" => txs[r] \in Deletion
         /\ txs[r].op = "work" => txs[r] \in Work
         /\ txs[r].op = "none" <=> txs[r] = NoTx
         /\ txs[r] # NoTx => txs[r].id \in Ids
  <1> DEFINE t == txs[r]
  <1>1. t \in SignIn \/ t \in Hook \/ t \in Deletion \/ t \in Work \/ t = NoTx
    BY DEF AccountsTypeOK
  <1> HIDE DEF t
  <1>2. CASE t \in SignIn
    BY <1>2 DEF SignIn, NoTx, t
  <1>3. CASE t \in Hook
    BY <1>3 DEF Hook, NoTx, t
  <1>4. CASE t \in Deletion
    BY <1>4 DEF Deletion, NoTx, t
  <1>5. CASE t \in Work
    BY <1>5 DEF Work, NoTx, t
  <1>6. CASE t = NoTx
    BY <1>6 DEF NoTx, t
  <1> QED
    BY <1>1, <1>2, <1>3, <1>4, <1>5, <1>6

LEMMA MaxIsGreatest ==
  ASSUME NEW n \in Nat, NEW S \in SUBSET (0..n), S # {}
  PROVE  Max(S) \in S /\ \A x \in S : x <= Max(S)
  <1> DEFINE T == {n - x : x \in S}
  <1>1. T \subseteq Nat /\ T # {}
    <2>1. \A x \in S : n - x \in Nat
      BY SMT
    <2> QED
      BY <2>1
  <1>2. PICK m \in T : \A k \in T : <<k, m>> \notin OpToRel(<, Nat)
    BY <1>1, NatLessThanWellFounded, WFMin
  <1>3. \A k \in T : ~(k < m)
    BY <1>1, <1>2 DEF OpToRel
  <1>4. PICK y \in S : m = n - y
    BY <1>2
  <1>5. \A x \in S : y >= x
    BY <1>3, <1>4
  <1> QED
    BY <1>4, <1>5 DEF Max

\* What a sign-in carries over is the days of some account or none, and at
\* least the days of every account that it matches.
LEMMA CarriedBounds ==
  ASSUME AccountsTypeOK, NEW p \in Profile
  PROVE  /\ Carried(p) \in 0..TrialDays
         /\ \A i \in Ids : Matches(i, p) => users[i].days <= Carried(p)
  <1> DEFINE S == {0} \cup {users[i].days : i \in {j \in Ids : Matches(j, p)}}
  <1>1. S \in SUBSET (0..TrialDays) /\ S # {} /\ TrialDays \in Nat
    BY UserFields, AccountsAssumption
  <1>2. Max(S) \in S /\ \A x \in S : x <= Max(S)
    BY <1>1, MaxIsGreatest
  <1>3. Carried(p) = Max(S)
    BY DEF Carried
  <1> QED
    BY <1>1, <1>2, <1>3

\* Track follows every vector that neither this step nor an earlier one excuses.
LEMMA TrackFollows ==
  ASSUME AccountsTypeOK, NEW counted, NEW created, NEW missed \in Nat,
         NEW changed \in SUBSET Vectors, Track(counted, created, missed, changed)
  PROVE  /\ served' \in [Vectors -> Nat] /\ lag' \in [Vectors -> Nat]
         /\ excused' \subseteq Vectors
         /\ \A v \in Vectors \ excused' :
               /\ v \notin excused /\ v \notin changed
               /\ served'[v] = served[v] + (IF v \in counted THEN 1 ELSE 0)
               /\ lag'[v] = lag[v] + (IF v \in created THEN missed ELSE 0)
  BY DEF Track, AccountsTypeOK

\* A row that is not there has no vector.
LEMMA HasExists ==
  ASSUME AccountsTypeOK, LinksOfUsers, NEW i \in Ids, NEW v \in Vectors, Has(i, v)
  PROVE  Exists(i)
  <1>1. v # None
    BY AccountsAssumption
  <1>2. CASE <<i, v>> \in links
    BY <1>2 DEF LinksOfUsers, AccountsTypeOK
  <1>3. CASE users[i].login = v \/ users[i].email = v
    BY <1>1, <1>3 DEF Exists, NoUser
  <1> QED
    BY <1>2, <1>3 DEF Has

-----------------------------------------------------------------------------
(* What most steps leave as it is *)

LEMMA InitEstablishes == AccountsInit => IInv
  <1> SUFFICES ASSUME AccountsInit PROVE IInv
    OBVIOUS
  <1> USE DEF AccountsInit
  <1>1. AccountsTypeOK
    BY AccountsAssumption DEF AccountsTypeOK, NoNight
  <1>2. Counted = {} /\ ~job.running /\ \A r \in Reqs : txs[r].op = "none"
    BY DEF Counted, NoNight, NoTx
  <1>3. Structure
    BY <1>1, <1>2 DEF Structure, LinksOfUsers, JobOfUsers, TxOfUsers, OfUsers
  <1>4. Erasure
    BY <1>2 DEF Erasure, ErasedDeleted, TxKnowsDeletion, KnowsDeletion, ErasedStaysErased
  <1>5. \A v \in Vectors : served[v] <= lag[v]
    OBVIOUS
  <1>6. SomeAccountCounts /\ CountedTrials /\ LeftOut /\ SignInsCarry
    BY <1>2, <1>5 DEF Followed, SomeAccountCounts, CountedTrials, LeftOut, SignInsCarry, Carries
  <1>7. TrialsCount
    BY DEF TrialsCount, OnTrial, Live, Exists
  <1> QED
    BY <1>3, <1>4, <1>6, <1>7 DEF IInv, Trial

\* Rows stay, and what refers to them is dropped or refers to the same.
LEMMA StructureStays ==
  ASSUME Structure, AccountsTypeOK',
         \A i \in Ids : Exists(i) => Exists(i)',
         \A i \in Ids, m \in Machines : <<i, m>> \in links' => <<i, m>> \in links \/ Exists(i)',
         job' \in {job, NoNight}, night' >= night,
         \A r \in Reqs :
            \/ txs'[r] \in {txs[r], NoTx}
            \/ txs[r].op = "work" /\ txs'[r].op = "work" /\ txs'[r].id = txs[r].id
  PROVE  Structure'
  <1>1. LinksOfUsers'
    BY DEF Structure, LinksOfUsers
  <1>2. JobOfUsers'
    <2>1. job' = job => Counted' = Counted
      BY DEF Counted
    <2>2. job' = NoNight => Counted' = {}
      BY DEF Counted, NoNight
    <2>3. \A i \in Counted : i \in Ids
      BY DEF Counted
    <2> QED
      BY <2>1, <2>2, <2>3 DEF Structure, JobOfUsers
  <1>3. ASSUME NEW r \in Reqs PROVE OfUsers(txs[r])'
    <2>1. OfUsers(txs[r]) /\ AccountsTypeOK
      BY DEF Structure, TxOfUsers
    <2>2. CASE txs'[r] = txs[r]
      <3>1. txs[r].op \in {"signin", "hook", "delete", "work"} => txs[r].id \in Ids
        BY <2>1, TxFields DEF NoTx
      <3>2. txs[r].op = "signin" => txs[r].night \in Nat
        BY <2>1, TxFields DEF SignIn
      <3> QED
        BY <2>1, <2>2, <3>1, <3>2 DEF OfUsers, AccountsTypeOK
    <2>3. CASE txs'[r] = NoTx
      BY <2>3 DEF OfUsers, NoTx
    <2>4. CASE txs[r].op = "work" /\ txs'[r].op = "work" /\ txs'[r].id = txs[r].id
      <3>1. txs[r].id \in Ids
        BY <2>1, <2>4, TxFields DEF NoTx
      <3> QED
        BY <2>1, <2>4, <3>1 DEF OfUsers
    <2> QED
      BY <2>2, <2>3, <2>4
  <1> QED
    BY <1>1, <1>2, <1>3 DEF Structure, TxOfUsers

LEMMA ErasureStays ==
  ASSUME Erasure, erased' = erased, rows' = rows, unaware' = unaware,
         \A i \in erased : users'[i].deleted,
         \A r \in Reqs : txs'[r] = txs[r] \/ txs'[r].op \notin {"work", "delete"}
  PROVE  Erasure'
  <1>1. ErasedDeleted' /\ ErasedStaysErased'
    BY DEF Erasure, ErasedDeleted, ErasedStaysErased
  <1>2. TxKnowsDeletion'
    BY DEF Erasure, TxKnowsDeletion, KnowsDeletion
  <1> QED
    BY <1>1, <1>2 DEF Erasure

\* No night passes, and for the vectors that are still followed nothing changes
\* but that accounts end their trial and sign-ins end.
LEMMA TrialStays ==
  ASSUME Trial, Followed' \subseteq Followed, job' = job, night' = night,
         \A v \in Followed' : served'[v] = served[v] /\ lag'[v] = lag[v],
         \A v \in Followed', i \in Ids :
            /\ Has(i, v)' <=> Has(i, v)
            /\ Has(i, v) => /\ users'[i].days = users[i].days
                            /\ OnTrial(i)' => OnTrial(i),
         \A r \in Reqs : txs'[r] = txs[r] \/ txs'[r].op # "signin" \/ ~txs'[r].new
  PROVE  Trial'
  <1> USE DEF Trial
  <1>0. Counted' = Counted /\ Counted \subseteq Ids
    BY DEF Counted
  <1>1. SomeAccountCounts'
    BY DEF SomeAccountCounts
  <1>2. TrialsCount'
    BY DEF TrialsCount
  <1>3. CountedTrials'
    BY <1>0 DEF CountedTrials
  <1>4. LeftOut'
    BY <1>0 DEF LeftOut
  <1>5. SignInsCarry'
    BY DEF SignInsCarry, Carries
  <1> QED
    BY <1>1, <1>2, <1>3, <1>4, <1>5

-----------------------------------------------------------------------------
(* Beginning a transaction *)

LEMMA BeginPreserves ==
  ASSUME IInv, NEW r \in Reqs, NEW t \in SignIn \cup Hook \cup Deletion \cup Work,
         Begin(r, t), UNCHANGED <<users, links, rows, trialVars, erased, unaware>>,
         OfUsers(t), KnowsDeletion(t), Carries(t)
  PROVE  IInv'
  <1> USE DEF IInv, trialVars
  <1>0. \A q \in Reqs : txs'[q] = IF q = r THEN t ELSE txs[q]
    BY DEF Begin, Structure, AccountsTypeOK
  <1>1. AccountsTypeOK'
    <2>1. txs' \in [Reqs -> SignIn \cup Hook \cup Deletion \cup Work \cup {NoTx}]
      BY DEF Begin, Structure, AccountsTypeOK
    <2>2. begun' \in 0..MaxBegun
      BY AccountsAssumption DEF Begin, Structure, AccountsTypeOK
    <2> QED
      BY <2>1, <2>2 DEF Structure, AccountsTypeOK
  <1>2. LinksOfUsers' /\ JobOfUsers'
    BY DEF Structure, LinksOfUsers, JobOfUsers, Counted, Exists
  <1>3. TxOfUsers'
    BY <1>0 DEF Structure, TxOfUsers, OfUsers, Exists
  <1>4. Erasure'
    BY <1>0 DEF Erasure, ErasedDeleted, TxKnowsDeletion, KnowsDeletion, ErasedStaysErased
  <1>5. /\ Followed' = Followed /\ Counted' = Counted
        /\ \A i, v : Has(i, v)' <=> Has(i, v)
        /\ \A i : OnTrial(i)' <=> OnTrial(i)
    BY DEF Followed, Counted, Has, OnTrial, Live, Exists
  <1>6. SomeAccountCounts' /\ TrialsCount' /\ CountedTrials' /\ LeftOut'
    BY <1>5 DEF Trial, SomeAccountCounts, TrialsCount, CountedTrials, LeftOut
  <1>7. SignInsCarry'
    BY <1>0, <1>5 DEF Trial, SignInsCarry, Carries
  <1> QED
    BY <1>1, <1>2, <1>3, <1>4, <1>6, <1>7 DEF Structure, Trial

\* A new sign-in carries the days of every account that it shares a vector with,
\* the one that records the nights of that vector among them.
LEMMA GetOrCreateUserPreserves ==
  ASSUME IInv, NEW r \in Reqs, NEW i \in Ids, NEW p \in Profiles, GetOrCreateUser(r, i, p)
  PROVE  IInv'
  <1> DEFINE t == [op |-> "signin", id |-> i, profile |-> p, new |-> ~Exists(i),
                   carried |-> IF Exists(i) THEN 0 ELSE Carried(p),
                   link |-> p.machine # None /\ <<i, p.machine>> \notin links,
                   night |-> night]
  <1>0. AccountsTypeOK /\ p \in Profile /\ night \in Nat
    BY AccountsAssumption DEF IInv, Structure, AccountsTypeOK
  <1>1. Carried(p) \in 0..TrialDays /\ 0 \in 0..TrialDays
    BY <1>0, CarriedBounds, AccountsAssumption
  <1>2. t \in SignIn
    BY <1>0, <1>1 DEF SignIn
  <1>3. /\ t.op = "signin" /\ t.id = i /\ t.profile = p /\ t.night = night
        /\ t.new <=> ~Exists(i)
        /\ t.link => p.machine # None
        /\ ~Exists(i) => t.carried = Carried(p)
    BY Zenon
  <1>4. Begin(r, t) /\ UNCHANGED <<users, links, rows, trialVars, erased, unaware>>
    BY DEF GetOrCreateUser
  <1> HIDE DEF t
  <1>5. OfUsers(t) /\ KnowsDeletion(t)
    BY <1>0, <1>3 DEF OfUsers, KnowsDeletion
  <1>6. Carries(t)
    <2> SUFFICES ASSUME ~Exists(i), NEW v \in Followed, v \in VectorsOfProfile(p)
                 PROVE  served[v] <= Carried(p) + lag[v]
      <3>1. Carried(p) \in Nat /\ \A v \in Followed : lag[v] \in Nat
        BY <1>0, <1>1 DEF AccountsTypeOK, Followed
      <3> QED
        BY <1>0, <1>3, <3>1 DEF Carries
    <2>1. served[v] \in Nat /\ lag[v] \in Nat
      BY DEF IInv, Structure, AccountsTypeOK, Followed
    <2>2. \A j \in Ids : Has(j, v) => Matches(j, p)
      <3> SUFFICES ASSUME NEW j \in Ids, Has(j, v) PROVE Matches(j, p)
        OBVIOUS
      <3>1. /\ users[j].login \in Logins \cup {None} /\ users[j].email \in Emails \cup {None}
            /\ links \subseteq Ids \X Machines
        BY <1>0, UserFields DEF AccountsTypeOK
      <3>2. v \in Vectors /\ v # None
        BY AccountsAssumption DEF Followed
      <3>3. /\ p.login \in Logins \cup {None} /\ p.email \in Emails \cup {None}
            /\ p.machine \in Machines \cup {None}
        BY <1>0 DEF Profile
      <3>4. <<j, v>> \in links => v \in Machines
        BY <3>1
      <3> QED
        BY <3>1, <3>2, <3>3, <3>4, AccountsAssumption DEF Has, Matches, VectorsOfProfile
    <2>3. \A j \in Ids : Has(j, v) => users[j].days <= Carried(p) /\ users[j].days \in Nat
      BY <1>0, <2>2, CarriedBounds, UserFields
    <2>4. CASE served[v] <= lag[v]
      BY <1>1, <2>1, <2>4
    <2>5. CASE \E j \in Ids : Has(j, v) /\ served[v] <= users[j].days + lag[v]
      BY <1>1, <2>1, <2>3, <2>5
    <2> QED
      BY <2>4, <2>5 DEF IInv, Trial, SomeAccountCounts
  <1> QED
    BY <1>2, <1>4, <1>5, <1>6, BeginPreserves

LEMMA OtherBeginsPreserve ==
  ASSUME IInv, NEW r \in Reqs, NEW i \in Ids,
         \/ \E p \in Profiles : SupabaseWebhook(r, i, p)
         \/ WorkBegin(r, i) \/ UngatedBegin(r, i) \/ DeleteUser(r, i)
  PROVE  IInv'
  <1>1. ASSUME NEW p \in Profiles, SupabaseWebhook(r, i, p) PROVE IInv'
    <2> DEFINE t == [op |-> "hook", id |-> i, profile |-> [p EXCEPT !.machine = None],
                     new |-> ~Exists(i)]
    <2>1. [p EXCEPT !.machine = None] \in Profile
      BY AccountsAssumption DEF Profile
    <2>2. t \in Hook
      BY <2>1 DEF Hook
    <2>3. OfUsers(t) /\ KnowsDeletion(t) /\ Carries(t)
      BY DEF OfUsers, KnowsDeletion, Carries
    <2> HIDE DEF t
    <2>4. Begin(r, t) /\ UNCHANGED <<users, links, rows, trialVars, erased, unaware>>
      BY <1>1 DEF SupabaseWebhook, t
    <2> QED
      BY <2>2, <2>3, <2>4, BeginPreserves
  <1>2. CASE WorkBegin(r, i)
    <2> DEFINE t == [op |-> "work", id |-> i, unaware |-> FALSE]
    <2>1. t \in Work
      BY DEF Work
    <2>2. OfUsers(t) /\ Carries(t)
      BY <1>2 DEF OfUsers, Carries, WorkBegin, Live
    <2>3. KnowsDeletion(t)
      BY <1>2 DEF WorkBegin, KnowsDeletion, Live, IInv, Erasure, ErasedDeleted
    <2> HIDE DEF t
    <2>4. Begin(r, t) /\ UNCHANGED <<users, links, rows, trialVars, erased, unaware>>
      BY <1>2 DEF WorkBegin, t
    <2> QED
      BY <2>1, <2>2, <2>3, <2>4, BeginPreserves
  <1>3. CASE UngatedBegin(r, i)
    <2> DEFINE t == [op |-> "work", id |-> i, unaware |-> TRUE]
    <2>1. t \in Work
      BY DEF Work
    <2>2. OfUsers(t) /\ Carries(t) /\ KnowsDeletion(t)
      BY <1>3 DEF OfUsers, Carries, KnowsDeletion, UngatedBegin
    <2> HIDE DEF t
    <2>3. Begin(r, t) /\ UNCHANGED <<users, links, rows, trialVars, erased, unaware>>
      BY <1>3 DEF UngatedBegin, t
    <2> QED
      BY <2>1, <2>2, <2>3, BeginPreserves
  <1>4. CASE DeleteUser(r, i)
    <2> DEFINE t == [op |-> "delete", id |-> i, doomed |-> rows[i]]
    <2>1. t \in Deletion
      BY DEF Deletion, IInv, Structure, AccountsTypeOK
    <2>2. OfUsers(t) /\ KnowsDeletion(t) /\ Carries(t)
      BY <1>4 DEF OfUsers, Carries, KnowsDeletion, DeleteUser, Live
    <2> HIDE DEF t
    <2>3. Begin(r, t) /\ UNCHANGED <<users, links, rows, trialVars, erased, unaware>>
      BY <1>4 DEF DeleteUser, t
    <2> QED
      BY <2>1, <2>2, <2>3, BeginPreserves
  <1> QED
    BY <1>1, <1>2, <1>3, <1>4

LEMMA RollbackPreserves ==
  ASSUME IInv, NEW r \in Reqs, Rollback(r)
  PROVE  IInv'
  <1> USE DEF Rollback, IInv, trialVars
  <1>0. \A q \in Reqs : txs'[q] = IF q = r THEN NoTx ELSE txs[q]
    BY DEF End, Structure, AccountsTypeOK
  <1>1. AccountsTypeOK'
    BY DEF End, Structure, AccountsTypeOK
  <1>2. Structure'
    <2>1. \A i \in Ids : Exists(i) => Exists(i)'
      BY DEF Exists
    <2>2. night' >= night
      BY DEF Structure, AccountsTypeOK
    <2> QED
      BY <1>0, <1>1, <2>1, <2>2, StructureStays
  <1>3. Erasure'
    <2>1. \A i \in erased : users'[i].deleted
      BY DEF Erasure, ErasedDeleted
    <2>2. \A q \in Reqs : txs'[q] = txs[q] \/ txs'[q].op \notin {"work", "delete"}
      BY <1>0 DEF NoTx
    <2> QED
      BY <2>1, <2>2, ErasureStays
  <1>4. Trial'
    <2>1. \A v, i : (Has(i, v)' <=> Has(i, v)) /\ (OnTrial(i)' <=> OnTrial(i))
      BY DEF Has, OnTrial, Live, Exists
    <2>2. Followed' = Followed
      BY DEF Followed
    <2>3. \A q \in Reqs : txs'[q] = txs[q] \/ txs'[q].op # "signin" \/ ~txs'[q].new
      BY <1>0 DEF NoTx
    <2> QED
      BY <2>1, <2>2, <2>3, TrialStays
  <1> QED
    BY <1>2, <1>3, <1>4

-----------------------------------------------------------------------------
(* The night *)

LEMMA NightReadPreserves ==
  ASSUME IInv, NightRead
  PROVE  IInv'
  <1> USE DEF NightRead, IInv
  <1> DEFINE Taken(i) == OnTrial(i) /\ users[i].days < TrialDays
  <1>0. AccountsTypeOK
    BY DEF Structure
  <1>1. /\ job'.running
        /\ \A i \in Ids : job'.days[i] = IF Taken(i) THEN users[i].days ELSE NotRead
    BY DEF OnTrial
  <1>2. AccountsTypeOK'
    <2>1. \A i \in Ids : Taken(i) => users[i].days \in 0..TrialDays - 1
      BY <1>0, UserFields, AccountsAssumption
    <2>2. job' \in [running : BOOLEAN, days : [Ids -> (0..TrialDays - 1) \cup {NotRead}]]
      BY <2>1 DEF OnTrial
    <2> QED
      BY <1>0, <2>2 DEF AccountsTypeOK
  <1>3. Counted' = {i \in Ids : Taken(i)}
    <2>1. \A i \in Ids : users[i].days # NotRead
      BY <1>0, UserFields, AccountsAssumption DEF NotRead
    <2> QED
      BY <1>1, <2>1 DEF Counted
  <1> HIDE DEF Taken
  <1>4. Structure'
    BY <1>1, <1>2, <1>3
       DEF Structure, LinksOfUsers, JobOfUsers, TxOfUsers, OfUsers, Exists, Taken, OnTrial, Live
  <1>5. Erasure'
    BY DEF Erasure, ErasedDeleted, TxKnowsDeletion, KnowsDeletion, ErasedStaysErased
  <1>6. /\ Followed' = Followed
        /\ \A i, v : (Has(i, v)' <=> Has(i, v)) /\ (OnTrial(i)' <=> OnTrial(i))
    BY DEF Followed, Has, OnTrial, Live, Exists
  <1>7. SomeAccountCounts' /\ TrialsCount' /\ SignInsCarry'
    BY <1>6 DEF Trial, SomeAccountCounts, TrialsCount, SignInsCarry, Carries
  <1>8. CountedTrials'
    BY <1>1, <1>3, <1>6 DEF Trial, TrialsCount, CountedTrials, Taken
  <1>9. LeftOut'
    <2>1. \A i \in Ids : users[i].days < TrialDays \/ users[i].days >= TrialDays
      BY <1>0, UserFields, AccountsAssumption
    <2> QED
      BY <1>3, <1>6, <2>1 DEF LeftOut, Taken
  <1> QED
    BY <1>4, <1>5, <1>7, <1>8, <1>9 DEF Trial

LEMMA NightFailsPreserves ==
  ASSUME IInv, NightFails
  PROVE  IInv'
  <1> USE DEF NightFails, IInv
  <1>0. Counted' = {} /\ ~job'.running
    BY DEF Counted, NoNight
  <1>1. AccountsTypeOK'
    BY DEF Structure, AccountsTypeOK, NoNight
  <1>2. Structure'
    <2>1. \A i \in Ids : Exists(i) => Exists(i)'
      BY DEF Exists
    <2>2. night' >= night
      BY DEF Structure, AccountsTypeOK
    <2> QED
      BY <1>1, <2>1, <2>2, StructureStays
  <1>3. Erasure'
    BY DEF Erasure, ErasedDeleted, TxKnowsDeletion, KnowsDeletion, ErasedStaysErased
  <1>4. /\ Followed' = Followed
        /\ \A i, v : (Has(i, v)' <=> Has(i, v)) /\ (OnTrial(i)' <=> OnTrial(i))
    BY DEF Followed, Has, OnTrial, Live, Exists
  <1>5. Trial'
    BY <1>0, <1>4
       DEF Trial, SomeAccountCounts, TrialsCount, CountedTrials, LeftOut, SignInsCarry, Carries
  <1> QED
    BY <1>2, <1>3, <1>5

\* The accounts of a vector that are counted record the night, and one that is
\* not has used its trial, records a night more already, or has the vector alone.
LEMMA NightCommitPreserves ==
  ASSUME IInv, NightCommit
  PROVE  IInv'
  <1> USE DEF NightCommit, IInv
  <1> DEFINE counted == UNION {VectorsOf(i) : i \in Counted}
  <1>0. /\ AccountsTypeOK /\ night' = night + 1 /\ night \in Nat
        /\ Counted' = {} /\ ~job'.running /\ TrialDays \in Nat
    BY AccountsAssumption DEF Structure, AccountsTypeOK, Counted, NoNight
  <1>1. ASSUME NEW i \in Counted
        PROVE  /\ i \in Ids /\ users[i] \in User /\ job.days[i] \in 0..TrialDays - 1
               /\ users'[i] = [users[i] EXCEPT !.days = job.days[i] + 1]
               /\ users'[i] \in User /\ users'[i].days = job.days[i] + 1
    <2>1. i \in Ids /\ Exists(i)
      BY DEF Counted, Structure, JobOfUsers
    <2>2. users[i] \in User
      BY <1>0, <2>1, UserFields
    <2>3. job.days[i] \in 0..TrialDays - 1
      BY <1>0 DEF AccountsTypeOK, Counted
    <2>4. users'[i] = [users[i] EXCEPT !.days = Incremented(job.days[i])]
      BY <2>1
    <2>5. Incremented(job.days[i]) = job.days[i] + 1 /\ job.days[i] + 1 \in 0..TrialDays
      <3>1. \A n \in 0..TrialDays - 1 : n < TrialDays /\ n + 1 \in 0..TrialDays
        BY <1>0
      <3> QED
        BY <2>3, <3>1 DEF Incremented
    <2>6. users'[i] = [users[i] EXCEPT !.days = job.days[i] + 1]
      BY <2>4, <2>5
    <2>7. users'[i] \in User /\ users'[i].days = job.days[i] + 1
      BY <2>2, <2>5, <2>6 DEF User
    <2> QED
      BY <2>1, <2>2, <2>3, <2>6, <2>7
  <1>2. \A i \in Ids \ Counted : users'[i] = users[i]
    OBVIOUS
  <1>3. /\ served' \in [Vectors -> Nat] /\ lag' \in [Vectors -> Nat] /\ excused' \subseteq Vectors
        /\ \A v \in Vectors \ excused' :
              /\ v \notin excused /\ lag'[v] = lag[v]
              /\ served'[v] = served[v] + (IF v \in counted THEN 1 ELSE 0)
    <2>1. /\ Track(counted, {}, 0, {}) /\ 0 \in Nat /\ {} \in SUBSET Vectors
      OBVIOUS
    <2> HIDE DEF counted
    <2>2. /\ served' \in [Vectors -> Nat] /\ lag' \in [Vectors -> Nat] /\ excused' \subseteq Vectors
          /\ \A v \in Vectors \ excused' :
                /\ v \notin excused
                /\ lag'[v] = lag[v] + (IF v \in {} THEN 0 ELSE 0)
                /\ served'[v] = served[v] + (IF v \in counted THEN 1 ELSE 0)
      BY <1>0, <2>1 DEF Track, AccountsTypeOK
    <2>3. \A v \in Vectors : lag[v] \in Nat
      BY <1>0 DEF AccountsTypeOK
    <2> QED
      BY <2>2, <2>3
  <1>4. AccountsTypeOK'
    <2>1. users' \in [Ids -> User \cup {NoUser}]
      BY <1>0, <1>1, <1>2 DEF AccountsTypeOK
    <2>2. job' \in [running : BOOLEAN, days : [Ids -> (0..TrialDays - 1) \cup {NotRead}]]
      BY DEF NoNight
    <2> QED
      BY <1>0, <1>3, <2>1, <2>2 DEF AccountsTypeOK
  <1>5. Structure'
    <2>1. ASSUME NEW i \in Ids, Exists(i) PROVE Exists(i)'
      <3>1. CASE i \in Counted
        <4>1. users'[i] \in User
          BY <1>1, <3>1
        <4> QED
          BY <4>1 DEF Exists, NoUser, User
      <3>2. CASE i \notin Counted
        BY <1>2, <2>1, <3>2 DEF Exists
      <3> QED
        BY <3>1, <3>2
    <2> QED
      BY <1>0, <1>4, <2>1, StructureStays
  <1>6. Erasure'
    <2>1. \A i \in erased : users'[i].deleted
      BY <1>0, <1>1, <1>2 DEF Erasure, ErasedDeleted, AccountsTypeOK, User
    <2> QED
      BY <2>1, ErasureStays
  <1>7. /\ Followed' \subseteq Followed
        /\ \A v \in Followed' : /\ v \in Vectors \ excused'
                               /\ served[v] \in Nat /\ lag[v] \in Nat /\ lag'[v] = lag[v]
                               /\ served'[v] = served[v] + (IF v \in counted THEN 1 ELSE 0)
    BY <1>0, <1>3 DEF Followed, AccountsTypeOK
  <1>8. \A i \in Ids : \A v : (Has(i, v)' <=> Has(i, v)) /\ (OnTrial(i)' <=> OnTrial(i))
    <2> SUFFICES ASSUME NEW i \in Ids
                 PROVE  /\ users'[i].login = users[i].login /\ users'[i].email = users[i].email
                        /\ users'[i].plan = users[i].plan /\ users'[i].deleted = users[i].deleted
                        /\ Exists(i)' <=> Exists(i)
      BY DEF Has, OnTrial, Live
    <2>1. CASE i \in Counted
      <3>1. /\ users[i] \in User /\ users'[i] \in User
            /\ users'[i] = [users[i] EXCEPT !.days = job.days[i] + 1]
        BY ONLY <1>1, <2>1
      <3>2. users[i] # NoUser /\ users'[i] # NoUser
        BY ONLY <3>1 DEF User, NoUser
      <3>3. /\ users'[i].login = users[i].login /\ users'[i].email = users[i].email
            /\ users'[i].plan = users[i].plan /\ users'[i].deleted = users[i].deleted
        BY ONLY <3>1 DEF User
      <3> QED
        BY <3>2, <3>3 DEF Exists
    <2>2. CASE i \notin Counted
      BY <1>2, <2>2 DEF Exists
    <2> QED
      BY <2>1, <2>2
  <1>9. ASSUME NEW v \in Followed'
        PROVE  /\ v \in counted <=> \E i \in Counted : Has(i, v)
               /\ \A i \in Counted : Has(i, v) => served'[v] <= users'[i].days + lag'[v]
    <2>1. v \in counted <=> \E i \in Counted : Has(i, v)
      BY <1>7 DEF VectorsOf
    <2> HIDE DEF counted
    <2>2. ASSUME NEW i \in Counted, Has(i, v) PROVE served'[v] <= users'[i].days + lag'[v]
      <3>1. served[v] <= job.days[i] + lag[v]
        BY <1>7, <2>2 DEF Trial, CountedTrials
      <3>2. users'[i].days = job.days[i] + 1 /\ job.days[i] \in Nat
        <4>1. users'[i].days = job.days[i] + 1 /\ job.days[i] \in 0..TrialDays - 1
          BY ONLY <1>1
        <4> QED
          BY ONLY <1>0, <4>1
      <3>3. served[v] \in Nat /\ lag[v] \in Nat /\ lag'[v] = lag[v]
        BY <1>7
      <3>4. served'[v] = served[v] + 1
        BY <1>7, <2>1, <2>2
      <3> QED
        BY <3>1, <3>2, <3>3, <3>4
    <2> QED
      BY <2>1, <2>2
  <1> HIDE DEF counted
  <1>10. SomeAccountCounts'
    <2> SUFFICES ASSUME NEW v \in Followed'
                 PROVE  \/ served'[v] <= lag'[v]
                        \/ \E i \in Ids : Has(i, v) /\ served'[v] <= users'[i].days + lag'[v]
      BY <1>8 DEF SomeAccountCounts
    <2>1. CASE v \in counted
      BY <1>1, <1>9, <2>1
    <2>2. CASE v \notin counted
      <3>1. served'[v] = served[v] /\ \A i \in Counted : ~Has(i, v)
        BY <1>7, <1>9, <2>2
      <3> QED
        BY <1>2, <1>7, <3>1 DEF Trial, SomeAccountCounts
    <2> QED
      BY <2>1, <2>2
  <1>11. TrialsCount'
    <2> SUFFICES ASSUME NEW v \in Followed', NEW i \in Ids, OnTrial(i), Has(i, v)
                 PROVE  served'[v] <= users'[i].days + lag'[v]
      BY <1>8 DEF TrialsCount
    <2>1. CASE i \in Counted
      BY <1>9, <2>1
    <2>2. CASE i \notin Counted
      <3>1. users'[i].days = users[i].days /\ users[i].days \in Nat
        BY <1>0, <1>2, <2>2, UserFields
      <3>2. served[v] <= users[i].days + lag[v]
        BY <1>7 DEF Trial, TrialsCount
      <3>3. CASE v \notin counted
        BY <1>7, <3>1, <3>2, <3>3
      <3>4. ASSUME NEW j \in Counted, Has(j, v) PROVE served'[v] <= users'[i].days + lag'[v]
        <4>1. /\ served[v] <= job.days[j] + lag[v] /\ job.days[j] \in 0..TrialDays - 1
              /\ j \in Ids \ {i}
          BY <1>1, <1>7, <2>2, <3>4 DEF Trial, CountedTrials
        <4>2. users[i].days >= TrialDays \/ served[v] < users[i].days + lag[v]
          BY <1>7, <2>2, <3>4, <4>1 DEF Trial, LeftOut
        <4> QED
          BY <1>0, <1>7, <3>1, <4>1, <4>2
      <3> QED
        BY <1>9, <3>3, <3>4
    <2> QED
      BY <2>1, <2>2
  <1>12. CountedTrials' /\ LeftOut'
    BY <1>0 DEF CountedTrials, LeftOut
  <1>13. SignInsCarry'
    <2> SUFFICES ASSUME NEW r \in Reqs, txs[r].op = "signin", txs[r].new,
                        NEW v \in Followed', v \in VectorsOfProfile(txs[r].profile)
                 PROVE  served'[v] <= txs[r].carried + lag'[v] + (night' - txs[r].night)
      BY DEF SignInsCarry, Carries
    <2>1. txs[r].carried \in Nat /\ txs[r].night \in Nat
      BY <1>0, TxFields DEF SignIn
    <2>2. served[v] <= txs[r].carried + lag[v] + (night - txs[r].night)
      BY <1>7 DEF Trial, SignInsCarry, Carries
    <2> QED
      BY <1>0, <1>7, <2>1, <2>2
  <1> QED
    BY <1>5, <1>6, <1>10, <1>11, <1>12, <1>13 DEF Trial

-----------------------------------------------------------------------------
(* Committing a sign-in or the webhook *)

\* The row is written and no other; what is not new keeps its trial.
LEMMA UpsertedRow ==
  ASSUME AccountsTypeOK, NEW i \in Ids, NEW new \in BOOLEAN, NEW p \in Profile,
         NEW days \in 0..TrialDays, new \/ Exists(i), users' = Upserted(i, new, p, days)
  PROVE  /\ users' \in [Ids -> User \cup {NoUser}]
         /\ users'[i] \in User /\ Exists(i)'
         /\ \A j \in Ids \ {i} : users'[j] = users[j]
         /\ new => users'[i] = NewUser(p, days)
         /\ ~new => /\ users'[i].days = users[i].days /\ users'[i].plan = users[i].plan
                    /\ users'[i].deleted = users[i].deleted
  <1>1. users'[i] = IF new THEN NewUser(p, days) ELSE Updated(users[i], p)
    BY DEF Upserted, AccountsTypeOK
  <1>2. users' \in [Ids -> User \cup {NoUser} \cup {users'[i]}]
        /\ \A j \in Ids \ {i} : users'[j] = users[j]
    <2>1. users' = [users EXCEPT ![i] = users'[i]]
      BY <1>1 DEF Upserted, AccountsTypeOK
    <2> QED
      BY <2>1 DEF AccountsTypeOK
  <1>3. CASE new
    <2>1. NewUser(p, days) \in User
      BY DEF NewUser, User, Profile
    <2>2. users'[i] \in User
      BY <1>1, <1>3, <2>1
    <2>3. users'[i] # NoUser
      BY <2>2 DEF User, NoUser
    <2> QED
      BY <1>1, <1>2, <1>3, <2>2, <2>3 DEF Exists, NoUser
  <1>4. CASE ~new
    <2>1. users[i] \in User
      BY <1>4, UserFields
    <2>2. /\ Updated(users[i], p) \in User
          /\ Updated(users[i], p).days = users[i].days
          /\ Updated(users[i], p).plan = users[i].plan
          /\ Updated(users[i], p).deleted = users[i].deleted
      BY <2>1 DEF Updated, User, Profile
    <2>3. users'[i] = Updated(users[i], p)
      BY <1>1, <1>4
    <2>4. users'[i] # NoUser
      BY <2>2, <2>3 DEF User, NoUser
    <2> QED
      BY <1>2, <1>4, <2>2, <2>3, <2>4 DEF Exists, NoUser
  <1> QED
    BY <1>3, <1>4

\* What a commit writes, of a sign-in or of the webhook.
Upsert(r, days) ==
    LET t == txs[r]
    IN  /\ t.op \in {"signin", "hook"}
        /\ t.new => ~Exists(t.id)
        /\ users' = Upserted(t.id, t.new, t.profile, days)
        /\ \/ links' = links
           \/ /\ links' = links \cup {<<t.id, t.profile.machine>>}
              /\ t.profile.machine \in Machines
        /\ End(r)
        /\ UNCHANGED <<rows, job, night, overrides, erased, unaware>>
        /\ served' \in [Vectors -> Nat] /\ lag' \in [Vectors -> Nat]
        /\ excused' \subseteq Vectors /\ hooked' \subseteq Vectors

LEMMA UpsertKeeps ==
  ASSUME IInv, NEW r \in Reqs, NEW i \in Ids, NEW days \in 0..TrialDays,
         i = txs[r].id, Upsert(r, days)
  PROVE  Structure' /\ Erasure'
  <1> DEFINE t == txs[r]
  <1>1. AccountsTypeOK /\ LinksOfUsers /\ t.new \in BOOLEAN /\ t.profile \in Profile
    <2>1. AccountsTypeOK /\ LinksOfUsers /\ t.op \in {"signin", "hook"}
      BY DEF Upsert, IInv, Structure
    <2>2. t \in SignIn \/ t \in Hook
      BY <2>1, TxFields
    <2> QED
      BY <2>1, <2>2 DEF SignIn, Hook
  <1>2. t.new \/ Exists(i)
    BY DEF Upsert, IInv, Structure, TxOfUsers, OfUsers
  <1>3. users' = Upserted(i, t.new, t.profile, days)
    BY DEF Upsert
  <1>4. /\ users' \in [Ids -> User \cup {NoUser}]
        /\ users'[i] \in User /\ Exists(i)'
        /\ \A j \in Ids \ {i} : users'[j] = users[j]
        /\ ~t.new => users'[i].deleted = users[i].deleted
    <2> HIDE DEF t
    <2> QED
      BY <1>1, <1>2, <1>3, UpsertedRow
  <1>5. \A q \in Reqs : txs'[q] = IF q = r THEN NoTx ELSE txs[q]
    BY <1>1 DEF Upsert, End, AccountsTypeOK
  <1>6. AccountsTypeOK'
    <2>1. links' \subseteq Ids \X Machines
      BY <1>1 DEF Upsert, AccountsTypeOK
    <2>2. txs' \in [Reqs -> SignIn \cup Hook \cup Deletion \cup Work \cup {NoTx}]
      BY <1>1 DEF Upsert, End, AccountsTypeOK
    <2> QED
      BY <1>1, <1>4, <2>1, <2>2 DEF Upsert, End, AccountsTypeOK
  <1>7. Structure'
    <2>1. \A j \in Ids : Exists(j) => Exists(j)'
      BY <1>4 DEF Exists
    <2>2. \A j \in Ids, m \in Machines : <<j, m>> \in links' => <<j, m>> \in links \/ Exists(j)'
      BY <1>1, <1>4 DEF Upsert
    <2>3. job' \in {job, NoNight} /\ night' >= night
      BY <1>1 DEF Upsert, AccountsTypeOK
    <2>4. \A q \in Reqs : txs'[q] \in {txs[q], NoTx}
      BY <1>5
    <2> QED
      BY <1>6, <2>1, <2>2, <2>3, <2>4, StructureStays DEF IInv
  <1>8. Erasure'
    <2>1. \A j \in erased : users'[j].deleted
      <3> SUFFICES ASSUME NEW j \in erased PROVE users'[j].deleted
        OBVIOUS
      <3>1. j \in Ids /\ users[j].deleted
        BY <1>1 DEF IInv, Erasure, ErasedDeleted, AccountsTypeOK
      <3>2. Exists(j)
        BY <3>1 DEF Exists, NoUser
      <3>3. t.new => j # i
        BY <3>2 DEF Upsert
      <3> QED
        BY <1>4, <3>1, <3>3
    <2>2. \A q \in Reqs : txs'[q] = txs[q] \/ txs'[q].op \notin {"work", "delete"}
      BY <1>5 DEF NoTx
    <2> QED
      BY <2>1, <2>2, ErasureStays DEF Upsert, IInv
  <1> QED
    BY <1>7, <1>8

\* The vectors that an existing row keeps are those that are still followed.
LEMMA UpdateKeepsTrial ==
  ASSUME IInv, NEW r \in Reqs, NEW i \in Ids, NEW days \in 0..TrialDays,
         i = txs[r].id, Upsert(r, days), ~txs[r].new,
         NEW missed \in Nat, Track({}, {}, missed, Moved(i)), hooked' = hooked
  PROVE  Trial'
  <1> DEFINE t == txs[r]
  <1>1. /\ AccountsTypeOK /\ LinksOfUsers /\ Trial
        /\ t.new \in BOOLEAN /\ t.profile \in Profile /\ Exists(i)
    <2>1. AccountsTypeOK /\ LinksOfUsers /\ Trial /\ t.op \in {"signin", "hook"}
      BY DEF Upsert, IInv, Structure
    <2>2. t \in SignIn \/ t \in Hook
      BY <2>1, TxFields
    <2>3. Exists(i)
      BY <2>1 DEF IInv, Structure, TxOfUsers, OfUsers
    <2> QED
      BY <2>1, <2>2, <2>3 DEF SignIn, Hook
  <1>2. users' = Upserted(i, t.new, t.profile, days)
    BY DEF Upsert
  <1>3. /\ Exists(i)'
        /\ \A j \in Ids \ {i} : users'[j] = users[j]
        /\ users'[i].days = users[i].days /\ users'[i].plan = users[i].plan
        /\ users'[i].deleted = users[i].deleted
    <2> HIDE DEF t
    <2> QED
      BY <1>1, <1>2, UpsertedRow DEF t
  <1>4. Moved(i) \subseteq Vectors
    BY DEF Moved, Gets, VectorsOf
  <1>5. \A v \in Vectors \ excused' :
           /\ v \notin excused /\ v \notin Moved(i)
           /\ served'[v] = served[v] /\ lag'[v] = lag[v]
    <2>1. \A v \in Vectors : served[v] \in Nat /\ lag[v] \in Nat
      BY <1>1 DEF AccountsTypeOK
    <2> QED
      BY <1>1, <1>4, <2>1 DEF Track
  <1>6. \A v \in Followed' : v \in Vectors \ excused' /\ v \notin hooked
    BY DEF Followed
  <1>7. Followed' \subseteq Followed
    BY <1>5, <1>6 DEF Followed
  <1>8. ASSUME NEW v \in Followed', NEW j \in Ids
        PROVE  /\ Has(j, v)' <=> Has(j, v)
               /\ users'[j].days = users[j].days /\ (OnTrial(j)' => OnTrial(j))
    <2>1. CASE j = i
      <3>1. v \notin Moved(i) /\ v \in Vectors
        BY <1>5, <1>6
      <3>2. Has(i, v)' <=> Has(i, v)
        BY <3>1 DEF Moved, Gets, VectorsOf, Has
      <3> QED
        BY <1>1, <1>3, <2>1, <3>2 DEF OnTrial, Live
    <2>2. CASE j # i
      <3>1. users'[j] = users[j] /\ (<<j, v>> \in links' <=> <<j, v>> \in links)
        BY <1>3, <2>2 DEF Upsert
      <3> QED
        BY <3>1 DEF Has, OnTrial, Live, Exists
    <2> QED
      BY <2>1, <2>2
  <1>9. \A q \in Reqs : txs'[q] = txs[q] \/ txs'[q].op # "signin" \/ ~txs'[q].new
    BY <1>1 DEF Upsert, End, AccountsTypeOK, NoTx
  <1>10. job' = job /\ night' = night
    BY DEF Upsert
  <1> QED
    BY <1>1, <1>5, <1>6, <1>7, <1>8, <1>9, <1>10, TrialStays

\* A row that is created brings to each of its vectors either the nights that
\* its sign-in carried, and is granted those that it missed, or it is the first
\* of that vector.
LEMMA CreationKeepsTrial ==
  ASSUME IInv, NEW r \in Reqs, NEW i \in Ids, NEW days \in 0..TrialDays,
         i = txs[r].id, Upsert(r, days), txs[r].new,
         Followed' \subseteq Followed,
         \A v \in Followed' :
            /\ served'[v] = served[v]
            /\ ~Has(i, v)' => lag'[v] = lag[v]
            /\ Has(i, v)' =>
                  \/ lag'[v] = lag[v] /\ \A j \in Ids : ~Has(j, v)
                  \/ /\ lag'[v] >= lag[v]
                     /\ job.running => lag'[v] > lag[v]
                     /\ served[v] <= days + lag'[v]
                     /\ job.running => served[v] < days + lag'[v]
  PROVE  Trial'
  <1> DEFINE t == txs[r]
  <1>1. /\ AccountsTypeOK /\ LinksOfUsers /\ JobOfUsers /\ Trial
        /\ t.new \in BOOLEAN /\ t.profile \in Profile /\ ~Exists(i)
    <2>1. /\ AccountsTypeOK /\ LinksOfUsers /\ JobOfUsers /\ Trial
          /\ t.op \in {"signin", "hook"} /\ ~Exists(i)
      BY DEF Upsert, IInv, Structure
    <2>2. t \in SignIn \/ t \in Hook
      BY <2>1, TxFields
    <2> QED
      BY <2>1, <2>2 DEF SignIn, Hook
  <1>2. users' = Upserted(i, t.new, t.profile, days)
    BY DEF Upsert
  <1>3. /\ \A j \in Ids \ {i} : users'[j] = users[j]
        /\ users'[i].days = days
    <2>1. /\ \A j \in Ids \ {i} : users'[j] = users[j]
          /\ users'[i] = NewUser(t.profile, days)
      <3> HIDE DEF t
      <3> QED
        BY <1>1, <1>2, UpsertedRow DEF t
    <2> QED
      BY <2>1 DEF NewUser
  <1>4. /\ i \notin Counted /\ Counted' = Counted /\ Counted \subseteq Ids
        /\ job' = job /\ night' = night
    BY <1>1 DEF Upsert, JobOfUsers, Counted
  <1>5. ASSUME NEW v \in Followed'
        PROVE  /\ v \in Followed /\ ~Has(i, v)
               /\ served'[v] = served[v] /\ lag'[v] >= lag[v]
               /\ served[v] \in Nat /\ lag[v] \in Nat /\ lag'[v] \in Nat
    <2>1. v \in Followed /\ v \in Vectors
      BY DEF Followed
    <2>2. served[v] \in Nat /\ lag[v] \in Nat /\ lag'[v] \in Nat
      BY <1>1, <2>1 DEF AccountsTypeOK, Upsert
    <2>3. ~Has(i, v)
      BY <1>1, <2>1, HasExists
    <2> QED
      BY <2>1, <2>2, <2>3
  <1>6. ASSUME NEW j \in Ids \ {i}, NEW v
        PROVE  /\ Has(j, v)' <=> Has(j, v)
               /\ OnTrial(j)' <=> OnTrial(j)
               /\ users'[j].days = users[j].days /\ users[j].days \in Nat
    <2>1. users'[j] = users[j] /\ (<<j, v>> \in links' <=> <<j, v>> \in links)
      BY <1>3 DEF Upsert
    <2>2. users[j].days \in Nat
      BY <1>1, UserFields, AccountsAssumption
    <2> QED
      BY <2>1, <2>2 DEF Has, OnTrial, Live, Exists
  <1>7. ASSUME NEW v \in Followed', Has(i, v)'
        PROVE  /\ served'[v] <= days + lag'[v]
               /\ \/ served'[v] <= lag'[v] /\ \A j \in Ids \ {i} : ~Has(j, v)
                  \/ job.running => /\ served'[v] < days + lag'[v] /\ lag'[v] > lag[v]
    <2>1. CASE lag'[v] = lag[v] /\ \A j \in Ids : ~Has(j, v)
      <3>1. served[v] <= lag[v]
        BY <1>1, <1>5, <2>1 DEF Trial, SomeAccountCounts
      <3> QED
        BY <1>5, <2>1, <3>1, AccountsAssumption
    <2>2. CASE /\ lag'[v] >= lag[v]
               /\ job.running => lag'[v] > lag[v]
               /\ served[v] <= days + lag'[v]
               /\ job.running => served[v] < days + lag'[v]
      BY <1>5, <2>2
    <2> QED
      BY <1>7, <2>1, <2>2
  <1>8. SomeAccountCounts'
    <2> SUFFICES ASSUME NEW v \in Followed'
                 PROVE  \/ served'[v] <= lag'[v]
                        \/ \E j \in Ids : Has(j, v)' /\ served'[v] <= users'[j].days + lag'[v]
      BY DEF SomeAccountCounts
    <2>1. CASE served[v] <= lag[v]
      BY <1>5, <2>1
    <2>2. ASSUME NEW j \in Ids, Has(j, v), served[v] <= users[j].days + lag[v]
          PROVE  Has(j, v)' /\ served'[v] <= users'[j].days + lag'[v]
      <3>1. j # i
        BY <1>5, <2>2
      <3> QED
        BY <1>5, <1>6, <2>2, <3>1
    <2> QED
      BY <1>1, <1>5, <2>1, <2>2 DEF Trial, SomeAccountCounts
  <1>9. TrialsCount'
    <2> SUFFICES ASSUME NEW v \in Followed', NEW j \in Ids, OnTrial(j)', Has(j, v)'
                 PROVE  served'[v] <= users'[j].days + lag'[v]
      BY DEF TrialsCount
    <2>1. CASE j = i
      BY <1>3, <1>7, <2>1
    <2>2. CASE j # i
      <3>1. served[v] <= users[j].days + lag[v]
        BY <1>1, <1>5, <1>6, <2>2 DEF Trial, TrialsCount
      <3> QED
        BY <1>5, <1>6, <2>2, <3>1
    <2> QED
      BY <2>1, <2>2
  <1>10. CountedTrials'
    <2> SUFFICES ASSUME NEW v \in Followed', NEW j \in Counted, Has(j, v)'
                 PROVE  served'[v] <= job.days[j] + lag'[v]
      BY <1>4 DEF CountedTrials
    <2>1. j \in Ids \ {i}
      BY <1>4
    <2>2. served[v] <= job.days[j] + lag[v]
      BY <1>1, <1>5, <1>6, <2>1 DEF Trial, CountedTrials
    <2>3. job.days[j] \in Int
      BY <1>1, <2>1, AccountsAssumption DEF AccountsTypeOK, NotRead
    <2> QED
      BY <1>5, <2>2, <2>3
  <1>11. LeftOut'
    <2> SUFFICES ASSUME NEW v \in Followed', NEW j \in Ids \ Counted,
                        job.running, OnTrial(j)', Has(j, v)'
                 PROVE  \/ users'[j].days >= TrialDays
                        \/ served'[v] < users'[j].days + lag'[v]
                        \/ \A k \in Ids \ {j} : ~Has(k, v)'
      BY <1>4 DEF LeftOut
    <2>1. CASE j = i
      BY <1>3, <1>6, <1>7, <2>1
    <2>2. CASE j # i
      <3>1. OnTrial(j) /\ Has(j, v) /\ users'[j].days = users[j].days /\ users[j].days \in Nat
        BY <1>6, <2>2
      <3>2. served[v] <= users[j].days + lag[v]
        BY <1>1, <1>5, <3>1 DEF Trial, TrialsCount
      <3>3. CASE Has(i, v)'
        <4>1. lag'[v] > lag[v]
          BY <1>7, <2>2, <3>1, <3>3
        <4> QED
          BY <1>5, <3>1, <3>2, <4>1
      <3>4. CASE ~Has(i, v)'
        <4>1. \A k \in Ids : Has(k, v)' <=> Has(k, v)
          BY <1>5, <1>6, <3>4
        <4>2. \/ users[j].days >= TrialDays
              \/ served[v] < users[j].days + lag[v]
              \/ \A k \in Ids \ {j} : ~Has(k, v)
          BY <1>1, <1>5, <3>1 DEF Trial, LeftOut
        <4> QED
          BY <1>5, <3>1, <4>1, <4>2
      <3> QED
        BY <3>3, <3>4
    <2> QED
      BY <2>1, <2>2
  <1>12. SignInsCarry'
    <2> SUFFICES ASSUME NEW q \in Reqs, txs'[q].op = "signin", txs'[q].new,
                        NEW v \in Followed', v \in VectorsOfProfile(txs'[q].profile)
                 PROVE  served'[v] <= txs'[q].carried + lag'[v] + (night' - txs'[q].night)
      BY DEF SignInsCarry, Carries
    <2>1. txs'[q] = txs[q]
      BY <1>1 DEF Upsert, End, AccountsTypeOK, NoTx
    <2>2. txs[q].carried \in Nat /\ txs[q].night \in Nat /\ night \in Nat
      BY <1>1, <2>1, TxFields, AccountsAssumption DEF SignIn, AccountsTypeOK
    <2>3. served[v] <= txs[q].carried + lag[v] + (night - txs[q].night)
      BY <1>1, <1>5, <2>1 DEF Trial, SignInsCarry, Carries
    <2> QED
      BY <1>4, <1>5, <2>1, <2>2, <2>3
  <1> QED
    BY <1>8, <1>9, <1>10, <1>11, <1>12 DEF Trial

LEMMA GetsIsHas ==
  ASSUME NEW i \in Ids, NEW v \in Vectors
  PROVE  /\ v \in Gets(i) <=> Has(i, v)'
         /\ v \in VectorsOf(i) <=> Has(i, v)
  BY DEF Gets, VectorsOf, Has

LEMMA SignInCommitPreserves ==
  ASSUME IInv, NEW r \in Reqs, SignInCommit(r)
  PROVE  IInv'
  <1> DEFINE t == txs[r]
  <1>1. t.op = "signin" /\ AccountsTypeOK
    BY DEF SignInCommit, IInv, Structure
  <1>2. t \in SignIn
    BY <1>1, TxFields
  <1>3. /\ t.id \in Ids /\ t.carried \in 0..TrialDays /\ t.night \in Nat /\ t.new \in BOOLEAN
        /\ t.profile \in Profile
    BY <1>2 DEF SignIn
  <1>4. PICK i \in Ids : i = t.id
    BY <1>3
  <1>5. PICK missed \in Nat : /\ missed = Missed(t)
                              /\ missed >= night - t.night
                              /\ job.running => missed > night - t.night
    <2>1. night \in Nat /\ t.night <= night
      BY <1>1 DEF IInv, Structure, TxOfUsers, OfUsers, AccountsTypeOK
    <2> HIDE DEF t
    <2> QED
      BY <1>3, <2>1 DEF Missed
  <1>6. /\ Track({}, IF t.new THEN Gets(i) ELSE {}, missed, IF t.new THEN {} ELSE Moved(i))
        /\ hooked' = hooked
    BY <1>4, <1>5 DEF SignInCommit
  <1>7. Moved(i) \in SUBSET Vectors
    BY DEF Moved, Gets, VectorsOf
  <1>8. Upsert(r, t.carried)
    <2>1. /\ served' \in [Vectors -> Nat] /\ lag' \in [Vectors -> Nat]
          /\ excused' \subseteq Vectors
      BY <1>1, <1>6, <1>7 DEF Track, AccountsTypeOK
    <2>2. t.link => t.profile.machine \in Machines
      BY <1>1, <1>3 DEF IInv, Structure, TxOfUsers, OfUsers, Profile
    <2> QED
      BY <1>1, <2>1, <2>2 DEF SignInCommit, Upsert, AccountsTypeOK
  <1>9. Structure' /\ Erasure'
    <2> HIDE DEF t
    <2> QED
      BY <1>3, <1>4, <1>8, UpsertKeeps DEF t
  <1>10. CASE ~t.new
    <2>1. Track({}, {}, missed, Moved(i))
      BY <1>6, <1>10
    <2>2. Trial'
      <3> HIDE DEF t
      <3> QED
        BY <1>3, <1>4, <1>6, <1>8, <1>10, <2>1, UpdateKeepsTrial DEF t
    <2> QED
      BY <1>9, <2>2 DEF IInv
  <1>11. CASE t.new
    <2>1. Track({}, Gets(i), missed, {})
      BY <1>6, <1>11
    <2>2. \A v \in Vectors \ excused' :
             /\ v \notin excused /\ served'[v] = served[v]
             /\ lag'[v] = IF Has(i, v)' THEN lag[v] + missed ELSE lag[v]
      BY <1>1, <2>1, GetsIsHas DEF Track, AccountsTypeOK
    <2>3. \A v \in Followed' : v \in Vectors \ excused' /\ v \in Followed
      BY <1>6, <2>2 DEF Followed
    <2>4. ASSUME NEW v \in Followed', Has(i, v)'
          PROVE  /\ lag'[v] >= lag[v]
                 /\ job.running => lag'[v] > lag[v]
                 /\ served[v] <= t.carried + lag'[v]
                 /\ job.running => served[v] < t.carried + lag'[v]
      <3>1. v \in VectorsOfProfile(t.profile)
        <4>1. v \in Vectors /\ ~Exists(i) /\ LinksOfUsers
          BY <1>4, <1>11, <2>3 DEF SignInCommit, IInv, Structure
        <4>2. <<i, v>> \notin links
          BY <1>1, <4>1 DEF LinksOfUsers, AccountsTypeOK
        <4>3. /\ users'[i] = NewUser(t.profile, t.carried)
              /\ links' \subseteq links \cup {<<i, t.profile.machine>>}
          BY <1>1, <1>4, <1>11 DEF SignInCommit, Upserted, AccountsTypeOK
        <4> HIDE DEF t
        <4> QED
          BY <2>4, <4>2, <4>3 DEF Has, NewUser, VectorsOfProfile
      <3>2. served[v] <= t.carried + lag[v] + (night - t.night)
        BY <1>1, <1>11, <2>3, <3>1 DEF IInv, Trial, SignInsCarry, Carries
      <3>3. lag'[v] = lag[v] + missed
        BY <2>2, <2>3, <2>4
      <3>4. /\ served[v] \in Nat /\ lag[v] \in Nat /\ night \in Nat
            /\ t.carried \in Nat /\ t.night \in Nat /\ t.night <= night
        BY <1>1, <1>3, <2>3, AccountsAssumption
           DEF AccountsTypeOK, IInv, Structure, TxOfUsers, OfUsers
      <3> HIDE DEF t
      <3> QED
        BY <1>5, <3>2, <3>3, <3>4
    <2>5. Trial'
      <3>1. \A v \in Followed' : served'[v] = served[v] /\ (~Has(i, v)' => lag'[v] = lag[v])
        BY <2>2, <2>3
      <3> HIDE DEF t
      <3> QED
        BY <1>3, <1>4, <1>8, <1>11, <2>3, <2>4, <3>1, CreationKeepsTrial DEF t
    <2> QED
      BY <1>9, <2>5 DEF IInv
  <1> QED
    BY <1>10, <1>11

LEMMA HookCommitPreserves ==
  ASSUME IInv, NEW r \in Reqs, HookCommit(r)
  PROVE  IInv'
  <1> DEFINE t == txs[r]
  <1>1. t.op = "hook" /\ AccountsTypeOK
    BY DEF HookCommit, IInv, Structure
  <1>2. t \in Hook
    BY <1>1, TxFields
  <1>3. t.id \in Ids /\ t.new \in BOOLEAN /\ 0 \in 0..TrialDays /\ 0 \in Nat
    BY <1>2, AccountsAssumption DEF Hook
  <1>4. PICK i \in Ids : i = t.id
    BY <1>3
  <1>5. /\ Track({}, {}, 0, IF t.new THEN {} ELSE Moved(i))
        /\ hooked' = hooked \cup {v \in Moved(i) : t.new /\ \E j \in Ids : Has(j, v)}
    BY <1>4 DEF HookCommit
  <1>6. Moved(i) \in SUBSET Vectors
    BY DEF Moved, Gets, VectorsOf
  <1>7. Upsert(r, 0)
    <2>1. /\ served' \in [Vectors -> Nat] /\ lag' \in [Vectors -> Nat]
          /\ excused' \subseteq Vectors
      BY <1>1, <1>5, <1>6 DEF Track, AccountsTypeOK
    <2>2. hooked' \subseteq Vectors
      BY <1>1, <1>5, <1>6 DEF AccountsTypeOK
    <2> QED
      BY <1>1, <2>1, <2>2 DEF HookCommit, Upsert, AccountsTypeOK
  <1>8. Structure' /\ Erasure'
    <2> HIDE DEF t
    <2> QED
      BY <1>3, <1>4, <1>7, UpsertKeeps DEF t
  <1>9. CASE ~t.new
    <2>1. Track({}, {}, 0, Moved(i)) /\ hooked' = hooked
      BY <1>5, <1>9
    <2>2. Trial'
      <3> HIDE DEF t
      <3> QED
        BY <1>3, <1>4, <1>7, <1>9, <2>1, UpdateKeepsTrial DEF t
    <2> QED
      BY <1>8, <2>2 DEF IInv
  <1>10. CASE t.new
    <2>1. Track({}, {}, 0, {})
      BY <1>5, <1>10
    <2>2. \A v \in Vectors \ excused' :
             v \notin excused /\ served'[v] = served[v] /\ lag'[v] = lag[v]
      BY <1>1, <2>1 DEF Track, AccountsTypeOK
    <2>3. \A v \in Followed' : v \in Vectors \ excused' /\ v \in Followed
      BY <1>5, <2>2 DEF Followed
    <2>4. ASSUME NEW v \in Followed', Has(i, v)'
          PROVE  \A j \in Ids : ~Has(j, v)
      <3>1. v \in Vectors /\ v \notin hooked'
        BY DEF Followed
      <3>2. ~Has(i, v)
        <4>1. ~Exists(i) /\ LinksOfUsers
          BY <1>4, <1>10 DEF HookCommit, IInv, Structure
        <4> QED
          BY <1>1, <3>1, <4>1, HasExists
      <3>3. v \in Moved(i)
        BY <2>4, <3>1, <3>2, GetsIsHas DEF Moved
      <3> QED
        BY <1>5, <1>10, <3>1, <3>3
    <2>5. Trial'
      <3>1. \A v \in Followed' : served'[v] = served[v] /\ lag'[v] = lag[v]
        BY <2>2, <2>3
      <3> HIDE DEF t
      <3> QED
        BY <1>3, <1>4, <1>7, <1>10, <2>3, <2>4, <3>1, CreationKeepsTrial DEF t
    <2> QED
      BY <1>8, <2>5 DEF IInv
  <1> QED
    BY <1>9, <1>10

-----------------------------------------------------------------------------
(* Requests, and the deletion of the account *)

\* A deleted account gets a row only from work that was under way.
LEMMA WorkCommitPreserves ==
  ASSUME IInv, NEW r \in Reqs, WorkCommit(r)
  PROVE  IInv'
  <1>1. txs[r].op = "work" /\ AccountsTypeOK /\ txs[r].id \in Ids
    BY TxFields DEF WorkCommit, IInv, Structure, NoTx
  <1>2. PICK i \in Ids : i = txs[r].id
    BY <1>1
  <1>3. PICK k \in (1..MaxRows) \ rows[i] :
           /\ rows' = [rows EXCEPT ![i] = @ \cup {k}]
           /\ unaware' = [unaware EXCEPT ![i] =
                 IF txs[r].unaware \/ BeingDeleted(i) THEN @ \cup {k} ELSE @]
    BY <1>2 DEF WorkCommit
  <1>4. \A q \in Reqs : txs'[q] = IF q = r THEN NoTx ELSE txs[q]
    BY <1>1 DEF WorkCommit, End, AccountsTypeOK
  <1>5. /\ UNCHANGED <<users, links, job, night, served, lag, excused, hooked, overrides, erased>>
        /\ begun' = begun
    BY DEF WorkCommit, trialVars, End
  <1>6. AccountsTypeOK'
    <2>1. txs' \in [Reqs -> SignIn \cup Hook \cup Deletion \cup Work \cup {NoTx}]
      BY <1>1 DEF WorkCommit, End, AccountsTypeOK
    <2>2. rows' \in [Ids -> SUBSET (1..MaxRows)] /\ unaware' \in [Ids -> SUBSET (1..MaxRows)]
      BY <1>1, <1>3 DEF AccountsTypeOK
    <2> QED
      BY <1>1, <1>5, <2>1, <2>2 DEF AccountsTypeOK
  <1>7. Structure'
    <2>1. \A j \in Ids : Exists(j) => Exists(j)'
      BY <1>5 DEF Exists
    <2>2. night' >= night
      BY <1>1, <1>5 DEF AccountsTypeOK
    <2> QED
      BY <1>4, <1>5, <1>6, <2>1, <2>2, StructureStays DEF IInv
  <1>8. /\ \A j \in Ids : rows'[j] = IF j = i THEN rows[j] \cup {k} ELSE rows[j]
        /\ \A j \in Ids : unaware'[j] = IF j = i /\ (txs[r].unaware \/ BeingDeleted(i))
                                     THEN unaware[j] \cup {k} ELSE unaware[j]
    BY <1>1, <1>3 DEF AccountsTypeOK
  <1>9. ErasedStaysErased'
    <2> SUFFICES ASSUME NEW j \in erased PROVE rows'[j] \subseteq unaware'[j]
      BY <1>5 DEF ErasedStaysErased
    <2>1. j \in Ids /\ rows[j] \subseteq unaware[j]
      BY <1>1 DEF AccountsTypeOK, IInv, Erasure, ErasedStaysErased
    <2>2. j = i => txs[r].unaware
      BY <1>1, <1>2 DEF IInv, Erasure, TxKnowsDeletion, KnowsDeletion
    <2> QED
      BY <1>8, <2>1, <2>2
  <1>10. TxKnowsDeletion'
    <2> SUFFICES ASSUME NEW q \in Reqs PROVE KnowsDeletion(txs[q])'
      BY DEF TxKnowsDeletion
    <2>1. CASE q = r
      BY <1>4, <2>1 DEF KnowsDeletion, NoTx
    <2>2. CASE q # r
      <3>1. txs'[q] = txs[q] /\ KnowsDeletion(txs[q])
        BY <1>4, <2>2 DEF IInv, Erasure, TxKnowsDeletion
      <3>2. ASSUME txs[q].op = "delete"
            PROVE  rows'[txs[q].id] \subseteq unaware'[txs[q].id] \cup txs[q].doomed
        <4>1. txs[q].id \in Ids
          BY <1>1, <3>2, TxFields DEF NoTx
        <4>2. txs[q].id = i => BeingDeleted(i)
          BY <3>2 DEF BeingDeleted
        <4> QED
          BY <1>8, <3>1, <3>2, <4>1, <4>2 DEF KnowsDeletion
      <3> QED
        BY <1>5, <3>1, <3>2 DEF KnowsDeletion
    <2> QED
      BY <2>1, <2>2
  <1>11. Erasure'
    BY <1>5, <1>9, <1>10 DEF IInv, Erasure, ErasedDeleted
  <1>12. Trial'
    <2>1. \A v, j : (Has(j, v)' <=> Has(j, v)) /\ (OnTrial(j)' <=> OnTrial(j))
      BY <1>5 DEF Has, OnTrial, Live, Exists
    <2>2. Followed' = Followed
      BY <1>5 DEF Followed
    <2>3. \A q \in Reqs : txs'[q] = txs[q] \/ txs'[q].op # "signin" \/ ~txs'[q].new
      BY <1>4 DEF NoTx
    <2> QED
      BY <1>5, <2>1, <2>2, <2>3, TrialStays DEF IInv
  <1> QED
    BY <1>7, <1>11, <1>12 DEF IInv

\* What the cascade did not see was written by work that overlapped it.
LEMMA DeleteCommitPreserves ==
  ASSUME IInv, NEW r \in Reqs, DeleteCommit(r)
  PROVE  IInv'
  <1>1. txs[r].op = "delete" /\ AccountsTypeOK /\ txs[r].id \in Ids
    BY TxFields DEF DeleteCommit, IInv, Structure, NoTx
  <1>2. PICK i \in Ids : i = txs[r].id
    BY <1>1
  <1>3. PICK doomed : doomed = txs[r].doomed
    OBVIOUS
  <1>4. UNCHANGED <<links, job, night, served, lag, excused, hooked, overrides, begun>>
    BY DEF DeleteCommit, trialVars, EndDeletion
  <1>5. /\ \A j \in Ids : rows'[j] = IF j = i THEN rows[j] \ doomed ELSE rows[j]
        /\ \A j \in Ids : unaware'[j] = IF j = i THEN unaware[j] \ doomed ELSE unaware[j]
        /\ \A j \in Ids \ {i} : users'[j] = users[j]
        /\ erased' = erased \cup {i}
    BY <1>1, <1>2, <1>3 DEF DeleteCommit, AccountsTypeOK
  <1>6. \A q \in Reqs :
           txs'[q] = IF q = r THEN NoTx
                     ELSE IF txs[q].op = "work" /\ txs[q].id = i
                     THEN [txs[q] EXCEPT !.unaware = TRUE] ELSE txs[q]
    BY <1>2 DEF DeleteCommit, EndDeletion
  <1>7. /\ Exists(i) /\ users[i] \in User /\ users'[i] \in User
        /\ users'[i].deleted
        /\ users'[i].login = users[i].login /\ users'[i].email = users[i].email
        /\ users'[i].days = users[i].days
    <2>1. Exists(i)
      BY <1>1, <1>2 DEF IInv, Structure, TxOfUsers, OfUsers
    <2>2. users[i] \in User
      BY <1>1, <2>1, UserFields
    <2>3. users'[i] = [users[i] EXCEPT !.deleted = TRUE]
      BY <1>1, <1>2 DEF DeleteCommit, AccountsTypeOK
    <2> QED
      BY <2>1, <2>2, <2>3 DEF User
  <1>8. ASSUME NEW q \in Reqs
        PROVE  /\ txs'[q] \in SignIn \cup Hook \cup Deletion \cup Work \cup {NoTx}
               /\ \/ txs'[q] \in {txs[q], NoTx}
                  \/ /\ txs[q].op = "work" /\ txs'[q].op = "work" /\ txs'[q].id = txs[q].id
                     /\ txs'[q].unaware
               /\ txs'[q].op = "work" /\ txs'[q].id = i => txs'[q].unaware
    <2>1. CASE q = r
      <3>1. txs'[q] = NoTx
        BY <1>6, <2>1
      <3> QED
        BY <3>1 DEF NoTx
    <2>2. CASE q # r /\ txs[q].op = "work" /\ txs[q].id = i
      <3>1. txs[q] \in Work /\ txs'[q] = [txs[q] EXCEPT !.unaware = TRUE]
        BY <1>1, <1>6, <2>2, TxFields
      <3> QED
        BY <2>2, <3>1 DEF Work
    <2>3. CASE q # r /\ ~(txs[q].op = "work" /\ txs[q].id = i)
      <3>1. txs'[q] = txs[q]
        BY <1>6, <2>3
      <3> QED
        BY <1>1, <2>3, <3>1 DEF AccountsTypeOK
    <2> QED
      BY <2>1, <2>2, <2>3
  <1>9. AccountsTypeOK'
    <2>1. users' \in [Ids -> User \cup {NoUser}]
      <3>1. users' = [users EXCEPT ![i] = users'[i]]
        BY <1>1, <1>2 DEF DeleteCommit, AccountsTypeOK
      <3> QED
        BY <1>1, <1>7, <3>1 DEF AccountsTypeOK
    <2>2. /\ rows' \in [Ids -> SUBSET (1..MaxRows)] /\ unaware' \in [Ids -> SUBSET (1..MaxRows)]
          /\ erased' \subseteq Ids
      BY <1>1 DEF DeleteCommit, AccountsTypeOK
    <2>3. txs' \in [Reqs -> SignIn \cup Hook \cup Deletion \cup Work \cup {NoTx}]
      <3>1. txs' = [q \in Reqs |-> txs'[q]]
        BY DEF DeleteCommit, EndDeletion
      <3> QED
        BY <1>8, <3>1
    <2> QED
      BY <1>1, <1>4, <2>1, <2>2, <2>3 DEF AccountsTypeOK
  <1>10. users'[i] # NoUser
    BY <1>7 DEF User, NoUser
  <1>11. Structure'
    <2>1. \A j \in Ids : Exists(j) => Exists(j)'
      BY <1>5, <1>10 DEF Exists, NoUser
    <2>2. night' >= night
      BY <1>1, <1>4 DEF AccountsTypeOK
    <2> QED
      BY <1>4, <1>8, <1>9, <2>1, <2>2, StructureStays DEF IInv
  <1>12. ErasedDeleted'
    BY <1>1, <1>5, <1>7 DEF IInv, Erasure, ErasedDeleted, AccountsTypeOK
  <1>13. ErasedStaysErased'
    <2>1. rows[i] \subseteq unaware[i] \cup doomed
      BY <1>1, <1>2, <1>3 DEF IInv, Erasure, TxKnowsDeletion, KnowsDeletion
    <2> QED
      BY <1>1, <1>5, <2>1 DEF IInv, Erasure, ErasedStaysErased, AccountsTypeOK
  <1>14. TxKnowsDeletion'
    <2> SUFFICES ASSUME NEW q \in Reqs PROVE KnowsDeletion(txs[q])'
      BY DEF TxKnowsDeletion
    <2>1. KnowsDeletion(txs[q])
      BY DEF IInv, Erasure, TxKnowsDeletion
    <2>2. CASE txs'[q] = NoTx
      BY <2>2 DEF KnowsDeletion, NoTx
    <2>3. CASE txs'[q] = txs[q] /\ txs[q].op = "delete"
      <3>1. txs[q].id \in Ids
        BY <1>1, <2>3, TxFields DEF NoTx
      <3>2. rows[txs[q].id] \subseteq unaware[txs[q].id] \cup txs[q].doomed
        BY <2>1, <2>3 DEF KnowsDeletion
      <3>3. rows'[txs[q].id] \subseteq unaware'[txs[q].id] \cup txs[q].doomed
        BY <1>5, <3>1, <3>2
      <3> QED
        BY <2>3, <3>3 DEF KnowsDeletion
    <2>4. CASE txs'[q].op = "work"
      <3>1. txs'[q].id \in erased' => txs'[q].unaware
        <4>1. CASE txs'[q].id = i
          BY <1>8, <2>4, <4>1
        <4>2. CASE txs'[q].id # i
          BY <1>5, <1>8, <2>1, <2>2, <2>4, <4>2 DEF KnowsDeletion, NoTx
        <4> QED
          BY <4>1, <4>2
      <3> QED
        BY <2>4, <3>1 DEF KnowsDeletion
    <2>5. CASE txs'[q] = txs[q] /\ txs[q].op \notin {"work", "delete"}
      BY <2>5 DEF KnowsDeletion
    <2> QED
      BY <1>8, <2>2, <2>3, <2>4, <2>5
  <1>15. Trial'
    <2>1. ASSUME NEW v, NEW j \in Ids
          PROVE  /\ Has(j, v)' <=> Has(j, v)
                 /\ users'[j].days = users[j].days /\ (OnTrial(j)' => OnTrial(j))
      <3>1. CASE j = i
        BY <1>4, <1>7, <3>1 DEF Has, OnTrial, Live
      <3>2. CASE j # i
        BY <1>4, <1>5, <3>2 DEF Has, OnTrial, Live, Exists
      <3> QED
        BY <3>1, <3>2
    <2>2. Followed' = Followed
      BY <1>4 DEF Followed
    <2>3. \A q \in Reqs : txs'[q] = txs[q] \/ txs'[q].op # "signin" \/ ~txs'[q].new
      BY <1>8 DEF NoTx
    <2> QED
      BY <1>4, <2>1, <2>2, <2>3, TrialStays DEF IInv
  <1> QED
    BY <1>11, <1>12, <1>13, <1>14, <1>15 DEF IInv, Erasure

-----------------------------------------------------------------------------
(* Overrides *)

\* An override changes one row: its plan or its days, and no vector but to
\* unlink machines.
LEMMA OverrideKeeps ==
  ASSUME IInv, NEW i \in Ids, NEW u \in User, NEW changed \in SUBSET Vectors,
         Override(changed), Exists(i), users' = [users EXCEPT ![i] = u],
         users[i].deleted => u.deleted, u.login = users[i].login, u.email = users[i].email,
         links' = links \/ links' = {l \in links : l[1] # i},
         UNCHANGED <<txs, erased, begun>>,
         rows' \in [Ids -> SUBSET (1..MaxRows)], unaware' \in [Ids -> SUBSET (1..MaxRows)]
  PROVE  /\ Structure' /\ ErasedDeleted'
         /\ job' = job /\ night' = night /\ txs' = txs /\ Followed' \subseteq Followed
         /\ \A v \in Followed' : /\ v \notin changed
                                 /\ served'[v] = served[v] /\ lag'[v] = lag[v]
         /\ \A j \in Ids \ {i} : OnTrial(j)' <=> OnTrial(j)
         /\ \A j \in Ids \ {i} : \A v : Has(j, v)' <=> Has(j, v)
         /\ \A v : (Has(i, v)' => Has(i, v)) /\ (links' = links => (Has(i, v)' <=> Has(i, v)))
  <1>1. AccountsTypeOK /\ Track({}, {}, 0, changed) /\ UNCHANGED <<job, night, hooked, txs, erased, begun>>
    BY DEF Override, IInv, Structure
  <1>2. /\ served' \in [Vectors -> Nat] /\ lag' \in [Vectors -> Nat] /\ excused' \subseteq Vectors
        /\ \A v \in Vectors \ excused' : /\ v \notin excused /\ v \notin changed
                                         /\ served'[v] = served[v] /\ lag'[v] = lag[v]
    BY <1>1 DEF Track, AccountsTypeOK
  <1>3. Followed' \subseteq Followed /\ \A v \in Followed' : v \in Vectors \ excused'
    BY <1>1, <1>2 DEF Followed
  <1>4. \A j \in Ids : users'[j] = IF j = i THEN u ELSE users[j]
    BY <1>1 DEF AccountsTypeOK
  <1>5. AccountsTypeOK'
    <2>1. users' \in [Ids -> User \cup {NoUser}] /\ links' \subseteq Ids \X Machines
      BY <1>1 DEF AccountsTypeOK
    <2>2. overrides' \in 0..MaxOverrides
      BY <1>1, AccountsAssumption DEF Override, AccountsTypeOK
    <2> QED
      BY <1>1, <1>2, <2>1, <2>2 DEF AccountsTypeOK
  <1>6. u # NoUser /\ users'[i] = u
    BY <1>4 DEF User, NoUser
  <1>7. Structure'
    <2>1. \A j \in Ids : Exists(j) => Exists(j)'
      BY <1>4, <1>6 DEF Exists, NoUser
    <2>2. night' >= night
      BY <1>1 DEF AccountsTypeOK
    <2> QED
      BY <1>1, <1>5, <2>1, <2>2, StructureStays DEF IInv
  <1>8. ErasedDeleted'
    BY <1>1, <1>4 DEF IInv, Erasure, ErasedDeleted, AccountsTypeOK
  <1>9. \A j \in Ids : \A v :
           /\ <<j, v>> \in links' => <<j, v>> \in links
           /\ j # i => (<<j, v>> \in links' <=> <<j, v>> \in links)
    OBVIOUS
  <1>10. ASSUME NEW v, NEW j \in Ids \ {i}
         PROVE  (Has(j, v)' <=> Has(j, v)) /\ (OnTrial(j)' <=> OnTrial(j))
    <2>1. users'[j] = users[j]
      BY <1>4
    <2> QED
      BY <1>9, <2>1 DEF Has, OnTrial, Live, Exists
  <1>11. ASSUME NEW v
         PROVE  (Has(i, v)' => Has(i, v)) /\ (links' = links => (Has(i, v)' <=> Has(i, v)))
    BY <1>6, <1>9 DEF Has
  <1> QED
    BY <1>1, <1>2, <1>3, <1>4, <1>7, <1>8, <1>10, <1>11

\* An account that goes back to its trial shares no vector that is followed, so
\* that the nights of its vectors are its own.
LEMMA SetPlanPreserves ==
  ASSUME IInv, NEW i \in Ids, NEW plan \in {"free", "paid"}, SetPlan(i, plan)
  PROVE  IInv'
  <1> DEFINE u == [users[i] EXCEPT !.plan = plan]
             changed == IF plan = "free" THEN Shared(i) ELSE {}
  <1>1. AccountsTypeOK /\ LinksOfUsers /\ Trial /\ Exists(i)
    BY DEF IInv, Structure, SetPlan
  <1>2. /\ u \in User /\ u.login = users[i].login /\ u.email = users[i].email
        /\ u.deleted = users[i].deleted /\ u.days = users[i].days /\ u.plan = plan
    <2>1. users[i] \in User
      BY <1>1, UserFields
    <2> QED
      BY <2>1 DEF User
  <1>3. changed \in SUBSET Vectors
    BY DEF Shared, VectorsOf
  <1>4. /\ users' = [users EXCEPT ![i] = u] /\ Override(changed)
        /\ UNCHANGED <<links, rows, txs, erased, unaware, begun>>
    BY DEF SetPlan
  <1>5. rows' \in [Ids -> SUBSET (1..MaxRows)] /\ unaware' \in [Ids -> SUBSET (1..MaxRows)]
    BY <1>1, <1>4 DEF AccountsTypeOK
  <1> HIDE DEF u, changed
  <1>6. /\ Structure' /\ ErasedDeleted'
        /\ job' = job /\ night' = night /\ txs' = txs /\ Followed' \subseteq Followed
        /\ \A j \in Ids : users'[j] = IF j = i THEN u ELSE users[j]
        /\ \A v \in Followed' : /\ v \notin changed
                                /\ served'[v] = served[v] /\ lag'[v] = lag[v]
        /\ \A j \in Ids \ {i} : OnTrial(j)' <=> OnTrial(j)
        /\ \A j \in Ids \ {i} : \A v : Has(j, v)' <=> Has(j, v)
        /\ \A v : Has(i, v)' <=> Has(i, v)
    <2>1. users[i].deleted => u.deleted
      BY <1>2
    <2>2. UNCHANGED <<txs, erased, begun>> /\ links' = links
      BY <1>4
    <2>3. Structure' /\ ErasedDeleted'
      BY <1>1, <1>2, <1>3, <1>4, <1>5, <2>1, <2>2, OverrideKeeps
    <2>4. job' = job /\ night' = night /\ txs' = txs /\ Followed' \subseteq Followed
      BY <1>1, <1>2, <1>3, <1>4, <1>5, <2>1, <2>2, OverrideKeeps
    <2>5. \A j \in Ids : users'[j] = IF j = i THEN u ELSE users[j]
      BY <1>1, <1>4 DEF AccountsTypeOK
    <2>6. \A v \in Followed' : /\ v \notin changed
                             /\ served'[v] = served[v] /\ lag'[v] = lag[v]
      BY <1>1, <1>2, <1>3, <1>4, <1>5, <2>1, <2>2, OverrideKeeps
    <2>7. /\ \A j \in Ids \ {i} : OnTrial(j)' <=> OnTrial(j)
          /\ \A j \in Ids \ {i} : \A v : Has(j, v)' <=> Has(j, v)
      BY <1>1, <1>2, <1>3, <1>4, <1>5, <2>1, <2>2, OverrideKeeps
    <2>8. \A v : Has(i, v)' <=> Has(i, v)
      BY <1>1, <1>2, <1>3, <1>4, <1>5, <2>1, <2>2, OverrideKeeps
    <2> QED
      BY <2>3, <2>4, <2>5, <2>6, <2>7, <2>8
  <1>7. Erasure'
    BY <1>1, <1>4, <1>6
       DEF IInv, Erasure, TxKnowsDeletion, KnowsDeletion, ErasedStaysErased
  <1>8. Counted' = Counted /\ \A j \in Ids : users'[j].days = users[j].days
    BY <1>2, <1>6 DEF Counted
  <1>9. ASSUME NEW v \in Followed', OnTrial(i)', Has(i, v)
        PROVE  \A j \in Ids \ {i} : ~Has(j, v)
    <2>1. plan = "free" /\ v \in Vectors /\ v \notin changed
      BY <1>2, <1>6, <1>9 DEF OnTrial, Followed
    <2> QED
      BY <1>9, <2>1 DEF changed, Shared, VectorsOf
  <1>10. SomeAccountCounts' /\ CountedTrials' /\ SignInsCarry'
    <2>1. \A v, j : j \in Ids => (Has(j, v)' <=> Has(j, v))
      BY <1>6
    <2>2. Counted \subseteq Ids
      BY DEF Counted
    <2> QED
      BY <1>1, <1>6, <1>8, <2>1, <2>2
         DEF Trial, SomeAccountCounts, CountedTrials, SignInsCarry, Carries
  <1>11. TrialsCount'
    <2> SUFFICES ASSUME NEW v \in Followed', NEW j \in Ids, OnTrial(j)', Has(j, v)'
                 PROVE  served'[v] <= users'[j].days + lag'[v]
      BY DEF TrialsCount
    <2>1. CASE j # i
      BY <1>1, <1>6, <1>8, <2>1 DEF Trial, TrialsCount
    <2>2. CASE j = i
      <3>1. \A k \in Ids : Has(k, v) => k = i
        BY <1>6, <1>9, <2>2
      <3>2. v \in Vectors /\ v \in Followed
        BY <1>6 DEF Followed
      <3>3. served[v] \in Nat /\ lag[v] \in Nat /\ users[i].days \in Nat
        BY <1>1, <3>2, UserFields DEF AccountsTypeOK
      <3>4. served[v] <= users[i].days + lag[v]
        BY <1>1, <3>1, <3>2, <3>3 DEF Trial, SomeAccountCounts
      <3> QED
        BY <1>6, <1>8, <2>2, <3>4
    <2> QED
      BY <2>1, <2>2
  <1>12. LeftOut'
    <2> SUFFICES ASSUME NEW v \in Followed', NEW j \in Ids \ Counted,
                        job.running, OnTrial(j)', Has(j, v)'
                 PROVE  \/ users'[j].days >= TrialDays
                        \/ served'[v] < users'[j].days + lag'[v]
                        \/ \A k \in Ids \ {j} : ~Has(k, v)'
      BY <1>6, <1>8 DEF LeftOut
    <2>1. CASE j # i
      <3>1. \A k \in Ids : Has(k, v)' <=> Has(k, v)
        BY <1>6
      <3>2. OnTrial(j)
        BY <1>6, <2>1
      <3> QED
        BY <1>1, <1>6, <1>8, <2>1, <3>1, <3>2 DEF Trial, LeftOut
    <2>2. CASE j = i
      BY <1>6, <1>9, <2>2
    <2> QED
      BY <2>1, <2>2
  <1> QED
    BY <1>6, <1>7, <1>10, <1>11, <1>12 DEF IInv, Trial

\* A reset excuses the vectors of the account.
LEMMA ResetPreserves ==
  ASSUME IInv, NEW i \in Ids,
         ResetTrial(i) \/ \E reset \in BOOLEAN : ResetUserTelemetry(i, reset)
  PROVE  IInv'
  <1>1. AccountsTypeOK /\ LinksOfUsers /\ Trial /\ Exists(i) /\ users[i] \in User
    BY UserFields DEF IInv, Structure, ResetTrial, ResetUserTelemetry, Live
  <1>2. PICK days \in 0..TrialDays : users' = [users EXCEPT ![i].days = days]
    <2>1. 0 \in 0..TrialDays /\ users[i].days \in 0..TrialDays
      BY <1>1, UserFields, AccountsAssumption
    <2>2. CASE ResetTrial(i)
      BY <2>1, <2>2 DEF ResetTrial
    <2>3. ASSUME NEW reset \in BOOLEAN, ResetUserTelemetry(i, reset)
          PROVE  users' = [users EXCEPT ![i].days = IF reset THEN 0 ELSE users[i].days]
      BY <2>3 DEF ResetUserTelemetry
    <2> QED
      BY <2>1, <2>2, <2>3
  <1> DEFINE u == [users[i] EXCEPT !.days = days]
  <1>3. /\ u \in User /\ u.login = users[i].login /\ u.email = users[i].email
        /\ u.deleted = users[i].deleted
    BY <1>1 DEF User
  <1>4. users' = [users EXCEPT ![i] = u]
    BY <1>2
  <1>5. VectorsOf(i) \in SUBSET Vectors /\ Override(VectorsOf(i))
    BY DEF VectorsOf, ResetTrial, ResetUserTelemetry
  <1>6. /\ UNCHANGED <<txs, erased, begun>>
        /\ links' = links \/ links' = {l \in links : l[1] # i}
    BY DEF ResetTrial, ResetUserTelemetry
  <1>7. PICK gone \in SUBSET (1..MaxRows) :
           /\ rows' = [rows EXCEPT ![i] = @ \ gone] /\ unaware' = [unaware EXCEPT ![i] = @ \ gone]
    <2>1. CASE ResetTrial(i)
      <3>1. rows' = [rows EXCEPT ![i] = @ \ {}] /\ unaware' = [unaware EXCEPT ![i] = @ \ {}]
        BY <1>1, <2>1 DEF ResetTrial, AccountsTypeOK
      <3> QED
        BY <3>1
    <2>2. CASE \E reset \in BOOLEAN : ResetUserTelemetry(i, reset)
      BY <1>1, <2>2 DEF ResetUserTelemetry, AccountsTypeOK
    <2> QED
      BY <2>1, <2>2
  <1>8. /\ rows' \in [Ids -> SUBSET (1..MaxRows)] /\ unaware' \in [Ids -> SUBSET (1..MaxRows)]
        /\ \A j \in Ids : /\ rows'[j] = IF j = i THEN rows[j] \ gone ELSE rows[j]
                          /\ unaware'[j] = IF j = i THEN unaware[j] \ gone ELSE unaware[j]
    BY <1>1, <1>7 DEF AccountsTypeOK
  <1> HIDE DEF u
  <1>9. /\ Structure' /\ ErasedDeleted'
        /\ job' = job /\ night' = night /\ txs' = txs /\ Followed' \subseteq Followed
        /\ \A j \in Ids : users'[j] = IF j = i THEN u ELSE users[j]
        /\ \A v \in Followed' : /\ v \notin VectorsOf(i)
                                /\ served'[v] = served[v] /\ lag'[v] = lag[v]
        /\ \A j \in Ids \ {i} : OnTrial(j)' <=> OnTrial(j)
        /\ \A j \in Ids \ {i} : \A v : Has(j, v)' <=> Has(j, v)
        /\ \A v : Has(i, v)' => Has(i, v)
    <2>1. users[i].deleted => u.deleted
      BY <1>3
    <2>2. Structure' /\ ErasedDeleted'
      BY <1>1, <1>3, <1>4, <1>5, <1>6, <1>8, <2>1, OverrideKeeps
    <2>3. job' = job /\ night' = night /\ txs' = txs /\ Followed' \subseteq Followed
      BY <1>1, <1>3, <1>4, <1>5, <1>6, <1>8, <2>1, OverrideKeeps
    <2>4. \A j \in Ids : users'[j] = IF j = i THEN u ELSE users[j]
      BY <1>1, <1>4 DEF AccountsTypeOK
    <2>5. \A v \in Followed' : /\ v \notin VectorsOf(i)
                             /\ served'[v] = served[v] /\ lag'[v] = lag[v]
      BY <1>1, <1>3, <1>4, <1>5, <1>6, <1>8, <2>1, OverrideKeeps
    <2>6. /\ \A j \in Ids \ {i} : OnTrial(j)' <=> OnTrial(j)
          /\ \A j \in Ids \ {i} : \A v : Has(j, v)' <=> Has(j, v)
      BY <1>1, <1>3, <1>4, <1>5, <1>6, <1>8, <2>1, OverrideKeeps
    <2>7. \A v : Has(i, v)' => Has(i, v)
      BY <1>1, <1>3, <1>4, <1>5, <1>6, <1>8, <2>1, OverrideKeeps
    <2> QED
      BY <2>2, <2>3, <2>4, <2>5, <2>6, <2>7
  <1>10. Erasure'
    <2>1. ErasedStaysErased'
      BY <1>1, <1>6, <1>8 DEF IInv, Erasure, ErasedStaysErased, AccountsTypeOK
    <2>2. ASSUME NEW q \in Reqs PROVE KnowsDeletion(txs[q])'
      <3>1. KnowsDeletion(txs[q])
        BY DEF IInv, Erasure, TxKnowsDeletion
      <3>2. txs[q].op = "delete" => txs[q].id \in Ids
        BY <1>1, TxFields DEF NoTx
      <3> QED
        BY <1>6, <1>8, <3>1, <3>2 DEF KnowsDeletion
    <2> QED
      BY <1>9, <2>1, <2>2 DEF Erasure, TxKnowsDeletion
  <1>11. Trial'
    <2>1. ASSUME NEW v \in Followed', NEW j \in Ids
          PROVE  /\ Has(j, v)' <=> Has(j, v)
                 /\ Has(j, v) => /\ users'[j].days = users[j].days
                                 /\ OnTrial(j)' => OnTrial(j)
      <3>1. v \in Vectors /\ v \notin VectorsOf(i)
        BY <1>9 DEF Followed
      <3>2. ~Has(i, v)
        BY <3>1 DEF VectorsOf
      <3> QED
        BY <1>9, <3>2
    <2> QED
      BY <1>1, <1>9, <2>1, TrialStays
  <1> QED
    BY <1>9, <1>10, <1>11 DEF IInv

-----------------------------------------------------------------------------

LEMMA StepPreserves == IInv /\ [AccountsNext]_accountVars => IInv'
  <1> SUFFICES ASSUME IInv, [AccountsNext]_accountVars PROVE IInv'
    OBVIOUS
  <1>1. CASE UNCHANGED accountVars
    <2> USE <1>1 DEF accountVars
    <2>1. AccountsTypeOK'
      BY DEF IInv, Structure, AccountsTypeOK
    <2>2. LinksOfUsers' /\ JobOfUsers' /\ TxOfUsers'
      BY DEF IInv, Structure, LinksOfUsers, JobOfUsers, TxOfUsers, OfUsers, Exists, Counted
    <2>3. Erasure'
      BY DEF IInv, Erasure, ErasedDeleted, TxKnowsDeletion, KnowsDeletion, ErasedStaysErased
    <2>4. /\ Followed' = Followed /\ Counted' = Counted
          /\ \A v, j : (Has(j, v)' <=> Has(j, v)) /\ (OnTrial(j)' <=> OnTrial(j))
      BY DEF Followed, Counted, Has, OnTrial, Live, Exists
    <2>5. Trial'
      BY <2>4 DEF IInv, Trial, SomeAccountCounts, TrialsCount, CountedTrials, LeftOut,
                  SignInsCarry, Carries
    <2> QED
      BY <2>1, <2>2, <2>3, <2>5 DEF IInv, Structure
  <1>2. ASSUME NEW r \in Reqs, RequestStep(r) PROVE IInv'
    BY <1>2, GetOrCreateUserPreserves, OtherBeginsPreserve, SignInCommitPreserves,
       HookCommitPreserves, RollbackPreserves, WorkCommitPreserves, DeleteCommitPreserves
       DEF RequestStep
  <1>3. CASE NightRead \/ NightCommit \/ NightFails
    BY <1>3, NightReadPreserves, NightCommitPreserves, NightFailsPreserves
  <1>4. ASSUME NEW i \in Ids,
               \/ \E plan \in {"free", "paid"} : SetPlan(i, plan)
               \/ ResetTrial(i)
               \/ \E reset \in BOOLEAN : ResetUserTelemetry(i, reset)
        PROVE  IInv'
    BY <1>4, SetPlanPreserves, ResetPreserves
  <1> QED
    BY <1>1, <1>2, <1>3, <1>4 DEF AccountsNext

LEMMA InvariantHolds == AccountsSpec => []IInv
  BY InitEstablishes, StepPreserves, PTL DEF AccountsSpec

\* Rows, links, transactions and what the night has read keep their types: in
\* particular no day counter passes TRIAL_DAYS (trial_abuse.py).
THEOREM TypeCorrect == AccountsSpec => []AccountsTypeOK
  <1>1. IInv => AccountsTypeOK
    BY DEF IInv, Structure
  <1> QED
    BY <1>1, InvariantHolds, PTL

\* One trial for all: the accounts that share a login, an e-mail address or a
\* machine use no more nights of trial than TRIAL_DAYS between them, but for
\* those that a sign-in overlapped (get_or_create_user_by_github,
\* increment_trial_days).
THEOREM TrialServedOnceInvariant == AccountsSpec => []TrialServedOnce
  <1>1. IInv => TrialServedOnce
    <2> SUFFICES ASSUME IInv, NEW v \in Followed PROVE served[v] <= TrialDays + lag[v]
      BY DEF TrialServedOnce, Followed
    <2>1. AccountsTypeOK /\ v \in Vectors
      BY DEF IInv, Structure, Followed
    <2>2. served[v] \in Nat /\ lag[v] \in Nat /\ TrialDays \in Nat
      BY <2>1, AccountsAssumption DEF AccountsTypeOK
    <2>3. CASE served[v] <= lag[v]
      BY <2>2, <2>3
    <2>4. ASSUME NEW i \in Ids, served[v] <= users[i].days + lag[v]
          PROVE  served[v] <= TrialDays + lag[v]
      <3>1. users[i].days \in 0..TrialDays
        BY <2>1, UserFields
      <3> QED
        BY <2>2, <2>4, <3>1
    <2> QED
      BY <2>3, <2>4 DEF IInv, Trial, SomeAccountCounts
  <1> QED
    BY <1>1, InvariantHolds, PTL

\* A deletion lasts: what a deleted account owns was written by requests that
\* were under way when it was deleted or that never ask whether it is
\* (delete_user, get_user_from_token).
THEOREM ErasedStaysErasedInvariant == AccountsSpec => []ErasedStaysErased
  <1>1. IInv => ErasedStaysErased
    BY DEF IInv, Erasure
  <1> QED
    BY <1>1, InvariantHolds, PTL

=============================================================================
