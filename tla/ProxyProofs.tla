---------------------------- MODULE ProxyProofs ----------------------------
(***************************************************************************)
(* Proofs about what an AI request passes and leaves behind: its rate      *)
(* limit, for every window, limit, clock delay and number of requests;     *)
(* then the context gate, the counters and the model cache, for every      *)
(* number of models, calls, refreshes, sessions and days.                  *)
(***************************************************************************)
EXTENDS RateLimit, Usage, TLAPS, FiniteSetTheorems

-----------------------------------------------------------------------------
(* The rate limit.  The heart of the argument is Kept: an admission that   *)
(* no longer has its entry in Redis is at least a window old.              *)

EntryOf(a) == [id |-> a.id, stamp |-> a.stamp]

\* Every clock reading is recent, and requests have ids of their own.
Recent ==
    /\ touched <= now
    /\ \A r \in flight : r.stamp <= now /\ r.id <= started
    /\ \A r \in flight : r.step = "stamped" => now <= r.stamp + MaxDelay
    /\ \A i \in 1..Len(admitted) :
          /\ admitted[i].id <= started
          /\ admitted[i].stamp <= admitted[i].at
          /\ admitted[i].at <= admitted[i].stamp + MaxDelay
          /\ admitted[i].at <= touched

Distinct ==
    /\ \A r, q \in flight : r.id = q.id => r = q
    /\ \A r \in flight, i \in 1..Len(admitted) : admitted[i].id # r.id
    /\ \A i, j \in 1..Len(admitted) : admitted[i].id = admitted[j].id => i = j

Kept ==
    \A i \in 1..Len(admitted) :
        \/ EntryOf(admitted[i]) \in entries
        \/ admitted[i].stamp + Window <= now

IInv == /\ TypeOK
        /\ IsFiniteSet(entries)
        /\ Recent
        /\ Distinct
        /\ Kept
        /\ WithinLimit

LEMMA AdmittedType ==
  ASSUME TypeOK, NEW i \in 1..Len(admitted)
  PROVE  admitted[i] \in Admission
  BY DEF TypeOK

LEMMA InitEstablishes == Init => IInv
  <1> SUFFICES ASSUME Init PROVE IInv
    OBVIOUS
  <1>1. TypeOK
    BY DEF Init, TypeOK, Denial, NoDenial
  <1>2. IsFiniteSet(entries)
    BY FS_EmptySet DEF Init
  <1>3. Len(admitted) = 0
    BY DEF Init
  <1> QED
    BY <1>1, <1>2, <1>3 DEF Init, IInv, Recent, Distinct, Kept, WithinLimit

\* The retry_after of a denial is a whole number of seconds.
LEMMA RetryAfterType ==
  ASSUME NEW oldest \in Nat, NEW stamp \in Nat
  PROVE  RetryAfter(oldest, stamp) \in Nat
  <1>1. (oldest + Window - stamp) \div Second \in Int
    BY ConstantsAssumption
  <1> QED
    BY <1>1 DEF RetryAfter

LEMMA WaitsType ==
  ASSUME TypeOK, NEW r \in flight
  PROVE  \A seconds \in Waits(r) : Second * seconds \in Nat
  <1>1. \A e \in Oldest : RetryAfter(e.stamp, r.stamp) \in Nat
    BY RetryAfterType DEF TypeOK, Oldest, Entry, Request
  <1>2. Window \div Second \in Nat
    BY ConstantsAssumption
  <1>3. Waits(r) \subseteq Nat
    BY <1>1, <1>2 DEF Waits
  <1>4. \A seconds \in Nat : Second * seconds \in Nat
    BY ConstantsAssumption
  <1> QED
    BY <1>3, <1>4

\* What a denied request is told.
LEMMA ReadOldestTells ==
  ASSUME TypeOK, IsFiniteSet(entries), NEW r \in flight, ReadOldest(r)
  PROVE  /\ denied' \in Denial
         /\ denied'.id = r.id /\ denied'.limit = r.limit
         /\ denied'.others = Cardinality(NotOf(r.id))
         /\ \E seconds \in Waits(r) : /\ denied'.wait = Second * seconds
                                      /\ denied'.until = now + Second * seconds
  <1>1. PICK seconds \in Waits(r) :
            denied' = [id |-> r.id, limit |-> r.limit, wait |-> Second * seconds,
                       until |-> now + Second * seconds,
                       others |-> Cardinality(NotOf(r.id))]
    BY DEF ReadOldest
  <1>2. Second * seconds \in Nat
    BY WaitsType
  <1>3. r.id \in Nat /\ r.limit \in Nat /\ now \in Nat
    BY ConstantsAssumption DEF TypeOK, Request
  <1>4. now + Second * seconds \in Nat
    BY <1>2, <1>3
  <1>5. Cardinality(NotOf(r.id)) \in Nat
    BY FS_Subset, FS_CardinalityType DEF NotOf
  <1> QED
    BY <1>1, <1>2, <1>3, <1>4, <1>5 DEF Denial

\* A pipeline leaves the younger entries alone, and adds that of its request.
LEMMA ExecuteEffect ==
  ASSUME IInv, NEW r \in flight, Execute(r)
  PROVE  /\ entries' \subseteq Entry /\ IsFiniteSet(entries')
         /\ EntryOf(r) \in entries'
         /\ \A e \in entries : e \in entries' \/ e.stamp + Window <= r.stamp
         /\ IsFiniteSet(Pruned(r.stamp))
         /\ touched' = now
  <1>1. Pruned(r.stamp) \subseteq entries
    BY DEF Pruned
  <1>2. IsFiniteSet(Pruned(r.stamp))
    BY <1>1, FS_Subset DEF IInv
  <1>3. entries' = Pruned(r.stamp) \cup {EntryOf(r)}
    BY DEF Execute, EntryOf
  <1>4. IsFiniteSet(entries')
    BY <1>2, <1>3, FS_AddElement
  <1>5. EntryOf(r) \in Entry /\ r.stamp \in Nat
    BY DEF IInv, TypeOK, Request, Entry, EntryOf
  <1>6. \A e \in entries : e.stamp \in Nat
    BY DEF IInv, TypeOK, Entry
  <1>7. \A e \in entries : e \in entries' \/ e.stamp + Window <= r.stamp
    BY <1>3, <1>5, <1>6, ConstantsAssumption DEF Pruned
  <1> QED
    BY <1>1, <1>2, <1>3, <1>4, <1>5, <1>7 DEF Execute, IInv, TypeOK

\* Of the earlier admissions in the window of a request that is admitted now,
\* each has an entry of its own that the pipeline counts.
LEMMA EarlierAreCounted ==
  ASSUME IInv, NEW r \in flight, r.step = "stamped",
         IsFiniteSet(Pruned(r.stamp)),
         NEW J, J = {j \in 1..Len(admitted) : admitted[j].at > now - (Window - MaxDelay)}
  PROVE  IsFiniteSet(J) /\ Cardinality(J) <= Cardinality(Pruned(r.stamp))
  <1> DEFINE f == [j \in J |-> EntryOf(admitted[j])]
  <1>1. ASSUME NEW j \in J PROVE EntryOf(admitted[j]) \in Pruned(r.stamp)
    <2>0. j \in 1..Len(admitted) /\ admitted[j].at > now - (Window - MaxDelay)
      OBVIOUS
    <2>1. admitted[j] \in Admission
      BY <2>0, AdmittedType DEF IInv
    <2>5. admitted[j].at \in Nat /\ admitted[j].stamp \in Nat
      BY <2>1 DEF Admission
    <2>2. admitted[j].stamp > now - Window
      BY <2>0, <2>5, ConstantsAssumption DEF IInv, Recent, TypeOK
    <2>3. EntryOf(admitted[j]) \in entries
      BY <2>0, <2>5, <2>2, ConstantsAssumption DEF IInv, Kept, TypeOK
    <2>4. r.stamp <= now /\ r.stamp \in Nat /\ now \in Nat
      BY DEF IInv, Recent, TypeOK, Request
    <2> QED
      BY <2>5, <2>2, <2>3, <2>4, ConstantsAssumption DEF Pruned, EntryOf
  <1>2. \A i, j \in J : EntryOf(admitted[i]) = EntryOf(admitted[j]) => i = j
    BY DEF IInv, Distinct, EntryOf
  <1>3. f \in Injection(J, Pruned(r.stamp))
    BY <1>1, <1>2 DEF Injection, IsInjective
  <1> QED
    BY <1>3, FS_Injection

\* Appending the admission of r, decided now, keeps every earlier one.
LEMMA AppendEffect ==
  ASSUME TypeOK, NEW a \in Admission, admitted' = Append(admitted, a)
  PROVE  /\ admitted' \in Seq(Admission)
         /\ Len(admitted') = Len(admitted) + 1
         /\ Len(admitted) \in Nat
         /\ \A i \in 1..Len(admitted) : admitted'[i] = admitted[i]
         /\ admitted'[Len(admitted) + 1] = a
  BY DEF TypeOK

LEMMA AllowPreserves ==
  ASSUME IInv, NEW r \in flight, Allow(r)
  PROVE  IInv'
  <1> DEFINE a == [id |-> r.id, stamp |-> r.stamp, limit |-> r.limit, at |-> now]
  <1> DEFINE n == Len(admitted)
  <1>1. r \in Request /\ r.step = "stamped" /\ a \in Admission
    BY DEF Allow, Execute, IInv, TypeOK, Request, Admission
  <1>2. /\ admitted' \in Seq(Admission)
        /\ Len(admitted') = n + 1
        /\ n \in Nat
        /\ \A i \in 1..n : admitted'[i] = admitted[i]
        /\ admitted'[n + 1] = a
    BY <1>1, AppendEffect DEF Allow, IInv
  <1>3. /\ entries' \subseteq Entry /\ IsFiniteSet(entries')
        /\ EntryOf(r) \in entries'
        /\ \A e \in entries : e \in entries' \/ e.stamp + Window <= r.stamp
        /\ IsFiniteSet(Pruned(r.stamp))
        /\ touched' = now
    BY ExecuteEffect DEF Allow
  <1>4. /\ now' = now /\ started' = started
        /\ flight' = flight \ {r} /\ denied' = NoDenial
        /\ Cardinality(Pruned(r.stamp)) < r.limit
    BY DEF Allow
  <1>5. TypeOK'
    BY <1>2, <1>3, <1>4 DEF IInv, TypeOK, Denial, NoDenial
  <1>6. \A i \in 1..(n + 1) : i \in 1..n \/ i = n + 1
    BY <1>2
  <1>7. \A i \in 1..n : /\ admitted[i].at \in Nat /\ admitted[i].stamp \in Nat
                        /\ admitted[i].id \in Nat
    BY AdmittedType DEF IInv, Admission
  <1>8. Recent'
    <2>1. \A i \in 1..n : /\ admitted'[i].id <= started'
                          /\ admitted'[i].stamp <= admitted'[i].at
                          /\ admitted'[i].at <= admitted'[i].stamp + MaxDelay
                          /\ admitted'[i].at <= touched'
      BY <1>2, <1>3, <1>4, <1>7 DEF IInv, Recent, TypeOK
    <2>2. /\ a.id <= started' /\ a.stamp <= a.at
          /\ a.at <= a.stamp + MaxDelay /\ a.at <= touched'
      BY <1>1, <1>3, <1>4 DEF IInv, Recent, TypeOK
    <2> QED
      BY <1>2, <1>3, <1>4, <1>6, <2>1, <2>2 DEF IInv, Recent, TypeOK
  <1>9. Distinct'
    <2>1. \A i \in 1..n : admitted'[i].id # r.id
      BY <1>2 DEF IInv, Distinct
    <2>2. \A q \in flight' : q \in flight /\ q.id # r.id
      BY <1>4 DEF IInv, Distinct
    <2>3. a.id = r.id
      OBVIOUS
    <2> QED
      BY <1>2, <1>6, <2>1, <2>2, <2>3 DEF IInv, Distinct
  <1>10. Kept'
    <2>1. r.stamp <= now /\ r.stamp \in Nat /\ now \in Nat
      BY <1>1 DEF IInv, Recent, TypeOK, Request
    <2>2. ASSUME NEW i \in 1..n
          PROVE  \/ EntryOf(admitted'[i]) \in entries'
                 \/ admitted'[i].stamp + Window <= now'
      <3>1. admitted'[i] = admitted[i] /\ admitted[i].stamp \in Nat
        BY <1>2, <1>7
      <3>2. CASE admitted[i].stamp + Window <= now
        BY <1>4, <3>1, <3>2
      <3>3. CASE EntryOf(admitted[i]) \in entries
        <4>1. \/ EntryOf(admitted[i]) \in entries'
              \/ EntryOf(admitted[i]).stamp + Window <= r.stamp
          BY <1>3, <3>3
        <4>2. EntryOf(admitted[i]).stamp = admitted[i].stamp
          BY DEF EntryOf
        <4> QED
          BY <1>4, <2>1, <3>1, <4>1, <4>2, ConstantsAssumption
      <3> QED
        BY <3>2, <3>3 DEF IInv, Kept
    <2>3. EntryOf(admitted'[n + 1]) \in entries'
      BY <1>2, <1>3 DEF EntryOf
    <2> QED
      BY <1>2, <1>6, <2>2, <2>3 DEF Kept
  <1>11. WithinLimit'
    <2>1. ASSUME NEW i \in 1..n PROVE InWindowOf(i)' = InWindowOf(i)
      BY <1>2 DEF InWindowOf
    <2>2. \A i \in 1..n : Cardinality(InWindowOf(i)') <= admitted'[i].limit
      BY <1>2, <2>1 DEF IInv, WithinLimit
    <2>3. ASSUME NEW i, i = n + 1 PROVE Cardinality(InWindowOf(i)') <= r.limit
      <3> DEFINE J == {j \in 1..n : admitted[j].at > now - (Window - MaxDelay)}
      <3>1. IsFiniteSet(J) /\ Cardinality(J) <= Cardinality(Pruned(r.stamp))
        BY <1>1, <1>3, EarlierAreCounted
      <3>2. InWindowOf(i)' \subseteq J \cup {n + 1}
        <4>1. admitted'[i].at = now
          BY <1>2, <2>3
        <4>2. ASSUME NEW j \in 1..(n + 1), j # n + 1,
                     admitted'[j].at > admitted'[i].at - (Window - MaxDelay)
              PROVE  j \in J
          BY <1>2, <1>6, <2>3, <4>1, <4>2
        <4> QED
          BY <2>3, <4>2 DEF InWindowOf
      <3> HIDE DEF J
      <3>7. Cardinality(J) \in Nat
        BY <3>1, FS_CardinalityType
      <3>8. /\ IsFiniteSet(J \cup {n + 1})
            /\ Cardinality(J \cup {n + 1}) =
                  IF n + 1 \in J THEN Cardinality(J) ELSE Cardinality(J) + 1
        BY <3>1, FS_AddElement
      <3>3. /\ IsFiniteSet(J \cup {n + 1})
            /\ Cardinality(J \cup {n + 1}) <= Cardinality(J) + 1
        BY <3>7, <3>8
      <3>4. Cardinality(InWindowOf(i)') <= Cardinality(J \cup {n + 1})
        BY <3>2, <3>3, FS_Subset
      <3>5. /\ IsFiniteSet(InWindowOf(i)')
            /\ Cardinality(InWindowOf(i)') \in Nat
            /\ Cardinality(J) \in Nat /\ Cardinality(J \cup {n + 1}) \in Nat
            /\ Cardinality(Pruned(r.stamp)) \in Nat
        BY <1>3, <3>1, <3>2, <3>3, FS_Subset, FS_CardinalityType
      <3>6. r.limit \in Nat
        BY <1>1, ConstantsAssumption DEF Request
      <3> QED
        BY <1>4, <3>1, <3>3, <3>4, <3>5, <3>6
    <2>4. ASSUME NEW i \in 1..(n + 1)
          PROVE  Cardinality(InWindowOf(i)') <= admitted'[i].limit
      <3>1. CASE i \in 1..n
        BY <2>2, <3>1
      <3>2. CASE i = n + 1
        BY <1>2, <2>3, <3>2
      <3> QED
        BY <1>6, <3>1, <3>2
    <2> QED
      BY <1>2, <2>4 DEF WithinLimit
  <1> QED
    BY <1>3, <1>5, <1>8, <1>9, <1>10, <1>11 DEF IInv

\* The admissions stay as they are, entries only go when they are too old.
LEMMA NothingAdmitted ==
  ASSUME IInv, UNCHANGED admitted, now' \in Nat, now <= now', TypeOK',
         IsFiniteSet(entries'),
         \A i \in 1..Len(admitted) :
            EntryOf(admitted[i]) \in entries
               => \/ EntryOf(admitted[i]) \in entries'
                  \/ admitted[i].stamp + Window <= now',
         Recent', Distinct'
  PROVE  IInv'
  <1>1. \A i \in 1..Len(admitted) : admitted[i].stamp \in Nat
    BY AdmittedType DEF IInv, Admission
  <1>2. now \in Nat /\ Window \in Nat
    BY ConstantsAssumption DEF IInv, TypeOK
  <1>3. Kept'
    <2> SUFFICES ASSUME NEW i \in 1..Len(admitted)
                 PROVE  \/ EntryOf(admitted[i]) \in entries'
                        \/ admitted[i].stamp + Window <= now'
      BY DEF Kept
    <2>1. \/ EntryOf(admitted[i]) \in entries
          \/ admitted[i].stamp + Window <= now
      BY DEF IInv, Kept
    <2> QED
      BY <1>1, <1>2, <2>1
  <1>4. WithinLimit'
    BY DEF IInv, WithinLimit, InWindowOf
  <1> QED
    BY <1>3, <1>4 DEF IInv

LEMMA StepPreserves == IInv /\ [Next]_vars => IInv'
  <1> SUFFICES ASSUME IInv, [Next]_vars PROVE IInv'
    OBVIOUS
  <1>1. CASE Tick
    <2>1. /\ now' = now + 1 /\ now \in Nat
          /\ UNCHANGED <<started, flight, entries, touched, admitted, denied>>
      BY <1>1 DEF Tick, IInv, TypeOK
    <2>2. TypeOK'
      BY <2>1 DEF IInv, TypeOK
    <2>3. Recent'
      BY <1>1, <2>1, ConstantsAssumption DEF Tick, IInv, Recent, TypeOK, Request
    <2>4. Distinct'
      BY <2>1 DEF IInv, Distinct
    <2> QED
      BY <2>1, <2>2, <2>3, <2>4, NothingAdmitted DEF IInv
  <1>2. ASSUME NEW limit \in Limits, Begin(limit) PROVE IInv'
    <2> DEFINE q == [id |-> started + 1, stamp |-> now, limit |-> limit,
                     step |-> "stamped"]
    <2>1. /\ flight' = flight \cup {q} /\ started' = started + 1
          /\ UNCHANGED <<now, entries, touched, admitted, denied>>
          /\ now \in Nat /\ started \in Nat
      BY <1>2 DEF Begin, IInv, TypeOK
    <2>2. TypeOK'
      BY <2>1 DEF IInv, TypeOK, Request
    <2>3. \A i \in 1..Len(admitted) : admitted[i].id \in Nat
      BY AdmittedType DEF IInv, Admission
    <2>4. Recent'
      BY <2>1, <2>3, ConstantsAssumption DEF IInv, Recent, TypeOK, Request
    <2>5. \A r \in flight : r.id # q.id
      BY <2>1 DEF IInv, Recent, TypeOK, Request
    <2>6. \A i \in 1..Len(admitted) : admitted[i].id # q.id
      BY <2>1, <2>3 DEF IInv, Recent
    <2>7. Distinct'
      BY <2>1, <2>5, <2>6 DEF IInv, Distinct
    <2> QED
      BY <2>1, <2>2, <2>4, <2>7, NothingAdmitted DEF IInv
  <1>3. ASSUME NEW r \in flight, Allow(r) PROVE IInv'
    BY <1>3, AllowPreserves
  <1>4. ASSUME NEW r \in flight, Deny(r) PROVE IInv'
    <2> DEFINE d == [r EXCEPT !.step = "denied"]
    <2>1. /\ entries' \subseteq Entry /\ IsFiniteSet(entries')
          /\ \A e \in entries : e \in entries' \/ e.stamp + Window <= r.stamp
          /\ touched' = now
      BY <1>4, ExecuteEffect DEF Deny
    <2>2. /\ r \in Request /\ d \in Request
          /\ d.id = r.id /\ d.stamp = r.stamp /\ d.step = "denied"
      BY DEF IInv, TypeOK, Request
    <2>3. /\ flight' = (flight \ {r}) \cup {d}
          /\ denied' = NoDenial
          /\ UNCHANGED <<now, started, admitted>>
      BY <1>4 DEF Deny
    <2>4. TypeOK'
      BY <2>1, <2>2, <2>3 DEF IInv, TypeOK, Denial, NoDenial
    <2>5. \A i \in 1..Len(admitted) : admitted[i].at \in Nat
      BY AdmittedType DEF IInv, Admission
    <2> HIDE DEF d
    <2>10. \A q \in flight' : (q \in flight /\ q.id # r.id) \/ q = d
      BY <2>3 DEF IInv, Distinct
    <2>6. Recent'
      <3>1. \A q \in flight' : q.stamp <= now' /\ q.id <= started'
        BY <2>2, <2>3, <2>10 DEF IInv, Recent
      <3>2. \A q \in flight' : q.step = "stamped" => now' <= q.stamp + MaxDelay
        BY <2>2, <2>3, <2>10 DEF IInv, Recent
      <3>3. \A i \in 1..Len(admitted) : admitted[i].at <= touched'
        BY <2>1, <2>5 DEF IInv, Recent, TypeOK
      <3> QED
        BY <2>1, <2>3, <3>1, <3>2, <3>3 DEF IInv, Recent, TypeOK
    <2>7. Distinct'
      BY <2>2, <2>3, <2>10 DEF IInv, Distinct
    <2>8. ASSUME NEW i \in 1..Len(admitted), EntryOf(admitted[i]) \in entries
          PROVE  \/ EntryOf(admitted[i]) \in entries'
                 \/ admitted[i].stamp + Window <= now'
      <3>1. admitted[i].stamp \in Nat
        BY AdmittedType DEF IInv, Admission
      <3>2. r.stamp <= now /\ r.stamp \in Nat /\ now \in Nat
        BY <2>2 DEF IInv, Recent, TypeOK, Request
      <3> QED
        BY <2>1, <2>3, <2>8, <3>1, <3>2, ConstantsAssumption DEF EntryOf
    <2>9. now' \in Nat /\ now <= now'
      BY <2>3 DEF IInv, TypeOK
    <2> QED
      BY <2>1, <2>3, <2>4, <2>6, <2>7, <2>8, <2>9, NothingAdmitted
  <1>5. ASSUME NEW r \in flight, ReadOldest(r) PROVE IInv'
    <2> DEFINE d == [r EXCEPT !.step = "told"]
    <2>1. /\ flight' = (flight \ {r}) \cup {d}
          /\ UNCHANGED <<now, started, entries, touched, admitted>>
      BY <1>5 DEF ReadOldest
    <2>2. /\ r \in Request /\ d \in Request
          /\ d.id = r.id /\ d.stamp = r.stamp /\ d.step = "told"
      BY DEF IInv, TypeOK, Request
    <2>3. denied' \in Denial
      BY <1>5, ReadOldestTells DEF IInv
    <2>4. TypeOK'
      BY <2>1, <2>2, <2>3 DEF IInv, TypeOK
    <2> HIDE DEF d
    <2>5. \A q \in flight' : (q \in flight /\ q.id # r.id) \/ q = d
      BY <2>1 DEF IInv, Distinct
    <2>6. Recent'
      BY <2>1, <2>2, <2>5 DEF IInv, Recent
    <2>7. Distinct'
      BY <2>1, <2>2, <2>5 DEF IInv, Distinct
    <2>8. now' \in Nat /\ now <= now' /\ IsFiniteSet(entries')
      BY <2>1 DEF IInv, TypeOK
    <2> QED
      BY <2>1, <2>4, <2>6, <2>7, <2>8, NothingAdmitted
  <1>6. ASSUME NEW r \in flight, Refuse(r) PROVE IInv'
    <2>1. /\ entries' = {e \in entries : e.id # r.id}
          /\ flight' = flight \ {r}
          /\ UNCHANGED <<now, started, touched, admitted>>
      BY <1>6 DEF Refuse, NotOf
    <2>2. IsFiniteSet(entries')
      BY <2>1, FS_Subset DEF IInv
    <2>3. denied' \in Denial
      <3>1. denied \in Denial /\ now \in Nat
        BY DEF IInv, TypeOK
      <3>2. now + denied.wait \in Nat
        BY <3>1 DEF Denial
      <3>3. [denied EXCEPT !.until = now + denied.wait] \in Denial
        BY <3>1, <3>2 DEF Denial
      <3> QED
        BY <1>6, <3>1, <3>3 DEF Refuse
    <2>4. TypeOK'
      BY <2>1, <2>3 DEF IInv, TypeOK
    <2>5. Recent' /\ Distinct'
      BY <2>1 DEF IInv, Recent, Distinct
    <2>6. \A i \in 1..Len(admitted) :
              EntryOf(admitted[i]) \in entries => EntryOf(admitted[i]) \in entries'
      BY <2>1 DEF IInv, Distinct, EntryOf
    <2>7. now' \in Nat /\ now <= now'
      BY <2>1 DEF IInv, TypeOK
    <2> QED
      BY <2>1, <2>4, <2>2, <2>5, <2>6, <2>7, NothingAdmitted
  <1>9. ASSUME NEW r \in flight, Vanish(r) PROVE IInv'
    <2>1. /\ flight' = flight \ {r}
          /\ denied' \in {denied, NoDenial}
          /\ UNCHANGED <<now, started, entries, touched, admitted>>
      BY <1>9 DEF Vanish
    <2>2. TypeOK'
      BY <2>1 DEF IInv, TypeOK, Denial, NoDenial
    <2>3. Recent' /\ Distinct'
      BY <2>1 DEF IInv, Recent, Distinct
    <2>4. now' \in Nat /\ now <= now'
      BY <2>1 DEF IInv, TypeOK
    <2> QED
      BY <2>1, <2>2, <2>3, <2>4, NothingAdmitted DEF IInv
  <1>7. CASE ExpireKey
    <2>1. /\ entries' = {} /\ now >= touched + 2 * Window
          /\ UNCHANGED <<now, started, flight, touched, admitted, denied>>
      BY <1>7 DEF ExpireKey
    <2>2. TypeOK' /\ IsFiniteSet(entries')
      BY <2>1, FS_EmptySet DEF IInv, TypeOK
    <2>3. Recent' /\ Distinct'
      BY <2>1 DEF IInv, Recent, Distinct
    <2>4. ASSUME NEW i \in 1..Len(admitted)
          PROVE  admitted[i].stamp + Window <= now'
      <3>1. admitted[i].stamp \in Nat /\ admitted[i].at \in Nat
        BY AdmittedType DEF IInv, Admission
      <3> QED
        <4>1. /\ now \in Nat /\ touched \in Nat /\ now' = now
              /\ admitted[i].stamp <= admitted[i].at /\ admitted[i].at <= touched
          BY <2>1 DEF IInv, Recent, TypeOK
        <4> QED
          BY <2>1, <3>1, <4>1, ConstantsAssumption
    <2>5. now' \in Nat /\ now <= now'
      BY <2>1 DEF IInv, TypeOK
    <2> QED
      BY <2>1, <2>2, <2>3, <2>4, <2>5, NothingAdmitted
  <1>8. CASE UNCHANGED vars
    BY <1>8 DEF vars, IInv, TypeOK, Recent, Distinct, Kept, WithinLimit, InWindowOf
  <1> QED
    BY <1>1, <1>2, <1>3, <1>4, <1>5, <1>6, <1>7, <1>8, <1>9 DEF Next, CheckRateLimit

THEOREM Invariance == Spec => []IInv
  BY InitEstablishes, StepPreserves, PTL DEF Spec

\* Every reachable state is well-typed, for every window, limit and delay.
THEOREM TypeCorrect == Spec => []TypeOK
  BY Invariance, PTL DEF IInv

\* The sliding window holds for any number of workers and requests: no limit is
\* exceeded in a window shortened by the age a clock reading may have.
THEOREM WithinLimitInvariant == Spec => []WithinLimit
  BY Invariance, PTL DEF IInv

-----------------------------------------------------------------------------
(* Retry-After.  What a refused request has to wait for is that one of the *)
(* entries it left leaves the window; until the next pipeline nothing is   *)
(* added to them.                                                          *)

\* No entry is scored in the future, and a request's entry has its score.
EntriesTold ==
    /\ \A e \in entries : e.stamp <= now /\ e.id <= started
    /\ \A e \in entries, r \in flight : e.id = r.id => e.stamp = r.stamp
    /\ \A r \in flight : r.id > 0

Frees(es, others, until) ==
    /\ Cardinality(es) <= others
    /\ \/ es = {} \/ Cardinality(es) < others
       \/ \E e \in es : e.stamp + Window <= until

WaitFreesOne ==
    denied # NoDenial =>
        /\ denied.limit \in Limits
        /\ denied.until <= now + denied.wait
        /\ Frees(NotOf(denied.id), denied.others, denied.until)

\* The request that was told to wait has not replied yet, or its entry is gone.
OwnEntryGoes ==
    denied # NoDenial =>
        \A e \in entries : e.id = denied.id => \E r \in flight : r.id = denied.id

RetryInv == EntriesTold /\ OwnEntryGoes /\ WaitFreesOne

LEMMA FewerFree ==
  ASSUME NEW es, IsFiniteSet(es), NEW fewer \in SUBSET es, NEW others \in Nat,
         NEW until \in Nat, Frees(es, others, until)
  PROVE  Frees(fewer, others, until)
  <1>1. /\ IsFiniteSet(fewer)
        /\ Cardinality(fewer) <= Cardinality(es)
        /\ Cardinality(fewer) = Cardinality(es) => fewer = es
    BY FS_Subset
  <1>2. Cardinality(fewer) \in Nat /\ Cardinality(es) \in Nat
    BY <1>1, FS_CardinalityType
  <1> QED
    BY <1>1, <1>2 DEF Frees

LEMMA RoundsUp ==
  ASSUME NEW x \in Int
  PROVE  Second * ((x \div Second) + 1) > x
  BY ConstantsAssumption

LEMMA RetryAfterBound ==
  ASSUME NEW oldest \in Nat, NEW stamp \in Nat
  PROVE  Second * RetryAfter(oldest, stamp) > oldest + Window - stamp
  <1> DEFINE x == oldest + Window - stamp
  <1> DEFINE k == x \div Second
  <1>1. x \in Int /\ k \in Int
    BY ConstantsAssumption
  <1>2. Second * (k + 1) > x
    BY <1>1, RoundsUp
  <1>3. RetryAfter(oldest, stamp) = IF k + 1 > 1 THEN k + 1 ELSE 1
    BY DEF RetryAfter
  <1> HIDE DEF k, x
  <1>4. CASE k + 1 > 1
    BY <1>2, <1>3, <1>4 DEF x
  <1>5. CASE k + 1 <= 1
    <2>1. RetryAfter(oldest, stamp) = 1
      BY <1>1, <1>3, <1>5
    <2>2. Second * (k + 1) <= Second * 1
      BY <1>1, <1>5, ConstantsAssumption
    <2>3. Second * (k + 1) \in Int /\ Second * 1 \in Int
      BY <1>1, ConstantsAssumption
    <2>4. Second * 1 > x
      BY <1>1, <1>2, <2>2, <2>3
    <2> QED
      BY <2>1, <2>4 DEF x
  <1> QED
    BY <1>1, <1>4, <1>5

\* The entry of r is the oldest, or one that is as old as the oldest is another's.
LEMMA ReadingFreesOne ==
  ASSUME TypeOK, IsFiniteSet(entries), Recent, EntriesTold,
         NEW r \in flight, ReadOldest(r), NotOf(r.id) # {}
  PROVE  \E e \in NotOf(r.id) : e.stamp + Window <= denied'.until
  <1>1. /\ NotOf(r.id) = {e \in entries : e.id # r.id}
        /\ r.stamp \in Nat /\ now \in Nat /\ r.stamp <= now
        /\ Window \in Nat /\ Second \in Nat
    BY ConstantsAssumption DEF NotOf, TypeOK, Recent, Request
  <1>2. \A e \in entries : e.stamp \in Nat /\ e.stamp <= now
    BY DEF TypeOK, Entry, EntriesTold
  <1>3. entries # {}
    BY <1>1
  <1>4. PICK o \in Oldest : denied'.until = now + Second * RetryAfter(o.stamp, r.stamp)
    <2>1. PICK seconds \in Waits(r) : denied'.until = now + Second * seconds
      BY ReadOldestTells
    <2> QED
      BY <1>3, <2>1 DEF Waits
  <1>5. o \in entries
    BY DEF Oldest
  <1>6. /\ Second * RetryAfter(o.stamp, r.stamp) > o.stamp + Window - r.stamp
        /\ Second * RetryAfter(o.stamp, r.stamp) \in Nat
    <2>1. RetryAfter(o.stamp, r.stamp) \in Nat
      BY <1>1, <1>2, <1>5, RetryAfterType
    <2> QED
      BY <1>1, <1>2, <1>5, <2>1, RetryAfterBound
  <1> DEFINE wait == Second * RetryAfter(o.stamp, r.stamp)
  <1>7. wait \in Nat /\ wait > o.stamp + Window - r.stamp /\ denied'.until = now + wait
    BY <1>4, <1>6
  <1> HIDE DEF wait
  <1>8. CASE o.id # r.id
    <2>1. o.stamp + Window <= denied'.until
      BY <1>1, <1>2, <1>5, <1>7
    <2> QED
      BY <1>1, <1>5, <1>8, <2>1
  <1>9. CASE o.id = r.id
    <2>1. o.stamp = r.stamp
      BY <1>5, <1>9 DEF EntriesTold
    <2>2. PICK e \in NotOf(r.id) : TRUE
      OBVIOUS
    <2>3. e \in entries
      BY <1>1
    <2>4. e.stamp + Window <= denied'.until
      BY <1>1, <1>2, <1>7, <2>1, <2>3
    <2> QED
      BY <2>4
  <1> QED
    BY <1>8, <1>9

LEMMA EntriesToldStays ==
  ASSUME IInv, EntriesTold, [Next]_vars
  PROVE  EntriesTold'
  <1>0. /\ now \in Nat /\ started \in Nat
        /\ \A e \in entries : e.stamp \in Nat /\ e.id \in Nat
        /\ \A r \in flight : r.stamp \in Nat /\ r.id \in Nat
    BY DEF IInv, TypeOK, Entry, Request
  <1>1. CASE Tick
    BY <1>0, <1>1 DEF Tick, EntriesTold
  <1>2. ASSUME NEW limit \in Limits, Begin(limit) PROVE EntriesTold'
    <2>1. \A r \in flight' : r \in flight \/ r.id = started + 1
      BY <1>2 DEF Begin
    <2>2. /\ started' = started + 1
          /\ UNCHANGED <<now, entries>>
      BY <1>2 DEF Begin
    <2> QED
      BY <1>0, <2>1, <2>2 DEF EntriesTold
  <1>3. ASSUME NEW r \in flight, Execute(r), UNCHANGED <<now, started>>,
               \A q \in flight' : \/ q \in flight /\ q # r
                                  \/ q.id = r.id /\ q.stamp = r.stamp
        PROVE  EntriesTold'
    <2>1. \A e \in entries' : e \in entries \/ e = EntryOf(r)
      BY <1>3 DEF Execute, Pruned, EntryOf
    <2>2. EntryOf(r).id = r.id /\ EntryOf(r).stamp = r.stamp
      BY DEF EntryOf
    <2>3. \A e \in entries' : e.stamp <= now' /\ e.id <= started'
      BY <1>3, <2>1, <2>2 DEF EntriesTold, IInv, Recent
    <2>4. \A e \in entries', q \in flight' : e.id = q.id => e.stamp = q.stamp
      <3> SUFFICES ASSUME NEW e \in entries', NEW q \in flight', e.id = q.id
                   PROVE  e.stamp = q.stamp
        OBVIOUS
      <3>1. CASE e \in entries
        BY <1>3, <3>1 DEF EntriesTold
      <3>2. CASE e = EntryOf(r)
        BY <1>3, <2>2, <3>2 DEF IInv, Distinct
      <3> QED
        BY <2>1, <3>1, <3>2
    <2>5. \A q \in flight' : q.id > 0
      BY <1>3 DEF EntriesTold
    <2> QED
      BY <2>3, <2>4, <2>5 DEF EntriesTold
  <1>4. ASSUME NEW r \in flight, Allow(r) PROVE EntriesTold'
    BY <1>3, <1>4 DEF Allow
  <1>5. ASSUME NEW r \in flight, Deny(r) PROVE EntriesTold'
    <2>1. r \in Request
      BY DEF IInv, TypeOK
    <2>2. /\ [r EXCEPT !.step = "denied"].id = r.id
          /\ [r EXCEPT !.step = "denied"].stamp = r.stamp
      BY <2>1 DEF Request
    <2> QED
      BY <1>3, <1>5, <2>2 DEF Deny
  <1>6. ASSUME NEW r \in flight, Refuse(r) PROVE EntriesTold'
    BY <1>6 DEF Refuse, NotOf, EntriesTold
  <1>10. ASSUME NEW r \in flight, ReadOldest(r) PROVE EntriesTold'
    <2>1. r \in Request
      BY DEF IInv, TypeOK
    <2>2. /\ [r EXCEPT !.step = "told"].id = r.id
          /\ [r EXCEPT !.step = "told"].stamp = r.stamp
      BY <2>1 DEF Request
    <2> DEFINE d == [r EXCEPT !.step = "told"]
    <2>3. d.id = r.id /\ d.stamp = r.stamp
      BY <2>2
    <2> HIDE DEF d
    <2>4. \A q \in flight' : q \in flight \/ q = d
      BY <1>10 DEF ReadOldest, d
    <2>5. UNCHANGED <<now, started, entries>>
      BY <1>10 DEF ReadOldest
    <2> QED
      BY <2>3, <2>4, <2>5 DEF EntriesTold
  <1>7. ASSUME NEW r \in flight, Vanish(r) PROVE EntriesTold'
    BY <1>7 DEF Vanish, EntriesTold
  <1>8. CASE ExpireKey
    BY <1>8 DEF ExpireKey, EntriesTold
  <1>9. CASE UNCHANGED vars
    BY <1>9 DEF vars, EntriesTold
  <1> QED
    BY <1>1, <1>2, <1>4, <1>5, <1>6, <1>7, <1>8, <1>9, <1>10 DEF Next, CheckRateLimit

LEMMA OwnEntryGoesStays ==
  ASSUME IInv, OwnEntryGoes, [Next]_vars
  PROVE  OwnEntryGoes'
  <1>1. CASE Tick
    BY <1>1 DEF Tick, OwnEntryGoes
  <1>2. ASSUME NEW limit \in Limits, Begin(limit) PROVE OwnEntryGoes'
    BY <1>2 DEF Begin, OwnEntryGoes
  <1>3. ASSUME NEW r \in flight, Allow(r) \/ Deny(r) PROVE OwnEntryGoes'
    BY <1>3 DEF Allow, Deny, OwnEntryGoes
  <1>4. ASSUME NEW r \in flight, ReadOldest(r) PROVE OwnEntryGoes'
    <2>1. [r EXCEPT !.step = "told"].id = r.id
      BY DEF IInv, TypeOK, Request
    <2>2. denied'.id = r.id
      BY <1>4, ReadOldestTells DEF IInv
    <2> QED
      BY <1>4, <2>1, <2>2 DEF ReadOldest, OwnEntryGoes
  <1>5. ASSUME NEW r \in flight, Refuse(r) PROVE OwnEntryGoes'
    <2>1. /\ \A e \in entries' : e \in entries /\ e.id # r.id
          /\ \A q \in flight : q.id # r.id => q \in flight'
      BY <1>5 DEF Refuse, NotOf
    <2>2. CASE denied.id = r.id
      <3>1. denied'.id = r.id
        BY <1>5, <2>2 DEF Refuse, IInv, TypeOK, Denial
      <3> QED
        BY <2>1, <3>1 DEF OwnEntryGoes
    <2>3. CASE denied.id # r.id
      BY <1>5, <2>1, <2>3 DEF Refuse, OwnEntryGoes
    <2> QED
      BY <2>2, <2>3
  <1>6. ASSUME NEW r \in flight, Vanish(r) PROVE OwnEntryGoes'
    BY <1>6 DEF Vanish, OwnEntryGoes
  <1>7. CASE ExpireKey
    BY <1>7 DEF ExpireKey, OwnEntryGoes
  <1>8. CASE UNCHANGED vars
    BY <1>8 DEF vars, OwnEntryGoes
  <1> QED
    BY <1>1, <1>2, <1>3, <1>4, <1>5, <1>6, <1>7, <1>8 DEF Next, CheckRateLimit

LEMMA WaitFreesOneStays ==
  ASSUME IInv, EntriesTold, WaitFreesOne, [Next]_vars
  PROVE  WaitFreesOne'
  <1>0. /\ now \in Nat /\ denied \in Denial /\ IsFiniteSet(entries)
        /\ denied.wait \in Nat /\ denied.until \in Nat /\ denied.others \in Nat
    BY DEF IInv, TypeOK, Denial
  <1>1. CASE Tick
    <2>1. now' = now + 1 /\ UNCHANGED <<denied, entries>>
      BY <1>1 DEF Tick
    <2>2. denied.until <= now + denied.wait => denied.until <= now' + denied.wait
      BY <1>0, <2>1
    <2> QED
      BY <2>1, <2>2 DEF WaitFreesOne, NotOf
  <1>2. ASSUME NEW limit \in Limits, Begin(limit) PROVE WaitFreesOne'
    BY <1>2 DEF Begin, WaitFreesOne, NotOf
  <1>3. ASSUME NEW r \in flight, Allow(r) \/ Deny(r) PROVE WaitFreesOne'
    BY <1>3 DEF Allow, Deny, WaitFreesOne
  <1>4. ASSUME NEW r \in flight, ReadOldest(r) PROVE WaitFreesOne'
    <2>1. r.limit \in Limits /\ UNCHANGED <<now, entries>>
      BY <1>4 DEF IInv, TypeOK, Request, ReadOldest
    <2>2. /\ denied' \in Denial /\ denied'.id = r.id /\ denied'.limit = r.limit
          /\ denied'.others = Cardinality(NotOf(r.id))
          /\ denied'.until = now + denied'.wait
      BY <1>4, ReadOldestTells DEF IInv
    <2>3. NotOf(denied.id)' = NotOf(r.id)
      BY <2>1, <2>2 DEF NotOf
    <2>4. IsFiniteSet(NotOf(r.id)) /\ Cardinality(NotOf(r.id)) \in Nat
      BY <1>0, FS_Subset, FS_CardinalityType DEF NotOf
    <2>5. NotOf(r.id) # {} => \E e \in NotOf(r.id) : e.stamp + Window <= denied'.until
      BY <1>4, ReadingFreesOne DEF IInv
    <2>6. Frees(NotOf(r.id), denied'.others, denied'.until)
      BY <2>2, <2>4, <2>5 DEF Frees
    <2>7. denied'.until <= now' + denied'.wait
      BY <1>0, <2>1, <2>2 DEF Denial
    <2> QED
      BY <2>1, <2>2, <2>3, <2>6, <2>7 DEF WaitFreesOne, Frees
  <1>5. ASSUME NEW r \in flight, Refuse(r), denied # NoDenial PROVE WaitFreesOne'
    <2>1. entries' \subseteq entries /\ now' = now
      BY <1>5 DEF Refuse, NotOf
    <2>2. IsFiniteSet(NotOf(denied.id))
      BY <1>0, FS_Subset DEF NotOf
    <2>3. /\ denied'.id = denied.id /\ denied'.limit = denied.limit
          /\ denied'.others = denied.others /\ denied'.wait = denied.wait
          /\ denied'.until \in {denied.until, now + denied.wait}
      BY <1>0, <1>5 DEF Refuse, Denial
    <2>4. NotOf(denied.id)' \subseteq NotOf(denied.id)
      BY <2>1, <2>3 DEF NotOf
    <2>5. PICK until \in Nat : until = denied'.until
      BY <1>0, <2>3
    <2>6. until >= denied.until /\ until <= now + denied.wait
      BY <1>0, <1>5, <2>3, <2>5 DEF WaitFreesOne
    <2>7. Frees(NotOf(denied.id), denied.others, until)
      <3>1. \A e \in NotOf(denied.id) : e.stamp \in Nat
        BY DEF NotOf, IInv, TypeOK, Entry
      <3>2. \A e \in NotOf(denied.id) :
               e.stamp + Window <= denied.until => e.stamp + Window <= until
        BY <1>0, <2>6, <3>1, ConstantsAssumption
      <3> QED
        BY <1>5, <3>2 DEF WaitFreesOne, Frees
    <2>8. PICK es : es = NotOf(denied.id)'
      OBVIOUS
    <2>9. Frees(es, denied.others, until)
      BY <1>0, <2>2, <2>4, <2>7, <2>8, FewerFree
    <2>10. Frees(NotOf(denied.id), denied.others, denied.until)'
      BY <2>3, <2>5, <2>8, <2>9 DEF Frees, NotOf
    <2> QED
      BY <1>5, <2>1, <2>3, <2>5, <2>6, <2>10 DEF WaitFreesOne
  <1>6. ASSUME NEW r \in flight, Refuse(r), denied = NoDenial PROVE WaitFreesOne'
    <2>1. denied.id # r.id
      BY <1>6 DEF NoDenial, EntriesTold
    <2> QED
      BY <1>6, <2>1 DEF Refuse, WaitFreesOne
  <1>7. ASSUME NEW r \in flight, Vanish(r) PROVE WaitFreesOne'
    BY <1>7 DEF Vanish, WaitFreesOne, NotOf
  <1>8. CASE ExpireKey
    <2>1. entries' = {} /\ denied' = denied /\ now' = now
      BY <1>8 DEF ExpireKey
    <2>2. NotOf(denied.id)' = {}
      BY <2>1 DEF NotOf
    <2>3. Cardinality(NotOf(denied.id)') = 0
      BY <2>2, FS_EmptySet
    <2> QED
      BY <1>0, <2>1, <2>2, <2>3 DEF WaitFreesOne, Frees
  <1>9. CASE UNCHANGED vars
    BY <1>9 DEF vars, WaitFreesOne, NotOf
  <1> QED
    BY <1>1, <1>2, <1>3, <1>4, <1>5, <1>6, <1>7, <1>8, <1>9 DEF Next, CheckRateLimit

LEMMA WaitSuffices == IInv /\ RetryInv => RetryAfterSuffices
  <1> SUFFICES ASSUME IInv, RetryInv, denied # NoDenial,
                      denied.others <= denied.limit, flight = {}, now >= denied.until
               PROVE  Cardinality(Pruned(now)) < denied.limit
    BY DEF RetryAfterSuffices
  <1>1. /\ now \in Nat /\ Window \in Nat /\ denied.until \in Nat
        /\ denied.others \in Nat /\ denied.limit \in Nat \ {0}
        /\ IsFiniteSet(entries) /\ entries \subseteq Entry
        /\ Cardinality(entries) \in Nat
    BY ConstantsAssumption, FS_CardinalityType
       DEF IInv, TypeOK, Denial, RetryInv, WaitFreesOne
  <1>2. NotOf(denied.id) = entries
    BY DEF RetryInv, OwnEntryGoes, NotOf
  <1>3. Frees(entries, denied.others, denied.until)
    BY <1>2 DEF RetryInv, WaitFreesOne
  <1>4. /\ Cardinality(Pruned(now)) <= Cardinality(entries)
        /\ Cardinality(Pruned(now)) \in Nat
    BY <1>1, FS_Subset, FS_CardinalityType DEF Pruned
  <1>5. CASE entries = {}
    <2>1. Cardinality(entries) = 0
      BY <1>5, FS_EmptySet
    <2> QED
      BY <1>1, <1>4, <2>1
  <1>6. CASE Cardinality(entries) < denied.others
    BY <1>1, <1>4, <1>6
  <1>7. ASSUME NEW e \in entries, e.stamp + Window <= denied.until
        PROVE  Cardinality(Pruned(now)) < denied.limit
    <2>2. e.stamp \in Nat
      BY <1>1 DEF Entry
    <2>3. ~(e.stamp > now - Window)
      BY <1>1, <1>7, <2>2
    <2>4. Pruned(now) \subseteq entries \ {e}
      BY <2>3 DEF Pruned
    <2>5. /\ IsFiniteSet(entries \ {e})
          /\ Cardinality(entries \ {e}) = Cardinality(entries) - 1
      BY <1>1, FS_RemoveElement
    <2>6. Cardinality(Pruned(now)) <= Cardinality(entries \ {e})
      BY <2>4, <2>5, FS_Subset
    <2> QED
      BY <1>1, <1>3, <1>4, <2>5, <2>6 DEF Frees
  <1> QED
    BY <1>3, <1>5, <1>6, <1>7 DEF Frees

\* Who waits for the Retry-After of a refusal and meets nobody's pipeline from
\* the reading of the oldest score on, is admitted: for every length of a second
\* and of the window, every limit and every age of the clock reading, whatever
\* other denied requests remove in between (check_rate_limit).
THEOREM RetryAfterSufficesInvariant == Spec => []RetryAfterSuffices
  <1>1. Init => RetryInv
    BY DEF Init, RetryInv, EntriesTold, OwnEntryGoes, WaitFreesOne
  <1>2. IInv /\ RetryInv /\ [Next]_vars => RetryInv'
    BY EntriesToldStays, OwnEntryGoesStays, WaitFreesOneStays DEF RetryInv
  <1> QED
    BY <1>1, <1>2, Invariance, WaitSuffices, PTL DEF Spec

-----------------------------------------------------------------------------
(* Sums over finite sets.  Strict inclusion is well-founded on the subsets *)
(* of a finite set, so what is never false first is true of all of them.   *)

\* What holds of a set whenever it holds of its strict subsets, holds of all.
LEMMA SubsetInduction ==
  ASSUME NEW S, IsFiniteSet(S), NEW Good,
         \A X \in SUBSET S : (\A Y \in SUBSET X : Y # X => Y \in Good) => X \in Good
  PROVE  SUBSET S \subseteq Good
  <1> SUFFICES ASSUME (SUBSET S) \ Good # {} PROVE FALSE
    OBVIOUS
  <1>1. IsWellFoundedOn(StrictSubsetOrdering(S), SUBSET S)
    <2>1. IsWellFoundedOn(StrictSubsetOrdering(S), FiniteSubsetsOf(S))
      BY FS_StrictSubsetOrderingWellFounded
    <2>2. FiniteSubsetsOf(S) = SUBSET S
      BY FS_FiniteSubsetsOfFinite
    <2> QED
      BY <2>1, <2>2
  <1>2. PICK X \in (SUBSET S) \ Good :
            \A Y \in (SUBSET S) \ Good : <<Y, X>> \notin StrictSubsetOrdering(S)
    <2> DEFINE Bad == (SUBSET S) \ Good
    <2>1. Bad \subseteq SUBSET S /\ Bad # {}
      OBVIOUS
    <2> HIDE DEF Bad
    <2>2. \E X \in Bad : \A Y \in Bad : ~(<<Y, X>> \in StrictSubsetOrdering(S))
      BY <1>1, <2>1, WFMin
    <2> QED
      BY <2>2 DEF Bad
  <1>3. PICK Y \in SUBSET X : Y # X /\ Y \notin Good
    BY <1>2
  <1>4. <<Y, X>> \in StrictSubsetOrdering(S)
    BY <1>2, <1>3 DEF StrictSubsetOrdering
  <1> QED
    BY <1>2, <1>3, <1>4

\* The element that MapThenSumSet takes next.
Pick(s) == CHOOSE x \in s : TRUE

LEMMA PickIn == ASSUME NEW s, s # {} PROVE Pick(s) \in s
  BY DEF Pick

\* The recursion of MapThenSumSet, for values given by a function.
Sums(it, g, S) ==
    it = [s \in SUBSET S |-> IF s = {} THEN 0 ELSE g[Pick(s)] + it[s \ {Pick(s)}]]

SumOf(g, S) == (CHOOSE it : Sums(it, g, S))[S]

\* It has one solution at most, on whatever set it is solved,
LEMMA SumsUnique ==
  ASSUME NEW S, IsFiniteSet(S), NEW T \in SUBSET S, NEW g, NEW a, NEW b,
         Sums(a, g, S), Sums(b, g, T)
  PROVE  \A s \in SUBSET T : a[s] = b[s]
  <1> DEFINE Good == {s \in SUBSET T : a[s] = b[s]}
  <1>1. ASSUME NEW X \in SUBSET T, \A Y \in SUBSET X : Y # X => Y \in Good
        PROVE  X \in Good
    <2>1. a[X] = IF X = {} THEN 0 ELSE g[Pick(X)] + a[X \ {Pick(X)}]
      BY DEF Sums
    <2>2. b[X] = IF X = {} THEN 0 ELSE g[Pick(X)] + b[X \ {Pick(X)}]
      BY DEF Sums
    <2>3. X # {} => X \ {Pick(X)} \in SUBSET X /\ X \ {Pick(X)} # X
      BY PickIn
    <2>4. X # {} => a[X \ {Pick(X)}] = b[X \ {Pick(X)}]
      BY <1>1, <2>3
    <2> QED
      BY <2>1, <2>2, <2>4
  <1>2. IsFiniteSet(T)
    BY FS_Subset
  <1> HIDE DEF Good
  <1>3. SUBSET T \subseteq Good
    BY <1>1, <1>2, SubsetInduction
  <1> QED
    BY <1>3 DEF Good

\* and one at least: the solutions of the strict subsets, and the next value.
LEMMA SumsExist ==
  ASSUME NEW S, IsFiniteSet(S), NEW g
  PROVE  \E it : Sums(it, g, S)
  <1> DEFINE Good == {s \in SUBSET S : \E it : Sums(it, g, s)}
  <1>1. ASSUME NEW X \in SUBSET S, \A Y \in SUBSET X : Y # X => Y \in Good
        PROVE  X \in Good
    <2>1. CASE X = {}
      <3> DEFINE zero == [s \in {{}} |-> 0]
      <3>1. Sums(zero, g, {})
        BY DEF Sums
      <3> QED
        BY <2>1, <3>1
    <2>2. CASE X # {}
      <3> DEFINE V(s) == (CHOOSE it : Sums(it, g, s))[s]
                 p == Pick(X)
                 sum == [s \in SUBSET X |-> IF s = X THEN g[p] + V(X \ {p}) ELSE V(s)]
      <3>1. ASSUME NEW s \in SUBSET X, s # X
            PROVE  V(s) = IF s = {} THEN 0 ELSE g[Pick(s)] + V(s \ {Pick(s)})
        <4>1. Sums(CHOOSE it : Sums(it, g, s), g, s)
          BY <1>1, <3>1
        <4>2. PICK a : a = (CHOOSE it : Sums(it, g, s))
          OBVIOUS
        <4>3. a[s] = IF s = {} THEN 0 ELSE g[Pick(s)] + a[s \ {Pick(s)}]
          BY <4>1, <4>2 DEF Sums
        <4>4. ASSUME s # {} PROVE a[s \ {Pick(s)}] = V(s \ {Pick(s)})
          <5>1. PICK t : t = s \ {Pick(s)}
            OBVIOUS
          <5>2. t \in SUBSET X /\ t # X /\ t \in SUBSET s
            BY <3>1, <4>4, <5>1, PickIn
          <5>3. Sums(CHOOSE it : Sums(it, g, t), g, t)
            BY <1>1, <5>2
          <5>4. PICK b : b = (CHOOSE it : Sums(it, g, t))
            OBVIOUS
          <5>5. Sums(a, g, s) /\ Sums(b, g, t)
            BY <4>1, <4>2, <5>3, <5>4
          <5>6. IsFiniteSet(s)
            BY FS_Subset
          <5>7. a[t] = b[t]
            BY <5>2, <5>5, <5>6, SumsUnique
          <5> QED
            BY <5>1, <5>4, <5>7
        <4> QED
          BY <4>2, <4>3, <4>4
      <3> HIDE DEF V
      <3>2. p \in X
        BY <2>2, PickIn
      <3> HIDE DEF p
      <3>3. ASSUME NEW s \in SUBSET X
            PROVE  sum[s] = IF s = {} THEN 0 ELSE g[Pick(s)] + sum[s \ {Pick(s)}]
        <4>1. CASE s = X
          BY <2>2, <3>2, <4>1 DEF p
        <4>2. CASE s # X
          <5>1. s # {} => s \ {Pick(s)} # X /\ s \ {Pick(s)} \in SUBSET X
            BY PickIn
          <5> QED
            BY <3>1, <4>2, <5>1
        <4> QED
          BY <4>1, <4>2
      <3>4. Sums(sum, g, X)
        <4>1. sum = [s \in SUBSET X |-> sum[s]]
          OBVIOUS
        <4>2. PICK h : h = sum
          OBVIOUS
        <4> HIDE DEF sum
        <4> QED
          BY <3>3, <4>1, <4>2 DEF Sums
      <3> QED
        BY <3>4
    <2> QED
      BY <2>1, <2>2
  <1> HIDE DEF Good
  <1>2. SUBSET S \subseteq Good
    BY <1>1, SubsetInduction
  <1> QED
    BY <1>2 DEF Good

LEMMA SumIs ==
  ASSUME NEW S, IsFiniteSet(S), NEW g, NEW it, Sums(it, g, S)
  PROVE  it[S] = SumOf(g, S)
  <1>1. PICK a : a = (CHOOSE i : Sums(i, g, S))
    OBVIOUS
  <1>2. Sums(a, g, S)
    BY <1>1
  <1> QED
    BY <1>1, <1>2, SumsUnique DEF SumOf

LEMMA SumOfEmpty == \A g : SumOf(g, {}) = 0
  <1> SUFFICES ASSUME NEW g PROVE SumOf(g, {}) = 0
    OBVIOUS
  <1>1. IsFiniteSet({})
    BY FS_EmptySet
  <1>2. PICK it : Sums(it, g, {})
    BY <1>1, SumsExist
  <1>3. it[{}] = 0
    BY <1>2 DEF Sums
  <1> QED
    BY <1>1, <1>2, <1>3, SumIs

LEMMA SumOfPick ==
  ASSUME NEW S, IsFiniteSet(S), S # {}, NEW g
  PROVE  SumOf(g, S) = g[Pick(S)] + SumOf(g, S \ {Pick(S)})
  <1>1. PICK it : Sums(it, g, S)
    BY SumsExist
  <1>2. PICK T : T = S \ {Pick(S)}
    OBVIOUS
  <1>3. T \in SUBSET S /\ IsFiniteSet(T)
    BY <1>2, FS_Subset
  <1>4. PICK jt : Sums(jt, g, T)
    BY <1>3, SumsExist
  <1>5. it[S] = SumOf(g, S) /\ jt[T] = SumOf(g, T)
    BY <1>1, <1>3, <1>4, SumIs
  <1>6. it[T] = jt[T]
    BY <1>1, <1>3, <1>4, SumsUnique
  <1>7. it[S] = g[Pick(S)] + it[T]
    BY <1>1, <1>2 DEF Sums
  <1> QED
    BY <1>2, <1>5, <1>6, <1>7

LEMMA SumOfNat ==
  ASSUME NEW S, IsFiniteSet(S), NEW g, \A x \in S : g[x] \in Nat
  PROVE  \A T \in SUBSET S : SumOf(g, T) \in Nat
  <1> DEFINE Good == {T \in SUBSET S : SumOf(g, T) \in Nat}
  <1>1. ASSUME NEW X \in SUBSET S, \A Y \in SUBSET X : Y # X => Y \in Good
        PROVE  X \in Good
    <2>1. CASE X = {}
      BY <2>1, SumOfEmpty
    <2>2. CASE X # {}
      <3>1. SumOf(g, X) = g[Pick(X)] + SumOf(g, X \ {Pick(X)})
        BY <2>2, SumOfPick, FS_Subset
      <3>2. Pick(X) \in X
        BY <2>2, PickIn
      <3>3. X \ {Pick(X)} \in Good
        BY <1>1, <3>2
      <3> QED
        BY <3>1, <3>2, <3>3
    <2> QED
      BY <2>1, <2>2
  <1> HIDE DEF Good
  <1>2. SUBSET S \subseteq Good
    BY <1>1, SubsetInduction
  <1> QED
    BY <1>2 DEF Good

\* The order does not matter: any element may be taken first.
LEMMA SumOfSplit ==
  ASSUME NEW S, IsFiniteSet(S), NEW g, \A x \in S : g[x] \in Nat
  PROVE  \A T \in SUBSET S : \A x \in T : SumOf(g, T) = g[x] + SumOf(g, T \ {x})
  <1> DEFINE Good == {T \in SUBSET S :
                        \A x \in T : SumOf(g, T) = g[x] + SumOf(g, T \ {x})}
  <1>1. ASSUME NEW X \in SUBSET S, \A Y \in SUBSET X : Y # X => Y \in Good
        PROVE  X \in Good
    <2> SUFFICES ASSUME NEW x \in X PROVE SumOf(g, X) = g[x] + SumOf(g, X \ {x})
      OBVIOUS
    <2>1. PICK p : p = Pick(X)
      OBVIOUS
    <2>2. p \in X /\ SumOf(g, X) = g[p] + SumOf(g, X \ {p})
      BY <2>1, PickIn, SumOfPick, FS_Subset
    <2>3. CASE x # p
      <3>1. PICK Y, Z, W : Y = X \ {p} /\ Z = X \ {x} /\ W = X \ {p, x}
        OBVIOUS
      <3>2. Y \in Good /\ x \in Y /\ Y \ {x} = W
        BY <1>1, <2>2, <2>3, <3>1
      <3>3. Z \in Good /\ p \in Z /\ Z \ {p} = W
        BY <1>1, <2>2, <2>3, <3>1
      <3>4. SumOf(g, Y) = g[x] + SumOf(g, W) /\ SumOf(g, Z) = g[p] + SumOf(g, W)
        BY <3>2, <3>3
      <3>5. SumOf(g, W) \in Nat /\ g[x] \in Nat /\ g[p] \in Nat
        BY <2>2, <3>1, SumOfNat
      <3> QED
        BY <2>2, <3>1, <3>4, <3>5
    <2> QED
      BY <2>2, <2>3
  <1> HIDE DEF Good
  <1>2. SUBSET S \subseteq Good
    BY <1>1, SubsetInduction
  <1> QED
    BY <1>2 DEF Good

LEMMA SumOfMonotone ==
  ASSUME NEW S, IsFiniteSet(S), NEW g, NEW h,
         \A x \in S : g[x] \in Nat /\ h[x] \in Nat /\ g[x] <= h[x]
  PROVE  SumOf(g, S) <= SumOf(h, S)
  <1> DEFINE Good == {T \in SUBSET S : SumOf(g, T) <= SumOf(h, T)}
  <1>1. ASSUME NEW X \in SUBSET S, \A Y \in SUBSET X : Y # X => Y \in Good
        PROVE  X \in Good
    <2>1. CASE X = {}
      BY <2>1, SumOfEmpty
    <2>2. CASE X # {}
      <3>1. PICK p, Y : p = Pick(X) /\ Y = X \ {p}
        OBVIOUS
      <3>2. p \in X /\ Y \in SUBSET S /\ Y \in Good
        BY <1>1, <2>2, <3>1, PickIn
      <3>3. SumOf(g, X) = g[p] + SumOf(g, Y) /\ SumOf(h, X) = h[p] + SumOf(h, Y)
        BY <2>2, <3>1, SumOfPick, FS_Subset
      <3>4. SumOf(g, Y) \in Nat /\ SumOf(h, Y) \in Nat
        BY <3>2, SumOfNat
      <3>5. g[p] \in Nat /\ h[p] \in Nat /\ g[p] <= h[p] /\ SumOf(g, Y) <= SumOf(h, Y)
        BY <3>2
      <3> QED
        BY <3>3, <3>4, <3>5
    <2> QED
      BY <2>1, <2>2
  <1> HIDE DEF Good
  <1>2. SUBSET S \subseteq Good
    BY <1>1, SubsetInduction
  <1> QED
    BY <1>2 DEF Good

\* Functions that agree on a set have the same sum over it.
LEMMA SumOfAlike ==
  ASSUME NEW S, IsFiniteSet(S), NEW g, NEW h,
         \A x \in S : g[x] \in Nat /\ h[x] = g[x]
  PROVE  SumOf(g, S) = SumOf(h, S)
  <1>1. SumOf(g, S) <= SumOf(h, S) /\ SumOf(h, S) <= SumOf(g, S)
    BY SumOfMonotone
  <1>2. SumOf(g, S) \in Nat /\ SumOf(h, S) \in Nat
    BY SumOfNat
  <1> QED
    BY <1>1, <1>2

LEMMA SumOfZero ==
  ASSUME NEW S, IsFiniteSet(S), NEW g, \A x \in S : g[x] = 0
  PROVE  SumOf(g, S) = 0
  <1> DEFINE Good == {T \in SUBSET S : SumOf(g, T) = 0}
  <1>1. ASSUME NEW X \in SUBSET S, \A Y \in SUBSET X : Y # X => Y \in Good
        PROVE  X \in Good
    <2>1. CASE X = {}
      BY <2>1, SumOfEmpty
    <2>2. CASE X # {}
      <3>1. SumOf(g, X) = g[Pick(X)] + SumOf(g, X \ {Pick(X)})
        BY <2>2, SumOfPick, FS_Subset
      <3>2. Pick(X) \in X
        BY <2>2, PickIn
      <3>3. X \ {Pick(X)} \in Good
        BY <1>1, <3>2
      <3> QED
        BY <3>1, <3>2, <3>3
    <2> QED
      BY <2>1, <2>2
  <1> HIDE DEF Good
  <1>2. SUBSET S \subseteq Good
    BY <1>1, SubsetInduction
  <1> QED
    BY <1>2 DEF Good

\* One of finitely many numbers is the largest.
LEMMA LargestExists ==
  ASSUME NEW S, IsFiniteSet(S), NEW g, \A x \in S : g[x] \in Nat
  PROVE  \A T \in SUBSET S : T # {} => \E x \in T : \A y \in T : g[y] <= g[x]
  <1> DEFINE Good == {T \in SUBSET S : T # {} => \E x \in T : \A y \in T : g[y] <= g[x]}
  <1>1. ASSUME NEW X \in SUBSET S, \A Y \in SUBSET X : Y # X => Y \in Good
        PROVE  X \in Good
    <2> SUFFICES ASSUME X # {} PROVE \E x \in X : \A y \in X : g[y] <= g[x]
      OBVIOUS
    <2>1. PICK p \in X : TRUE
      OBVIOUS
    <2>2. PICK Y : Y = X \ {p}
      OBVIOUS
    <2>3. Y \in Good
      BY <1>1, <2>1, <2>2
    <2>4. CASE Y = {}
      BY <2>1, <2>2, <2>4
    <2>5. CASE Y # {}
      <3>1. PICK q \in Y : \A y \in Y : g[y] <= g[q]
        BY <2>3, <2>5
      <3>2. CASE g[p] <= g[q]
        BY <2>1, <2>2, <3>1, <3>2
      <3>3. CASE g[q] <= g[p]
        BY <2>1, <2>2, <3>1, <3>3
      <3> QED
        BY <2>1, <2>2, <3>1, <3>2, <3>3
    <2> QED
      BY <2>4, <2>5
  <1> HIDE DEF Good
  <1>2. SUBSET S \subseteq Good
    BY <1>1, SubsetInduction
  <1> QED
    BY <1>2 DEF Good

LEMMA MaxIs ==
  ASSUME NEW S \in SUBSET Nat, IsFiniteSet(S), S # {}
  PROVE  Max(S) \in S /\ \A y \in S : y <= Max(S)
  <1> DEFINE g == [x \in S |-> x]
  <1>1. \A x \in S : g[x] \in Nat /\ g[x] = x
    OBVIOUS
  <1> HIDE DEF g
  <1>2. \E x \in S : \A y \in S : g[y] <= g[x]
    BY <1>1, LargestExists
  <1>3. \E x \in S : \A y \in S : x >= y
    BY <1>1, <1>2
  <1> QED
    BY <1>3 DEF Max
-----------------------------------------------------------------------------
(* The model cache.                                                        *)

\* A row that a refresh has read is still there.
RowsStay == \A f \in refreshing, m \in Models : f.seen[m] # NoRow => cache[m] # NoRow

\* Who is alone has no other beside it, and has read what is in the table.
Lonely == \A f \in refreshing : f.alone => refreshing = {f}
ReadIsPresent == \A f \in refreshing : f.alone /\ f.step = "read" => f.seen = cache

\* Nothing is under way while the table is settled.
SettledRests == settled # <<>> => refreshing = {}

CacheIInv == CacheTypeOK /\ RowsStay /\ Lonely /\ ReadIsPresent /\ SettledRests
             /\ RefreshSettles

\* What is known of a refresh under way.
LEMMA RefreshFacts ==
  ASSUME CacheTypeOK, NEW f \in refreshing
  PROVE  /\ f \in Refresh
         /\ f.list \in Lists /\ DOMAIN f.list \subseteq Models
         /\ \A m \in DOMAIN f.list : ContextLength(f.list[m]) \in Nat
         /\ f.seen \in [Models -> CachedModel \cup {NoRow}]
         /\ f.alone \in BOOLEAN
  <1>1. f \in Refresh
    BY DEF CacheTypeOK
  <1>2. f.list \in Offers \/ f.list = <<>>
    BY <1>1 DEF Refresh, Lists
  <1>3. CASE f.list = <<>>
    BY <1>1, <1>3 DEF Refresh
  <1>4. CASE f.list \in Offers
    BY <1>1, <1>4, OffersAssumption DEF Refresh, ContextLength
  <1> QED
    BY <1>2, <1>3, <1>4

\* A step of one refresh that leaves the table and what is settled alone.
LEMMA RefreshBecomes ==
  ASSUME CacheIInv, NEW f \in refreshing, NEW g \in Refresh, Becomes(f, g),
         g.alone = f.alone, g.seen \in {f.seen, cache},
         g.step = "read" => g.seen = cache,
         UNCHANGED <<cache, old, refreshes, settled>>
  PROVE  CacheIInv'
  <1> USE DEF CacheIInv
  <1>1. CacheTypeOK'
    BY DEF CacheTypeOK, Becomes
  <1>2. RowsStay'
    BY DEF RowsStay, Becomes
  <1>3. Lonely'
    BY DEF Lonely, Becomes
  <1>4. ReadIsPresent'
    BY DEF ReadIsPresent, Lonely, Becomes
  <1>5. SettledRests' /\ RefreshSettles'
    BY DEF SettledRests, RefreshSettles
  <1> QED
    BY <1>1, <1>2, <1>3, <1>4, <1>5

LEMMA CacheInitHolds == CacheInit => CacheIInv
  BY OffersAssumption
     DEF CacheInit, CacheIInv, CacheTypeOK, RowsStay, Lonely, ReadIsPresent, SettledRests,
         RefreshSettles, Lists

LEMMA CacheStays ==
  ASSUME CacheIInv, CacheNext \/ UNCHANGED cacheVars
  PROVE  CacheIInv'
  <1> USE DEF CacheIInv
  <1>1. CASE Age
    BY <1>1 DEF Age, CacheTypeOK, RowsStay, Lonely, ReadIsPresent, SettledRests,
                RefreshSettles
  <1>2. CASE StartRefresh
    <2>0. PICK first \in BOOLEAN : first = (refreshing = {})
      OBVIOUS
    <2> DEFINE new == [id |-> refreshes + 1, list |-> <<>>, alone |-> first,
                       step |-> "fetch", seen |-> [m \in Models |-> NoRow]]
               Less(f) == [f EXCEPT !.alone = FALSE]
    <2>1. /\ new \in Refresh /\ new.step = "fetch" /\ (new.alone <=> refreshing = {})
          /\ \A m \in Models : new.seen[m] = NoRow
      <3>1. refreshes + 1 \in Nat /\ <<>> \in Lists
        BY OffersAssumption DEF CacheTypeOK, Lists
      <3>2. [m \in Models |-> NoRow] \in [Models -> CachedModel \cup {NoRow}]
        OBVIOUS
      <3>3. new \in Refresh
        BY <2>0, <3>1, <3>2 DEF Refresh
      <3>4. new.alone = first /\ new.step = "fetch" /\ \A m \in Models : new.seen[m] = NoRow
        OBVIOUS
      <3> QED
        BY <2>0, <3>3, <3>4
    <2>2. \A f \in refreshing : /\ Less(f) \in Refresh /\ ~Less(f).alone
                                /\ Less(f).seen = f.seen
      BY DEF CacheTypeOK, Refresh
    <2>3. refreshing' = {Less(f) : f \in refreshing} \cup {new}
      BY <1>2, <2>0 DEF StartRefresh
    <2>4. cache' = cache /\ settled' = <<>> /\ old' = old /\ refreshes' \in 0..MaxRefreshes
      BY <1>2, OffersAssumption DEF StartRefresh, CacheTypeOK
    <2> HIDE DEF new, Less
    <2>5. CacheTypeOK'
      BY <2>1, <2>2, <2>3, <2>4 DEF CacheTypeOK, Lists
    <2>6. RowsStay'
      BY <2>1, <2>2, <2>3, <2>4 DEF RowsStay
    <2>7. Lonely'
      BY <2>1, <2>2, <2>3 DEF Lonely
    <2>8. ReadIsPresent'
      BY <2>1, <2>2, <2>3 DEF ReadIsPresent
    <2>9. SettledRests' /\ RefreshSettles'
      BY <2>4 DEF SettledRests, RefreshSettles
    <2> QED
      BY <2>5, <2>6, <2>7, <2>8, <2>9
  <1>3. ASSUME NEW f \in refreshing, FetchModels(f) PROVE CacheIInv'
    <2>1. PICK list \in Offers : Becomes(f, [f EXCEPT !.step = "fetched", !.list = list])
      BY <1>3 DEF FetchModels
    <2>2. PICK g : g = [f EXCEPT !.step = "fetched", !.list = list]
      OBVIOUS
    <2>3. g \in Refresh /\ g.alone = f.alone /\ g.seen = f.seen /\ g.step = "fetched"
      BY <2>2, RefreshFacts DEF Refresh, Lists
    <2> QED
      BY <1>3, <2>1, <2>2, <2>3, RefreshBecomes DEF FetchModels
  <1>4. ASSUME NEW f \in refreshing, MarkStale(f) PROVE CacheIInv'
    <2>1. PICK g : g = [f EXCEPT !.step = "marked"]
      OBVIOUS
    <2>2. g \in Refresh /\ g.alone = f.alone /\ g.seen = f.seen /\ g.step = "marked"
      BY <2>1, RefreshFacts DEF Refresh
    <2>3. Becomes(f, g) /\ settled' = settled /\ UNCHANGED <<old, refreshes>>
      BY <1>4, <2>1 DEF MarkStale
    <2>4. \A m \in Models : /\ Stale(m) \in CachedModel \cup {NoRow}
                            /\ cache[m] # NoRow => Stale(m) # NoRow
      BY OffersAssumption DEF Stale, CacheTypeOK, CachedModel
    <2>5. cache' = [m \in Models |-> Stale(m)]
      BY <1>4 DEF MarkStale
    <2>6. CacheTypeOK'
      BY <2>2, <2>3, <2>4, <2>5 DEF CacheTypeOK, Becomes
    <2>7. RowsStay'
      BY <2>2, <2>3, <2>4, <2>5 DEF RowsStay, Becomes
    <2>8. Lonely' /\ ReadIsPresent'
      BY <2>2, <2>3 DEF Lonely, ReadIsPresent, Becomes
    <2>9. settled' = <<>>
      BY <2>3 DEF SettledRests
    <2> QED
      BY <2>6, <2>7, <2>8, <2>9 DEF SettledRests, RefreshSettles
  <1>5. ASSUME NEW f \in refreshing, ReadRows(f) PROVE CacheIInv'
    <2>1. PICK g : g = [f EXCEPT !.step = "read", !.seen = cache]
      OBVIOUS
    <2>2. g \in Refresh /\ g.alone = f.alone /\ g.seen = cache
      BY <2>1, RefreshFacts DEF Refresh, CacheTypeOK
    <2> QED
      BY <1>5, <2>1, <2>2, RefreshBecomes DEF ReadRows
  <1>6. ASSUME NEW f \in refreshing, WriteModels(f) PROVE CacheIInv'
    <2>1. \A m \in DOMAIN f.list :
              /\ m \in Models
              /\ Written(f, m) \in CachedModel
              /\ f.seen = cache =>
                    Written(f, m) = [length |-> ContextLength(f.list[m]), valid |-> TRUE]
      <3> SUFFICES ASSUME NEW m \in DOMAIN f.list
                   PROVE  /\ m \in Models
                          /\ Written(f, m) \in CachedModel
                          /\ f.seen = cache => Written(f, m) =
                                [length |-> ContextLength(f.list[m]), valid |-> TRUE]
        OBVIOUS
      <3>1. PICK length : length = ContextLength(f.list[m])
        OBVIOUS
      <3>2. m \in Models /\ length \in Nat
        BY <3>1, RefreshFacts
      <3>3. CASE f.seen[m] = NoRow
        BY <3>1, <3>2, <3>3 DEF Written, CachedModel
      <3>4. CASE f.seen[m] # NoRow
        <4>1. cache[m] \in CachedModel /\ f.seen[m] \in CachedModel
          BY <3>2, <3>4, RefreshFacts DEF RowsStay, CacheTypeOK
        <4>2. Written(f, m) = [cache[m] EXCEPT
                  !.length = IF length = f.seen[m].length THEN cache[m].length ELSE length,
                  !.valid = IF f.seen[m].valid THEN cache[m].valid ELSE TRUE]
          BY <3>1, <3>4, <4>1 DEF Written, CachedModel
        <4>3. Written(f, m) =
                [length |-> IF length = f.seen[m].length THEN cache[m].length ELSE length,
                 valid |-> IF f.seen[m].valid THEN cache[m].valid ELSE TRUE]
          BY <4>1, <4>2 DEF CachedModel
        <4>4. Written(f, m) \in CachedModel
          <5>1. PICK n, v : /\ n = IF length = f.seen[m].length THEN cache[m].length ELSE length
                            /\ v = IF f.seen[m].valid THEN cache[m].valid ELSE TRUE
            OBVIOUS
          <5>2. cache[m].valid \in BOOLEAN /\ cache[m].length \in Nat
            BY <4>1 DEF CachedModel
          <5>3. n \in Nat /\ v \in BOOLEAN
            BY <3>2, <5>1, <5>2
          <5>4. Written(f, m) = [length |-> n, valid |-> v]
            BY <4>3, <5>1
          <5> QED
            BY <5>3, <5>4 DEF CachedModel
        <4>5. ASSUME f.seen = cache
              PROVE  Written(f, m) = [length |-> length, valid |-> TRUE]
          <5>1. cache[m].valid \in BOOLEAN /\ f.seen[m] = cache[m]
            BY <4>1, <4>5 DEF CachedModel
          <5>2. (IF length = f.seen[m].length THEN cache[m].length ELSE length) = length
            BY <5>1
          <5>3. (IF f.seen[m].valid THEN cache[m].valid ELSE TRUE) = TRUE
            BY <5>1
          <5> QED
            BY <4>3, <5>2, <5>3
        <4> QED
          BY <3>1, <3>2, <4>4, <4>5
      <3> QED
        BY <3>3, <3>4
    <2>2. /\ cache' = [m \in Models |-> IF m \in DOMAIN f.list THEN Written(f, m) ELSE cache[m]]
          /\ old' = (old /\ DOMAIN f.list = {})
          /\ refreshing' = refreshing \ {f}
          /\ settled' = IF f.alone THEN f.list ELSE settled
          /\ refreshes' = refreshes
      BY <1>6 DEF WriteModels
    <2>3. f.list \in Lists
      BY RefreshFacts
    <2>4. CacheTypeOK'
      BY <2>1, <2>2, <2>3 DEF CacheTypeOK
    <2>5. RowsStay'
      BY <2>1, <2>2, OffersAssumption DEF RowsStay, CacheTypeOK
    <2>6. Lonely' /\ ReadIsPresent'
      BY <2>2 DEF Lonely, ReadIsPresent
    <2>7. CASE f.alone
      <3>1. refreshing' = {}
        BY <2>2, <2>7 DEF Lonely
      <3>2. f.seen = cache
        BY <1>6, <2>7 DEF ReadIsPresent, WriteModels
      <3>3. \A m \in DOMAIN f.list : cache'[m] = [length |-> ContextLength(f.list[m]), valid |-> TRUE]
        BY <2>1, <2>2, <3>2
      <3>4. RefreshSettles'
        BY <2>2, <2>7, <3>3 DEF RefreshSettles, ContextLength
      <3> QED
        BY <2>4, <2>5, <2>6, <3>1, <3>4 DEF SettledRests
    <2>8. CASE ~f.alone
      <3>1. settled' = <<>>
        BY <2>2, <2>8 DEF SettledRests
      <3> QED
        BY <2>4, <2>5, <2>6, <3>1 DEF SettledRests, RefreshSettles
    <2> QED
      BY <2>7, <2>8, RefreshFacts
  <1>7. ASSUME NEW f \in refreshing, RefreshFails(f) PROVE CacheIInv'
    BY <1>7 DEF RefreshFails, CacheTypeOK, RowsStay, Lonely, ReadIsPresent, SettledRests,
                RefreshSettles
  <1>8. CASE UNCHANGED cacheVars
    BY <1>8 DEF cacheVars, CacheTypeOK, RowsStay, Lonely, ReadIsPresent, SettledRests,
                RefreshSettles
  <1> QED
    BY <1>1, <1>2, <1>3, <1>4, <1>5, <1>6, <1>7, <1>8
       DEF CacheNext, RunModelRefresh, ListModels

-----------------------------------------------------------------------------
(* Sums of the reports.                                                    *)

Tokens(R) == [r \in R |-> r.tokens]

\* The two sums of CountersWithinReports are sums of this kind.
LEMMA TokensSum ==
  ASSUME NEW R, IsFiniteSet(R)
  PROVE  MapThenSumSet(LAMBDA r : r.tokens, R) = SumOf(Tokens(R), R)
  <1> DEFINE g == Tokens(R)
             Adds(it) == it = [s \in SUBSET R |-> IF s = {} THEN 0
                                 ELSE (CHOOSE x \in s : TRUE).tokens
                                      + it[s \ {CHOOSE x \in s : TRUE}]]
  <1>1. ASSUME NEW it PROVE Adds(it) <=> Sums(it, g, R)
    <2>1. \A s \in SUBSET R : s # {} => g[Pick(s)] = Pick(s).tokens
      BY PickIn DEF Tokens
    <2> HIDE DEF g
    <2> QED
     BY <2>1 DEF Sums, Pick
  <1>2. MapThenSumSet(LAMBDA r : r.tokens, R) = (CHOOSE it : Adds(it))[R]
    BY DEF MapThenSumSet, MapThenFoldSet
  <1> HIDE DEF g, Adds
  <1>3. \E it : Adds(it)
    <2>1. PICK it : Sums(it, g, R)
      BY SumsExist
    <2> QED
      BY <1>1, <2>1
  <1>4. PICK a : a = (CHOOSE it : Adds(it))
    OBVIOUS
  <1>5. Sums(a, g, R)
    BY <1>1, <1>3, <1>4
  <1>6. a[R] = SumOf(g, R)
    BY <1>5, SumIs
  <1> QED
    BY <1>2, <1>4, <1>6 DEF g

LEMMA TotalIs ==
  ASSUME NEW f, IsFiniteSet(DOMAIN f)
  PROVE  Total(f) = SumOf([d \in DOMAIN f |-> Counters(f[d])], DOMAIN f)
  <1> DEFINE D == DOMAIN f
             g == [d \in D |-> Counters(f[d])]
             Adds(it) == it = [s \in SUBSET D |-> IF s = {} THEN 0
                                 ELSE Counters(f[CHOOSE x \in s : TRUE])
                                      + it[s \ {CHOOSE x \in s : TRUE}]]
  <1>1. ASSUME NEW it PROVE Adds(it) <=> Sums(it, g, D)
    <2>1. \A s \in SUBSET D : s # {} => g[Pick(s)] = Counters(f[Pick(s)])
      BY PickIn
    <2> HIDE DEF g, D
    <2> QED
     BY <2>1 DEF Sums, Pick
  <1>2. Total(f) = (CHOOSE it : Adds(it))[D]
    BY DEF Total, MapThenSumSet, MapThenFoldSet
  <1>3. IsFiniteSet(D)
    OBVIOUS
  <1> HIDE DEF g, D, Adds
  <1>4. \E it : Adds(it)
    <2>1. PICK it : Sums(it, g, D)
      BY <1>3, SumsExist
    <2> QED
      BY <1>1, <2>1
  <1>5. PICK a : a = (CHOOSE it : Adds(it))
    OBVIOUS
  <1>6. Sums(a, g, D)
    BY <1>1, <1>4, <1>5
  <1>7. a[D] = SumOf(g, D)
    BY <1>3, <1>6, SumIs
  <1> QED
    BY <1>2, <1>5, <1>7 DEF g, D

\* A record adds its tokens, and so does an entry of a function.
LEMMA OneMoreReport ==
  ASSUME NEW R, IsFiniteSet(R), \A r \in R : r.tokens \in Nat,
         NEW x, x \notin R, x.tokens \in Nat
  PROVE  SumOf(Tokens(R \cup {x}), R \cup {x}) = SumOf(Tokens(R), R) + x.tokens
  <1>1. PICK T, g, h : T = R \cup {x} /\ g = Tokens(T) /\ h = Tokens(R)
    OBVIOUS
  <1>2. IsFiniteSet(T)
    BY <1>1, FS_AddElement
  <1>3. /\ \A y \in T : g[y] \in Nat
        /\ \A y \in R : h[y] \in Nat /\ g[y] = h[y]
        /\ g[x] = x.tokens
    BY <1>1 DEF Tokens
  <1>4. x \in T /\ T \ {x} = R
    BY <1>1
  <1>5. SumOf(g, T) = g[x] + SumOf(g, R)
    BY <1>2, <1>3, <1>4, SumOfSplit
  <1>6. SumOf(g, R) = SumOf(h, R) /\ SumOf(h, R) \in Nat
    BY <1>3, SumOfAlike, SumOfNat
  <1> QED
    BY <1>1, <1>3, <1>5, <1>6

LEMMA OneMoreAt ==
  ASSUME NEW D, IsFiniteSet(D), NEW f \in [D -> Nat], NEW d \in D, NEW k \in Nat
  PROVE  SumOf([f EXCEPT ![d] = f[d] + k], D) = SumOf(f, D) + k
  <1>1. PICK g : g = [f EXCEPT ![d] = f[d] + k]
    OBVIOUS
  <1>2. g \in [D -> Nat] /\ g[d] = f[d] + k /\ \A y \in D \ {d} : g[y] = f[y]
    BY <1>1
  <1>3. PICK E : E = D \ {d}
    OBVIOUS
  <1>4. E \in SUBSET D /\ IsFiniteSet(E)
    BY <1>3, FS_Subset
  <1>5. SumOf(g, D) = g[d] + SumOf(g, E) /\ SumOf(f, D) = f[d] + SumOf(f, E)
    BY <1>2, <1>3, SumOfSplit
  <1>6. SumOf(g, E) = SumOf(f, E)
    BY <1>2, <1>3, <1>4, SumOfAlike
  <1>7. SumOf(f, E) \in Nat
    BY <1>4, SumOfNat
  <1> QED
    BY <1>1, <1>2, <1>5, <1>6, <1>7

-----------------------------------------------------------------------------
(* The calls.                                                              *)

Recordings == {c \in calls : c.op = "record"}
Patches == {c \in calls : c.op = "patch"}

FinitelyMany == IsFiniteSet(records) /\ IsFiniteSet(calls)

\* No two records, committed or about to be, have one time.
StampsDiffer ==
    /\ \A r, s \in records : r.at = s.at => r = s
    /\ \A c \in Recordings, r \in records : c.record.at # r.at
    /\ \A c, d \in Recordings : c.record.at = d.record.at => c = d

\* What was committed of each day, lost updates among it, is at least what is in
\* its row, and at least what any call has read there.
BookedBy(booked) ==
    /\ SumOf(booked, Days) = SumOf(Tokens(records), records)
    /\ \A d \in Days : Counters(days[d]) <= booked[d]
    /\ \A c \in Recordings : Counters(c.seen) <= booked[c.day]
Booked == \E booked \in [Days -> Nat] : BookedBy(booked)

LastOfDay == \A d \in Days : counted[d] <= Counters(days[d])

Lines ==
    /\ \A s \in Sessions :
          IF session[s] = NoRow THEN counted[s] = 0
          ELSE counted[s] <= session[s].lines /\ session[s].lines <= told[s]
    /\ \A c \in Patches : session[c.s] # NoRow /\ c.seen <= told[c.s]

\* A record that is written alone will be the newest of its model.
AloneIsNewest ==
    \A c \in Recordings :
        /\ c.record.at > 0
        /\ alone[c.record.model] = c.record.at =>
              /\ \A r \in records : r.model = c.record.model => r.at < c.record.at
              /\ \A d \in Recordings : d.record.model = c.record.model => d = c

\* The newest record of m with a size fills its window.
FullWindow(m) ==
    \E r \in Sized(m) : r.used >= r.size /\ \A other \in Sized(m) : other.at <= r.at

FilledIsFull == \A m \in Models : filled[m] => FullWindow(m)

UsageIInv == CacheIInv /\ UsageTypeOK /\ GateHolds /\ FinitelyMany /\ StampsDiffer
             /\ Booked /\ LastOfDay /\ Lines /\ AloneIsNewest /\ FilledIsFull

LEMMA CallFacts ==
  ASSUME UsageTypeOK, NEW c \in calls
  PROVE  /\ c.op = "call" => c \in Call
         /\ c.op = "record" => c \in Recording
         /\ c.op = "patch" => c \in Patch
         /\ c.op \in {"call", "record", "patch"}
  BY DEF UsageTypeOK, Call, Recording, Patch

LEMMA RowFacts ==
  ASSUME UsageTypeOK
  PROVE  /\ IsFiniteSet(Days)
         /\ \A d \in Days : Counters(days[d]) \in Nat
         /\ \A s \in Sessions : session[s] # NoRow =>
               session[s] \in Session /\ session[s].lines \in Nat /\ session[s].model \in Models
         /\ \A n \in Nat : Counters(n) = n
         /\ \A n \in Nat \cup {NoRow} : Counters(n) \in Nat
         /\ \A d \in Days : d \notin Sessions
  <1>1. IsFiniteSet(Days)
    BY UsageAssumption, FS_Interval DEF Days
  <1>2. \A n \in Nat : Counters(n) = n
    BY UsageAssumption DEF Counters
  <1>3. Counters(NoRow) = 0
    BY DEF Counters
  <1>4. \A n \in Nat \cup {NoRow} : Counters(n) \in Nat
    BY <1>2, <1>3
  <1>5. \A d \in Days : Counters(days[d]) \in Nat
    BY <1>4 DEF UsageTypeOK
  <1>6. \A s \in Sessions : session[s] # NoRow =>
           session[s] \in Session /\ session[s].lines \in Nat /\ session[s].model \in Models
    BY DEF UsageTypeOK, Session
  <1>7. \A d \in Days : d \notin Sessions
    BY UsageAssumption DEF Days
  <1> QED
    BY <1>1, <1>2, <1>4, <1>5, <1>6, <1>7

\* The next stamp is later than all others.
LEMMA StampIsNew ==
  ASSUME UsageTypeOK, FinitelyMany
  PROVE  /\ Stamp \in Nat /\ Stamp > 0
         /\ \A r \in records : r.at < Stamp
         /\ \A c \in Recordings : c.record.at < Stamp
  <1> DEFINE A == {r.at : r \in records}
             B == {c.record.at : c \in Recordings}
             S == {0} \cup A \cup B
  <1>1. IsFiniteSet(A)
    <2> DEFINE at == [r \in records |-> r.at]
    <2>1. at \in [records -> A] /\ \A x \in A : \E r \in records : at[r] = x
      OBVIOUS
    <2> HIDE DEF at, A
    <2> QED
      BY <2>1, FS_Surjection DEF FinitelyMany, Surjection
  <1>2. IsFiniteSet(B)
    <2> DEFINE at == [c \in Recordings |-> c.record.at]
    <2>1. IsFiniteSet(Recordings)
      BY FS_Subset DEF FinitelyMany, Recordings
    <2>2. at \in [Recordings -> B] /\ \A x \in B : \E c \in Recordings : at[c] = x
      OBVIOUS
    <2> HIDE DEF at, B
    <2> QED
      BY <2>1, <2>2, FS_Surjection DEF Surjection
  <1>3. IsFiniteSet(S)
    <2>1. IsFiniteSet({0})
      BY FS_Singleton
    <2>2. IsFiniteSet({0} \cup A)
      BY <1>1, <2>1, FS_Union
    <2> QED
      BY <1>2, <2>2, FS_Union
  <1>4. S \in SUBSET Nat
    BY CallFacts DEF UsageTypeOK, Record, Recording, Recordings
  <1>5. Stamp = 1 + Max(S)
    BY DEF Stamp, Recordings
  <1>6. Max(S) \in Nat /\ \A y \in S : y <= Max(S)
    <2>1. 0 \in S
      OBVIOUS
    <2> HIDE DEF S
    <2> QED
      BY <1>3, <1>4, <2>1, MaxIs
  <1>7. (\A r \in records : r.at \in S) /\ \A c \in Recordings : c.record.at \in S
    OBVIOUS
  <1> HIDE DEF S
  <1>8. PICK max \in Nat : max = Max(S)
    BY <1>6
  <1>9. Stamp = 1 + max /\ \A y \in S : y \in Nat /\ y <= max
    BY <1>4, <1>5, <1>6, <1>8
  <1>10. Stamp \in Nat /\ Stamp > 0 /\ \A y \in S : y < Stamp
    BY <1>9
  <1> QED
    BY <1>7, <1>10

\* What is to be recorded.
Recordable(c) ==
    /\ c \in Recording /\ c.day = today /\ c.seen = days[today]
    /\ c.record.at = Stamp

LEMMA RecordedFacts ==
  ASSUME UsageTypeOK, FinitelyMany, NEW id \in Nat, NEW m \in Models, NEW used \in Nat,
         NEW size \in Nat, NEW tokens \in Nat
  PROVE  Recordable(Recorded(id, m, used, size, tokens))
  <1>1. Stamp \in Nat /\ today \in Days /\ days[today] \in Nat \cup {NoRow}
    BY StampIsNew DEF UsageTypeOK
  <1>2. [at |-> Stamp, model |-> m, used |-> used, size |-> size, tokens |-> tokens] \in Record
    BY <1>1 DEF Record
  <1> QED
    BY <1>1, <1>2 DEF Recorded, Recordable, Recording

\* What the gate promises, on the newest record of a model.
LEMMA RoundsToAll ==
  ASSUME NEW used \in Nat, NEW size \in Nat, size > 0, used >= size
  PROVE  Round(100 * used, size) \in Nat /\ Round(100 * used, size) >= 100
  <1>1. PICK n \in Nat : n = 100 * used
    OBVIOUS
  <1>2. n >= 100 * size
    BY <1>1
  <1>3. PICK q \in Nat : q = n \div size
    OBVIOUS
  <1>4. q >= 100
    BY <1>2, <1>3
  <1> QED
    BY <1>1, <1>3, <1>4 DEF Round

LEMMA FullIsExhausted ==
  ASSUME UsageTypeOK, FinitelyMany, StampsDiffer, NEW m \in Models, FullWindow(m)
  PROVE  IsContextExhausted(m)
  <1>1. PICK r \in Sized(m) : r.used >= r.size /\ \A other \in Sized(m) : other.at <= r.at
    BY DEF FullWindow
  <1>2. /\ r \in records /\ r.size > 0
        /\ \A other \in Sized(m) : other \in records /\ other.at <= r.at
    BY <1>1 DEF Sized
  <1>3. \A s \in records : s.at \in Nat
    BY DEF UsageTypeOK, Record
  <1>4. PICK s : s = Latest(Sized(m))
    OBVIOUS
  <1>5. s \in Sized(m) /\ \A other \in Sized(m) : other.at <= s.at
    BY <1>1, <1>4 DEF Latest
  <1>6. s = r
    <2>1. s \in records /\ s.at <= r.at /\ r.at <= s.at
      BY <1>1, <1>2, <1>5
    <2>2. s.at = r.at
      BY <1>2, <1>3, <2>1
    <2> QED
      BY <1>2, <2>1, <2>2 DEF StampsDiffer
  <1>7. r.used \in Nat /\ r.size \in Nat
    BY <1>2 DEF UsageTypeOK, Record
  <1>8. PICK n \in Nat : n = Round(100 * r.used, r.size) /\ n >= 100
    BY <1>1, <1>2, <1>7, RoundsToAll
  <1>9. Max({0, 100 - n}) = 0
    BY <1>8 DEF Max
  <1>10. RemainingPct(r) = 0
    BY <1>8, <1>9 DEF RemainingPct
  <1> QED
    BY <1>1, <1>4, <1>6, <1>10 DEF IsContextExhausted

LEMMA GateStays ==
  ASSUME UsageIInv, NEW m \in Models, PassesGate(m)
  PROVE  slipped' = FALSE
  BY FullIsExhausted DEF UsageIInv, FilledIsFull, PassesGate, GateHolds, UsageTypeOK

\* Who is alone stays so while no record begins.
LEMMA AloneKept ==
  ASSUME AloneIsNewest, UsageTypeOK, UNCHANGED <<records, alone>>, Recordings' \subseteq Recordings
  PROVE  AloneIsNewest' /\ alone' \in [Models -> Nat]
  BY DEF AloneIsNewest, UsageTypeOK

\* One that begins is alone if no other of its model is being written, and ends
\* the solitude of one that is.
LEMMA AloneBegins ==
  ASSUME AloneIsNewest, UsageTypeOK, FinitelyMany, NEW m \in Models, BeginsRecord(m),
         NEW b, Recordable(b), b.record.model = m,
         records' = records, Recordings' \subseteq Recordings \cup {b}
  PROVE  AloneIsNewest' /\ alone' \in [Models -> Nat]
  <1> DEFINE others == \E c \in Recordings : c.record.model = m
  <1>1. Stamp \in Nat /\ Stamp > 0
    BY StampIsNew
  <1>2. /\ alone' \in [Models -> Nat]
        /\ \A k \in Models \ {m} : alone'[k] = alone[k]
        /\ others => alone'[m] = 0
        /\ ~others => alone'[m] = Stamp
    BY <1>1 DEF BeginsRecord, UsageTypeOK, Recordings
  <1>3. \A c \in Recordings : /\ c.record.model \in Models /\ c.record.at \in Nat
                              /\ c.record.at > 0
    BY CallFacts DEF AloneIsNewest, Recordings, Recording, Record
  <1>4. b.record.at = Stamp /\ \A r \in records : r.at < Stamp
    BY StampIsNew DEF Recordable
  <1> HIDE DEF others
  <1>5. ASSUME NEW c \in Recordings', alone'[c.record.model] = c.record.at, c # b
        PROVE  /\ c \in Recordings /\ c.record.model # m
               /\ alone[c.record.model] = c.record.at
    <2>1. c \in Recordings
      BY <1>5
    <2>2. c.record.model # m
      BY <1>2, <1>3, <1>5, <2>1 DEF others
    <2> QED
      BY <1>2, <1>3, <1>5, <2>1, <2>2
  <1>6. ASSUME NEW c \in Recordings', alone'[c.record.model] = c.record.at
        PROVE  /\ \A r \in records : r.model = c.record.model => r.at < c.record.at
               /\ \A d \in Recordings' : d.record.model = c.record.model => d = c
    <2>1. CASE c # b
      BY <1>5, <1>6, <2>1 DEF AloneIsNewest
    <2>2. CASE c = b
      <3>1. ~others
        BY <1>1, <1>2, <1>4, <1>6, <2>2
      <3> QED
        BY <1>4, <2>2, <3>1 DEF others
    <2> QED
      BY <2>1, <2>2
  <1>7. \A c \in Recordings' : c.record.at > 0
    BY <1>1, <1>3, <1>4
  <1> QED
    BY <1>2, <1>6, <1>7 DEF AloneIsNewest

\* A step that leaves the rows alone: what it adds to the calls is a call, the
\* record of one, or an update of a session that is there.
LEMMA CallsChange ==
  ASSUME UsageIInv, CacheIInv',
         UNCHANGED <<records, days, session, counted, told, filled>>,
         AloneIsNewest' /\ alone' \in [Models -> Nat],
         slipped' = FALSE, begun' \in 0..MaxCalls, today' \in Days,
         IsFiniteSet(calls'),
         \A c \in calls' \ calls :
            \/ c \in Call
            \/ Recordable(c)
            \/ c \in Patch /\ session[c.s] # NoRow /\ c.seen <= told[c.s],
         \A c, d \in calls' \ calls : c = d
  PROVE  UsageIInv'
  <1> USE DEF UsageIInv
  <1>1. UsageTypeOK'
    BY DEF UsageTypeOK, Recordable, CacheIInv
  <1>2. GateHolds' /\ FinitelyMany'
    BY DEF GateHolds, FinitelyMany
  <1>3. LastOfDay'
    BY DEF LastOfDay, Counters
  <1>4. ASSUME NEW c \in Recordings' PROVE c \in Recordings \/ Recordable(c)
    BY DEF Recordings, Call, Patch
  <1>5. ASSUME NEW c \in Patches'
        PROVE  c \in Patches \/ (session[c.s] # NoRow /\ c.seen <= told[c.s])
    BY DEF Patches, Call, Recording, Recordable
  <1>6. StampsDiffer'
    <2>1. \A c \in Recordings : c.record.at \in Nat
      BY CallFacts DEF Recordings, Recording, Record
    <2>2. \A r \in records : r.at \in Nat
      BY DEF UsageTypeOK, Record
    <2>3. \A c \in Recordings', d \in Recordings' :
             c \notin Recordings /\ d \notin Recordings => c = d
      BY DEF Recordings
    <2> QED
      BY <1>4, <2>1, <2>2, <2>3, StampIsNew DEF StampsDiffer, Recordable
  <1>7. Booked'
    <2>1. PICK booked \in [Days -> Nat] : BookedBy(booked)
      BY DEF Booked
    <2>2. BookedBy(booked)'
      <3>1. SumOf(booked, Days)' = SumOf(booked, Days)
        BY DEF SumOf
      <3>2. SumOf(Tokens(records), records)' = SumOf(Tokens(records), records)
        BY DEF SumOf, Tokens
      <3>3. \A d \in Days : Counters(days'[d]) <= booked[d]
        BY <2>1 DEF BookedBy
      <3>4. \A c \in Recordings' : Counters(c.seen) <= booked[c.day]
        BY <1>4, <2>1 DEF BookedBy, Recordable, UsageTypeOK
      <3> QED
        BY <2>1, <3>1, <3>2, <3>3, <3>4 DEF BookedBy
    <2> QED
      BY <2>2 DEF Booked
  <1>8. Lines'
    BY <1>5 DEF Lines
  <1>9. FilledIsFull'
    BY DEF FilledIsFull, FullWindow, Sized
  <1> QED
    BY <1>1, <1>2, <1>3, <1>6, <1>7, <1>8, <1>9

LEMMA UsageInitHolds == UsageInit => UsageIInv
  <1> SUFFICES ASSUME UsageInit PROVE UsageIInv
    OBVIOUS
  <1> USE DEF UsageInit
  <1>1. CacheIInv
    BY CacheInitHolds
  <1>2. UsageTypeOK
    <2>1. CacheTypeOK
      BY <1>1 DEF CacheIInv
    <2>2. slipped \in BOOLEAN
      OBVIOUS
    <2>3. begun \in 0..MaxCalls /\ today \in Days
      BY UsageAssumption DEF Days
    <2>4. days \in [Days -> Nat \cup {NoRow}] /\ session \in [Sessions -> Session \cup {NoRow}]
      OBVIOUS
    <2>5. counted \in [Days \cup Sessions -> Nat] /\ told \in [Sessions -> Nat]
      OBVIOUS
    <2>6. records \subseteq Record /\ calls \subseteq Call \cup Recording \cup Patch
      OBVIOUS
    <2>7. filled \in [Models -> BOOLEAN] /\ alone \in [Models -> Nat]
      OBVIOUS
    <2> QED
      BY <2>1, <2>2, <2>3, <2>4, <2>5, <2>6, <2>7 DEF UsageTypeOK
  <1>3. Recordings = {} /\ Patches = {}
    BY DEF Recordings, Patches
  <1>4. GateHolds /\ FinitelyMany /\ StampsDiffer /\ Lines
    <2>1. GateHolds
      BY DEF GateHolds
    <2>2. FinitelyMany
      BY FS_EmptySet DEF FinitelyMany
    <2>3. StampsDiffer
      BY <1>3 DEF StampsDiffer
    <2>4. Lines
      BY <1>3 DEF Lines
    <2> QED
      BY <2>1, <2>2, <2>3, <2>4
  <1>5. \A d \in Days : Counters(days[d]) = 0
    BY DEF Counters
  <1>6. LastOfDay
    BY <1>5 DEF LastOfDay
  <1>7. Booked
    <2>1. PICK none \in [Days -> Nat] : \A d \in Days : none[d] = 0
      <3>1. [d \in Days |-> 0] \in [Days -> Nat] /\ \A e \in Days : [d \in Days |-> 0][e] = 0
        OBVIOUS
      <3> QED
        BY <3>1
    <2>2. IsFiniteSet(Days)
      BY <1>2, RowFacts
    <2>3. SumOf(none, Days) = 0
      BY <2>1, <2>2, SumOfZero
    <2>4. SumOf(Tokens(records), records) = 0
      BY SumOfEmpty
    <2> QED
      BY <1>3, <1>5, <2>1, <2>3, <2>4 DEF Booked, BookedBy
  <1>8. AloneIsNewest /\ FilledIsFull
    BY <1>3 DEF AloneIsNewest, FilledIsFull
  <1> QED
    BY <1>1, <1>2, <1>4, <1>6, <1>7, <1>8 DEF UsageIInv

\* A committed record: the row of its day holds at most what was booked on it,
\* with the tokens it adds.
LEMMA RecordCommitted ==
  ASSUME UsageIInv, NEW c \in calls, RecordCommit(c), CacheIInv'
  PROVE  UsageIInv'
  <1> USE DEF UsageIInv
  <1>1. c \in Recording /\ c \in Recordings
    BY CallFacts DEF RecordCommit, Recordings
  <1>2. PICK d, r, tokens, sum : /\ d = c.day /\ r = c.record /\ tokens = c.record.tokens
                                 /\ sum = Counters(c.seen) + c.record.tokens
    OBVIOUS
  <1>3. d \in Days /\ r \in Record /\ tokens \in Nat /\ Counters(c.seen) \in Nat /\ sum \in Nat
        /\ tokens <= sum /\ r.tokens = tokens /\ sum = Counters(c.seen) + tokens
    <2>1. c.day \in Days /\ c.record \in Record /\ c.seen \in Nat \cup {NoRow}
      BY <1>1 DEF Recording
    <2>2. c.record.tokens \in Nat
      BY <2>1 DEF Record
    <2>3. Counters(c.seen) \in Nat
      BY <2>1, RowFacts
    <2> QED
      BY <1>2, <2>1, <2>2, <2>3
  <1>4. /\ calls' = calls \ {c}
        /\ records' = records \cup {r}
        /\ days' = [days EXCEPT ![d] = sum]
        /\ counted' = [counted EXCEPT ![d] = tokens]
        /\ filled' = [filled EXCEPT ![r.model] = IF r.size = 0 THEN filled[r.model] ELSE Fills(r)]
        /\ UNCHANGED <<session, begun, today, slipped, told, alone>>
    BY <1>2 DEF RecordCommit
  <1>5. UsageTypeOK'
    <2>1. days' \in [Days -> Nat \cup {NoRow}] /\ counted' \in [Days \cup Sessions -> Nat]
      BY <1>3, <1>4 DEF UsageTypeOK
    <2>2. records' \subseteq Record /\ calls' \subseteq Call \cup Recording \cup Patch
      BY <1>3, <1>4 DEF UsageTypeOK
    <2>3. filled' \in [Models -> BOOLEAN]
      <3>1. r.model \in Models /\ Fills(r) \in BOOLEAN
        BY <1>3 DEF Record, Fills
      <3> QED
        BY <1>4, <3>1 DEF UsageTypeOK
    <2> QED
      BY <1>4, <2>1, <2>2, <2>3 DEF UsageTypeOK, CacheIInv
  <1>6. GateHolds' /\ FinitelyMany'
    <2>1. IsFiniteSet(records \cup {r}) /\ IsFiniteSet(calls \ {c})
      BY FS_AddElement, FS_RemoveElement DEF FinitelyMany
    <2> QED
      BY <1>4, <2>1 DEF GateHolds, FinitelyMany
  <1>7. r \notin records /\ \A s \in records : s.at # r.at
    BY <1>1, <1>2 DEF StampsDiffer
  <1>8. Recordings' = Recordings \ {c} /\ Patches' \subseteq Patches
    BY <1>4 DEF Recordings, Patches
  <1>9. StampsDiffer'
    BY <1>1, <1>2, <1>4, <1>7, <1>8 DEF StampsDiffer
  <1>10. \A e \in Days : Counters(days'[e]) = IF e = d THEN sum ELSE Counters(days[e])
    BY <1>3, <1>4, RowFacts DEF UsageTypeOK
  <1>11. LastOfDay'
    <2>1. \A e \in Days : counted'[e] = IF e = d THEN tokens ELSE counted[e]
      BY <1>3, <1>4 DEF UsageTypeOK
    <2> QED
      BY <1>3, <1>10, <2>1 DEF LastOfDay
  <1>12. Booked'
    <2>1. PICK booked \in [Days -> Nat] : BookedBy(booked)
      BY DEF Booked
    <2>2. PICK more : more = [booked EXCEPT ![d] = booked[d] + tokens]
      OBVIOUS
    <2>3. /\ more \in [Days -> Nat] /\ more[d] = booked[d] + tokens
          /\ \A e \in Days : booked[e] <= more[e]
      BY <1>3, <2>2
    <2>4. SumOf(more, Days) = SumOf(booked, Days) + tokens
      BY <1>3, <2>2, RowFacts, OneMoreAt
    <2>5. SumOf(Tokens(records'), records') = SumOf(Tokens(records), records) + tokens
      <3>1. IsFiniteSet(records) /\ \A s \in records : s.tokens \in Nat
        BY DEF FinitelyMany, UsageTypeOK, Record
      <3>2. SumOf(Tokens(records \cup {r}), records \cup {r})
              = SumOf(Tokens(records), records) + r.tokens
        BY <1>3, <1>7, <3>1, OneMoreReport
      <3> QED
        BY <1>3, <1>4, <3>2
    <2>6. \A e \in Days : Counters(days'[e]) <= more[e]
      <3>1. Counters(c.seen) <= booked[d] /\ booked[d] \in Nat
        BY <1>1, <1>2, <1>3, <2>1 DEF BookedBy
      <3>2. sum <= more[d]
        BY <1>3, <2>3, <3>1
      <3>3. \A e \in Days : /\ Counters(days[e]) \in Nat /\ booked[e] \in Nat /\ more[e] \in Nat
                            /\ Counters(days[e]) <= booked[e]
        BY <2>1, <2>3, RowFacts DEF BookedBy
      <3> QED
        BY <1>10, <2>3, <3>2, <3>3
    <2>7. \A b \in Recordings' : Counters(b.seen) <= more[b.day]
      <3>1. \A b \in Recordings : /\ Counters(b.seen) \in Nat /\ b.day \in Days
                                  /\ Counters(b.seen) <= booked[b.day]
        BY <2>1, CallFacts, RowFacts DEF BookedBy, Recordings, Recording
      <3>2. \A e \in Days : booked[e] \in Nat /\ more[e] \in Nat /\ booked[e] <= more[e]
        BY <2>3
      <3> QED
        BY <1>8, <3>1, <3>2
    <2>8. SumOf(more, Days)' = SumOf(more, Days)
      BY DEF SumOf
    <2>9. SumOf(more, Days) = SumOf(Tokens(records'), records')
      BY <2>1, <2>4, <2>5 DEF BookedBy
    <2>10. BookedBy(more)'
      BY <2>6, <2>7, <2>9 DEF BookedBy
    <2> QED
      BY <2>3, <2>10 DEF Booked
  <1>13. Lines'
    <2>1. \A s \in Sessions : counted'[s] = counted[s]
      BY <1>3, <1>4, RowFacts DEF UsageTypeOK
    <2> QED
      BY <1>4, <1>8, <2>1 DEF Lines
  <1>14. AloneIsNewest'
    <2>1. ASSUME NEW b \in Recordings', alone[b.record.model] = b.record.at
          PROVE  r.model # b.record.model
      BY <1>1, <1>2, <1>8, <2>1 DEF AloneIsNewest
    <2> QED
      BY <1>4, <1>8, <2>1 DEF AloneIsNewest
  <1>15. FilledIsFull'
    <2>1. /\ r.model \in Models /\ r.size \in Nat /\ r.at \in Nat
          /\ \A m \in Models : filled'[m] =
                IF m = r.model THEN (IF r.size = 0 THEN filled[m] ELSE Fills(r)) ELSE filled[m]
      BY <1>3, <1>4 DEF UsageTypeOK, Record
    <2>2. \A m \in Models : Sized(m)' = IF m = r.model /\ r.size > 0
                                       THEN Sized(m) \cup {r} ELSE Sized(m)
      BY <1>4, <2>1 DEF Sized
    <2>3. ASSUME NEW m \in Models, filled'[m]
          PROVE  FullWindow(m)'
      <3>1. CASE m = r.model /\ r.size > 0
        <4>1. alone[r.model] = r.at /\ r.used >= r.size
          <5>1. r.size # 0
            BY <2>1, <3>1
          <5>2. filled'[m] = Fills(r)
            BY <2>1, <3>1, <5>1
          <5> QED
            BY <2>3, <5>2 DEF Fills
        <4>2. \A other \in Sized(m) : other.at < r.at /\ other.at \in Nat
          BY <1>1, <1>2, <3>1, <4>1 DEF AloneIsNewest, Sized, UsageTypeOK, Record
        <4>3. \A other \in Sized(m)' : other.at <= r.at
          BY <2>1, <2>2, <3>1, <4>2
        <4> QED
          BY <2>2, <3>1, <4>1, <4>3 DEF FullWindow
      <3>2. CASE ~(m = r.model /\ r.size > 0)
        <4>1. filled[m] /\ Sized(m)' = Sized(m)
          BY <2>1, <2>2, <2>3, <3>2
        <4> QED
          BY <4>1 DEF FilledIsFull, FullWindow
      <3> QED
        BY <3>1, <3>2
    <2> QED
      BY <2>3 DEF FilledIsFull
  <1> QED
    BY <1>5, <1>6, <1>9, <1>11, <1>12, <1>13, <1>14, <1>15

\* What the sessions' steps leave alone.
LEMMA SessionChanges ==
  ASSUME UsageIInv, CacheIInv', UsageTypeOK', Lines', calls' \subseteq calls,
         UNCHANGED <<records, days, slipped, windowVars>>, \A d \in Days : counted'[d] = counted[d]
  PROVE  UsageIInv'
  <1> USE DEF UsageIInv
  <1>1. Recordings' \subseteq Recordings
    BY DEF Recordings
  <1>2. FinitelyMany'
    BY FS_Subset DEF FinitelyMany
  <1>3. GateHolds' /\ StampsDiffer'
    BY <1>1 DEF GateHolds, StampsDiffer
  <1>4. LastOfDay'
    BY DEF LastOfDay, Counters
  <1>5. Booked'
    <2>1. PICK booked \in [Days -> Nat] : BookedBy(booked)
      BY DEF Booked
    <2>2. SumOf(Tokens(records), records)' = SumOf(Tokens(records), records)
      BY DEF SumOf, Tokens
    <2>3. BookedBy(booked)'
      BY <1>1, <2>1, <2>2 DEF BookedBy
    <2> QED
      BY <2>3 DEF Booked
  <1>6. AloneIsNewest'
    BY <1>1, AloneKept DEF windowVars
  <1>7. FilledIsFull'
    BY DEF FilledIsFull, FullWindow, Sized, windowVars
  <1> QED
    BY <1>2, <1>3, <1>4, <1>5, <1>6, <1>7

LEMMA AddedCall ==
  ASSUME FinitelyMany, Arrives, UsageTypeOK
  PROVE  /\ begun' \in 0..MaxCalls /\ begun + 1 \in Nat
         /\ \A c : IsFiniteSet(calls \cup {c}) /\ IsFiniteSet(calls \ {c})
         /\ \A b, c : IsFiniteSet((calls \ {b}) \cup {c})
  <1>1. begun' \in 0..MaxCalls /\ begun + 1 \in Nat
    BY UsageAssumption DEF Arrives, UsageTypeOK
  <1>2. \A S : IsFiniteSet(S) => \A c : IsFiniteSet(S \cup {c}) /\ IsFiniteSet(S \ {c})
    BY FS_AddElement, FS_RemoveElement
  <1> QED
    BY <1>1, <1>2 DEF FinitelyMany

LEMMA UsageStays ==
  ASSUME UsageIInv, UsageNext \/ UNCHANGED proxyVars
  PROVE  UsageIInv'
  <1> USE DEF UsageIInv
  <1>1. ASSUME CacheNext, UNCHANGED usageVars PROVE UsageIInv'
    <2>1. CacheIInv'
      BY <1>1, CacheStays
    <2> QED
      BY <1>1, <2>1, CallsChange, AloneKept
         DEF usageVars, windowVars, FinitelyMany, UsageTypeOK, GateHolds, Recordings
  <1>2. CASE UNCHANGED proxyVars
    <2>1. CacheIInv'
      BY <1>2, CacheStays DEF proxyVars
    <2> QED
      BY <1>2, <2>1, CallsChange, AloneKept
         DEF proxyVars, usageVars, windowVars, FinitelyMany, UsageTypeOK, GateHolds, Recordings
  <1> SUFFICES ASSUME UNCHANGED cacheVars,
                      \/ \E m \in Models :
                          \/ Chat(m) \/ ChatStream(m)
                          \/ \E report \in Reports : RecordUsage(m, report)
                          \/ \E s \in Sessions : CreateSession(s, m)
                      \/ \E s \in Sessions :
                            CreateMessage(s) \/ \E delta \in Deltas : UpdateSession(s, delta)
                      \/ \E c \in calls :
                          \/ ProviderFails(c) \/ ProviderAnswers(c)
                          \/ RecordCommit(c) \/ RecordAborts(c) \/ UpdateCommit(c)
                      \/ NewDay
               PROVE  UsageIInv'
    BY <1>1, <1>2
       DEF UsageNext, Chat, ChatStream, Begins, RecordUsage, CreateSession, CreateMessage,
           UpdateSession, ProviderFails, ProviderAnswers, RecordCommit, RecordAborts,
           UpdateCommit, NewDay
  <1>3. CacheIInv'
    BY CacheStays
  <1>4. ~slipped /\ slipped \in BOOLEAN /\ today \in Days /\ begun \in 0..MaxCalls
    BY DEF GateHolds, UsageTypeOK
  <1>5. ASSUME NEW m \in Models, Begins(m) PROVE UsageIInv'
    <2>1. PICK c \in Call : calls' = calls \cup {c}
      BY <1>5, AddedCall DEF Begins, Call
    <2>2. slipped' = FALSE /\ begun' \in 0..MaxCalls /\ IsFiniteSet(calls')
      BY <1>5, <2>1, GateStays, AddedCall DEF Begins
    <2>3. Recordings' = Recordings
      BY <2>1 DEF Recordings, Call
    <2> QED
      BY <1>3, <1>4, <1>5, <2>1, <2>2, <2>3, AloneKept, CallsChange DEF Begins, windowVars
  <1>6. ASSUME NEW m \in Models, NEW report \in Reports, RecordUsage(m, report)
        PROVE  UsageIInv'
    <2>1. PICK b : b = Recorded(begun + 1, m, report.used, report.size, report.tokens)
      OBVIOUS
    <2>2. Recordable(b)
      BY <1>6, <2>1, AddedCall, RecordedFacts, UsageAssumption DEF RecordUsage
    <2>3. calls' = calls \cup {b} /\ begun' \in 0..MaxCalls /\ IsFiniteSet(calls')
      BY <1>6, <2>1, AddedCall DEF RecordUsage
    <2>4. b.record.model = m /\ records' = records /\ Recordings' \subseteq Recordings \cup {b}
      BY <1>6, <2>1, <2>3 DEF Recorded, Recordings, RecordUsage
    <2>5. AloneIsNewest' /\ alone' \in [Models -> Nat]
      BY <1>6, <2>2, <2>4, AloneBegins DEF RecordUsage
    <2> QED
      BY <1>3, <1>4, <1>6, <2>2, <2>3, <2>5, CallsChange DEF RecordUsage
  <1>7. ASSUME NEW c \in calls, ProviderAnswers(c) PROVE UsageIInv'
    <2>1. c \in Call
      BY <1>7, CallFacts DEF ProviderAnswers
    <2>2. PICK a \in Answers :
              calls' = (calls \ {c}) \cup
                  {Recorded(c.id, c.model, a.prompt, ContextWindow(c.model, Default),
                            a.prompt + a.completion)}
      BY <1>7 DEF ProviderAnswers
    <2> DEFINE b == Recorded(c.id, c.model, a.prompt, ContextWindow(c.model, Default),
                             a.prompt + a.completion)
    <2>3. ContextWindow(c.model, Default) \in Nat
      BY <2>1, UsageAssumption
         DEF ContextWindow, UsageTypeOK, CacheTypeOK, Call, CachedModel
    <2>4. Recordable(b)
      BY <2>1, <2>3, RecordedFacts, UsageAssumption DEF Call
    <2>5. calls' = (calls \ {c}) \cup {b}
      BY <2>2
    <2>6. b.record.model = c.model /\ c.model \in Models
      BY <2>1 DEF Recorded, Call
    <2> HIDE DEF b
    <2>7. IsFiniteSet(calls')
      BY <2>5, FS_AddElement, FS_RemoveElement DEF FinitelyMany
    <2>8. records' = records /\ Recordings' \subseteq Recordings \cup {b} /\ BeginsRecord(c.model)
      BY <1>7, <2>5 DEF Recordings, ProviderAnswers
    <2>9. AloneIsNewest' /\ alone' \in [Models -> Nat]
      BY <2>4, <2>6, <2>8, AloneBegins
    <2> QED
      BY <1>3, <1>4, <1>7, <2>4, <2>5, <2>7, <2>9, CallsChange DEF ProviderAnswers
  <1>8. ASSUME NEW c \in calls, ProviderFails(c) \/ RecordAborts(c) PROVE UsageIInv'
    <2>1. calls' = calls \ {c} /\ IsFiniteSet(calls')
      BY <1>8, FS_RemoveElement DEF ProviderFails, RecordAborts, FinitelyMany
    <2>2. Recordings' \subseteq Recordings
      BY <2>1 DEF Recordings
    <2> QED
      BY <1>3, <1>4, <1>8, <2>1, <2>2, AloneKept, CallsChange
         DEF ProviderFails, RecordAborts, windowVars
  <1>9. CASE NewDay
    <2>1. today' \in Days /\ IsFiniteSet(calls')
      BY <1>9, UsageAssumption DEF NewDay, UsageTypeOK, Days, FinitelyMany
    <2> QED
      BY <1>3, <1>4, <1>9, <2>1, AloneKept, CallsChange DEF NewDay, Recordings, windowVars
  <1>10. ASSUME NEW s \in Sessions, CreateMessage(s) PROVE UsageIInv'
    <2>1. session[s].model \in Models
      BY <1>10, RowFacts DEF CreateMessage
    <2>2. slipped' = FALSE /\ begun' \in 0..MaxCalls /\ IsFiniteSet(calls')
      BY <1>4, <1>10, <2>1, GateStays, AddedCall DEF CreateMessage, FinitelyMany
    <2> QED
      BY <1>3, <1>4, <1>10, <2>2, AloneKept, CallsChange DEF CreateMessage, Recordings, windowVars
  <1>11. ASSUME NEW s \in Sessions, NEW delta \in Deltas, UpdateSession(s, delta)
         PROVE  UsageIInv'
    <2>1. PICK c : c = [id |-> begun + 1, op |-> "patch", s |-> s,
                        seen |-> session[s].lines, delta |-> delta]
      OBVIOUS
    <2>2. session[s] # NoRow /\ session[s].lines \in Nat /\ session[s].lines <= told[s]
      BY <1>11, RowFacts DEF UpdateSession, Lines
    <2>3. c \in Patch /\ c.s = s /\ c.seen = session[s].lines
      BY <1>11, <2>1, <2>2, AddedCall DEF Patch, UpdateSession
    <2>4. calls' = calls \cup {c} /\ begun' \in 0..MaxCalls /\ IsFiniteSet(calls')
      BY <1>11, <2>1, AddedCall DEF UpdateSession
    <2>5. Recordings' = Recordings
      BY <2>3, <2>4 DEF Recordings, Patch
    <2> QED
      BY <1>3, <1>4, <1>11, <2>2, <2>3, <2>4, <2>5, AloneKept, CallsChange
         DEF UpdateSession, windowVars
  <1>12. ASSUME NEW c \in calls, RecordCommit(c) PROVE UsageIInv'
    BY <1>3, <1>12, RecordCommitted
  <1>13. ASSUME NEW s \in Sessions, NEW m \in Models, CreateSession(s, m) PROVE UsageIInv'
    <2>1. PICK row \in Session : /\ row.lines = 0
                                 /\ session' = [session EXCEPT ![s] = row]
      BY <1>13 DEF CreateSession, Session
    <2>2. slipped' = FALSE /\ begun' \in 0..MaxCalls
      BY <1>13, GateStays, AddedCall DEF CreateSession
    <2>3. session[s] = NoRow /\ UNCHANGED <<records, days, calls, today, counted, told, windowVars>>
      BY <1>13 DEF CreateSession
    <2>4. UsageTypeOK'
      BY <1>3, <1>4, <2>1, <2>2, <2>3 DEF UsageTypeOK, CacheIInv, windowVars
    <2>5. Lines'
      <3>1. \A r \in Sessions : session'[r] = IF r = s THEN row ELSE session[r]
        BY <2>1 DEF UsageTypeOK
      <3>2. row # NoRow /\ told[s] \in Nat /\ counted[s] = 0
        BY <2>3, UsageAssumption DEF UsageTypeOK, Lines
      <3>3. Patches' = Patches
        BY <2>3 DEF Patches
      <3>4. \A c \in Patches : c.s \in Sessions
        BY CallFacts DEF Patches, Patch
      <3> QED
        BY <2>1, <2>3, <3>1, <3>2, <3>3, <3>4 DEF Lines
    <2> QED
      BY <1>3, <1>4, <2>2, <2>3, <2>4, <2>5, SessionChanges
  <1>14. ASSUME NEW c \in calls, UpdateCommit(c) PROVE UsageIInv'
    <2>1. c \in Patch /\ c \in Patches
      BY <1>14, CallFacts DEF UpdateCommit, Patches
    <2>2. PICK s, delta, lines : /\ s = c.s /\ delta = c.delta /\ lines = c.seen + c.delta
                                 /\ s \in Sessions /\ delta \in Nat /\ c.seen \in Nat
      BY <2>1, UsageAssumption DEF Patch
    <2>3. /\ session[s] \in Session /\ session[s] # NoRow
          /\ c.seen <= told[s] /\ told[s] \in Nat
      BY <2>1, <2>2, RowFacts DEF Lines, UsageTypeOK
    <2>4. /\ calls' = calls \ {c}
          /\ session' = [session EXCEPT ![s].lines = lines]
          /\ counted' = [counted EXCEPT ![s] = delta]
          /\ told' = [told EXCEPT ![s] = told[s] + delta]
          /\ UNCHANGED <<records, days, begun, today, slipped, windowVars>>
      BY <1>14, <2>2 DEF UpdateCommit
    <2>5. PICK row : row = [session[s] EXCEPT !.lines = lines]
      OBVIOUS
    <2>6. row \in Session /\ row.lines = lines /\ row # NoRow
      BY <2>2, <2>3, <2>5, UsageAssumption DEF Session
    <2>7. /\ session' = [session EXCEPT ![s] = row]
          /\ \A r \in Sessions : session'[r] = IF r = s THEN row ELSE session[r]
      BY <2>4, <2>5 DEF UsageTypeOK
    <2>8. UsageTypeOK'
      <3>1. session' \in [Sessions -> Session \cup {NoRow}]
        BY <2>6, <2>7 DEF UsageTypeOK
      <3>2. counted' \in [Days \cup Sessions -> Nat] /\ told' \in [Sessions -> Nat]
        BY <2>2, <2>3, <2>4 DEF UsageTypeOK
      <3> QED
        BY <1>3, <2>4, <3>1, <3>2 DEF UsageTypeOK, CacheIInv, windowVars
    <2>9. /\ \A d \in Days : counted'[d] = counted[d]
          /\ \A r \in Sessions : counted'[r] = IF r = s THEN delta ELSE counted[r]
          /\ \A r \in Sessions : told'[r] = IF r = s THEN told[s] + delta ELSE told[r]
      BY <2>2, <2>4, RowFacts DEF UsageTypeOK
    <2>10. Lines'
      <3>1. Patches' \subseteq Patches
        BY <2>4 DEF Patches
      <3>2. \A b \in Patches : b.s \in Sessions /\ b.seen \in Nat /\ told[b.s] \in Nat
        BY CallFacts DEF Patches, Patch, UsageTypeOK
      <3>3. \A b \in Patches' : session'[b.s] # NoRow /\ b.seen <= told'[b.s]
        BY <2>2, <2>3, <2>6, <2>7, <2>9, <3>1, <3>2 DEF Lines
      <3>4. delta <= lines /\ lines <= told[s] + delta
        BY <2>2, <2>3
      <3>5. \A r \in Sessions :
               IF session'[r] = NoRow THEN counted'[r] = 0
               ELSE counted'[r] <= session'[r].lines /\ session'[r].lines <= told'[r]
        BY <2>2, <2>6, <2>7, <2>9, <3>4 DEF Lines
      <3> QED
        BY <3>3, <3>5 DEF Lines
    <2> QED
      BY <1>3, <2>4, <2>8, <2>9, <2>10, SessionChanges
  <1> QED
    BY <1>5, <1>6, <1>7, <1>8, <1>9, <1>10, <1>11, <1>12, <1>13, <1>14 DEF Chat, ChatStream

LEMMA UsageInvariantHolds == UsageSpec => []UsageIInv
  <1>1. UsageIInv /\ [UsageNext]_proxyVars => UsageIInv'
    BY UsageStays
  <1> QED
    BY <1>1, UsageInitHolds, PTL DEF UsageSpec

\* The rows, the calls and the counters keep their types; the length of a
\* context is always a number, whatever the provider sent.
THEOREM UsageTypeCorrect == UsageSpec => []UsageTypeOK
  <1>1. UsageIInv => UsageTypeOK
    BY DEF UsageIInv
  <1> QED
    BY <1>1, UsageInvariantHolds, PTL

\* A refresh that no other overlapped leaves its list valid, whatever those
\* before it left behind (run_model_refresh, cache_models).
THEOREM RefreshSettlesInvariant == UsageSpec => []RefreshSettles
  <1>1. UsageIInv => RefreshSettles
    BY DEF UsageIInv, CacheIInv
  <1> QED
    BY <1>1, UsageInvariantHolds, PTL

\* A window that a record of its own has filled lets nothing through
\* (is_context_exhausted).
THEOREM GateHoldsInvariant == UsageSpec => []GateHolds
  <1>1. UsageIInv => GateHolds
    BY DEF UsageIInv
  <1> QED
    BY <1>1, UsageInvariantHolds, PTL

\* Overlapping calls lose updates, and the counters stay within what was
\* reported (update_contribution_day, update_session).
THEOREM CountersWithinReportsInvariant == UsageSpec => []CountersWithinReports
  <1>1. ASSUME UsageIInv PROVE CountersWithinReports
    <2> USE <1>1 DEF UsageIInv
    <2>1. PICK booked \in [Days -> Nat] : BookedBy(booked)
      BY DEF Booked
    <2>2. PICK g : g = [d \in Days |-> Counters(days[d])]
      OBVIOUS
    <2>3. DOMAIN days = Days /\ IsFiniteSet(Days)
      BY RowFacts DEF UsageTypeOK
    <2>4. Total(days) = SumOf(g, Days)
      BY <2>2, <2>3, TotalIs
    <2>5. SumOf(g, Days) <= SumOf(booked, Days)
      <3>1. \A d \in Days : g[d] \in Nat /\ booked[d] \in Nat /\ g[d] <= booked[d]
        BY <2>1, <2>2, RowFacts DEF BookedBy
      <3> QED
        BY <2>3, <3>1, SumOfMonotone
    <2>6. SumOf(booked, Days) = MapThenSumSet(LAMBDA r : r.tokens, records)
      BY <2>1, TokensSum DEF BookedBy, FinitelyMany
    <2>7. Total(days) <= MapThenSumSet(LAMBDA r : r.tokens, records)
      BY <2>4, <2>5, <2>6
    <2>8. \A s \in Sessions : session[s] # NoRow =>
             counted[s] <= session[s].lines /\ session[s].lines <= told[s]
      BY DEF Lines
    <2> QED
      BY <2>7, <2>8 DEF CountersWithinReports, LastOfDay
  <1> QED
    BY <1>1, UsageInvariantHolds, PTL

=============================================================================
