--------------------------- MODULE MailQueueProofs ---------------------------
(***************************************************************************)
(* Proofs about the e-mail queue, for any number of workers, users,        *)
(* e-mails, attempts, nights and crashes: first the job that drains it,    *)
(* then the nightly job, which ends grace periods and queues a reminder of *)
(* each threshold a trial passes.                                          *)
(***************************************************************************)
EXTENDS MailQueue, NightlyJob, TLAPS, FiniteSetTheorems

IInv == TypeOK /\ AttemptLeft /\ HeldSentWasDelivered /\ SentWasDelivered
        /\ FailedHasLetter

LEMMA RestingIsRun == Resting \in Run
  BY ConstantsAssumption DEF Resting, Run, Row

LEMMA InitEstablishes == Init => IInv
  BY ConstantsAssumption, RestingIsRun
     DEF Init, IInv, TypeOK, AttemptLeft, HeldSentWasDelivered,
         SentWasDelivered, FailedHasLetter, Resting, Row, Statuses, Mails

\* What the provider's answer does to the run of w: every other field and every
\* other worker keeps its value.
LEMMA NoteEffect ==
  ASSUME TypeOK, NEW w \in Workers, NEW m \in Mails, NEW new \in Row,
         Note(w, m, new)
  PROVE  /\ run' \in [Workers -> Run]
         /\ \A v \in Workers : run'[v].left = run[v].left
                               /\ run'[v].seen = run[v].seen
                               /\ run'[v].active = run[v].active
         /\ \A v \in Workers : run'[v].sending \in {run[v].sending, None}
         /\ run[w].sending = m
         /\ \A v \in Workers, k \in Mails :
               run'[v].holding[k] = IF v = w /\ k = m THEN new
                                    ELSE run[v].holding[k]
  <1>1. run[w].sending = m
    BY DEF Note
  <1>2. run' = [run EXCEPT ![w] = [run[w] EXCEPT !.sending = None,
                    !.holding = [run[w].holding EXCEPT ![m] = new]]]
    BY DEF Note, TypeOK, Run
  <1>3. \A r \in Run : [r EXCEPT !.sending = None,
                                 !.holding = [r.holding EXCEPT ![m] = new]] \in Run
    BY DEF Run
  <1>4. run[w] \in Run
    BY DEF TypeOK
  <1>5. run' \in [Workers -> Run]
    BY <1>2, <1>3, <1>4 DEF TypeOK
  <1> QED
    BY <1>1, <1>2, <1>4, <1>5 DEF TypeOK, Run

LEMMA StepPreserves == IInv /\ [Next]_vars => IInv'
  <1> SUFFICES ASSUME IInv, [Next]_vars PROVE IInv'
    OBVIOUS
  <1> USE ConstantsAssumption DEF IInv
  <1>1. ASSUME NEW m \in Mails, Enqueue(m) PROVE IInv'
    <2>1. mail' = [mail EXCEPT ![m] = [mail[m] EXCEPT !.status = "pending"]]
      BY <1>1 DEF Enqueue, TypeOK
    <2>2. \A r \in Row : [r EXCEPT !.status = "pending"] \in Row
      BY DEF Row, Statuses
    <2>3. mail[m] \in Row /\ mail[m].status = "absent"
      BY <1>1 DEF Enqueue, TypeOK
    <2>4. TypeOK'
      BY <1>1, <2>1, <2>2, <2>3 DEF Enqueue, TypeOK
    <2>5. \A k \in Mails : \/ mail'[k] = mail[k]
                           \/ /\ mail'[k].status = "pending"
                              /\ mail'[k].retries = mail[k].retries
                              /\ mail[k].status = "absent"
      BY <2>1, <2>3 DEF TypeOK, Row
    <2>6. UNCHANGED <<letters, run, delivered>>
      BY <1>1 DEF Enqueue
    <2> QED
      BY <2>4, <2>5, <2>6
         DEF AttemptLeft, HeldSentWasDelivered, SentWasDelivered, FailedHasLetter
  <1>2. ASSUME NEW w \in Workers, FetchBatch(w) PROVE IInv'
    <2> DEFINE new == [active |-> TRUE, left |-> Oldest(Pending),
                       seen |-> [m \in Mails |-> mail[m].retries],
                       sending |-> None, holding |-> [m \in Mails |-> None]]
    <2>1. run' = [run EXCEPT ![w] = new]
      BY <1>2 DEF FetchBatch
    <2>2. new \in Run
      BY DEF Run, Oldest, Pending, TypeOK, Row
    <2>3. TypeOK'
      BY <1>2, <2>1, <2>2 DEF FetchBatch, TypeOK
    <2>4. \A m \in new.left : mail[m].status = "pending"
      BY DEF Oldest, Pending
    <2>5. \A v \in Workers : run'[v] = IF v = w THEN new ELSE run[v]
      BY <2>1 DEF TypeOK
    <2>6. UNCHANGED <<mail, letters, delivered>>
      BY <1>2 DEF FetchBatch
    <2>7. \A m \in Mails : /\ m \in new.left => new.seen[m] < MaxAttempts
                           /\ new.sending # m
                           /\ new.holding[m] = None
      BY <2>4 DEF AttemptLeft, Mails
    <2> HIDE DEF new
    <2>8. AttemptLeft'
      <3> SUFFICES ASSUME NEW v \in Workers, NEW m \in Mails
                   PROVE  /\ (m \in run'[v].left \/ run'[v].sending = m)
                                => run'[v].seen[m] < MaxAttempts
                          /\ run'[v].holding[m] # None
                             /\ run'[v].holding[m].status \in {"absent", "pending"}
                                => run'[v].holding[m].retries < MaxAttempts
        BY <2>6 DEF AttemptLeft
      <3>1. CASE v = w
        BY <3>1, <2>5, <2>7
      <3>2. CASE v # w
        BY <3>2, <2>5 DEF AttemptLeft
      <3> QED BY <3>1, <3>2
    <2> QED
      BY <2>3, <2>5, <2>6, <2>7, <2>8
         DEF HeldSentWasDelivered, SentWasDelivered, FailedHasLetter
  <1>3. ASSUME NEW w \in Workers, NEW m \in Mails, Claim(w, m) PROVE IInv'
    <2>1. \A r \in Run : [r EXCEPT !.sending = m, !.left = r.left \ {m}] \in Run
      BY DEF Run
    <2>2. /\ run' = [run EXCEPT ![w] = [run[w] EXCEPT !.sending = m,
                                                      !.left = run[w].left \ {m}]]
          /\ run[w] \in Run
          /\ m \in run[w].left
      BY <1>3 DEF Claim, TypeOK
    <2>3. TypeOK'
      BY <1>3, <2>1, <2>2 DEF Claim, TypeOK
    <2>4. \A v \in Workers : /\ run'[v].seen = run[v].seen
                             /\ run'[v].holding = run[v].holding
                             /\ \A k \in Mails :
                                   k \in run'[v].left \/ run'[v].sending = k
                                     => k \in run[v].left \/ run[v].sending = k
      BY <2>2 DEF TypeOK, Run
    <2>5. UNCHANGED <<mail, letters, delivered>>
      BY <1>3 DEF Claim
    <2> QED
      BY <2>3, <2>4, <2>5
         DEF AttemptLeft, HeldSentWasDelivered, SentWasDelivered, FailedHasLetter
  <1>4. ASSUME NEW w \in Workers, NEW m \in Mails, SendSucceeds(w, m) PROVE IInv'
    <2> DEFINE new == [mail[m] EXCEPT !.status = "sent"]
    <2>1. new \in Row /\ new.status = "sent"
      BY DEF TypeOK, Row, Statuses
    <2>2. Note(w, m, new) /\ UNCHANGED <<mail, letters, crashes>>
      BY <1>4 DEF SendSucceeds
    <2>3. \A k \in Mails : delivered'[k] = IF k = m THEN delivered[m] + 1 ELSE delivered[k]
      BY <1>4 DEF SendSucceeds, TypeOK
    <2>4. delivered' \in [Mails -> Nat]
      BY <1>4 DEF SendSucceeds, TypeOK
    <2> HIDE DEF new
    <2>5. TypeOK'
      BY <2>1, <2>2, <2>4, NoteEffect DEF TypeOK
    <2>6. AttemptLeft'
      BY <2>1, <2>2, NoteEffect DEF AttemptLeft, Mails
    <2>7. \A k \in Mails : delivered[k] > 0 \/ k = m => delivered'[k] > 0
      BY <2>3 DEF TypeOK
    <2>8. SentWasDelivered'
      BY <2>2, <2>7 DEF SentWasDelivered
    <2>9. HeldSentWasDelivered'
      BY <2>1, <2>2, <2>7, NoteEffect DEF HeldSentWasDelivered
    <2> QED
      BY <2>2, <2>5, <2>6, <2>8, <2>9 DEF FailedHasLetter
  <1>5. ASSUME NEW w \in Workers, NEW m \in Mails, SendFails(w, m) PROVE IInv'
    <2> DEFINE new == AfterFailure(run[w].seen[m])
    <2>1. Note(w, m, new) /\ UNCHANGED <<mail, letters, delivered, crashes>>
      BY <1>5 DEF SendFails
    <2>2. run[w].seen[m] \in 0..MaxAttempts /\ run[w].seen[m] < MaxAttempts
      BY <2>1 DEF TypeOK, Run, AttemptLeft, Note
    <2>3. /\ new \in Row
          /\ new.status \in {"pending", "failed"}
          /\ new.status = "pending" => new.retries < MaxAttempts
      BY <2>2 DEF AfterFailure, Row, Statuses
    <2> HIDE DEF new
    <2>4. TypeOK'
      BY <2>1, <2>3, NoteEffect DEF TypeOK
    <2>5. AttemptLeft'
      BY <2>1, <2>3, NoteEffect DEF AttemptLeft, Mails
    <2>6. HeldSentWasDelivered'
      BY <2>1, <2>3, NoteEffect DEF HeldSentWasDelivered
    <2> QED
      BY <2>1, <2>4, <2>5, <2>6 DEF SentWasDelivered, FailedHasLetter
  <1>6. ASSUME NEW w \in Workers, run' = [run EXCEPT ![w] = Resting],
               AttemptLeft
        PROVE  /\ TypeOK => run' \in [Workers -> Run]
               /\ \A v \in Workers : run'[v] = IF v = w THEN Resting ELSE run[v]
    BY <1>6, RestingIsRun DEF TypeOK
  <1>7. ASSUME NEW w \in Workers, Commit(w) PROVE IInv'
    <2>1. /\ run' = [run EXCEPT ![w] = Resting]
          /\ UNCHANGED <<delivered, crashes>>
          /\ \A m \in Mails : mail'[m] = IF run[w].holding[m] # None
                                         THEN run[w].holding[m] ELSE mail[m]
          /\ \A m \in Mails : letters'[m] =
                IF run[w].holding[m] # None /\ run[w].holding[m].status = "failed"
                THEN letters[m] + 1 ELSE letters[m]
      BY <1>7 DEF Commit, DeadLetters
    <2>2. /\ run' \in [Workers -> Run]
          /\ \A v \in Workers : run'[v] = IF v = w THEN Resting ELSE run[v]
      BY <2>1, <1>6 DEF AttemptLeft
    <2>3. \A m \in Mails : run[w].holding[m] \in Row \cup {None}
      BY DEF TypeOK, Run
    <2>4. mail' \in [Mails -> Row] /\ letters' \in [Mails -> Nat]
      BY <1>7, <2>3 DEF Commit, DeadLetters, TypeOK
    <2>5. TypeOK'
      BY <2>1, <2>2, <2>4 DEF TypeOK
    <2>6. AttemptLeft'
      BY <2>1, <2>2 DEF AttemptLeft, Resting, Mails
    <2>7. HeldSentWasDelivered' /\ SentWasDelivered'
      BY <2>1, <2>2 DEF HeldSentWasDelivered, SentWasDelivered, Resting
    <2>8. FailedHasLetter'
      BY <2>1 DEF FailedHasLetter, TypeOK
    <2> QED
      BY <2>5, <2>6, <2>7, <2>8
  <1>8. ASSUME NEW w \in Workers, Crash(w) PROVE IInv'
    <2>1. /\ run' = [run EXCEPT ![w] = Resting]
          /\ UNCHANGED <<mail, letters, delivered>>
          /\ crashes' \in 0..MaxCrashes
      BY <1>8 DEF Crash, TypeOK
    <2>2. /\ run' \in [Workers -> Run]
          /\ \A v \in Workers : run'[v] = IF v = w THEN Resting ELSE run[v]
      BY <2>1, <1>6 DEF AttemptLeft
    <2>3. TypeOK'
      BY <2>1, <2>2 DEF TypeOK
    <2> QED
      BY <2>1, <2>2, <2>3
         DEF AttemptLeft, HeldSentWasDelivered, SentWasDelivered,
             FailedHasLetter, Resting, Mails
  <1>9. CASE UNCHANGED vars
    BY <1>9 DEF vars, TypeOK, AttemptLeft, HeldSentWasDelivered,
                SentWasDelivered, FailedHasLetter
  <1> QED
    BY <1>1, <1>2, <1>3, <1>4, <1>5, <1>7, <1>8, <1>9 DEF Next, Step

\* The rows, the counters and the runs keep their types; retry_count never
\* passes MaxAttempts, although a run may write back a stale count.
THEOREM TypeCorrect == Spec => []TypeOK
  <1>1. IInv => TypeOK
    BY DEF IInv
  <1> QED
    BY <1>1, InitEstablishes, StepPreserves, PTL DEF Spec

\* An e-mail that was given up has a dead letter.
THEOREM FailedHasLetterInvariant == Spec => []FailedHasLetter
  <1>1. IInv => FailedHasLetter
    BY DEF IInv
  <1> QED
    BY <1>1, InitEstablishes, StepPreserves, PTL DEF Spec

\* An e-mail marked sent was accepted by the provider.
THEOREM SentWasDeliveredInvariant == Spec => []SentWasDelivered
  <1>1. IInv => SentWasDelivered
    BY DEF IInv
  <1> QED
    BY <1>1, InitEstablishes, StepPreserves, PTL DEF Spec

-----------------------------------------------------------------------------
(* Who fills the queue: the nightly job.  Its inductive invariant.         *)

(* What one commit settles.                                                *)

\* A run that has ended the elapsed grace periods knows each that is left, and
\* after a commit none is.
Ended ==
    /\ \A w \in Workers : job[w].step \in {"grace", "remind"} =>
          \A u \in Users : Elapsed(u) => u \in job[w].expired
    /\ SomeCommitted => \A u \in Users : ~Elapsed(u)

\* Whose row has expired is free.
ExpiredAreFree == \A u \in Users : sub[u].status = "expired" => plan[u] = "free"

-----------------------------------------------------------------------------
(* The reminders of a trial.                                               *)

\* The run has counted a day of u and holds the row until it ends.
Counting(w, u) == job[w].step \in {"trial", "grace", "remind"} /\ job[w].seen[u] # None

TrialMail(m, u, d) == m.user = u /\ m.kind = "trial" /\ m.days = d

\* The row of a user is locked by one run at a time.
OneCounts ==
    \A u \in Users, v, w \in Workers : Counting(v, u) /\ Counting(w, u) => v = w

\* No threshold has two reminders, and one that was queued when a run looked has
\* no other in its queue.
OneReminder ==
    \A u \in Users, d \in Thresholds :
        /\ \A m, n \in mails : TrialMail(m, u, d) /\ TrialMail(n, u, d) => m = n
        /\ \A w \in Workers : \A m \in job[w].queued : TrialMail(m, u, d) =>
              /\ Counting(w, u) /\ d = TrialDays - (job[w].seen[u] + 1)
              /\ \A n \in mails \cup job[w].queued : TrialMail(n, u, d) => n = m

\* Every threshold up to a count that was committed or read has its reminder.
Reminded(u, n) ==
    \A d \in Thresholds : TrialDays - d \in (StartUsed[u] + 1)..n =>
        \E m \in mails : TrialMail(m, u, d)
RemindedUpTo ==
    \A u \in Users :
        /\ Reminded(u, used[u])
        /\ \A w \in Workers : job[w].seen[u] # None => Reminded(u, job[w].seen[u])

\* The run that counts a day has the reminder of the new count, if it calls for
\* one, in the queue or in its own.
NextReminded ==
    \A w \in Workers, u \in Users, d \in Thresholds :
        Counting(w, u) /\ d = TrialDays - (job[w].seen[u] + 1) =>
            \E m \in mails \cup job[w].queued : TrialMail(m, u, d)

-----------------------------------------------------------------------------
(* What may be queued twice.                                               *)

\* A reminder is committed on the night it was queued for, and a run of this
\* night that committed one is done.
MailsAreOfTheirNight ==
    \A m \in mails : m.on <= night /\ (m.on = night => job[m.by].step = "done")

\* A run queues one reminder of a kind for a user, on this night, and what it
\* found missing was not queued before this night.
QueuedTonight ==
    \A w \in Workers : \A q \in job[w].queued :
        /\ q.on = night /\ q.by = w
        /\ \A m \in mails : SameReminder(m, q) => m.on = night
        /\ \A p \in job[w].queued : SameReminder(p, q) => p = q

\* Before it looks up the other reminders, a run has only those of trials.
OnlyTrials ==
    \A w \in Workers : job[w].step \in {"trial", "grace"} =>
        \A q \in job[w].queued : q.kind = "trial"

\* A reminder that is there twice was queued by two workers on one night.
DoubledByOverlap ==
    \A m, n \in mails : SameReminder(m, n) /\ m # n => m.on = n.on /\ m.by # n.by

\* The reminders of a trial are those of the thresholds.
TrialsAtThresholds ==
    /\ \A m \in mails : m.kind = "trial" => m.days \in Thresholds
    /\ \A w \in Workers : \A q \in job[w].queued : q.kind = "trial" => q.days \in Thresholds

Doubled == \E m, n \in mails : SameReminder(m, n) /\ m # n
RaisedByDoubled == \A w \in Workers : job[w].step = "raised" => Doubled

Settling == Ended /\ ExpiredAreFree
Reminding == OneCounts /\ OneReminder /\ RemindedUpTo /\ NextReminded
Doubling == /\ MailsAreOfTheirNight /\ QueuedTonight /\ OnlyTrials
            /\ DoubledByOverlap /\ TrialsAtThresholds /\ RaisedByDoubled
NightlyIInv == NightlyTypeOK /\ Settling /\ Reminding /\ Doubling

-----------------------------------------------------------------------------
(* The runs.                                                               *)

RunType == [step : Steps \cup Finished,
            seen : [Users -> 0..(TrialDays - 1) \cup {None}],
            expired : SUBSET Users,
            queued : SUBSET Mail]

LEMMA RunFacts ==
  ASSUME NightlyTypeOK, NEW w \in Workers
  PROVE  /\ job[w] \in RunType
         /\ job[w].step \in Steps \cup Finished
         /\ job[w].seen \in [Users -> 0..(TrialDays - 1) \cup {None}]
         /\ \A u \in Users : job[w].seen[u] # None => job[w].seen[u] \in 0..(TrialDays - 1)
         /\ job[w].expired \subseteq Users
         /\ job[w].queued \subseteq Mail
  BY DEF NightlyTypeOK, RunType

\* What a run that waits again keeps: nothing.
LEMMA WaitingFacts ==
  /\ Waiting \in RunType /\ Waiting.step = "waiting"
  /\ Waiting.queued = {} /\ Waiting.expired = {} /\ \A u \in Users : Waiting.seen[u] = None
  /\ \A step \in {"raised", "down", "done"} :
        /\ [Waiting EXCEPT !.step = step] \in RunType
        /\ [Waiting EXCEPT !.step = step].step = step
        /\ [Waiting EXCEPT !.step = step].queued = {}
        /\ \A u \in Users : [Waiting EXCEPT !.step = step].seen[u] = None
  BY DEF Waiting, RunType, Steps, Finished

LEMMA JobOf ==
  ASSUME NightlyTypeOK, NEW w \in Workers, NEW r, job' = [job EXCEPT ![w] = r]
  PROVE  /\ job'[w] = r
         /\ \A v \in Workers \ {w} : job'[v] = job[v]
         /\ r \in RunType => job' \in [Workers -> RunType]
  BY DEF NightlyTypeOK, RunType

\* The reminders a run looks up are e-mails of their users.
LEMMA TrialRemindersAre ==
  ASSUME NightlyTypeOK, NEW w \in Workers
  PROVE  /\ TrialReminders(w) \subseteq Mail
         /\ \A m \in TrialReminders(w) :
               /\ m.kind = "trial" /\ m.user \in Users
               /\ job[w].seen[m.user] # None
               /\ m.days = TrialDays - (job[w].seen[m.user] + 1)
               /\ m.on = night /\ m.by = w /\ m.days \in Thresholds
               /\ \A n \in TrialReminders(w) : n.user = m.user => n = m
         /\ \A u \in Users : /\ job[w].seen[u] # None
                             /\ TrialDays - (job[w].seen[u] + 1) \in Thresholds
                             => \E m \in TrialReminders(w) :
                                   m.user = u /\ m.days = TrialDays - (job[w].seen[u] + 1)
  <1> USE NightlyAssumption
  <1> DEFINE R(u) == [user |-> u, kind |-> "trial", days |-> TrialDays - (job[w].seen[u] + 1),
                      on |-> night, until |-> None, by |-> w]
             Due == {x \in Users : /\ job[w].seen[x] # None
                                   /\ TrialDays - (job[w].seen[x] + 1) \in Thresholds}
  <1>1. TrialReminders(w) = {R(u) : u \in Due}
    BY DEF TrialReminders
  <1>2. \A u \in Due : R(u) \in Mail
    BY DEF Mail, NightlyTypeOK
  <1>3. \A u \in Due : R(u).user = u /\ R(u).kind = "trial"
                       /\ R(u).days = TrialDays - (job[w].seen[u] + 1)
                       /\ R(u).on = night /\ R(u).by = w /\ R(u).days \in Thresholds
    OBVIOUS
  <1>4. \A u \in Due : u \in Users /\ job[w].seen[u] # None
    OBVIOUS
  <1>5. \A u \in Users : job[w].seen[u] # None /\ TrialDays - (job[w].seen[u] + 1) \in Thresholds
                         => u \in Due
    OBVIOUS
  <1> HIDE DEF R, Due
  <1> QED
    BY <1>1, <1>2, <1>3, <1>4, <1>5

\* The other e-mails it looks up are not reminders of a trial, one of each kind
\* for a user.
LEMMA OtherMailsAre ==
  ASSUME NightlyTypeOK, NEW w \in Workers
  PROVE  \A m \in GraceWarnings(w) \cup RenewalReminders(w) :
            /\ m \in Mail /\ m.kind # "trial" /\ m.on = night /\ m.by = w
            /\ \A n \in GraceWarnings(w) \cup RenewalReminders(w) :
                  SameReminder(n, m) => n = m
  <1> USE NightlyAssumption
  <1>1. night \in Nat /\ night \in 0..MaxNight
    BY DEF NightlyTypeOK
  <1>2. \A u \in Users : /\ sub[u].end \in Nat \cup {None}
                         /\ sub[u].grace \in Nat \cup {None}
    BY DEF NightlyTypeOK, Sub
  <1>3. \A m \in GraceWarnings(w) :
            /\ m \in Mail /\ m.kind = "grace" /\ m.on = night /\ m.by = w
            /\ \A n \in GraceWarnings(w) : n.user = m.user => n = m
    <2> DEFINE Due == {x \in Users \ job[w].expired :
                         sub[x].status = "past_due" /\ Within(sub[x].grace, WarnDays)}
               R(u) == [user |-> u, kind |-> "grace", days |-> AtLeastOne(sub[u].grace - night),
                        on |-> night, until |-> sub[u].grace, by |-> w]
    <2>1. GraceWarnings(w) = {R(u) : u \in Due}
      BY DEF GraceWarnings
    <2>2. \A u \in Due : AtLeastOne(sub[u].grace - night) \in Nat
      BY <1>1, <1>2 DEF Within, AtLeastOne
    <2>3. \A u \in Due : R(u) \in Mail
      BY <1>1, <1>2, <2>2 DEF Mail
    <2>4. \A u \in Due : R(u).user = u /\ R(u).kind = "grace" /\ R(u).on = night /\ R(u).by = w
      OBVIOUS
    <2> HIDE DEF R, Due
    <2> QED
      BY <2>1, <2>3, <2>4
  <1>4. \A m \in RenewalReminders(w) :
            /\ m \in Mail /\ m.kind = "renewal" /\ m.on = night /\ m.by = w
            /\ \A n \in RenewalReminders(w) : n.user = m.user => n = m
    <2> DEFINE Due == {x \in Users \ job[w].expired :
                         /\ sub[x].status \in {"active", "past_due"}
                         /\ Within(sub[x].end, RenewDays)}
               R(u) == [user |-> u, kind |-> "renewal", days |-> AtLeastOne(sub[u].end - night),
                        on |-> night, until |-> sub[u].end, by |-> w]
    <2>1. RenewalReminders(w) = {R(u) : u \in Due}
      BY DEF RenewalReminders
    <2>2. \A u \in Due : AtLeastOne(sub[u].end - night) \in Nat
      BY <1>1, <1>2 DEF Within, AtLeastOne
    <2>3. \A u \in Due : R(u) \in Mail
      BY <1>1, <1>2, <2>2 DEF Mail
    <2>4. \A u \in Due : R(u).user = u /\ R(u).kind = "renewal" /\ R(u).on = night /\ R(u).by = w
      OBVIOUS
    <2> HIDE DEF R, Due
    <2> QED
      BY <2>1, <2>3, <2>4
  <1> QED
    BY <1>3, <1>4 DEF SameReminder

\* What NotYetQueued drops is queued already.
LEMMA NotYetQueuedIs ==
  ASSUME NEW wanted
  PROVE  /\ NotYetQueued(wanted) \subseteq wanted
         /\ \A m \in NotYetQueued(wanted) : \A n \in mails :
               ~(n.user = m.user /\ n.kind = m.kind /\ n.days = m.days)
         /\ \A m \in wanted \ NotYetQueued(wanted) : \E n \in mails :
               n.user = m.user /\ n.kind = m.kind /\ n.days = m.days
  BY DEF NotYetQueued, Live, SameReminder

\* A look-up that finds two rows finds a reminder that was queued twice.
LEMMA RaisesByDoubled ==
  ASSUME NEW wanted, LookupRaises(wanted)
  PROVE  Doubled
  <1> SUFFICES ASSUME ~Doubled PROVE FALSE
    OBVIOUS
  <1>1. PICK m \in wanted : Cardinality(Live(m)) > 1
    BY DEF LookupRaises
  <1>2. \A a, b \in Live(m) : a = b
    BY DEF Live, SameReminder, Doubled
  <1>3. CASE Live(m) = {}
    <2>1. Cardinality({}) = 0
      BY FS_EmptySet
    <2> QED
      BY <1>1, <1>3, <2>1
  <1>4. ASSUME NEW a \in Live(m)
        PROVE  FALSE
    <2>1. Live(m) = {a} /\ Cardinality({a}) = 1
      BY <1>2, <1>4, FS_Singleton
    <2> QED
      BY <1>1, <2>1
  <1> QED
    BY <1>3, <1>4

-----------------------------------------------------------------------------
(* One step of a run that is not its commit: what its record becomes.      *)

\* The four reads and flushes, and the ends without a commit.
Ends(w, r) ==
    /\ \/ r = [Waiting EXCEPT !.step = "raised"] /\ Doubled
       \/ r = [Waiting EXCEPT !.step = "down"]
    /\ job[w].step \in Steps
Reads(w, r) ==
    /\ r = [job[w] EXCEPT !.step = "read",
                !.seen = [u \in Users |-> IF OnTrial(u) THEN used[u] ELSE None]]
    /\ job[w].step = "waiting"
Counts(w, r) ==
    /\ r = [job[w] EXCEPT !.step = "trial", !.queued = NotYetQueued(TrialReminders(w))]
    /\ job[w].step = "read"
    /\ \A v \in Workers \ {w}, u \in Users : job[w].seen[u] # None => ~HoldsUser(v, u)
Expires(w, r) ==
    /\ r = [job[w] EXCEPT !.step = "grace", !.expired = {u \in Users : Elapsed(u)}]
    /\ job[w].step = "trial"
Reminds(w, r) ==
    /\ r = [job[w] EXCEPT !.step = "remind",
                !.queued = @ \cup NotYetQueued(GraceWarnings(w) \cup RenewalReminders(w))]
    /\ job[w].step = "grace"

LEMMA RunStep ==
  ASSUME NEW w \in Workers, RunExpiryChecker(w), ~CommitJob(w)
  PROVE  /\ UNCHANGED <<night, used, plan, sub, mails>>
         /\ \E r : /\ job' = [job EXCEPT ![w] = r]
                   /\ \/ Ends(w, r) \/ Reads(w, r) \/ Counts(w, r)
                      \/ Expires(w, r) \/ Reminds(w, r)
  <1>1. CASE ReadUsers(w)
    BY <1>1 DEF ReadUsers, Proceed, Reads
  <1>2. CASE IncrementTrialDays(w)
    <2>1. CASE LookupRaises(TrialReminders(w))
      BY <1>2, <2>1, RaisesByDoubled DEF IncrementTrialDays, Raise, Ends, Steps
    <2>2. CASE ~LookupRaises(TrialReminders(w))
      BY <1>2, <2>2 DEF IncrementTrialDays, Proceed, Counts
    <2> QED
      BY <2>1, <2>2
  <1>3. CASE EnforceGracePeriodExpiry(w)
    BY <1>3 DEF EnforceGracePeriodExpiry, Proceed, Expires
  <1>4. CASE NotifyExpiring(w)
    <2> DEFINE wanted == GraceWarnings(w) \cup RenewalReminders(w)
    <2>1. CASE LookupRaises(wanted)
      BY <1>4, <2>1, RaisesByDoubled DEF NotifyExpiring, Raise, Ends, Steps
    <2>2. CASE ~LookupRaises(wanted)
      BY <1>4, <2>2 DEF NotifyExpiring, Proceed, Reminds
    <2> QED
      BY <2>1, <2>2
  <1>5. CASE Down(w)
    BY <1>5 DEF Down, Ends
  <1> QED
    BY <1>1, <1>2, <1>3, <1>4, <1>5 DEF RunExpiryChecker

\* The record stays a run.
LEMMA RunStays ==
  ASSUME NightlyTypeOK, NEW w \in Workers, NEW r,
         Ends(w, r) \/ Reads(w, r) \/ Counts(w, r) \/ Expires(w, r) \/ Reminds(w, r)
  PROVE  /\ r \in RunType
         /\ r.step \notin {"waiting", "done"}
  <1> USE NightlyAssumption
  <1>0. NightlyTypeOK /\ job[w] \in RunType /\ job[w].queued \subseteq Mail
    BY RunFacts
  <1>1. CASE Ends(w, r)
    <2>1. \E step \in {"raised", "down"} : r = [Waiting EXCEPT !.step = step]
      BY <1>1 DEF Ends
    <2> QED
      BY <2>1, WaitingFacts
  <1>2. CASE Reads(w, r)
    <2>1. used \in [Users -> 0..TrialDays]
      BY <1>0 DEF NightlyTypeOK
    <2>2. [u \in Users |-> IF OnTrial(u) THEN used[u] ELSE None]
             \in [Users -> 0..(TrialDays - 1) \cup {None}]
      BY <2>1 DEF OnTrial
    <2> QED
      BY <1>0, <1>2, <2>2 DEF Reads, RunType, Steps, Finished
  <1>3. CASE Counts(w, r)
    <2>1. NotYetQueued(TrialReminders(w)) \subseteq Mail
      BY TrialRemindersAre, NotYetQueuedIs
    <2> QED
      BY <1>0, <1>3, <2>1 DEF Counts, RunType, Steps, Finished
  <1>4. CASE Expires(w, r)
    BY <1>0, <1>4 DEF Expires, RunType, Steps, Finished
  <1>5. CASE Reminds(w, r)
    <2>1. NotYetQueued(GraceWarnings(w) \cup RenewalReminders(w)) \subseteq Mail
      BY <1>0, OtherMailsAre, NotYetQueuedIs
    <2> QED
      BY <1>0, <1>5, <2>1 DEF Reminds, RunType, Steps, Finished
  <1> QED
    BY <1>1, <1>2, <1>3, <1>4, <1>5

-----------------------------------------------------------------------------
(* The steps between two runs and the commit.                              *)

\* What a commit writes.
LEMMA CommitFacts ==
  ASSUME NightlyTypeOK, NEW w \in Workers, CommitJob(w)
  PROVE  /\ night' = night
         /\ used' \in [Users -> 0..TrialDays] /\ sub' \in [Users -> Sub]
         /\ plan' \in [Users -> {"free", "pro"}]
         /\ mails' = mails \cup job[w].queued /\ mails' \subseteq Mail
         /\ job'[w] = [Waiting EXCEPT !.step = "done"]
         /\ \A v \in Workers \ {w} : job'[v] = job[v]
         /\ job' \in [Workers -> RunType]
         /\ \A u \in Users :
               /\ used'[u] = IF job[w].seen[u] # None THEN job[w].seen[u] + 1 ELSE used[u]
               /\ IF u \in job[w].expired
                  THEN sub'[u].status = "expired" /\ plan'[u] = "free"
                  ELSE sub'[u] = sub[u] /\ plan'[u] = plan[u]
  <1> USE NightlyAssumption
  <1>1. /\ NightlyTypeOK /\ job[w].queued \subseteq Mail
        /\ \A u \in Users : job[w].seen[u] # None =>
              /\ job[w].seen[u] \in 0..(TrialDays - 1)
              /\ Incremented(job[w].seen[u]) = job[w].seen[u] + 1
    BY RunFacts DEF Incremented
  <1>2. /\ used \in [Users -> 0..TrialDays] /\ sub \in [Users -> Sub]
        /\ plan \in [Users -> {"free", "pro"}] /\ mails \subseteq Mail
        /\ TrialDays \in Nat
    BY <1>1 DEF NightlyTypeOK
  <1>3. used' = [u \in Users |-> IF job[w].seen[u] # None THEN Incremented(job[w].seen[u])
                                                          ELSE used[u]]
    BY DEF CommitJob
  <1>4. \A u \in Users : (IF job[w].seen[u] # None THEN Incremented(job[w].seen[u])
                                                  ELSE used[u]) \in 0..TrialDays
    BY <1>1, <1>2
  <1>5. sub' = [u \in Users |-> IF u \in job[w].expired
                               THEN [sub[u] EXCEPT !.status = "expired"] ELSE sub[u]]
    BY DEF CommitJob
  <1>6. \A u \in Users : /\ [sub[u] EXCEPT !.status = "expired"] \in Sub
                         /\ [sub[u] EXCEPT !.status = "expired"].status = "expired"
    BY <1>2 DEF Sub
  <1>7. /\ plan' = [u \in Users |-> IF u \in job[w].expired THEN "free" ELSE plan[u]]
        /\ mails' = mails \cup job[w].queued /\ night' = night
        /\ job' = [job EXCEPT ![w] = [Waiting EXCEPT !.step = "done"]]
    BY DEF CommitJob
  <1>8. [Waiting EXCEPT !.step = "done"] \in RunType
    BY WaitingFacts
  <1>9. /\ job'[w] = [Waiting EXCEPT !.step = "done"]
        /\ \A v \in Workers \ {w} : job'[v] = job[v]
        /\ job' \in [Workers -> RunType]
    BY <1>1, <1>7, <1>8, JobOf
  <1>10. used' \in [Users -> 0..TrialDays]
    BY <1>3, <1>4
  <1>11. sub' \in [Users -> Sub] /\ plan' \in [Users -> {"free", "pro"}]
    BY <1>2, <1>5, <1>6, <1>7
  <1>12. \A u \in Users :
            /\ used'[u] = IF job[w].seen[u] # None THEN job[w].seen[u] + 1 ELSE used[u]
            /\ IF u \in job[w].expired
               THEN sub'[u].status = "expired" /\ plan'[u] = "free"
               ELSE sub'[u] = sub[u] /\ plan'[u] = plan[u]
    BY <1>1, <1>3, <1>5, <1>6, <1>7
  <1> QED
    BY <1>1, <1>2, <1>7, <1>9, <1>10, <1>11, <1>12

\* What the webhooks make of a subscription.
LEMMA SubChanged ==
  ASSUME NEW old \in Sub, NEW day \in Nat
  PROVE  /\ [old EXCEPT !.status = "active", !.end = day] \in Sub
         /\ [old EXCEPT !.status = "active", !.end = day].status = "active"
         /\ [old EXCEPT !.status = "past_due", !.grace = day] \in Sub
         /\ [old EXCEPT !.status = "past_due", !.grace = day].status = "past_due"
  BY DEF Sub

\* Webhooks run by day, when every run waits.
LEMMA DaytimeStep ==
  ASSUME NightlyTypeOK, NEW u \in Users, Activate(u) \/ Revoke(u)
  PROVE  /\ UNCHANGED <<night, used, mails, job>>
         /\ \A w \in Workers : job[w].step = "waiting"
         /\ sub' \in [Users -> Sub] /\ plan' \in [Users -> {"free", "pro"}]
         /\ \A v \in Users : \/ sub'[v].status # "expired"
                             \/ sub'[v] = sub[v] /\ plan'[v] = plan[v]
  <1> USE NightlyAssumption
  <1>1. /\ night \in Nat /\ sub \in [Users -> Sub] /\ sub[u] \in Sub
        /\ plan \in [Users -> {"free", "pro"}]
        /\ Period \in Nat /\ Grace \in Nat
    BY DEF NightlyTypeOK
  <1>2. CASE Activate(u)
    <2> DEFINE n == [sub[u] EXCEPT !.status = "active", !.end = night + Period]
    <2>0. night + Period \in Nat
      BY <1>1
    <2>1. n \in Sub /\ n.status = "active"
      BY <1>1, <2>0, SubChanged
    <2>2. sub' = [sub EXCEPT ![u] = n]
      BY <1>1, <1>2 DEF Activate, Sub
    <2> QED
      BY <1>1, <1>2, <2>1, <2>2 DEF Activate, Daytime
  <1>3. CASE Revoke(u)
    <2> DEFINE n == [sub[u] EXCEPT !.status = "past_due", !.grace = night + Grace]
    <2>0. night + Grace \in Nat
      BY <1>1
    <2>1. n \in Sub /\ n.status = "past_due"
      BY <1>1, <2>0, SubChanged
    <2>2. sub' = [sub EXCEPT ![u] = n]
      BY <1>1, <1>3 DEF Revoke, Sub
    <2> QED
      BY <1>1, <1>3, <2>1, <2>2 DEF Revoke, Daytime
  <1> QED
    BY <1>2, <1>3

\* The next night all runs wait again.
LEMMA NextNightStep ==
  ASSUME NightlyTypeOK, NextNight
  PROVE  /\ UNCHANGED <<used, plan, sub, mails>> /\ night' \in 0..MaxNight
         /\ job' \in [Workers -> RunType] /\ \A w \in Workers : job'[w] = Waiting
  BY NightlyAssumption, WaitingFacts DEF NextNight, NightlyTypeOK

-----------------------------------------------------------------------------
(* Type correctness.                                                       *)

LEMMA TypesStay ==
  ASSUME NightlyTypeOK, [NightlyNext]_nightlyVars
  PROVE  NightlyTypeOK'
  <1>1. NightlyTypeOK /\ job \in [Workers -> RunType]
    BY DEF NightlyTypeOK, RunType
  <1>2. CASE UNCHANGED nightlyVars
    BY <1>2 DEF nightlyVars, NightlyTypeOK
  <1>3. ASSUME NEW u \in Users, Activate(u) \/ Revoke(u)
        PROVE  NightlyTypeOK'
    BY <1>1, <1>3, DaytimeStep DEF NightlyTypeOK
  <1>4. CASE NextNight
    BY <1>1, <1>4, NextNightStep DEF NightlyTypeOK, RunType
  <1>5. ASSUME NEW w \in Workers, CommitJob(w)
        PROVE  NightlyTypeOK'
    BY <1>1, <1>5, CommitFacts DEF NightlyTypeOK, RunType
  <1>6. ASSUME NEW w \in Workers, RunExpiryChecker(w), ~CommitJob(w)
        PROVE  NightlyTypeOK'
    <2>1. PICK r : /\ job' = [job EXCEPT ![w] = r]
                   /\ \/ Ends(w, r) \/ Reads(w, r) \/ Counts(w, r)
                      \/ Expires(w, r) \/ Reminds(w, r)
      BY <1>6, RunStep
    <2>2. r \in RunType
      BY <2>1, RunStays
    <2>3. job'[w] = r /\ (\A v \in Workers \ {w} : job'[v] = job[v]) /\ job' \in [Workers -> RunType]
      BY <1>1, <2>1, <2>2, JobOf
    <2>4. UNCHANGED <<night, used, plan, sub, mails>>
      BY <1>6, RunStep
    <2> QED
      BY <1>1, <2>3, <2>4 DEF NightlyTypeOK, RunType
  <1> QED
    BY <1>2, <1>3, <1>4, <1>5, <1>6 DEF NightlyNext, RunExpiryChecker

-----------------------------------------------------------------------------
(* One commit settles the night.                                           *)

\* The fields of the record after each step of a run.
LEMMA RunFields ==
  ASSUME NightlyTypeOK, NEW w \in Workers, NEW r
  PROVE  /\ Ends(w, r) => /\ r.step \in {"raised", "down"} /\ r.queued = {}
                          /\ r.step = "raised" => Doubled
                          /\ \A u \in Users : r.seen[u] = None
         /\ Reads(w, r) => /\ r.step = "read" /\ r.queued = job[w].queued
                           /\ \A u \in Users : r.seen[u] = IF OnTrial(u) THEN used[u] ELSE None
         /\ Counts(w, r) => /\ r.step = "trial" /\ r.seen = job[w].seen
                            /\ r.queued = NotYetQueued(TrialReminders(w))
         /\ Expires(w, r) => /\ r.step = "grace" /\ r.seen = job[w].seen
                             /\ r.queued = job[w].queued
                             /\ \A u \in Users : Elapsed(u) => u \in r.expired
         /\ Reminds(w, r) => /\ r.step = "remind" /\ r.seen = job[w].seen
                             /\ r.expired = job[w].expired
                             /\ r.queued = job[w].queued \cup
                                   NotYetQueued(GraceWarnings(w) \cup RenewalReminders(w))
  <1>0. job[w] \in RunType
    BY RunFacts
  <1>1. Ends(w, r) => /\ r.step \in {"raised", "down"} /\ r.queued = {}
                      /\ r.step = "raised" => Doubled
                      /\ \A u \in Users : r.seen[u] = None
    BY WaitingFacts DEF Ends
  <1>2. Reads(w, r) => /\ r.step = "read" /\ r.queued = job[w].queued
                       /\ \A u \in Users : r.seen[u] = IF OnTrial(u) THEN used[u] ELSE None
    BY <1>0 DEF Reads, RunType
  <1>3. Counts(w, r) => /\ r.step = "trial" /\ r.seen = job[w].seen
                        /\ r.queued = NotYetQueued(TrialReminders(w))
    BY <1>0 DEF Counts, RunType
  <1>4. Expires(w, r) => /\ r.step = "grace" /\ r.seen = job[w].seen
                         /\ r.queued = job[w].queued
                         /\ \A u \in Users : Elapsed(u) => u \in r.expired
    BY <1>0 DEF Expires, RunType
  <1>5. Reminds(w, r) => /\ r.step = "remind" /\ r.seen = job[w].seen
                         /\ r.expired = job[w].expired
                         /\ r.queued = job[w].queued \cup
                               NotYetQueued(GraceWarnings(w) \cup RenewalReminders(w))
    BY <1>0 DEF Reminds, RunType
  <1> QED
    BY <1>1, <1>2, <1>3, <1>4, <1>5

LEMMA SettlingStays ==
  ASSUME NightlyTypeOK, Settling, [NightlyNext]_nightlyVars
  PROVE  Settling'
  <1> USE DEF Settling
  <1>1. CASE UNCHANGED nightlyVars
    BY <1>1 DEF nightlyVars, Ended, ExpiredAreFree, Elapsed, SomeCommitted
  <1>2. ASSUME NEW u \in Users, Activate(u) \/ Revoke(u)
        PROVE  Settling'
    BY <1>2, DaytimeStep DEF Ended, ExpiredAreFree, SomeCommitted
  <1>3. CASE NextNight
    <2>1. UNCHANGED <<plan, sub>> /\ \A w \in Workers : job'[w].step = "waiting"
      BY <1>3, NextNightStep, WaitingFacts
    <2> QED
      BY <2>1 DEF Ended, ExpiredAreFree, SomeCommitted
  <1>4. ASSUME NEW w \in Workers, CommitJob(w)
        PROVE  Settling'
    <2>1. /\ night' = night /\ job'[w].step = "done"
          /\ \A u \in Users : IF u \in job[w].expired
                              THEN sub'[u].status = "expired" /\ plan'[u] = "free"
                              ELSE sub'[u] = sub[u] /\ plan'[u] = plan[u]
          /\ \A v \in Workers \ {w} : job'[v] = job[v]
      BY <1>4, CommitFacts, WaitingFacts
    <2>2. \A u \in Users : Elapsed(u) => u \in job[w].expired
      BY <1>4 DEF CommitJob, Ended
    <2>3. \A u \in Users : ~Elapsed(u)'
      BY <2>1, <2>2 DEF Elapsed
    <2> QED
      BY <2>1, <2>3 DEF Ended, ExpiredAreFree
  <1>5. ASSUME NEW w \in Workers, RunExpiryChecker(w), ~CommitJob(w)
        PROVE  Settling'
    <2>1. PICK r : /\ job' = [job EXCEPT ![w] = r]
                   /\ \/ Ends(w, r) \/ Reads(w, r) \/ Counts(w, r)
                      \/ Expires(w, r) \/ Reminds(w, r)
      BY <1>5, RunStep
    <2>2. job'[w] = r /\ \A v \in Workers \ {w} : job'[v] = job[v]
      BY <2>1, JobOf
    <2>3. UNCHANGED <<night, used, plan, sub, mails>>
      BY <1>5, RunStep
    <2>4. \A u \in Users : Elapsed(u)' <=> Elapsed(u)
      BY <2>3 DEF Elapsed
    <2>5. /\ r.step # "done"
          /\ r.step \in {"grace", "remind"} => \A u \in Users : Elapsed(u) => u \in r.expired
      <3>1. CASE Ends(w, r) \/ Reads(w, r) \/ Counts(w, r) \/ Expires(w, r)
        BY <3>1, RunFields
      <3>2. CASE Reminds(w, r)
        BY <3>2, RunFields DEF Reminds, Ended
      <3> QED
        BY <2>1, <3>1, <3>2
    <2>6. SomeCommitted' => SomeCommitted
      BY <2>2, <2>5 DEF SomeCommitted
    <2>7. Ended'
      BY <2>2, <2>4, <2>5, <2>6 DEF Ended
    <2> QED
      BY <2>3, <2>7 DEF ExpiredAreFree
  <1> QED
    BY <1>1, <1>2, <1>3, <1>4, <1>5 DEF NightlyNext, RunExpiryChecker

-----------------------------------------------------------------------------
(* The reminders.                                                          *)

\* A step of one run that commits nothing.
LEMMA RemindingKept ==
  ASSUME NightlyTypeOK, Reminding, mails' = mails, used' = used,
         NEW w \in Workers, \A v \in Workers \ {w} : job'[v] = job[v],
         \A u \in Users : Counting(w, u)' => \A v \in Workers \ {w} : ~Counting(v, u),
         \A u \in Users, d \in Thresholds :
            \A m \in job'[w].queued : TrialMail(m, u, d) =>
               /\ Counting(w, u)' /\ d = TrialDays - (job'[w].seen[u] + 1)
               /\ \A n \in mails \cup job'[w].queued : TrialMail(n, u, d) => n = m,
         \A u \in Users : job'[w].seen[u] # None => Reminded(u, job'[w].seen[u]),
         \A u \in Users, d \in Thresholds :
            Counting(w, u)' /\ d = TrialDays - (job'[w].seen[u] + 1) =>
               \E m \in mails \cup job'[w].queued : TrialMail(m, u, d)
  PROVE  Reminding'
  <1>1. \A v \in Workers \ {w}, u \in Users : Counting(v, u)' <=> Counting(v, u)
    BY DEF Counting
  <1>2. OneCounts'
    BY <1>1 DEF Reminding, OneCounts
  <1>3. OneReminder'
    BY <1>1 DEF Reminding, OneReminder, TrialMail
  <1>4. RemindedUpTo'
    BY DEF Reminding, RemindedUpTo, Reminded, TrialMail
  <1>5. NextReminded'
    BY <1>1 DEF Reminding, NextReminded, TrialMail
  <1> QED
    BY <1>2, <1>3, <1>4, <1>5 DEF Reminding

\* A run that reads, counts, expires or looks up.
LEMMA RemindingRun ==
  ASSUME NightlyTypeOK, Reminding, NEW w \in Workers, RunExpiryChecker(w), ~CommitJob(w)
  PROVE  Reminding'
  <1> USE NightlyAssumption
  <1>1. PICK r : /\ job' = [job EXCEPT ![w] = r]
                 /\ \/ Ends(w, r) \/ Reads(w, r) \/ Counts(w, r)
                    \/ Expires(w, r) \/ Reminds(w, r)
    BY RunStep
  <1>2. job'[w] = r /\ \A v \in Workers \ {w} : job'[v] = job[v]
    BY <1>1, JobOf
  <1>3. mails' = mails /\ used' = used
    BY RunStep
  <1>4. \A u \in Users : Counting(w, u)' <=> r.step \in {"trial", "grace", "remind"} /\ r.seen[u] # None
    BY <1>2 DEF Counting
  \* Nothing is queued for a trial before the run counts.
  <1>5. job[w].step \in {"waiting", "read"} =>
          \A u \in Users, d \in Thresholds, m \in job[w].queued : ~TrialMail(m, u, d)
    BY DEF Reminding, OneReminder, Counting
  <1>6. CASE Ends(w, r)
    <2>1. r.step \in {"raised", "down"} /\ r.queued = {} /\ \A u \in Users : r.seen[u] = None
      BY <1>6, RunFields
    <2> QED
      BY <1>2, <1>3, <1>4, <2>1, RemindingKept
  <1>7. CASE Reads(w, r)
    <2>0. job[w].step = "waiting"
      BY <1>7 DEF Reads
    <2>1. /\ r.step = "read" /\ r.queued = job[w].queued
          /\ \A u \in Users : r.seen[u] \in {used[u], None}
      BY <1>7, RunFields
    <2>2. \A u \in Users : r.seen[u] # None => Reminded(u, r.seen[u])
      BY <2>1 DEF Reminding, RemindedUpTo
    <2> QED
      BY <1>2, <1>3, <1>4, <1>5, <2>0, <2>1, <2>2, RemindingKept
  <1>8. CASE Counts(w, r)
    <2>1. /\ r.step = "trial" /\ r.seen = job[w].seen
          /\ r.queued = NotYetQueued(TrialReminders(w))
      BY <1>8, RunFields
    <2>2. \A u \in Users : r.seen[u] # None => \A v \in Workers \ {w} : ~Counting(v, u)
      BY <1>8, <2>1 DEF Counts, HoldsUser, Counting
    <2>3. \A u \in Users : r.seen[u] # None => Reminded(u, r.seen[u])
      BY <2>1 DEF Reminding, RemindedUpTo
    <2>4. ASSUME NEW u \in Users, NEW d \in Thresholds, NEW m \in r.queued, TrialMail(m, u, d)
          PROVE  /\ Counting(w, u)' /\ d = TrialDays - (r.seen[u] + 1)
                 /\ \A n \in mails \cup r.queued : TrialMail(n, u, d) => n = m
      <3>1. m \in TrialReminders(w) /\ r.queued \subseteq TrialReminders(w)
        BY <2>1, NotYetQueuedIs
      <3>2. \A n \in mails : ~TrialMail(n, u, d)
        BY <2>1, <2>4, NotYetQueuedIs DEF TrialMail
      <3>3. r.seen[u] # None /\ d = TrialDays - (r.seen[u] + 1)
        BY <2>1, <2>4, <3>1, TrialRemindersAre DEF TrialMail
      <3>4. \A n \in TrialReminders(w) : TrialMail(n, u, d) => n = m
        BY <2>4, <3>1, TrialRemindersAre DEF TrialMail
      <3> QED
        BY <1>4, <2>1, <3>1, <3>2, <3>3, <3>4
    <2>5. ASSUME NEW u \in Users, NEW d \in Thresholds,
                 r.seen[u] # None, d = TrialDays - (r.seen[u] + 1)
          PROVE  \E m \in mails \cup r.queued : TrialMail(m, u, d)
      <3>1. PICK m \in TrialReminders(w) : m.user = u /\ m.days = d
        BY <2>1, <2>5, TrialRemindersAre
      <3>2. TrialMail(m, u, d)
        BY <3>1, TrialRemindersAre DEF TrialMail
      <3>3. CASE m \in NotYetQueued(TrialReminders(w))
        BY <2>1, <3>2, <3>3
      <3>4. CASE m \notin NotYetQueued(TrialReminders(w))
        BY <3>1, <3>2, <3>4, NotYetQueuedIs DEF TrialMail
      <3> QED
        BY <3>3, <3>4
    <2> QED
      BY <1>2, <1>3, <1>4, <2>1, <2>2, <2>3, <2>4, <2>5, RemindingKept
  <1>9. ASSUME Expires(w, r) \/ Reminds(w, r)
        PROVE  Reminding'
    <2>1. /\ r.step \in {"grace", "remind"} /\ r.seen = job[w].seen
          /\ job[w].step \in {"trial", "grace"}
          /\ job[w].queued \subseteq r.queued
          /\ \A m \in r.queued : m \in job[w].queued \/ m.kind # "trial"
      <3>1. CASE Expires(w, r)
        BY <3>1, RunFields DEF Expires
      <3>2. CASE Reminds(w, r)
        <4>0. job[w].step = "grace"
          BY <3>2 DEF Reminds
        <4>1. \A m \in NotYetQueued(GraceWarnings(w) \cup RenewalReminders(w)) : m.kind # "trial"
          BY OtherMailsAre, NotYetQueuedIs
        <4> QED
          BY <3>2, <4>0, <4>1, RunFields
      <3> QED
        BY <1>9, <3>1, <3>2
    <2>2. \A u \in Users : Counting(w, u)' <=> Counting(w, u)
      BY <1>4, <2>1 DEF Counting
    <2>3. \A u \in Users, d \in Thresholds, m \in r.queued : TrialMail(m, u, d) => m \in job[w].queued
      BY <2>1 DEF TrialMail
    <2>4. \A u \in Users : Counting(w, u)' => \A v \in Workers \ {w} : ~Counting(v, u)
      BY <2>2 DEF Reminding, OneCounts
    <2>5. \A u \in Users : r.seen[u] # None => Reminded(u, r.seen[u])
      BY <2>1 DEF Reminding, RemindedUpTo
    <2>6. ASSUME NEW u \in Users, NEW d \in Thresholds, NEW m \in r.queued, TrialMail(m, u, d)
          PROVE  /\ Counting(w, u)' /\ d = TrialDays - (r.seen[u] + 1)
                 /\ \A n \in mails \cup r.queued : TrialMail(n, u, d) => n = m
      BY <2>1, <2>2, <2>3, <2>6 DEF Reminding, OneReminder
    <2>7. ASSUME NEW u \in Users, NEW d \in Thresholds,
                 Counting(w, u)', d = TrialDays - (r.seen[u] + 1)
          PROVE  \E m \in mails \cup r.queued : TrialMail(m, u, d)
      BY <2>1, <2>2, <2>7 DEF Reminding, NextReminded
    <2> QED
      BY <1>2, <1>3, <2>4, <2>5, <2>6, <2>7, RemindingKept
  <1> QED
    BY <1>1, <1>6, <1>7, <1>8, <1>9

\* The commit of a run that counted.
LEMMA RemindingCommit ==
  ASSUME NightlyTypeOK, Reminding, NEW w \in Workers, CommitJob(w)
  PROVE  Reminding'
  <1> USE NightlyAssumption
  <1>0. NightlyTypeOK /\ \A v \in Workers, u \in Users : job[v].seen[u] # None =>
                     job[v].seen[u] \in 0..(TrialDays - 1)
    BY RunFacts
  <1>1. /\ mails' = mails \cup job[w].queued
        /\ job'[w].step = "done" /\ job'[w].queued = {}
        /\ \A u \in Users : job'[w].seen[u] = None
        /\ \A v \in Workers \ {w} : job'[v] = job[v]
        /\ \A u \in Users :
              used'[u] = IF job[w].seen[u] # None THEN job[w].seen[u] + 1 ELSE used[u]
    BY CommitFacts, WaitingFacts
  <1>2. \A u \in Users : /\ ~Counting(w, u)'
                         /\ \A v \in Workers \ {w} : Counting(v, u)' <=> Counting(v, u)
                         /\ Counting(w, u) <=> job[w].seen[u] # None
    BY <1>1 DEF Counting, CommitJob
  <1>3. OneCounts'
    BY <1>2 DEF Reminding, OneCounts
  <1>4. OneReminder'
    <2>1. ASSUME NEW u \in Users, NEW d \in Thresholds, NEW m \in mails', NEW n \in mails',
                 TrialMail(m, u, d), TrialMail(n, u, d)
          PROVE  m = n
      BY <1>1, <2>1 DEF Reminding, OneReminder
    <2>2. ASSUME NEW u \in Users, NEW d \in Thresholds, NEW v \in Workers,
                 NEW m \in job'[v].queued, TrialMail(m, u, d)
          PROVE  /\ Counting(v, u)' /\ d = TrialDays - (job'[v].seen[u] + 1)
                 /\ \A n \in mails' \cup job'[v].queued : TrialMail(n, u, d) => n = m
      <3>1. v # w /\ job'[v] = job[v] /\ m \in job[v].queued
        BY <1>1, <2>2
      <3>2. /\ Counting(v, u) /\ d = TrialDays - (job[v].seen[u] + 1)
            /\ \A n \in mails \cup job[v].queued : TrialMail(n, u, d) => n = m
        BY <2>2, <3>1 DEF Reminding, OneReminder
      <3>3. ~Counting(w, u)
        BY <3>1, <3>2 DEF Reminding, OneCounts
      <3>4. \A n \in job[w].queued : ~TrialMail(n, u, d)
        BY <3>3 DEF Reminding, OneReminder
      <3> QED
        BY <1>1, <1>2, <3>1, <3>2, <3>4
    <2> QED
      BY <2>1, <2>2 DEF OneReminder, TrialMail
  <1>5. RemindedUpTo'
    <2>1. \A u \in Users, n \in Int : Reminded(u, n) => Reminded(u, n)'
      BY <1>1 DEF Reminded, TrialMail
    <2>2. ASSUME NEW u \in Users
          PROVE  (Reminded(u, used[u]))'
      <3>1. CASE job[w].seen[u] = None
        <4>1. used'[u] = used[u] /\ used[u] \in Int
          BY <1>0, <1>1, <3>1 DEF NightlyTypeOK
        <4>2. PICK k \in Int : k = used[u]
          BY <4>1
        <4>3. Reminded(u, k)'
          BY <2>1, <4>2 DEF Reminding, RemindedUpTo
        <4> QED
          BY <4>1, <4>2, <4>3 DEF Reminded
      <3>2. CASE job[w].seen[u] # None
        <4>1. PICK k \in 0..(TrialDays - 1) : k = job[w].seen[u]
          BY <1>0, <3>2
        <4>2. used'[u] = k + 1 /\ Counting(w, u) /\ Reminded(u, k)
          BY <1>1, <1>2, <3>2, <4>1 DEF Reminding, RemindedUpTo
        <4>3. SUFFICES ASSUME NEW d \in Thresholds, TrialDays - d \in (StartUsed[u] + 1)..(k + 1)
                       PROVE  \E m \in mails' : TrialMail(m, u, d)
          BY <4>2 DEF Reminded
        <4>4. StartUsed[u] \in Nat /\ d \in Nat /\ TrialDays \in Nat
          OBVIOUS
        <4>5. CASE TrialDays - d \in (StartUsed[u] + 1)..k
          BY <1>1, <4>2, <4>5 DEF Reminded
        <4>6. CASE d = TrialDays - (k + 1)
          BY <1>1, <4>1, <4>2, <4>6 DEF Reminding, NextReminded
        <4> QED
          BY <4>3, <4>4, <4>5, <4>6
      <3> QED
        BY <3>1, <3>2
    <2>3. ASSUME NEW u \in Users, NEW v \in Workers, job'[v].seen[u] # None
          PROVE  (Reminded(u, job[v].seen[u]))'
      <3>1. v # w /\ job'[v].seen[u] = job[v].seen[u]
        BY <1>1, <2>3
      <3>2. PICK k \in Int : k = job[v].seen[u] /\ Reminded(u, k)
        BY <1>0, <2>3, <3>1 DEF Reminding, RemindedUpTo
      <3>3. Reminded(u, k)'
        BY <2>1, <3>2
      <3> QED
        BY <3>1, <3>2, <3>3 DEF Reminded
    <2> QED
      BY <2>2, <2>3 DEF RemindedUpTo
  <1>6. NextReminded'
    <2>1. ASSUME NEW v \in Workers, NEW u \in Users, NEW d \in Thresholds,
                 Counting(v, u)', d = TrialDays - (job'[v].seen[u] + 1)
          PROVE  \E m \in mails' \cup job'[v].queued : TrialMail(m, u, d)
      <3>1. v # w /\ job'[v] = job[v] /\ Counting(v, u)
        BY <1>1, <1>2, <2>1
      <3>2. \E m \in mails \cup job[v].queued : TrialMail(m, u, d)
        BY <2>1, <3>1 DEF Reminding, NextReminded
      <3> QED
        BY <1>1, <3>1, <3>2
    <2> QED
      BY <2>1 DEF NextReminded, Counting
  <1> QED
    BY <1>3, <1>4, <1>5, <1>6 DEF Reminding

LEMMA RemindingStays ==
  ASSUME NightlyTypeOK, Reminding, [NightlyNext]_nightlyVars
  PROVE  Reminding'
  <1>1. CASE UNCHANGED <<used, mails, job>>
    BY <1>1 DEF Reminding, OneCounts, OneReminder, RemindedUpTo, Reminded,
                NextReminded, Counting
  <1>2. ASSUME NEW u \in Users, Activate(u) \/ Revoke(u)
        PROVE  Reminding'
    BY <1>1, <1>2, DaytimeStep
  <1>3. CASE NextNight
    <2>1. /\ used' = used /\ mails' = mails
          /\ \A w \in Workers : /\ job'[w].step = "waiting" /\ job'[w].queued = {}
                                /\ \A u \in Users : job'[w].seen[u] = None
      BY <1>3, NextNightStep, WaitingFacts
    <2>2. \A w \in Workers, u \in Users : ~Counting(w, u)'
      BY <2>1 DEF Counting
    <2> QED
      BY <2>1, <2>2 DEF Reminding, OneCounts, OneReminder, RemindedUpTo, Reminded,
                        NextReminded
  <1>4. CASE UNCHANGED nightlyVars
    BY <1>1, <1>4 DEF nightlyVars
  <1> QED
    BY <1>2, <1>3, <1>4, RemindingRun, RemindingCommit DEF NightlyNext, RunExpiryChecker

-----------------------------------------------------------------------------
(* What is queued twice.                                                   *)

\* A step of one run that commits nothing.
LEMMA DoublingKept ==
  ASSUME NightlyTypeOK, Doubling, mails' = mails, night' = night,
         NEW w \in Workers, \A v \in Workers \ {w} : job'[v] = job[v],
         job[w].step # "done",
         \A q \in job'[w].queued :
            /\ q.on = night /\ q.by = w
            /\ \A m \in mails : SameReminder(m, q) => m.on = night
            /\ \A p \in job'[w].queued : SameReminder(p, q) => p = q
            /\ q.kind = "trial" => q.days \in Thresholds
            /\ job'[w].step \in {"trial", "grace"} => q.kind = "trial",
         job'[w].step = "raised" => Doubled
  PROVE  Doubling'
  <1>1. MailsAreOfTheirNight'
    <2>1. \A m \in mails : m.by \in Workers
      BY DEF NightlyTypeOK, Mail
    <2>2. ASSUME NEW m \in mails, m.on = night
          PROVE  job'[m.by].step = "done"
      <3>1. m.by # w /\ job[m.by].step = "done"
        BY <2>2 DEF Doubling, MailsAreOfTheirNight
      <3> QED
        BY <2>1, <3>1
    <2> QED
      BY <2>2 DEF Doubling, MailsAreOfTheirNight
  <1>2. QueuedTonight'
    <2>1. ASSUME NEW v \in Workers, NEW q \in job'[v].queued
          PROVE  /\ q.on = night /\ q.by = v
                 /\ \A m \in mails : SameReminder(m, q) => m.on = night
                 /\ \A p \in job'[v].queued : SameReminder(p, q) => p = q
      <3>1. CASE v = w
        BY <2>1, <3>1
      <3>2. CASE v # w
        BY <2>1, <3>2 DEF Doubling, QueuedTonight
      <3> QED
        BY <3>1, <3>2
    <2> QED
      BY <2>1 DEF QueuedTonight, SameReminder
  <1>3. OnlyTrials'
    BY DEF Doubling, OnlyTrials
  <1>4. DoubledByOverlap'
    BY DEF Doubling, DoubledByOverlap, SameReminder
  <1>5. TrialsAtThresholds'
    BY DEF Doubling, TrialsAtThresholds
  <1>6. RaisedByDoubled'
    BY DEF Doubling, RaisedByDoubled, Doubled, SameReminder
  <1> QED
    BY <1>1, <1>2, <1>3, <1>4, <1>5, <1>6 DEF Doubling

\* A run that reads, counts, expires, looks up or ends.
LEMMA DoublingRun ==
  ASSUME NightlyTypeOK, Doubling, NEW w \in Workers, RunExpiryChecker(w), ~CommitJob(w)
  PROVE  Doubling'
  <1>1. PICK r : /\ job' = [job EXCEPT ![w] = r]
                 /\ \/ Ends(w, r) \/ Reads(w, r) \/ Counts(w, r)
                    \/ Expires(w, r) \/ Reminds(w, r)
    BY RunStep
  <1>2. job'[w] = r /\ \A v \in Workers \ {w} : job'[v] = job[v]
    BY <1>1, JobOf
  <1>3. mails' = mails /\ night' = night
    BY RunStep
  <1>4. job[w].step \in Steps
    BY <1>1 DEF Ends, Reads, Counts, Expires, Reminds, Steps
  <1>5. \A q \in job[w].queued :
           /\ q.on = night /\ q.by = w
           /\ \A m \in mails : SameReminder(m, q) => m.on = night
           /\ \A p \in job[w].queued : SameReminder(p, q) => p = q
           /\ q.kind = "trial" => q.days \in Thresholds
    BY DEF Doubling, QueuedTonight, TrialsAtThresholds
  <1>6. /\ \A q \in r.queued :
              /\ q.on = night /\ q.by = w
              /\ \A m \in mails : SameReminder(m, q) => m.on = night
              /\ \A p \in r.queued : SameReminder(p, q) => p = q
              /\ q.kind = "trial" => q.days \in Thresholds
              /\ r.step \in {"trial", "grace"} => q.kind = "trial"
        /\ r.step = "raised" => Doubled
    <2>1. CASE Ends(w, r)
      BY <2>1, RunFields
    <2>2. CASE Reads(w, r)
      BY <1>5, <2>2, RunFields
    <2>3. CASE Counts(w, r)
      <3>1. r.step = "trial" /\ r.queued = NotYetQueued(TrialReminders(w))
        BY <2>3, RunFields
      <3>2. \A q \in r.queued : /\ q \in TrialReminders(w)
                                /\ \A m \in mails : ~SameReminder(m, q)
        BY <3>1, NotYetQueuedIs DEF SameReminder
      <3> QED
        BY <3>1, <3>2, TrialRemindersAre DEF SameReminder
    <2>4. CASE Expires(w, r)
      <3>1. r.step = "grace" /\ r.queued = job[w].queued /\ job[w].step = "trial"
        BY <2>4, RunFields DEF Expires
      <3> QED
        BY <1>5, <3>1 DEF Doubling, OnlyTrials
    <2>5. CASE Reminds(w, r)
      <3> DEFINE others == NotYetQueued(GraceWarnings(w) \cup RenewalReminders(w))
      <3>1. /\ r.step = "remind" /\ r.queued = job[w].queued \cup others
            /\ job[w].step = "grace"
        BY <2>5, RunFields DEF Reminds
      <3>2. \A q \in job[w].queued : q.kind = "trial"
        BY <3>1 DEF Doubling, OnlyTrials
      <3>3. \A q \in others : /\ q.on = night /\ q.by = w /\ q.kind # "trial"
                              /\ \A m \in mails : ~SameReminder(m, q)
                              /\ \A p \in others : SameReminder(p, q) => p = q
        BY OtherMailsAre, NotYetQueuedIs DEF SameReminder
      <3> HIDE DEF others
      <3>4. \A q \in others, p \in job[w].queued : ~SameReminder(p, q) /\ ~SameReminder(q, p)
        BY <3>2, <3>3 DEF SameReminder
      <3> QED
        BY <1>5, <3>1, <3>3, <3>4
    <2> QED
      BY <1>1, <2>1, <2>2, <2>3, <2>4, <2>5
  <1> QED
    BY <1>2, <1>3, <1>4, <1>6, DoublingKept DEF Steps

\* The commit of a run: what it adds, no run of another night has queued, and
\* another of this night is done.
LEMMA DoublingCommit ==
  ASSUME NightlyTypeOK, Doubling, NEW w \in Workers, CommitJob(w)
  PROVE  Doubling'
  <1>1. /\ mails' = mails \cup job[w].queued /\ night' = night
        /\ job'[w].step = "done" /\ job'[w].queued = {}
        /\ \A v \in Workers \ {w} : job'[v] = job[v]
        /\ job[w].step = "remind"
    BY CommitFacts, WaitingFacts DEF CommitJob
  <1>2. /\ \A m \in mails : m.by \in Workers /\ m.on \in Int
        /\ night \in Int
    BY NightlyAssumption DEF NightlyTypeOK, Mail
  <1>3. \A m \in mails : m.on = night => m.by # w /\ job'[m.by].step = "done"
    BY <1>1, <1>2 DEF Doubling, MailsAreOfTheirNight
  <1>4. \A q \in job[w].queued : /\ q.on = night /\ q.by = w
                                 /\ \A m \in mails : SameReminder(m, q) => m.on = night
                                 /\ \A p \in job[w].queued : SameReminder(p, q) => p = q
    BY DEF Doubling, QueuedTonight
  <1>5. MailsAreOfTheirNight'
    BY <1>1, <1>2, <1>3, <1>4 DEF Doubling, MailsAreOfTheirNight
  <1>6. QueuedTonight'
    <2>1. ASSUME NEW v \in Workers, NEW q \in job'[v].queued
          PROVE  /\ q.on = night /\ q.by = v
                 /\ \A m \in mails' : SameReminder(m, q) => m.on = night
                 /\ \A p \in job'[v].queued : SameReminder(p, q) => p = q
      <3>1. v # w /\ job'[v] = job[v]
        BY <1>1, <2>1
      <3> QED
        BY <1>1, <1>4, <2>1, <3>1 DEF Doubling, QueuedTonight
    <2> QED
      BY <1>1, <2>1 DEF QueuedTonight, SameReminder
  <1>7. OnlyTrials'
    BY <1>1 DEF Doubling, OnlyTrials
  <1>8. DoubledByOverlap'
    <2>1. \A m, n : SameReminder(m, n) <=> SameReminder(n, m)
      BY DEF SameReminder
    <2>2. ASSUME NEW m \in mails, NEW q \in job[w].queued,
                 SameReminder(m, q)
          PROVE  m.on = q.on /\ m.by # q.by
      BY <1>3, <1>4, <2>2
    <2>3. ASSUME NEW m \in mails', NEW n \in mails', SameReminder(m, n), m # n
          PROVE  m.on = n.on /\ m.by # n.by
      <3>1. CASE m \in mails /\ n \in mails
        BY <2>3, <3>1 DEF Doubling, DoubledByOverlap
      <3>2. CASE m \in mails /\ n \in job[w].queued
        BY <2>2, <2>3, <3>2
      <3>3. CASE m \in job[w].queued /\ n \in mails
        BY <2>1, <2>2, <2>3, <3>3
      <3>4. CASE m \in job[w].queued /\ n \in job[w].queued
        BY <1>4, <2>3, <3>4
      <3> QED
        BY <1>1, <2>3, <3>1, <3>2, <3>3, <3>4
    <2> QED
      BY <2>3 DEF DoubledByOverlap, SameReminder
  <1>9. TrialsAtThresholds'
    BY <1>1 DEF Doubling, TrialsAtThresholds
  <1>10. RaisedByDoubled'
    BY <1>1 DEF Doubling, RaisedByDoubled, Doubled, SameReminder
  <1> QED
    BY <1>5, <1>6, <1>7, <1>8, <1>9, <1>10 DEF Doubling

LEMMA DoublingStays ==
  ASSUME NightlyTypeOK, Doubling, [NightlyNext]_nightlyVars
  PROVE  Doubling'
  <1> USE DEF Doubling, MailsAreOfTheirNight, QueuedTonight, OnlyTrials,
              DoubledByOverlap, TrialsAtThresholds, RaisedByDoubled, Doubled, SameReminder
  <1>1. CASE UNCHANGED <<night, mails, job>>
    BY <1>1
  <1>2. ASSUME NEW u \in Users, Activate(u) \/ Revoke(u)
        PROVE  Doubling'
    BY <1>1, <1>2, DaytimeStep
  <1>3. CASE NextNight
    <2>1. /\ mails' = mails /\ night' = night + 1 /\ night \in Int
          /\ \A m \in mails : m.on \in Int
          /\ \A w \in Workers : job'[w].step = "waiting" /\ job'[w].queued = {}
      BY <1>3, NightlyAssumption, NextNightStep, WaitingFacts DEF NightlyTypeOK, Mail, NextNight
    <2>2. \A m \in mails : m.on < night'
      BY <2>1
    <2>3. \A m \in mails : m.on <= night' /\ m.on # night'
      BY <2>1, <2>2
    <2> QED
      BY <2>1, <2>3
  <1>4. CASE UNCHANGED nightlyVars
    BY <1>1, <1>4 DEF nightlyVars
  <1> QED
    BY <1>2, <1>3, <1>4, DoublingRun, DoublingCommit DEF NightlyNext, RunExpiryChecker

-----------------------------------------------------------------------------
(* The theorems.                                                           *)

LEMMA NightlyInitHolds == NightlyInit => NightlyIInv
  <1> SUFFICES ASSUME NightlyInit PROVE NightlyIInv
    OBVIOUS
  <1> USE NightlyAssumption
  <1>1. /\ \A w \in Workers : job[w] = Waiting
        /\ mails = {} /\ used = StartUsed /\ night = 0
        /\ \A u \in Users : sub[u].status = "none"
    BY DEF NightlyInit
  <1>2. NightlyTypeOK
    <2>1. job \in [Workers -> RunType]
      BY WaitingFacts DEF NightlyInit
    <2>2. sub \in [Users -> Sub]
      BY DEF NightlyInit, Sub
    <2> QED
      BY <2>1, <2>2 DEF NightlyInit, NightlyTypeOK, RunType
  <1>3. \A w \in Workers : /\ job[w].step = "waiting" /\ job[w].queued = {}
                           /\ \A u \in Users : job[w].seen[u] = None
    BY <1>1, WaitingFacts
  <1>4. \A u \in Users : Reminded(u, used[u])
    <2>1. ASSUME NEW u \in Users, NEW d \in Thresholds,
                 TrialDays - d \in (StartUsed[u] + 1)..used[u]
          PROVE  FALSE
      <3>1. StartUsed[u] \in Nat /\ used[u] = StartUsed[u]
        BY <1>1
      <3> QED
        BY <2>1, <3>1
    <2> QED
      BY <2>1 DEF Reminded
  <1>6. Settling
    BY <1>1, <1>3 DEF Settling, Ended, ExpiredAreFree, SomeCommitted
  <1>7. Reminding
    BY <1>1, <1>3, <1>4 DEF Reminding, OneCounts, OneReminder, RemindedUpTo,
                            NextReminded, Counting
  <1>8. Doubling
    BY <1>1, <1>3 DEF Doubling, MailsAreOfTheirNight, QueuedTonight, OnlyTrials,
                      DoubledByOverlap, TrialsAtThresholds, RaisedByDoubled
  <1> QED
    BY <1>2, <1>6, <1>7, <1>8 DEF NightlyIInv

LEMMA NightlyInvariantHolds == NightlySpec => []NightlyIInv
  <1>1. NightlyIInv /\ [NightlyNext]_nightlyVars => NightlyIInv'
    BY TypesStay, SettlingStays, RemindingStays, DoublingStays DEF NightlyIInv
  <1> QED
    BY <1>1, NightlyInitHolds, PTL DEF NightlySpec

\* Days, plans, subscriptions, e-mails and runs keep their types: no count passes
\* the trial's length, whatever the runs of a night read and overwrite.
THEOREM NightlyTypeCorrect == NightlySpec => []NightlyTypeOK
  <1>1. NightlyIInv => NightlyTypeOK
    BY DEF NightlyIInv
  <1> QED
    BY <1>1, NightlyInvariantHolds, PTL

\* One commit settles a night for every number of workers, users and days: no
\* elapsed grace period is left and nobody with an expired row is on the Pro plan
\* (_enforce_grace_period_expiry).
THEOREM NightSettledInvariant == NightlySpec => []NightSettled
  <1>1. NightlyIInv => NightSettled
    BY DEF NightlyIInv, Settling, Ended, ExpiredAreFree, NightSettled
  <1> QED
    BY <1>1, NightlyInvariantHolds, PTL

\* When every run of a night has raised, overlapping workers queued one reminder
\* twice on an earlier night; nothing else makes the look-ups raise
\* (scalar_one_or_none in enqueue_subscription_reminder, send_grace_period_warning
\* and enqueue_reminder_series).
THEOREM NightLostToOverlapInvariant == NightlySpec => []NightLostToOverlap
  <1>1. ASSUME NightlyIInv PROVE NightLostToOverlap
    <2> SUFFICES ASSUME NEW w \in Workers, job[w].step = "raised", ~SomeCommitted
                 PROVE  \E m, n \in mails : /\ SameReminder(m, n) /\ m.kind # "trial"
                                            /\ m.on = n.on /\ m.on < night
                                            /\ m.by # n.by
      BY DEF NightLostToOverlap
    <2>1. PICK m \in mails, n \in mails : SameReminder(m, n) /\ m # n
      BY <1>1 DEF NightlyIInv, Doubling, RaisedByDoubled, Doubled
    <2>2. m.on = n.on /\ m.by # n.by
      BY <1>1, <2>1 DEF NightlyIInv, Doubling, DoubledByOverlap
    <2>3. m.by \in Workers /\ m.user \in Users /\ m.on \in Int /\ night \in Int
      BY <1>1, NightlyAssumption DEF NightlyIInv, NightlyTypeOK, Mail
    <2>4. m.on < night
      BY <1>1, <2>3 DEF NightlyIInv, Doubling, MailsAreOfTheirNight, SomeCommitted
    <2>5. m.kind # "trial"
      BY <1>1, <2>1, <2>3 DEF NightlyIInv, Doubling, TrialsAtThresholds, Reminding,
                              OneReminder, TrialMail, SameReminder
    <2> QED
      BY <2>1, <2>2, <2>4, <2>5
  <1> QED
    BY <1>1, NightlyInvariantHolds, PTL

\* Every threshold that a trial has passed since sign-up has exactly one
\* reminder, for any thresholds and any number of overlapping, raising and dying
\* runs (_increment_trial_days, the locks of its flush).
THEOREM TrialReminderPerThresholdInvariant == NightlySpec => []TrialReminderPerThreshold
  <1>1. ASSUME NightlyIInv PROVE TrialReminderPerThreshold
    <2>1. SUFFICES ASSUME NEW u \in Users, NEW d \in Thresholds,
                          TrialDays - d \in (StartUsed[u] + 1)..used[u]
                   PROVE  Cardinality({m \in mails : m.user = u /\ m.kind = "trial"
                                                     /\ m.days = d}) = 1
      BY DEF TrialReminderPerThreshold
    <2>2. PICK m \in mails : TrialMail(m, u, d)
      BY <1>1, <2>1 DEF NightlyIInv, Reminding, RemindedUpTo, Reminded
    <2>3. \A n \in mails : TrialMail(n, u, d) => n = m
      BY <1>1, <2>2 DEF NightlyIInv, Reminding, OneReminder
    <2>4. {n \in mails : n.user = u /\ n.kind = "trial" /\ n.days = d} = {m}
      BY <2>2, <2>3 DEF TrialMail
    <2> QED
      BY <2>4, FS_Singleton
  <1> QED
    BY <1>1, NightlyInvariantHolds, PTL

=============================================================================
