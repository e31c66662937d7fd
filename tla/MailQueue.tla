------------------------------ MODULE MailQueue ------------------------------
(***************************************************************************)
(* The e-mail queue: process_email_queue (app/services/email.py), run      *)
(* every five minutes by every worker process (app/jobs/email_queue.py).   *)
(*                                                                         *)
(* A run reads a batch of pending rows, then, row by row, flushes the      *)
(* status "sending" (which locks the row until the commit), calls the      *)
(* provider, and notes the outcome; one commit ends the batch.  A crash    *)
(* before it forgets the outcomes but not the e-mails that went out.       *)
(*                                                                         *)
(* E-mails are numbered in the order of created_at.                        *)
(***************************************************************************)
EXTENDS Processes, Integers, FiniteSets

CONSTANTS
    NumMails,     \* bound on the e-mails ever queued
    BatchSize,    \* limit of one batch
    MaxAttempts,  \* retry_count at which an e-mail has failed
    MaxCrashes    \* bound on the crashes

Mails == 1..NumMails
Statuses == {"absent", "pending", "sent", "failed"}
Row == [status : Statuses, retries : 0..MaxAttempts]

ASSUME ConstantsAssumption ==
    /\ None \notin Nat /\ None \notin Row
    /\ NumMails \in Nat /\ BatchSize \in Nat \ {0}
    /\ MaxAttempts \in Nat \ {0} /\ MaxCrashes \in Nat

VARIABLES
    mail,       \* the committed rows of email_queue
    letters,    \* the committed dead letters, one per failure recorded
    run,        \* the batch each worker is processing
    delivered,  \* how often the provider accepted each e-mail
    crashes

vars == <<mail, letters, run, delivered, crashes>>

\* left: the e-mails of the batch still to be sent; seen: retry_count as read;
\* holding: the rows flushed, with their new values; sending: the e-mail at the
\* provider, whose row is held as well.
Run == [active : BOOLEAN, left : SUBSET Mails, seen : [Mails -> 0..MaxAttempts],
        sending : Mails \cup {None}, holding : [Mails -> Row \cup {None}]]
Resting == [active |-> FALSE, left |-> {}, seen |-> [m \in Mails |-> 0],
            sending |-> None, holding |-> [m \in Mails |-> None]]

TypeOK ==
    /\ mail \in [Mails -> Row]
    /\ letters \in [Mails -> Nat]
    /\ run \in [Workers -> Run]
    /\ delivered \in [Mails -> Nat]
    /\ crashes \in 0..MaxCrashes

Init ==
    /\ mail = [m \in Mails |-> [status |-> "absent", retries |-> 0]]
    /\ letters = [m \in Mails |-> 0]
    /\ run = [w \in Workers |-> Resting]
    /\ delivered = [m \in Mails |-> 0]
    /\ crashes = 0

-----------------------------------------------------------------------------

\* A reminder is queued (module NightlyJob says by whom and when).
Enqueue(m) ==
    /\ mail[m].status = "absent"
    /\ \A k \in 1..(m - 1) : mail[k].status # "absent"
    /\ mail' = [mail EXCEPT ![m].status = "pending"]
    /\ UNCHANGED <<letters, run, delivered, crashes>>

Pending == {m \in Mails : mail[m].status = "pending"}
Oldest(ms) == {m \in ms : Cardinality({k \in ms : k < m}) < BatchSize}

FetchBatch(w) ==
    /\ ~run[w].active
    /\ Pending # {}
    /\ run' = [run EXCEPT ![w] =
                  [active |-> TRUE, left |-> Oldest(Pending),
                   seen |-> [m \in Mails |-> mail[m].retries],
                   sending |-> None, holding |-> [m \in Mails |-> None]]]
    /\ UNCHANGED <<mail, letters, delivered, crashes>>

HoldsRow(v, m) == run[v].holding[m] # None \/ run[v].sending = m

\* The flush of status "sending" for the oldest row left: waits while another
\* run holds it.
Claim(w, m) ==
    /\ run[w].sending = None
    /\ m \in run[w].left /\ \A k \in run[w].left : m <= k
    /\ \A v \in Workers \ {w} : ~HoldsRow(v, m)
    /\ run' = [run EXCEPT ![w].sending = m, ![w].left = @ \ {m}]
    /\ UNCHANGED <<mail, letters, delivered, crashes>>

\* The provider has answered.
Note(w, m, new) ==
    /\ run[w].sending = m
    /\ run' = [run EXCEPT ![w].sending = None, ![w].holding[m] = new]

SendSucceeds(w, m) ==
    /\ Note(w, m, [mail[m] EXCEPT !.status = "sent"])
    /\ delivered' = [delivered EXCEPT ![m] = @ + 1]
    /\ UNCHANGED <<mail, letters, crashes>>

\* Faulty: a failed attempt is not counted.
AfterFailure_Uncounted(retries) == [status |-> "pending", retries |-> retries]

\* Faulty: gives up one attempt late.
AfterFailure_Late(retries) ==
    [status |-> IF retries + 1 > MaxAttempts THEN "failed" ELSE "pending",
     retries |-> retries + 1]

\* Faulty: the failure is taken for a success.
AfterFailure_MarksSent(retries) == [status |-> "sent", retries |-> retries]

AfterFailure(retries) ==
    [status |-> IF retries + 1 >= MaxAttempts THEN "failed" ELSE "pending",
     retries |-> retries + 1]

SendFails(w, m) ==
    /\ Note(w, m, AfterFailure(run[w].seen[m]))
    /\ UNCHANGED <<mail, letters, delivered, crashes>>

BatchEnded(w) == run[w].active /\ run[w].left = {} /\ run[w].sending = None

\* Faulty: the dead letter is left to a transaction of its own.
Commit_NoLetter(w) ==
    /\ BatchEnded(w)
    /\ mail' = [m \in Mails |-> IF run[w].holding[m] # None
                               THEN run[w].holding[m] ELSE mail[m]]
    /\ run' = [run EXCEPT ![w] = Resting]
    /\ UNCHANGED <<letters, delivered, crashes>>

\* record_dead_letter for each e-mail of the batch that is given up.
DeadLetters(w) ==
    [m \in Mails |->
        IF run[w].holding[m] # None /\ run[w].holding[m].status = "failed"
        THEN letters[m] + 1 ELSE letters[m]]

\* The outcomes and the dead letters of the batch, in one transaction.
Commit(w) ==
    /\ BatchEnded(w)
    /\ mail' = [m \in Mails |-> IF run[w].holding[m] # None
                               THEN run[w].holding[m] ELSE mail[m]]
    /\ letters' = DeadLetters(w)
    /\ run' = [run EXCEPT ![w] = Resting]
    /\ UNCHANGED <<delivered, crashes>>

\* The process ends, or the transaction fails: rolled back.
Crash(w) ==
    /\ run[w].active
    /\ crashes < MaxCrashes
    /\ crashes' = crashes + 1
    /\ run' = [run EXCEPT ![w] = Resting]
    /\ UNCHANGED <<mail, letters, delivered>>

Step(w) ==
    \/ FetchBatch(w)
    \/ \E m \in Mails : Claim(w, m) \/ SendSucceeds(w, m) \/ SendFails(w, m)
    \/ Commit(w)

Next ==
    \/ \E m \in Mails : Enqueue(m)
    \/ \E w \in Workers : Step(w) \/ Crash(w)

Spec == Init /\ [][Next]_vars

\* The scheduler starts a run every five minutes, the database grants the row
\* locks and the provider answers or times out.
FairSpec == Spec /\ \A w \in Workers : WF_vars(Step(w))

-----------------------------------------------------------------------------

\* Why the type of retry_count and SentWasDelivered are preserved: whatever is
\* still to be attempted has an attempt left, however stale the count that was
\* read; and an outcome "sent" waiting for its commit was delivered.
AttemptLeft ==
    /\ \A m \in Mails :
          mail[m].status \in {"absent", "pending"} => mail[m].retries < MaxAttempts
    /\ \A w \in Workers, m \in Mails :
          /\ m \in run[w].left \/ run[w].sending = m => run[w].seen[m] < MaxAttempts
          /\ run[w].holding[m] # None /\ run[w].holding[m].status \in {"absent", "pending"}
                => run[w].holding[m].retries < MaxAttempts

HeldSentWasDelivered ==
    \A w \in Workers, m \in Mails :
        run[w].holding[m] # None /\ run[w].holding[m].status = "sent"
            => delivered[m] > 0

\* No e-mail is given up without a dead letter, in whatever order runs overlap
\* and crash: the status and the letter are in one transaction
\* (process_email_queue, record_dead_letter).
FailedHasLetter == \A m \in Mails : mail[m].status = "failed" => letters[m] > 0

\* No e-mail is marked sent that the provider did not take, although runs
\* overlap, read stale rows and crash (process_email_queue).
SentWasDelivered == \A m \in Mails : mail[m].status = "sent" => delivered[m] > 0

\* Every queued e-mail is eventually settled, whatever the provider answers:
\* runs that overwrite each other's retry_count still make progress.
EveryMailSettled ==
    \A m \in Mails :
        mail[m].status = "pending" ~> mail[m].status \in {"sent", "failed"}

=============================================================================
