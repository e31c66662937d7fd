\* Two workers whose batches overlap, and a crash.
SPECIFICATION FairSpec
CONSTANTS
    w1 = w1  w2 = w2  None = None
    Workers = {w1, w2}
    NumMails = 2
    BatchSize = 2
    MaxAttempts = 3
    MaxCrashes = 1
INVARIANTS TypeOK FailedHasLetter SentWasDelivered
PROPERTY EveryMailSettled
CHECK_DEADLOCK FALSE
