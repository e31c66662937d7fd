\* Two workers: what the row locks still guarantee.
SPECIFICATION NightlySpec
CONSTANTS
    u1 = u1  u2 = u2  w1 = w1  w2 = w2  None = None
    Users = {u1, u2}
    Workers = {w1, w2}
    TrialDays = 3
    Thresholds = {1, 2}
    SoonDays = 2
    WarnDays = 2
    RenewDays = 3
    Grace = 1
    Period = 2
    StartUsed <- BothFresh
    MaxNight = 2
SYMMETRY AllSymmetry
INVARIANTS NightlyTypeOK NightSettled NightLostToOverlap TrialReminderPerThreshold
CHECK_DEADLOCK FALSE
