\* Accounts made by the Supabase webhook carry nothing over (trial_abuse.py:59-60).
SPECIFICATION AccountsSpec
CONSTANTS
    i1 = i1
    i2 = i2
    i3 = i3
    r1 = r1
    r2 = r2
    Ids = {i1, i2}
    Logins = {"g1", "g2"}
    Emails = {}
    Machines = {"m1"}
    None = None
    Profiles <- SomeProfiles
    Reqs = {r1, r2}
    TrialDays = 2
    Development = TRUE
    MaxNights = 3
    MaxRows = 1
    MaxBegun = 3
    MaxOverrides = 1
SYMMETRY Symmetric
INVARIANT
    NoTrialReset
CHECK_DEADLOCK FALSE
