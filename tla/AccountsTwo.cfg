\* Two identities that share a machine, two transactions at a time.
SPECIFICATION AccountsSpec
CONSTANTS
    i1 = i1
    i2 = i2
    i3 = i3
    r1 = r1
    r2 = r2
    Ids = {i1, i2}
    Logins = {"g1", "g2"}
    Emails = {}
    Machines = {"m1"}
    None = None
    Profiles <- SomeProfiles
    Reqs = {r1, r2}
    TrialDays = 2
    Development = TRUE
    MaxNights = 3
    MaxRows = 1
    MaxBegun = 3
    MaxOverrides = 1
SYMMETRY Symmetric
INVARIANTS
    AccountsTypeOK
    TrialServedOnce
    
CHECK_DEADLOCK FALSE
