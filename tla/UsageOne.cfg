\* One model, two refreshes, two calls at a time.
SPECIFICATION UsageSpec
CONSTANTS
    Models = {"m1"}
    Offers <- SmallOffers
    MaxRefreshes = 2
    NoRow = NoRow
    Garbled = Garbled
    Answers <- SmallAnswers
    Reports <- SmallReports
    Default = 3
    Sessions = {s1}
    s1 = s1
    Deltas = {1}
    MaxCalls = 3
    MaxCallsInFlight = 2
    MaxDays = 1
INVARIANTS
    UsageTypeOK
    RefreshSettles
    GateHolds
    CountersWithinReports
CHECK_DEADLOCK FALSE
