\* Three transactions at a time over two months.
SPECIFICATION CreditsSpec
CONSTANTS
    r1 = r1  r2 = r2  r3 = r3  None = None
    Reqs = {r1, r2, r3}
    FirstMonth = 1
    LastMonth = 2
    Plans = {"free", "pro", "enterprise"}
    PlanCredits <- SmallCredits
    Amounts = {1, 2}
    MaxBegun = 4
    MaxChanges = 1
SYMMETRY Symmetric
INVARIANTS CreditsTypeOK LedgerCounts
PROPERTY ImplementsBook
CHECK_DEADLOCK FALSE
