\* Two requests at a time, with and without a path of their own.
SPECIFICATION MediaSpec
CONSTANTS
    r1 = r1  r2 = r2  None = None  Torn = Torn
    Reqs = {r1, r2}
    Providers <- TwoKinds
    Polled = {"replicate"}
    Hosted = {"fal", "replicate"}
    KeySets <- SomeKeys
    Paths = {"b/1.png"}
    BaseName <- SameBase
    MaxPolls = 1
INVARIANTS MediaTypeOK  PaidOnce
PROPERTY EveryRequestAnswered
CHECK_DEADLOCK FALSE
