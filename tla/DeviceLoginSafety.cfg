\* Two users, two requests in flight, two codes.
SPECIFICATION Spec
CONSTANTS
    d1 = d1  u1 = u1  u2 = u2  w1 = w1  w2 = w2  None = None
    Devices = {d1}
    Users = {u1, u2}
    Slots = {w1, w2}
    TTL = 1
    Life = 2
    MaxTime = 2
    MaxCodes = 2
SYMMETRY Symmetry
INVARIANTS TypeOK ApprovedWasSubmitted LoggedOutStaysOut
CHECK_DEADLOCK FALSE
