\* Two requests and the nightly job in flight, one subscription, four events.
SPECIFICATION TxSpec
CONSTANTS
    u1 = u1  s1 = s1  s2 = s2  w1 = w1  w2 = w2  None = None
    Users = {u1}
    Subs = {s1}
    Owner <- OneOwner
    Grace = 1
    Period = 1
    EventTypes = {"activated", "revoked", "refunded"}
    OmitsEnd = FALSE
    AdminPlans = {}
    MaxDay = 2
    MaxSent = 4
    Slots = {w1, w2}
SYMMETRY SlotSymmetry
INVARIANTS TxTypeOK NoFreeRideUnlessRefunded LiveRowUnlessRaced
CHECK_DEADLOCK FALSE
