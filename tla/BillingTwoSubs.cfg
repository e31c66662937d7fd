\* One user with two subscriptions, every event type, any delivery order.
SPECIFICATION Spec
CONSTANTS
    u1 = u1  s1 = s1  s2 = s2  None = None
    Users = {u1}
    Subs = {s1, s2}
    Owner <- OneOwner
    Grace = 1
    Period = 2
    EventTypes = {"activated", "updated", "revoked", "paused", "resumed", "refunded"}
    OmitsEnd = TRUE
    AdminPlans = {"enterprise"}
    MaxDay = 3
    MaxSent = 3
INVARIANTS TypeOK NoFreeRide ProHasLiveRow PaidUserServed
PROPERTIES DowngradeJustified
CHECK_DEADLOCK FALSE
