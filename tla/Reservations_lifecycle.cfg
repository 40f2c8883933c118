SPECIFICATION Spec
CONSTANTS
    m1 = m1
    m2 = m2
    p1 = p1
    o1 = o1
    o2 = o2
    r1 = r1
    r2 = r2
    t1 = t1
    t2 = t2
    Members = {m1, m2}
    Products = {p1}
    Offers = {o1}
    Rsvs = {r1}
    Txs = {t1, t2}
    None = None
    Keep = Keep
    MaxQty = 1
    MaxTime = 1
    Expiry = 1
    Reminder = 1
    Ops <- LifeOps
    Dates = {0}
    Suspendable = {}
SYMMETRY Symmetry
INVARIANTS
    ThreadTellsStatus
    ClosingToldOnce
    RemindedOnceWhilePending
    ExpiredOfferIsPast
PROPERTIES
    FollowsTheMachine
