SPECIFICATION Spec
CONSTANTS
    m1 = m1
    m2 = m2
    p1 = p1
    o1 = o1
    o2 = o2
    r1 = r1
    r2 = r2
    t1 = t1
    t2 = t2
    Members = {m1, m2}
    Products = {p1}
    Offers = {o1, o2}
    Rsvs = {r1, r2}
    Txs = {t1, t2}
    None = None
    Keep = Keep
    MaxQty = 1
    MaxTime = 0
    Expiry = 1
    Reminder = 1
    Ops <- StockOps
    Dates = {}
    Suspendable = {m1, m2}
SYMMETRY Symmetry
INVARIANTS
    NoOversell
    OneActiveOffer
PROPERTIES
    ImplementsStock
    OnlyApprovedAct
