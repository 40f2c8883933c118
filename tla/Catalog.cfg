SPECIFICATION Spec
CONSTANTS
    m1 = m1
    m2 = m2
    p1 = p1
    p2 = p2
    o1 = o1
    o2 = o2
    r1 = r1
    r2 = r2
    n1 = n1
    n2 = n2
    t1 = t1
    t2 = t2
    t3 = t3
    Members = {m1, m2}
    Products = {p1, p2}
    Offers = {o1, o2}
    Rsvs = {r1}
    Names = {n1, n2}
    Rejected = Rejected
    Txs = {t1, t2}
    None = None
SYMMETRY Symmetry
INVARIANTS
    OneProductPerName
    PriceReachesOpen
    SettledOnce
PROPERTIES
    SnapshotsAreFacts
    NothingLeftBehind
