SPECIFICATION OrderSpec
CONSTANTS
    m1 = m1
    m2 = m2
    admin = admin
    o1 = o1
    o2 = o2
    r1 = r1
    r2 = r2
    p1 = p1
    p2 = p2
    t1 = t1
    t2 = t2
    t3 = t3
    Members = {m1, m2, admin}
    Offers = {o1, o2}
    Rsvs = {r1, r2}
    Products = {p1, p2}
    Catalogue = Catalogue
    Sessions = {t1, t2}
    Idle = Idle
    ForeignKeys = TRUE
    ProducerOf <- ProducerFn
    ProductOf <- ProductFn
    OfferOf <- OfferFn
    RequesterOf <- RequesterFn
    Admins = {admin}
    Paths <- MergePaths
INVARIANTS
    NoDeadlock
