SPECIFICATION Spec
CONSTANTS
    requester = requester
    producer = producer
    m1 = m1
    m2 = m2
    m3 = m3
    t1 = t1
    t2 = t2
    t3 = t3
    Requester = requester
    Producer = producer
    Messages = {m1, m2}
    Txs = {t1, t2}
    Window = 1
    MaxTime = 2
    None = None
SYMMETRY Symmetry
INVARIANTS
    OnePerBurst
    UnreadIsTold
    WrittenInWindow
