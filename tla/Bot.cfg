SPECIFICATION Spec
CONSTANTS
    o1 = o1
    r1 = r1
    a1 = a1
    h1 = h1
    h2 = h2
    None = None
    Offers = {o1}
    Rsvs = {r1}
    Applicants = {a1}
    Handlers = {h1, h2}
    Spring = 49
    Autumn = 145
    NudgeAfter = 48
    StaleAfter = 24
    AgainAfter = 72
    Late = 1
    Dates = {1, 5}
    Horizon = 240
    Awake = {0, 9}
    MaxActs = 2
SYMMETRY Symmetry
INVARIANTS
    StaleIsUnanswered
    PastDateLeavesBoard
    AskedInTime
    CardTellsTruth
CHECK_DEADLOCK FALSE
