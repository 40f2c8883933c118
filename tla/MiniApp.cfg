SPECIFICATION AppSpec
CONSTANTS
    c1 = c1
    c2 = c2
    th = th
    None = None
    Conns = {c1, c2}
    Threads = {th}
    Events <- Topics
    MaxLosses = 1
    MaxFrames = 2
    Routes <- AllRoutes
    Starts <- LinkedRoutes
    Others = {"message", "standing", "offer"}
    MaxCommits = 1
    MaxOpens = 1
    MaxTaps = 1
    MaxInFlight = 2
    MaxRequests = 3
    MaxFaults = 1
    MaxTogether = 2
SYMMETRY Symmetry
INVARIANTS OneSocket PresenceFollowsScreen ShowsWhatIsCommitted
PROPERTIES NeverBackInTime
CHECK_DEADLOCK FALSE
