SPECIFICATION FairSpec
CONSTANTS
    sync = sync
    dispatch = dispatch
    nudge = nudge
    expire = expire
    i1 = i1
    i2 = i2
    Jobs = {sync, dispatch, nudge, expire}
    JobOrder <- NameOrder
    Deadline = {dispatch, expire}
    Dispatch = dispatch
    Sync = sync
    Releases <- TwoReleases
    Items = {i1}
    MaxTime = 1
    Period = 1
    Delays <- ShortDelays
    Batch = 1
    MaxFaults = 1
INVARIANTS
    ScheduleCoversWork
    AlarmIsEarliest
PROPERTIES
    DueRowIsHandled
    DueWorkIsDone
