SPECIFICATION LockSpec
CONSTANTS
    t1 = t1
    Terms = {t1}
    Periods = {2, 3}
    Schedules <- NoSchedules
    Thresholds = {}
    Additions = {}
    MinLockPeriod = 2
    Word <- Word16
    MaxHeight = 4
    MaxLocks = 2
    MaxExtensions = 1
    MaxReleases = 1
PROPERTIES
    PromiseKept
CHECK_DEADLOCK FALSE
