SPECIFICATION SwapSpec
CONSTANTS
    Traders = {u1, u2}
    Keys = {u2}
    ShortNamed = {u2}
    Developers = {u1}
    Pairs = {p2}
    ZeroLed = {p2}
    Deposits <- MCDeposits
    SwapAmounts = {1000}
    BurnAmounts = {2}
    InitialSupply = 20
    HardCeiling = 100
    BaseReward = 3
    DefaultReserve = 1000
    LPPeriod = 2
    MaxTrades = 3
    Terms = {3}
    Periods = {1, 2}
    Schedules <- MCSchedules
    Thresholds = {2}
    Additions <- MCAdditions
    MinLockPeriod = 2
    Word <- Word16
    MaxHeight = 3
    MaxLocks = 2
    MaxExtensions = 1
    MaxReleases = 1
INVARIANTS
    SwayConserved
    LiquidityLocked
PROPERTIES
    NotBeforeEarliest
    UnlocksInTime
CHECK_DEADLOCK FALSE
