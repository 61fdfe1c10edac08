SPECIFICATION FairSpec
CONSTANTS
    c1 = c1
    c2 = c2
    Conn = {c1, c2}
    MaxSubs = 2
    MaxHeight = 3
    MaxStalls = 1
INVARIANTS DoneClosedOnce NoLeak HeadsConsecutive
PROPERTY LoopWaitsForClientsOnly
CHECK_DEADLOCK FALSE
