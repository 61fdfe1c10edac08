SPECIFICATION FairSpec
CONSTANTS
    ReloadBlocks = 2
    MaxHeight = 4
    MaxRestarts = 1
    MaxCrashes = 1
    MaxErrors = 1
INVARIANT RowAndTxAgree
INVARIANT ReplayLeavesNoGap
PROPERTY RowsAreFinal
PROPERTY HeadFollows
CHECK_DEADLOCK FALSE
