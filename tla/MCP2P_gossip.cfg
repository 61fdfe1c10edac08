SPECIFICATION FairSpec
CONSTANTS
    n1 = n1
    n2 = n2
    Node = {n1, n2}
    Dials <- Twice
    Seeds <- OneWatcher
    Drains = {n1, n2}
    QueueCap = 1
    MaxConns = 2
    MaxGossip <- OneItem
    MaxFaults = 1
INVARIANT PeersServed
PROPERTIES ImplementsSeedAlarm AlarmHeard LossNoticed
CHECK_DEADLOCK FALSE
