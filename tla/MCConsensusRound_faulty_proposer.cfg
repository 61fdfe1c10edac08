SPECIFICATION FairSpec
CONSTANTS
    v1 = v1
    v2 = v2
    v3 = v3
    v4 = v4
    ActiveSet <- Three
    Names <- Four
    Local = v1
    Proposer <- SecondIsPeer
    MaxHeard = 3
    MaxPrevotes = 1
    MaxProposals = 3
PROPERTY ProposerSkipped
