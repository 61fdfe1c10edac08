SPECIFICATION Spec
CONSTANTS
    v1 = v1
    v2 = v2
    v3 = v3
    v4 = v4
    ActiveSet <- Three
    Names <- Four
    Local = v1
    Proposer <- AlwaysLocal
    MaxHeard = 3
    MaxPrevotes = 1
    MaxProposals = 2
PROPERTY VotesForBlock
