SPECIFICATION Spec
CONSTANTS
    v1 = v1
    v2 = v2
    v3 = v3
    v4 = v4
    ActiveSet <- Three
    Names <- Four
    Local = v1
    Proposer <- AlwaysLocal
    MaxHeard = 4
    MaxPrevotes = 1
    MaxProposals = 3
INVARIANT QuorumHeard
PROPERTY FinalityIrrevocable
SYMMETRY PeerSymmetry
