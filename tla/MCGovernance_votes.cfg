SPECIFICATION Spec
CONSTANTS
    a = a
    b = b
    t1 = t1
    d1 = d1
    Callers = {a, b}
    Titles = {t1}
    Descriptions = {d1}
    Kinds = {"direct", "quadratic", "inflation"}
    Rates = {200, 500}
    Stakes = {0, 1}
    Directions = {0, 1}
    MaxHeight = 1
    MaxVotes = 2
    MaxProposals = 2
SYMMETRY CallerSymmetry
INVARIANTS
    YesBacked
    ThresholdMet
PROPERTIES
    InflationByVote
CHECK_DEADLOCK FALSE
