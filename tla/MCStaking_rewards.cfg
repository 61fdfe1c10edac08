SPECIFICATION StakingSpec
CONSTANTS
    a = a
    b = b
    c = c
    d = d
    e = e
    f = f
    g = g
    Validators <- Pair
    StakeSizes = {99, 1000, 500000}
    Rates = {1, 9}
    EpochLength = 4
    MaxBlocks = 12
    MaxChanges = 4
    LastChange = 9
INVARIANTS NoEmissionLost AntiWhale
PROPERTIES EpochCapped
SYMMETRY ValidatorSymmetry
