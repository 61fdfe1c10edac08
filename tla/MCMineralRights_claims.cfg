SPECIFICATION Spec
CONSTANTS
    p = p
    q = q
    v = v
    u = u
    t = t
    f = f
    Accounts <- MCAccounts
    Level <- MCLevel
    Names <- MCNames
    Trunc <- MCTrunc
    Deeds = {"d"}
    ReadsAs <- MCReadsAs
    Roles = {0, 1, 2}
    Tiers = {0, 1, 3}
    RawOunces = {17}
    CheckBlocks = {5}
    Uint8 = 256
    Uint64 = 16
    Rate <- MCRate
    PayWeight = 1
    Window = 2
    MaxBlock = 2
    MaxClaims = 1
    MaxAttests = 3
INVARIANTS TwoAttested TierQuorum TokensBacked
