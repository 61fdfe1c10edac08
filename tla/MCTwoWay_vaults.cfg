SPECIFICATION VaultSpec
CONSTANTS
    s1 = s1
    s2 = s2
    Users = {u1, u2}
    Vaults = {v1, v2}
    Coins = {s1, s2}
    Oracles = {u1}
    VaultAmounts = {50, 100}
    Collaterals = {65, 130}
    Prices = {9}
    PriceUnit = 10
    Prefix <- Apart
    FeeBps <- MCFeeBps
    MaxVaultCalls = 7
INVARIANTS Exclusive TotalDebtBound PoolBooks
CHECK_DEADLOCK FALSE
