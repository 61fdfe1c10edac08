SPECIFICATION FairSpec
CONSTANTS
    a = a
    b = b
    z = z
    t = t
    Accounts <- MCAccounts
    Alias <- MCAlias
    GenesisBal <- MCGenesisBal
    GenesisLevel <- MCGenesisLevel
    DevAccounts = {b}
    DevFunding = 5
    Txs <- OverdraftTxs
    TransferGas = 2
    PrecompileGas = 2
    Word = 64
    BlockTxs = 2
    ReloadBlocks = 1
    Reserves = {t}
    Registry = t
    Founder = b
    Amounts = {12}
    FundAmounts <- MCFundAmounts
    SyncMayFail = TRUE
    MaxHeight = 3
    MaxSubmits = 2
    MaxCrashes = 1
    MaxFunds = 1
    MaxDeployCodes = 0
    LastSubmit = 2
INVARIANTS OneOverdraft
PROPERTIES PoolDrains
