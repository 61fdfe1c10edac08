SPECIFICATION Spec
CONSTANTS
    a = a
    b = b
    z = z
    t = t
    Accounts <- MCAccounts
    Alias <- MCAlias
    GenesisBal <- AliasGenesisBal
    GenesisLevel <- MCGenesisLevel
    DevAccounts = {b}
    DevFunding = 5
    Txs <- CallTxs
    TransferGas = 2
    PrecompileGas = 2
    Word = 64
    BlockTxs = 2
    ReloadBlocks = 1
    Reserves = {t}
    Registry = t
    Founder = b
    Amounts = {}
    FundAmounts = {1}
    SyncMayFail = FALSE
    MaxHeight = 4
    MaxSubmits = 4
    MaxCrashes = 0
    MaxFunds = 0
    MaxDeployCodes = 0
    LastSubmit = 4
INVARIANTS NoReplay
