SPECIFICATION Spec
CONSTANTS
    a = a
    b = b
    z = z
    t = t
    Accounts <- MCAccounts
    Alias <- MCAlias
    GenesisBal <- MCGenesisBal
    GenesisLevel <- MCGenesisLevel
    DevAccounts = {b}
    DevFunding = 5
    Txs <- OverdraftTxs
    TransferGas = 2
    PrecompileGas = 2
    Word = 64
    BlockTxs = 2
    ReloadBlocks = 1
    Reserves = {t}
    Registry = t
    Founder = b
    Amounts = {12}
    FundAmounts = {1}
    SyncMayFail = FALSE
    MaxHeight = 3
    MaxSubmits = 3
    MaxCrashes = 1
    MaxFunds = 1
    MaxDeployCodes = 1
    LastSubmit = 3
INVARIANTS Solvent
