SPECIFICATION Spec
CONSTANTS
    Accounts <- MCAccounts
    Addrs <- MCAddrs
    Level <- MCLevel
    Tasks <- MCTasks
    Bounties = {"bounty"}
    RewardOf <- MCRewardOf
    AutoEligible = {"quest"}
    Founder = "founder"
    GenesisBal <- RichGenesisBal
    GenesisSupply = 79
    QuestPct = 5
    Amounts = {1, 2}
    GiveawayReward = 5
    Shift = 3
    MaxCalls = 5
INVARIANT EscrowCovered
