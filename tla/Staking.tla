------------------------------ MODULE Staking ------------------------------
(***************************************************************************)
(* Progressive staking (consensus/progressive_staking.go, evm/inflation.go *)
(* and the end of ProduceBlock in consensus/chain.go): the emission of a   *)
(* block is accrued as a fraction of a token, capped per epoch, split over *)
(* the validators by their marginal annual reward in whole tokens, and     *)
(* credited to their balances, with a share on top for the quest treasury. *)
(*                                                                         *)
(* The code keeps the emission and the carry as float64.  Here they are    *)
(* exact: with a supply of 100,000,000 and 10,512,000 blocks a year, a     *)
(* rate of p percent emits 125 * p / 1314 tokens per block, so accrued     *)
(* counts units of 1/1314 of a token.  In double precision, at each of the *)
(* rates 3 to 9 and over the first million blocks, the carry is within     *)
(* 10^-10 of a token of the exact one; at rates 4 and 8 a token is paid    *)
(* one block late in some of the blocks where the exact carry is a whole   *)
(* number, and otherwise the payments are the same.  The properties speak  *)
(* of the exact carry, and of the code's up to that rounding.  The annual  *)
(* reward of a stake, also computed in float64, comes out exact for every  *)
(* stake up to 1,300,000.                                                  *)
(***************************************************************************)
EXTENDS Integers, Sequences, FiniteSets, Functions

CONSTANTS
    Validators,
    StakeSizes,  \* the amounts validators stake
    Rates,       \* the inflation percentages governance asks for
    EpochLength, \* blocks per epoch
    MaxBlocks, MaxChanges, \* bounds: the blocks produced, and the calls between them
    LastChange   \* bound: the height after which no call is made

MinStake == 100
Unit == 1314
TreasuryPct == 15

ASSUME StakingAssumption ==
    /\ IsFiniteSet(Validators) /\ StakeSizes \subseteq Nat \ {0} /\ Rates \subseteq Nat
    /\ EpochLength \in Nat \ {0} /\ MaxBlocks \in Nat /\ MaxChanges \in Nat /\ LastChange \in Nat

VARIABLES
    stake,       \* StakedAmount of the registered validators, 0 for the others
    accumulated, \* Accumulated of each of them
    totalStaked, \* TotalStaked
    rate,        \* activeInflationPct
    accrued,     \* the carry, in units
    epochMinted, \* tokens minted in this epoch
    blockHeight, \* the chain's height
    balance,     \* what the validators' accounts have been credited
    treasury,    \* what account 0x03 has been credited
    epochExtra,  \* the part of it that was credited in this epoch
    addedSupply, \* what QuestAddSupply has added to the live supply
    owed,        \* history: the units emitted so far
    settled,     \* history: no stake has changed since the first block with a reward
    changes      \* how many calls have been made between blocks

stakingVars == <<stake, accumulated, totalStaked, rate, accrued, epochMinted, blockHeight, balance,
          treasury, epochExtra, addedSupply, owed, settled, changes>>

Zero == [v \in Validators |-> 0]
Total(f) == SumFunctionOnSet(f, Validators)

StakingInit ==
    /\ stake = Zero /\ accumulated = Zero /\ totalStaked = 0
    /\ rate = 7 /\ accrued = 0 /\ epochMinted = 0 /\ blockHeight = 0
    /\ balance = Zero /\ treasury = 0 /\ epochExtra = 0 /\ addedSupply = 0
    /\ owed = 0 /\ settled = TRUE /\ changes = 0

-----------------------------------------------------------------------------
(* The reward of a stake. *)

(* Mutant: the yields are listed in the opposite order. *)
BracketsReversed == <<[above |-> 0, apy |-> 1], [above |-> 1001, apy |-> 2],
                      [above |-> 10001, apy |-> 4], [above |-> 100001, apy |-> 8],
                      [above |-> 1000001, apy |-> 15]>>

(* ProgressiveStakingBrackets: the tokens above each bound earn apy percent *)
(* up to the next bound. The first bracket reaches up to its exclusive      *)
(* MaxStake, 1001, and every other one starts there.                        *)
Brackets == <<[above |-> 0, apy |-> 15], [above |-> 1001, apy |-> 8],
              [above |-> 10001, apy |-> 4], [above |-> 100001, apy |-> 2],
              [above |-> 1000001, apy |-> 1]>>

(* The brackets as their descriptions and the tokenomics have them. *)
DocumentedBrackets == <<[above |-> 0, apy |-> 15], [above |-> 1000, apy |-> 8],
                        [above |-> 10000, apy |-> 4], [above |-> 100000, apy |-> 2],
                        [above |-> 1000000, apy |-> 1]>>

Over(s, b) == IF s > b THEN s - b ELSE 0

(* The tokens of stake s that are in bracket i. *)
TokensIn(bs, s, i) ==
    Over(s, bs[i].above) - (IF i < Len(bs) THEN Over(s, bs[i + 1].above) ELSE 0)

MarginalReward(bs, s) ==
    IF s < MinStake THEN 0
    ELSE SumFunction([i \in 1..Len(bs) |-> TokensIn(bs, s, i) * bs[i].apy]) \div 100

CalculateReward(s) == MarginalReward(Brackets, s)

-----------------------------------------------------------------------------
(* Registration, claims and the rate. *)

Change ==
    /\ changes < MaxChanges /\ blockHeight <= LastChange
    /\ changes' = changes + 1
    /\ UNCHANGED <<accrued, epochMinted, blockHeight, balance, treasury, epochExtra, addedSupply,
                   owed>>

(* RegisterStake: TotalStaked loses the old stake and gains the new one. *)
NewTotal(v, amount) == totalStaked - stake[v] + amount

RegisterStake(v, amount) ==
    /\ Change
    /\ totalStaked' = NewTotal(v, amount)
    /\ stake' = [stake EXCEPT ![v] = amount]
    /\ settled' = (settled /\ owed = 0)
    /\ UNCHANGED <<accumulated, rate>>

(* RemoveStake forgets the unclaimed rewards with the stake. *)
RemoveStake(v) ==
    /\ Change /\ stake[v] # 0
    /\ totalStaked' = totalStaked - stake[v]
    /\ stake' = [stake EXCEPT ![v] = 0]
    /\ accumulated' = [accumulated EXCEPT ![v] = 0]
    /\ settled' = (settled /\ owed = 0)
    /\ UNCHANGED rate

(* ClaimReward only resets the counter: the balance was credited before. *)
ClaimReward(v) ==
    /\ Change /\ accumulated[v] # 0
    /\ accumulated' = [accumulated EXCEPT ![v] = 0]
    /\ UNCHANGED <<stake, totalStaked, rate, settled>>

(* SetInflationPct clamps the rate to 3..9. *)
SetInflation(p) ==
    /\ Change
    /\ rate' = IF p < 3 THEN 3 ELSE IF p > 9 THEN 9 ELSE p
    /\ UNCHANGED <<stake, accumulated, totalStaked, settled>>

-----------------------------------------------------------------------------
(* The end of ProduceBlock. *)

PerBlockEmission == 125 * rate
EpochCap == (PerBlockEmission * EpochLength) \div Unit

TotalAnnual == Total([v \in Validators |-> CalculateReward(stake[v])])

(* Mutant: the slice of this block is not cut to the cap. *)
AvailableUncut(carry, minted) ==
    IF EpochCap > 0 /\ minted >= EpochCap THEN 0 ELSE carry \div Unit

(* The whole tokens that may be paid: none once the cap is reached. A cap  *)
(* of 0 is no cap.                                                         *)
Available(carry, minted) ==
    LET whole == carry \div Unit
    IN IF EpochCap = 0 THEN whole
       ELSE IF minted >= EpochCap THEN 0
       ELSE IF minted + whole > EpochCap THEN EpochCap - minted ELSE whole

(* Mutant: the whole slice leaves the carry, the rounded part included. *)
LeavesAll(available, paid) == available

(* Only what has been paid leaves the carry. *)
LeavesCarry(available, paid) == paid

TreasuryShareOf(amount) == (amount * TreasuryPct) \div 100

(* RolloverEpoch, called before the rewards of a height that is a multiple *)
(* of EpochLength.                                                         *)
EpochMintedAt(h) == IF h % EpochLength = 0 THEN 0 ELSE epochMinted

(* DistributeBlockReward and the credits that follow it. Without a         *)
(* rewarded stake nothing is accrued.                                      *)
ProduceBlock ==
    /\ blockHeight < MaxBlocks
    /\ blockHeight' = blockHeight + 1
    /\ LET total == TotalAnnual
           minted == EpochMintedAt(blockHeight + 1)
           extra == IF (blockHeight + 1) % EpochLength = 0 THEN 0 ELSE epochExtra
           carry == IF total = 0 THEN accrued ELSE accrued + PerBlockEmission
           available == IF total = 0 THEN 0 ELSE Available(carry, minted)
           reward == [v \in Validators |-> IF total = 0 THEN 0
                        ELSE (available * CalculateReward(stake[v])) \div total]
           paid == Total(reward)
       IN /\ accrued' = carry - (IF paid = 0 THEN 0 ELSE Unit * LeavesCarry(available, paid))
          /\ epochMinted' = minted + paid
          /\ accumulated' = [v \in Validators |-> accumulated[v] + reward[v]]
          /\ balance' = [v \in Validators |-> balance[v] + reward[v]]
          /\ treasury' = treasury + TreasuryShareOf(paid)
          /\ epochExtra' = extra + TreasuryShareOf(paid)
          /\ addedSupply' = addedSupply + paid
          /\ owed' = owed + (carry - accrued)
    /\ UNCHANGED <<stake, totalStaked, rate, settled, changes>>

(* The bound of a run. *)
AtBound == blockHeight = MaxBlocks /\ UNCHANGED stakingVars

StakingNext ==
    \/ \E v \in Validators, s \in StakeSizes : RegisterStake(v, s)
    \/ \E v \in Validators : RemoveStake(v) \/ ClaimReward(v)
    \/ \E p \in Rates : SetInflation(p)
    \/ ProduceBlock
    \/ AtBound

StakingSpec == StakingInit /\ [][StakingNext]_stakingVars

-----------------------------------------------------------------------------
(* Properties. *)

(* "no emission is ever destroyed": what DistributeBlockReward has paid    *)
(* and the carry are together all that has been emitted, through roundings, *)
(* exhausted epochs, changes of the rate and of the stakes.                *)
NoEmissionLost == Unit * Total(balance) + accrued = owed

(* "An epoch cap guarantees the annual cap": no block mints past the cap in *)
(* force, at whatever height the rate or the stakes have changed before.    *)
EpochCapped ==
    [][Total(balance') > Total(balance) /\ EpochCap > 0 => epochMinted' <= EpochCap]_stakingVars

(* "Smaller stakes earn higher effective APY": of two rewarded stakes the  *)
(* larger one never has the higher yield, up to the rounding of one token. *)
AntiWhale ==
    \A v, w \in Validators :
        MinStake <= stake[v] /\ stake[v] < stake[w] =>
            (CalculateReward(stake[v]) + 1) * stake[w] > CalculateReward(stake[w]) * stake[v]

(* "15% on first 1,000 + 8% on next 9,000": the reward of a stake is the *)
(* one of the documented brackets (CalculateReward).                     *)
BracketsAsDocumented ==
    \A v \in Validators : CalculateReward(stake[v]) = MarginalReward(DocumentedBrackets, stake[v])

(* "split across validators by their progressive annual reward": while the *)
(* stakes stay the same, everyone has his part of what has been paid, to   *)
(* the token (DistributeBlockReward).                                      *)
ProportionalShare ==
    settled /\ TotalAnnual > 0 =>
        \A v \in Validators :
            balance[v] + 1 >= (Total(balance) * CalculateReward(stake[v])) \div TotalAnnual

(* "15 => ~1.05M WAY/yr to 0x03": the treasury has its share of everything *)
(* that was minted, to the token (TreasuryShareOf).                        *)
TreasuryFunded == treasury + 1 >= TreasuryShareOf(Total(balance))

(* "fraction of the 7% annual emission routed to the quest treasury instead *)
(* of validators": with the treasury's share too, an epoch stays within its *)
(* cap.                                                                     *)
TreasuryWithinCap == EpochCap > 0 => epochMinted + epochExtra <= EpochCap

(* QuestAddSupply is "called when WAY is minted": the live supply counts *)
(* all of it, the treasury's share included.                             *)
SupplyCountsMint == addedSupply = Total(balance) + treasury
=============================================================================
