------------------------------ MODULE SwapRoute ------------------------------
(***************************************************************************)
(* The swap route 0x25 (consensus/evm/swap_route.go) and the SWAY token    *)
(* 0x24 (consensus/evm/sway_token.go), composed with the trustless lock:   *)
(* adding liquidity mints SWAY for the caller and creates a time lock on   *)
(* the liquidity, and both errors are ignored.                             *)
(*                                                                         *)
(* SWAY is minted out of an allocation bucket; what a bucket has left and  *)
(* what exists are separate counters.  The route keeps one total and no    *)
(* reserves: every swap is priced against the default reserves.  All locks *)
(* of liquidity name the same pool and tokens (none), so that the amount   *)
(* and the block make their id: Terms are the amounts.                     *)
(*                                                                         *)
(* burned, provided and bare are history variables: the SWAY burned, for   *)
(* every id the liquidity that was put under it, and the liquidity that    *)
(* was added under a name too short for the lock.                          *)
(***************************************************************************)
EXTENDS TrustlessLock, Functions

CONSTANTS
    Traders,        \* accounts that call the precompiles
    Keys,           \* the users whose account is not named by an address
    ShortNamed,     \* those of them whose name has fewer than 20 bytes
    Developers,     \* the users with Dox_Dev level 2 or more
    Pairs,          \* pairs of tokens, in order
    ZeroLed,        \* the pairs whose first token has an address that begins with 0
    Deposits,       \* <<amount0, amount1>> of an addition of liquidity
    SwapAmounts,    \* amounts put into a swap
    BurnAmounts,    \* amounts of SWAY burned
    InitialSupply,  \* 1B
    HardCeiling,    \* 5B
    BaseReward,     \* SWAY for an addition of liquidity, 100
    DefaultReserve, \* the reserve of either token, 1M
    LPPeriod,       \* blocks for which liquidity is locked
    MaxTrades       \* bound on the calls of this module

ASSUME SwapAssumptions ==
    /\ Keys \cup Developers \subseteq Traders /\ ShortNamed \subseteq Keys /\ ZeroLed \subseteq Pairs
    /\ InitialSupply \in Nat /\ HardCeiling \in Nat /\ BaseReward \in Nat
    /\ LPPeriod \in Nat /\ MaxTrades \in Nat /\ DefaultReserve \in Nat \ {0}
    /\ SwapAmounts \cup BurnAmounts \subseteq Nat
    /\ Deposits \subseteq Nat \X Nat /\ \A d \in Deposits : d[1] + d[2] \in Terms
    /\ 2 * InitialSupply <= HardCeiling /\ InitialSupply % 20 = 0
    /\ IsFiniteSet(Traders) /\ IsFiniteSet(Terms)

VARIABLES
    swaySupply, \* the SWAY total supply
    bucket,     \* bucket |-> SWAY left in it
    swayBal,    \* holder |-> SWAY
    shown,      \* address |-> the slot getBalance answers with, which swapFee writes
    liquidity,  \* total liquidity
    pairs,      \* the pairs created
    pairCount,  \* how many the route has counted
    burned, provided, bare, trades

token == <<swaySupply, bucket, swayBal, shown>>
route == <<liquidity, pairs, pairCount>>
swapHistory == <<burned, provided, bare, trades>>
locks == <<lock, vesting, count, history>>
swapVars == <<lockVars, token, route, swapHistory>>

\* The precompiles that may mint for themselves hold SWAY like users.
Minters == {"0x18", "0x23"}
SwayHolders == Traders \cup Minters
Addresses == Traders \ Keys

\* SwayInit, at genesis: percent of the initial supply in each bucket.
Allocation == [futureTasks |-> 45, dexLP |-> 20, ecosystem |-> 35]

SwapInit ==
    /\ LockInit
    /\ swaySupply = InitialSupply
    /\ bucket = [b \in DOMAIN Allocation |-> (InitialSupply * Allocation[b]) \div 100]
    /\ swayBal = [h \in SwayHolders |-> 0]
    /\ shown = [h \in Addresses |-> 0]
    /\ liquidity = 0 /\ pairs = {} /\ pairCount = 0
    /\ burned = 0 /\ provided = [id \in Ids |-> 0] /\ bare = 0 /\ trades = 0

Trade == trades < MaxTrades /\ trades' = trades + 1

\* Mutant: the bucket is not asked.
WithinCeiling(amount, b) == amount > 0 /\ swaySupply + amount <= HardCeiling

\* swayMintInternal refuses an amount that the bucket or the ceiling forbids.
MayMint(amount, b) ==
    /\ amount > 0
    /\ bucket[b] >= amount
    /\ swaySupply + amount <= HardCeiling

MintInternal(to, amount, b) ==
    /\ swayBal' = [swayBal EXCEPT ![to] = @ + amount]
    /\ swaySupply' = swaySupply + amount
    /\ bucket' = [bucket EXCEPT ![b] = @ - amount]

\* A reward whose refusal the caller ignores.
Reward(to, amount) ==
    IF MayMint(amount, "dexLP")
    THEN MintInternal(to, amount, "dexLP")
    ELSE UNCHANGED <<swayBal, swaySupply, bucket>>

\* selSwayMint, for the route and the stability pool, to an address.
SwayMint(to, amount) ==
    /\ Trade
    /\ to \in Addresses /\ MayMint(amount, "dexLP")
    /\ MintInternal(to, amount, "dexLP")
    /\ UNCHANGED <<lockVars, shown, route, burned, provided, bare>>

\* selSwayMintToCaller: the 2WAY vault and the task registry mint for themselves.
SwayMintToCaller(caller, amount) ==
    LET b == IF caller = "0x18" THEN "dexLP" ELSE "futureTasks" IN
    /\ Trade
    /\ MayMint(amount, b)
    /\ MintInternal(caller, amount, b)
    /\ UNCHANGED <<lockVars, shown, route, burned, provided, bare>>

\* selSwayBurn: whoever calls, from any account named by an address.
SwayBurn(from, amount) ==
    /\ Trade
    /\ from \notin Keys /\ amount > 0 /\ swayBal[from] >= amount
    /\ swayBal' = [swayBal EXCEPT ![from] = @ - amount]
    /\ swaySupply' = swaySupply - amount
    /\ burned' = burned + amount
    /\ UNCHANGED <<lockVars, bucket, shown, route, provided, bare>>

\* selSwaySwapFeeReward writes another slot than the one that is minted to and
\* burned from: the one getBalance reads.
SwaySwapFee(to) ==
    /\ Trade
    /\ shown' = [shown EXCEPT ![to] = 1]
    /\ UNCHANGED <<lockVars, swaySupply, bucket, swayBal, route, burned, provided, bare>>

\* srCreatePair looks at the first byte of an existing pair, which is that of
\* its first token: a pair that begins with 0 is created and counted again.
CreatePair(u, p) ==
    /\ Trade
    /\ u \in Developers
    /\ pairs' = pairs \cup {p}
    /\ pairCount' = IF p \in pairs \ ZeroLed THEN pairCount ELSE pairCount + 1
    /\ UNCHANGED <<lockVars, token, liquidity, burned, provided, bare>>

\* Mutant: liquidity is locked for one block less.
LockedShorter == LPPeriod - 1

LockedFor == LPPeriod

\* The lock's own checks of the route's input: the recipient, which is the
\* caller's name and is not padded, fills 20 bytes, and the period is allowed.
LockAccepts(u) == u \notin ShortNamed /\ LongEnough(LockedFor)

\* srAddLiquidity: the liquidity counts whether or not the lock is created.
AddLiquidity(u, d) ==
    LET amount == d[1] + d[2] IN
    /\ Trade
    /\ liquidity' = liquidity + amount
    /\ Reward(u, BaseReward)
    /\ IF LockAccepts(u) THEN CreateTimeLock(amount, LockedFor) ELSE UNCHANGED lockVars
    /\ IF u \in ShortNamed
       THEN bare' = bare + amount /\ UNCHANGED provided
       ELSE provided' = [provided EXCEPT ![LockID(amount)] = @ + amount] /\ UNCHANGED bare
    /\ UNCHANGED <<shown, pairs, pairCount, burned>>

\* Output of a swap against reserves of DefaultReserve, less 0.3 percent.
AmountOut(n) == (n * 997 * DefaultReserve) \div (DefaultReserve * 1000 + n * 997)

\* srSwap: no amount moves, the caller is rewarded with 0.3 percent.
Swap(u, n, least) ==
    /\ Trade
    /\ AmountOut(n) >= least
    /\ Reward(u, (n * 3) \div 1000)
    /\ UNCHANGED <<lockVars, shown, route, burned, provided, bare>>

SwayStep ==
    \/ \E h \in SwayHolders, n \in BurnAmounts : SwayMint(h, n) \/ SwayBurn(h, n)
    \/ \E c \in Minters, n \in BurnAmounts : SwayMintToCaller(c, n)
    \/ \E h \in Addresses : SwaySwapFee(h)

RouteStep ==
    \/ \E u \in Traders, p \in Pairs : CreatePair(u, p)
    \/ \E u \in Traders, d \in Deposits : count < MaxLocks /\ AddLiquidity(u, d)
    \/ \E u \in Traders, n \in SwapAmounts :
          \E least \in AmountOut(n) .. AmountOut(n) + 1 : Swap(u, n, least)

LockStep == LockNext /\ UNCHANGED <<token, route, swapHistory>>

SwapNext == SwayStep \/ RouteStep \/ LockStep

\* Blocks keep being produced.
SwapSpec ==
    /\ SwapInit /\ [][SwapNext]_swapVars
    /\ WF_swapVars(NextBlock /\ UNCHANGED <<token, route, swapHistory>>)

------------------------------------------------------------------------------
(* Properties *)

\* sway_token.go: whatever is minted, rewarded and burned, what holders have was
\* taken from a bucket and not burned since, and is what the supply has grown by.
\* The hard ceiling is never what refuses a mint.
SwayConserved ==
    /\ swaySupply = InitialSupply + SumFunctionOnSet(swayBal, SwayHolders)
    /\ SumFunctionOnSet(swayBal, SwayHolders) + burned + SumFunctionOnSet(bucket, DOMAIN Allocation)
         = InitialSupply
    /\ swaySupply <= HardCeiling /\ \A b \in DOMAIN Allocation : bucket[b] >= 0

\* swap_route.go:170: all liquidity that callers with a name of 20 bytes or more
\* added stands under a lock, although the route ignores whether the lock was
\* created; the rest of the total is what shorter names added, and no more.
LiquidityLocked ==
    /\ liquidity = SumFunctionOnSet(provided, Ids) + bare
    /\ \A id \in Ids : provided[id] > 0 => lock[id].made = 1

------------------------------------------------------------------------------
(* What the documents say and the code does not do *)

\* All liquidity is locked.
AllLiquidityLocked == liquidity = SumFunctionOnSet(provided, Ids)

\* Liquidity stays locked for the period of the route.
LockedForPeriod ==
    [][\A id \in Ids : provided[id] > 0 /\ released'[id] > released[id]
          => height >= id.block + LPPeriod]_swapVars

\* The supply is what was minted less what was burned.
CirculatingMinted == swaySupply = SumFunctionOnSet(swayBal, SwayHolders)

\* Every addition of liquidity has a lock of its own.
OwnLock == \A id \in Ids : provided[id] \in {0, id.terms}

\* The number of pairs is the number of different pairs.
PairsCounted == pairCount = Cardinality(pairs)

\* What getBalance answers is what the account has.
BalanceShown == \A h \in Addresses : shown[h] = swayBal[h]
==============================================================================
