------------------------------- MODULE TwoWay -------------------------------
(***************************************************************************)
(* The 2WAY vault 0x18 (consensus/evm/two_way.go) and the stability pool   *)
(* 0x19 (consensus/evm/stability_pool.go), which share storage: the vault  *)
(* writes the pool's exclusivity lock and its reward buckets, the pool     *)
(* reads the vault's debts.                                                *)
(*                                                                         *)
(* Nothing undoes the writes of a precompile that returns an error, so a   *)
(* refused mint keeps the fee it has booked.  No operation of the vault    *)
(* looks at who calls it, and none moves tokens.  Vaults, coins and the    *)
(* callers' amounts are all inputs.  No code outside the tests writes the  *)
(* parameter without which a coin is refused: Coins are the accepted ones. *)
(*                                                                         *)
(* booked and claimed are history variables: the mint fees booked for a    *)
(* user and the fees claimRewards has answered the user with.  vaultCalls  *)
(* counts the calls, to bound them.                                        *)
(***************************************************************************)
EXTENDS Integers, FiniteSets, Functions

CONSTANTS
    Users, Vaults,
    Prefix,       \* vault |-> the vault that stands for its first 20 bytes
    Coins,        \* stablecoins with a minCRatio parameter
    Oracles,      \* users with Dox_Dev level 2 or more
    VaultAmounts, \* amounts of 2WAY a call may name
    Collaterals,  \* amounts of a stablecoin a call may name
    Prices,       \* prices an oracle may submit, in units of PriceUnit
    PriceUnit,    \* one dollar, 10^8 in the code
    FeeBps,       \* stability fee of a coin in basis points, 150 by default
    MaxVaultCalls \* bound on the calls

ASSUME TwoWayAssumptions ==
    /\ IsFiniteSet(Users) /\ IsFiniteSet(Vaults) /\ Oracles \subseteq Users
    /\ VaultAmounts \subseteq Nat /\ Collaterals \subseteq Nat /\ Prices \subseteq Nat
    /\ PriceUnit \in Nat \ {0} /\ MaxVaultCalls \in Nat
    /\ FeeBps \in [Coins -> Nat \ {0}]
    /\ Prefix \in [Vaults -> Vaults]

VARIABLES
    coll,           \* prefix, coin |-> collateral, absent before a deposit
    debt,           \* vault |-> debt
    totalDebt,      \* the sum the vault precompile keeps
    price,          \* coin |-> the last price submitted, 0 before
    dep,            \* user |-> deposit in the pool
    totalDeposits, twoWayBalance,
    minted,         \* user |-> minted debt, the exclusivity lock
    lpFee,          \* user |-> mint fees not claimed yet
    wayRewards, swayRewards, totalRewards,
    booked, claimed, vaultCalls

vault == <<coll, debt, totalDebt, price>>
rewards == <<lpFee, wayRewards, swayRewards, totalRewards>>
pool == <<dep, totalDeposits, twoWayBalance, minted>>
vaultVars == <<vault, rewards, pool, booked, claimed, vaultCalls>>

NoColl == -1

\* collateralKey keeps 20 bytes of the vault's id, debtKey 31: vaults with a
\* common prefix have one collateral and each its debt.  Coins are different
\* in the 11 bytes it keeps of their name.
Coll(v) == coll[Prefix[v]]
Held(v) == {s \in Coins : Coll(v)[s] # NoColl}

\* writeSlot keeps the magnitude of a number and drops its sign.  A number of
\* 2^256 or more does not fit its slot and ends the process with a panic; the
\* model's numbers are those below it.
WriteSlot(n) == IF n < 0 THEN -n ELSE n

\* reduceTotalDebt and its kin stop at zero.
Less(n, amount) == IF n < amount THEN 0 ELSE n - amount

VaultInit ==
    /\ coll = [v \in Vaults |-> [s \in Coins |-> NoColl]]
    /\ debt = [v \in Vaults |-> 0]
    /\ totalDebt = 0
    /\ price = [s \in Coins |-> 0]
    /\ dep = [u \in Users |-> 0]
    /\ totalDeposits = 0 /\ twoWayBalance = 0
    /\ minted = [u \in Users |-> 0]
    /\ lpFee = [u \in Users |-> 0]
    /\ wayRewards = 0 /\ swayRewards = 0 /\ totalRewards = 0
    /\ booked = [u \in Users |-> 0]
    /\ claimed = [u \in Users |-> 0]
    /\ vaultCalls = 0

VaultCall == vaultCalls < MaxVaultCalls /\ vaultCalls' = vaultCalls + 1

------------------------------------------------------------------------------
(* The collateral ratio *)

\* isAboveMinCRatio: amounts count, prices do not.  c is a vault's collateral.
AboveMinCRatio(c, d) ==
    d # 0 => (SumFunctionOnSet(c, {s \in Coins : c[s] # NoColl}) * 10000) \div d >= 13000

\* getVaultCollateralValueUSD: a price of 0 is one dollar.
ValueUSD(v) ==
    SumFunctionOnSet([s \in Coins |->
                (Coll(v)[s] * (IF price[s] = 0 THEN PriceUnit ELSE price[s])) \div PriceUnit],
            Held(v))

\* isAboveLiquidationRatio
AboveLiquidationRatio(v) ==
    debt[v] # 0 => (ValueUSD(v) * 10000) \div debt[v] > 14000

------------------------------------------------------------------------------
(* The vault *)

\* twoWayDeposit replaces what the vault holds of the coin, whoever calls.
VaultDeposit(v, s, n) ==
    /\ VaultCall
    /\ coll' = [coll EXCEPT ![Prefix[v]][s] = n]
    /\ UNCHANGED <<debt, totalDebt, price, rewards, pool, booked, claimed>>

\* Adding a reward to the buckets, half of it to each.
BookRewards(n) ==
    /\ wayRewards' = wayRewards + n \div 2
    /\ swayRewards' = swayRewards + (n - n \div 2)
    /\ totalRewards' = totalRewards + n

\* Mutant: only a user without debt is let in, a depositor of the pool is not
\* looked for.
MayMintLP(u) == minted[u] = 0

\* A user with debt, or with a deposit in the pool, cannot mint.
MayMintDebt(u) == minted[u] = 0 /\ dep[u] = 0

\* The fee of the coin that the iteration over the vault's map meets first.
ProtocolFee(n, s) == (n * FeeBps[s]) \div 10000

\* twoWayMint: the fee is booked before the ratio is checked, and stays booked
\* when the check refuses the mint.
Mint(u, v, n, s) ==
    LET fee == ProtocolFee(n, s) IN
    /\ VaultCall
    /\ MayMintDebt(u)
    /\ s \in Held(v) /\ SumFunctionOnSet(Coll(v), Held(v)) # 0
    /\ BookRewards(fee)
    /\ lpFee' = [lpFee EXCEPT ![u] = @ + fee]
    /\ booked' = [booked EXCEPT ![u] = @ + fee]
    /\ \/ /\ AboveMinCRatio(Coll(v), debt[v] + n)
          /\ debt' = [debt EXCEPT ![v] = @ + n]
          /\ totalDebt' = totalDebt + n
          /\ minted' = [minted EXCEPT ![u] = @ + n]
       \/ /\ ~AboveMinCRatio(Coll(v), debt[v] + n)
          /\ UNCHANGED <<debt, totalDebt, minted>>
    /\ UNCHANGED <<coll, price, dep, totalDeposits, twoWayBalance, claimed>>

\* twoWayWithdraw
VaultWithdraw(v, s, n) ==
    LET after == [Coll(v) EXCEPT ![s] = @ - n] IN
    /\ VaultCall
    /\ s \in Held(v) /\ n <= Coll(v)[s]
    /\ AboveMinCRatio(after, debt[v])
    /\ coll' = [coll EXCEPT ![Prefix[v]] = after]
    /\ UNCHANGED <<debt, totalDebt, price, rewards, pool, booked, claimed>>

\* Mutant: the sum of debts is left alone when the vault owes less.
LessDebtIfOwed(n, amount) == IF n < amount THEN n ELSE n - amount

LessDebt(n, amount) == Less(n, amount)

\* twoWayBurn: any vault, any amount, also more than the vault owes.
Burn(u, v, n) ==
    /\ VaultCall
    /\ debt' = [debt EXCEPT ![v] = Less(@, n)]
    /\ minted' = [minted EXCEPT ![u] = Less(@, n)]
    /\ totalDebt' = LessDebt(totalDebt, n)
    /\ UNCHANGED <<coll, price, rewards, dep, totalDeposits, twoWayBalance, booked, claimed>>

\* twoWayLiquidate: the minters' locks and the collateral stay as they are.
Liquidate(v) ==
    /\ VaultCall
    /\ ~AboveLiquidationRatio(v)
    /\ debt' = [debt EXCEPT ![v] = 0]
    /\ totalDebt' = LessDebt(totalDebt, debt[v])
    /\ UNCHANGED <<coll, price, rewards, pool, booked, claimed>>

\* twoWaySetStablecoinPrice, which has no selector: only tests call it.
SetPrice(u, s, p) ==
    /\ VaultCall
    /\ u \in Oracles
    /\ price' = [price EXCEPT ![s] = p]
    /\ UNCHANGED <<coll, debt, totalDebt, rewards, pool, booked, claimed>>

------------------------------------------------------------------------------
(* The stability pool *)

\* stabilityDeposit
PoolDeposit(u, n) ==
    /\ VaultCall
    /\ n > 0 /\ minted[u] = 0
    /\ dep' = [dep EXCEPT ![u] = @ + n]
    /\ totalDeposits' = totalDeposits + n
    /\ twoWayBalance' = twoWayBalance + n
    /\ UNCHANGED <<vault, rewards, minted, booked, claimed>>

\* stabilityWithdraw: the balance of the pool may be smaller than the amount.
PoolWithdraw(u, n) ==
    /\ VaultCall
    /\ n > 0 /\ n <= dep[u]
    /\ dep' = [dep EXCEPT ![u] = @ - n]
    /\ totalDeposits' = WriteSlot(totalDeposits - n)
    /\ twoWayBalance' = WriteSlot(twoWayBalance - n)
    /\ UNCHANGED <<vault, rewards, minted, booked, claimed>>

\* Mutant: the fees of the caller are answered and kept.
FeesKept(u) == lpFee

FeesAfterClaim(u) == [lpFee EXCEPT ![u] = 0]

\* stabilityClaimRewards: no code writes the other reward of a user.  The
\* buckets are emptied whatever the caller is due.
ClaimRewards(u) ==
    /\ VaultCall
    /\ lpFee[u] > 0
    /\ lpFee' = FeesAfterClaim(u)
    /\ wayRewards' = 0 /\ swayRewards' = 0 /\ totalRewards' = 0
    /\ claimed' = [claimed EXCEPT ![u] = @ + lpFee[u]]
    /\ UNCHANGED <<vault, pool, booked>>

\* stabilityAbsorb: the debt of the vault stays, so it can be absorbed again.
Absorb(v) ==
    /\ VaultCall
    /\ debt[v] > 0 /\ twoWayBalance >= debt[v]
    /\ twoWayBalance' = twoWayBalance - debt[v]
    /\ IF totalDeposits > 0
       THEN BookRewards((debt[v] * 1000) \div 10000)
       ELSE UNCHANGED <<wayRewards, swayRewards, totalRewards>>
    /\ UNCHANGED <<vault, dep, totalDeposits, minted, lpFee, booked, claimed>>

------------------------------------------------------------------------------
VaultNext ==
    \/ \E v \in Vaults, s \in Coins, n \in Collaterals :
          VaultDeposit(v, s, n) \/ VaultWithdraw(v, s, n)
    \/ \E u \in Users, v \in Vaults, n \in VaultAmounts :
          Burn(u, v, n) \/ \E s \in Coins : Mint(u, v, n, s)
    \/ \E v \in Vaults : Liquidate(v) \/ Absorb(v)
    \/ \E u \in Users, s \in Coins, p \in Prices : SetPrice(u, s, p)
    \/ \E u \in Users, n \in VaultAmounts : PoolDeposit(u, n) \/ PoolWithdraw(u, n)
    \/ \E u \in Users : ClaimRewards(u)

VaultSpec == VaultInit /\ [][VaultNext]_vaultVars

------------------------------------------------------------------------------
(* Properties *)

VaultTypeOK ==
    /\ coll \in [Vaults -> [Coins -> Nat \cup {NoColl}]]
    /\ debt \in [Vaults -> Nat] /\ totalDebt \in Nat
    /\ price \in [Coins -> Nat]
    /\ dep \in [Users -> Nat] /\ minted \in [Users -> Nat]
    /\ lpFee \in [Users -> Nat] /\ booked \in [Users -> Nat] /\ claimed \in [Users -> Nat]
    /\ totalDeposits \in Nat /\ twoWayBalance \in Nat
    /\ wayRewards \in Nat /\ swayRewards \in Nat /\ totalRewards \in Nat
    /\ vaultCalls \in Nat

\* two_way.go:169 and stability_pool.go:75: nobody is a depositor of the pool
\* and a minter with debt at the same time, in whatever order the user mints,
\* burns, deposits and withdraws.
Exclusive == \A u \in Users : dep[u] = 0 \/ minted[u] = 0

\* way_twoWayStats never reports more debt than the vaults owe together,
\* whatever mixture of mints, excessive burns and liquidations there was.
TotalDebtBound == totalDebt <= SumFunctionOnSet(debt, Vaults)

\* stability_pool.go: the pool's total is the sum of its deposits, the two
\* buckets make up the rewards, and a mint fee is claimed once or still due.
PoolBooks ==
    /\ totalDeposits = SumFunctionOnSet(dep, Users)
    /\ wayRewards + swayRewards = totalRewards
    /\ \A u \in Users : booked[u] = claimed[u] + lpFee[u]

------------------------------------------------------------------------------
(* What the documents say and the code does not do *)

\* As long as a vault owes, somebody who minted is kept out of the pool: burning
\* on another vault, even an empty one, clears the lock and leaves the debt.
OwingKeptOut == (\A u \in Users : dep[u] > 0) => SumFunctionOnSet(debt, Vaults) = 0

\* The debt of every vault is covered at the minimum ratio by amount.
VaultsCovered == \A v \in Vaults : AboveMinCRatio(Coll(v), debt[v])

\* A mint leaves the debts of all vaults on one collateral covered by it.
BackedOnce ==
    [][\A v \in Vaults : debt'[v] > debt[v] =>
          AboveMinCRatio(Coll(v)',
                         SumFunctionOnSet(debt', {w \in Vaults : Prefix[w] = Prefix[v]}))]_vaultVars

\* A mint that the minimum ratio allows cannot be liquidated at once.
MintedIsSafe ==
    [][\A v \in Vaults : debt'[v] > debt[v] => (AboveLiquidationRatio(v))']_vaultVars

\* A refused mint books nothing.
RefusedMintFree == [][booked' # booked => debt' # debt]_vaultVars

\* The pool holds what it can give back: deposits less the debts it absorbed.
BalanceWithinDeposits == twoWayBalance <= totalDeposits

\* The sum of debts is exact.
TotalDebtExact == totalDebt = SumFunctionOnSet(debt, Vaults)

\* The rewards in the buckets cover the fees that can still be claimed.
FeesCovered == SumFunctionOnSet(lpFee, Users) <= totalRewards
==============================================================================
