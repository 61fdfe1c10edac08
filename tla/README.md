# WayChain: specifications, model checks and proofs

WayChain is a proof-of-stake chain in Go. A node (`src/consensus`) produces a
block per second from a transaction pool, executes transfers and *precompiles*
(Go functions at fixed addresses that implement the economy: staking,
governance, locks, stablecoins, swaps, tasks, mineral rights, ...), stores its
state in a bolt database, gossips with its peers over TCP and answers Ethereum
JSON-RPC and websocket subscriptions. An explorer (`src/explorer`) replays
the node's blocks into SQLite. This directory models the parts that carry the
program's own logic. `PROJECT.json` lists the components, the runs, the source
lines behind every definition, the hazards and the theorems.

How to run: `tlc -config MCChain_core.cfg MCChain` checks a run, `tlapm
ChainProofs.tla` checks a proof module, both in this directory.

## 1. Inventory

| Component (source) | State | Operations | Interacts with | What is hard | What makes it correct |
|---|---|---|---|---|---|
| Node: chain, pool, store (`chain.go`, `cli.go`, `serialize.go`) | accounts, pool lanes, `Height`, `Blocks`; bolt buckets | `Pool.Add`, `PopConsensus`, `ProduceBlock`, `Sync`, `SyncTxs`, `OpenStore` | RPC handlers add to the pool and change accounts; precompiles run inside `ProduceBlock` | ticker loop takes no lock; crash between two bolt transactions; failed writes | no replay, bounded overdraft, durable effects, lookups right and permanent, pool drains |
| JSON-RPC (`rpc.go`) | `rpc.mu` | `eth_sendRawTransaction`, `way_fundGenesis`, `way_deployCode`, lookups | pool, accounts, store | checks against a state that is stale at execution; one handler without the lock | as above |
| Consensus round (`consensus_round.go`, `consensus.go`) | `CurrentRound`, votes, power, `CurrentHeight`, finalized blocks | propose, prevote, precommit, commit, timeout | chain produces the proposed block; peers send votes | goroutines per vote and timer; late, repeated, stale and unauthenticated votes; a height read without a lock | finality, a quorum of precommits behind every block |
| Progressive staking (`progressive_staking.go`, `evm/inflation.go`) | stakes, accumulated rewards, carry, epoch counter | register, remove, claim, reward of a block, rollover | called by `ProduceBlock`; rate set by governance | sub-token rounding, cap of the epoch, rate changes in mid-epoch | emission neither lost nor exceeded, anti-whale |
| Governance 0x1D (`evm/governance.go`) | proposals, counts, vote records, credits, rate | create, vote, finalize | sets the inflation rate | errors keep writes; ids collide in a block; rounding of percentages | counts backed by voters, thresholds, decisions final |
| Trustless lock 0x1A (`evm/trustless_lock.go`) | locks, vesting records | create (three kinds), release, extend | swap route creates locks | overwritten ids, 64-bit wrap, one byte with three meanings | not released before the promised block; releasable in the end |
| Task registry 0x23 (`evm/task_registry.go`) | claims, bounties, community tasks, escrows, quest counters | claim, verify, fund, bounty and fix, escrow, giveaway | treasury 0x03, pool 0x02, supply counter | partial payments, shared escrow balance, one slot for all tasks | payout cap, conservation of WAY, who is paid |
| Mineral rights 0x20 (`evm/mineral_rights.go`) | claims, attestations, tokens | register, verify, approve, issue, check, transfer | badges; economic loop | status decided from records of earlier calls; one-byte counter | attestations of two badged accounts, quorum of a tier, tokens minted once, life cycle |
| Explorer indexer (`explorer/indexer`, `client`, `store`) | SQLite rows, replay and tail positions | initial replay, ticker, tail of `newHeads`, save | the node's RPC and websocket | two goroutines save the same blocks; both sides restart; lost connection | rows right and final, no gap, head followed |
| Validator set (`validators.go`) | active and jailed validators | register, jail, remove, proposer lottery | consensus round | repeated jailing, empty set | |
| P2P (`p2p.go`, `p2p_daemon.go`, `node.go`) | listener, peer table, connections, `Incoming`, seed flag | connect, accept, register, read, broadcast, heartbeat, alert, stop | node and daemon start it; only node.go reads `Incoming` | a reader per connection, a goroutine per write, entries deleted by id, connections lost at any moment | every table entry has its reader, the alert is sent once and heard, losses are noticed |
| Subscriptions (`rpc_ws.go`, `handleWS` of `rpc.go`) | registry (`subs`, `connSubs`), a handler per connection | subscribe, unsubscribe, clean up, broadcast | the block loop broadcasts; the explorer's tail receives | writes outside the lock and without a deadline; three ways to remove an entry | no channel closed twice, nothing leaks, no head missed, who can stop the block loop |
| SWAY token 0x24, swap route 0x25 (`evm/sway_token.go`, `evm/swap_route.go`) | emission buckets, supply, balances, pairs, liquidity | mint, burn, add liquidity, swap | creates locks in 0x1A; 0x18 and 0x23 mint | two ignored errors in one call, counters that must agree, two slots for a balance | SWAY conserved, liquidity locked |
| 2WAY vault 0x18, stability pool 0x19 (`evm/two_way.go`, `evm/stability_pool.go`) | collateral, debts, prices; deposits, rewards, exclusivity | deposit, mint, withdraw, burn, liquidate; deposit, withdraw, claim, absorb | each reads and writes the other's storage | writes before a refusal, signs dropped, saturating subtraction | nobody lends and borrows, totals bounded, the pool's books |
| Rate limiter (`rate_limit.go`) | buckets | allow | HTTP server | rounding of refills | |
| Account manager 0x1B, cross-chain attestation 0x1F, badges, dead man's switch, Bitcoin registry, storage endowment, recovery | slots of each precompile | see the files | badge levels are read by other precompiles | encodings in shared bytes, block arithmetic, order of calls | |
| 1WAY 0x22, state rent, scheduler, faucet, economic loop | slots of each precompile | see the files | treasury, statistics | repeated minting, wrap of block differences | |

The last column is empty for components without a module; their hazards are in
`PROJECT.json` with the line at which each bites.

## 2. Modules and how they correspond to the code

Every component has a specification `M`, an `MCM` module with the constants for
TLC, `MCM_<run>.cfg` files and `MProofs` for its theorems; those of TaskRegistry,
TwoWay, SwapRoute with TrustlessLock, and Staking, which all speak of sums and
share lemmas, are together in `LedgerProofs`. The faulty
variants of definitions against which the properties are tried stand in `M`,
each before the definition it varies. Three modules are built from others:
`SwapRoute` EXTENDS `TrustlessLock` and composes with it, and `Chain` and `P2P`
have `TxLedger` and `SeedAlarm` as their abstract specifications. Otherwise components meet through
constants (badge levels, the active set, the rate) or through environment
actions (`Produce` in Indexer, `Restart` in Governance), which keeps each state
space small.

### Chain and TxLedger
*State.* `acct` is `c.State` (nonce, balance, deploy level), `pool`, `height`
and `blocks` the fields of the chain; `dAcct`, `dHeight`, `dBlock`, `dIndex`
and `dTxs` are the bolt buckets, which survive `Crash`. Local variables of the
goroutines are variables too: `adding` and `addSnap` (a slice header `Add` has
read), `popSnap`, `batch`, `executed`, `indexed`, and `pc` of the ticker loop.

*Actors.* The ticker loop (`Loop`) takes no lock and is cut where another actor
can be seen: read and write of the slice header, one step per executed
transaction, the sealing of the block, the two bolt transactions of `Sync`
(all accounts, then the block), and `SyncTxs`, which writes the index of one
transaction after the other and then the block's transactions. Handlers run under
`rpc.mu`, so at most one is inside; `PoolAdd` is the second half of
`SendRawTransaction`. `DeployCode` takes no lock. `FundGenesis` saves all
accounts in the middle of whatever the loop does; its amount may be negative, and
the history variable `drained` adds up what such calls took. `Stop` is a crash or the
shutdown path, whose `LastSync` saves once more, and `OpenStore` reloads the
last `ReloadBlocks` heights without their bodies. `SyncError` is a failed bolt
transaction of `Sync`, `SyncTxsError` one of `SyncTxs`; the loop only logs either.

*Data.* A transaction is a record of a sender, nonce, gas, value and a kind that
selects the branch of `EVM.Execute` (transfer, precompile, bytecode, failing);
gas products are taken modulo `Word`. A precompile is modelled by what it may do to
balances (`PrecompileStates`): nothing, spend what the caller holds (`escrowTask`),
pay from a reserve (tasks, fixes, giveaway, faucet), seed genesis balances again
(the founder's drip, `SeedAllGenesis`), or credit without a payer (`questFund`, unbacked
`verifyCommunity`). Its error returns all come before its first change of a balance,
so a failed one leaves them alone. `ExecuteDueTasks` in `ProduceBlock` pays nothing:
`chain.go:546` gives it a scheduler that `NewTimeExecution` has just made empty
(`oracle_scheduler.go:44-49`), and precompile 0x0D schedules on another one
(`precompiles.go:310`). `Alias` is the account under which the
revm bridge stores the caller of a 32-byte key.

`TxLedger` is what a client is promised: one variable, `settled`, a set of
transactions that only grows and uses no nonce of a sender twice. The refinement
maps it to `Settled`, the transactions that `LoadTxFromStore` returns for their own
hash from the index and the transaction bucket. Pool, blocks, accounts, crashes
and reloads are stutters; a block settles when the last write of `SyncTxs` is done.

### ConsensusRound
One validator among peers. `round` is `CurrentRound`, `timer` the
`time.AfterFunc` of each round, `current` and `finalized` the engine. The
one-second loop is cut into `RunBlockRound` (read `CurrentHeight` without a
lock into `target`), `ProposeBlock` (produce the block and publish the round),
`StartTimer` and `Prevote`; `IdleTick` is the tick of a node that is not the
proposer. Votes and timeouts run under `consensusMu` and are atomic. `precommit`
takes that lock twice: `Precommit` records the vote, `PrecommitCheck` checks the commit
later, on whatever round is then current (`checks` counts the calls in between). Votes come
in any order, at any time, repeatedly, and under any of `Names`: `handleVote` does not
ask whether a name is an active validator's. There is no clock: a timer
fires whenever it is armed. `heard` counts the precommits delivered for each height; it
bounds a run and is what `QuorumHeard` compares with the threshold.

### Staking
`ProduceBlock` is the reward part of `Chain.ProduceBlock`: rollover of the
epoch, the emission of the block at the current `rate`, the cap, the carry
`accrued`, the split by progressive brackets, the treasury's share and the
supply counter. Tokens are integers; the carry is exact because fractions are
counted in units of 1/1314 token, the denominator that the run's constants
produce. The code keeps emission and carry as float64. In double precision, at each of
the rates 3 to 9 and over the first million blocks, its carry stays within 10^-10 of a token
of the exact one: at rates 4 and 8 a token is paid one block late in some of the blocks
where the exact carry is a whole number, otherwise the payments are the same. The properties
hold of the code up to that rounding. `AccrueEcono` and `ApplyEconoPolicy` at the rollover are left out.

### Governance
One action per function. `Vote` keeps the code's order (record, count, then
credits), because an error of a precompile undoes nothing (`interpreter.go:95`).
A proposal's id is its proposer, title and block, so creating it again in the
same block overwrites it. `Restart` resets the rate held in memory. Not
modelled: prediction markets (368-424), the curator functions (510-634, called
by tests only), panics on malformed calldata lengths and on credits of 2^248
and more.

### TrustlessLock
`lock` and `vesting` by id, where an id is made of the terms and the block and
not of the creator, as in the code. 64-bit words are modelled by `Word`
(2^16 in the run), and the type byte is shared by time locks, released locks
and empty slots. `earliest` and `latest` are history variables: what the
creating or extending call promised. Nothing bounds the 256-bit inputs: a creation or
extension whose sum of block numbers does not fit `Word` promises nothing, and `earliest`
is then 0.

The run and its properties are those of SwapRoute, whose `LockStep` is every
action of this module.

### SwapRoute
The SWAY token and the route in one module, because adding liquidity changes
both and creates a lock: `AddLiquidity` is the route's total, the reward (whose
refusal is ignored) and `CreateTimeLock` of TrustlessLock (whose refusal is
ignored too). A lock of liquidity is identified by amount and block only, so two
additions of one amount in a block share one; `provided` is a history variable
that counts the liquidity put under each id. The route passes the caller's name unpadded
as the lock's recipient, so that the lock refuses a name of fewer than 20 bytes
(`ShortNamed`, `LockAccepts`); the history variable `bare` counts that liquidity. `swayBal` is the slot that mints and burns
use, `shown` the one that `getBalance` reads and `swapFee` writes. Swaps are
priced against the default reserves because no code stores others. Accounts
that are named by a public key cannot be the target of calls that take an
address. `SwayBurnFromFees` has no caller and is left out, as are the emission
projections, which only read.

### TwoWay
The vault and the pool share storage and are one module. Every call is an
action and every input may come from anybody: `chain.go:458` accepts unsigned
transactions with any sender, and the vault's operations do not look at the
caller. Writes before a refusal stay, hence the two branches of `Mint`.
`WriteSlot` is the slot encoding, which keeps the magnitude of a number only; numbers
of 2^256 and more, at which `writeSlot` panics, do not occur in the model.
`Prefix` is what `collateralKey` keeps of a vault's id; in the run no two vaults
share it. The coin parameters (`Coins`) are constants because nothing but
the tests writes them, and `SetPrice` is an action although the function has
no selector: without it the liquidation ratio would be a constant.
`booked` and `claimed` are history variables.

### P2P and SeedAlarm
An address is the node that listens there. A connection has two ends;
`phase[e]` is where the goroutine that owns an end stands (accepted but not
registered, reading, relaying an alert, ending, done), `wire[e]` what has
been written at it and not been read, `pending` the goroutines that `Broadcast`
has started and that have not written. `Connect`, `Accept`, `Register`,
`ReadError` and `Forget` are cut where `peerLock` is taken, so that a
peer may register between the close of an old connection and the deletion of its
entry. The heartbeat's write succeeds or fails on an end that was reset from
the other side (`Failing`). Faults are failed dials, broken connections and
stopped nodes. There is no clock: a heartbeat may come at any time.
`SeedAlarm` is what the alert promises, with no network in it: one variable, `alarm`; the
refinement maps `alarm` to itself, the watchers to the nodes with configured
seeds and the links to the peer lists. Left out: the callbacks, which nothing
installs, `sendMsg`, which nothing calls, the handshake's height, which nothing
reads, and the demonstration at the end of `p2p.go`.

### Subscriptions
Handlers of connections, their clients and the block loop. The registry's three
operations are critical sections of `sm.mu`; the broadcast copies the
subscriptions under the lock (`batch`) and writes outside it, one
subscription after another (`writing`), while handlers and clients go on. A write
returns when the client reads, or with an error when the connection is broken;
its context has no deadline. `closed` counts the closings of each `done` channel.
`BroadcastPendingTx` has no caller and is left out.

### Indexer
`Replays` is `replay` in `Run` and in the 15-second ticker, `Tails` the
goroutine that receives `newHeads`; each is cut at its remote calls and at
`SaveBlock`. The genesis block has height 1, so `Blocks[i].Height` is `i + 1`,
and `eth_blockNumber` is `len(Blocks)`. A node restart drops all but the last
`ReloadBlocks` blocks. A failed call in the initial replay ends `Run` (`phase =
"dead"`), and a lost websocket never closes the tail's channel. The SQLite
tables are `rows`, `txAt`, `logs`. Not modelled: the assignment of the notifier
in `main.go` 34-45 while the indexer runs, the unsynchronised request counter
(`client/rpc.go:58`), and the API hub.

### TaskRegistry
Every function of the registry is an action of `Quest`, `Bounty` or
`Community`; `View` stands for reads and refused calls. Amounts are
small; `Shift` stands for the factor 2^(8k) by which a left-aligned amount is
read back. It over-approximates: any value larger than every balance behaves
alike. `moved` and `made` are history variables. Account 0x02 is assumed to
exist.

### MineralRights
One action per function; a claim's id is its registrant, deed and block. Names
are cut to 32 bytes as the code cuts them (`t` is the stored form of the long keys
`p` and `v`). The roles are decided by a scan of every word of the account, the deed,
owner and transferee words of callers included; `ReadsAs` says which of them have the bytes
of a record, and in the run the name `f` reads as a lawyer's. The counter of verifiers is a byte, ounces a word of `Word`
values. GPS hash, spot price and logs are left out, and the statuses Frozen and
Cancelled, which no code sets.

## 3. Runs

| Run | Instance | What it shows |
|---|---|---|
| `chain_core` | accounts with a 32-byte and a 20-byte key and an alias; 4 transactions that cover every branch of `Execute`, two with one nonce; 2 per block; 3 submits, 1 stop, 1 funding, 1 deployCode, height 3 | `NoReplay`, `EffectsDurable`: the stored history never holds a nonce twice nor a transaction without its effect. `IndexSound`, `SettledFindable`: a lookup by hash is right, and complete between blocks. `ImplementsTxLedger`, the refinement: what is settled stays so and nonces are used once. With `IndexSound` it implies `LookupStable`, that an answer never changes |
| `chain_overdraft` | a transfer with a limit below its charge, a precompile call that may spend 12, all the sender has, a call that revm charges too, a second transaction of the same sender, a funding of -2; bolt writes fail; height 3, 2 submits | `OneOverdraft`: a balance falls at most one transaction's cost below 0, because an account that owes is not let through again. Under fairness `PoolDrains`: the consensus lane is empty again and again, the race of `Add` and a restart included |
| `round_rounds` | 3 active validators with threshold 2, 4 names, 3 proposals, up to 4 precommits per height, repeated and at any time, own precommits in two steps | `QuorumHeard`: no block is final before a threshold of precommits was delivered for the height of its round. `FinalityIrrevocable`: rounds are reopened and committed again at heights that are final, yet no finalized block is replaced and the height never falls |
| `staking_rewards` | 2 validators, stakes 99, 1000 and 500000, rates 1 and 9, epochs of 4 blocks, height 12, 4 changes | `NoEmissionLost`, `AntiWhale`, `EpochCapped` |
| `governance_votes` | 2 callers, direct, quadratic and inflation proposals, rates 200 and 500, 2 blocks, 2 proposals, 2 votes | `YesBacked`, `ThresholdMet`, `InflationByVote` |
| `indexer_index` | 4 blocks, 2 reloaded, 1 node restart, 1 explorer restart, 1 failed call | `RowAndTxAgree` (a transaction is filed where its block's row is, and a block has one row), `RowsAreFinal`, `ReplayLeavesNoGap`, and, under fairness, `HeadFollows` |
| `tasks_payouts` | 5 calls by a user, a verifier and the founder on 2 tasks and a bounty; supply 79, cap 5%, `Shift` 3 | `CapKept`, `WayConserved` |
| `mineral_claims` | 4 accounts, one without a badge; a transferee whose name reads as a lawyer's record; roles 0-2, tiers 0, 1, 3; 1 claim, 3 attestations, 2 blocks | `TwoAttested` (two badged accounts have attested whatever passes for owned, one approving), `TierQuorum`, `TokensBacked` |
| `p2p_gossip` | 2 nodes, a peer list that names one address twice, 2 connections, `Incoming` of 1, 1 item gossiped over both connections and read by the main loop now and then, 1 fault | `PeersServed`; `ImplementsSeedAlarm`, the refinement; under fairness `AlarmHeard` and `LossNoticed` |
| `ws_heads` | 2 connections, 2 subscriptions, 3 blocks, 1 stalling client | `DoneClosedOnce`, `NoLeak`, `HeadsConsecutive`, and under fairness `LoopWaitsForClientsOnly` |
| `twoway_vaults` | 2 users, 2 vaults, 2 coins with different fees, one of which rounds to 0, 7 calls | `Exclusive`, `TotalDebtBound`, `PoolBooks` |
| `swap_liquidity` | 2 users, one with a name under 20 bytes, buckets that run out, 3 calls of the route or token, composed with 2 locks, 1 extension, which may wrap, 1 release and a vesting schedule, 4 blocks | `SwayConserved`, `LiquidityLocked` (of the names that the lock accepts), and of the lock `NotBeforeEarliest` (no release before the earliest block promised for that id) and, under fairness, `UnlocksInTime` |

The type invariants are not runs of their own: they are theorems, or, for Staking
and SwapRoute, the parts of an inductive invariant that their proofs need.

**Why the bounds suffice.** The interesting cases need few objects and several
actors. Chain: one pop against one add, one block whose saving is interrupted
and one produced after the restart, hence three heights and one stop; two
transactions with one nonce are the smallest replay. The reload of one block,
instead of five, makes the loss of bodies happen within the bound. Two
submits let one transaction overdraw an account and another follow. Rounds:
three validators have a threshold of two; four precommits at a height let
two proposals there both be committed, and three proposals allow a
replaced and a reopened round. Staking: three epochs with a change in either of the
first two reach a rollover with a carry from a capped epoch; the stakes lie
below, at and above the brackets' edges that matter. Governance: two callers can
disagree, and two blocks tell a new id from a colliding one. Indexer: four blocks
with a restart that leaves two reach a head below the store's. Tasks: the
longest chain of dependent calls (publish, escrow, verify for one task, then
verify another) has four. Mineral rights: the strictest tier used needs three
attestations. P2P: two dials of one address reach the entry that is registered
over another and deleted by the older connection's reader; a queue of one is full
after one message. Subscriptions: two connections can cancel each other's
subscriptions while the third block is broadcast. 2WAY: seven calls reach a deposit, a
mint, a refused mint, an oversized burn and a claim by two users. Swap route:
the `dexLP` bucket holds one reward, so that the second is refused; two
additions share a lock.

**Heights and counters** are capped in the guards by the `Max...` constants;
at the cap Chain and Staking stutter in `AtBound`, so that deadlock is checked.
Governance, SwapRoute, TwoWay, P2P, Subscriptions and Indexer run with deadlock
checking off: once the blocks, calls, connections and faults of the instance are
used up, or the indexer's `Run` has ended, nothing more may happen. Symmetry is used for the peers of ConsensusRound, the
validators of Staking and the callers of Governance, which the modules never
tell apart, in runs of invariants and action properties only.

**Fairness.** `PoolDrains` assumes weak fairness of the loop, of the second half
of an `Add`, of the shutdown's last sync and of reopening the store: goroutines
that can run are scheduled by the Go runtime, and the service manager restarts
a node that stopped. Submissions, failures and crashes are not fair.
`HeadFollows` assumes weak fairness of replay and tail (the ticker of 15 seconds
and the receiving goroutine), not of the node or of the network, whose errors are
bounded. `UnlocksInTime` assumes only that blocks keep coming (weak fairness of
`NextBlock`, the chain's ticker); nobody has to call anything for a lock to
become releasable. `AlarmHeard` and `LossNoticed` assume weak fairness of each
reader goroutine and of the goroutines of `Broadcast`, not of heartbeats, dials,
gossip or the loop that drains `Incoming`. `LoopWaitsForClientsOnly` assumes weak fairness of the block loop and of
handlers that can write or whose read has failed; clients need not do anything.

## 4. Proofs

The theorems hold for every value of the constants that satisfies the modules'
named assumptions (`ChainAssumption`, `ConsensusAssumption`, ...: finite sets,
natural numbers and non-empty ranges). Additional hypotheses are stated in the
theorem.

- **ChainProofs.** `TypeCorrect`. `ReplaySafe`: if bolt writes succeed
  (`~SyncMayFail`) and no sender is another account's alias
  (`AliasesDoNotSend`), `[]NoReplay`. `NoReplay` alone is not inductive: a new
  block is safe only because every nonce already stored is below the account's
  nonce in memory *and* on disk. `ReplayInv` therefore says that memory is at
  least as far as the disk (`MemAhead`), that transactions executed and not yet
  stored are below the memory's nonce (`ExecutedSpent`), with distinct nonces
  (`ExecutedDistinct`) that differ from the stored ones (`ExecutedFresh`),
  and from the sync on below the disk's (`ExecutedSaved`), and that every stored
  transaction's nonce is below the stored account's (`EffectsDurable`).
  `EffectsAreDurable`, `IndexIsSound`, `SettledIsFindable`, `LookupIsStable` and the
  refinement `ImplementsLedger` have the same two hypotheses and rest on
  `StoreInv`, which relates the buckets to the loop's position: nothing is stored
  above the height the loop saves (`NothingAbove`), index entries of a block are
  written before its transactions and point at what will be there (`EntriesLead`,
  `Indexing`), the stored heights and the memory's agree (`HeightsInv`), and the
  transactions of blocks in memory are in the store or about to be
  (`BlocksSettled`). Every step of Chain but the last of `SyncTxs` leaves
  `Settled` alone; that one adds the executed transactions, whose nonces
  `ReplayInv` separates from all stored ones.
  `OverdrawnOnce`: `[]OneOverdraft`, also when bolt writes fail, from the lemmas that an
  admitted sender still holds 0 or more when the charge is taken, whatever `Execute` did, and that
  every other balance is 0 or more or at least some balance before (revm copies one to an
  alias); the disk never holds a negative one. Its hypothesis `CallersKept`, that no called
  account has its caller's key as alias, keeps the callee's result from replacing the caller's.
- **ConsensusRoundProofs.** `RoundTypeCorrect`; `QuorumHeightCorrect` and
  `FinalityCorrect` from `RecordInv`, which ties each finalized entry to its own
  height, at most the current one; without it a reopened round could record at a
  height below. `QuorumHeardCorrect`, for any names and repetitions, from `HeardInv`: the power
  counted in the current round never exceeds the precommits delivered for its height
  (`PowerHeard`), which only grow, so that a delayed commit check is covered too.
- **GovernanceProofs.** `GovernanceTypeCorrect`, `YesVotesBacked`,
  `PassedByMajority`, `InflationOnlyByVote`, `DecidedForever`. The threshold
  proof needs the arithmetic of the rounded percentage as a lemma, and that a
  decided proposal's counts do not move.
- **IndexerProofs.** `IndexerTypeCorrect`; `RowAndTxCorrect` (as long as the node
  does not restart, rows and filed transactions agree) from
  `OneLife`: the rows, and the blocks the two goroutines hold, are those the node
  serves for their numbers;
  `RowsFinal` for all behaviours; `ReplayIsGapless` from `Prefix`: until the tail has
  stored a block, the rows are those below the replay's position.
- **LedgerProofs.** It EXTENDS TaskRegistry, TwoWay, SwapRoute (with TrustlessLock)
  and Staking, whose names are therefore all different (`VaultSpec`, `SwapSpec`,
  `StakingSpec`); no theorem is about two of them.
  The sums are those of the community module `Functions`; the
  lemmas `SumEmpty`, `SumRemove`, `SumChanged`, `SumAdd`, `SumScaledBound` and their
  kin say how the sum of a function over any finite set follows its changes.
  They rest on an induction over finite sets that is carried out
  with the *set* of sizes at which the claim fails and its smallest member, since an
  operator cannot be passed to the induction theorems.
  - *TaskRegistry:* `TaskTypeCorrect` (no balance is overdrawn), `CapCorrect` (the
    lemma is that the cap is monotone in the supply), `BalancesConserved`.
  - *TwoWay:* `TwoWayTypeCorrect` (nothing is stored below 0),
    `MintersDoNotDeposit`, `DebtNotOverstated`, `PoolBooksBalance`. With the types,
    `Exclusive`, `TotalDebtBound` and `PoolBooks` are inductive as they stand.
  - *SwapRoute:* `SwayIsConserved`, with the type of the books added. `LiquidityIsLocked`,
    if the route asks for a period the lock accepts (`LPPeriod >= MinLockPeriod`, which
    the code's two constants satisfy: otherwise the ignored refusal would count
    unlocked liquidity of every name). `NotReleasedEarly` of the lock composed with the route,
    from `HeldSince`: the record and schedule stored under an id open no earlier than
    `earliest` says, for any periods, schedules and extensions; where a sum does not fit
    64 bits, `earliest` is 0, and section 5 shows such locks opening early.
  - *Staking:* `EmissionKept`, `EpochIsCapped` and `SmallerStakesEarnMore`, which is
    arithmetic: the marginal rate falls from bracket to bracket, for stakes of
    any size.
- **P2PProofs.** `P2PTypeCorrect`; `TablesServed`, for any peer lists, seeds and
  number of connections; and `AlarmRefines`, that P2P implements `SeedAlarm`:
  initial states map to initial states and every step to a step or a stutter. The refinement
  needs that an alert on a wire or in a goroutine was sent by the owner of
  its end (`SentInv`, which rests on `PeersServed` because `Broadcast` takes the
  ends from the table), that at most one reader of a node relays and only while the
  flag is raised (`RelayInv`), and that connections follow the peer lists
  (`DialsInv`).
- **SubscriptionsProofs.** `SubscriptionsTypeCorrect`, `MapsCorrect`,
  `ClosedOnce` and `NothingLeaks`. The last two rest on `MapsAgree`, that
  both maps name the same subscriptions: `CleanupConn` deletes what `connSubs`
  lists and closes those channels. `HeadsAreConsecutive` from `HeadsInv`: a
  live subscription that has received anything has received the last block, or the
  one before if it is still in the broadcast's copy (`UpToDate`).
- **MineralRightsProofs.** `MineralTypeCorrect`, `TwoAttestedCorrect`,
  `QuorumCorrect`, `TokensCorrect`, `LifeCycleCorrect` from one invariant whose
  key conjunct `CountInv` bounds the one-byte counter by the number of distinct
  attesters, so that a wrap can only delay an approval; `BadgeInv` says that every
  attester holds the badge.

Besides the type invariants, five theorems state properties that no run lists:
`QuorumHeightCorrect`, `DecidedForever`, `LifeCycleCorrect`, `MapsCorrect` and
`LookupIsStable`.

**Model-checked only.** Liveness (`PoolDrains`, `HeadFollows`, `UnlocksInTime`,
`AlarmHeard`, `LossNoticed`, `LoopWaitsForClientsOnly`) is out of the prover's
reach. Every safety property of a run has its theorem.

## 5. Further counterexamples

Disagreements between the code and what its comments, documents or tests say,
met while modelling. Each row is one property that restates such a line and that
TLC finds violated by what the code does. The instance is a configuration of its
own, or that of a passing run with the constants named and without its symmetry,
checking this property only.

| Instance | Property | What TLC shows |
|---|---|---|
| `MCChain_low_gas.cfg` | `Solvent` | `chain.go:529`: a transfer with a gas limit under 21000 is charged more than was checked, and the balance turns negative |
| `MCChain_low_gas.cfg` with `Txs <- PricedTxs` | `Solvent` | `task_registry.go:331`: `escrowTask` spends the balance that was checked, and the gas charge overdraws it |
| `MCChain_low_gas.cfg` with `FundAmounts <- MCFundAmounts`, `MaxSubmits = 0`, `MaxDeployCodes = 0` | `Solvent` | `rpc.go:367`: `way_fundGenesis` takes a negative amount |
| `MCChain_low_gas.cfg` with `Txs <- PricedTxs` | `NoMint` | `task_registry.go:399`: a reward is credited that nobody pays, likewise `questFund` at 183-190 |
| `MCChain_core.cfg` with `MaxCrashes = 0`, `MaxDeployCodes = 0`, `MaxFunds = 0`, `MaxSubmits = 2`, `FairSpec`, `Txs <- OracleTxs` | `OtherLanesDrain` | `chain.go:448`: the oracle and private lanes have no consumer |
| `MCChain_sync_error.cfg` | `LookupStable` | `cli.go:254`: after a failed `Sync`, `SyncTxs` still writes index and transactions of a height that is produced again |
| `MCChain_sync_error.cfg` | `SettledFindable` | `cli.go:258`: after a failed `SyncTxs` a block's transactions cannot be looked up, and nothing writes them later |
| `MCChain_core.cfg` with `Txs <- PricedTxs` | `BlockNumberIsHeight` | `rpc.go:160`: `eth_blockNumber` is `len(Blocks)`, at most 5 after a restart |
| `MCChain_alias.cfg` | `NoReplay` | `evm/revm_bridge.go:158`: a call stores the caller's nonce over that of another account, whose nonces are used again |
| `MCChain_alias.cfg` | `NoMint` | `evm/revm_bridge.go:161`: a 32-byte caller's remaining balance is also stored under its alias |
| `MCChain_lost_tx.cfg` | `NoTxLost` | `chain.go:97`: the pop writes back a slice header older than an `Add`, and the accepted transaction is gone |
| `MCConsensusRound_stale_votes.cfg` | `VotesForBlock` | `consensus_round.go:218`: precommits for a replaced proposal finalize its successor |
| `MCConsensusRound_duplicate.cfg` | `DistinctQuorum` | `consensus_round.go:229`: a repeated precommit is counted again, and one under a name that is no active validator's is counted too |
| `MCConsensusRound_rounds.cfg` with `ActiveSet <- Four`, `MaxProposals = 2` | `TwoThirds` | `consensus_round.go:240`: 2 of 4 validators finalize |
| `MCConsensusRound_rounds.cfg` | `RoundIsNext` | `consensus_round.go:84`: a round is opened at a height that has become final |
| `MCConsensusRound_rounds.cfg` with `MaxProposals = 2` | `CommitNotTimedOut` | `consensus_round.go:266`: a timer turns a committed round into a timed-out one |
| `MCConsensusRound_faulty_proposer.cfg` | `ProposerSkipped` | `consensus_round.go:93`: a silent proposer is waited for without a timeout |
| `MCStaking_rewards.cfg` with `LastChange = 1`, `MaxChanges = 1`, `MaxBlocks = 2`, `Rates = {}`, `StakeSizes = {1000, 1012}` | `BracketsAsDocumented` | `progressive_staking.go:170`: brackets are shifted by one token |
| `MCStaking_rewards.cfg` with `EpochLength = 10000`, `LastChange = 0`, `MaxChanges = 2`, `MaxBlocks = 300`, `Rates = {}`, `StakeSizes = {1000, 500000}` | `ProportionalShare` | `progressive_staking.go:284`: a small validator is never paid |
| `MCStaking_rewards.cfg` with `EpochLength = 10000`, `LastChange = 0`, `MaxChanges = 2`, `MaxBlocks = 100`, `Rates = {}`, `StakeSizes = {1000}` | `TreasuryFunded` | `progressive_staking.go:124`: 15% of a block's few tokens is rounded to 0 |
| `MCStaking_rewards.cfg` with `EpochLength = 12`, `LastChange = 0`, `MaxChanges = 7`, `MaxBlocks = 24`, `Rates = {}`, `StakeSizes = {1000}`, `Validators <- Seven` | `TreasuryWithinCap` | `chain.go:607`: the treasury's share comes on top of the cap |
| `MCStaking_rewards.cfg` with `EpochLength = 10000`, `LastChange = 0`, `MaxChanges = 7`, `MaxBlocks = 24`, `Rates = {}`, `StakeSizes = {1000}`, `Validators <- Seven` | `SupplyCountsMint` | `chain.go:615`: the supply counter leaves it out |
| `MCGovernance_unpaid.cfg` | `FailedVoteNotCounted` | `governance.go:211`: a vote without credits fails and is counted |
| `MCGovernance_double_no.cfg` | `OneVoteEach` | `governance.go:178`: a free no vote leaves an empty record and is repeated |
| `MCGovernance_votes.cfg` with `Kinds = {"direct", "quadratic", "futarchy", "inflation"}`, `MaxProposals = 1` | `OnlyGovernanceSetsRate` | `progressive_staking.go:96`: a restart returns to the default rate |
| `MCGovernance_votes.cfg` with `Kinds = {"direct", "quadratic", "futarchy", "inflation"}`, `MaxHeight = 0`, `MaxProposals = 1` | `InflationThreshold` | `governance.go:319`: inflation proposals have threshold 0 |
| `MCGovernance_votes.cfg` with `Callers = {a, b, c}`, `Kinds = {"futarchy"}`, `MaxHeight = 0`, `MaxProposals = 1`, `Rates = {500}` | `TwoThirdsPasses` | `governance.go:331`: two thirds is rounded to 66 and does not pass |
| `MCGovernance_votes.cfg` with `Kinds = {"direct", "quadratic", "futarchy", "inflation"}`, `MaxHeight = 0` | `PassedStays` | `governance.go:115`: a passed proposal is created again in its block |
| `MCGovernance_votes.cfg` with `Kinds = {"direct", "quadratic", "futarchy", "inflation"}`, `MaxHeight = 0`, `MaxProposals = 1` | `DescriptionKept` | `governance.go:467`: `append` overwrites the description in the input |
| `MCTrustlessLock_replaced.cfg` | `PromiseKept` | `trustless_lock.go:434`: a lock is replaced by a shorter one with the same id |
| `MCTrustlessLock_replaced.cfg` with `MaxLocks = 1`, `Periods <- WrappingPeriods` | `MinPeriodKept` | `trustless_lock.go:97`: a period of 2^64 locks nothing |
| `MCTrustlessLock_replaced.cfg` with `MaxLocks = 1`, `Additions <- WrappingAdditions` | `ExtendsLater` | `trustless_lock.go:336`: an extension wraps to an earlier block |
| `MCTrustlessLock_replaced.cfg` with `MaxLocks = 1`, `MaxReleases = 2` | `ReleasedOnce` | `trustless_lock.go:300`: a released lock is a time lock again |
| `MCTrustlessLock_replaced.cfg` with `MaxLocks = 1`, `Periods = {}`, `Schedules <- EarlyCliff` | `NotBeforeStart` | `trustless_lock.go:261`: a cliff before the start makes the elapsed time wrap |
| `MCTrustlessLock_replaced.cfg` with `MaxLocks = 1`, `Periods = {}`, `Schedules <- MCSchedules` | `VestingGrows` | `trustless_lock.go:264`: the vested amount falls to 1 at the end |
| `MCIndexer_index.cfg` with `MaxRestarts = 0`, `MaxCrashes = 0`, `MaxErrors = 0` | `GapsBackfilled` | `indexer.go:66`: a gap below a row of the tail is never filled |
| `MCIndexer_index.cfg` with `MaxCrashes = 0`, `MaxErrors = 0`, `MaxHeight = 3`, `MaxRestarts = 0`, `Spec` | `LogsOnce` | `indexer.go:93`: replay and tail store the logs of a block twice |
| `MCIndexer_index.cfg` with `MaxCrashes = 0`, `MaxErrors = 0`, `MaxHeight = 3`, `MaxRestarts = 0`, `Spec` | `RowIsItsBlock` | `indexer.go:122`: block n + 1 is filed under n |
| `MCIndexer_index.cfg` with `Spec` | `TxOnItsPage` | `chain.go:328`: after a restart the node serves other blocks under known numbers; their transactions are filed on the pages of stored blocks |
| `MCTaskRegistry_payouts.cfg` with `Addrs = {"founder"}`, `GenesisBal <- RichGenesisBal`, `GenesisSupply = 200`, `MaxCalls = 4` | `EachTaskOnce` | `task_registry.go:576`: a task is paid as often as it is verified |
| `MCTaskRegistry_escrow.cfg` | `EscrowCovered` | `task_registry.go:388`: one task is paid from another's escrow |
| `MCTaskRegistry_payouts.cfg` with `Amounts = {1, 4}`, `MaxCalls = 3` | `PayoutsBacked` | `task_registry.go:399`: the claimant is credited although the payer is not debited |
| `MCMineralRights_claims.cfg` with `MaxClaims = 2`, `RawOunces = {3}` | `DeedOnce` | `mineral_rights.go:156`: a deed is registered again in the next block |
| `MCMineralRights_claims.cfg` | `OwnershipAttested` | `mineral_rights.go:792`: an owner or transferee word with the bytes of a role record stands in for the lawyer |
| `MCMineralRights_rejected.cfg` | `OwnershipApproved` | `mineral_rights.go:798`: a rejecting record supplies its role |
| `MCMineralRights_claims.cfg` with `RawOunces = {3}` | `ValueExact` | `mineral_rights.go:400`: the issuance value wraps |
| `MCMineralRights_claims.cfg` with `RawOunces = {3}` | `VerifiedWeighs` | `mineral_rights.go:274`: a verified claim has weight 0 |
| `MCMineralRights_claims.cfg` with `RawOunces = {3}` | `CheckedInPast` | `mineral_rights.go:530`: the monitoring block is any number the caller sends |
| `MCP2P_gossip.cfg` | `ConnectedListed` | `p2p.go:215`: the reader of an older connection deletes the entry of the newer one, which goes on outside the table |
| `MCP2P_gossip.cfg` | `AlarmJustified` | `p2p.go:297`: the table is looked up by the bare address, its keys are `peer@addr`; the alert is raised while the seed is connected |
| `MCTwoWay_vaults.cfg` | `VaultsCovered` | `two_way.go:147`: a deposit replaces the collateral, also by less |
| `MCTwoWay_vaults.cfg` with `Prefix <- Shared` | `BackedOnce` | `two_way.go:406`: vaults whose ids agree in 20 bytes share collateral, and each mints on it |
| `MCTwoWay_vaults.cfg` | `RefusedMintFree` | `two_way.go:217`: a mint is refused after its fee was booked |
| `MCTwoWay_vaults.cfg` | `MintedIsSafe` | `two_way.go:573`: a mint at 130% can be liquidated at once, below 140% |
| `MCTwoWay_vaults.cfg` | `TotalDebtExact` | `two_way.go:594`: burning more than a vault owes takes the rest from the total |
| `MCTwoWay_vaults.cfg` | `BalanceWithinDeposits` | `stability_pool.go:137`: a withdrawal above the balance is stored without its sign |
| `MCTwoWay_vaults.cfg` | `FeesCovered` | `stability_pool.go:166`: the claim of one user empties the buckets for all |
| `MCTwoWay_vaults.cfg` | `OwingKeptOut` | `two_way.go:313`: mint on one vault, burn on an empty one, which clears the user's lock, then deposit in the pool while the first still owes |
| `MCSwapRoute_liquidity.cfg` | `AllLiquidityLocked` | `swap_route.go:200`: the lock refuses a caller's name of fewer than 20 bytes (`trustless_lock.go:72`), and the liquidity counts without one |
| `MCSwapRoute_liquidity.cfg` | `LockedForPeriod` | `swap_route.go:163`: another lock made in that block over the same amount has the same id, replaces the route's and opens earlier |
| `MCSwapRoute_liquidity.cfg` | `OwnLock` | two additions of one amount in a block have one lock |
| `MCSwapRoute_liquidity.cfg` | `CirculatingMinted` | `sway_token.go:105`: the supply counter starts at the whole initial supply, before anything is minted |
| `MCSwapRoute_liquidity.cfg` | `PairsCounted` | `swap_route.go:86`: a pair whose first token begins with a zero byte is created and counted again |
| `MCSwapRoute_liquidity.cfg` | `BalanceShown` | `sway_token.go:303`: `getBalance` reads another slot than mints and burns use |

Several passing runs are therefore stated under a hypothesis that the
counterexample next to them shows to be needed: `chain_core` without failing
writes and with no sender among the aliases, `indexer_index` (for `RowAndTxAgree` and
`ReplayLeavesNoGap`) until the node restarts, `twoway_vaults` with vault
ids that differ in their first 20 bytes.

## 6. Not modelled, and why

- Privacy, hash, curve and signature precompiles: cryptography without state.
- EVM opcodes, the revm bridge's bytecode semantics and the Rust FFI: a
  third-party interpreter; Chain keeps a call's effect on nonce and balances.
- The oracle client and the demonstrations in `main.go`: input/output and
  scripts.
- The explorer's HTTP API: read-only queries.
- Web pages, wallets, mobile apps, Solidity contracts, scripts: no part of the
  node.
- The validator set, rate limiter, account manager, cross-chain attestation, the
  precompiles of `precompiles.go` (badges, dead man's switch, Bitcoin registry,
  storage endowment, oracle, recovery), 1WAY, state rent, scheduler, faucet and
  economic loop: within reach, each of them small and sequential; see the plan.
- Inside modelled components: code without a caller (`SwayBurnFromFees`,
  `BroadcastPendingTx`, `sendMsg`, the P2P callbacks, the curator functions of
  governance), prediction markets, `AccrueEcono` and `ApplyEconoPolicy`, snapshots
  and reverts of contract storage, and the read-only views of the RPC server.

## 7. Plan

1. *Network.* `ValidatorSet` with the proposer lottery, composed with
   ConsensusRound; Subscriptions as the environment of Indexer's tail.
2. *Accounts.* `AccountManager` (stages, guardians, freezing) with the badge
   levels that other modules take as constants.
3. *Attestation.* `CrossChainAttestation`, Bitcoin registry, dead man's switch,
   storage endowment, badges.
4. *Small precompiles.* 1WAY stablecoin, state rent, faucet, rate limiter.
5. *Abstract specifications.* An append-only table implemented by Indexer; a
   register of promises implemented by TrustlessLock for sums that fit 64 bits.
