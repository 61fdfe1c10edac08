------------------------------- MODULE Chain -------------------------------
(***************************************************************************)
(* The daemon's core (consensus/chain.go, cli.go, rpc.go, store/store.go): *)
(* the transaction pool, admission by eth_sendRawTransaction, block        *)
(* production, the bolt store written by Sync and SyncTxs, crashes, the    *)
(* signal handler and the reload by OpenStore.                             *)
(*                                                                         *)
(* Three actors share the memory of the process: the ticker loop, which    *)
(* takes no lock; the RPC handlers, which exclude each other with rpc.mu   *)
(* but not the loop; and way_deployCode, which takes no lock at all.       *)
(* TxPool.Add and PopConsensus both read the slice header and write it     *)
(* back, so each is two steps here and an update may be lost between them. *)
(***************************************************************************)
EXTENDS Integers, Sequences, FiniteSets

CONSTANTS
    Accounts,      \* the addresses a run talks about
    Alias,         \* unpadHex(toEvmAddr(a)): the key revm's result is stored under
    Txs,           \* the transactions clients may submit
    GenesisBal,    \* Balance of each account once genesis is committed
    GenesisLevel,  \* DoxDevLevel of each account at genesis
    TransferGas,   \* 21000
    PrecompileGas, \* the fixed gas of the precompile that is called
    Word,          \* 2^64, the modulus of gas * gasPrice
    BlockTxs,      \* the 10 of PopConsensus(10)
    ReloadBlocks,  \* the 5 of LatestBlocks(5)
    Reserves,      \* the accounts precompiles pay from: 0x02, 0x03, 0x23, 0x27
    Registry,      \* 0x23, which of them holds the escrows
    Founder,       \* FounderAddress, whose faucet drip seeds genesis again
    Amounts,       \* the amounts precompile calls name
    FundAmounts,   \* the amounts way_fundGenesis is asked to add, negative ones too
    SyncMayFail,   \* whether a bolt write may return an error
    DevAccounts,   \* validator-1 and the dev key, funded by runNode whenever they hold 0
    DevFunding,    \* what they are given
    MaxHeight, MaxSubmits, MaxCrashes, MaxFunds, MaxDeployCodes, \* bounds of a run
    LastSubmit     \* bound: the height after which no client's submission is under way

Lanes == {"consensus", "oracle", "private"}
Kinds == {"transfer", "precompile", "call", "deploy"}

(* A transaction. kind is the branch EVM.Execute takes for To, the code    *)
(* stored there and the calldata; sig tells whether Signature is empty,    *)
(* verifies, or does not.                                                  *)
TxType == [from: Accounts, to: Accounts, nonce: Nat, value: Nat, gas: Nat, price: Nat,
           lane: Lanes, kind: Kinds, sig: {"none", "good", "bad"}]

(* TxHash covers neither the gas price nor the signature. *)
TxHash(tx) == [tx EXCEPT !.price = 0, !.sig = "none"]

Hashes == {TxHash(tx) : tx \in Txs}
Heights == 0..MaxHeight

AccountType == [nonce: Nat, bal: Int, level: Nat]
BlockType == [txs: Seq(Txs), hash: {"zero", "real"}]
StoredType == [kind: {"none", "block", "blank"}, prev: {"zero", "real"}]
NoEntry == [height |-> 0, pos |-> 0]

ASSUME ChainAssumption ==
    /\ Alias \in [Accounts -> Accounts]
    /\ Txs \subseteq TxType
    /\ \A tx \in Txs : tx.from # tx.to => Alias[tx.from] # Alias[tx.to]
    /\ GenesisBal \in [Accounts -> Nat]
    /\ GenesisLevel \in [Accounts -> Nat]
    /\ DevAccounts \subseteq Accounts
    /\ DevFunding \in Nat
    /\ IsFiniteSet(Accounts)
    /\ TransferGas \in Nat /\ PrecompileGas \in Nat
    /\ Registry \in Reserves /\ Reserves \subseteq Accounts
    /\ Amounts \subseteq Nat /\ FundAmounts \subseteq Int
    /\ Word \in Nat \ {0} /\ BlockTxs \in Nat \ {0} /\ ReloadBlocks \in Nat
    /\ MaxHeight \in Nat \ {0}
    /\ MaxSubmits \in Nat /\ MaxCrashes \in Nat /\ MaxFunds \in Nat /\ MaxDeployCodes \in Nat
    /\ LastSubmit \in Heights

ASSUME SyncAssumption == SyncMayFail \in BOOLEAN

VARIABLES
    acct,     \* c.State: nonce, balance and deploy level of each account
    pool,     \* c.Pool: the pending transactions of each lane
    height,   \* c.Height
    blocks,   \* c.Blocks
    adding,   \* the transaction inside Pool.Add, as a sequence of length 0 or 1
    addSnap,  \* the slice header Add has read
    pc,       \* where the ticker loop is
    popSnap,  \* the slice header PopConsensus has read
    batch,    \* the popped transactions still to execute
    executed, \* the transactions of the block that is being built
    indexed,  \* how many of them SyncTxs has indexed
    dAcct, dHeight, dBlock, dIndex, dTxs, \* the bolt buckets accounts, meta, blocks, tx_index, txs
    submits, crashes, funds, deploys,     \* how often the environment has acted
    drained   \* history: what way_fundGenesis has taken with negative amounts

mem == <<acct, pool, height, blocks>>
add == <<adding, addSnap>>
work == <<popSnap, batch, executed, indexed>>
disk == <<dAcct, dHeight, dBlock, dIndex, dTxs>>
env == <<submits, crashes, funds, deploys, drained>>
vars == <<mem, add, pc, work, disk, env>>

Phases == {"tick", "pop", "exec", "accounts", "block", "index", "broadcast",
           "lastAccounts", "lastBlock", "down"}

Least(m, n) == IF m < n THEN m ELSE n

(* runNode gives validator-1 and the dev account their balance and level *)
(* again at every start that finds them with a balance of 0.             *)
DevFunded(st) ==
    [a \in Accounts |-> IF a \in DevAccounts /\ st[a].bal = 0
                       THEN [nonce |-> st[a].nonce, bal |-> DevFunding, level |-> 3]
                       ELSE st[a]]

(* Mutant: the nonce is left out of the serialized account. *)
SerializedNoNonce(st) == [a \in Accounts |-> [st[a] EXCEPT !.nonce = 0]]

(* What serializeAccount keeps: Balance.Bytes() drops the sign. *)
Serialized(st) == [a \in Accounts |-> [st[a] EXCEPT !.bal = IF @ < 0 THEN -@ ELSE @]]

Genesis == [a \in Accounts |-> [nonce |-> 0, bal |-> GenesisBal[a], level |-> GenesisLevel[a]]]

(* The node after genesis: ProduceGenesisBlock has run, then               *)
(* Sync("genesis", 0, zero hash, zero hash), then the funding of runNode,  *)
(* which no Sync has saved yet.                                            *)
Init ==
    /\ acct = DevFunded(Genesis)
    /\ pool = [l \in Lanes |-> <<>>]
    /\ height = 1
    /\ blocks = <<[txs |-> <<>>, hash |-> "real"]>>
    /\ adding = <<>> /\ addSnap = <<>>
    /\ pc = "tick"
    /\ popSnap = <<>> /\ batch = <<>> /\ executed = <<>> /\ indexed = 0
    /\ dAcct = Genesis
    /\ dHeight = 1
    /\ dBlock = [h \in Heights |-> [kind |-> IF h = 1 THEN "blank" ELSE "none", prev |-> "zero"]]
    /\ dIndex = [x \in Hashes |-> NoEntry]
    /\ dTxs = [h \in Heights |-> <<>>]
    /\ submits = 0 /\ crashes = 0 /\ funds = 0 /\ deploys = 0 /\ drained = 0

-----------------------------------------------------------------------------
(* Admission. *)

GasPrice(tx) == IF tx.price = 0 THEN 1 ELSE tx.price

ExpectedGas(tx) ==
    IF tx.kind = "precompile" /\ PrecompileGas < tx.gas THEN PrecompileGas ELSE tx.gas

(* The balance a sender must hold: the product wraps like the uint64 it is. *)
TxCost(tx) == ((ExpectedGas(tx) * GasPrice(tx)) % Word) + tx.value

(* Mutant: no nonce check. *)
AdmissibleAnyNonce(tx) ==
    /\ tx.sig # "bad"
    /\ tx.kind = "deploy" => acct[tx.from].level >= 2
    /\ acct[tx.from].bal >= TxCost(tx)

(* The checks eth_sendRawTransaction and ProduceBlock make, each of them   *)
(* against the state at the moment it runs.                                *)
Admissible(tx) ==
    /\ tx.sig # "bad"
    /\ tx.nonce = acct[tx.from].nonce
    /\ tx.kind = "deploy" => acct[tx.from].level >= 2
    /\ acct[tx.from].bal >= TxCost(tx)

(* eth_sendRawTransaction up to the read of the lane's slice in Pool.Add. *)
SendRawTransaction(tx) ==
    /\ pc # "down" /\ adding = <<>> /\ submits < MaxSubmits /\ height <= LastSubmit
    /\ Admissible(tx)
    /\ adding' = <<tx>>
    /\ addSnap' = pool[tx.lane]
    /\ submits' = submits + 1
    /\ UNCHANGED <<mem, pc, work, disk, crashes, funds, deploys, drained>>

(* The write of the appended slice, and the unlock of rpc.mu. *)
PoolAdd ==
    /\ pc # "down" /\ adding # <<>>
    /\ pool' = [pool EXCEPT ![Head(adding).lane] = Append(addSnap, Head(adding))]
    /\ adding' = <<>> /\ addSnap' = <<>>
    /\ UNCHANGED <<acct, height, blocks, pc, work, disk, env>>

(* way_fundGenesis: under rpc.mu, and it saves whatever the state is now, *)
(* the half of a block that has been executed included. The amount is     *)
(* parsed as a big integer, which may have a sign.                        *)
FundGenesis(a, n) ==
    /\ pc # "down" /\ adding = <<>> /\ funds < MaxFunds
    /\ acct' = [acct EXCEPT ![a] = [nonce |-> @.nonce, bal |-> @.bal + n,
                                      level |-> IF @.level < 3 THEN 3 ELSE @.level]]
    /\ dAcct' = Serialized(acct')
    /\ funds' = funds + 1
    /\ drained' = IF n < 0 THEN drained - n ELSE drained
    /\ UNCHANGED <<pool, height, blocks, add, pc, work, dHeight, dBlock, dIndex, dTxs,
                   submits, crashes, deploys>>

(* way_deployCode: a template deployment takes a nonce outside any block. *)
DeployCode(a) ==
    /\ pc # "down" /\ deploys < MaxDeployCodes
    /\ acct' = [acct EXCEPT ![a].nonce = @ + 1]
    /\ deploys' = deploys + 1
    /\ UNCHANGED <<pool, height, blocks, add, pc, work, disk, submits, crashes, funds, drained>>

-----------------------------------------------------------------------------
(* ProduceBlock. *)

(* The tick: Height++ and the read of the consensus slice in PopConsensus. *)
BeginBlock ==
    /\ pc = "tick" /\ height < (IF adding = <<>> THEN MaxHeight ELSE LastSubmit)
    /\ height' = height + 1
    /\ popSnap' = pool["consensus"]
    /\ pc' = "pop"
    /\ UNCHANGED <<acct, pool, blocks, add, batch, executed, indexed, disk, env>>

(* Mutant: the popped transactions stay in the pool. *)
KeepAll(n) == popSnap

(* PopConsensus: what p.Consensus[count:] leaves. *)
RestOfLane(n) == SubSeq(popSnap, n + 1, Len(popSnap))

(* The write of the remaining slice: only the consensus lane is popped. *)
PopConsensus ==
    /\ pc = "pop"
    /\ LET n == Least(BlockTxs, Len(popSnap))
       IN /\ batch' = SubSeq(popSnap, 1, n)
          /\ pool' = IF n = 0 THEN pool
                     ELSE [pool EXCEPT !["consensus"] = RestOfLane(n)]
    /\ executed' = <<>> /\ popSnap' = <<>>
    /\ pc' = "exec"
    /\ UNCHANGED <<acct, height, blocks, add, indexed, disk, env>>

(* The accounts after a successful revm call that used gas g. revm charges *)
(* gas and value itself, at price 1, and its result is stored under the    *)
(* alias of each account it was given: the sender, and the target of a     *)
(* call. The nonce is skipped only where the alias is the caller's key.    *)
RevmState(tx, g) ==
    LET given == IF tx.kind = "deploy" THEN {tx.from} ELSE {tx.from, tx.to}
        post(x) == acct[x].bal - (IF x = tx.from THEN g + tx.value ELSE 0)
                               + (IF x = tx.to /\ tx.kind = "call" THEN tx.value ELSE 0)
    IN [b \in Accounts |->
          IF \E x \in given : Alias[x] = b
          THEN LET x == CHOOSE x \in given : Alias[x] = b
               IN [nonce |-> IF b = tx.from THEN acct[b].nonce
                             ELSE acct[x].nonce + (IF x = tx.from THEN 1 ELSE 0),
                   bal |-> post(x),
                   level |-> acct[b].level]
          ELSE acct[b]]

(* SeedAllGenesis: what genesis gave, to the accounts that hold nothing. *)
SeedAllGenesis(st) ==
    [x \in Accounts |->
       [nonce |-> st[x].nonce,
        bal |-> IF st[x].bal = 0 THEN GenesisBal[x] ELSE st[x].bal,
        level |-> IF st[x].level < GenesisLevel[x] THEN GenesisLevel[x] ELSE st[x].level]]

(* A payment that is made only if p can afford it. *)
Pay(st, p, x, n) ==
    IF st[p].bal >= n THEN [st EXCEPT ![p].bal = @ - n, ![x].bal = @ + n] ELSE st

(* The accounts a precompile may leave: as they were; after escrowTask,    *)
(* which spends what the caller holds at this moment; after a payment from *)
(* a reserve that can afford it (taskVerify, verifyFix, giveawayClaim,     *)
(* verifyCommunity, the faucet's drip, which seeds first for the founder); *)
(* or after a credit nobody pays (questFund, verifyCommunity when escrow   *)
(* and treasury hold too little).                                          *)
PrecompileStates(tx) ==
    LET starts == {acct} \cup {SeedAllGenesis(acct) : x \in {tx.from} \cap {Founder}}
    IN starts
       \cup {Pay(acct, tx.from, Registry, n) : n \in Amounts}
       \cup {Pay(st, p, x, n) : st \in starts, p \in Reserves, x \in Accounts, n \in Amounts}
       \cup {[acct EXCEPT ![x].bal = @ + n] : x \in Accounts, n \in Amounts}

(* What EVM.Execute may return: whether it succeeded, the gas it used and  *)
(* the accounts it leaves. A transfer to oneself credits nobody. Every     *)
(* error return of a precompile comes before its first change of a balance *)
(* (of its storage, which is not modelled here, it may come after).        *)
Execute(tx) ==
    CASE tx.kind = "transfer" ->
           {[err |-> "nil", gas |-> TransferGas,
             st |-> IF tx.from = tx.to THEN acct
                    ELSE [acct EXCEPT ![tx.to].bal = @ + tx.value]]}
      [] tx.kind = "precompile" ->
           {[err |-> "error", gas |-> 0, st |-> acct]} \cup
           {[err |-> "nil", gas |-> PrecompileGas, st |-> st] : st \in PrecompileStates(tx)}
      [] OTHER ->
           {[err |-> "error", gas |-> g, st |-> acct] : g \in 0..tx.gas} \cup
           {[err |-> "nil", gas |-> g, st |-> RevmState(tx, g)] :
              g \in IF acct[tx.from].bal >= tx.gas + tx.value THEN 1..tx.gas ELSE {}}

(* What a transaction that used gas g costs its sender. *)
Cost(tx, g) == ((g * GasPrice(tx)) % Word) + tx.value

(* The sender pays the gas used and the value and its nonce advances,      *)
(* whether or not the execution succeeded.                                 *)
Charge(tx, r) ==
    [r.st EXCEPT ![tx.from].bal = @ - Cost(tx, r.gas),
                 ![tx.from].nonce = @ + 1]

(* Mutant: ProduceBlock relies on the checks made at admission. *)
Trusted(tx) == TRUE

(* ProduceBlock makes the checks of eth_sendRawTransaction again. *)
Rechecked(tx) == Admissible(tx)

(* One iteration of the loop over the popped transactions that executes *)
ExecuteTx ==
    /\ pc = "exec" /\ batch # <<>>
    /\ LET tx == Head(batch)
       IN /\ Rechecked(tx)
          /\ \E r \in Execute(tx) :
               /\ acct' = Charge(tx, r)
               /\ executed' = IF r.err = "nil" THEN Append(executed, tx) ELSE executed
    /\ batch' = Tail(batch)
    /\ UNCHANGED <<pool, height, blocks, add, pc, popSnap, indexed, disk, env>>

(* and one that hits a continue: the transaction is dropped for good. *)
SkipTx ==
    /\ pc = "exec" /\ batch # <<>>
    /\ ~Rechecked(Head(batch))
    /\ batch' = Tail(batch)
    /\ UNCHANGED <<mem, add, pc, popSnap, executed, indexed, disk, env>>

(* The block is assembled and appended, and OnNewBlock called. The daemon  *)
(* registers no stakes, so DistributeBlockReward pays nobody here; and     *)
(* ExecuteDueTasks runs on a scheduler that NewTimeExecution has just made *)
(* empty (the one precompile 0x0D schedules on is another), so it finds no *)
(* task and pays no reward.                                                *)
SealBlock ==
    /\ pc = "exec" /\ batch = <<>>
    /\ blocks' = Append(blocks, [txs |-> executed, hash |-> "real"])
    /\ pc' = "accounts"
    /\ UNCHANGED <<acct, pool, height, add, work, disk, env>>

-----------------------------------------------------------------------------
(* Sync and SyncTxs: four kinds of bolt transaction, one after another.    *)

(* Sync: SaveAllAccounts. *)
SaveAllAccounts ==
    /\ pc = "accounts"
    /\ dAcct' = Serialized(acct)
    /\ pc' = "block"
    /\ UNCHANGED <<mem, add, work, dHeight, dBlock, dIndex, dTxs, env>>

(* Mutant: the early return of SyncTxs also skips a block with one transaction. *)
SkipsSingleTx == IF Len(executed) <= 1 THEN "broadcast" ELSE "index"

(* SyncTxs returns at once for a block without transactions. *)
SyncTxsStart == IF executed = <<>> THEN "broadcast" ELSE "index"

(* Sync: SaveBlock writes the block's record and the height together. The *)
(* record's PrevHash is the hash of the block before it in memory, which  *)
(* OpenStore leaves zero.                                                 *)
SaveBlock ==
    /\ pc = "block"
    /\ dHeight' = height
    /\ dBlock' = [dBlock EXCEPT ![height] =
                    [kind |-> "block",
                     prev |-> IF Len(blocks) > 1 THEN blocks[Len(blocks) - 1].hash ELSE "zero"]]
    /\ indexed' = 0
    /\ pc' = SyncTxsStart
    /\ UNCHANGED <<mem, add, popSnap, batch, executed, dAcct, dIndex, dTxs, env>>

(* A bolt error ends Sync; the loop logs it and goes on to SyncTxs. *)
SyncError ==
    /\ SyncMayFail /\ pc \in {"accounts", "block"}
    /\ indexed' = 0
    /\ pc' = SyncTxsStart
    /\ UNCHANGED <<mem, add, popSnap, batch, executed, disk, env>>

(* A bolt error in SaveTxIndex or SaveBlockTxs ends SyncTxs, with some of *)
(* the block's transactions indexed; the loop logs it and goes on too.    *)
SyncTxsError ==
    /\ SyncMayFail /\ pc = "index"
    /\ pc' = "broadcast"
    /\ UNCHANGED <<mem, add, work, disk, env>>

(* Mutant: every transaction is given the position of the last one. *)
LastPosition == [height |-> height, pos |-> Len(executed)]

(* The index entry of the next transaction: positions count from 1 here. *)
IndexEntry == [height |-> height, pos |-> indexed + 1]

(* SyncTxs: SaveTxIndex for one transaction of the block. *)
SaveTxIndex ==
    /\ pc = "index" /\ indexed < Len(executed)
    /\ dIndex' = [dIndex EXCEPT ![TxHash(executed[indexed + 1])] = IndexEntry]
    /\ indexed' = indexed + 1
    /\ UNCHANGED <<mem, add, pc, popSnap, batch, executed, dAcct, dHeight, dBlock, dTxs, env>>

(* SyncTxs: SaveBlockTxs. *)
SaveBlockTxs ==
    /\ pc = "index" /\ indexed = Len(executed)
    /\ dTxs' = [dTxs EXCEPT ![height] = executed]
    /\ pc' = "broadcast"
    /\ UNCHANGED <<mem, add, work, dAcct, dHeight, dBlock, dIndex, env>>

(* BroadcastBlock, and the loop waits for the next tick. *)
Broadcast ==
    /\ pc = "broadcast"
    /\ pc' = "tick"
    /\ executed' = <<>> /\ indexed' = 0
    /\ UNCHANGED <<mem, add, popSnap, batch, disk, env>>

-----------------------------------------------------------------------------
(* Stopping and starting again. *)

(* The signal case of the loop: Sync("shutdown", 0, zero, zero) saves the  *)
(* accounts and then a blank record over the one of the current height.    *)
Shutdown ==
    /\ pc = "tick" /\ crashes < MaxCrashes
    /\ pc' = "lastAccounts"
    /\ crashes' = crashes + 1
    /\ UNCHANGED <<mem, add, work, disk, submits, funds, deploys, drained>>

LastSync ==
    \/ /\ pc = "lastAccounts"
       /\ dAcct' = Serialized(acct)
       /\ pc' = "lastBlock"
       /\ UNCHANGED <<mem, add, work, dHeight, dBlock, dIndex, dTxs, env>>
    \/ /\ pc = "lastBlock"
       /\ dHeight' = height
       /\ dBlock' = [dBlock EXCEPT ![height] = [kind |-> "blank", prev |-> "zero"]]
       /\ pc' = "down"
       /\ UNCHANGED <<mem, add, work, dAcct, dIndex, dTxs, env>>

(* A crash loses what the process holds. *)
Crash ==
    /\ pc # "down" /\ crashes < MaxCrashes
    /\ crashes' = crashes + 1
    /\ pc' = "down"
    /\ UNCHANGED <<mem, add, work, disk, submits, funds, deploys, drained>>

(* Mutant: the height of the block before as the height the reloaded chain *)
(* is at.                                                                  *)
HeightMinusOne == dHeight - 1

(* The height OpenStore continues from. *)
LoadedHeight == dHeight

StoredHeights == {h \in Heights : dBlock[h].kind # "none"}

(* OpenStore: the accounts and the height come back; of the latest blocks *)
(* only the heights do, so they have neither transactions nor a hash.     *)
OpenStore ==
    /\ pc = "down"
    /\ acct' = DevFunded(dAcct)
    /\ height' = LoadedHeight
    /\ blocks' = [i \in 1..Least(ReloadBlocks, Cardinality(StoredHeights)) |->
                    [txs |-> <<>>, hash |-> "zero"]]
    /\ pool' = [l \in Lanes |-> <<>>]
    /\ adding' = <<>> /\ addSnap' = <<>>
    /\ popSnap' = <<>> /\ batch' = <<>> /\ executed' = <<>> /\ indexed' = 0
    /\ pc' = "tick"
    /\ UNCHANGED <<disk, env>>

-----------------------------------------------------------------------------
Loop == BeginBlock \/ PopConsensus \/ ExecuteTx \/ SkipTx \/ SealBlock
        \/ SaveAllAccounts \/ SaveBlock \/ SaveTxIndex \/ SaveBlockTxs \/ Broadcast

Rpc == (\E tx \in Txs : SendRawTransaction(tx)) \/ PoolAdd
       \/ (\E a \in Accounts : (\E n \in FundAmounts : FundGenesis(a, n)) \/ DeployCode(a))

Stop == Shutdown \/ LastSync \/ Crash \/ OpenStore

(* The end of a run: the bound on the height, not the system, stops it. *)
AtBound == pc = "tick" /\ height = MaxHeight /\ UNCHANGED vars

Next == Loop \/ SyncError \/ SyncTxsError \/ Rpc \/ Stop \/ AtBound

Spec == Init /\ [][Next]_vars

(* The runtime keeps scheduling the goroutine of the loop and of a handler *)
(* that is inside Pool.Add; a stopped node is started again by systemd.    *)
FairSpec == Spec /\ WF_vars(Loop) /\ WF_vars(PoolAdd) /\ WF_vars(LastSync) /\ WF_vars(OpenStore)

-----------------------------------------------------------------------------
(* Properties. *)

(* Type invariant of the node and of its store. *)
TypeOK ==
    /\ acct \in [Accounts -> AccountType]
    /\ pool \in [Lanes -> Seq(Txs)]
    /\ height \in Heights
    /\ blocks \in Seq(BlockType)
    /\ adding \in Seq(Txs) /\ addSnap \in Seq(Txs)
    /\ pc \in Phases
    /\ popSnap \in Seq(Txs) /\ batch \in Seq(Txs) /\ executed \in Seq(Txs)
    /\ indexed \in Nat
    /\ dAcct \in [Accounts -> AccountType]
    /\ dHeight \in Heights
    /\ dBlock \in [Heights -> StoredType]
    /\ dIndex \in [Hashes -> [height: Heights, pos: Nat]]
    /\ dTxs \in [Heights -> Seq(Txs)]
    /\ submits \in Nat /\ crashes \in Nat /\ funds \in Nat /\ deploys \in Nat
    /\ drained \in Nat

(* Whatever the pool loses or repeats, and wherever a crash falls, no      *)
(* nonce of a sender is used by two transactions of the stored blocks:     *)
(* ProduceBlock's nonce check, with the order of Sync's writes, is what    *)
(* prevents a replay.                                                      *)
NoReplay ==
    \A g, h \in Heights : \A i \in DOMAIN dTxs[g], j \in DOMAIN dTxs[h] :
       /\ dTxs[g][i].from = dTxs[h][j].from
       /\ dTxs[g][i].nonce = dTxs[h][j].nonce
       => g = h /\ i = j

(* A stored transaction is one whose effect is stored: Sync saves the      *)
(* accounts before SyncTxs saves the block's transactions.                 *)
EffectsDurable ==
    \A h \in Heights : \A i \in DOMAIN dTxs[h] :
       dTxs[h][i].nonce < dAcct[dTxs[h][i].from].nonce

(* LoadTxFromStore: the stored transaction the index leads to, if any. *)
LoadTxFromStore(x) ==
    LET e == dIndex[x]
    IN IF e.height = 0 \/ e.pos > Len(dTxs[e.height]) THEN <<>>
       ELSE <<dTxs[e.height][e.pos]>>

(* What LoadTxFromStore returns for a hash has that hash. *)
IndexSound ==
    \A x \in Hashes : LoadTxFromStore(x) # <<>> => TxHash(LoadTxFromStore(x)[1]) = x

(* "Restart daemon -> eth_getTransactionByHash still returns tx": between  *)
(* two blocks every transaction of the blocks in memory can already be     *)
(* loaded from the store, so a stop at a tick loses none of them.          *)
SettledFindable ==
    pc \in {"tick", "lastAccounts", "lastBlock"} =>
       \A b \in 1..Len(blocks) : \A i \in DOMAIN blocks[b].txs :
          LoadTxFromStore(TxHash(blocks[b].txs[i])) # <<>>

(* What a client has once been told about a stored transaction never       *)
(* changes: SaveTxIndex and SaveBlockTxs only ever add answers.            *)
LookupStable ==
    [][\A x \in Hashes : LoadTxFromStore(x) # <<>> => LoadTxFromStore(x)' = LoadTxFromStore(x)]_vars

(* The transactions a lookup by hash returns. *)
Settled == {tx \in Txs : LoadTxFromStore(TxHash(tx)) = <<tx>>}

TL == INSTANCE TxLedger WITH Txs <- Txs, settled <- Settled

(* The buckets implement TxLedger: over pool races, crashes between any    *)
(* two writes and restarts, what eth_getTransactionByHash answers only     *)
(* grows, and never by a second use of a nonce (SyncTxs, OpenStore,        *)
(* LoadTxFromStore).                                                       *)
ImplementsTxLedger == TL!Spec

(* The gas EVM.Execute may report. *)
GasUsed(tx) ==
    CASE tx.kind = "transfer" -> {TransferGas}
      [] tx.kind = "precompile" -> {0, PrecompileGas}
      [] OTHER -> 0..tx.gas

WithinOneCost(n) == n >= 0 \/ \E tx \in Txs : \E g \in GasUsed(tx) : n + Cost(tx, g) >= 0

(* An account is overdrawn by one transaction at most. The balance check   *)
(* does not cover what is taken afterwards (the charge may exceed the gas  *)
(* limit, a precompile may spend the balance in between, revm charges as   *)
(* well), but it keeps an account that owes from sending: whatever is in   *)
(* the pool, no balance is lower than minus the cost of one transaction,   *)
(* not counting what way_fundGenesis has taken.                            *)
OneOverdraft == \A x \in Accounts : WithinOneCost(acct[x].bal + drained)

(* No account is overdrawn at all: the balance check of ProduceBlock would *)
(* have to cover what it takes after the execution.                        *)
Solvent == \A a \in Accounts : acct[a].bal >= 0

(* eth_blockNumber is len(Blocks), documented as the latest block height. *)
BlockNumberIsHeight == pc = "tick" => Len(blocks) = height

(* A transaction in the consensus pool stays there until it is popped for *)
(* execution (or the process ends): eth_sendRawTransaction returned its   *)
(* hash to a client that now waits for it.                                *)
NoTxLost ==
    [][\A i \in DOMAIN pool["consensus"] :
         LET tx == pool["consensus"][i]
         IN \/ \E j \in DOMAIN pool'["consensus"] : pool'["consensus"][j] = tx
            \/ \E j \in DOMAIN batch' : batch'[j] = tx
            \/ pc = "down"]_vars

(* Every pending consensus transaction gets its turn: the pool is emptied *)
(* again and again while the loop runs.                                   *)
PoolDrains == (pool["consensus"] # <<>>) ~> (pool["consensus"] = <<>>)

(* The same of the two other lanes, which the comment in ProduceBlock says *)
(* are popped too.                                                         *)
OtherLanesDrain == \A l \in {"oracle", "private"} : (pool[l] # <<>>) ~> (pool[l] = <<>>)
=============================================================================
