---------------------------- MODULE ChainProofs ----------------------------
(* Proofs about Chain, for any accounts, transactions and bounds. *)
EXTENDS Chain, FiniteSetTheorems, TLAPS

LEMMA GenesisType == Genesis \in [Accounts -> AccountType]
BY ChainAssumption DEF Genesis, AccountType

LEMMA DevFundedType ==
    ASSUME NEW st \in [Accounts -> AccountType]
    PROVE  /\ DevFunded(st) \in [Accounts -> AccountType]
           /\ \A x \in Accounts : DevFunded(st)[x].nonce = st[x].nonce
BY ChainAssumption DEF DevFunded, AccountType

LEMMA SerializedType ==
    ASSUME NEW st \in [Accounts -> AccountType]
    PROVE  /\ Serialized(st) \in [Accounts -> AccountType]
           /\ \A x \in Accounts : Serialized(st)[x].nonce = st[x].nonce
           /\ \A x \in Accounts : Serialized(st)[x].bal >= 0
BY DEF Serialized, AccountType

LEMMA TxFields ==
    ASSUME NEW tx \in Txs
    PROVE  /\ tx.from \in Accounts /\ tx.to \in Accounts
           /\ tx.nonce \in Nat /\ tx.value \in Nat /\ tx.gas \in Nat /\ tx.price \in Nat
           /\ tx.lane \in Lanes /\ tx.kind \in Kinds
           /\ GasPrice(tx) \in Nat
           /\ TxHash(tx) \in Hashes
BY ChainAssumption DEF TxType, GasPrice, TxHash, Hashes

LEMMA FundType ==
    ASSUME NEW st \in [Accounts -> AccountType], NEW a \in Accounts, NEW n \in Int
    PROVE  [st EXCEPT ![a] = [nonce |-> @.nonce, bal |-> @.bal + n,
                                      level |-> IF @.level < 3 THEN 3 ELSE @.level]]
             \in [Accounts -> AccountType]
BY DEF AccountType

LEMMA TakeNonceType ==
    ASSUME NEW st \in [Accounts -> AccountType], NEW a \in Accounts
    PROVE  [st EXCEPT ![a].nonce = @ + 1] \in [Accounts -> AccountType]
BY DEF AccountType

LEMMA RevmStateType ==
    ASSUME acct \in [Accounts -> AccountType], NEW tx \in Txs, NEW g \in Nat
    PROVE  RevmState(tx, g) \in [Accounts -> AccountType]
<1> DEFINE given == IF tx.kind = "deploy" THEN {tx.from} ELSE {tx.from, tx.to}
<1>1. given \subseteq Accounts
  BY TxFields
<1>2. SUFFICES ASSUME NEW b \in Accounts
               PROVE  RevmState(tx, g)[b] \in AccountType
  BY DEF RevmState
<1>3. CASE ~ \E x \in given : Alias[x] = b
  <2>1. RevmState(tx, g)[b] = acct[b]
    BY <1>3 DEF RevmState
  <2> QED BY <2>1
<1>4. CASE \E x \in given : Alias[x] = b
  <2> DEFINE w == CHOOSE x \in given : Alias[x] = b
  <2>1. w \in given /\ w \in Accounts
    BY <1>4, <1>1
  <2>2. RevmState(tx, g)[b] =
          [nonce |-> IF b = tx.from THEN acct[b].nonce
                     ELSE acct[w].nonce + (IF w = tx.from THEN 1 ELSE 0),
           bal |-> acct[w].bal - (IF w = tx.from THEN g + tx.value ELSE 0)
                               + (IF w = tx.to /\ tx.kind = "call" THEN tx.value ELSE 0),
           level |-> acct[b].level]
    BY <1>4 DEF RevmState
  <2>3. acct[w] \in AccountType /\ acct[b] \in AccountType
    BY <2>1
  <2> HIDE DEF w
  <2> QED BY <2>2, <2>3, TxFields DEF AccountType
<1> QED BY <1>3, <1>4

(* SeedAllGenesis and the payments of precompiles, on any accounts: types  *)
(* and nonces stay, and a balance falls only where it can afford it.       *)
LEMMA SeedAllGenesisType ==
    ASSUME NEW st \in [Accounts -> AccountType]
    PROVE  /\ SeedAllGenesis(st) \in [Accounts -> AccountType]
           /\ \A x \in Accounts : SeedAllGenesis(st)[x].nonce = st[x].nonce
           /\ \A x \in Accounts : SeedAllGenesis(st)[x].bal >= st[x].bal
BY ChainAssumption DEF SeedAllGenesis, AccountType

LEMMA PayType ==
    ASSUME NEW st \in [Accounts -> AccountType], NEW p \in Accounts, NEW x \in Accounts,
           NEW n \in Nat
    PROVE  /\ Pay(st, p, x, n) \in [Accounts -> AccountType]
           /\ \A y \in Accounts : Pay(st, p, x, n)[y].nonce = st[y].nonce
           /\ \A y \in Accounts : Pay(st, p, x, n)[y].bal >= 0
                                  \/ Pay(st, p, x, n)[y].bal >= st[y].bal
BY DEF Pay, AccountType

LEMMA PrecompileStatesType ==
    ASSUME acct \in [Accounts -> AccountType], NEW tx \in Txs, NEW s \in PrecompileStates(tx)
    PROVE  /\ s \in [Accounts -> AccountType]
           /\ \A y \in Accounts : s[y].nonce = acct[y].nonce
           /\ \A y \in Accounts : s[y].bal >= 0 \/ s[y].bal >= acct[y].bal
<1> DEFINE starts == {acct} \cup {SeedAllGenesis(acct) : x \in {tx.from} \cap {Founder}}
<1>0. tx.from \in Accounts /\ Registry \in Accounts /\ Reserves \subseteq Accounts
      /\ Amounts \subseteq Nat
  BY TxFields, ChainAssumption
<1>1. ASSUME NEW st \in starts
      PROVE  /\ st \in [Accounts -> AccountType]
             /\ \A y \in Accounts : st[y].nonce = acct[y].nonce
             /\ \A y \in Accounts : st[y].bal >= acct[y].bal
  <2>1. CASE st = acct
    BY <2>1 DEF AccountType
  <2>2. CASE st = SeedAllGenesis(acct)
    BY <2>2, SeedAllGenesisType
  <2> QED BY <2>1, <2>2
<1>2. CASE s \in starts
  BY <1>1, <1>2
<1>3. CASE \E n \in Amounts : s = Pay(acct, tx.from, Registry, n)
  BY <1>0, <1>3, PayType
<1>4. CASE \E st \in starts, p \in Reserves, x \in Accounts, n \in Amounts :
             s = Pay(st, p, x, n)
  <2>1. PICK st \in starts, p \in Reserves, x \in Accounts, n \in Amounts :
          s = Pay(st, p, x, n)
    BY <1>4
  <2> HIDE DEF starts
  <2>2. st \in [Accounts -> AccountType] /\ p \in Accounts /\ n \in Nat
    BY <1>0, <1>1
  <2>3. s \in [Accounts -> AccountType]
        /\ (\A y \in Accounts : s[y].nonce = st[y].nonce)
        /\ (\A y \in Accounts : s[y].bal >= 0 \/ s[y].bal >= st[y].bal)
    BY <2>1, <2>2, PayType
  <2>4. \A y \in Accounts : s[y].bal \in Int /\ st[y].bal \in Int /\ acct[y].bal \in Int
    BY <2>2, <2>3 DEF AccountType
  <2> QED BY <1>1, <2>3, <2>4
<1>5. CASE \E x \in Accounts, n \in Amounts : s = [acct EXCEPT ![x].bal = @ + n]
  <2>1. PICK x \in Accounts, n \in Amounts : s = [acct EXCEPT ![x].bal = @ + n]
    BY <1>5
  <2>2. n \in Nat
    BY <1>0
  <2> QED BY <2>1, <2>2 DEF AccountType
<1> QED BY <1>2, <1>3, <1>4, <1>5 DEF PrecompileStates

LEMMA ExecuteType ==
    ASSUME acct \in [Accounts -> AccountType], NEW tx \in Txs, NEW r \in Execute(tx)
    PROVE  /\ r.st \in [Accounts -> AccountType]
           /\ r.gas \in Nat
           /\ r.err \in {"nil", "error"}
<1>1. CASE tx.kind = "transfer"
  <2>1. r = [err |-> "nil", gas |-> TransferGas,
             st |-> IF tx.from = tx.to THEN acct
                    ELSE [acct EXCEPT ![tx.to].bal = @ + tx.value]]
    BY <1>1 DEF Execute
  <2>2. [acct EXCEPT ![tx.to].bal = @ + tx.value] \in [Accounts -> AccountType]
    BY TxFields DEF AccountType
  <2> QED BY <2>1, <2>2, ChainAssumption
<1>2. CASE tx.kind = "precompile"
  <2>1. CASE r = [err |-> "error", gas |-> 0, st |-> acct]
    BY <2>1
  <2>2. CASE \E st \in PrecompileStates(tx) :
               r = [err |-> "nil", gas |-> PrecompileGas, st |-> st]
    BY <2>2, PrecompileStatesType, ChainAssumption
  <2> QED BY <1>2, <2>1, <2>2 DEF Execute
<1>3. CASE tx.kind \notin {"transfer", "precompile"}
  <2>1. CASE \E g \in 0..tx.gas : r = [err |-> "error", gas |-> g, st |-> acct]
    BY <2>1
  <2>2. CASE \E g \in 1..tx.gas : r = [err |-> "nil", gas |-> g, st |-> RevmState(tx, g)]
    BY <2>2, RevmStateType
  <2> QED BY <1>3, <2>1, <2>2 DEF Execute
<1> QED BY <1>1, <1>2, <1>3

LEMMA ChargeType ==
    ASSUME acct \in [Accounts -> AccountType], NEW tx \in Txs, NEW r \in Execute(tx)
    PROVE  Charge(tx, r) \in [Accounts -> AccountType]
<1>1. r.st \in [Accounts -> AccountType] /\ r.gas \in Nat
  BY ExecuteType
<1>2. Cost(tx, r.gas) \in Int
  BY <1>1, TxFields, ChainAssumption DEF Cost
<1> QED BY <1>1, <1>2, TxFields DEF Charge, AccountType

-----------------------------------------------------------------------------
LEMMA TypeInit == Init => TypeOK
<1> SUFFICES ASSUME Init PROVE TypeOK
  OBVIOUS
<1>1. Genesis \in [Accounts -> AccountType] /\ DevFunded(Genesis) \in [Accounts -> AccountType]
  BY GenesisType, DevFundedType
<1>2. 0 \in Heights /\ 1 \in Heights
  BY ChainAssumption DEF Heights
<1>3. blocks \in Seq(BlockType)
  BY DEF Init, BlockType
<1>4. NoEntry \in [height: Heights, pos: Nat]
  BY <1>2 DEF NoEntry
<1>5. dBlock \in [Heights -> StoredType]
  BY DEF Init, StoredType
<1>6. dIndex \in [Hashes -> [height: Heights, pos: Nat]]
  BY <1>4 DEF Init
<1> QED BY <1>1, <1>2, <1>3, <1>5, <1>6 DEF Init, TypeOK, Phases

LEMMA TypeNext == TypeOK /\ [Next]_vars => TypeOK'
<1> SUFFICES ASSUME TypeOK, [Next]_vars PROVE TypeOK'
  OBVIOUS
<1> USE DEF TypeOK
<1>1. ASSUME NEW tx \in Txs, SendRawTransaction(tx) PROVE TypeOK'
  <2>1. adding' \in Seq(Txs) /\ addSnap' \in Seq(Txs)
    BY <1>1, TxFields, SMTT(30) DEF SendRawTransaction
  <2>2. submits' \in Nat
    BY <1>1 DEF SendRawTransaction
  <2> QED BY <1>1, <2>1, <2>2 DEF SendRawTransaction, mem, work, disk
<1>2. CASE PoolAdd
  <2>1. adding # <<>> /\ Head(adding) \in Txs
    BY <1>2 DEF PoolAdd
  <2>2. Head(adding).lane \in Lanes /\ Append(addSnap, Head(adding)) \in Seq(Txs)
    <3>1. addSnap \in Seq(Txs)
      OBVIOUS
    <3> HIDE DEF TypeOK
    <3>2. Append(addSnap, Head(adding)) \in Seq(Txs)
      BY <2>1, <3>1
    <3> QED BY <2>1, <3>2, TxFields
  <2>3. pool' = [pool EXCEPT ![Head(adding).lane] = Append(addSnap, Head(adding))]
    BY <1>2 DEF PoolAdd
  <2>4. pool' \in [Lanes -> Seq(Txs)]
    BY <2>2, <2>3
  <2> QED BY <1>2, <2>4 DEF PoolAdd, work, disk, env
<1>3. ASSUME NEW a \in Accounts, NEW n \in FundAmounts, FundGenesis(a, n) PROVE TypeOK'
  <2>0. n \in Int
    BY ChainAssumption
  <2>1. acct' \in [Accounts -> AccountType]
    BY <1>3, <2>0, FundType DEF FundGenesis
  <2>2. dAcct' \in [Accounts -> AccountType]
    BY <1>3, <2>1, SerializedType DEF FundGenesis
  <2>3. funds' \in Nat /\ drained' \in Nat
    BY <1>3, <2>0, SMTT(30) DEF FundGenesis
  <2> QED BY <1>3, <2>1, <2>2, <2>3 DEF FundGenesis, add, work
<1>4. ASSUME NEW a \in Accounts, DeployCode(a) PROVE TypeOK'
  <2>1. acct' \in [Accounts -> AccountType]
    BY <1>4, TakeNonceType DEF DeployCode
  <2> QED BY <1>4, <2>1, SMTT(30) DEF DeployCode, add, work, disk
<1>5. CASE BeginBlock
  <2>1. height' \in Heights
    BY <1>5, ChainAssumption DEF BeginBlock, Heights
  <2> QED BY <1>5, <2>1 DEF BeginBlock, add, disk, env, Phases, Lanes
<1>6. CASE PopConsensus
  <2> DEFINE n == Least(BlockTxs, Len(popSnap))
  <2>1. n \in 0..Len(popSnap)
    BY ChainAssumption DEF Least
  <2>2. SubSeq(popSnap, 1, n) \in Seq(Txs) /\ SubSeq(popSnap, n + 1, Len(popSnap)) \in Seq(Txs)
    BY <2>1
  <2>3. batch' \in Seq(Txs) /\ pool' \in [Lanes -> Seq(Txs)]
    BY <1>6, <2>2 DEF PopConsensus, RestOfLane, Lanes
  <2> QED BY SMTT(40), <1>6, <2>3 DEF PopConsensus, add, disk, env, Phases
<1>7. CASE ExecuteTx
  <2> DEFINE tx == Head(batch)
  <2>1. tx \in Txs /\ Tail(batch) \in Seq(Txs)
    BY <1>7 DEF ExecuteTx
  <2>2. PICK r \in Execute(tx) :
          /\ acct' = Charge(tx, r)
          /\ executed' = IF r.err = "nil" THEN Append(executed, tx) ELSE executed
    BY <1>7 DEF ExecuteTx
  <2>3. acct' \in [Accounts -> AccountType]
    BY <2>1, <2>2, ChargeType
  <2>4. executed' \in Seq(Txs)
    BY <2>1, <2>2
  <2> QED BY <1>7, <2>1, <2>3, <2>4 DEF ExecuteTx, add, disk, env
<1>8. CASE SkipTx
  BY <1>8 DEF SkipTx, mem, add, disk, env
<1>9. CASE SealBlock
  <2>1. blocks' \in Seq(BlockType)
    BY <1>9 DEF SealBlock, BlockType
  <2> QED BY <1>9, <2>1 DEF SealBlock, add, work, disk, env, Phases
<1>10. CASE SaveAllAccounts
  <2>1. dAcct' \in [Accounts -> AccountType]
    BY <1>10, SerializedType DEF SaveAllAccounts
  <2> QED BY <1>10, <2>1 DEF SaveAllAccounts, mem, add, work, env, Phases
<1>11. CASE SaveBlock
  <2>1. (IF Len(blocks) > 1 THEN blocks[Len(blocks) - 1].hash ELSE "zero") \in {"zero", "real"}
    <3>1. CASE Len(blocks) > 1
      <4>1. blocks[Len(blocks) - 1] \in BlockType
        BY <3>1
      <4> QED BY <4>1 DEF BlockType
    <3> QED BY <3>1
  <2>2. dBlock' \in [Heights -> StoredType]
    BY <1>11, <2>1 DEF SaveBlock, StoredType
  <2> QED BY <1>11, <2>2 DEF SaveBlock, SyncTxsStart, mem, add, env, Phases
<1>12. CASE SyncError
  BY <1>12 DEF SyncError, SyncTxsStart, mem, add, disk, env, Phases
<1>21. CASE SyncTxsError
  BY <1>21 DEF SyncTxsError, mem, add, work, disk, env, Phases
<1>13. CASE SaveTxIndex
  <2>1. executed[indexed + 1] \in Txs
    BY <1>13 DEF SaveTxIndex
  <2>2. IndexEntry \in [height: Heights, pos: Nat]
    BY DEF IndexEntry
  <2>3. dIndex' \in [Hashes -> [height: Heights, pos: Nat]]
    BY <1>13, <2>1, <2>2, TxFields DEF SaveTxIndex
  <2> QED BY <1>13, <2>3, SMTT(30) DEF SaveTxIndex, mem, add, env
<1>14. CASE SaveBlockTxs
  BY <1>14 DEF SaveBlockTxs, mem, add, work, env, Phases
<1>15. CASE Broadcast
  BY <1>15 DEF Broadcast, mem, add, disk, env, Phases
<1>16. CASE Shutdown
  BY <1>16 DEF Shutdown, mem, add, work, disk, Phases
<1>17. CASE LastSync
  <2>1. dAcct' \in [Accounts -> AccountType]
    BY <1>17, SerializedType DEF LastSync
  <2>2. dBlock' \in [Heights -> StoredType]
    BY <1>17, SMTT(30) DEF LastSync, StoredType
  <2> QED BY <1>17, <2>1, <2>2, SMTT(30) DEF LastSync, mem, add, work, env, Phases
<1>18. CASE Crash
  BY <1>18 DEF Crash, mem, add, work, disk, Phases
<1>19. CASE OpenStore
  <2>1. acct' \in [Accounts -> AccountType]
    BY <1>19, DevFundedType DEF OpenStore
  <2>2. IsFiniteSet(StoredHeights)
    <3>1. IsFiniteSet(0..MaxHeight)
      BY ChainAssumption, FS_Interval
    <3> QED BY <3>1, FS_Subset DEF StoredHeights, Heights
  <2>3. Least(ReloadBlocks, Cardinality(StoredHeights)) \in Nat
    BY <2>2, FS_CardinalityType, ChainAssumption DEF Least
  <2>4. blocks' \in Seq(BlockType)
    <3> DEFINE n == Least(ReloadBlocks, Cardinality(StoredHeights))
               e == [txs |-> <<>>, hash |-> "zero"]
    <3>1. e \in BlockType
      BY DEF BlockType
    <3>2. blocks' = [i \in 1..n |-> e]
      BY <1>19 DEF OpenStore
    <3> HIDE DEF n, e
    <3>3. n \in Nat
      BY <2>3 DEF n
    <3> QED BY <3>1, <3>2, <3>3
  <2> QED BY <1>19, <2>1, <2>4 DEF OpenStore, LoadedHeight, disk, env, Phases
<1>20. CASE UNCHANGED vars
  BY <1>20 DEF vars, mem, add, work, disk, env
<1> QED
  BY <1>1, <1>2, <1>3, <1>4, <1>5, <1>6, <1>7, <1>8, <1>9, <1>10, <1>11, <1>12, <1>13,
     <1>14, <1>15, <1>16, <1>17, <1>18, <1>19, <1>20, <1>21
  DEF Next, Loop, Rpc, Stop, AtBound

(* TypeOK is an invariant of the node, whatever the interleaving of the    *)
(* ticker loop and the RPC handlers, the crashes and the bolt errors.      *)
THEOREM TypeCorrect == Spec => []TypeOK
BY TypeInit, TypeNext, PTL DEF Spec
-----------------------------------------------------------------------------
(* No replay. *)

Senders == {tx.from : tx \in Txs}

(* The accounts revm's result is stored under are not themselves senders, *)
(* unless they are their own alias; and bolt writes succeed.              *)
AliasesDoNotSend == \A x \in Accounts : Alias[x] # x => Alias[x] \notin Senders

(* The nonces in memory are never behind the stored ones. *)
MemAhead == \A s \in Senders : dAcct[s].nonce <= acct[s].nonce

(* The nonces of the block being built are spent in memory, *)
ExecutedSpent ==
    \A i \in DOMAIN executed : executed[i].nonce < acct[executed[i].from].nonce

(* spent on disk too once SaveAllAccounts has returned, *)
ExecutedSaved ==
    pc \in {"block", "index"} =>
      \A i \in DOMAIN executed : executed[i].nonce < dAcct[executed[i].from].nonce

(* pairwise different, *)
ExecutedDistinct ==
    \A i, j \in DOMAIN executed :
       executed[i].from = executed[j].from /\ executed[i].nonce = executed[j].nonce => i = j

(* and different from the stored ones until SaveBlockTxs stores them. *)
ExecutedFresh ==
    pc \in {"exec", "accounts", "block", "index"} =>
      \A h \in Heights : \A i \in DOMAIN dTxs[h], j \in DOMAIN executed :
         ~(dTxs[h][i].from = executed[j].from /\ dTxs[h][i].nonce = executed[j].nonce)

ReplayInv ==
    /\ TypeOK
    /\ MemAhead
    /\ ExecutedSpent
    /\ ExecutedSaved
    /\ ExecutedDistinct
    /\ ExecutedFresh
    /\ EffectsDurable
    /\ NoReplay
LEMMA SenderAccounts == Senders \subseteq Accounts
BY TxFields DEF Senders

LEMMA RevmNonce ==
    ASSUME AliasesDoNotSend, acct \in [Accounts -> AccountType], NEW tx \in Txs, NEW g \in Nat,
           NEW s \in Senders
    PROVE  RevmState(tx, g)[s].nonce = acct[s].nonce
<1> DEFINE given == IF tx.kind = "deploy" THEN {tx.from} ELSE {tx.from, tx.to}
<1>1. given \subseteq Accounts /\ s \in Accounts
  BY TxFields, SenderAccounts
<1>2. CASE ~ \E x \in given : Alias[x] = s
  BY <1>1, <1>2 DEF RevmState
<1>3. CASE \E x \in given : Alias[x] = s
  <2> DEFINE w == CHOOSE x \in given : Alias[x] = s
  <2>1. w \in given /\ Alias[w] = s /\ w \in Accounts
    BY <1>3, <1>1
  <2>2. w = s
    BY <2>1 DEF AliasesDoNotSend
  <2>3. RevmState(tx, g)[s].nonce = IF s = tx.from THEN acct[s].nonce
                                    ELSE acct[w].nonce + (IF w = tx.from THEN 1 ELSE 0)
    BY <1>1, <1>3 DEF RevmState
  <2>4. acct[s].nonce \in Nat
    BY <1>1 DEF AccountType
  <2> HIDE DEF w
  <2> QED BY <2>2, <2>3, <2>4
<1> QED BY <1>2, <1>3

LEMMA ExecuteNonce ==
    ASSUME AliasesDoNotSend, acct \in [Accounts -> AccountType], NEW tx \in Txs,
           NEW r \in Execute(tx), NEW s \in Senders
    PROVE  r.st[s].nonce = acct[s].nonce
<1>0. s \in Accounts /\ tx.to \in Accounts /\ acct[s] \in AccountType
  BY SenderAccounts, TxFields
<1>1. CASE tx.kind = "transfer"
  <2>1. r.st = IF tx.from = tx.to THEN acct ELSE [acct EXCEPT ![tx.to].bal = @ + tx.value]
    BY <1>1 DEF Execute
  <2>2. [acct EXCEPT ![tx.to].bal = @ + tx.value][s].nonce = acct[s].nonce
    BY <1>0 DEF AccountType
  <2> QED BY <2>1, <2>2
<1>2. CASE tx.kind = "precompile"
  <2>1. r.st = acct \/ r.st \in PrecompileStates(tx)
    BY <1>2 DEF Execute
  <2> QED BY <1>0, <2>1, PrecompileStatesType
<1>3. CASE tx.kind \notin {"transfer", "precompile"}
  <2>1. CASE \E g \in 0..tx.gas : r = [err |-> "error", gas |-> g, st |-> acct]
    BY <2>1
  <2>2. CASE \E g \in 1..tx.gas : r = [err |-> "nil", gas |-> g, st |-> RevmState(tx, g)]
    BY <2>2, RevmNonce
  <2> QED BY <1>3, <2>1, <2>2 DEF Execute
<1> QED BY <1>1, <1>2, <1>3

LEMMA ChargeNonce ==
    ASSUME AliasesDoNotSend, acct \in [Accounts -> AccountType], NEW tx \in Txs,
           NEW r \in Execute(tx), NEW s \in Senders
    PROVE  Charge(tx, r)[s].nonce = IF s = tx.from THEN acct[s].nonce + 1 ELSE acct[s].nonce
<1>1. r.st \in [Accounts -> AccountType] /\ s \in Accounts /\ tx.from \in Accounts
  BY ExecuteType, SenderAccounts, TxFields
<1>2. r.st[s].nonce = acct[s].nonce
  BY ExecuteNonce
<1>3. r.st[s] \in AccountType
  BY <1>1
<1>4. Charge(tx, r)[s].nonce = IF s = tx.from THEN r.st[s].nonce + 1 ELSE r.st[s].nonce
  BY <1>1, <1>3 DEF Charge, AccountType
<1> QED BY <1>2, <1>4

LEMMA SeqElements ==
    ASSUME NEW q \in Seq(Txs), NEW i \in DOMAIN q
    PROVE  q[i] \in Txs /\ q[i].from \in Senders
<1>1. q[i] \in Txs
  OBVIOUS
<1> QED BY <1>1 DEF Senders

LEMMA ExecutedElements ==
    ASSUME TypeOK
    PROVE  \A i \in DOMAIN executed : executed[i] \in Txs /\ executed[i].from \in Senders
<1>1. executed \in Seq(Txs)
  BY DEF TypeOK
<1> QED BY <1>1, SeqElements

LEMMA StoredElements ==
    ASSUME TypeOK
    PROVE  \A h \in Heights : \A i \in DOMAIN dTxs[h] :
             dTxs[h][i] \in Txs /\ dTxs[h][i].from \in Senders
<1>1. \A h \in Heights : dTxs[h] \in Seq(Txs)
  BY DEF TypeOK
<1> QED BY <1>1, SeqElements

(* What a step must do to the nonces to keep the invariant, when it leaves *)
(* the block being built and the stored transactions alone.                *)
LEMMA ReplayFrame ==
    ASSUME ReplayInv, TypeOK', UNCHANGED <<executed, dTxs>>,
           \A s \in Senders : dAcct[s].nonce <= dAcct'[s].nonce,
           \A s \in Senders : acct[s].nonce <= acct'[s].nonce,
           MemAhead',
           pc' \in {"exec", "accounts", "block", "index"}
             => pc \in {"exec", "accounts", "block", "index"},
           pc' \in {"block", "index"} => pc \in {"block", "index"} \/ dAcct' = Serialized(acct)
    PROVE  ReplayInv'
<1> USE DEF ReplayInv
<1>1. \A i \in DOMAIN executed : executed[i] \in Txs /\ executed[i].from \in Senders
  BY ExecutedElements
<1>2. \A h \in Heights : \A i \in DOMAIN dTxs[h] : dTxs[h][i] \in Txs /\ dTxs[h][i].from \in Senders
  BY StoredElements
<1>3. \A s \in Senders : /\ acct[s].nonce \in Nat /\ acct'[s].nonce \in Nat
                        /\ dAcct[s].nonce \in Nat /\ dAcct'[s].nonce \in Nat
  BY SenderAccounts DEF TypeOK, AccountType
<1>4. \A tx \in Txs : tx.nonce \in Nat
  BY TxFields
<1>5. ExecutedSpent'
  BY <1>1, <1>3, <1>4 DEF ExecutedSpent
<1>6. ExecutedSaved'
  <2>1. CASE pc \in {"block", "index"}
    BY <2>1, <1>1, <1>3, <1>4 DEF ExecutedSaved
  <2>2. CASE dAcct' = Serialized(acct)
    BY <2>2, <1>1, SenderAccounts, SerializedType DEF ExecutedSaved, ExecutedSpent, TypeOK
  <2> QED BY <2>1, <2>2 DEF ExecutedSaved
<1>7. ExecutedDistinct' /\ NoReplay'
  BY DEF ExecutedDistinct, NoReplay
<1>8. ExecutedFresh'
  BY DEF ExecutedFresh
<1>9. EffectsDurable'
  BY <1>2, <1>3, <1>4 DEF EffectsDurable
<1> QED BY <1>5, <1>6, <1>7, <1>8, <1>9
LEMMA ReplayInit == Init => ReplayInv
<1> SUFFICES ASSUME Init PROVE ReplayInv
  OBVIOUS
<1>1. TypeOK
  BY TypeInit
<1>2. MemAhead
  <2>1. \A x \in Accounts : acct[x].nonce = dAcct[x].nonce
    BY GenesisType, DevFundedType DEF Init
  <2>2. \A x \in Accounts : dAcct[x].nonce \in Nat
    BY <1>1 DEF TypeOK, AccountType
  <2> QED BY <2>1, <2>2, SenderAccounts DEF MemAhead
<1>3. executed = <<>> /\ \A h \in Heights : dTxs[h] = <<>>
  BY DEF Init
<1> QED BY <1>1, <1>2, <1>3 DEF ReplayInv, ExecutedSpent, ExecutedSaved, ExecutedDistinct,
           ExecutedFresh, EffectsDurable, NoReplay

LEMMA ReplayNext ==
    ASSUME AliasesDoNotSend, ~SyncMayFail
    PROVE  ReplayInv /\ [Next]_vars => ReplayInv'
<1> SUFFICES ASSUME ReplayInv, [Next]_vars PROVE ReplayInv'
  OBVIOUS
<1>0. TypeOK /\ TypeOK'
  BY TypeNext DEF ReplayInv
<1>a. \A s \in Senders : /\ acct[s].nonce \in Nat /\ acct'[s].nonce \in Nat
                        /\ dAcct[s].nonce \in Nat /\ dAcct'[s].nonce \in Nat
  BY <1>0, SenderAccounts DEF TypeOK, AccountType
<1>b. MemAhead
  BY DEF ReplayInv
<1>c. acct \in [Accounts -> AccountType] /\ dAcct \in [Accounts -> AccountType]
      /\ acct' \in [Accounts -> AccountType]
  BY <1>0 DEF TypeOK
<1> USE ReplayFrame
<1>1. ASSUME NEW tx \in Txs, SendRawTransaction(tx) PROVE ReplayInv'
  BY <1>0, <1>1, <1>a, <1>b DEF SendRawTransaction, mem, work, disk, MemAhead
<1>2. CASE PoolAdd
  BY <1>0, <1>2, <1>a, <1>b DEF PoolAdd, work, disk, MemAhead
<1>3. ASSUME NEW a \in Accounts, NEW n \in FundAmounts, FundGenesis(a, n) PROVE ReplayInv'
  <2>1. \A s \in Senders : acct'[s].nonce = acct[s].nonce
    BY <1>3, <1>c, SenderAccounts DEF FundGenesis, AccountType
  <2>2. \A s \in Senders : dAcct'[s].nonce = acct'[s].nonce
    BY <1>3, <1>c, SerializedType, SenderAccounts DEF FundGenesis
  <2>3. UNCHANGED <<executed, dTxs, pc>>
    BY <1>3 DEF FundGenesis, work
  <2> QED BY <2>1, <2>2, <2>3, <1>0, <1>a, <1>b DEF MemAhead
<1>4. ASSUME NEW a \in Accounts, DeployCode(a) PROVE ReplayInv'
  <2>1. \A s \in Senders : acct[s].nonce <= acct'[s].nonce
    BY <1>4, <1>a, <1>c, SenderAccounts DEF DeployCode, AccountType
  <2>2. UNCHANGED <<executed, dTxs, pc, dAcct>>
    BY <1>4 DEF DeployCode, work, disk
  <2> QED BY <2>1, <2>2, <1>0, <1>a, <1>b DEF MemAhead
<1>5. CASE BeginBlock
  BY <1>0, <1>5, <1>a, <1>b DEF BeginBlock, disk, MemAhead
<1>6. CASE PopConsensus
  <2>1. executed' = <<>> /\ pc' = "exec" /\ UNCHANGED <<acct, dAcct, dTxs>>
    BY <1>6 DEF PopConsensus, disk
  <2> QED BY <2>1, <1>0 DEF ReplayInv, MemAhead, ExecutedSpent, ExecutedSaved, ExecutedDistinct,
             ExecutedFresh, EffectsDurable, NoReplay
<1>7. CASE ExecuteTx
  <2> DEFINE tx == Head(batch)
  <2>1. tx \in Txs /\ tx.from \in Senders /\ tx.nonce \in Nat
    <3>1. tx \in Txs
      BY <1>0, <1>7, SMTT(30) DEF ExecuteTx, TypeOK
    <3> QED BY <3>1, TxFields DEF Senders
  <2>2. PICK r \in Execute(tx) :
          /\ acct' = Charge(tx, r)
          /\ executed' = IF r.err = "nil" THEN Append(executed, tx) ELSE executed
    BY <1>7 DEF ExecuteTx
  <2>3. tx.nonce = acct[tx.from].nonce
    BY <1>7 DEF ExecuteTx, Rechecked, Admissible
  <2>4. pc = "exec" /\ UNCHANGED <<pc, dAcct, dTxs>>
    BY <1>7 DEF ExecuteTx, disk
  <2> HIDE DEF tx
  <2>5. \A s \in Senders : acct'[s].nonce = IF s = tx.from THEN acct[s].nonce + 1
                                            ELSE acct[s].nonce
    BY <2>1, <2>2, <1>c, ChargeNonce
  <2>6. \A s \in Senders : acct[s].nonce <= acct'[s].nonce
    BY <2>5, <1>a
  <2>7. MemAhead'
    BY <2>4, <2>6, <1>a, <1>b DEF MemAhead
  <2>8. CASE executed' = executed
    BY <2>4, <2>6, <2>7, <2>8, <1>0, <1>a
  <2>9. CASE executed' = Append(executed, tx)
    <3>1. executed \in Seq(Txs) /\ DOMAIN executed' = 1..(Len(executed) + 1)
          /\ DOMAIN executed = 1..Len(executed) /\ Len(executed) \in Nat
          /\ executed'[Len(executed) + 1] = tx
          /\ \A i \in DOMAIN executed : executed'[i] = executed[i]
      <4>1. executed \in Seq(Txs)
        BY <1>0 DEF TypeOK
      <4> QED BY <4>1, <2>1, <2>9
    <3>2. \A i \in DOMAIN executed' : i \in DOMAIN executed \/ i = Len(executed) + 1
      BY <3>1
    <3>3. \A i \in DOMAIN executed :
            executed[i].from \in Senders /\ executed[i].nonce \in Nat
            /\ executed[i].nonce < acct[executed[i].from].nonce
      BY <1>0, ExecutedElements, TxFields DEF ReplayInv, ExecutedSpent
    <3>4. \A i \in DOMAIN executed :
            ~(executed[i].from = tx.from /\ executed[i].nonce = tx.nonce)
      BY <3>3, <2>3, <1>a
    <3>5. \A h \in Heights : \A i \in DOMAIN dTxs[h] :
            ~(dTxs[h][i].from = tx.from /\ dTxs[h][i].nonce = tx.nonce)
      <4> SUFFICES ASSUME NEW h \in Heights, NEW i \in DOMAIN dTxs[h]
                   PROVE  ~(dTxs[h][i].from = tx.from /\ dTxs[h][i].nonce = tx.nonce)
        OBVIOUS
      <4>1. dTxs[h][i].nonce < dAcct[dTxs[h][i].from].nonce
        BY DEF ReplayInv, EffectsDurable
      <4>2. dAcct[tx.from].nonce <= acct[tx.from].nonce
        BY <1>b, <2>1 DEF MemAhead
      <4> QED BY <4>1, <4>2, <2>1, <2>3, <1>a
    <3>6. ExecutedSpent'
      <4> SUFFICES ASSUME NEW i \in DOMAIN executed'
                   PROVE  executed'[i].nonce < acct'[executed'[i].from].nonce
        BY DEF ExecutedSpent
      <4>1. CASE i = Len(executed) + 1
        <5>1. executed'[i] = tx /\ acct'[tx.from].nonce = acct[tx.from].nonce + 1
          BY <4>1, <3>1, <2>1, <2>5
        <5> QED BY <5>1, <2>1, <2>3
      <4>2. CASE i \in DOMAIN executed
        <5>1. executed'[i] = executed[i]
          BY <4>2, <3>1
        <5>2. acct[executed[i].from].nonce <= acct'[executed[i].from].nonce
          BY <4>2, <3>3, <2>6
        <5> QED BY <4>2, <5>1, <5>2, <3>3, <1>a
      <4> QED BY <4>1, <4>2, <3>2
    <3>7. ExecutedDistinct'
      BY <3>1, <3>2, <3>4 DEF ReplayInv, ExecutedDistinct
    <3>8. ExecutedFresh'
      BY <3>1, <3>2, <3>5, <2>4 DEF ReplayInv, ExecutedFresh
    <3>9. ExecutedSaved'
      BY <2>4 DEF ExecutedSaved
    <3>10. EffectsDurable' /\ NoReplay'
      BY <2>4 DEF ReplayInv, EffectsDurable, NoReplay
    <3> QED BY <3>6, <3>7, <3>8, <3>9, <3>10, <2>7, <1>0 DEF ReplayInv
  <2> QED BY <2>2, <2>8, <2>9
<1>8. CASE SkipTx
  BY <1>0, <1>8, <1>a, <1>b DEF SkipTx, mem, disk, MemAhead
<1>9. CASE SealBlock
  BY <1>0, <1>9, <1>a, <1>b DEF SealBlock, work, disk, MemAhead
<1>10. CASE SaveAllAccounts
  <2>1. \A s \in Senders : dAcct'[s].nonce = acct[s].nonce
    BY <1>10, <1>c, SerializedType, SenderAccounts DEF SaveAllAccounts
  <2>2. UNCHANGED <<executed, dTxs, acct>> /\ dAcct' = Serialized(acct) /\ pc = "accounts"
    BY <1>10 DEF SaveAllAccounts, mem, work
  <2> QED BY <2>1, <2>2, <1>0, <1>a, <1>b DEF MemAhead
<1>11. CASE SaveBlock
  BY <1>0, <1>11, <1>a, <1>b DEF SaveBlock, mem, MemAhead
<1>12. CASE SyncError
  BY <1>12 DEF SyncError
<1>21. CASE SyncTxsError
  BY <1>21 DEF SyncTxsError
<1>13. CASE SaveTxIndex
  BY <1>0, <1>13, <1>a, <1>b DEF SaveTxIndex, mem, MemAhead
<1>14. CASE SaveBlockTxs
  <2>1. pc = "index" /\ pc' = "broadcast" /\ UNCHANGED <<acct, dAcct, executed>>
        /\ dTxs' = [dTxs EXCEPT ![height] = executed] /\ height \in Heights
    BY <1>0, <1>14 DEF SaveBlockTxs, mem, work, TypeOK
  <2>2. \A h \in Heights : dTxs'[h] = IF h = height THEN executed ELSE dTxs[h]
    BY <2>1, <1>0 DEF TypeOK
  <2>3. EffectsDurable'
    BY <2>1, <2>2 DEF ReplayInv, EffectsDurable, ExecutedSaved
  <2>4. NoReplay'
    BY <2>1, <2>2 DEF ReplayInv, NoReplay, ExecutedDistinct, ExecutedFresh
  <2> QED BY <2>1, <2>3, <2>4, <1>0 DEF ReplayInv, MemAhead, ExecutedSpent, ExecutedSaved,
             ExecutedDistinct, ExecutedFresh
<1>15. CASE Broadcast
  <2>1. executed' = <<>> /\ pc' = "tick" /\ UNCHANGED <<acct, dAcct, dTxs>>
    BY <1>15 DEF Broadcast, mem, disk
  <2> QED BY <2>1, <1>0 DEF ReplayInv, MemAhead, ExecutedSpent, ExecutedSaved, ExecutedDistinct,
             ExecutedFresh, EffectsDurable, NoReplay
<1>16. CASE Shutdown
  BY <1>0, <1>16, <1>a, <1>b DEF Shutdown, mem, work, disk, MemAhead
<1>17. CASE LastSync
  <2>1. UNCHANGED <<executed, dTxs, acct>> /\ pc' \in {"lastBlock", "down"}
    BY <1>17 DEF LastSync, mem, work
  <2>2. \A s \in Senders : dAcct'[s].nonce = dAcct[s].nonce \/ dAcct'[s].nonce = acct[s].nonce
    BY <1>17, <1>c, SerializedType, SenderAccounts DEF LastSync
  <2> QED BY <2>1, <2>2, <1>0, <1>a, <1>b DEF MemAhead
<1>18. CASE Crash
  BY <1>0, <1>18, <1>a, <1>b DEF Crash, mem, work, disk, MemAhead
<1>19. CASE OpenStore
  <2>1. executed' = <<>> /\ pc' = "tick" /\ UNCHANGED <<dAcct, dTxs>>
    BY <1>19 DEF OpenStore, disk
  <2>2. \A s \in Senders : acct'[s].nonce = dAcct[s].nonce
    BY <1>19, <1>c, DevFundedType, SenderAccounts DEF OpenStore
  <2> QED BY <2>1, <2>2, <1>0, <1>a DEF ReplayInv, MemAhead, ExecutedSpent, ExecutedSaved,
             ExecutedDistinct, ExecutedFresh, EffectsDurable, NoReplay
<1>20. CASE UNCHANGED vars
  BY <1>0, <1>20, <1>a, <1>b DEF vars, mem, work, disk, MemAhead
<1> QED
  BY <1>1, <1>2, <1>3, <1>4, <1>5, <1>6, <1>7, <1>8, <1>9, <1>10, <1>11, <1>12, <1>13,
     <1>14, <1>15, <1>16, <1>17, <1>18, <1>19, <1>20, <1>21
  DEF Next, Loop, Rpc, Stop, AtBound

(* No nonce of a sender is used twice in the stored blocks, and each       *)
(* stored transaction's effect is stored, whatever the pool race loses or  *)
(* repeats and wherever a crash falls between the writes of Sync and       *)
(* SyncTxs; as long as bolt writes succeed and no sender is the revm alias *)
(* of another account.                                                     *)
THEOREM ReplaySafe ==
    ASSUME AliasesDoNotSend, ~SyncMayFail
    PROVE  Spec => [](NoReplay /\ EffectsDurable)
<1>1. Init => ReplayInv
  BY ReplayInit
<1>2. ReplayInv /\ [Next]_vars => ReplayInv'
  BY ReplayNext
<1>3. ReplayInv => NoReplay /\ EffectsDurable
  BY DEF ReplayInv
<1> QED BY <1>1, <1>2, <1>3, PTL DEF Spec
-----------------------------------------------------------------------------
(* Overdrafts. *)

(* No call's result is stored over the account that makes it: revm stores  *)
(* what it leaves of the target under the target's alias.                  *)
CallersKept == \A tx \in Txs : Alias[tx.to] = tx.from => tx.to = tx.from

OverdraftInv == TypeOK /\ OneOverdraft /\ \A x \in Accounts : dAcct[x].bal >= 0

LEMMA CostType ==
    ASSUME NEW tx \in Txs, NEW g \in Nat
    PROVE  Cost(tx, g) \in Nat
BY TxFields, ChainAssumption DEF Cost

LEMMA GasUsedType ==
    ASSUME NEW tx \in Txs
    PROVE  GasUsed(tx) \subseteq Nat
BY TxFields, ChainAssumption DEF GasUsed

(* A balance that is not lower than one within bounds is within bounds. *)
LEMMA WithinUp ==
    ASSUME NEW m \in Int, NEW n \in Int, m <= n, WithinOneCost(m)
    PROVE  WithinOneCost(n)
<1>1. CASE m >= 0
  BY <1>1 DEF WithinOneCost
<1>2. CASE \E tx \in Txs : \E g \in GasUsed(tx) : m + Cost(tx, g) >= 0
  <2>0. PICK tx \in Txs : \E g \in GasUsed(tx) : m + Cost(tx, g) >= 0
    BY <1>2
  <2>1. PICK g \in GasUsed(tx) : m + Cost(tx, g) >= 0
    BY <2>0
  <2>2. Cost(tx, g) \in Nat
    BY CostType, GasUsedType
  <2>3. n + Cost(tx, g) >= 0
    BY <2>1, <2>2
  <2> QED BY <2>3 DEF WithinOneCost
<1> QED BY <1>1, <1>2 DEF WithinOneCost

(* What revm leaves: the caller can pay what revm takes, and no other      *)
(* account is left with less than some account had.                        *)
LEMMA RevmBalances ==
    ASSUME CallersKept, acct \in [Accounts -> AccountType], NEW tx \in Txs, NEW g \in Nat,
           g <= tx.gas, acct[tx.from].bal >= tx.gas + tx.value
    PROVE  /\ RevmState(tx, g)[tx.from].bal >= 0
           /\ \A b \in Accounts : \E y \in Accounts :
                \/ RevmState(tx, g)[b].bal >= 0
                \/ RevmState(tx, g)[b].bal >= acct[y].bal
<1> DEFINE given == IF tx.kind = "deploy" THEN {tx.from} ELSE {tx.from, tx.to}
<1>0. given \subseteq Accounts /\ tx.from \in Accounts /\ tx.to \in Accounts
      /\ tx.gas \in Nat /\ tx.value \in Nat
  BY TxFields
<1>1. ASSUME NEW b \in Accounts, ~ \E x \in given : Alias[x] = b
      PROVE  RevmState(tx, g)[b].bal = acct[b].bal
  BY <1>1 DEF RevmState
<1>2. ASSUME NEW b \in Accounts, \E x \in given : Alias[x] = b
      PROVE  \E w \in given : /\ Alias[w] = b
                              /\ w = tx.from => RevmState(tx, g)[b].bal >= 0
                              /\ w # tx.from => RevmState(tx, g)[b].bal >= acct[w].bal
  <2> DEFINE w == CHOOSE x \in given : Alias[x] = b
  <2>1. w \in given /\ w \in Accounts /\ Alias[w] = b
    BY <1>2, <1>0
  <2>2. RevmState(tx, g)[b].bal =
          acct[w].bal - (IF w = tx.from THEN g + tx.value ELSE 0)
                      + (IF w = tx.to /\ tx.kind = "call" THEN tx.value ELSE 0)
    BY <1>2 DEF RevmState
  <2>3. acct[w].bal \in Int
    BY <2>1 DEF AccountType
  <2> HIDE DEF w
  <2>4. w = tx.from => RevmState(tx, g)[b].bal >= 0
    BY <1>0, <2>2, <2>3
  <2>5. w # tx.from => RevmState(tx, g)[b].bal >= acct[w].bal
    BY <1>0, <2>2, <2>3
  <2> QED BY <2>1, <2>4, <2>5
<1>3. RevmState(tx, g)[tx.from].bal >= 0
  <2>1. CASE \E x \in given : Alias[x] = tx.from
    <3>1. PICK w \in given : /\ Alias[w] = tx.from
                             /\ w = tx.from => RevmState(tx, g)[tx.from].bal >= 0
      BY <1>0, <1>2, <2>1
    <3>2. w = tx.from
      BY <3>1 DEF CallersKept
    <3> QED BY <3>1, <3>2
  <2>2. CASE ~ \E x \in given : Alias[x] = tx.from
    <3>1. acct[tx.from].bal \in Int
      BY <1>0 DEF AccountType
    <3> HIDE DEF given
    <3> QED BY <1>0, <1>1, <2>2, <3>1
  <2> QED BY <2>1, <2>2
<1>4. ASSUME NEW b \in Accounts
      PROVE  \E y \in Accounts : \/ RevmState(tx, g)[b].bal >= 0
                                 \/ RevmState(tx, g)[b].bal >= acct[y].bal
  <2>1. CASE \E x \in given : Alias[x] = b
    <3>1. PICK w \in given : /\ w = tx.from => RevmState(tx, g)[b].bal >= 0
                             /\ w # tx.from => RevmState(tx, g)[b].bal >= acct[w].bal
      BY <1>2, <2>1
    <3>2. w \in Accounts
      BY <1>0
    <3> QED BY <3>1, <3>2
  <2>2. CASE ~ \E x \in given : Alias[x] = b
    <3>1. acct[b].bal \in Int
      BY DEF AccountType
    <3> QED BY <1>1, <2>2, <3>1
  <2> QED BY <2>1, <2>2
<1> QED BY <1>3, <1>4

(* Before the charge the sender is not overdrawn, and nobody has less than *)
(* somebody had.                                                           *)
LEMMA ExecuteBalances ==
    ASSUME CallersKept, acct \in [Accounts -> AccountType], NEW tx \in Txs, NEW r \in Execute(tx),
           acct[tx.from].bal >= 0
    PROVE  /\ r.gas \in GasUsed(tx)
           /\ r.st[tx.from].bal >= 0
           /\ \A b \in Accounts : \E y \in Accounts : \/ r.st[b].bal >= 0
                                                       \/ r.st[b].bal >= acct[y].bal
<1>0. tx.from \in Accounts /\ tx.to \in Accounts /\ tx.value \in Nat /\ tx.gas \in Nat
  BY TxFields
<1>i. \A b \in Accounts : acct[b].bal \in Int
  BY DEF AccountType
<1>1. CASE tx.kind = "transfer"
  <2>1. r.gas = TransferGas
        /\ r.st = IF tx.from = tx.to THEN acct ELSE [acct EXCEPT ![tx.to].bal = @ + tx.value]
    BY <1>1 DEF Execute
  <2>2. \A b \in Accounts : r.st[b].bal >= acct[b].bal /\ r.st[b].bal \in Int
    BY <1>0, <1>i, <2>1 DEF AccountType
  <2>3. r.st[tx.from].bal >= 0
    BY <1>0, <1>i, <2>2
  <2> QED BY <1>1, <2>1, <2>2, <2>3 DEF GasUsed
<1>2. CASE tx.kind = "precompile"
  <2>1. r.gas \in {0, PrecompileGas} /\ (r.st = acct \/ r.st \in PrecompileStates(tx))
    BY <1>2 DEF Execute
  <2>2. \A b \in Accounts : r.st[b].bal >= 0 \/ r.st[b].bal >= acct[b].bal
    BY <1>i, <2>1, PrecompileStatesType
  <2>3. r.st[tx.from].bal \in Int
    BY <1>0, <1>i, <2>1, PrecompileStatesType DEF AccountType
  <2>4. r.st[tx.from].bal >= 0
    BY <1>0, <1>i, <2>2, <2>3
  <2> QED BY <1>2, <2>1, <2>2, <2>4 DEF GasUsed
<1>3. CASE tx.kind \notin {"transfer", "precompile"}
  <2>0. GasUsed(tx) = 0..tx.gas
    BY <1>3 DEF GasUsed
  <2>1. CASE \E g \in 0..tx.gas : r = [err |-> "error", gas |-> g, st |-> acct]
    BY <1>0, <1>i, <2>0, <2>1
  <2>2. CASE /\ acct[tx.from].bal >= tx.gas + tx.value
             /\ \E g \in 1..tx.gas : r = [err |-> "nil", gas |-> g, st |-> RevmState(tx, g)]
    <3>1. PICK g \in 1..tx.gas : r = [err |-> "nil", gas |-> g, st |-> RevmState(tx, g)]
      BY <2>2
    <3>2. g \in Nat /\ g <= tx.gas /\ g \in 0..tx.gas
      BY <1>0
    <3> QED BY <2>0, <2>2, <3>1, <3>2, RevmBalances
  <2> QED BY <1>3, <2>1, <2>2 DEF Execute
<1> QED BY <1>1, <1>2, <1>3

LEMMA OverdraftNext ==
    ASSUME CallersKept
    PROVE  OverdraftInv /\ [Next]_vars => OverdraftInv'
<1> SUFFICES ASSUME OverdraftInv, [Next]_vars PROVE OverdraftInv'
  OBVIOUS
<1>0. TypeOK /\ TypeOK' /\ acct \in [Accounts -> AccountType] /\ dAcct \in [Accounts -> AccountType]
      /\ acct' \in [Accounts -> AccountType] /\ drained \in Nat
  BY TypeNext DEF OverdraftInv, TypeOK
<1>b. OneOverdraft /\ \A x \in Accounts : dAcct[x].bal >= 0
  BY DEF OverdraftInv
<1>i. \A x \in Accounts : acct[x].bal \in Int /\ acct'[x].bal \in Int /\ dAcct[x].bal \in Int
  BY <1>0 DEF AccountType
<1>1. CASE UNCHANGED <<acct, dAcct, drained>>
  BY <1>0, <1>1, <1>b DEF OverdraftInv, OneOverdraft, WithinOneCost
<1>2. CASE UNCHANGED <<acct, drained>> /\ dAcct' = Serialized(acct)
  BY <1>0, <1>2, <1>b, SerializedType DEF OverdraftInv, OneOverdraft, WithinOneCost
<1>3. ASSUME NEW a \in Accounts, NEW n \in FundAmounts, FundGenesis(a, n) PROVE OverdraftInv'
  <2>1. dAcct' = Serialized(acct') /\ drained' = IF n < 0 THEN drained - n ELSE drained
    BY <1>3 DEF FundGenesis
  <2>2. n \in Int /\ drained' \in Int
    BY <1>0, <2>1, ChainAssumption
  <2>3. \A x \in Accounts : acct'[x].bal = IF x = a THEN acct[x].bal + n ELSE acct[x].bal
    BY <1>0, <1>3 DEF FundGenesis, AccountType
  <2>4. ASSUME NEW x \in Accounts PROVE WithinOneCost(acct'[x].bal + drained')
    <3>1. acct[x].bal + drained <= acct'[x].bal + drained'
      BY <1>0, <1>i, <2>1, <2>2, <2>3
    <3>2. WithinOneCost(acct[x].bal + drained)
      BY <1>b DEF OneOverdraft
    <3>3. acct[x].bal + drained \in Int /\ acct'[x].bal + drained' \in Int
      BY <1>0, <1>i, <2>2
    <3> QED BY <3>1, <3>2, <3>3, WithinUp
  <2>5. OneOverdraft'
    BY <2>4 DEF OneOverdraft, WithinOneCost
  <2> QED BY <2>1, <2>5, <1>0, SerializedType DEF OverdraftInv
<1>4. ASSUME NEW a \in Accounts, DeployCode(a) PROVE OverdraftInv'
  <2>1. UNCHANGED <<dAcct, drained>>
    BY <1>4 DEF DeployCode, disk
  <2>2. \A x \in Accounts : acct'[x].bal = acct[x].bal
    BY <1>0, <1>4 DEF DeployCode, AccountType
  <2> QED BY <2>1, <2>2, <1>0, <1>b DEF OverdraftInv, OneOverdraft, WithinOneCost
<1>5. CASE ExecuteTx
  <2> DEFINE tx == Head(batch)
  <2>1. tx \in Txs
    BY <1>0, <1>5, SMTT(30) DEF ExecuteTx, TypeOK
  <2>2. PICK r \in Execute(tx) : acct' = Charge(tx, r)
    BY <1>5 DEF ExecuteTx
  <2>3. acct[tx.from].bal >= TxCost(tx) /\ UNCHANGED <<dAcct, drained>>
    BY <1>5 DEF ExecuteTx, Rechecked, Admissible, disk, env
  <2> HIDE DEF tx
  <2>4. r.st \in [Accounts -> AccountType] /\ r.gas \in Nat
    BY <2>1, <1>0, ExecuteType
  <2>5. TxCost(tx) \in Nat
    <3>1. ExpectedGas(tx) \in Nat
      BY <2>1, TxFields, ChainAssumption DEF ExpectedGas
    <3> QED BY <2>1, <3>1, TxFields, ChainAssumption DEF TxCost
  <2>6. tx.from \in Accounts /\ acct[tx.from].bal >= 0
    BY <2>1, <2>3, <2>5, <1>i, TxFields
  <2>7. /\ r.gas \in GasUsed(tx)
        /\ r.st[tx.from].bal >= 0
        /\ \A b \in Accounts : \E y \in Accounts : \/ r.st[b].bal >= 0
                                                    \/ r.st[b].bal >= acct[y].bal
    BY <2>1, <2>6, <1>0, ExecuteBalances
  <2>8. Cost(tx, r.gas) \in Nat
    BY <2>1, <2>4, CostType
  <2>9. \A x \in Accounts :
          acct'[x].bal = IF x = tx.from THEN r.st[x].bal - Cost(tx, r.gas) ELSE r.st[x].bal
    BY <2>2, <2>4, <2>6 DEF Charge, AccountType
  <2>10. ASSUME NEW x \in Accounts PROVE WithinOneCost(acct'[x].bal + drained)
    <3>0. r.st[x].bal \in Int
      BY <2>4 DEF AccountType
    <3>1. CASE x = tx.from
      <4>1. acct'[x].bal + drained + Cost(tx, r.gas) >= 0
        BY <2>7, <2>8, <2>9, <3>0, <3>1, <1>0
      <4> QED BY <2>1, <2>7, <4>1 DEF WithinOneCost
    <3>2. CASE x # tx.from /\ r.st[x].bal >= 0
      <4>1. acct'[x].bal + drained >= 0
        BY <2>9, <3>0, <3>2, <1>0
      <4> QED BY <4>1 DEF WithinOneCost
    <3>3. CASE x # tx.from /\ \E y \in Accounts : r.st[x].bal >= acct[y].bal
      <4>1. PICK y \in Accounts : r.st[x].bal >= acct[y].bal
        BY <3>3
      <4>2. WithinOneCost(acct[y].bal + drained)
        BY <1>b DEF OneOverdraft
      <4>3. /\ acct[y].bal + drained \in Int /\ acct'[x].bal + drained \in Int
            /\ acct[y].bal + drained <= acct'[x].bal + drained
        BY <2>9, <3>0, <3>3, <4>1, <1>0, <1>i
      <4> QED BY <4>2, <4>3, WithinUp
    <3> QED BY <3>1, <3>2, <3>3, <2>7
  <2>11. OneOverdraft'
    BY <2>3, <2>10 DEF OneOverdraft, WithinOneCost
  <2> QED BY <2>3, <2>11, <1>0, <1>b DEF OverdraftInv
<1>6. CASE OpenStore
  <2>1. acct' = DevFunded(dAcct) /\ UNCHANGED <<dAcct, drained>>
    BY <1>6 DEF OpenStore, disk, env
  <2>2. \A x \in Accounts : acct'[x].bal >= 0
    BY <2>1, <1>b, ChainAssumption DEF DevFunded
  <2>3. \A x \in Accounts : acct'[x].bal + drained' >= 0
    BY <2>1, <2>2, <1>0, <1>i
  <2>4. OneOverdraft'
    BY <2>3 DEF OneOverdraft, WithinOneCost
  <2> QED BY <2>1, <2>4, <1>0, <1>b DEF OverdraftInv
<1>7. ASSUME NEW tx \in Txs, SendRawTransaction(tx) PROVE UNCHANGED <<acct, dAcct, drained>>
  BY <1>7 DEF SendRawTransaction, mem, disk
<1>8. CASE SaveAllAccounts
  BY <1>2, <1>8 DEF SaveAllAccounts, mem, env
<1>9. CASE LastSync
  BY <1>1, <1>2, <1>9 DEF LastSync, mem, env
<1>10. CASE PoolAdd \/ BeginBlock \/ PopConsensus \/ SkipTx \/ SealBlock \/ SaveBlock \/ SyncError
  BY <1>1, <1>10 DEF PoolAdd, BeginBlock, PopConsensus, SkipTx, SealBlock, SaveBlock, SyncError,
     mem, disk, env
<1>11. CASE SyncTxsError \/ SaveTxIndex \/ SaveBlockTxs \/ Broadcast \/ Shutdown \/ Crash
            \/ UNCHANGED vars
  BY <1>1, <1>11 DEF SyncTxsError, SaveTxIndex, SaveBlockTxs, Broadcast, Shutdown, Crash, vars,
     mem, disk, env
<1> QED
  BY <1>1, <1>3, <1>4, <1>5, <1>6, <1>7, <1>8, <1>9, <1>10, <1>11
  DEF Next, Loop, Rpc, Stop, AtBound

(* No account owes more than the cost of one transaction, whatever the     *)
(* gas limits, precompiles, contract calls and fundings, whatever the pool *)
(* repeats and wherever a crash falls: the second balance check, in        *)
(* ProduceBlock, stops a sender that is overdrawn. The hypothesis excludes *)
(* a caller under whose key revm stores the account it calls.              *)
THEOREM OverdrawnOnce ==
    ASSUME CallersKept
    PROVE  Spec => []OneOverdraft
<1>1. Init => OverdraftInv
  <2> SUFFICES ASSUME Init PROVE OverdraftInv
    OBVIOUS
  <2>1. \A x \in Accounts : Genesis[x].bal >= 0 /\ DevFunded(Genesis)[x].bal >= 0
                           /\ DevFunded(Genesis)[x].bal \in Int
    BY ChainAssumption DEF Genesis, DevFunded
  <2>2. \A x \in Accounts : acct[x].bal + drained >= 0
    BY <2>1 DEF Init
  <2> QED BY <2>1, <2>2, TypeInit DEF OverdraftInv, OneOverdraft, WithinOneCost, Init
<1>2. OverdraftInv /\ [Next]_vars => OverdraftInv'
  BY OverdraftNext
<1>3. OverdraftInv => OneOverdraft
  BY DEF OverdraftInv
<1> QED BY <1>1, <1>2, <1>3, PTL DEF Spec
-----------------------------------------------------------------------------
(* The transaction index. *)

(* The stored height is the one in memory, or the one before while a block *)
(* is being built.                                                         *)
HeightsInv ==
    /\ 1 <= dHeight
    /\ pc \in {"pop", "exec", "accounts", "block"} => height = dHeight + 1
    /\ pc \in {"tick", "index", "broadcast", "lastAccounts", "lastBlock"} => height = dHeight

(* Nothing is stored above it, nor at it before SaveBlockTxs. *)
NothingAbove ==
    /\ \A h \in Heights : h > dHeight => dTxs[h] = <<>>
    /\ pc = "index" => dTxs[height] = <<>>
    /\ \A x \in Hashes : dIndex[x].height <= dHeight

(* An entry leads to a transaction with its hash or, where a crash came    *)
(* before SaveBlockTxs, to a height that will never have transactions.     *)
EntryLeads(x) ==
    dIndex[x].height # 0 =>
        /\ 1 <= dIndex[x].pos
        /\ \/ dTxs[dIndex[x].height] = <<>>
           \/ /\ dIndex[x].pos <= Len(dTxs[dIndex[x].height])
              /\ TxHash(dTxs[dIndex[x].height][dIndex[x].pos]) = x

EntriesLead == \A x \in Hashes : EntryLeads(x)

(* SyncTxs: the entries of this height are those of the transactions *)
(* indexed so far.                                                   *)
Indexing ==
    pc = "index" =>
        /\ indexed <= Len(executed)
        /\ \A x \in Hashes : dIndex[x].height = height =>
              dIndex[x].pos \in 1..indexed /\ TxHash(executed[dIndex[x].pos]) = x
        /\ \A i \in 1..indexed :
              dIndex[TxHash(executed[i])] = [height |-> height, pos |-> i]

Findable(x) == LoadTxFromStore(x) # <<>>

(* Every block in memory is findable, or is the one on its way to disk. *)
BlockSettled(k) ==
    \/ pc \in {"accounts", "block", "index"} /\ blocks[k].txs = executed
    \/ \A i \in DOMAIN blocks[k].txs : Findable(TxHash(blocks[k].txs[i]))

BlocksSettled == pc # "down" => \A k \in 1..Len(blocks) : BlockSettled(k)

StoreInv == HeightsInv /\ NothingAbove /\ EntriesLead /\ Indexing /\ BlocksSettled

LEMMA HashFields ==
    ASSUME NEW tx \in Txs, NEW ty \in Txs, TxHash(tx) = TxHash(ty)
    PROVE  tx.from = ty.from /\ tx.nonce = ty.nonce
<1>1. TxHash(tx).from = tx.from /\ TxHash(tx).nonce = tx.nonce
  BY ChainAssumption DEF TxHash, TxType
<1>2. TxHash(ty).from = ty.from /\ TxHash(ty).nonce = ty.nonce
  BY ChainAssumption DEF TxHash, TxType
<1> QED BY <1>1, <1>2

(* What it means that a hash is found. *)
LEMMA FoundEntry ==
    ASSUME TypeOK, EntriesLead, NEW x \in Hashes, Findable(x)
    PROVE  /\ dIndex[x].height \in Heights /\ dIndex[x].height # 0
           /\ dIndex[x].pos \in 1..Len(dTxs[dIndex[x].height])
           /\ TxHash(dTxs[dIndex[x].height][dIndex[x].pos]) = x
           /\ LoadTxFromStore(x) = <<dTxs[dIndex[x].height][dIndex[x].pos]>>
<1>1. dIndex[x].height \in Heights /\ dIndex[x].pos \in Nat
  BY DEF TypeOK
<1>2. dTxs[dIndex[x].height] \in Seq(Txs) /\ Len(dTxs[dIndex[x].height]) \in Nat
  BY <1>1 DEF TypeOK
<1>3. dIndex[x].height # 0 /\ ~(dIndex[x].pos > Len(dTxs[dIndex[x].height]))
  BY DEF Findable, LoadTxFromStore
<1>4. EntryLeads(x)
  BY DEF EntriesLead
<1>5. 1 <= dIndex[x].pos /\ dIndex[x].pos <= Len(dTxs[dIndex[x].height])
  BY <1>1, <1>2, <1>3, <1>4 DEF EntryLeads
<1>6. dTxs[dIndex[x].height] # <<>>
  BY <1>1, <1>2, <1>5
<1>7. TxHash(dTxs[dIndex[x].height][dIndex[x].pos]) = x
  BY <1>3, <1>4, <1>6 DEF EntryLeads
<1>8. LoadTxFromStore(x) = <<dTxs[dIndex[x].height][dIndex[x].pos]>>
  BY <1>3 DEF LoadTxFromStore
<1> QED BY <1>1, <1>2, <1>3, <1>5, <1>7, <1>8

(* Neither SaveTxIndex nor SaveBlockTxs changes an answer: the hash of a   *)
(* transaction that is stored is not executed again, and SaveBlockTxs      *)
(* writes where there was nothing.                                         *)
LEMMA LookupKept ==
    ASSUME ReplayInv, StoreInv, [Next]_vars, NEW x \in Hashes, Findable(x)
    PROVE  LoadTxFromStore(x)' = LoadTxFromStore(x)
<1>0. TypeOK /\ EntriesLead
  BY DEF ReplayInv, StoreInv
<1>f. /\ dIndex[x].height \in Heights /\ dIndex[x].height # 0
      /\ dIndex[x].pos \in 1..Len(dTxs[dIndex[x].height])
      /\ TxHash(dTxs[dIndex[x].height][dIndex[x].pos]) = x
  BY <1>0, FoundEntry
<1>1. CASE UNCHANGED <<dIndex, dTxs>>
  BY <1>1 DEF LoadTxFromStore
<1>2. CASE SaveTxIndex
  <2>1. pc = "index" /\ indexed < Len(executed) /\ dTxs' = dTxs
        /\ dIndex' = [dIndex EXCEPT ![TxHash(executed[indexed + 1])] = IndexEntry]
    BY <1>2 DEF SaveTxIndex
  <2>2. indexed + 1 \in DOMAIN executed /\ executed[indexed + 1] \in Txs
    BY <1>0, <2>1 DEF TypeOK
  <2>3. dTxs[dIndex[x].height] \in Seq(Txs)
    BY <1>0, <1>f DEF TypeOK
  <2>4. dIndex[x].pos \in DOMAIN dTxs[dIndex[x].height] /\ dTxs[dIndex[x].height][dIndex[x].pos] \in Txs
    BY <1>f, <2>3
  <2>5. TxHash(executed[indexed + 1]) # x
    <3> SUFFICES ASSUME TxHash(executed[indexed + 1]) = x PROVE FALSE
      OBVIOUS
    <3>1. dTxs[dIndex[x].height][dIndex[x].pos].from = executed[indexed + 1].from
          /\ dTxs[dIndex[x].height][dIndex[x].pos].nonce = executed[indexed + 1].nonce
      BY <1>f, <2>2, <2>4, HashFields
    <3> QED BY <1>f, <2>1, <2>2, <2>4, <3>1 DEF ReplayInv, ExecutedFresh
  <2>6. dIndex'[x] = dIndex[x]
    BY <1>0, <2>1, <2>5 DEF TypeOK
  <2> QED BY <2>1, <2>6 DEF LoadTxFromStore
<1>3. CASE SaveBlockTxs
  <2>1. pc = "index" /\ dIndex' = dIndex /\ dTxs' = [dTxs EXCEPT ![height] = executed]
    BY <1>3 DEF SaveBlockTxs
  <2>2. dTxs[height] = <<>>
    BY <2>1 DEF StoreInv, NothingAbove
  <2>3. dIndex[x].height # height
    BY <1>f, <2>2
  <2>4. dTxs'[dIndex[x].height] = dTxs[dIndex[x].height]
    BY <1>0, <1>f, <2>1, <2>3 DEF TypeOK
  <2> QED BY <2>1, <2>4 DEF LoadTxFromStore
<1> QED
  BY <1>1, <1>2, <1>3
  DEF Next, Loop, Rpc, Stop, AtBound, vars, disk, SendRawTransaction, PoolAdd, FundGenesis,
      DeployCode, BeginBlock, PopConsensus, ExecuteTx, SkipTx, SealBlock, SaveAllAccounts,
      SaveBlock, SyncError, SyncTxsError, Broadcast, Shutdown, LastSync, Crash, OpenStore

LEMMA FindableKept ==
    ASSUME ReplayInv, StoreInv, [Next]_vars, NEW x \in Hashes, Findable(x)
    PROVE  Findable(x)'
<1>1. LoadTxFromStore(x)' = LoadTxFromStore(x)
  BY LookupKept
<1> QED BY <1>1 DEF Findable

LEMMA BlockTxHash ==
    ASSUME TypeOK, NEW k \in 1..Len(blocks), NEW i \in DOMAIN blocks[k].txs
    PROVE  TxHash(blocks[k].txs[i]) \in Hashes
<1>1. blocks[k] \in BlockType
  BY DEF TypeOK
<1>2. blocks[k].txs \in Seq(Txs)
  BY <1>1 DEF BlockType
<1>3. blocks[k].txs[i] \in Txs
  BY <1>2
<1> QED BY <1>3, TxFields

(* A step that changes neither the blocks in memory nor what is stored of  *)
(* them, and finishes no block.                                            *)
LEMMA QuietStep ==
    ASSUME StoreInv, UNCHANGED <<blocks, dHeight, dIndex, dTxs>>, HeightsInv',
           pc' = "index" => pc = "index" /\ UNCHANGED <<height, executed, indexed>>,
           pc' # "down" => pc # "down",
           pc' # "down" /\ pc \in {"accounts", "block", "index"} =>
             pc' \in {"accounts", "block", "index"} /\ executed' = executed
    PROVE  StoreInv'
<1>1. NothingAbove'
  BY DEF StoreInv, NothingAbove
<1>2. EntriesLead'
  BY DEF StoreInv, EntriesLead, EntryLeads
<1>3. Indexing'
  BY DEF StoreInv, Indexing
<1>4. BlocksSettled'
  <2> SUFFICES ASSUME pc' # "down", NEW k \in 1..Len(blocks) PROVE BlockSettled(k)'
    BY DEF BlocksSettled
  <2>1. BlockSettled(k)
    BY DEF StoreInv, BlocksSettled
  <2> QED BY <2>1 DEF BlockSettled, Findable, LoadTxFromStore
<1> QED BY <1>1, <1>2, <1>3, <1>4 DEF StoreInv

(* SaveBlock: the entries that are there are of lower heights. *)
LEMMA StoreSaveBlock ==
    ASSUME TypeOK, StoreInv, SaveBlock PROVE StoreInv'
<1>0. dHeight \in Nat /\ height = dHeight + 1 /\ dHeight' = height /\ height' = height
      /\ UNCHANGED <<blocks, executed, dIndex, dTxs>> /\ indexed' = 0
      /\ pc = "block" /\ pc' = IF executed = <<>> THEN "broadcast" ELSE "index"
  BY ChainAssumption DEF SaveBlock, SyncTxsStart, mem, TypeOK, Heights, StoreInv, HeightsInv
<1>1. HeightsInv'
  BY <1>0 DEF StoreInv, HeightsInv
<1>2. NothingAbove'
  <2>1. \A x \in Hashes : dIndex[x].height \in Nat
    BY ChainAssumption DEF TypeOK, Heights
  <2>2. \A h \in Heights : h > height => h > dHeight
    BY <1>0, ChainAssumption DEF Heights
  <2>3. height \in Heights /\ height > dHeight
    BY <1>0 DEF TypeOK
  <2> QED BY <1>0, <2>1, <2>2, <2>3 DEF StoreInv, NothingAbove
<1>3. EntriesLead'
  BY <1>0 DEF StoreInv, EntriesLead, EntryLeads
<1>4. Indexing'
  <2>1. \A x \in Hashes : dIndex[x].height # height
    <3>1. \A x \in Hashes : dIndex[x].height \in Nat /\ dIndex[x].height <= dHeight
      BY ChainAssumption DEF TypeOK, Heights, StoreInv, NothingAbove
    <3> QED BY <1>0, <3>1
  <2>2. 0 <= Len(executed)
    BY DEF TypeOK
  <2> QED BY <1>0, <2>1, <2>2 DEF Indexing
<1>5. BlocksSettled'
  <2> SUFFICES ASSUME NEW k \in 1..Len(blocks) PROVE BlockSettled(k)'
    BY <1>0 DEF BlocksSettled
  <2>1. BlockSettled(k)
    BY <1>0 DEF StoreInv, BlocksSettled
  <2>2. CASE blocks[k].txs = executed
    <3>1. executed = <<>> => DOMAIN blocks[k].txs = {}
      BY <2>2
    <3>2. executed # <<>> => pc' = "index"
      BY <1>0
    <3> QED BY <1>0, <2>2, <3>1, <3>2 DEF BlockSettled
  <2>3. CASE \A i \in DOMAIN blocks[k].txs : Findable(TxHash(blocks[k].txs[i]))
    <3>1. \A x : Findable(x)' <=> Findable(x)
      BY <1>0 DEF Findable, LoadTxFromStore
    <3> QED BY <1>0, <2>3, <3>1 DEF BlockSettled
  <2> QED BY <2>1, <2>2, <2>3 DEF BlockSettled
<1> QED BY <1>1, <1>2, <1>3, <1>4, <1>5 DEF StoreInv

LEMMA StoreSaveTxIndex ==
    ASSUME ReplayInv, TypeOK', StoreInv, SaveTxIndex PROVE StoreInv'
<1>0. TypeOK /\ HeightsInv /\ NothingAbove /\ EntriesLead /\ Indexing /\ BlocksSettled
  BY DEF ReplayInv, StoreInv
<1>1. /\ pc = "index" /\ pc' = pc /\ indexed < Len(executed) /\ indexed' = indexed + 1
      /\ UNCHANGED <<height, blocks, executed, dHeight, dTxs>>
      /\ dIndex' = [dIndex EXCEPT ![TxHash(executed[indexed + 1])] = IndexEntry]
  BY DEF SaveTxIndex, mem
<1>2. /\ height = dHeight /\ height \in Nat /\ 1 <= height /\ height \in Heights
      /\ indexed \in Nat /\ executed \in Seq(Txs) /\ Len(executed) \in Nat
  BY <1>0, <1>1, ChainAssumption DEF TypeOK, HeightsInv, Heights
<1>3. \A i \in 1..Len(executed) : executed[i] \in Txs /\ TxHash(executed[i]) \in Hashes
  BY <1>2, TxFields
<1>4. PICK y \in Hashes : y = TxHash(executed[indexed + 1])
  BY <1>1, <1>2, <1>3
<1>5. dIndex'[y] = [height |-> height, pos |-> indexed + 1]
      /\ \A x \in Hashes \ {y} : dIndex'[x] = dIndex[x]
  BY <1>0, <1>1, <1>4 DEF TypeOK, IndexEntry
<1>6. dTxs[height] = <<>>
  BY <1>0, <1>1 DEF NothingAbove
<1>7. HeightsInv'
  BY <1>0, <1>1 DEF HeightsInv
<1>8. NothingAbove'
  BY <1>0, <1>1, <1>2, <1>5 DEF NothingAbove
<1>9. EntriesLead'
  <2> SUFFICES ASSUME NEW x \in Hashes PROVE EntryLeads(x)'
    BY DEF EntriesLead
  <2>1. CASE x = y
    <3>1. dIndex'[x].height = height /\ dIndex'[x].pos = indexed + 1
      BY <1>5, <2>1
    <3>2. 1 <= indexed + 1
      BY <1>2
    <3> QED BY <1>1, <1>6, <3>1, <3>2 DEF EntryLeads
  <2>2. CASE x # y
    BY <1>0, <1>1, <1>5, <2>2 DEF EntriesLead, EntryLeads
  <2> QED BY <2>1, <2>2
<1>10. Indexing'
  <2>1. indexed + 1 <= Len(executed)
    BY <1>1, <1>2
  <2>2. ASSUME NEW x \in Hashes, dIndex'[x].height = height
        PROVE  dIndex'[x].pos \in 1..(indexed + 1) /\ TxHash(executed[dIndex'[x].pos]) = x
    <3>1. CASE x = y
      <4>1. dIndex'[x].pos = indexed + 1 /\ indexed + 1 \in 1..(indexed + 1)
        BY <1>2, <1>5, <3>1
      <4> QED BY <1>4, <3>1, <4>1
    <3>2. CASE x # y
      <4>1. dIndex'[x] = dIndex[x]
        BY <1>5, <3>2
      <4>2. dIndex[x].pos \in 1..indexed /\ TxHash(executed[dIndex[x].pos]) = x
        BY <1>0, <1>1, <2>2, <4>1 DEF Indexing
      <4> QED BY <1>2, <4>1, <4>2
    <3> QED BY <3>1, <3>2
  <2>3. ASSUME NEW i \in 1..(indexed + 1)
        PROVE  dIndex'[TxHash(executed[i])] = [height |-> height, pos |-> i]
    <3>1. CASE i = indexed + 1
      BY <1>4, <1>5, <3>1
    <3>2. CASE i # indexed + 1
      <4>1. i \in 1..indexed /\ i \in 1..Len(executed) /\ indexed + 1 \in 1..Len(executed)
        BY <1>1, <1>2, <3>2
      <4>2. TxHash(executed[i]) # y
        <5> SUFFICES ASSUME TxHash(executed[i]) = y PROVE FALSE
          OBVIOUS
        <5>1. executed[i].from = executed[indexed + 1].from
              /\ executed[i].nonce = executed[indexed + 1].nonce
          BY <1>3, <1>4, <4>1, HashFields
        <5>2. i \in DOMAIN executed /\ indexed + 1 \in DOMAIN executed
          BY <1>2, <4>1
        <5> QED BY <3>2, <5>1, <5>2 DEF ReplayInv, ExecutedDistinct
      <4>3. dIndex'[TxHash(executed[i])] = dIndex[TxHash(executed[i])]
        BY <1>3, <1>5, <4>1, <4>2
      <4> QED BY <1>0, <1>1, <4>1, <4>3 DEF Indexing
    <3> QED BY <3>1, <3>2
  <2> QED BY <1>1, <2>1, <2>2, <2>3 DEF Indexing
<1>11. BlocksSettled'
  <2> SUFFICES ASSUME NEW k \in 1..Len(blocks) PROVE BlockSettled(k)'
    BY <1>1 DEF BlocksSettled
  <2>1. CASE blocks[k].txs = executed
    BY <1>1, <2>1 DEF BlockSettled
  <2>2. CASE blocks[k].txs # executed
    <3>1. \A i \in DOMAIN blocks[k].txs : Findable(TxHash(blocks[k].txs[i]))
      BY <1>0, <1>1, <2>2 DEF BlocksSettled, BlockSettled
    <3>2. ASSUME NEW i \in DOMAIN blocks[k].txs PROVE Findable(TxHash(blocks[k].txs[i]))'
      <4>1. PICK x \in Hashes : x = TxHash(blocks[k].txs[i])
        BY <1>0, BlockTxHash
      <4>2. [Next]_vars
        BY DEF Next, Loop
      <4>3. Findable(x)'
        BY <3>1, <4>1, <4>2, FindableKept
      <4>4. TxHash(blocks'[k].txs[i]) = x
        BY <1>1, <4>1
      <4> QED BY <4>3, <4>4
    <3> QED BY <1>1, <3>2 DEF BlockSettled
  <2> QED BY <2>1, <2>2
<1> QED BY <1>7, <1>8, <1>9, <1>10, <1>11 DEF StoreInv

LEMMA StoreSaveBlockTxs ==
    ASSUME ReplayInv, TypeOK', StoreInv, SaveBlockTxs PROVE StoreInv'
<1>0. TypeOK /\ HeightsInv /\ NothingAbove /\ EntriesLead /\ Indexing /\ BlocksSettled
  BY DEF ReplayInv, StoreInv
<1>1. /\ pc = "index" /\ pc' = "broadcast" /\ indexed = Len(executed)
      /\ UNCHANGED <<height, blocks, executed, indexed, dHeight, dIndex>>
      /\ dTxs' = [dTxs EXCEPT ![height] = executed]
  BY DEF SaveBlockTxs, mem, work
<1>2. /\ height = dHeight /\ height \in Nat /\ 1 <= height /\ height \in Heights
      /\ executed \in Seq(Txs) /\ Len(executed) \in Nat
  BY <1>0, <1>1, ChainAssumption DEF TypeOK, HeightsInv, Heights
<1>3. dTxs'[height] = executed /\ \A h \in Heights \ {height} : dTxs'[h] = dTxs[h]
  BY <1>0, <1>1, <1>2 DEF TypeOK
<1>4. HeightsInv'
  BY <1>0, <1>1 DEF HeightsInv
<1>5. NothingAbove'
  <2>1. \A h \in Heights : h > dHeight => h # height
    BY <1>2
  <2> QED BY <1>0, <1>1, <1>3, <2>1 DEF NothingAbove
<1>6. EntriesLead'
  <2> SUFFICES ASSUME NEW x \in Hashes PROVE EntryLeads(x)'
    BY DEF EntriesLead
  <2>0. dIndex[x].height \in Heights /\ dIndex[x].pos \in Nat
    BY <1>0 DEF TypeOK
  <2>1. CASE dIndex[x].height = height
    <3>1. dIndex[x].pos \in 1..Len(executed) /\ TxHash(executed[dIndex[x].pos]) = x
      BY <1>0, <1>1, <2>1 DEF Indexing
    <3> QED BY <1>1, <1>3, <2>0, <2>1, <3>1 DEF EntryLeads
  <2>2. CASE dIndex[x].height # height
    <3>1. EntryLeads(x) /\ dTxs'[dIndex[x].height] = dTxs[dIndex[x].height]
      BY <1>0, <1>3, <2>0, <2>2 DEF EntriesLead
    <3> QED BY <1>1, <3>1 DEF EntryLeads
  <2> QED BY <2>1, <2>2
<1>7. Indexing'
  BY <1>1 DEF Indexing
<1>8. BlocksSettled'
  <2> SUFFICES ASSUME NEW k \in 1..Len(blocks) PROVE BlockSettled(k)'
    BY <1>1 DEF BlocksSettled
  <2> SUFFICES ASSUME NEW i \in DOMAIN blocks[k].txs PROVE Findable(TxHash(blocks[k].txs[i]))'
    BY <1>1 DEF BlockSettled
  <2>1. PICK x \in Hashes : x = TxHash(blocks[k].txs[i])
    BY <1>0, BlockTxHash
  <2>2. TxHash(blocks'[k].txs[i]) = x
    BY <1>1, <2>1
  <2>3. Findable(x)'
    <3>1. CASE blocks[k].txs = executed
      <4>1. i \in 1..Len(executed) /\ executed[i] = blocks[k].txs[i]
        BY <1>2, <3>1
      <4>2. dIndex'[x] = [height |-> height, pos |-> i]
        BY <1>0, <1>1, <2>1, <4>1 DEF Indexing
      <4>3. dIndex'[x].height = height /\ dIndex'[x].pos = i /\ height # 0
            /\ ~(i > Len(dTxs'[height]))
        BY <1>2, <1>3, <4>1, <4>2
      <4> QED BY <4>3 DEF Findable, LoadTxFromStore
    <3>2. CASE blocks[k].txs # executed
      <4>1. Findable(x)
        BY <1>0, <1>1, <2>1, <3>2 DEF BlocksSettled, BlockSettled
      <4>2. [Next]_vars
        BY DEF Next, Loop
      <4> QED BY <4>1, <4>2, FindableKept
    <3> QED BY <3>1, <3>2
  <2> QED BY <2>2, <2>3
<1> QED BY <1>4, <1>5, <1>6, <1>7, <1>8 DEF StoreInv

LEMMA StoreNext ==
    ASSUME ~SyncMayFail, ReplayInv, StoreInv, [Next]_vars
    PROVE  StoreInv'
<1>0. TypeOK /\ HeightsInv /\ NothingAbove /\ EntriesLead /\ Indexing /\ BlocksSettled
  BY DEF ReplayInv, StoreInv
<1>t. TypeOK'
  BY <1>0, TypeNext
<1>n. dHeight \in Nat /\ height \in Nat
  BY <1>0, ChainAssumption DEF TypeOK, Heights
<1>1. CASE UNCHANGED <<blocks, dHeight, dIndex, dTxs, height, executed, indexed, pc>>
  <2>1. HeightsInv'
    BY <1>0, <1>1 DEF HeightsInv
  <2> QED BY <1>1, <2>1, QuietStep
<1>2. CASE BeginBlock
  <2>1. /\ pc = "tick" /\ pc' = "pop" /\ height' = height + 1
        /\ UNCHANGED <<blocks, dHeight, dIndex, dTxs>>
    BY <1>2 DEF BeginBlock, disk
  <2>2. HeightsInv'
    BY <1>0, <1>n, <2>1 DEF HeightsInv
  <2> QED BY <2>1, <2>2, QuietStep
<1>3. CASE PopConsensus
  <2>1. pc = "pop" /\ pc' = "exec" /\ UNCHANGED <<blocks, dHeight, dIndex, dTxs, height>>
    BY <1>3 DEF PopConsensus, disk
  <2>2. HeightsInv'
    BY <1>0, <2>1 DEF HeightsInv
  <2> QED BY <2>1, <2>2, QuietStep
<1>4. CASE ExecuteTx
  <2>1. pc = "exec" /\ pc' = "exec" /\ UNCHANGED <<blocks, dHeight, dIndex, dTxs, height>>
    BY <1>4 DEF ExecuteTx, disk
  <2>2. HeightsInv'
    BY <1>0, <2>1 DEF HeightsInv
  <2> QED BY <2>1, <2>2, QuietStep
<1>5. CASE SealBlock
  <2>1. /\ pc = "exec" /\ pc' = "accounts"
        /\ UNCHANGED <<executed, dHeight, dIndex, dTxs, height>>
        /\ blocks' = Append(blocks, [txs |-> executed, hash |-> "real"])
    BY <1>5 DEF SealBlock, work, disk
  <2>2. HeightsInv' /\ NothingAbove' /\ EntriesLead' /\ Indexing'
    BY <1>0, <2>1 DEF HeightsInv, NothingAbove, EntriesLead, EntryLeads, Indexing
  <2>3. BlocksSettled'
    <3> SUFFICES ASSUME NEW k \in 1..Len(blocks') PROVE BlockSettled(k)'
      BY DEF BlocksSettled
    <3>1. blocks \in Seq(BlockType) /\ [txs |-> executed, hash |-> "real"] \in BlockType
      BY <1>0 DEF TypeOK, BlockType
    <3>2. CASE k = Len(blocks')
      <4>1. blocks'[k] = [txs |-> executed, hash |-> "real"]
        BY <2>1, <3>1, <3>2
      <4> QED BY <2>1, <4>1 DEF BlockSettled
    <3>3. CASE k # Len(blocks')
      <4>1. k \in 1..Len(blocks) /\ blocks'[k] = blocks[k]
        BY <2>1, <3>1, <3>3
      <4>2. \A i \in DOMAIN blocks[k].txs : Findable(TxHash(blocks[k].txs[i]))
        BY <1>0, <2>1, <4>1 DEF BlocksSettled, BlockSettled
      <4> QED BY <2>1, <4>1, <4>2 DEF BlockSettled, Findable, LoadTxFromStore
    <3> QED BY <3>2, <3>3
  <2> QED BY <2>2, <2>3 DEF StoreInv
<1>6. CASE SaveAllAccounts
  <2>1. pc = "accounts" /\ pc' = "block"
        /\ UNCHANGED <<blocks, dHeight, dIndex, dTxs, height, executed>>
    BY <1>6 DEF SaveAllAccounts, mem, work
  <2>2. HeightsInv'
    BY <1>0, <2>1 DEF HeightsInv
  <2> QED BY <2>1, <2>2, QuietStep
<1>7. CASE SaveBlock
  BY <1>0, <1>7, StoreSaveBlock
<1>8. CASE SyncError \/ SyncTxsError
  BY <1>8 DEF SyncError, SyncTxsError
<1>9. CASE SaveTxIndex
  BY <1>9, <1>t, StoreSaveTxIndex
<1>10. CASE SaveBlockTxs
  BY <1>10, <1>t, StoreSaveBlockTxs
<1>11. CASE Broadcast
  <2>1. pc = "broadcast" /\ pc' = "tick" /\ UNCHANGED <<blocks, dHeight, dIndex, dTxs, height>>
    BY <1>11 DEF Broadcast, mem, disk
  <2>2. HeightsInv'
    BY <1>0, <2>1 DEF HeightsInv
  <2> QED BY <2>1, <2>2, QuietStep
<1>12. CASE Shutdown \/ Crash
  <2>1. /\ (pc = "tick" /\ pc' = "lastAccounts") \/ pc' = "down"
        /\ UNCHANGED <<blocks, dHeight, dIndex, dTxs, height>>
    BY <1>12 DEF Shutdown, Crash, mem, disk
  <2>2. HeightsInv'
    BY <1>0, <2>1 DEF HeightsInv
  <2> QED BY <2>1, <2>2, QuietStep
<1>13. CASE LastSync
  <2>1. /\ (pc = "lastAccounts" /\ pc' = "lastBlock" /\ dHeight' = dHeight)
           \/ (pc = "lastBlock" /\ pc' = "down" /\ dHeight' = height)
        /\ UNCHANGED <<blocks, dIndex, dTxs, height>>
    BY <1>13 DEF LastSync, mem
  <2>2. dHeight' = dHeight
    BY <1>0, <2>1 DEF HeightsInv
  <2>3. HeightsInv'
    BY <1>0, <2>1, <2>2 DEF HeightsInv
  <2> QED BY <2>1, <2>2, <2>3, QuietStep
<1>14. CASE OpenStore
  <2>1. pc' = "tick" /\ height' = dHeight /\ UNCHANGED <<dHeight, dIndex, dTxs>>
        /\ blocks' = [i \in 1..Least(ReloadBlocks, Cardinality(StoredHeights)) |->
                        [txs |-> <<>>, hash |-> "zero"]]
    BY <1>14 DEF OpenStore, LoadedHeight, disk
  <2>2. HeightsInv' /\ NothingAbove' /\ EntriesLead' /\ Indexing'
    BY <1>0, <2>1 DEF HeightsInv, NothingAbove, EntriesLead, EntryLeads, Indexing
  <2>3. BlocksSettled'
    <3> SUFFICES ASSUME NEW k \in 1..Len(blocks') PROVE BlockSettled(k)'
      BY DEF BlocksSettled
    <3>1. k \in DOMAIN blocks'
      BY <1>t, SMTT(30) DEF TypeOK
    <3>2. blocks'[k] = [txs |-> <<>>, hash |-> "zero"]
      BY <2>1, <3>1
    <3> QED BY <3>2 DEF BlockSettled
  <2> QED BY <2>2, <2>3 DEF StoreInv
<1>15. ASSUME NEW tx \in Txs, SendRawTransaction(tx) PROVE StoreInv'
  BY <1>1, <1>15 DEF SendRawTransaction, mem, work, disk
<1>16. ASSUME NEW a \in Accounts, (\E n \in FundAmounts : FundGenesis(a, n)) \/ DeployCode(a)
       PROVE  StoreInv'
  BY <1>1, <1>16 DEF FundGenesis, DeployCode, mem, work, disk
<1>17. CASE PoolAdd \/ SkipTx \/ UNCHANGED vars
  BY <1>1, <1>17 DEF PoolAdd, SkipTx, vars, mem, work, disk
<1> QED
  BY <1>2, <1>3, <1>4, <1>5, <1>6, <1>7, <1>8, <1>9, <1>10, <1>11, <1>12, <1>13, <1>14, <1>15,
     <1>16, <1>17
  DEF Next, Loop, Rpc, Stop, AtBound

LEMMA StoreInit == Init => StoreInv
<1> SUFFICES ASSUME Init PROVE StoreInv
  OBVIOUS
<1>1. HeightsInv
  BY DEF Init, HeightsInv
<1>2. NothingAbove /\ EntriesLead /\ Indexing
  BY DEF Init, NothingAbove, EntriesLead, EntryLeads, Indexing, NoEntry
<1>3. BlocksSettled
  BY DEF Init, BlocksSettled, BlockSettled
<1> QED BY <1>1, <1>2, <1>3 DEF StoreInv

(* The index's invariant, under the same hypotheses as ReplaySafe. *)
LEMMA StoreCorrect ==
    ASSUME AliasesDoNotSend, ~SyncMayFail
    PROVE  Spec => [](ReplayInv /\ StoreInv)
<1>1. Init => ReplayInv /\ StoreInv
  BY ReplayInit, StoreInit
<1>2. ReplayInv /\ StoreInv /\ [Next]_vars => ReplayInv' /\ StoreInv'
  BY ReplayNext, StoreNext
<1> QED BY <1>1, <1>2, PTL DEF Spec

(* A stored transaction is one whose effect is stored, wherever a crash    *)
(* falls: Sync saves the accounts before SyncTxs saves the transactions.   *)
THEOREM EffectsAreDurable ==
    ASSUME AliasesDoNotSend, ~SyncMayFail
    PROVE  Spec => []EffectsDurable
<1>1. ReplayInv /\ StoreInv => EffectsDurable
  BY DEF ReplayInv
<1> QED BY <1>1, StoreCorrect, PTL

(* What LoadTxFromStore returns for a hash has that hash, also where a     *)
(* crash has left index entries whose block was never stored.              *)
THEOREM IndexIsSound ==
    ASSUME AliasesDoNotSend, ~SyncMayFail
    PROVE  Spec => []IndexSound
<1>1. ReplayInv /\ StoreInv => IndexSound
  <2> SUFFICES ASSUME ReplayInv, StoreInv, NEW x \in Hashes, LoadTxFromStore(x) # <<>>
               PROVE  TxHash(LoadTxFromStore(x)[1]) = x
    BY DEF IndexSound
  <2>1. TypeOK /\ EntriesLead /\ Findable(x)
    BY DEF ReplayInv, StoreInv, Findable
  <2> QED BY <2>1, FoundEntry
<1> QED BY <1>1, StoreCorrect, PTL

(* At a tick, and through a shutdown from there, every transaction of the  *)
(* blocks in memory can be loaded from the store.                          *)
THEOREM SettledIsFindable ==
    ASSUME AliasesDoNotSend, ~SyncMayFail
    PROVE  Spec => []SettledFindable
<1>1. ReplayInv /\ StoreInv => SettledFindable
  BY DEF StoreInv, BlocksSettled, BlockSettled, Findable, SettledFindable
<1> QED BY <1>1, StoreCorrect, PTL

(* What a client was once told about a stored transaction never changes,   *)
(* over later blocks, crashes and restarts.                                *)
THEOREM LookupIsStable ==
    ASSUME AliasesDoNotSend, ~SyncMayFail
    PROVE  Spec => LookupStable
<1>1. ReplayInv /\ StoreInv /\ [Next]_vars =>
        [\A x \in Hashes : LoadTxFromStore(x) # <<>>
            => LoadTxFromStore(x)' = LoadTxFromStore(x)]_vars
  BY LookupKept DEF Findable
<1> QED BY <1>1, StoreCorrect, PTL DEF Spec, LookupStable

-----------------------------------------------------------------------------
(* The buckets implement TxLedger. *)

(* Two transactions that lookups return do not share a sender and a nonce: *)
(* they would be one stored transaction.                                   *)
LEMMA SettledOneUse == ReplayInv /\ StoreInv => TL!OneUse(Settled)
<1> SUFFICES ASSUME ReplayInv, StoreInv, NEW t \in Settled, NEW u \in Settled,
                    t.from = u.from, t.nonce = u.nonce
             PROVE  t = u
  BY DEF TL!OneUse
<1>1. TypeOK /\ EntriesLead
  BY DEF ReplayInv, StoreInv
<1>2. ASSUME NEW w \in Settled
      PROVE  \E h \in Heights : \E i \in DOMAIN dTxs[h] : dTxs[h][i] = w
  <2>1. w \in Txs /\ TxHash(w) \in Hashes /\ LoadTxFromStore(TxHash(w)) = <<w>>
    BY TxFields DEF Settled
  <2>2. PICK x \in Hashes : x = TxHash(w)
    BY <2>1
  <2>3. Findable(x) /\ LoadTxFromStore(x) = <<w>>
    <3>1. LoadTxFromStore(x) = <<w>>
      BY <2>1, <2>2
    <3>2. <<w>> # <<>>
      OBVIOUS
    <3> QED BY <3>1, <3>2 DEF Findable
  <2>4. /\ dIndex[x].height \in Heights
        /\ dIndex[x].pos \in 1..Len(dTxs[dIndex[x].height])
        /\ LoadTxFromStore(x) = <<dTxs[dIndex[x].height][dIndex[x].pos]>>
    BY <1>1, <2>3, FoundEntry
  <2>5. dTxs[dIndex[x].height] \in Seq(Txs)
    BY <1>1, <2>4 DEF TypeOK
  <2>6. dIndex[x].pos \in DOMAIN dTxs[dIndex[x].height]
    BY <2>4, <2>5
  <2>7. dTxs[dIndex[x].height][dIndex[x].pos] = w
    BY <2>3, <2>4
  <2> QED BY <2>4, <2>6, <2>7
<1>3. PICK g \in Heights : \E i \in DOMAIN dTxs[g] : dTxs[g][i] = t
  BY <1>2
<1>4. PICK i \in DOMAIN dTxs[g] : dTxs[g][i] = t
  BY <1>3
<1>5. PICK h \in Heights : \E j \in DOMAIN dTxs[h] : dTxs[h][j] = u
  BY <1>2
<1>6. PICK j \in DOMAIN dTxs[h] : dTxs[h][j] = u
  BY <1>5
<1>7. g = h /\ i = j
  BY <1>4, <1>6 DEF ReplayInv, NoReplay
<1> QED BY <1>4, <1>6, <1>7

(* What the node answers about settled transactions implements TxLedger:   *)
(* every step of the loop, of a handler, of a crash or of a restart adds   *)
(* the transactions of a block to the answers or leaves them alone.        *)
THEOREM ImplementsLedger ==
    ASSUME AliasesDoNotSend, ~SyncMayFail
    PROVE  Spec => ImplementsTxLedger
<1>1. Init => TL!Init
  <2> SUFFICES ASSUME Init, NEW tx \in Txs PROVE LoadTxFromStore(TxHash(tx)) # <<tx>>
    BY DEF TL!Init, Settled
  <2>1. dIndex[TxHash(tx)].height = 0
    BY TxFields DEF Init, NoEntry
  <2>2. LoadTxFromStore(TxHash(tx)) = <<>>
    BY <2>1 DEF LoadTxFromStore
  <2> QED BY <2>2
<1>2. ReplayInv /\ StoreInv /\ TL!OneUse(Settled)' /\ [Next]_vars => [TL!Next]_Settled
  <2> SUFFICES ASSUME ReplayInv, StoreInv, TL!OneUse(Settled)', [Next]_vars PROVE TL!Next
    OBVIOUS
  <2>1. ASSUME NEW tx \in Settled PROVE tx \in Settled'
    <3>1. tx \in Txs /\ LoadTxFromStore(TxHash(tx)) = <<tx>>
      BY DEF Settled
    <3>2. PICK x \in Hashes : x = TxHash(tx)
      BY <3>1, TxFields
    <3>3. LoadTxFromStore(x)' = <<tx>>
      BY <3>1, <3>2, LookupKept DEF Findable
    <3> QED BY <3>1, <3>2, <3>3 DEF Settled
  <2> DEFINE block == Settled' \ Settled
  <2>2. block \in SUBSET (Txs \ Settled)
    BY DEF Settled
  <2>3. Settled' = Settled \cup block
    BY <2>1
  <2>4. TL!OneUse(Settled \cup block)
    BY <2>3 DEF TL!OneUse
  <2>5. TL!Settle(block)
    BY <2>3, <2>4 DEF TL!Settle
  <2> QED BY <2>2, <2>5 DEF TL!Next
<1>3. ReplayInv /\ StoreInv => TL!OneUse(Settled)
  BY SettledOneUse
<1> QED BY <1>1, <1>2, <1>3, StoreCorrect, PTL DEF Spec, ImplementsTxLedger, TL!Spec
=============================================================================
