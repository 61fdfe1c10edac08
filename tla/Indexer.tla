------------------------------ MODULE Indexer ------------------------------
(***************************************************************************)
(* The explorer's indexer: a replay loop and a websocket tail, two         *)
(* goroutines of one process, copy the node's blocks into SQLite. The node *)
(* may restart, the connection may be lost, an RPC may fail and the        *)
(* explorer itself may be killed and started again.                        *)
(*                                                                         *)
(* Abstractions: every block carries one transaction with one log, unless  *)
(* the node has reloaded it from disk, where OpenStore keeps the height    *)
(* only. SQLite calls succeed (one connection, a local file). The socket's *)
(* buffer and the channel behind it are one queue. callWithRetry is one    *)
(* call that succeeds or fails.                                            *)
(***************************************************************************)
EXTENDS Naturals, Sequences, FiniteSets

CONSTANTS
    ReloadBlocks,  \* how many blocks OpenStore reloads (5 in the code)
    MaxHeight,     \* bound on the node's height
    MaxRestarts,   \* bound on node restarts
    MaxCrashes,    \* bound on restarts of the explorer
    MaxErrors      \* bound on failed RPCs and lost connections

ASSUME IndexerAssumption ==
    /\ ReloadBlocks \in Nat /\ MaxHeight \in Nat \ {0}
    /\ MaxRestarts \in Nat /\ MaxCrashes \in Nat /\ MaxErrors \in Nat

Heights == 0..MaxHeight
NoRow == [num |-> 0, body |-> "none"]
RowType == [num: Heights, body: {"none", "full"}]
NoTx == MaxHeight + 1

VARIABLES
    blocks,    \* the node's c.Blocks: number, and its body, if it is in memory
    height,    \* the node's c.Height
    conn,      \* the explorer's websocket, subscribed to newHeads: "open" or "closed"
    heads,     \* the numbers announced and not yet received by the tail
    phase,     \* where Run is: "initial", "subscribe", "running" or "dead"
    rpc,       \* where the replay is: "idle", "head", "fetch" or "save"
    nodeHead,  \* replay's nodeHead
    next,      \* replay's h
    rb,        \* the block replay has fetched, with what its receipts gave
    tpc,       \* where the tail is: "off", "recv", "fetch" or "save"
    th, tb,    \* the tail's height and the block it has fetched
    rows,      \* table blocks, by height
    txAt,      \* table transactions: the height under which block n's is stored
    logs,      \* table logs: how many copies of block n's log
    tailSaved, \* history: whether the tail has stored a block, "no" or "yes"
    restarts, crashes, errors

node == <<blocks, height, restarts>>
link == <<conn, heads>>
replay == <<rpc, nodeHead, next, rb>>
tail == <<tpc, th, tb>>
store == <<rows, txAt, logs>>
vars == <<node, link, phase, replay, tail, store, tailSaved, crashes, errors>>

Fetched == [num: Heights, body: {"none", "full"}, logs: {0, 1}]
Nothing == [num |-> 0, body |-> "none", logs |-> 0]

(* A node that has just produced its genesis block, at height 1, and an    *)
(* explorer with an empty database.                                        *)
Init ==
    /\ blocks = <<[num |-> 1, body |-> "full"]>> /\ height = 1
    /\ conn = "closed" /\ heads = <<>>
    /\ phase = "initial"
    /\ rpc = "idle" /\ nodeHead = 0 /\ next = 0 /\ rb = Nothing
    /\ tpc = "off" /\ th = 0 /\ tb = Nothing
    /\ rows = [h \in Heights |-> NoRow]
    /\ txAt = [n \in Heights |-> NoTx]
    /\ logs = [n \in Heights |-> 0]
    /\ tailSaved = "no"
    /\ restarts = 0 /\ crashes = 0 /\ errors = 0

-----------------------------------------------------------------------------
(* The node. *)

(* ProduceBlock appends the block and OnNewBlock announces it. *)
Produce ==
    /\ height < MaxHeight
    /\ height' = height + 1
    /\ blocks' = Append(blocks, [num |-> height + 1, body |-> "full"])
    /\ heads' = IF conn = "open" THEN Append(heads, height + 1) ELSE heads
    /\ UNCHANGED <<restarts, conn, phase, replay, tail, store, tailSaved, crashes, errors>>

(* OpenStore: the last ReloadBlocks heights, oldest first, nothing else. *)
Reloaded ==
    LET n == IF height < ReloadBlocks THEN height ELSE ReloadBlocks
    IN [i \in 1..n |-> [num |-> (height - n) + i, body |-> "none"]]

(* The websocket ends: Subscribe's reader returns without closing its      *)
(* channel, so the tail receives what was already read and then waits.     *)
Hangup ==
    /\ conn' = "closed"
    /\ \E n \in 0..Len(heads) : heads' = SubSeq(heads, 1, n)

NodeRestart ==
    /\ restarts < MaxRestarts
    /\ restarts' = restarts + 1
    /\ blocks' = Reloaded
    /\ Hangup
    /\ UNCHANGED <<height, phase, replay, tail, store, tailSaved, crashes, errors>>

ConnectionLost ==
    /\ conn = "open" /\ errors < MaxErrors
    /\ errors' = errors + 1
    /\ Hangup
    /\ UNCHANGED <<node, phase, replay, tail, store, tailSaved, crashes>>

-----------------------------------------------------------------------------
(* What the explorer asks of the node and of its database. *)

(* eth_getBlockByNumber: the number is an index into Blocks, from 0; no    *)
(* block at all is answered with null.                                     *)
BlockByNumber(h) == IF h < Len(blocks) THEN {blocks[h + 1]} ELSE {}

(* indexBlock adds the logs of the receipts it gets; a failed receipt call *)
(* is ignored.                                                             *)
WithLogs(b, got) ==
    [num |-> b.num, body |-> b.body, logs |-> IF b.body = "full" THEN got ELSE 0]

(* Mutant: starts at the highest stored height itself. *)
FromHead(n) ==
    /\ \A h \in Heights : rows[h] # NoRow => h <= n
    /\ n > 0 => n \in Heights /\ rows[n] # NoRow

(* n is Store.Head + 1: one above the highest stored height, 0 without one. *)
NextToStore(n) ==
    /\ \A h \in Heights : rows[h] # NoRow => h < n
    /\ n > 0 => rows[n - 1] # NoRow

(* Mutant: INSERT OR REPLACE. *)
ReplaceBlock(h, b) ==
    /\ rows' = [rows EXCEPT ![h] = [num |-> b.num, body |-> b.body]]
    /\ txAt' = IF b.body = "full" THEN [txAt EXCEPT ![b.num] = h] ELSE txAt
    /\ logs' = [logs EXCEPT ![b.num] = @ + b.logs]

(* Mutant: a transaction is filed under the number its block carries. *)
FiledByNumber(h, b) ==
    /\ rows' = IF rows[h] = NoRow
               THEN [rows EXCEPT ![h] = [num |-> b.num, body |-> b.body]] ELSE rows
    /\ txAt' = IF b.body = "full" /\ txAt[b.num] = NoTx
               THEN [txAt EXCEPT ![b.num] = b.num] ELSE txAt
    /\ logs' = [logs EXCEPT ![b.num] = @ + b.logs]

(* SaveBlock, one SQLite transaction: a block or a transaction that is     *)
(* there already is ignored, a log is inserted in any case.                *)
SaveBlock(h, b) ==
    /\ rows' = IF rows[h] = NoRow
               THEN [rows EXCEPT ![h] = [num |-> b.num, body |-> b.body]] ELSE rows
    /\ txAt' = IF b.body = "full" /\ txAt[b.num] = NoTx
               THEN [txAt EXCEPT ![b.num] = h] ELSE txAt
    /\ logs' = [logs EXCEPT ![b.num] = @ + b.logs]

-----------------------------------------------------------------------------
(* replay *)

(* Replay returns: the first one lets Run go on, a later one waits for the *)
(* next tick.                                                              *)
ReplayDone ==
    /\ rpc' = "idle"
    /\ phase' = IF phase = "initial" THEN "subscribe" ELSE phase

(* An error ends the replay; in the first one it ends Run, and with it the *)
(* ticker and the tail that were not started yet.                          *)
ReplayError ==
    /\ phase # "dead" /\ rpc \in {"idle", "fetch"}
    /\ errors < MaxErrors
    /\ errors' = errors + 1
    /\ rpc' = "idle"
    /\ phase' = IF phase = "initial" THEN "dead" ELSE phase
    /\ UNCHANGED <<node, link, nodeHead, next, rb, tail, store, tailSaved, crashes>>

(* eth_blockNumber is the length of Blocks. *)
ReplayNodeHead ==
    /\ phase # "dead" /\ rpc = "idle"
    /\ nodeHead' = Len(blocks)
    /\ rpc' = "head"
    /\ UNCHANGED <<node, link, phase, next, rb, tail, store, tailSaved, crashes, errors>>

(* Mutant: the loop ends two below what eth_blockNumber says. *)
StopsEarly(h) == h + 1 < nodeHead

InRange(h) == h <= nodeHead

Advance(h) ==
    /\ next' = h
    /\ IF InRange(h) THEN rpc' = "fetch" /\ UNCHANGED phase ELSE ReplayDone

ReplayStoreHead ==
    /\ rpc = "head"
    /\ \E n \in 0..(MaxHeight + 1) : NextToStore(n) /\ Advance(n)
    /\ UNCHANGED <<node, link, nodeHead, rb, tail, store, tailSaved, crashes, errors>>

ReplayFetch ==
    /\ rpc = "fetch"
    /\ \E b \in BlockByNumber(next), got \in {0, 1} :
         /\ rb' = WithLogs(b, got)
         /\ got = 1 \/ errors < MaxErrors
         /\ errors' = errors + (1 - got)
    /\ rpc' = "save"
    /\ UNCHANGED <<node, link, phase, nodeHead, next, tail, store, tailSaved, crashes>>

(* indexBlock returns without an error for a block the node does not have. *)
ReplayMissing ==
    /\ rpc = "fetch" /\ BlockByNumber(next) = {}
    /\ Advance(next + 1)
    /\ UNCHANGED <<node, link, nodeHead, rb, tail, store, tailSaved, crashes, errors>>

ReplaySave ==
    /\ rpc = "save"
    /\ SaveBlock(next, rb)
    /\ Advance(next + 1)
    /\ UNCHANGED <<node, link, nodeHead, rb, tail, tailSaved, crashes, errors>>

-----------------------------------------------------------------------------
(* tail *)

Subscribe ==
    /\ phase = "subscribe"
    /\ phase' = "running" /\ tpc' = "recv" /\ conn' = "open"
    /\ UNCHANGED <<node, heads, replay, th, tb, store, tailSaved, crashes, errors>>

(* Run returns; the ticker goes on. *)
SubscribeError ==
    /\ phase = "subscribe" /\ errors < MaxErrors
    /\ errors' = errors + 1
    /\ phase' = "running"
    /\ UNCHANGED <<node, link, replay, tail, store, tailSaved, crashes>>

(* Receives a head and asks HasBlock. *)
TailReceive ==
    /\ tpc = "recv" /\ heads # <<>>
    /\ heads' = Tail(heads)
    /\ th' = Head(heads)
    /\ tpc' = IF rows[Head(heads)] = NoRow THEN "fetch" ELSE "recv"
    /\ UNCHANGED <<node, conn, phase, replay, tb, store, tailSaved, crashes, errors>>

TailFetch ==
    /\ tpc = "fetch"
    /\ \E b \in BlockByNumber(th), got \in {0, 1} :
         /\ tb' = WithLogs(b, got)
         /\ got = 1 \/ errors < MaxErrors
         /\ errors' = errors + (1 - got)
    /\ tpc' = "save"
    /\ UNCHANGED <<node, link, phase, replay, th, store, tailSaved, crashes>>

(* The node does not have the block, or the call fails: the head is dropped. *)
TailMissing ==
    /\ tpc = "fetch"
    /\ \/ BlockByNumber(th) = {} /\ UNCHANGED errors
       \/ errors < MaxErrors /\ errors' = errors + 1
    /\ tpc' = "recv"
    /\ UNCHANGED <<node, link, phase, replay, th, tb, store, tailSaved, crashes>>

TailSave ==
    /\ tpc = "save"
    /\ SaveBlock(th, tb)
    /\ tpc' = "recv" /\ tailSaved' = "yes"
    /\ UNCHANGED <<node, link, phase, replay, th, tb, crashes, errors>>

(* The explorer is killed and started again on its database. *)
ExplorerRestart ==
    /\ crashes < MaxCrashes
    /\ crashes' = crashes + 1
    /\ conn' = "closed" /\ heads' = <<>>
    /\ phase' = "initial" /\ rpc' = "idle" /\ tpc' = "off"
    /\ UNCHANGED <<node, nodeHead, next, rb, th, tb, store, tailSaved, errors>>

Replays == ReplayNodeHead \/ ReplayStoreHead \/ ReplayFetch \/ ReplayMissing \/ ReplaySave
Tails == Subscribe \/ TailReceive \/ TailFetch \/ TailMissing \/ TailSave

Next ==
    \/ Produce \/ NodeRestart \/ ConnectionLost \/ ExplorerRestart
    \/ Replays \/ ReplayError
    \/ Tails \/ SubscribeError

Spec == Init /\ [][Next]_vars

(* The two goroutines keep running and the ticker keeps firing. *)
FairSpec == Spec /\ WF_vars(Replays) /\ WF_vars(Tails)

-----------------------------------------------------------------------------
(* Properties *)

(* Every variable has its type. *)
TypeOK ==
    /\ blocks \in Seq(RowType) /\ Len(blocks) <= height
    /\ height \in 1..MaxHeight
    /\ conn \in {"open", "closed"} /\ heads \in Seq(1..MaxHeight)
    /\ phase \in {"initial", "subscribe", "running", "dead"}
    /\ rpc \in {"idle", "head", "fetch", "save"}
    /\ nodeHead \in Heights /\ next \in 0..(MaxHeight + 1) /\ rb \in Fetched
    /\ rpc \in {"fetch", "save"} => next <= nodeHead
    /\ tpc \in {"off", "recv", "fetch", "save"} /\ th \in Heights /\ tb \in Fetched
    /\ rows \in [Heights -> RowType]
    /\ txAt \in [Heights -> 0..NoTx]
    /\ logs \in [Heights -> Nat]
    /\ tailSaved \in {"no", "yes"}
    /\ restarts \in 0..MaxRestarts /\ crashes \in 0..MaxCrashes /\ errors \in 0..MaxErrors

(* Explorer pages agree with each other: the transaction of a block is     *)
(* filed under the height whose row shows that block, and a block has only *)
(* one row, although replay and tail look, fetch and save without a lock   *)
(* (SaveBlock), as long as the node has not restarted.                     *)
RowAndTxAgree ==
    restarts = 0 =>
        /\ \A h \in Heights : rows[h] # NoRow => txAt[rows[h].num] = h
        /\ \A n \in Heights : txAt[n] # NoTx => rows[txAt[n]].num = n

(* What a block page lists is of that block, whatever the node does. *)
TxOnItsPage == \A n \in Heights : txAt[n] # NoTx => rows[txAt[n]].num = n

(* The replay alone leaves no gap and no duplicate: until the tail has     *)
(* stored a block of its own, the stored heights are 0 up to the head and  *)
(* every log is there at most once, over any number of errors and restarts *)
(* of the explorer.                                                        *)
ReplayLeavesNoGap ==
    (restarts = 0 /\ tailSaved = "no") =>
        /\ \A h \in Heights : \A g \in 0..h : rows[h] # NoRow => rows[g] # NoRow
        /\ \A n \in Heights : logs[n] <= 1

(* What the explorer has shown for a height it never shows differently:    *)
(* neither goroutine overwrites the other's row, not even after the node   *)
(* has restarted and serves other blocks under the same numbers.           *)
RowsAreFinal ==
    [][\A h \in Heights : rows[h] # NoRow => rows'[h] = rows[h]]_vars

(* The store's head is at h or above. *)
Reached(h) == \E g \in Heights : g >= h /\ rows[g] # NoRow

(* The store keeps up: a height the node serves is reached by the store's  *)
(* head, unless the first replay of the process failed, which ends the     *)
(* indexer, or the node restarted and serves fewer blocks.                 *)
HeadFollows ==
    \A n \in 1..MaxHeight :
        (Len(blocks) >= n) ~> (phase = "dead" \/ Reached(n - 1) \/ Len(blocks) < n)

(* indexer.go: "gaps created while the service was down/restarting (blocks *)
(* produced between restarts) get backfilled".                             *)
GapsBackfilled ==
    \A h \in Heights :
        (rows[h] = NoRow /\ Reached(h)) ~> (rows[h] # NoRow \/ phase = "dead")

(* indexer.go: "Guard against re-indexing an already-stored block": no log *)
(* is stored twice.                                                        *)
LogsOnce == \A n \in Heights : logs[n] <= 1

(* The rows of the store are the blocks of their height, as the API shows  *)
(* them and as the indexer's test expects.                                 *)
RowIsItsBlock == \A h \in Heights : rows[h] # NoRow => rows[h].num = h
=============================================================================
