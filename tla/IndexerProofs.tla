--------------------------- MODULE IndexerProofs ---------------------------
(***************************************************************************)
(* What the explorer stores while the node does not restart, for every     *)
(* number of blocks, crashes and errors.                                   *)
(***************************************************************************)
EXTENDS Indexer, SequenceTheorems, TLAPS

(* Every row holds the block after its height, and so does every stored  *)
(* transaction.                                                            *)
OneLifeRows ==
    /\ \A h \in Heights : rows[h] # NoRow => rows[h].num = h + 1 /\ txAt[h + 1] = h
    /\ \A n \in Heights : txAt[n] = NoTx \/ txAt[n] = n - 1
    /\ \A n \in Heights : txAt[n] # NoTx => rows[txAt[n]] # NoRow

(* In one life of the node Blocks[i] is block i + 1, so whatever has been  *)
(* fetched for a height is the block that follows it, and every stored     *)
(* transaction is filed under the height of its block.                     *)
OneLife ==
    restarts = 0 =>
        /\ Len(blocks) = height
        /\ \A i \in 1..height : blocks[i] = [num |-> i, body |-> "full"]
        /\ rpc = "save" => rb.num = next + 1 /\ rb.body = "full"
        /\ tpc = "save" => tb.num = th + 1 /\ tb.body = "full"
        /\ OneLifeRows

IInv == TypeOK /\ OneLife

USE IndexerAssumption

LEMMA InitInv == Init => IInv
  BY DEF Init, IInv, TypeOK, OneLife, OneLifeRows, RowType, Fetched, Nothing, Heights, NoRow, NoTx

(* A queue cut short holds a part of what it held. *)
LEMMA HangupType ==
  ASSUME TypeOK, Hangup
  PROVE  conn' \in {"open", "closed"} /\ heads' \in Seq(1..MaxHeight)
  <1>1. PICK n \in 0..Len(heads) : heads' = SubSeq(heads, 1, n)
  BY DEF Hangup
<1>2. \A i \in 1..n : i \in 1..Len(heads)
  BY DEF TypeOK
<1>3. SubSeq(heads, 1, n) \in Seq(1..MaxHeight)
  BY <1>2, SubSeqProperties DEF TypeOK
<1> QED BY <1>1, <1>3 DEF Hangup

(* Advance leaves the replay with a height it may fetch, or idle. *)
LEMMA AdvanceType ==
  ASSUME TypeOK, nodeHead' = nodeHead, NEW h \in 0..(MaxHeight + 1), Advance(h)
  PROVE  /\ rpc' \in {"idle", "fetch"} /\ next' \in 0..(MaxHeight + 1)
         /\ rpc' = "fetch" => next' <= nodeHead'
         /\ phase' \in {"initial", "subscribe", "running", "dead"}
  BY DEF TypeOK, Advance, InRange, ReplayDone

LEMMA SaveBlockType ==
  ASSUME TypeOK, NEW h \in Heights, NEW b \in Fetched, SaveBlock(h, b)
  PROVE  /\ rows' \in [Heights -> RowType]
         /\ txAt' \in [Heights -> 0..NoTx]
         /\ logs' \in [Heights -> Nat]
<1>1. rows' \in [Heights -> RowType]
  BY DEF TypeOK, SaveBlock, RowType, Fetched
<1>2. txAt' \in [Heights -> 0..NoTx]
  <2>1. h \in 0..NoTx
    BY DEF Heights, NoTx
  <2>2. txAt' = txAt \/ txAt' = [txAt EXCEPT ![b.num] = h]
    BY DEF SaveBlock
  <2> QED BY <2>1, <2>2 DEF TypeOK
<1>3. logs' \in [Heights -> Nat]
  BY SMTT(30) DEF TypeOK, SaveBlock, Fetched
<1> QED BY <1>1, <1>2, <1>3

(* What a fetched block looks like. *)
LEMMA FetchType ==
  ASSUME TypeOK, NEW h \in Heights, NEW b \in BlockByNumber(h), NEW got \in {0, 1}
  PROVE  WithLogs(b, got) \in Fetched
<1>1. b \in RowType
  BY DEF TypeOK, BlockByNumber, Heights
<1> QED BY <1>1 DEF WithLogs, RowType, Fetched

LEMMA TypeInductive == TypeOK /\ [Next]_vars => TypeOK'
<1> SUFFICES ASSUME TypeOK, [Next]_vars PROVE TypeOK'
  OBVIOUS
<1>1. CASE Produce
  <2>1. [num |-> height + 1, body |-> "full"] \in RowType /\ height + 1 \in 1..MaxHeight
    BY <1>1 DEF Produce, TypeOK, RowType, Heights
  <2>2. blocks' \in Seq(RowType) /\ Len(blocks') = Len(blocks) + 1
    BY <1>1, <2>1 DEF Produce, TypeOK
  <2>3. heads' \in Seq(1..MaxHeight)
    <3>1. heads' = heads \/ heads' = Append(heads, height + 1)
      BY <1>1 DEF Produce
    <3> DEFINE H == 1..MaxHeight
    <3>2. heads \in Seq(H) /\ height + 1 \in H
      BY <2>1 DEF TypeOK
    <3> HIDE DEF H
    <3>3. heads' \in Seq(H)
      BY <3>1, <3>2
    <3> QED BY <3>3 DEF H
  <2> QED BY <1>1, <2>1, <2>2, <2>3 DEF Produce, TypeOK, replay, tail, store
<1>2. CASE NodeRestart
  <2>1. conn' \in {"open", "closed"} /\ heads' \in Seq(1..MaxHeight)
    BY <1>2, HangupType DEF NodeRestart
  <2>2. blocks' \in Seq(RowType) /\ Len(blocks') <= height
    <3> DEFINE n == IF height < ReloadBlocks THEN height ELSE ReloadBlocks
    <3>1. n \in Nat /\ n <= height
      BY DEF TypeOK
    <3>2. \A i \in 1..n : [num |-> (height - n) + i, body |-> "none"] \in RowType
      <4> HIDE DEF n
      <4>1. \A i \in 1..n : (height - n) + i \in Heights
        BY <3>1 DEF TypeOK, Heights
      <4> QED BY <4>1 DEF RowType
    <3>3. blocks' = [i \in 1..n |-> [num |-> (height - n) + i, body |-> "none"]]
      BY <1>2 DEF NodeRestart, Reloaded
    <3> HIDE DEF n
    <3> QED BY <3>1, <3>2, <3>3
  <2> QED BY <1>2, <2>1, <2>2 DEF NodeRestart, TypeOK, replay, tail, store
<1>3. CASE ConnectionLost
  BY <1>3, HangupType DEF ConnectionLost, TypeOK, node, replay, tail, store
<1>4. CASE ExplorerRestart
  BY <1>4 DEF ExplorerRestart, TypeOK, node, store
<1>5. CASE ReplayNodeHead
  BY <1>5 DEF ReplayNodeHead, TypeOK, Heights, node, link, tail, store
<1>6. CASE ReplayStoreHead
  <2>1. PICK n \in 0..(MaxHeight + 1) : Advance(n)
    BY <1>6 DEF ReplayStoreHead
  <2> QED BY <1>6, <2>1, AdvanceType DEF ReplayStoreHead, TypeOK, node, link, tail, store
<1>7. CASE ReplayFetch
  <2>1. next \in Heights /\ next <= nodeHead
    BY <1>7 DEF ReplayFetch, TypeOK, Heights
  <2>2. rb' \in Fetched
    BY <1>7, <2>1, FetchType DEF ReplayFetch
  <2>3. errors' \in 0..MaxErrors
    BY <1>7 DEF ReplayFetch, TypeOK
  <2> QED BY <1>7, <2>1, <2>2, <2>3 DEF ReplayFetch, TypeOK, node, link, tail, store
<1>8. CASE ReplayMissing
  <2>1. next + 1 \in 0..(MaxHeight + 1)
    BY <1>8 DEF ReplayMissing, TypeOK, Heights
  <2> QED BY <1>8, <2>1, AdvanceType DEF ReplayMissing, TypeOK, node, link, tail, store
<1>9. CASE ReplaySave
  <2>1. next \in Heights /\ next + 1 \in 0..(MaxHeight + 1) /\ rb \in Fetched
    BY <1>9 DEF ReplaySave, TypeOK, Heights
  <2> QED BY <1>9, <2>1, AdvanceType, SaveBlockType DEF ReplaySave, TypeOK, node, link, tail
<1>10. CASE ReplayError
  BY <1>10 DEF ReplayError, TypeOK, node, link, tail, store
<1>11. CASE Subscribe
  BY <1>11 DEF Subscribe, TypeOK, node, replay, store
<1>12. CASE SubscribeError
  BY <1>12 DEF SubscribeError, TypeOK, node, link, replay, tail, store
<1>13. CASE TailReceive
  <2>1. Head(heads) \in Heights /\ heads' \in Seq(1..MaxHeight)
    <3>1. heads \in Seq(1..MaxHeight) /\ heads # <<>> /\ heads' = Tail(heads)
      BY <1>13 DEF TailReceive, TypeOK
    <3>2. Head(heads) \in 1..MaxHeight /\ heads' \in Seq(1..MaxHeight)
      BY <3>1
    <3> QED BY <3>2 DEF Heights
  <2> QED BY <1>13, <2>1 DEF TailReceive, TypeOK, node, replay, store
<1>14. CASE TailFetch
  <2>1. tb' \in Fetched
    BY <1>14, FetchType DEF TailFetch, TypeOK
  <2>2. errors' \in 0..MaxErrors
    BY <1>14 DEF TailFetch, TypeOK
  <2> QED BY <1>14, <2>1, <2>2 DEF TailFetch, TypeOK, node, link, replay, store
<1>15. CASE TailMissing
  BY <1>15 DEF TailMissing, TypeOK, node, link, replay, store
<1>16. CASE TailSave
  <2>1. th \in Heights /\ tb \in Fetched
    BY DEF TypeOK
  <2> QED BY <1>16, <2>1, SaveBlockType DEF TailSave, TypeOK, node, link, replay
<1>17. CASE UNCHANGED vars
  BY <1>17 DEF vars, TypeOK, node, link, replay, tail, store
<1> QED
  BY <1>1, <1>2, <1>3, <1>4, <1>5, <1>6, <1>7, <1>8, <1>9, <1>10, <1>11, <1>12, <1>13,
     <1>14, <1>15, <1>16, <1>17 DEF Next, Replays, Tails

(* Every variable of the indexer keeps its type: no height beyond the      *)
(* node's reaches the store, whatever is lost, restarted or answered late. *)
THEOREM IndexerTypeCorrect == Spec => []TypeOK
<1>1. Init => TypeOK
  BY InitInv DEF IInv
<1> QED BY <1>1, TypeInductive, PTL DEF Spec

-----------------------------------------------------------------------------
(* One life of the node. *)

(* In one life of the node, the block fetched for h is block h + 1. *)
LEMMA FetchNext ==
  ASSUME TypeOK, OneLife, restarts = 0, NEW h \in Heights, NEW b \in BlockByNumber(h),
         NEW got \in {0, 1}
  PROVE  WithLogs(b, got).num = h + 1 /\ WithLogs(b, got).body = "full"
<1>1. h + 1 \in 1..height /\ b = blocks[h + 1]
  BY DEF TypeOK, OneLife, BlockByNumber, Heights
<1>2. b = [num |-> h + 1, body |-> "full"]
  BY <1>1 DEF OneLife
<1> QED BY <1>2 DEF WithLogs

(* Saving block h + 1 under h keeps the rows in place, whether the row was *)
(* there or not.                                                           *)
LEMMA SaveNext ==
  ASSUME TypeOK, OneLifeRows, NEW h \in Heights, NEW b \in Fetched, b.num = h + 1, b.body = "full",
         SaveBlock(h, b)
  PROVE  OneLifeRows'
<1>1. h + 1 \in Heights
  BY DEF Fetched
<1>2. txAt' = [txAt EXCEPT ![h + 1] = h]
  <2>1. CASE txAt[h + 1] = NoTx
    BY <2>1 DEF SaveBlock
  <2>2. CASE txAt[h + 1] # NoTx
    <3>1. txAt[h + 1] = h
      BY <1>1, <2>2 DEF OneLifeRows, Heights
    <3> QED BY <1>1, <2>2, <3>1 DEF SaveBlock, TypeOK
  <2> QED BY <2>1, <2>2
<1>3. ASSUME NEW n \in Heights PROVE txAt'[n] = NoTx \/ txAt'[n] = n - 1
  <2>1. DOMAIN txAt = Heights
    BY DEF TypeOK
  <2>2. CASE n = h + 1
    <3>1. txAt'[n] = h
      BY <1>1, <1>2, <2>1, <2>2
    <3>2. h = n - 1
      BY <2>2 DEF Heights
    <3> QED BY <3>1, <3>2
  <2>3. CASE n # h + 1
    <3>1. txAt'[n] = txAt[n]
      BY <1>2, <2>1, <2>3
    <3> QED BY <3>1 DEF OneLifeRows
  <2> QED BY <2>2, <2>3
<1>4. ASSUME NEW g \in Heights, rows'[g] # NoRow
      PROVE  rows'[g].num = g + 1 /\ txAt'[g + 1] = g
  <2>1. CASE rows[g] # NoRow
    <3>1. rows'[g] = rows[g]
      BY <2>1 DEF SaveBlock, TypeOK
    <3>2. g + 1 \in Heights
      BY <2>1 DEF OneLifeRows, TypeOK, RowType
    <3> QED BY <2>1, <3>1, <3>2, <1>2, SMTT(30) DEF OneLifeRows, TypeOK, Heights
  <2>2. CASE rows[g] = NoRow
    <3>1. g = h /\ rows'[g] = [num |-> b.num, body |-> b.body]
      BY <1>4, <2>2 DEF SaveBlock, TypeOK
    <3> QED BY <3>1, <1>1, <1>2 DEF TypeOK
  <2> QED BY <2>1, <2>2
<1>5. ASSUME NEW n \in Heights, txAt'[n] # NoTx PROVE rows'[txAt'[n]] # NoRow
  <2>1. rows'[h] # NoRow /\ \A g \in Heights : rows[g] # NoRow => rows'[g] # NoRow
    BY DEF SaveBlock, TypeOK, NoRow
  <2>2. CASE n = h + 1
    <3>1. txAt'[n] = h
      BY <1>1, <1>2, <2>2 DEF TypeOK
    <3> QED BY <2>1, <3>1
  <2>3. CASE n # h + 1
    <3>1. txAt'[n] = txAt[n]
      BY <1>2, <2>3 DEF TypeOK
    <3>2. rows[txAt[n]] # NoRow
      BY <1>5, <3>1 DEF OneLifeRows
    <3>3. txAt[n] \in 0..NoTx /\ txAt[n] # NoTx
      BY <1>5, <3>1 DEF TypeOK
    <3>4. txAt[n] \in Heights
      BY <3>3 DEF Heights, NoTx
    <3> QED BY <2>1, <3>1, <3>2, <3>4
  <2> QED BY <2>2, <2>3
<1> QED BY <1>3, <1>4, <1>5 DEF OneLifeRows

LEMMA OneLifeInductive == IInv /\ [Next]_vars => OneLife'
<1> SUFFICES ASSUME TypeOK, OneLife, [Next]_vars, restarts' = 0 PROVE OneLife'
  BY DEF IInv, OneLife
<1>0. (restarts = 0 /\ restarts' = restarts) \/ NodeRestart
  BY DEF TypeOK, Next, Replays, Tails, vars, node, Produce, ConnectionLost, ExplorerRestart,
     ReplayNodeHead, ReplayStoreHead, ReplayFetch, ReplayMissing, ReplaySave, ReplayError,
     Subscribe, SubscribeError, TailReceive, TailFetch, TailMissing, TailSave
<1>1. CASE Produce
  <2>0. restarts = 0 /\ Len(blocks) = height
    BY <1>1 DEF Produce, OneLife
  <2>1. Len(blocks) = height /\ height' = height + 1 /\ Len(blocks') = height'
    BY <1>1, <2>0 DEF Produce, TypeOK
  <2>2. \A i \in 1..height' : blocks'[i] = [num |-> i, body |-> "full"]
    BY <1>0, <1>1, <2>1 DEF Produce, TypeOK, OneLife
  <2>3. OneLifeRows /\ UNCHANGED store
    BY <1>0, <1>1 DEF Produce, OneLife, NodeRestart, TypeOK
  <2>4. OneLifeRows'
    BY <2>3 DEF OneLifeRows, store
  <2> QED BY <1>0, <1>1, <2>1, <2>2, <2>4 DEF Produce, OneLife, replay, tail
<1>2. CASE NodeRestart
  BY <1>2 DEF NodeRestart, TypeOK
<1>3. CASE ConnectionLost \/ ExplorerRestart
  BY <1>0, <1>3 DEF ConnectionLost, ExplorerRestart, OneLife, OneLifeRows,
     node, replay, tail, store
<1>5. CASE ReplayNodeHead \/ ReplayStoreHead \/ ReplayMissing
  BY <1>5 DEF ReplayNodeHead, ReplayStoreHead, ReplayMissing, Advance, ReplayDone,
     OneLife, OneLifeRows, node, tail, store
<1>7. CASE ReplayFetch
  <2>1. next \in Heights
    BY <1>7 DEF ReplayFetch, TypeOK, Heights
  <2>2. rb'.num = next + 1 /\ rb'.body = "full"
    BY <1>0, <1>7, <2>1, FetchNext DEF ReplayFetch, node
  <2>3. OneLifeRows /\ UNCHANGED store
    BY <1>0, <1>7 DEF ReplayFetch, OneLife, node
  <2>4. OneLifeRows'
    BY <2>3 DEF OneLifeRows, store
  <2> QED BY <1>7, <2>2, <2>4 DEF ReplayFetch, OneLife, node, tail
<1>9. CASE ReplaySave
  <2>1. next \in Heights /\ rb \in Fetched /\ rb.num = next + 1 /\ rb.body = "full" /\ OneLifeRows
    <3>1. restarts = 0 /\ rpc = "save"
      BY <1>9 DEF ReplaySave, node
    <3>2. next \in Heights /\ rb \in Fetched
      BY <3>1 DEF TypeOK, Heights
    <3> QED BY <3>1, <3>2 DEF OneLife
  <2>2. OneLifeRows'
    BY <1>9, <2>1, SaveNext DEF ReplaySave
  <2> QED BY <1>9, <2>2 DEF ReplaySave, Advance, ReplayDone, OneLife, OneLifeRows, node, tail
<1>10. CASE ReplayError \/ Subscribe \/ SubscribeError \/ TailReceive \/ TailMissing
  BY <1>10 DEF ReplayError, Subscribe, SubscribeError, TailReceive, TailMissing,
     OneLife, OneLifeRows, node, replay, tail, store
<1>14. CASE TailFetch
  <2>1. tb'.num = th + 1 /\ tb'.body = "full"
    BY <1>0, <1>14, FetchNext DEF TailFetch, TypeOK, node
  <2> QED BY <1>14, <2>1 DEF TailFetch, OneLife, OneLifeRows, node, replay, store
<1>16. CASE TailSave
  <2>1. th \in Heights /\ tb \in Fetched /\ tb.num = th + 1 /\ tb.body = "full" /\ OneLifeRows
    BY <1>0, <1>16 DEF TailSave, TypeOK, OneLife, OneLifeRows, node
  <2>2. OneLifeRows'
    BY <1>16, <2>1, SaveNext DEF TailSave
  <2> QED BY <1>16, <2>2 DEF TailSave, OneLife, OneLifeRows, node, replay
<1>17. CASE UNCHANGED vars
  BY <1>17 DEF vars, OneLife, OneLifeRows, node, replay, tail, store
<1> QED
  BY <1>1, <1>2, <1>3, <1>5, <1>7, <1>9, <1>10, <1>14, <1>16, <1>17 DEF Next, Replays, Tails

(* While the node does not restart, replay and tail may race, fail and be  *)
(* restarted in any way: the row that shows a block and the transaction of *)
(* that block stay under one and the same height.                          *)
THEOREM RowAndTxCorrect == Spec => []RowAndTxAgree
<1>1. IInv /\ [Next]_vars => IInv'
  BY TypeInductive, OneLifeInductive DEF IInv
<1>2. IInv => RowAndTxAgree
  <2> SUFFICES ASSUME TypeOK, OneLife, restarts = 0 PROVE RowAndTxAgree
    BY DEF IInv, RowAndTxAgree
  <2>1. OneLifeRows
    BY DEF OneLife
  <2>2. \A h \in Heights : rows[h] # NoRow => txAt[rows[h].num] = h
    BY <2>1 DEF OneLifeRows
  <2>3. ASSUME NEW n \in Heights, txAt[n] # NoTx PROVE rows[txAt[n]].num = n
    <3>1. txAt[n] = n - 1 /\ txAt[n] \in Heights /\ rows[txAt[n]] # NoRow
      BY <2>1, <2>3, SMTT(30) DEF OneLifeRows, TypeOK, Heights, NoTx
    <3>2. rows[txAt[n]].num = txAt[n] + 1
      BY <2>1, <3>1 DEF OneLifeRows
    <3> QED BY <3>1, <3>2 DEF Heights
  <2> QED BY <2>2, <2>3 DEF RowAndTxAgree
<1> QED BY InitInv, <1>1, <1>2, PTL DEF Spec

(* A row once stored is never rewritten, by either goroutine, before or    *)
(* after any restart.                                                      *)
THEOREM RowsFinal == Spec => RowsAreFinal
<1>1. TypeOK /\ [Next]_vars
        => [\A h \in Heights : rows[h] # NoRow => rows'[h] = rows[h]]_vars
  <2> SUFFICES ASSUME TypeOK, [Next]_vars, NEW h \in Heights, rows[h] # NoRow
               PROVE  rows'[h] = rows[h]
    OBVIOUS
  <2>1. CASE ReplaySave
    BY <2>1 DEF ReplaySave, SaveBlock, TypeOK
  <2>2. CASE TailSave
    BY <2>2 DEF TailSave, SaveBlock, TypeOK
  <2>3. CASE UNCHANGED rows
    BY <2>3
  <2> QED
    BY <2>1, <2>2, <2>3 DEF Next, Replays, Tails, vars, store, Produce, NodeRestart,
       ConnectionLost, ExplorerRestart, ReplayNodeHead, ReplayStoreHead, ReplayFetch,
       ReplayMissing, ReplayError, Subscribe, SubscribeError, TailReceive, TailFetch,
       TailMissing
<1> QED BY <1>1, IndexerTypeCorrect, PTL DEF Spec, RowsAreFinal
-----------------------------------------------------------------------------
(* The replay alone. *)

(* Until the tail has stored a block of its own, the stored heights are    *)
(* those below the one the replay works on, and a log is there only if its *)
(* block is. A height the node does not have ends the replay: nodeHead is  *)
(* never above the node's height, so it is the last of the loop.           *)
Prefix ==
    (restarts = 0 /\ tailSaved = "no") =>
        /\ nodeHead <= height
        /\ \A h \in Heights : \A g \in 0..h : rows[h] # NoRow => rows[g] # NoRow
        /\ rpc \in {"fetch", "save"} => \A g \in Heights : rows[g] # NoRow <=> g < next
        /\ logs[0] = 0
        /\ \A h \in Heights : h + 1 \in Heights =>
              logs[h + 1] <= 1 /\ (rows[h] = NoRow => logs[h + 1] = 0)

(* A step that leaves the store alone, and the replay where it was or idle, *)
(* keeps the prefix.                                                        *)
LEMMA PrefixUnchanged ==
  ASSUME TypeOK, Prefix, TypeOK', restarts' = 0 => restarts = 0, tailSaved' = tailSaved,
         height <= height', nodeHead' = nodeHead, UNCHANGED store,
         (rpc' = rpc /\ next' = next) \/ rpc' \in {"idle", "head"}
  PROVE  Prefix'
<1> SUFFICES ASSUME restarts' = 0, tailSaved' = "no" PROVE Prefix'
  BY DEF Prefix
<1>1. nodeHead' <= height'
  <2>1. nodeHead \in Nat /\ height \in Nat /\ height' \in Nat
    BY DEF TypeOK, Heights
  <2> QED BY <2>1 DEF Prefix
<1>2. rpc' \in {"fetch", "save"} => \A g \in Heights : rows'[g] # NoRow <=> g < next'
  BY DEF Prefix, store
<1> QED BY <1>1, <1>2 DEF Prefix, store

LEMMA PrefixInductive == IInv /\ Prefix /\ [Next]_vars => Prefix'
<1> SUFFICES ASSUME TypeOK, OneLife, Prefix, [Next]_vars PROVE Prefix'
  BY DEF IInv
<1>0. TypeOK'
  BY TypeInductive
<1>1. CASE Produce \/ ConnectionLost \/ ExplorerRestart
  <2>1. /\ restarts' = restarts /\ tailSaved' = tailSaved /\ nodeHead' = nodeHead
        /\ UNCHANGED store /\ ((rpc' = rpc /\ next' = next) \/ rpc' \in {"idle", "head"})
    BY <1>1 DEF Produce, ConnectionLost, ExplorerRestart, node, replay
  <2>2. height <= height'
    BY <1>1 DEF Produce, ConnectionLost, ExplorerRestart, node, TypeOK
  <2> QED BY <1>0, <2>1, <2>2, PrefixUnchanged
<1>2. CASE NodeRestart
  <2>1. restarts' # 0
    BY <1>2 DEF NodeRestart, TypeOK
  <2> QED BY <2>1 DEF Prefix
<1>3. CASE ReplayNodeHead
  <2>1. restarts' = restarts /\ tailSaved' = tailSaved /\ height' = height /\ rpc' = "head"
        /\ UNCHANGED store /\ nodeHead' = Len(blocks)
    BY <1>3 DEF ReplayNodeHead, node
  <2>2. Len(blocks) <= height
    BY DEF TypeOK
  <2> QED BY <2>1, <2>2 DEF Prefix, store
<1>4. CASE ReplayStoreHead
  <2>1. PICK n \in 0..(MaxHeight + 1) : NextToStore(n) /\ Advance(n)
    BY <1>4 DEF ReplayStoreHead
  <2>2. restarts' = restarts /\ tailSaved' = tailSaved /\ height' = height
        /\ rows' = rows /\ logs' = logs /\ nodeHead' = nodeHead /\ next' = n
    BY <1>4, <2>1 DEF ReplayStoreHead, Advance, node, store
  <2>3. ASSUME restarts = 0, tailSaved = "no", NEW g \in Heights
        PROVE  rows[g] # NoRow <=> g < n
    <3>1. rows[g] # NoRow => g < n
      BY <2>1 DEF NextToStore
    <3>2. ASSUME g < n PROVE rows[g] # NoRow
      <4>1. n > 0 /\ n - 1 \in Heights /\ g \in 0..(n - 1)
        BY <3>2 DEF Heights
      <4>2. rows[n - 1] # NoRow
        BY <2>1, <4>1 DEF NextToStore
      <4> QED BY <2>3, <4>1, <4>2 DEF Prefix
    <3> QED BY <3>1, <3>2
  <2> QED BY <2>2, <2>3 DEF Prefix
<1>5. CASE ReplayFetch
  <2>1. restarts' = restarts /\ tailSaved' = tailSaved /\ height' = height /\ rpc = "fetch"
        /\ rows' = rows /\ logs' = logs /\ nodeHead' = nodeHead /\ next' = next
    BY <1>5 DEF ReplayFetch, node, store
  <2> QED BY <2>1 DEF Prefix
<1>6. CASE ReplayMissing
  <2>1. restarts' = restarts /\ tailSaved' = tailSaved /\ height' = height /\ rpc = "fetch"
        /\ rows' = rows /\ logs' = logs /\ nodeHead' = nodeHead /\ Advance(next + 1)
    BY <1>6 DEF ReplayMissing, node, store
  <2>2. ASSUME restarts = 0, tailSaved = "no" PROVE rpc' = "idle"
    <3>1. next \in Nat /\ Len(blocks) = height /\ nodeHead <= height /\ nodeHead \in Nat
          /\ height \in Nat
      BY <2>2 DEF TypeOK, OneLife, Prefix, Heights
    <3>2. ~(next < Len(blocks))
      BY <1>6 DEF ReplayMissing, BlockByNumber
    <3>3. ~(next + 1 <= nodeHead)
      BY <3>1, <3>2
    <3> QED BY <2>1, <3>3 DEF Advance, InRange, ReplayDone
  <2> QED BY <2>1, <2>2 DEF Prefix
<1>7. CASE ReplaySave
  <2> SUFFICES ASSUME restarts = 0, tailSaved = "no" PROVE Prefix'
    BY <1>7 DEF ReplaySave, Prefix, node
  <2>1. restarts' = restarts /\ tailSaved' = tailSaved /\ height' = height /\ rpc = "save"
        /\ SaveBlock(next, rb) /\ nodeHead' = nodeHead /\ next' = next + 1
    BY <1>7 DEF ReplaySave, Advance, node
  <2>2. /\ next \in Heights /\ rb \in Fetched /\ rb.num = next + 1 /\ rb.body = "full"
        /\ next + 1 \in Heights
    BY <2>1 DEF TypeOK, OneLife, Heights, Fetched
  <2>3. \A g \in Heights : rows[g] # NoRow <=> g < next
    BY <2>1 DEF Prefix
  <2>4. rows[next] = NoRow
    BY <2>2, <2>3 DEF Heights
  <2>5. rows' = [rows EXCEPT ![next] = [num |-> rb.num, body |-> rb.body]]
    BY <2>1, <2>4 DEF SaveBlock
  <2>6. rows'[next] # NoRow /\ \A g \in Heights \ {next} : rows'[g] = rows[g]
    BY <2>2, <2>5 DEF NoRow, TypeOK
  <2>7. \A g \in Heights : rows'[g] # NoRow <=> g < next + 1
    <3> SUFFICES ASSUME NEW g \in Heights PROVE rows'[g] # NoRow <=> g < next + 1
      OBVIOUS
    <3>1. CASE g = next
      BY <2>6, <3>1, <2>2 DEF Heights
    <3>2. CASE g # next
      <4>1. g < next <=> g < next + 1
        BY <3>2, <2>2 DEF Heights
      <4> QED BY <2>3, <2>6, <3>2, <4>1
    <3> QED BY <3>1, <3>2
  <2>8. \A h \in Heights : \A g \in 0..h : rows'[h] # NoRow => rows'[g] # NoRow
    <3> SUFFICES ASSUME NEW h \in Heights, NEW g \in 0..h, rows'[h] # NoRow
                 PROVE  rows'[g] # NoRow
      OBVIOUS
    <3>1. g \in Heights /\ g <= h /\ h < next + 1
      BY <2>7 DEF Heights
    <3>2. g < next + 1
      BY <2>2, <3>1 DEF Heights
    <3> QED BY <2>7, <3>1, <3>2
  <2>9. /\ logs'[next + 1] = logs[next + 1] + rb.logs
        /\ \A n \in Heights \ {next + 1} : logs'[n] = logs[n]
    BY <2>1, <2>2 DEF SaveBlock, TypeOK
  <2>10. logs'[0] = 0
    <3>1. 0 \in Heights \ {next + 1}
      BY <2>2 DEF Heights
    <3> QED BY <2>9, <3>1 DEF Prefix
  <2>11. ASSUME NEW h \in Heights, h + 1 \in Heights
         PROVE  logs'[h + 1] <= 1 /\ (rows'[h] = NoRow => logs'[h + 1] = 0)
    <3>1. CASE h = next
      <4>1. logs[next + 1] = 0 /\ rb.logs \in {0, 1}
        BY <2>2, <2>4 DEF Prefix, Fetched
      <4>2. logs'[next + 1] <= 1
        BY <2>9, <4>1
      <4> QED BY <2>6, <3>1, <4>2
    <3>2. CASE h # next
      <4>1. h + 1 # next + 1
        BY <2>2, <3>2 DEF Heights
      <4>2. logs'[h + 1] = logs[h + 1] /\ rows'[h] = rows[h]
        BY <2>6, <2>9, <2>11, <3>2, <4>1
      <4> QED BY <2>11, <4>2 DEF Prefix
    <3> QED BY <3>1, <3>2
  <2>12. nodeHead' <= height'
    BY <2>1 DEF Prefix
  <2> QED BY <2>1, <2>7, <2>8, <2>10, <2>11, <2>12 DEF Prefix
<1>8. CASE ReplayError \/ Subscribe \/ SubscribeError \/ TailReceive \/ TailFetch \/ TailMissing
  <2>1. /\ restarts' = restarts /\ tailSaved' = tailSaved /\ nodeHead' = nodeHead
        /\ UNCHANGED store /\ ((rpc' = rpc /\ next' = next) \/ rpc' \in {"idle", "head"})
        /\ height' = height
    BY <1>8 DEF ReplayError, Subscribe, SubscribeError, TailReceive, TailFetch, TailMissing,
       node, replay
  <2>2. height <= height'
    BY <2>1 DEF TypeOK
  <2> QED BY <1>0, <2>1, <2>2, PrefixUnchanged
<1>9. CASE TailSave
  BY <1>9 DEF TailSave, Prefix
<1>10. CASE UNCHANGED vars
  BY <1>10 DEF vars, Prefix, node, replay, store
<1> QED
  BY <1>1, <1>2, <1>3, <1>4, <1>5, <1>6, <1>7, <1>8, <1>9, <1>10 DEF Next, Replays, Tails

(* Until the tail stores a block, the stored heights have no gap and no    *)
(* log is stored twice, over any number of failed calls and restarts of    *)
(* the explorer (indexer.go, replay; store.go, Head and SaveBlock).        *)
THEOREM ReplayIsGapless == Spec => []ReplayLeavesNoGap
<1>1. Init => Prefix
  BY DEF Init, Prefix, Heights
<1>2. IInv /\ [Next]_vars => IInv'
  BY TypeInductive, OneLifeInductive DEF IInv
<1>3. IInv /\ Prefix => ReplayLeavesNoGap
  <2> SUFFICES ASSUME TypeOK, Prefix, restarts = 0, tailSaved = "no", NEW n \in Heights
               PROVE  logs[n] <= 1
    BY DEF IInv, Prefix, ReplayLeavesNoGap
  <2>1. CASE n = 0
    BY <2>1 DEF Prefix
  <2>2. CASE n # 0
    <3>1. n - 1 \in Heights /\ (n - 1) + 1 = n
      BY <2>2 DEF Heights
    <3>2. \A h \in Heights : h + 1 \in Heights => logs[h + 1] <= 1
      BY DEF Prefix
    <3> QED BY <3>1, <3>2
  <2> QED BY <2>1, <2>2
<1> QED BY InitInv, PrefixInductive, <1>1, <1>2, <1>3, PTL DEF Spec
=============================================================================
