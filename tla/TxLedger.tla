------------------------------ MODULE TxLedger ------------------------------
(***************************************************************************)
(* What the node promises a client about settled transactions, without     *)
(* blocks, buckets, crashes or a pool: transactions become known under     *)
(* their hash, stay so for good, and no two of them use the same nonce of  *)
(* the same sender.                                                        *)
(***************************************************************************)
CONSTANT Txs \* the transactions, records with a sender `from' and a `nonce'

VARIABLE settled \* those a lookup by hash returns

(* No nonce of a sender is used twice. *)
OneUse(T) == \A t, u \in T : t.from = u.from /\ t.nonce = u.nonce => t = u

Init == settled = {}

(* Some transactions settle together: a block. *)
Settle(block) ==
    /\ OneUse(settled \cup block)
    /\ settled' = settled \cup block

Next == \E block \in SUBSET (Txs \ settled) : Settle(block)

Spec == Init /\ [][Next]_settled
=============================================================================
