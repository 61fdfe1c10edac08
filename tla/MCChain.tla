------------------------------ MODULE MCChain ------------------------------
(* Instances of Chain for TLC. Account a is a 32-byte public key, whose    *)
(* revm alias z is a different key; b is a 20-byte address, its own alias; *)
(* t stands for the precompiles' own accounts.                             *)
EXTENDS Chain, FiniteSetsExt, TLC

CONSTANTS a, b, z, t

MCAccounts == {a, b, z, t}
MCAlias == (a :> z) @@ (b :> b) @@ (z :> z) @@ (t :> t)
MCGenesisLevel == (a :> 0) @@ (b :> 0) @@ (z :> 0) @@ (t :> 3)
MCGenesisBal == (a :> 12) @@ (b :> 4) @@ (z :> 0) @@ (t :> 12)

(* way_fundGenesis also takes an amount with a sign. *)
MCFundAmounts == {-2}

Tx(from, to, nonce, value, gas, lane, kind, sig) ==
    [from |-> from, to |-> to, nonce |-> nonce, value |-> value, gas |-> gas, price |-> 0,
     lane |-> lane, kind |-> kind, sig |-> sig]

(* Every branch of EVM.Execute, two transactions of a with the same nonce, *)
(* and b's two nonces in either order.                                     *)
CoreTxs ==
    {Tx(a, b, 0, 1, 2, "consensus", "transfer", "good"),
     Tx(a, b, 0, 2, 1, "consensus", "call", "good"),
     Tx(b, b, 0, 1, 3, "consensus", "precompile", "none"),
     Tx(b, b, 1, 1, 1, "consensus", "deploy", "none")}

(* Transfers and precompile calls that pay for the gas they are charged; *)
(* b can afford its transfer only once a's has arrived.                  *)
PricedTxs ==
    {Tx(a, b, 0, 5, 2, "consensus", "transfer", "good"),
     Tx(b, a, 0, 3, 2, "consensus", "transfer", "none"),
     Tx(b, b, 0, 1, 2, "consensus", "transfer", "bad"),
     Tx(a, b, 0, 2, 3, "consensus", "precompile", "good"),
     Tx(b, a, 1, 4, 9, "consensus", "precompile", "none"),
     [Tx(a, b, 1, 0, 2, "consensus", "transfer", "good") EXCEPT !.price = 3]}

(* Every way to be charged more than was checked: a gas limit below the    *)
(* 21000 of a transfer, a precompile that spends the balance first, a call *)
(* that revm charges too; and a second transaction of a, sent in time or   *)
(* when a already owes.                                                    *)
OverdraftTxs ==
    {Tx(a, b, 0, 5, 1, "consensus", "transfer", "good"),
     Tx(a, b, 0, 2, 3, "consensus", "precompile", "good"),
     [Tx(a, b, 1, 0, 2, "consensus", "transfer", "good") EXCEPT !.price = 3],
     Tx(b, a, 0, 2, 2, "consensus", "call", "none"),
     Tx(b, b, 0, 1, 2, "consensus", "transfer", "bad")}

OracleTxs ==
    {Tx(a, b, 0, 1, 2, "oracle", "transfer", "good"),
     Tx(b, a, 0, 1, 2, "consensus", "transfer", "good")}

(* A call of a, whose result is stored over z's, and two transactions of z. *)
CallTxs ==
    {Tx(a, b, 0, 2, 2, "consensus", "call", "good"),
     Tx(z, b, 0, 0, 2, "consensus", "transfer", "none"),
     Tx(z, b, 1, 0, 2, "consensus", "transfer", "none")}

AliasGenesisBal == [MCGenesisBal EXCEPT ![z] = 8]

(* The sum of all balances. *)
Total == MapThenSumSet(LAMBDA x : acct[x].bal, Accounts)

(* Nothing ProduceBlock does creates WAY: what a transaction credits is    *)
(* paid by somebody.                                                       *)
NoMint == [][Loop => Total' <= Total]_vars
=============================================================================
