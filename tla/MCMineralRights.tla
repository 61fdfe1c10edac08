-------------------------- MODULE MCMineralRights --------------------------
(* Instances of MineralRights for TLC. The keys of accounts p and v are    *)
(* longer than 32 bytes and stored as t; those of q and u fit. All but u   *)
(* hold the badge.                                                         *)
EXTENDS MineralRights, TLC

CONSTANTS p, q, v, u, t, f

MCAccounts == {p, q, v, u}
MCNames == {q, u, t, f}
MCTrunc == (p :> t) @@ (q :> q) @@ (v :> t) @@ (u :> u)
MCLevel == (p :> 2) @@ (q :> 3) @@ (v :> 2) @@ (u :> 1)

(* The name f was made up to read as a lawyer's record of p's first claim. *)
MCReadsAs == {<<f, <<p, "d", 1>>, Lawyer>>}

MCRate == (Inferred :> 4) @@ (Indicated :> 6) @@ (Measured :> 8)
=============================================================================
