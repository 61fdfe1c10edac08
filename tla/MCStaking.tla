----------------------------- MODULE MCStaking -----------------------------
(* Small instances of Staking for TLC. *)
EXTENDS Staking, TLC

CONSTANTS a, b, c, d, e, f, g \* validators

Pair == {a, b}
Seven == {a, b, c, d, e, f, g}

(* Any two validators may be exchanged. *)
ValidatorSymmetry == Permutations(Validators)
=============================================================================
