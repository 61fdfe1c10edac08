------------------------------ MODULE MCTwoWay ------------------------------
(* TwoWay for TLC.  A fee of one percent is 1 of 100 and nothing of 50. *)
EXTENDS TwoWay

CONSTANTS s1, s2

\* Vault ids that differ in their first 20 bytes, and ids that agree in them.
Apart == [v \in Vaults |-> v]
Shared == [v \in Vaults |-> CHOOSE w \in Vaults : TRUE]

MCFeeBps == [s \in Coins |-> IF s = s1 THEN 100 ELSE 300]
=============================================================================
