-------------------------------- MODULE MCP2P --------------------------------
(* Small instances of P2P for TLC. *)
EXTENDS P2P, TLC

CONSTANTS n1, n2

(* n2's peer list names n1 twice. *)
Twice == [n \in Node |-> [m \in Node |-> IF n = n2 /\ m = n1 THEN 2 ELSE 0]]

(* n1 watches n2, which is a seed. *)
OneWatcher == [n \in Node |-> IF n = n1 THEN {n2} ELSE {}]

(* n1 broadcasts one block or transaction. *)
OneItem == [n \in Node |-> IF n = n1 THEN 1 ELSE 0]
=============================================================================
