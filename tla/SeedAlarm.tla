------------------------------ MODULE SeedAlarm ------------------------------
(***************************************************************************)
(* What the seed-down alert of the P2P layer promises, without             *)
(* connections, messages or peer tables: a watcher (a node configured with *)
(* seeds) may raise the alert, any other node takes it over only from a    *)
(* neighbour that has sent it, and every node sends it at most once        *)
(* ("only log + re-broadcast once per node", p2p.go).                      *)
(***************************************************************************)
CONSTANTS
    Node,     \* the nodes
    Watchers, \* the nodes that look for the seeds
    Link      \* the pairs of nodes that may be connected

VARIABLE alarm \* "quiet", "raised" (the flag is set) or "sent" (broadcast)

Init == alarm = [n \in Node |-> "quiet"]

(* A watcher finds every seed down. *)
Raise(n) ==
    /\ alarm[n] = "quiet" /\ n \in Watchers
    /\ alarm' = [alarm EXCEPT ![n] = "raised"]

(* A node hears the alert of a neighbour. *)
Hear(n, m) ==
    /\ alarm[n] = "quiet" /\ alarm[m] = "sent" /\ <<m, n>> \in Link
    /\ alarm' = [alarm EXCEPT ![n] = "raised"]

(* A node that has the flag broadcasts, once. *)
Send(n) ==
    /\ alarm[n] = "raised"
    /\ alarm' = [alarm EXCEPT ![n] = "sent"]

Next == \E n \in Node : Raise(n) \/ Send(n) \/ \E m \in Node : Hear(n, m)

Spec == Init /\ [][Next]_alarm
=============================================================================
