-------------------------- MODULE MCConsensusRound --------------------------
(* Small instances of ConsensusRound for TLC. *)
EXTENDS ConsensusRound, TLC

CONSTANTS v1, v2, v3, v4 \* validator ids; v1 is the local one

Three == {v1, v2, v3}
Four == {v1, v2, v3, v4}

(* SelectProposer picks the local validator for every height, *)
AlwaysLocal == [h \in 1..(MaxProposals + 1) |-> v1]

(* or for every height but the second. *)
SecondIsPeer == [h \in 1..(MaxProposals + 1) |-> IF h = 2 THEN v2 ELSE v1]

(* The peers are interchangeable, and so are the other names. *)
PeerSymmetry ==
    Permutations(ActiveSet \ {v1}) \cup Permutations(Names \ ActiveSet)
=============================================================================
