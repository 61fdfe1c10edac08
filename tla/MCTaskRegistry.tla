--------------------------- MODULE MCTaskRegistry ---------------------------
(* The task registry with a user, a verifier and the founder. *)
EXTENDS TaskRegistry

MCAccounts == {"user", "verifier", "founder"}
MCAddrs == {"user", "founder", "treasury"}
MCLevel == [a \in MCAccounts |-> CASE a = "user" -> 1 [] a = "verifier" -> 2 [] a = "founder" -> 3]
MCTasks == {"quest", "badge"}
MCRewardOf == [t \in MCTasks |-> IF t = "quest" THEN 2 ELSE 0]
MCBal(user, treasury) ==
    [h \in Holders |-> CASE h = "user" -> user [] h = "treasury" -> treasury
                         [] h = "pool" -> 5 [] OTHER -> 0]
MCGenesisBal == MCBal(1, 3)

(* A rich treasury, for the quests that are paid again and again. *)
RichGenesisBal == MCBal(2, 10)
=============================================================================
