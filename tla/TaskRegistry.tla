---------------------------- MODULE TaskRegistry ----------------------------
(***************************************************************************)
(* The task registry precompile (0x23): quests paid from the treasury      *)
(* (0x03) under a cap of 5% of the live supply, bounties, community tasks  *)
(* with an escrow, and the giveaway pool (0x02). Every action is one call, *)
(* made by any account in any order; a call that returns an error changes  *)
(* nothing.                                                                *)
(*                                                                         *)
(* Abstractions: task and bounty ids, accounts and addresses are model     *)
(* values. The badge levels are constants. The pool's account exists.      *)
(* EconoAccruePayout keeps statistics in globals nothing here reads.       *)
(***************************************************************************)
EXTENDS Naturals, FiniteSets, Functions

CONSTANTS
    Accounts,     \* the callers, by their state key
    Addrs,        \* the addresses that calldata names: keys of 20 bytes
    Level,        \* acc.DoxDevLevel
    Tasks,        \* task ids
    Bounties,     \* bounty ids
    RewardOf,     \* taskRewardAmount: 0 for an id that is not a quest
    AutoEligible, \* autoEligibleTasks
    Founder,      \* the autopilot of the genesis block
    GenesisBal, GenesisSupply,
    QuestPct,     \* QUEST_SUPPLY_PCT, in hundredths
    Amounts,      \* the amounts calldata names
    GiveawayReward,
    Shift,        \* 2^(8k): where a short number lands that is stored left-aligned
    MaxCalls      \* bound on the number of calls

Holders == Accounts \cup Addrs \cup {"treasury", "registry", "pool"}
NoAddr == "zero"
NoClaim == [task |-> "none", status |-> "none"]
NoTask == [minLevel |-> 0, mode |-> 0, reward |-> 0]

ASSUME TaskAssumption ==
    /\ IsFiniteSet(Accounts) /\ IsFiniteSet(Addrs) /\ Level \in [Accounts -> Nat]
    /\ RewardOf \in [Tasks -> Nat] /\ AutoEligible \subseteq Tasks
    /\ Founder \in Addrs /\ NoAddr \notin Holders
    /\ GenesisBal \in [Holders -> Nat] /\ GenesisSupply \in Nat
    /\ QuestPct \in Nat /\ GiveawayReward \in Nat /\ Shift \in Nat /\ Amounts \subseteq Nat
    /\ MaxCalls \in Nat

VARIABLES
    bal,       \* account balances
    claim,     \* slot 0x10 of each account: one claim, whatever its task
    given,     \* slot 0x11: who has had the giveaway
    bounty,    \* slot 0x20: the word stored for each bounty
    fixes,     \* slot 0x18 of each account, by bounty
    delegated, \* slot 0x19 of each delegating account, by bounty and registrant
    task,      \* slot 0x30: the community tasks
    escrow,    \* slot 0x31: what each of them has in escrow
    autopilot, \* slot 0x50
    paid,      \* slot 0x40: the quest payouts counted against the cap
    supply,    \* slot 0x41: the live supply
    moved,     \* history: WAY that quests have taken out of the treasury
    made,      \* history: WAY credited without a debit, by questFund and by payouts
    calls      \* how many calls have changed something

quest == <<claim, paid, supply, autopilot, moved>>
bounties == <<bounty, fixes, delegated>>
shared == <<task, escrow>>
vars == <<bal, quest, bounties, shared, given, made, calls>>

(* The state after genesis: SeedAllGenesis and SeedQuestSupply. *)
Init ==
    /\ bal = GenesisBal
    /\ claim = [a \in Holders |-> NoClaim]
    /\ given = {}
    /\ bounty = [b \in Bounties |-> 0]
    /\ fixes = [a \in Holders |-> [b \in Bounties |-> "none"]]
    /\ delegated = [a \in Accounts |-> [b \in Bounties |-> [r \in Addrs |-> 0]]]
    /\ task = [t \in Tasks |-> NoTask]
    /\ escrow = [t \in Tasks |-> 0]
    /\ autopilot = Founder
    /\ paid = 0 /\ supply = GenesisSupply /\ moved = 0 /\ made = 0
    /\ calls = 0

-----------------------------------------------------------------------------
(* Helpers *)

(* One more of the calls the model is bounded to. *)
Call == calls < MaxCalls /\ calls' = calls + 1

(* Balance.Sub of one account, then Balance.Add of the other. *)
Transfer(b, from, to, n) == [[b EXCEPT ![from] = @ - n] EXCEPT ![to] = @ + n]

(* taskRewardAmount: the table of the quests, 0 for any other id. *)
TaskReward(t) == RewardOf[t]

IsAutoEligible(t) == t \in AutoEligible

IsVerifier(a) == Level[a] >= 2

IsAutopilot(a) == autopilot # NoAddr /\ a = autopilot

(* Mutant: the reward is left out of the comparison. *)
UnderCapBefore(n) == paid <= (supply * QuestPct) \div 100

QuestCap == (supply * QuestPct) \div 100

WithinCap(n) == paid + n <= QuestCap

Funded(n) == bal["treasury"] >= n

(* verifyAndPay: the cap first, then the mark, and the transfer if the     *)
(* treasury has the reward; the reward counts against the cap either way.  *)
VerifyAndPay(t, c) ==
    LET reward == TaskReward(t)
    IN /\ Call /\ WithinCap(reward)
       /\ claim' = [claim EXCEPT ![c] = [task |-> t, status |-> "verified"]]
       /\ paid' = paid + reward
       /\ IF Funded(reward)
          THEN /\ bal' = Transfer(bal, "treasury", c, reward)
               /\ moved' = moved + reward
          ELSE UNCHANGED <<bal, moved>>
       /\ UNCHANGED <<supply, autopilot, bounties, shared, given, made>>

-----------------------------------------------------------------------------
(* Quests *)

(* taskClaim keeps no record of earlier claims of the account. *)
TaskClaim(a, t) ==
    /\ Call
    /\ claim' = [claim EXCEPT ![a] = [task |-> t, status |-> "claimed"]]
    /\ UNCHANGED <<bal, paid, supply, autopilot, moved, bounties, shared, given, made>>

TaskVerify(a, t, c) == IsVerifier(a) /\ VerifyAndPay(t, c)

TaskAutoVerify(a, t, c) == IsAutopilot(a) /\ IsAutoEligible(t) /\ VerifyAndPay(t, c)

QuestSetAutopilot(a, c) ==
    /\ Call
    /\ Level[a] >= 3
    /\ autopilot' = c
    /\ UNCHANGED <<bal, claim, paid, supply, moved, bounties, shared, given, made>>

(* questFund credits the treasury and debits nobody. *)
QuestFund(n) ==
    /\ Call
    /\ bal' = [bal EXCEPT !["treasury"] = @ + n]
    /\ made' = made + n
    /\ UNCHANGED <<quest, bounties, shared, given>>

(* QuestAddSupply, called by ProduceBlock for the rewards it mints. *)
QuestAddSupply(n) ==
    /\ Call
    /\ supply' = supply + n
    /\ UNCHANGED <<bal, claim, paid, autopilot, moved, bounties, shared, given, made>>

(* Mutant: the pool is not debited. *)
PoolKeeps(a) == [bal EXCEPT ![a] = @ + GiveawayReward]

PoolPays(a) == Transfer(bal, "pool", a, GiveawayReward)

(* giveawayClaim marks the account also when the pool cannot pay. *)
GiveawayClaim(a) ==
    /\ Call
    /\ a \notin given
    /\ given' = given \cup {a}
    /\ bal' = IF bal["pool"] >= GiveawayReward THEN PoolPays(a) ELSE bal
    /\ UNCHANGED <<quest, bounties, shared, made>>

-----------------------------------------------------------------------------
(* Bounties *)

(* registerBounty stores type and lane in the two first bytes and the      *)
(* amount left-aligned after them; what reads it back reads one number.    *)
BountyWord(head, n) == (head * Shift + n) * Shift

RegisterBounty(b, head, n) ==
    /\ Call
    /\ bounty' = [bounty EXCEPT ![b] = BountyWord(head, n)]
    /\ UNCHANGED <<bal, quest, fixes, delegated, shared, given, made>>

ClaimFix(a, b) ==
    /\ Call
    /\ fixes' = [fixes EXCEPT ![a][b] = "claimed"]
    /\ UNCHANGED <<bal, quest, bounty, delegated, shared, given, made>>

(* verifyFix looks neither for a claim nor for an earlier payment. *)
VerifyFix(a, b, c) ==
    /\ Call
    /\ IsVerifier(a)
    /\ fixes' = [fixes EXCEPT ![c][b] = "verified"]
    /\ bal' = IF Funded(bounty[b]) THEN Transfer(bal, "treasury", c, bounty[b]) ELSE bal
    /\ UNCHANGED <<quest, bounty, delegated, shared, given, made>>

(* delegateMicroTask: Mul(...).Div(word, 10) is a tenth of the word, and   *)
(* the slot it adds up with is not the one it writes.                      *)
DelegateMicroTask(a, b, r, n) ==
    /\ Call
    /\ IsVerifier(a)
    /\ n <= bounty[b] \div 10
    /\ delegated' = [delegated EXCEPT ![a][b][r] = n * Shift]
    /\ UNCHANGED <<bal, quest, bounty, fixes, shared, given, made>>

-----------------------------------------------------------------------------
(* Community tasks *)

(* createTask overwrites what another account has stored for the id. *)
CreateTask(t, n, minLevel, mode) ==
    /\ Call
    /\ n > 0
    /\ task' = [task EXCEPT ![t] = [minLevel |-> minLevel, mode |-> mode, reward |-> n]]
    /\ UNCHANGED <<bal, quest, bounties, escrow, given, made>>

EscrowTask(a, t, n) ==
    /\ Call
    /\ bal[a] >= n
    /\ escrow' = [escrow EXCEPT ![t] = @ + n]
    /\ bal' = Transfer(bal, a, "registry", n)
    /\ UNCHANGED <<quest, bounties, task, given, made>>

(* verifyCommunity: a record of two zero bytes is no record. The payer is  *)
(* the registry if the task has an escrow, else the treasury; it is only   *)
(* debited if it has the reward, and the claimant is credited anyway.      *)
VerifyCommunity(a, t, c) ==
    LET n == task[t].reward
        payer == IF escrow[t] > 0 THEN "registry" ELSE "treasury"
    IN /\ Call
       /\ ~(task[t].minLevel = 0 /\ task[t].mode = 0)
       /\ IF task[t].mode = 0 THEN IsAutopilot(a) ELSE IsVerifier(a)
       /\ claim' = [claim EXCEPT ![c] = [task |-> t, status |-> "verified"]]
       /\ escrow' = [escrow EXCEPT ![t] = IF @ > n THEN @ - n ELSE 0]
       /\ IF bal[payer] >= n
          THEN bal' = Transfer(bal, payer, c, n) /\ UNCHANGED made
          ELSE bal' = [bal EXCEPT ![c] = @ + n] /\ made' = made + n
       /\ UNCHANGED <<paid, supply, autopilot, moved, bounties, task, given>>

Quest ==
    \/ \E a \in Accounts, t \in Tasks : TaskClaim(a, t)
    \/ \E a \in Accounts, t \in Tasks, c \in Addrs :
         TaskVerify(a, t, c) \/ TaskAutoVerify(a, t, c)
    \/ \E a \in Accounts, c \in Addrs \cup {NoAddr} : QuestSetAutopilot(a, c)
    \/ \E n \in Amounts : QuestFund(n) \/ QuestAddSupply(n)
    \/ \E a \in Accounts : GiveawayClaim(a)

Bounty ==
    \/ \E b \in Bounties, head \in {0, 1}, n \in Amounts : RegisterBounty(b, head, n)
    \/ \E a \in Accounts, b \in Bounties : ClaimFix(a, b)
    \/ \E a \in Accounts, b \in Bounties, c \in Addrs :
         \/ VerifyFix(a, b, c)
         \/ \E n \in Amounts : DelegateMicroTask(a, b, c, n)

Community ==
    \/ \E t \in Tasks, n \in Amounts, minLevel \in {0, 1}, mode \in {0, 1} :
         CreateTask(t, n, minLevel, mode)
    \/ \E a \in Accounts, t \in Tasks, n \in Amounts : EscrowTask(a, t, n)
    \/ \E a \in Accounts, t \in Tasks, c \in Addrs : VerifyCommunity(a, t, c)

(* taskStatus, taskStatusOf, getTaskReward, questPoolRemaining, getTask,   *)
(* questGetAutopilot and the calls that return an error.                   *)
View == UNCHANGED vars

Next == Quest \/ Bounty \/ Community \/ View

Spec == Init /\ [][Next]_vars

-----------------------------------------------------------------------------
(* Properties *)

(* Every variable has its type; no balance, escrow or counter is negative. *)
TypeOK ==
    /\ bal \in [Holders -> Nat]
    /\ claim \in [Holders -> [task: Tasks \cup {"none"}, status: {"none", "claimed", "verified"}]]
    /\ given \subseteq Accounts
    /\ bounty \in [Bounties -> Nat]
    /\ fixes \in [Holders -> [Bounties -> {"none", "claimed", "verified"}]]
    /\ delegated \in [Accounts -> [Bounties -> [Addrs -> Nat]]]
    /\ task \in [Tasks -> [minLevel: {0, 1}, mode: {0, 1}, reward: Nat]]
    /\ escrow \in [Tasks -> Nat]
    /\ autopilot \in Addrs \cup {NoAddr}
    /\ paid \in Nat /\ supply \in Nat /\ moved \in Nat /\ made \in Nat
    /\ calls \in 0..MaxCalls

(* Over any number of verifications by any verifiers, also of tasks that   *)
(* were paid before, the quests never take more out of the treasury than   *)
(* is counted as paid, nor is more counted than the cap of the live supply *)
(* allows.                                                                 *)
CapKept == moved <= paid /\ paid <= QuestCap

(* No WAY is lost or made but for what questFund and the unbacked payouts  *)
(* of verifyCommunity create: every other payment has one payer.           *)
WayConserved == SumFunction(bal) = SumFunction(GenesisBal) + made

(* task_registry.go: "Each account may claim a given task once": what the  *)
(* quests have paid out is at most one reward for each address and task.   *)
EachTaskOnce == moved <= Cardinality(Addrs) * SumFunction(RewardOf)

(* task_registry.go: "pay from escrow if funded": the registry holds what  *)
(* the tasks have in escrow.                                               *)
EscrowCovered == SumFunction(escrow) <= bal["registry"]

(* task_registry.go: the community payout comes "from its escrow           *)
(* (self-funded) or treasury (gov-funded)".                                *)
PayoutsBacked ==
    [][made' > made => bal'["treasury"] > bal["treasury"]]_vars
=============================================================================
