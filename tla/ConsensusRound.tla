--------------------------- MODULE ConsensusRound ---------------------------
(***************************************************************************)
(* The BFT round manager of one validator (consensus/consensus_round.go,   *)
(* consensus.go): the 1-second loop that proposes a block when this node   *)
(* is the proposer, the votes that arrive through OnVote, the precommits   *)
(* of the local validator, the timers of the rounds, and the engine that   *)
(* records finalized blocks. Nothing authenticates a vote or asks whether  *)
(* its sender is a validator (IsValidatorActive has no caller).            *)
(*                                                                         *)
(* The loop reads Engine.CurrentHeight without a lock and publishes the    *)
(* round later; votes, precommits and timeouts run in goroutines of their  *)
(* own, each one step under consensusMu (precommit two). Ticks, votes and  *)
(* the 3-second timers come in any order: the model has no clock.          *)
(***************************************************************************)
EXTENDS Integers, FiniteSets

CONSTANTS
    ActiveSet,    \* the validators selectNewEpoch picked when the engine was made
    Names,        \* the names votes come under: any validator id, active or not
    Local,        \* validator 0x01, the one isLocalValidator recognises
    Proposer,     \* SelectProposer: a hash of the epoch's seed and of the height
    MaxHeard,     \* bound: how many precommits arrive for one height
    MaxPrevotes,  \* bound: how many prevotes arrive
    MaxProposals  \* bound: how many blocks a run proposes

Ids == 1..MaxProposals

ASSUME ConsensusAssumption ==
    /\ IsFiniteSet(ActiveSet) /\ Local \in ActiveSet /\ ActiveSet \subseteq Names
    /\ MaxProposals \in Nat \ {0} /\ MaxHeard \in Nat /\ MaxPrevotes \in Nat
    /\ Proposer \in [1..(MaxProposals + 1) -> ActiveSet]

VARIABLES
    loop,      \* where runBlockRound and proposeBlock are
    target,    \* the height the loop has read
    produced,  \* Chain.Height: how many blocks the chain has produced
    roundOf,   \* the round's height under which each block was proposed
    round,     \* cm.CurrentRound; its id is 0 before the first proposal
    timer,     \* the time.AfterFunc of each round
    current,   \* Engine.CurrentHeight
    finalized, \* Engine.Blocks: the block recorded at each height, 0 for none
    checks,    \* precommit calls that have recorded their vote and not yet checked the commit
    heard,     \* how many precommits have been delivered for each height
    prevoted   \* how many prevotes have been delivered

vars == <<loop, target, produced, roundOf, round, timer, current, finalized, checks,
          heard, prevoted>>

RoundType ==
    [id: 0..MaxProposals, height: 0..MaxProposals, num: 0..MaxProposals,
     phase: {"propose", "commit", "timeout"},
     prevotes: SUBSET Names, prevotePower: Nat,
     precommits: [Names -> 0..MaxProposals], precommitPower: Nat]

NoVotes == [v \in Names |-> 0]

Init ==
    /\ loop = "idle" /\ target = 0 /\ produced = 0
    /\ roundOf = [i \in Ids |-> 0]
    /\ round = [id |-> 0, height |-> 0, num |-> 0, phase |-> "propose", prevotes |-> {},
                prevotePower |-> 0, precommits |-> NoVotes, precommitPower |-> 0]
    /\ timer = [i \in Ids |-> "none"]
    /\ current = 0
    /\ finalized = [h \in Ids |-> 0]
    /\ checks = 0
    /\ heard = [h \in Ids |-> 0] /\ prevoted = 0

-----------------------------------------------------------------------------
(* The loop. *)

(* runBlockRound: the next height, read without a lock. *)
RunBlockRound ==
    /\ loop = "idle" /\ produced < MaxProposals
    /\ Proposer[current + 1] = Local
    /\ target' = current + 1
    /\ loop' = "produce"
    /\ UNCHANGED <<produced, roundOf, round, timer, current, finalized, checks,
                   heard, prevoted>>

(* The tick does nothing when another validator is the proposer; the bound *)
(* of a run ends here too.                                                *)
IdleTick ==
    /\ loop = "idle"
    /\ produced = MaxProposals \/ Proposer[current + 1] # Local
    /\ UNCHANGED vars

(* Mutant: the block takes the number of the round. *)
NumberFromRound(i, h) == h

(* ProduceBlock increments the chain's own height, whatever round asks. *)
BlockNumber(i, h) == i

(* proposeBlock: ProduceBlock, and the new round takes the place of the    *)
(* current one, whatever its phase; the proposal is broadcast.             *)
ProposeBlock ==
    /\ loop = "produce"
    /\ LET i == produced + 1
       IN /\ produced' = i
          /\ roundOf' = [roundOf EXCEPT ![i] = target]
          /\ round' = [id |-> i, height |-> target, num |-> BlockNumber(i, target),
                       phase |-> "propose", prevotes |-> {}, prevotePower |-> 0,
                       precommits |-> NoVotes, precommitPower |-> 0]
    /\ loop' = "arm"
    /\ UNCHANGED <<target, timer, current, finalized, checks, heard, prevoted>>

(* proposeBlock: the timer is started after the round is visible. *)
StartTimer ==
    /\ loop = "arm"
    /\ timer' = [timer EXCEPT ![produced] = "armed"]
    /\ loop' = "prevote"
    /\ UNCHANGED <<target, produced, roundOf, round, current, finalized, checks,
                   heard, prevoted>>

(* prevote for the own proposal. *)
Prevote ==
    /\ loop = "prevote"
    /\ round' = [round EXCEPT !.prevotes = @ \cup {Local}, !.prevotePower = @ + 1]
    /\ loop' = "idle"
    /\ UNCHANGED <<target, produced, roundOf, timer, current, finalized, checks,
                   heard, prevoted>>

-----------------------------------------------------------------------------
(* Votes. *)

TotalPower == Cardinality(ActiveSet)

(* uint64(float64(TotalPower) * 2/3): rounded down. *)
Threshold == (2 * TotalPower) \div 3

(* FinalizeBlock: CurrentHeight follows the block's own height. *)
FinalizeHeight(r) == r.num

(* A round in which one more precommit is recorded. *)
Counted(v, i) ==
    [round EXCEPT !.precommits = [@ EXCEPT ![v] = i], !.precommitPower = @ + 1]

(* checkCommitLocked on round r, and the FinalizeBlock it calls: at the    *)
(* threshold the round is committed, its timer stopped and its block       *)
(* recorded, each time again.                                              *)
CheckCommit(r) ==
    IF r.precommitPower >= Threshold /\ r.id # 0
    THEN /\ round' = [r EXCEPT !.phase = "commit"]
         /\ timer' = [timer EXCEPT ![r.id] = IF @ = "armed" THEN "done" ELSE @]
         /\ finalized' = [finalized EXCEPT ![r.num] = r.id]
         /\ current' = IF FinalizeHeight(r) > current THEN FinalizeHeight(r) ELSE current
    ELSE /\ round' = r
         /\ UNCHANGED <<timer, finalized, current>>

(* A precommit for block i is delivered. It names the height of the round  *)
(* that proposed i; the block's hash is never compared.                    *)
Deliver(i) ==
    /\ i \in 1..produced
    /\ heard[roundOf[i]] < MaxHeard
    /\ heard' = [heard EXCEPT ![roundOf[i]] = @ + 1]

(* Mutant: a vote for any height counts. *)
ForAnyRound(h) == TRUE

(* The test handleVote and precommit make: the vote's height is the round's. *)
ForRound(h) == round.id # 0 /\ round.height = h

(* handleVote with a prevote: nothing ever reads what it records. *)
HandlePrevote(i, v) ==
    /\ i \in 1..produced /\ prevoted < MaxPrevotes
    /\ prevoted' = prevoted + 1
    /\ round' = IF ForRound(roundOf[i])
                THEN [round EXCEPT !.prevotes = @ \cup {v}, !.prevotePower = @ + 1]
                ELSE round
    /\ UNCHANGED <<loop, target, produced, roundOf, timer, current, finalized, checks, heard>>

(* handleVote with a precommit: one for another height is ignored; any     *)
(* name is as good as another, and a name's second vote counts again.      *)
HandlePrecommit(i, v) ==
    /\ Deliver(i)
    /\ IF ForRound(roundOf[i])
       THEN CheckCommit(Counted(v, i))
       ELSE UNCHANGED <<round, timer, finalized, current>>
    /\ UNCHANGED <<loop, target, produced, roundOf, checks, prevoted>>

(* precommit by the local validator (tests are its only callers): the vote *)
(* is recorded under consensusMu, which is released for the broadcast,     *)
Precommit(i) ==
    /\ Deliver(i)
    /\ round' = IF ForRound(roundOf[i]) THEN Counted(Local, i) ELSE round
    /\ checks' = checks + 1
    /\ UNCHANGED <<loop, target, produced, roundOf, timer, current, finalized, prevoted>>

(* and the commit is checked later, on whatever round is then the current  *)
(* one: checkCommitLocked uses neither its height nor its round.           *)
PrecommitCheck ==
    /\ checks > 0
    /\ checks' = checks - 1
    /\ CheckCommit(round)
    /\ UNCHANGED <<loop, target, produced, roundOf, heard, prevoted>>

-----------------------------------------------------------------------------
(* Timeouts. *)

(* The timer fires and its goroutine waits for consensusMu: from here on *)
(* Stop comes too late.                                                  *)
TimerFires(i) ==
    /\ timer[i] = "armed"
    /\ timer' = [timer EXCEPT ![i] = "firing"]
    /\ UNCHANGED <<loop, target, produced, roundOf, round, current, finalized, checks,
                   heard, prevoted>>

(* handleTimeout: only the height is compared. *)
HandleTimeout(i) ==
    /\ timer[i] = "firing"
    /\ timer' = [timer EXCEPT ![i] = "done"]
    /\ round' = IF ForRound(roundOf[i]) THEN [round EXCEPT !.phase = "timeout"] ELSE round
    /\ UNCHANGED <<loop, target, produced, roundOf, current, finalized, checks,
                   heard, prevoted>>

Loop == RunBlockRound \/ IdleTick \/ ProposeBlock \/ StartTimer \/ Prevote

Vote ==
    \/ \E i \in Ids, v \in Names : HandlePrevote(i, v) \/ HandlePrecommit(i, v)
    \/ \E i \in Ids : Precommit(i)
    \/ PrecommitCheck

Timeout == \E i \in Ids : TimerFires(i) \/ HandleTimeout(i)

Next == Loop \/ Vote \/ Timeout

Spec == Init /\ [][Next]_vars

(* The ticker keeps ticking, timers fire, and every vote is delivered. *)
FairSpec == Spec /\ WF_vars(Loop) /\ WF_vars(Timeout) /\ WF_vars(Vote)

-----------------------------------------------------------------------------
(* Properties. *)

Recorded == {h \in Ids : finalized[h] # 0}
Voters(r) == {v \in ActiveSet : r.precommits[v] # 0}

TypeOK ==
    /\ loop \in {"idle", "produce", "arm", "prevote"}
    /\ target \in 0..MaxProposals /\ produced \in 0..MaxProposals
    /\ loop = "produce" => target # 0 /\ produced < MaxProposals
    /\ roundOf \in [Ids -> 0..MaxProposals]
    /\ round \in RoundType /\ round.id = produced
    /\ timer \in [Ids -> {"none", "armed", "firing", "done"}]
    /\ current \in 0..produced
    /\ finalized \in [Ids -> 0..MaxProposals]
    /\ \A i \in 1..produced : roundOf[i] # 0
    /\ checks \in Nat /\ heard \in [Ids -> Nat]
    /\ prevoted \in 0..MaxPrevotes

(* A finalized block is never replaced and the height never goes back,     *)
(* although a round may be opened again for a height that has been         *)
(* finalized meanwhile and committed there a second time (FinalizeBlock).  *)
FinalityIrrevocable ==
    [][/\ current' >= current
       /\ \A h \in Recorded : finalized'[h] = finalized[h]]_vars

(* GetQuorumHeight, the greatest recorded height, is the CurrentHeight the *)
(* next round starts from, whatever heights re-proposals have skipped.     *)
QuorumHeight ==
    /\ \A h \in Recorded : h <= current
    /\ current # 0 => current \in Recorded

(* FinalizeBlock is reached only after Threshold precommits for the height *)
(* of the round that proposed the block: votes for other heights, votes in *)
(* earlier rounds and a commit check that comes after its round has been   *)
(* replaced never finalize a block that fewer were sent for.               *)
QuorumHeard == \A h \in Recorded : heard[roundOf[finalized[h]]] >= Threshold

(* "2/3+ validators commit": Threshold different active validators are     *)
(* behind a block when it is finalized (PrecommitPower is a bare counter). *)
DistinctQuorum ==
    [][finalized' # finalized => Cardinality(Voters(round')) >= Threshold]_vars

(* FinalizeBlock "(2/3+ commits achieved)": at least two thirds of the     *)
(* active validators are behind a block when it is finalized.              *)
TwoThirds ==
    [][finalized' # finalized => 3 * Cardinality(Voters(round')) >= 2 * TotalPower]_vars

(* "Block N proposed -> 2/3+ validators commit -> Block N is FINAL": the   *)
(* precommits that finalize a block are for that block.                    *)
VotesForBlock ==
    [][finalized' # finalized =>
         \A v \in Voters(round') : round'.precommits[v] = round'.id]_vars

(* "executes one consensus round for the next block": a round is opened    *)
(* only for the height after the last finalized one.                       *)
RoundIsNext == [][round'.id # round.id => round'.height = current + 1]_vars

(* "Time to wait for 2/3+ commits": a round that has its commits does not  *)
(* time out (handleTimeout).                                               *)
CommitNotTimedOut == [][round.phase = "commit" => round'.phase # "timeout"]_vars

(* "a single faulty proposer cannot halt the chain": this node goes on to *)
(* propose until the bound is reached.                                    *)
ProposerSkipped == <>(produced = MaxProposals)
=============================================================================
