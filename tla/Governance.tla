------------------------------ MODULE Governance ------------------------------
(***************************************************************************)
(* The governance precompile 0x1D (consensus/evm/governance.go) and the    *)
(* inflation rate a passed proposal sets (consensus/evm/inflation.go).     *)
(*                                                                         *)
(* Every operation is one call executed by Chain.ProduceBlock.  A call     *)
(* that returns an error is left out of the block, but nothing undoes what *)
(* it wrote before the error: the interpreter (interpreter.go:95) has no   *)
(* snapshot.  The outcome of the last call is kept in `outcome'.           *)
(*                                                                         *)
(* Storage slots are the functions below; an empty slot is 32 zero bytes,  *)
(* so a stored value of zero cannot be told from an absent one.            *)
(***************************************************************************)
EXTENDS Integers, FiniteSets, Sequences

CONSTANTS
    Callers,        \* accounts that send calls
    Titles,         \* title hashes
    Descriptions,   \* description hashes
    Kinds,          \* the vote types that are proposed
    Rates,          \* inflation rates in calldata, in hundredths of a percent
    Stakes,         \* credits a vote may spend
    Directions,     \* direction bytes of votes: 1 is yes, all others are no
    MaxHeight,      \* bound on the block height
    MaxVotes,       \* bound on the votes counted on one side of a proposal
    MaxProposals    \* bound on the proposals created

ASSUME KindsAssumption == Kinds \subseteq {"direct", "quadratic", "futarchy", "inflation"}
ASSUME RatesAssumption == Rates \subseteq Nat
ASSUME StakesAssumption == Stakes \subseteq Nat
ASSUME DirectionsAssumption == Directions \subseteq Nat
ASSUME BoundsAssumption == {MaxHeight, MaxVotes, MaxProposals} \subseteq Nat
ASSUME CallersAssumption == IsFiniteSet(Callers)

\* Bounds of the emission rate in hundredths of a percent.
MinInflation == 300
MaxInflation == 900
DefaultInflation == 700

VARIABLES
    height,         \* c.Height, the block number a call is given
    status,         \* byte 1 of the proposal slot
    kind,           \* byte 0 of the proposal slot, the vote type
    description,    \* the description slot
    calldata,       \* the calldata slot, read as a rate
    yes,            \* the yes count
    no,             \* the no count
    record,         \* the vote record of each caller
    credits,        \* the credit slot of each caller
    index,          \* the pid_<n> slots: the proposals in order of creation
    inflation,      \* activeInflationPct
    outcome         \* "ok" or "error": what the last call returned

slots == <<status, kind, description, calldata, yes, no, record, credits, index>>
vars == <<height, slots, inflation, outcome>>

\* generateProposalID hashes the title, the proposer and the block number.
ProposalID(title, proposer) == [title |-> title, by |-> proposer, block |-> height]
Ids == [title : Titles, by : Callers, block : 0 .. MaxHeight]

\* A vote slot that is all zeros: also what direction 0 with no credits writes.
EmptyRecord == [dir |-> 0, spent |-> 0]

\* generateProposalID appends the proposer and the block number to the title's
\* slice of the input.  The input's array has room behind the title, so append
\* writes them over the description before it is stored: an address has more
\* than 32 characters, so the slot holds the beginning of the proposer's address.
StoredDescription(proposer, d) == proposer

Init ==
    /\ height = 0
    /\ status = [p \in Ids |-> "none"]
    /\ kind = [p \in Ids |-> "direct"]
    /\ description = [p \in Ids |-> "empty"]
    /\ calldata = [p \in Ids |-> 0]
    /\ yes = [p \in Ids |-> 0]
    /\ no = [p \in Ids |-> 0]
    /\ record = [p \in Ids |-> [c \in Callers |-> EmptyRecord]]
    /\ credits = [c \in Callers |-> 0]    \* nothing grants credits
    /\ index = << >>
    /\ inflation = DefaultInflation
    /\ outcome = "ok"

\* The clock of the chain: the next block begins.
NextBlock ==
    /\ height < MaxHeight
    /\ height' = height + 1
    /\ UNCHANGED <<slots, inflation, outcome>>

\* The node is stopped after a block and started again.  The storage of the
\* precompiles comes back with the accounts; activeInflationPct is a package
\* variable that NewProgressiveStaking seeds anew.
Restart ==
    /\ height < MaxHeight
    /\ height' = height + 1
    /\ inflation' = DefaultInflation
    /\ UNCHANGED <<slots, outcome>>

\* govCreateProposal: no check of the caller's badge or bond, and none that
\* the proposal exists.  The yes count is zeroed, the no count and the vote
\* records are not.
CreateProposal(c, t, k, d, rate) ==
    LET p == ProposalID(t, c) IN
    /\ status' = [status EXCEPT ![p] = "active"]
    /\ kind' = [kind EXCEPT ![p] = k]
    /\ description' = [description EXCEPT ![p] = StoredDescription(c, d)]
    /\ calldata' = [calldata EXCEPT ![p] = rate]
    /\ yes' = [yes EXCEPT ![p] = 0]
    /\ index' = Append(index, p)
    /\ outcome' = "ok"
    /\ UNCHANGED <<height, no, record, credits, inflation>>

\* The record and the counts a vote writes, whatever happens next.
CastVote(c, p, dir, spent) ==
    /\ record' = [record EXCEPT ![p] = [@ EXCEPT ![c] = [dir |-> dir, spent |-> spent]]]
    /\ yes' = [yes EXCEPT ![p] = IF dir = 1 THEN @ + 1 ELSE @]
    /\ no' = [no EXCEPT ![p] = IF dir = 1 THEN @ ELSE @ + 1]

\* A quadratic vote spends credits after it has been counted; when they do not
\* suffice the call fails and the count stays.
SpendCredits(c, p, spent) ==
    IF kind[p] # "quadratic"
    THEN outcome' = "ok" /\ UNCHANGED credits
    ELSE IF credits[c] < spent
    THEN outcome' = "error" /\ UNCHANGED credits
    ELSE outcome' = "ok" /\ credits' = [credits EXCEPT ![c] = @ - spent]

\* Mutant: the record is written only once the credits are spent.
MayVoteAgain(c, p) == status[p] = "active"

\* The guards of govVote: the proposal is active and the caller's vote record
\* is an empty slot.
MayVote(c, p) == status[p] = "active" /\ record[p][c] = EmptyRecord

Vote(c, p, dir, spent) ==
    /\ MayVote(c, p)
    /\ CastVote(c, p, dir, spent)
    /\ SpendCredits(c, p, spent)
    /\ UNCHANGED <<height, status, kind, description, calldata, index, inflation>>

\* The percentage of yes votes a proposal must exceed.  The switch has no case
\* for an inflation proposal, which keeps the zero value.
Threshold(k) == CASE k = "direct" -> 50
                  [] k = "quadratic" -> 60
                  [] k = "futarchy" -> 66
                  [] OTHER -> 0

\* Mutant: the threshold is inclusive.
PassesAt(p) ==
    LET total == yes[p] + no[p] IN
    total > 0 /\ (yes[p] * 100) \div total >= Threshold(kind[p])

\* The percentage is rounded down before it is compared.
Passes(p) ==
    LET total == yes[p] + no[p] IN
    total > 0 /\ (yes[p] * 100) \div total > Threshold(kind[p])

\* Mutant: the rate is taken as it comes.
ExecutedUnchecked(rate) == rate

\* CalldataToInflationPct and SetInflationPct: a rate outside the bounds is an
\* error and leaves the rate alone; the clamp of SetInflationPct is never met.
Executed(rate) == IF rate \in MinInflation .. MaxInflation THEN rate ELSE inflation

\* The rate after the proposal has been decided.
RateAfter(p) ==
    IF Passes(p) /\ kind[p] = "inflation" THEN Executed(calldata[p]) ELSE inflation

\* govFinalize: any caller, at any time after creation, with any turnout.
Finalize(p) ==
    /\ status[p] = "active"
    /\ status' = [status EXCEPT ![p] = IF Passes(p) THEN "passed" ELSE "failed"]
    /\ inflation' = RateAfter(p)
    /\ outcome' = "ok"
    /\ UNCHANGED <<height, kind, description, calldata, yes, no, record, credits, index>>

Create ==
    /\ Len(index) < MaxProposals
    /\ \E c \in Callers, t \in Titles, k \in Kinds, d \in Descriptions, r \in Rates :
          CreateProposal(c, t, k, d, r)

Ballot ==
    \E c \in Callers, p \in Ids, dir \in Directions, s \in Stakes :
        /\ (IF dir = 1 THEN yes[p] ELSE no[p]) < MaxVotes
        /\ Vote(c, p, dir, s)

Decide == \E p \in Ids : Finalize(p)

Next == NextBlock \/ Restart \/ Create \/ Ballot \/ Decide

Spec == Init /\ [][Next]_vars

-------------------------------------------------------------------------------
(* Properties *)

\* The slots of governance.go hold what their encodings can hold.
TypeOK ==
    /\ height \in 0 .. MaxHeight
    /\ status \in [Ids -> {"none", "active", "passed", "failed"}]
    /\ kind \in [Ids -> Kinds \cup {"direct"}]
    /\ description \in [Ids -> Callers \cup {"empty"}]
    /\ calldata \in [Ids -> Rates \cup {0}]
    /\ yes \in [Ids -> 0 .. MaxVotes]
    /\ no \in [Ids -> 0 .. MaxVotes]
    /\ record \in [Ids -> [Callers -> [dir : Directions \cup {0}, spent : Stakes \cup {0}]]]
    /\ credits \in [Callers -> {0}]
    /\ index \in Seq(Ids)
    /\ Len(index) <= MaxProposals
    /\ inflation \in Nat
    /\ outcome \in {"ok", "error"}

\* govVote: every yes vote that counts is backed by the yes record of a
\* different caller, also after a proposal has been created a second time.
YesBacked ==
    \A p \in Ids : yes[p] <= Cardinality({c \in Callers : record[p][c].dir = 1})

\* govFinalize: a direct, quadratic or futarchy proposal that has passed has
\* more than 50, 60 or 66 percent of the votes counted for it, and keeps them.
ThresholdMet ==
    \A p \in Ids :
        LET need == [direct |-> 50, quadratic |-> 60, futarchy |-> 66] IN
        status[p] = "passed" /\ kind[p] # "inflation"
            => yes[p] * 100 > need[kind[p]] * (yes[p] + no[p])

\* The step decides an inflation proposal, which sets the rate it proposes, and
\* that is from 3 to 9 percent.
SetByVote ==
    \E p \in Ids : /\ status[p] = "active" /\ status'[p] = "passed"
                   /\ kind[p] = "inflation" /\ inflation' = calldata[p]
                   /\ inflation' \in MinInflation .. MaxInflation

\* govFinalize: within a run of the node the rate changes only when an inflation
\* proposal is decided, and to the very rate that was proposed, if that is legal.
InflationByVote == [][inflation' # inflation => Restart \/ SetByVote]_vars

\* A proposal decided in an earlier block than the current one is final: its
\* status and its counts never change again.
DecidedStays ==
    [][\A p \in Ids :
          status[p] \in {"passed", "failed"} /\ p.block < height
             => status'[p] = status[p] /\ yes'[p] = yes[p] /\ no'[p] = no[p]]_vars

-------------------------------------------------------------------------------
(* What the documents say and the code does not do *)

\* One badge, one vote: no caller is counted twice on a proposal.
OneVoteEach == \A p \in Ids : yes[p] + no[p] <= Cardinality(Callers)

\* A vote that fails for want of credits is not counted.
FailedVoteNotCounted == [][outcome' = "error" => yes' = yes /\ no' = no]_vars

\* The rate is seeded at genesis and from then on changed by governance only.
OnlyGovernanceSetsRate == [][inflation' # inflation => SetByVote]_vars

\* Inflation rate changes need the quadratic supermajority of 60 percent.
InflationThreshold ==
    \A p \in Ids : status[p] = "passed" /\ kind[p] = "inflation"
                       => yes[p] * 100 > 60 * (yes[p] + no[p])

\* A futarchy proposal with two thirds of the votes passes.
TwoThirdsPasses ==
    \A p \in Ids : status[p] = "failed" /\ kind[p] = "futarchy" /\ yes[p] > 0
                       => yes[p] * 3 < 2 * (yes[p] + no[p])

\* A proposal that has passed is not undone by being proposed again.
PassedStays == [][\A p \in Ids : status[p] = "passed" => status'[p] = "passed"]_vars

\* The description that is stored is one that was proposed.
DescriptionKept ==
    [][\A p \in Ids : description'[p] # description[p] => description'[p] \in Descriptions]_vars
===============================================================================
