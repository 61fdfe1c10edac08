--------------------------- MODULE GovernanceProofs ---------------------------
(***************************************************************************)
(* Proofs about the governance precompile for every set of callers, every  *)
(* set of titles and every bound.                                          *)
(***************************************************************************)
EXTENDS Governance, FiniteSetTheorems, TLAPS

\* The id a call computes is one of the ids.
LEMMA IdTyped ==
    ASSUME TypeOK, NEW c \in Callers, NEW t \in Titles
    PROVE  ProposalID(t, c) \in Ids /\ ProposalID(t, c).block = height
BY DEF TypeOK, ProposalID, Ids

\* A vote that is cast was for an active proposal with an empty record, changes
\* no other record and adds one to one side of its own proposal.
LEMMA VoteStep ==
    ASSUME TypeOK, NEW c \in Callers, NEW p \in Ids, NEW dir \in Directions, NEW s \in Stakes,
           Vote(c, p, dir, s)
    PROVE  /\ status[p] = "active"
           /\ record[p][c] = EmptyRecord
           /\ UNCHANGED <<height, status, kind, description, calldata, index, inflation>>
           /\ outcome' \in {"ok", "error"}
           /\ record' = [record EXCEPT ![p] = [@ EXCEPT ![c] = [dir |-> dir, spent |-> s]]]
           /\ yes' = [yes EXCEPT ![p] = IF dir = 1 THEN @ + 1 ELSE @]
           /\ no' = [no EXCEPT ![p] = IF dir = 1 THEN @ ELSE @ + 1]
BY DEF Vote, MayVote, CastVote, SpendCredits

\* The credits stay at zero: a vote that would spend any fails.
LEMMA CreditsZero ==
    ASSUME TypeOK, NEW c \in Callers, NEW p \in Ids, NEW s \in Stakes, SpendCredits(c, p, s)
    PROVE  credits' \in [Callers -> {0}]
<1>1. s \in Nat BY StakesAssumption
<1>2. credits \in [Callers -> {0}] BY DEF TypeOK
<1>3. CASE UNCHANGED credits BY <1>2, <1>3
<1>4. CASE ~(credits[c] < s) /\ credits' = [credits EXCEPT ![c] = @ - s]
  <2>1. credits[c] = 0 /\ s = 0 BY <1>1, <1>2, <1>4
  <2>2. credits[c] - s = 0 BY <2>1
  <2> QED BY <1>2, <1>4, <2>2
<1> QED BY <1>3, <1>4 DEF SpendCredits

\* Every step keeps the slots well formed.
LEMMA TypeStep == TypeOK /\ [Next]_vars => TypeOK'
<1> SUFFICES ASSUME TypeOK, [Next]_vars PROVE TypeOK'
    OBVIOUS
<1> USE BoundsAssumption
<1>1. CASE UNCHANGED vars
  BY <1>1 DEF TypeOK, vars, slots
<1>2. CASE NextBlock
  BY <1>2 DEF TypeOK, NextBlock, slots
<1>3. CASE Restart
  BY <1>3 DEF TypeOK, Restart, slots, DefaultInflation
<1>4. CASE Create
  <2>1. PICK c \in Callers, t \in Titles, k \in Kinds, d \in Descriptions, r \in Rates :
           CreateProposal(c, t, k, d, r)
    BY <1>4 DEF Create
  <2>2. Len(index) < MaxProposals BY <1>4 DEF Create
  <2> DEFINE p == ProposalID(t, c)
  <2>3. p \in Ids BY IdTyped
  <2> HIDE DEF p
  <2>4. index' = Append(index, p) BY <2>1 DEF CreateProposal, p
  <2>5. index' \in Seq(Ids) /\ Len(index') <= MaxProposals
    BY <2>2, <2>3, <2>4 DEF TypeOK
  <2>6. status' = [status EXCEPT ![p] = "active"] /\ kind' = [kind EXCEPT ![p] = k]
        /\ description' = [description EXCEPT ![p] = c]
        /\ calldata' = [calldata EXCEPT ![p] = r] /\ yes' = [yes EXCEPT ![p] = 0]
        /\ outcome' = "ok" /\ UNCHANGED <<height, no, record, credits, inflation>>
    BY <2>1 DEF CreateProposal, p, StoredDescription
  <2>z. 0 \in 0 .. MaxVotes BY BoundsAssumption
  <2>7. yes' \in [Ids -> 0 .. MaxVotes] BY <2>6, <2>z DEF TypeOK
  <2> QED BY <2>3, <2>5, <2>6, <2>7 DEF TypeOK
<1>5. CASE Ballot
  <2>1. PICK c \in Callers, p \in Ids, dir \in Directions, s \in Stakes :
           (IF dir = 1 THEN yes[p] ELSE no[p]) < MaxVotes /\ Vote(c, p, dir, s)
    BY <1>5 DEF Ballot
  <2>2. /\ UNCHANGED <<height, status, kind, description, calldata, index, inflation>>
        /\ outcome' \in {"ok", "error"}
        /\ record' = [record EXCEPT ![p] = [@ EXCEPT ![c] = [dir |-> dir, spent |-> s]]]
        /\ yes' = [yes EXCEPT ![p] = IF dir = 1 THEN @ + 1 ELSE @]
        /\ no' = [no EXCEPT ![p] = IF dir = 1 THEN @ ELSE @ + 1]
    BY <2>1, VoteStep
  <2>3. credits' \in [Callers -> {0}]
    BY <2>1, CreditsZero DEF Vote
  <2>4. yes' \in [Ids -> 0 .. MaxVotes] /\ no' \in [Ids -> 0 .. MaxVotes]
    BY <2>1, <2>2 DEF TypeOK
  <2> DEFINE R == [dir : Directions \cup {0}, spent : Stakes \cup {0}]
             v == [dir |-> dir, spent |-> s]
  <2>5. v \in R OBVIOUS
  <2>6. record \in [Ids -> [Callers -> R]] BY DEF TypeOK
  <2> HIDE DEF R, v
  <2>7. [record[p] EXCEPT ![c] = v] \in [Callers -> R] BY <2>5, <2>6
  <2>8. record' \in [Ids -> [Callers -> R]] BY <2>2, <2>6, <2>7 DEF v
  <2> QED BY <2>2, <2>3, <2>4, <2>8 DEF TypeOK, R
<1>6. CASE Decide
  <2>1. PICK p \in Ids : Finalize(p) BY <1>6 DEF Decide
  <2>2. /\ status' = [status EXCEPT ![p] = IF Passes(p) THEN "passed" ELSE "failed"]
        /\ inflation' = RateAfter(p) /\ outcome' = "ok"
        /\ UNCHANGED <<height, kind, description, calldata, yes, no, record, credits, index>>
    BY <2>1 DEF Finalize
  <2>3. inflation' \in Nat
    BY <2>2, RatesAssumption DEF RateAfter, Executed, TypeOK, MinInflation, MaxInflation
  <2> QED BY <2>2, <2>3 DEF TypeOK
<1> QED BY <1>1, <1>2, <1>3, <1>4, <1>5, <1>6 DEF Next

LEMMA TypeInit == Init => TypeOK
BY BoundsAssumption DEF Init, TypeOK, EmptyRecord, DefaultInflation

\* governance.go: the slots are well formed in every reachable state.
THEOREM GovernanceTypeCorrect == Spec => []TypeOK
BY TypeInit, TypeStep, PTL DEF Spec

\* govFinalize: whatever rates are proposed, only an inflation proposal that passes
\* changes the rate of a running node, to what it proposes and within the bounds.
THEOREM InflationOnlyByVote == Spec => InflationByVote
<1>1. TypeOK /\ [Next]_vars => [inflation' # inflation => Restart \/ SetByVote]_vars
  <2> SUFFICES ASSUME TypeOK, Next, inflation' # inflation, ~Restart PROVE SetByVote
      OBVIOUS
  <2>1. NextBlock \/ Create \/ Ballot => UNCHANGED inflation
    BY DEF NextBlock, Create, CreateProposal, Ballot, Vote
  <2>2. PICK p \in Ids : Finalize(p)
    BY <2>1 DEF Next, Decide
  <2>3. Passes(p) /\ kind[p] = "inflation" /\ inflation' = Executed(calldata[p])
    BY <2>2 DEF Finalize, RateAfter
  <2>4. inflation' = calldata[p] /\ inflation' \in MinInflation .. MaxInflation
    BY <2>3 DEF Executed
  <2>5. status[p] = "active" /\ status'[p] = "passed"
    BY <2>2, <2>3 DEF Finalize, TypeOK
  <2> QED BY <2>3, <2>4, <2>5 DEF SetByVote
<1> QED BY <1>1, GovernanceTypeCorrect, PTL DEF Spec, InflationByVote

\* governance.go: the decision of an earlier block is never changed or recounted.
THEOREM DecidedForever == Spec => DecidedStays
<1>1. TypeOK /\ [Next]_vars =>
        [\A p \in Ids : status[p] \in {"passed", "failed"} /\ p.block < height
            => status'[p] = status[p] /\ yes'[p] = yes[p] /\ no'[p] = no[p]]_vars
  <2> SUFFICES ASSUME TypeOK, Next, NEW p \in Ids,
                      status[p] \in {"passed", "failed"}, p.block < height
               PROVE  status'[p] = status[p] /\ yes'[p] = yes[p] /\ no'[p] = no[p]
      BY DEF vars
  <2>1. CASE NextBlock \/ Restart
    BY <2>1 DEF NextBlock, Restart, slots
  <2>2. CASE Create
    <3>1. PICK c \in Callers, t \in Titles, k \in Kinds, d \in Descriptions, r \in Rates :
             CreateProposal(c, t, k, d, r)
      BY <2>2 DEF Create
    <3>2. ProposalID(t, c) \in Ids /\ ProposalID(t, c).block = height BY IdTyped
    <3>3. height \in Nat /\ p.block \in Nat BY BoundsAssumption DEF TypeOK, Ids
    <3>4. p # ProposalID(t, c) BY <3>2, <3>3
    <3> QED BY <3>1, <3>2, <3>4 DEF CreateProposal, TypeOK
  <2>3. CASE Ballot
    <3>1. PICK c \in Callers, q \in Ids, dir \in Directions, s \in Stakes : Vote(c, q, dir, s)
      BY <2>3 DEF Ballot
    <3>2. /\ status[q] = "active" /\ UNCHANGED status
          /\ yes' = [yes EXCEPT ![q] = IF dir = 1 THEN @ + 1 ELSE @]
          /\ no' = [no EXCEPT ![q] = IF dir = 1 THEN @ ELSE @ + 1]
      BY <3>1, VoteStep
    <3>3. p # q BY <3>2
    <3> QED BY <3>2, <3>3 DEF TypeOK
  <2>4. CASE Decide
    <3>1. PICK q \in Ids : Finalize(q) BY <2>4 DEF Decide
    <3>2. p # q BY <3>1 DEF Finalize
    <3> QED BY <3>1, <3>2 DEF Finalize, TypeOK
  <2> QED BY <2>1, <2>2, <2>3, <2>4 DEF Next
<1> QED BY <1>1, GovernanceTypeCorrect, PTL DEF Spec, DecidedStays

\* A quotient above a threshold means a share above it: rounding down never
\* helps a proposal.
LEMMA ShareAbove ==
    ASSUME NEW y \in Nat, NEW total \in Nat, total > 0, NEW need \in Nat,
           (y * 100) \div total > need
    PROVE  y * 100 > need * total
<1> DEFINE a == y * 100
           q == a \div total
<1>1. a \in Nat OBVIOUS
<1> HIDE DEF a
<1>2. q \in Int /\ total * q <= a BY <1>1
<1>3. q >= need + 1 BY <1>2 DEF a
<1> HIDE DEF q
<1>4. total * q >= total * (need + 1) BY <1>2, <1>3
<1>5. total * (need + 1) = need * total + total OBVIOUS
<1>6. need * total \in Nat OBVIOUS
<1> QED BY <1>1, <1>2, <1>4, <1>5, <1>6 DEF a

\* The percentages that ThresholdMet names are those the code compares with.
LEMMA Needed ==
    ASSUME NEW k \in {"direct", "quadratic", "futarchy"}
    PROVE  /\ Threshold(k) = [direct |-> 50, quadratic |-> 60, futarchy |-> 66][k]
           /\ Threshold(k) \in Nat
BY DEF Threshold

\* governance.go: a passed proposal of the three documented kinds has its majority
\* and keeps it, whatever happens afterwards.
THEOREM PassedByMajority == Spec => []ThresholdMet
<1> DEFINE Met(p) == yes[p] * 100 > Threshold(kind[p]) * (yes[p] + no[p])
           Settled(p) == status[p] = "passed" /\ kind[p] # "inflation" => Met(p)
<1>1. TypeOK => (ThresholdMet <=> \A p \in Ids : Settled(p))
  <2> SUFFICES ASSUME TypeOK, NEW p \in Ids, kind[p] # "inflation"
               PROVE  Threshold(kind[p])
                        = [direct |-> 50, quadratic |-> 60, futarchy |-> 66][kind[p]]
      BY Zenon DEF ThresholdMet
  <2>1. kind[p] \in {"direct", "quadratic", "futarchy"}
    BY KindsAssumption DEF TypeOK
  <2> QED BY <2>1, Needed
<1>2. Init => \A p \in Ids : Settled(p)
  BY DEF Init
<1>3. ASSUME TypeOK, \A p \in Ids : Settled(p), [Next]_vars, NEW p \in Ids
      PROVE  Settled(p)'
  <2> HIDE DEF Settled
  <2>1. CASE /\ status'[p] = status[p] /\ kind'[p] = kind[p]
             /\ yes'[p] = yes[p] /\ no'[p] = no[p]
    BY <1>3, <2>1 DEF Settled, Threshold
  <2>2. CASE status'[p] # "passed"
    BY <2>2 DEF Settled
  <2>3. CASE NextBlock \/ Restart \/ UNCHANGED vars
    BY <2>1, <2>3 DEF NextBlock, Restart, slots, vars
  <2>4. CASE Create
    <3>1. PICK c \in Callers, t \in Titles, k \in Kinds, d \in Descriptions, r \in Rates :
             CreateProposal(c, t, k, d, r)
      BY <2>4 DEF Create
    <3>2. ProposalID(t, c) \in Ids BY <1>3, IdTyped
    <3>3. CASE p = ProposalID(t, c)
      BY <1>3, <2>2, <3>1, <3>3 DEF CreateProposal, TypeOK
    <3>4. CASE p # ProposalID(t, c)
      BY <1>3, <2>1, <3>1, <3>2, <3>4 DEF CreateProposal, TypeOK
    <3> QED BY <3>3, <3>4
  <2>5. CASE Ballot
    <3>1. PICK c \in Callers, q \in Ids, dir \in Directions, s \in Stakes : Vote(c, q, dir, s)
      BY <2>5 DEF Ballot
    <3>2. /\ status[q] = "active" /\ UNCHANGED <<status, kind>>
          /\ yes' = [yes EXCEPT ![q] = IF dir = 1 THEN @ + 1 ELSE @]
          /\ no' = [no EXCEPT ![q] = IF dir = 1 THEN @ ELSE @ + 1]
      BY <1>3, <3>1, VoteStep
    <3>3. CASE p = q BY <2>2, <3>2, <3>3
    <3>4. CASE p # q BY <1>3, <2>1, <3>2, <3>4 DEF TypeOK
    <3> QED BY <3>3, <3>4
  <2>6. CASE Decide
    <3>1. PICK q \in Ids : Finalize(q) BY <2>6 DEF Decide
    <3>2. CASE p # q
      BY <1>3, <2>1, <3>1, <3>2 DEF Finalize, TypeOK
    <3>3. CASE p = q /\ ~Passes(q)
      BY <1>3, <2>2, <3>1, <3>3 DEF Finalize, TypeOK
    <3>4. CASE p = q /\ Passes(q) /\ kind[p] = "inflation"
      BY <3>1, <3>4 DEF Finalize, Settled
    <3>5. CASE p = q /\ Passes(q) /\ kind[p] # "inflation"
      <4>1. kind[p] \in {"direct", "quadratic", "futarchy"}
        BY <1>3, <3>5, KindsAssumption DEF TypeOK
      <4>2. Threshold(kind[p]) \in Nat BY <4>1, Needed
      <4>3. yes[p] \in Nat /\ no[p] \in Nat BY <1>3, BoundsAssumption DEF TypeOK
      <4>4. /\ yes[p] + no[p] > 0
            /\ (yes[p] * 100) \div (yes[p] + no[p]) > Threshold(kind[p])
        BY <3>5 DEF Passes
      <4>5. Met(p) BY <4>2, <4>3, <4>4, ShareAbove
      <4>6. UNCHANGED <<yes, no, kind>> BY <3>1 DEF Finalize
      <4> QED BY <4>5, <4>6 DEF Settled, Threshold
    <3> QED BY <3>2, <3>3, <3>4, <3>5
  <2> QED BY <1>3, <2>3, <2>4, <2>5, <2>6 DEF Next
<1>4. TypeOK /\ ThresholdMet /\ [Next]_vars => ThresholdMet'
  <2> SUFFICES ASSUME TypeOK, ThresholdMet, [Next]_vars PROVE ThresholdMet'
      OBVIOUS
  <2>1. TypeOK' BY TypeStep
  <2>2. \A p \in Ids : Settled(p) BY <1>1
  <2>3. \A p \in Ids : Settled(p)' BY <1>3, <2>2
  <2>4. ASSUME NEW p \in Ids, kind'[p] # "inflation"
        PROVE  Threshold(kind'[p])
                 = [direct |-> 50, quadratic |-> 60, futarchy |-> 66][kind'[p]]
    <3>1. kind'[p] \in {"direct", "quadratic", "futarchy"}
      BY <2>1, <2>4, KindsAssumption DEF TypeOK
    <3> QED BY <3>1, Needed
  <2> QED BY <2>3, <2>4, Zenon DEF ThresholdMet
<1>5. Init => ThresholdMet BY <1>1, <1>2, TypeInit
<1> QED BY <1>4, <1>5, GovernanceTypeCorrect, PTL DEF Spec

\* The callers whose yes record backs the yes votes of a proposal.
Backers(p) == {c \in Callers : record[p][c].dir = 1}

\* governance.go: every yes vote that counts has a caller of its own behind it,
\* although a failed quadratic vote is counted and a proposal can be created again.
THEOREM YesVotesBacked == Spec => []YesBacked
<1>1. Init => YesBacked
  <2> SUFFICES ASSUME Init, NEW p \in Ids PROVE yes[p] <= Cardinality(Backers(p))
      BY DEF YesBacked, Backers
  <2>1. Backers(p) \subseteq Callers BY DEF Backers
  <2>2. Cardinality(Backers(p)) \in Nat
    BY <2>1, CallersAssumption, FS_Subset, FS_CardinalityType
  <2> QED BY <2>2 DEF Init
<1>2. TypeOK /\ YesBacked /\ [Next]_vars => YesBacked'
  <2> SUFFICES ASSUME TypeOK, YesBacked, [Next]_vars, NEW p \in Ids
               PROVE  yes'[p] <= Cardinality(Backers(p)')
      BY DEF YesBacked, Backers
  <2>1. yes[p] <= Cardinality(Backers(p)) /\ yes[p] \in Nat
    BY BoundsAssumption DEF YesBacked, Backers, TypeOK
  <2>2. IsFiniteSet(Backers(p)) /\ Cardinality(Backers(p)) \in Nat
    <3>1. Backers(p) \subseteq Callers BY DEF Backers
    <3> QED BY <3>1, CallersAssumption, FS_Subset, FS_CardinalityType
  <2>3. CASE UNCHANGED <<yes, record>>
    <3>1. Backers(p)' = Backers(p) BY <2>3 DEF Backers
    <3> QED BY <2>1, <2>3, <3>1
  <2>4. CASE Create
    <3>1. PICK c \in Callers, t \in Titles, k \in Kinds, d \in Descriptions, r \in Rates :
             CreateProposal(c, t, k, d, r)
      BY <2>4 DEF Create
    <3>2. UNCHANGED record /\ yes' = [yes EXCEPT ![ProposalID(t, c)] = 0]
      BY <3>1 DEF CreateProposal
    <3>3. yes'[p] = 0 \/ yes'[p] = yes[p] BY <3>2, IdTyped DEF TypeOK
    <3>4. Backers(p)' = Backers(p) BY <3>2 DEF Backers
    <3> QED BY <2>1, <2>2, <3>3, <3>4
  <2>5. CASE Ballot
    <3>1. PICK c \in Callers, q \in Ids, dir \in Directions, s \in Stakes : Vote(c, q, dir, s)
      BY <2>5 DEF Ballot
    <3>2. /\ record[q][c] = EmptyRecord
          /\ record' = [record EXCEPT ![q] = [@ EXCEPT ![c] = [dir |-> dir, spent |-> s]]]
          /\ yes' = [yes EXCEPT ![q] = IF dir = 1 THEN @ + 1 ELSE @]
      BY <3>1, VoteStep
    <3>3. CASE p # q
      <4>1. record'[p] = record[p] /\ yes'[p] = yes[p] BY <3>2, <3>3 DEF TypeOK
      <4>2. Backers(p)' = Backers(p) BY <4>1 DEF Backers
      <4> QED BY <2>1, <4>1, <4>2
    <3>4. CASE p = q
      <4> DEFINE v == [dir |-> dir, spent |-> s]
      <4>1. v.dir = dir OBVIOUS
      <4>2. record[p][c].dir = 0 BY <3>2, <3>4 DEF EmptyRecord
      <4>a. record' = [record EXCEPT ![q] = [@ EXCEPT ![c] = v]] BY <3>2
      <4> HIDE DEF v
      <4>b. record'[p] = [record[p] EXCEPT ![c] = v] BY <4>a, <3>4 DEF TypeOK
      <4>3. \A e \in Callers : record'[p][e] = IF e = c THEN v ELSE record[p][e]
        BY <4>b DEF TypeOK
      <4>4. CASE dir = 1
        <5>1. Backers(p)' = Backers(p) \cup {c} BY <4>1, <4>3, <4>4 DEF Backers
        <5>2. c \notin Backers(p) BY <4>2 DEF Backers
        <5>3. Cardinality(Backers(p)') = Cardinality(Backers(p)) + 1
          BY <2>2, <5>1, <5>2, FS_AddElement
        <5>4. yes'[p] = yes[p] + 1 BY <3>2, <3>4, <4>4 DEF TypeOK
        <5> QED BY <2>1, <2>2, <5>3, <5>4
      <4>5. CASE dir # 1
        <5>1. Backers(p)' = Backers(p) BY <4>1, <4>2, <4>3, <4>5 DEF Backers
        <5>2. yes'[p] = yes[p] BY <3>2, <3>4, <4>5 DEF TypeOK
        <5> QED BY <2>1, <5>1, <5>2
      <4> QED BY <4>4, <4>5
    <3> QED BY <3>3, <3>4
  <2>6. NextBlock \/ Restart \/ Decide => UNCHANGED <<yes, record>>
    BY DEF NextBlock, Restart, Decide, Finalize, slots
  <2> QED BY <2>3, <2>4, <2>5, <2>6 DEF Next, vars, slots
<1> QED BY <1>1, <1>2, GovernanceTypeCorrect, PTL DEF Spec
===============================================================================
