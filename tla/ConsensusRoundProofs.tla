------------------------ MODULE ConsensusRoundProofs ------------------------
(* Proofs about ConsensusRound, for any active set, voters and bounds. *)
EXTENDS ConsensusRound, FiniteSetTheorems, TLAPS

(* What a recorded block and the current round have to do with each other: *)
(* a block is recorded under its own number, and never above the height.   *)
RecordInv ==
    /\ TypeOK
    /\ round.num = round.id
    /\ \A h \in Ids : finalized[h] # 0 => finalized[h] = h /\ h <= current
    /\ current # 0 => finalized[current] # 0

LEMMA ThresholdType == TotalPower \in Nat /\ Threshold \in Nat
<1>1. TotalPower \in Nat
  BY ConsensusAssumption, FS_CardinalityType DEF TotalPower
<1> QED BY <1>1 DEF Threshold

LEMMA RoundFields ==
    ASSUME NEW r \in RoundType
    PROVE  /\ r.id \in 0..MaxProposals /\ r.height \in 0..MaxProposals
           /\ r.num \in 0..MaxProposals
           /\ r.phase \in {"propose", "commit", "timeout"}
           /\ r.prevotes \in SUBSET Names /\ r.prevotePower \in Nat
           /\ r.precommits \in [Names -> 0..MaxProposals] /\ r.precommitPower \in Nat
BY DEF RoundType

(* Recording a precommit changes nothing but the votes of the round. *)
LEMMA CountedRound ==
    ASSUME round \in RoundType, NEW v \in Names, NEW i \in Ids
    PROVE  /\ Counted(v, i) \in RoundType
           /\ Counted(v, i).id = round.id /\ Counted(v, i).num = round.num
           /\ Counted(v, i).height = round.height
           /\ Counted(v, i).precommits = [round.precommits EXCEPT ![v] = i]
           /\ Counted(v, i).precommitPower = round.precommitPower + 1
<1> DEFINE c == [round.precommits EXCEPT ![v] = i]
           p == round.precommitPower + 1
<1>1. c \in [Names -> 0..MaxProposals] /\ p \in Nat
  BY ConsensusAssumption, RoundFields DEF Ids
<1>2. Counted(v, i) = [round EXCEPT !.precommits = c, !.precommitPower = p]
  BY DEF Counted, RoundType
<1> HIDE DEF c, p
<1>3. /\ Counted(v, i) \in RoundType
      /\ Counted(v, i).id = round.id /\ Counted(v, i).num = round.num
      /\ Counted(v, i).height = round.height
      /\ Counted(v, i).precommits = c
      /\ Counted(v, i).precommitPower = p
  BY <1>1, <1>2 DEF RoundType
<1> QED BY <1>3 DEF c, p

(* Neither does recording a prevote, *)
LEMMA PrevotedRound ==
    ASSUME round \in RoundType, NEW v \in Names,
           round' = [round EXCEPT !.prevotes = @ \cup {v}, !.prevotePower = @ + 1]
    PROVE  /\ round' \in RoundType
           /\ round'.id = round.id /\ round'.num = round.num /\ round'.height = round.height
           /\ round'.precommits = round.precommits
           /\ round'.precommitPower = round.precommitPower
<1> DEFINE s == round.prevotes \cup {v}
           p == round.prevotePower + 1
<1>1. s \in SUBSET Names /\ p \in Nat
  BY RoundFields
<1>2. round' = [round EXCEPT !.prevotes = s, !.prevotePower = p]
  BY DEF RoundType
<1> HIDE DEF s, p
<1> QED BY <1>1, <1>2 DEF RoundType

(* and a timeout changes only the phase. *)
LEMMA TimedOutRound ==
    ASSUME round \in RoundType, round' = [round EXCEPT !.phase = "timeout"]
    PROVE  /\ round' \in RoundType
           /\ round'.id = round.id /\ round'.num = round.num /\ round'.height = round.height
           /\ round'.precommits = round.precommits
           /\ round'.precommitPower = round.precommitPower
BY DEF RoundType

(* checkCommitLocked keeps the record straight. *)
LEMMA CheckCommitStep ==
    ASSUME RecordInv, NEW r \in RoundType, r.id = round.id, r.num = round.num,
           CheckCommit(r)
    PROVE  /\ round' \in RoundType /\ round'.id = r.id /\ round'.num = r.num
           /\ round'.height = r.height
           /\ round'.precommits = r.precommits /\ round'.precommitPower = r.precommitPower
           /\ timer' \in [Ids -> {"none", "armed", "firing", "done"}]
           /\ finalized' \in [Ids -> 0..MaxProposals]
           /\ current' \in 0..produced /\ current' >= current
           /\ \A h \in Ids : finalized'[h] # 0 => finalized'[h] = h /\ h <= current'
           /\ current' # 0 => finalized'[current'] # 0
           /\ \A h \in Ids : finalized[h] # 0 => finalized'[h] = finalized[h]
<1>1. r.id \in 0..MaxProposals /\ r.num = r.id /\ r.id = produced /\ produced \in 0..MaxProposals
  BY DEF RecordInv, TypeOK
<1>2. CASE r.precommitPower >= Threshold /\ r.id # 0
  <2>1. /\ round' = [r EXCEPT !.phase = "commit"]
        /\ timer' = [timer EXCEPT ![r.id] = IF @ = "armed" THEN "done" ELSE @]
        /\ finalized' = [finalized EXCEPT ![r.id] = r.id]
        /\ current' = IF r.id > current THEN r.id ELSE current
    BY <1>1, <1>2 DEF CheckCommit, FinalizeHeight
  <2>2. r.id \in Ids
    BY <1>1, <1>2, ConsensusAssumption DEF Ids
  <2>3. /\ round' \in RoundType /\ round'.id = r.id /\ round'.num = r.num
        /\ round'.height = r.height
        /\ round'.precommits = r.precommits /\ round'.precommitPower = r.precommitPower
    BY <2>1 DEF RoundType
  <2>4. /\ timer' \in [Ids -> {"none", "armed", "firing", "done"}]
        /\ finalized' \in [Ids -> 0..MaxProposals]
    BY <1>1, <2>1, <2>2, RoundFields DEF RecordInv, TypeOK
  <2>5. current' = r.id
    BY <1>1, <2>1, ConsensusAssumption DEF RecordInv, TypeOK
  <2>6. /\ current' \in 0..produced /\ current' >= current
        /\ finalized'[current'] # 0
    BY <1>1, <1>2, <2>1, <2>2, <2>5, ConsensusAssumption DEF RecordInv, TypeOK
  <2>7. \A h \in Ids : finalized'[h] # 0 => finalized'[h] = h /\ h <= current'
    BY <1>1, <2>1, <2>2, <2>5, ConsensusAssumption, SMTT(30) DEF RecordInv, TypeOK, Ids
  <2>8. \A h \in Ids : finalized[h] # 0 => finalized'[h] = finalized[h]
    BY <2>1, <2>2 DEF RecordInv, TypeOK
  <2> QED BY <2>3, <2>4, <2>6, <2>7, <2>8
<1>3. CASE ~(r.precommitPower >= Threshold /\ r.id # 0)
  <2>1. round' = r /\ UNCHANGED <<timer, finalized, current>>
    BY <1>3 DEF CheckCommit
  <2> QED BY <2>1, <1>1, ConsensusAssumption DEF RecordInv, TypeOK
<1> QED BY <1>2, <1>3

(* A delivered precommit is for a height that has had a round. *)
LEMMA Delivered ==
    ASSUME TypeOK, NEW i \in Ids, Deliver(i)
    PROVE  /\ roundOf[i] \in Ids
           /\ heard' = [heard EXCEPT ![roundOf[i]] = @ + 1]
           /\ heard' \in [Ids -> Nat]
<1>1. roundOf[i] \in Ids
  BY ConsensusAssumption DEF Deliver, TypeOK, Ids
<1> QED BY <1>1 DEF Deliver, TypeOK

LEMMA RecordInit == Init => RecordInv
BY ConsensusAssumption
   DEF Init, RecordInv, TypeOK, RoundType, NoVotes, Ids

(* No action but the commit of the current round touches the record. *)
LEMMA RecordStep ==
    ASSUME RecordInv, [Next]_vars
    PROVE  /\ RecordInv'
           /\ current' >= current
           /\ \A h \in Ids : finalized[h] # 0 => finalized'[h] = finalized[h]
<1> USE ConsensusAssumption
<1> DEFINE Keeps == /\ RecordInv'
                    /\ current' >= current
                    /\ \A h \in Ids : finalized[h] # 0 => finalized'[h] = finalized[h]
<1>1. CASE UNCHANGED vars
  BY <1>1 DEF RecordInv, TypeOK, vars
<1>2. CASE RunBlockRound
  BY <1>2 DEF RunBlockRound, RecordInv, TypeOK
<1>3. CASE ProposeBlock
  <2>1. produced + 1 \in Ids /\ target \in 0..MaxProposals
    BY <1>3 DEF ProposeBlock, RecordInv, TypeOK, Ids
  <2>2. round' \in RoundType /\ round'.id = produced' /\ round'.num = round'.id
    BY <1>3, <2>1 DEF ProposeBlock, BlockNumber, RoundType, NoVotes, Ids
  <2>3. roundOf' \in [Ids -> 0..MaxProposals] /\ produced' = produced + 1
    BY <1>3, <2>1 DEF ProposeBlock, RecordInv, TypeOK
  <2>4. /\ loop' = "arm" /\ produced' \in 0..MaxProposals /\ current \in 0..produced'
        /\ UNCHANGED <<target, timer, current, finalized, checks, heard, prevoted>>
    BY <1>3, <2>1, <2>3 DEF ProposeBlock, RecordInv, TypeOK, Ids
  <2>5. (\A i \in 1..produced : roundOf[i] # 0)'
    BY <1>3, <2>1, <2>3, SMTT(30) DEF ProposeBlock, RecordInv, TypeOK, Ids
  <2> QED BY <2>2, <2>3, <2>4, <2>5 DEF RecordInv, TypeOK
<1>4. CASE StartTimer
  <2>1. timer' \in [Ids -> {"none", "armed", "firing", "done"}]
    BY <1>4 DEF StartTimer, RecordInv, TypeOK
  <2>2. /\ loop' = "prevote"
        /\ UNCHANGED <<target, produced, roundOf, round, current, finalized,
                       checks, heard, prevoted>>
    BY <1>4 DEF StartTimer
  <2> QED BY <2>1, <2>2 DEF RecordInv, TypeOK
<1>5. CASE Prevote
  <2>1. round' \in RoundType /\ round'.id = round.id /\ round'.num = round.num
    BY <1>5, PrevotedRound DEF Prevote, RecordInv, TypeOK
  <2> QED BY <1>5, <2>1 DEF Prevote, RecordInv, TypeOK
<1>6. ASSUME NEW i \in Ids, NEW v \in Names, HandlePrevote(i, v)
      PROVE  Keeps
  <2>1. round' \in RoundType /\ round'.id = round.id /\ round'.num = round.num
    BY <1>6, PrevotedRound DEF HandlePrevote, RecordInv, TypeOK
  <2> QED BY <1>6, <2>1, SMTT(30) DEF HandlePrevote, RecordInv, TypeOK
<1>7. ASSUME NEW i \in Ids, NEW v \in Names, HandlePrecommit(i, v)
      PROVE  Keeps
  <2>1. heard' \in [Ids -> Nat]
    BY <1>7, Delivered DEF HandlePrecommit, RecordInv
  <2>2. CASE ForRound(roundOf[i])
    <3>1. round \in RoundType
      BY DEF RecordInv, TypeOK
    <3>2. PICK r \in RoundType : r.id = round.id /\ r.num = round.num /\ CheckCommit(r)
      BY <1>7, <2>2, <3>1, CountedRound DEF HandlePrecommit
    <3> HIDE DEF Keeps
    <3>3. /\ round' \in RoundType /\ round'.id = round.id /\ round'.num = round.num
          /\ timer' \in [Ids -> {"none", "armed", "firing", "done"}]
          /\ finalized' \in [Ids -> 0..MaxProposals]
          /\ current' \in 0..produced /\ current' >= current
          /\ \A h \in Ids : finalized'[h] # 0 => finalized'[h] = h /\ h <= current'
          /\ current' # 0 => finalized'[current'] # 0
          /\ \A h \in Ids : finalized[h] # 0 => finalized'[h] = finalized[h]
      BY <3>2, CheckCommitStep
    <3> QED BY <1>7, <2>1, <3>3 DEF HandlePrecommit, RecordInv, TypeOK, Keeps
  <2>3. CASE ~ForRound(roundOf[i])
    BY <1>7, <2>1, <2>3, SMTT(30) DEF HandlePrecommit, RecordInv, TypeOK
  <2> QED BY <2>2, <2>3
<1>8. ASSUME NEW i \in Ids, Precommit(i)
      PROVE  Keeps
  <2>1. heard' \in [Ids -> Nat]
    BY <1>8, Delivered DEF Precommit, RecordInv
  <2>2. round \in RoundType /\ Local \in Names
    BY DEF RecordInv, TypeOK
  <2>3. round' \in RoundType /\ round'.id = round.id /\ round'.num = round.num
    BY <1>8, <2>2, CountedRound DEF Precommit
  <2>4. checks' \in Nat
    BY <1>8 DEF Precommit, RecordInv, TypeOK
  <2> QED BY <1>8, <2>1, <2>3, <2>4 DEF Precommit, RecordInv, TypeOK
<1>12. CASE PrecommitCheck
  <2>1. CheckCommit(round) /\ round \in RoundType
    BY <1>12 DEF PrecommitCheck, RecordInv, TypeOK
  <2>2. checks' \in Nat
    BY <1>12 DEF PrecommitCheck, RecordInv, TypeOK
  <2> HIDE DEF Keeps
  <2>3. /\ round' \in RoundType /\ round'.id = round.id /\ round'.num = round.num
        /\ timer' \in [Ids -> {"none", "armed", "firing", "done"}]
        /\ finalized' \in [Ids -> 0..MaxProposals]
        /\ current' \in 0..produced /\ current' >= current
        /\ \A h \in Ids : finalized'[h] # 0 => finalized'[h] = h /\ h <= current'
        /\ current' # 0 => finalized'[current'] # 0
        /\ \A h \in Ids : finalized[h] # 0 => finalized'[h] = finalized[h]
    BY <2>1, CheckCommitStep
  <2> QED BY <1>12, <2>2, <2>3 DEF PrecommitCheck, RecordInv, TypeOK, Keeps
<1>9. ASSUME NEW i \in Ids, TimerFires(i)
      PROVE  Keeps
  BY <1>9 DEF TimerFires, RecordInv, TypeOK
<1>10. ASSUME NEW i \in Ids, HandleTimeout(i)
       PROVE  Keeps
  <2>1. round' \in RoundType /\ round'.id = round.id /\ round'.num = round.num
    BY <1>10, TimedOutRound DEF HandleTimeout, RecordInv, TypeOK
  <2> QED BY <1>10, <2>1 DEF HandleTimeout, RecordInv, TypeOK
<1>11. CASE IdleTick
  BY <1>1, <1>11 DEF IdleTick
<1> QED
  BY <1>1, <1>2, <1>3, <1>4, <1>5, <1>6, <1>7, <1>8, <1>9, <1>10, <1>11, <1>12
  DEF Next, Loop, Vote, Timeout

(* Every state of the round manager has its type. *)
THEOREM RoundTypeCorrect == Spec => []TypeOK
<1>1. RecordInv /\ [Next]_vars => RecordInv'
  BY RecordStep
<1>2. RecordInv => TypeOK
  BY DEF RecordInv
<1> QED BY <1>1, <1>2, RecordInit, PTL DEF Spec

(* The height the next round starts from is the greatest height that has   *)
(* a finalized block, for any number of validators, votes and proposals.   *)
THEOREM QuorumHeightCorrect == Spec => []QuorumHeight
<1>1. RecordInv /\ [Next]_vars => RecordInv'
  BY RecordStep
<1>2. RecordInv => QuorumHeight
  <2> SUFFICES ASSUME RecordInv PROVE QuorumHeight
    OBVIOUS
  <2>1. current # 0 => current \in Ids
    BY ConsensusAssumption DEF RecordInv, TypeOK, Ids
  <2> QED BY <2>1 DEF RecordInv, QuorumHeight, Recorded
<1> QED BY <1>1, <1>2, RecordInit, PTL DEF Spec

(* FinalizeBlock never replaces a block and never lowers the height,       *)
(* duplicated votes, reopened rounds and late timeouts included.           *)
THEOREM FinalityCorrect == Spec => FinalityIrrevocable
<1>1. RecordInv /\ [Next]_vars => RecordInv'
  BY RecordStep
<1>2. RecordInv /\ [Next]_vars =>
        [/\ current' >= current /\ \A h \in Recorded : finalized'[h] = finalized[h]]_vars
  BY RecordStep DEF Recorded
<1> QED BY <1>1, <1>2, RecordInit, PTL DEF Spec, FinalityIrrevocable

-----------------------------------------------------------------------------
(* Only delivered precommits for its height are in the power of a round. *)
PowerHeard ==
    round.id # 0 =>
        /\ roundOf[round.id] = round.height
        /\ round.precommitPower <= heard[round.height]

HeardInv == RecordInv /\ PowerHeard /\ QuorumHeard

LEMMA HeardInit == Init => HeardInv
BY RecordInit DEF Init, HeardInv, PowerHeard, QuorumHeard, Recorded

(* The round of a recorded block is one of the heights. *)
LEMMA RecordedRound ==
    ASSUME RecordInv
    PROVE  /\ round.id # 0 => round.id \in Ids /\ roundOf[round.id] \in Ids
           /\ \A h \in Recorded : finalized[h] = h /\ h \in 1..produced /\ roundOf[h] \in Ids
<1> USE ConsensusAssumption
<1>1. \A i \in 1..produced : i \in Ids /\ roundOf[i] \in Ids
  BY DEF RecordInv, TypeOK, Ids
<1>2. round.id # 0 => round.id \in 1..produced
  BY DEF RecordInv, TypeOK
<1>3. \A h \in Recorded : finalized[h] = h /\ h \in 1..produced
  BY DEF RecordInv, TypeOK, Recorded, Ids
<1> QED BY <1>1, <1>2, <1>3

(* A commit check on a round whose power was heard records a block that    *)
(* has its quorum; what was heard before only grows.                       *)
LEMMA HeardCheck ==
    ASSUME HeardInv, RecordInv', NEW r \in RoundType,
           r.id = round.id, r.num = round.num, r.height = round.height,
           CheckCommit(r), UNCHANGED <<produced, roundOf>>,
           heard' \in [Ids -> Nat], \A h \in Ids : heard'[h] >= heard[h],
           r.id # 0 => r.precommitPower <= heard'[r.height]
    PROVE  HeardInv'
<1> USE ConsensusAssumption
<1>1. RecordInv /\ heard \in [Ids -> Nat]
  BY DEF HeardInv, RecordInv, TypeOK
<1>2. /\ round'.id = r.id /\ round'.height = r.height
      /\ round'.precommitPower = r.precommitPower
  BY <1>1, CheckCommitStep
<1>3. PowerHeard'
  BY <1>2 DEF HeardInv, PowerHeard
<1>4. ASSUME NEW h \in Recorded' PROVE heard'[roundOf[h]] >= Threshold
  <2>1. h \in Ids /\ roundOf[h] \in Ids
    <3>1. h \in Ids /\ finalized'[h] # 0
      BY <1>4 DEF Recorded
    <3>2. h <= current' /\ current' \in 0..produced'
      BY <3>1 DEF RecordInv, TypeOK
    <3>3. h \in 1..produced /\ produced \in Nat
      BY <3>1, <3>2, <1>1 DEF Ids, RecordInv, TypeOK
    <3>4. roundOf[h] # 0 /\ roundOf[h] \in 0..MaxProposals
      BY <1>1, <3>1, <3>3 DEF RecordInv, TypeOK
    <3> QED BY <3>1, <3>4 DEF Ids
  <2>2. CASE h \in Recorded
    <3>1. heard[roundOf[h]] >= Threshold
      BY <1>1, <2>2, RecordedRound DEF HeardInv, QuorumHeard
    <3> QED BY <2>1, <3>1, <1>1, ThresholdType
  <2>3. CASE h \notin Recorded
    <3>1. r.precommitPower >= Threshold /\ r.id # 0 /\ h = r.num /\ r.num = r.id
      BY <1>1, <1>4, <2>1, <2>3 DEF CheckCommit, Recorded, RecordInv, TypeOK
    <3>2. roundOf[h] = r.height /\ r.precommitPower \in Nat
      BY <3>1, RoundFields DEF HeardInv, PowerHeard
    <3>3. r.precommitPower <= heard'[roundOf[h]] /\ heard'[roundOf[h]] \in Nat
      BY <3>1, <3>2, <2>1
    <3> QED BY <3>1, <3>2, <3>3, ThresholdType
  <2> QED BY <2>2, <2>3
<1>5. \A h \in Recorded' : finalized'[h] = h
  BY DEF RecordInv, Recorded
<1>6. QuorumHeard'
  BY <1>4, <1>5 DEF QuorumHeard, Threshold, TotalPower
<1> QED BY <1>3, <1>6 DEF HeardInv

(* A step that neither commits nor counts a vote keeps what was heard. *)
LEMMA HeardSame ==
    ASSUME HeardInv, RecordInv', UNCHANGED <<produced, roundOf, finalized>>,
           round'.id = round.id, round'.height = round.height,
           round'.precommitPower = round.precommitPower,
           heard' \in [Ids -> Nat], \A h \in Ids : heard'[h] >= heard[h]
    PROVE  HeardInv'
<1> USE ConsensusAssumption
<1>1. RecordInv /\ heard \in [Ids -> Nat] /\ round.precommitPower \in Nat
  BY RoundFields DEF HeardInv, RecordInv, TypeOK
<1>2. PowerHeard'
  <2> SUFFICES ASSUME round.id # 0
               PROVE  roundOf[round.id] = round.height /\ round.precommitPower <= heard'[round.height]
    BY DEF PowerHeard
  <2>1. roundOf[round.id] = round.height /\ round.precommitPower <= heard[round.height]
    BY DEF HeardInv, PowerHeard
  <2>2. round.height \in Ids
    BY <1>1, <2>1, RecordedRound
  <2> QED BY <1>1, <2>1, <2>2
<1>3. ASSUME NEW h \in Recorded PROVE heard'[roundOf[finalized[h]]] >= Threshold
  <2>1. roundOf[finalized[h]] \in Ids /\ heard[roundOf[finalized[h]]] >= Threshold
    BY <1>1, RecordedRound DEF HeardInv, QuorumHeard
  <2> QED BY <1>1, <2>1, ThresholdType
<1>4. QuorumHeard'
  BY <1>3 DEF QuorumHeard, Recorded, Threshold, TotalPower
<1> QED BY <1>2, <1>4 DEF HeardInv

LEMMA HeardStep ==
    ASSUME HeardInv, [Next]_vars
    PROVE  HeardInv'
<1> USE ConsensusAssumption
<1>0. /\ RecordInv /\ RecordInv' /\ round \in RoundType /\ Local \in Names
      /\ TypeOK /\ heard \in [Ids -> Nat]
  BY RecordStep DEF HeardInv, RecordInv, TypeOK
<1>1. heard' = heard => heard' \in [Ids -> Nat] /\ \A h \in Ids : heard'[h] >= heard[h]
  BY <1>0
<1>2. ASSUME NEW i \in Ids, Deliver(i)
      PROVE  /\ roundOf[i] \in Ids /\ heard'[roundOf[i]] = heard[roundOf[i]] + 1
             /\ heard' \in [Ids -> Nat] /\ \A h \in Ids : heard'[h] >= heard[h]
  <2>1. roundOf[i] \in Ids /\ heard' = [heard EXCEPT ![roundOf[i]] = @ + 1]
        /\ heard' \in [Ids -> Nat]
    BY <1>0, <1>2, Delivered
  <2> QED BY <1>0, <2>1
(* A vote that is counted is in what was heard for the round's height. *)
<1>3. ASSUME NEW i \in Ids, NEW v \in Names, Deliver(i), ForRound(roundOf[i])
      PROVE  /\ Counted(v, i) \in RoundType
             /\ Counted(v, i).id = round.id /\ Counted(v, i).num = round.num
             /\ Counted(v, i).height = round.height
             /\ Counted(v, i).precommitPower <= heard'[round.height]
  <2>1. /\ Counted(v, i) \in RoundType
        /\ Counted(v, i).id = round.id /\ Counted(v, i).num = round.num
        /\ Counted(v, i).height = round.height
        /\ Counted(v, i).precommitPower = round.precommitPower + 1
    BY <1>0, CountedRound
  <2>2. roundOf[i] = round.height /\ round.precommitPower <= heard[round.height]
    BY <1>3 DEF ForRound, HeardInv, PowerHeard
  <2>3. round.precommitPower \in Nat /\ heard[round.height] \in Nat
    BY <1>0, <1>2, <1>3, <2>2, RoundFields
  <2>4. heard'[round.height] = heard[round.height] + 1
    BY <1>2, <1>3, <2>2
  <2>5. round.precommitPower + 1 <= heard'[round.height]
    BY <2>2, <2>3, <2>4
  <2> QED BY <2>1, <2>5
<1>4. CASE UNCHANGED vars \/ IdleTick
  BY <1>0, <1>1, <1>4, HeardSame DEF vars, IdleTick
<1>5. CASE RunBlockRound \/ StartTimer
  BY <1>0, <1>1, <1>5, HeardSame DEF RunBlockRound, StartTimer
<1>6. CASE ProposeBlock
  <2>1. /\ produced + 1 \in Ids /\ target \in Ids
        /\ roundOf' = [roundOf EXCEPT ![produced + 1] = target]
        /\ round'.id = produced + 1 /\ round'.height = target /\ round'.precommitPower = 0
        /\ UNCHANGED <<finalized, heard>>
    BY <1>0, <1>6 DEF ProposeBlock, TypeOK, Ids
  <2>2. PowerHeard'
    BY <1>0, <2>1 DEF PowerHeard, TypeOK
  <2>3. ASSUME NEW h \in Recorded PROVE heard'[roundOf'[finalized[h]]] >= Threshold
    <3>1. finalized[h] \in 1..produced /\ heard[roundOf[finalized[h]]] >= Threshold
      BY <1>0, RecordedRound DEF HeardInv, QuorumHeard
    <3>2. finalized[h] \in Ids /\ finalized[h] # produced + 1
      BY <3>1, <1>0 DEF TypeOK, Ids
    <3>3. roundOf'[finalized[h]] = roundOf[finalized[h]]
      BY <1>0, <2>1, <3>2 DEF TypeOK
    <3> QED BY <2>1, <3>1, <3>3
  <2>4. QuorumHeard'
    BY <2>1, <2>3 DEF QuorumHeard, Recorded, Threshold, TotalPower
  <2> QED BY <1>0, <2>2, <2>4 DEF HeardInv
<1>7. CASE Prevote
  <2>1. round' = [round EXCEPT !.prevotes = @ \cup {Local}, !.prevotePower = @ + 1]
    BY <1>7 DEF Prevote
  <2>2. /\ round'.id = round.id /\ round'.height = round.height
        /\ round'.precommitPower = round.precommitPower
    BY <1>0, <2>1, PrevotedRound
  <2> QED BY <1>0, <1>1, <1>7, <2>2, HeardSame DEF Prevote
<1>8. ASSUME NEW i \in Ids, NEW v \in Names, HandlePrevote(i, v)
      PROVE  HeardInv'
  <2>1. /\ round'.id = round.id /\ round'.height = round.height
        /\ round'.precommitPower = round.precommitPower
    BY <1>0, <1>8, PrevotedRound DEF HandlePrevote
  <2> QED BY <1>0, <1>1, <1>8, <2>1, HeardSame DEF HandlePrevote
<1>9. ASSUME NEW i \in Ids, NEW v \in Names, HandlePrecommit(i, v)
      PROVE  HeardInv'
  <2>1. Deliver(i) /\ UNCHANGED <<produced, roundOf>>
    BY <1>9 DEF HandlePrecommit
  <2>2. heard' \in [Ids -> Nat] /\ \A h \in Ids : heard'[h] >= heard[h]
    BY <1>2, <2>1
  <2>3. CASE ForRound(roundOf[i])
    <3>1. CheckCommit(Counted(v, i))
      BY <1>9, <2>3 DEF HandlePrecommit
    <3> QED BY <1>0, <1>3, <2>1, <2>2, <2>3, <3>1, HeardCheck
  <2>4. CASE ~ForRound(roundOf[i])
    BY <1>0, <1>9, <2>1, <2>2, <2>4, HeardSame DEF HandlePrecommit
  <2> QED BY <2>3, <2>4
<1>10. ASSUME NEW i \in Ids, Precommit(i)
       PROVE  HeardInv'
  <2>1. Deliver(i) /\ UNCHANGED <<produced, roundOf, finalized>>
    BY <1>10 DEF Precommit
  <2>2. heard' \in [Ids -> Nat] /\ \A h \in Ids : heard'[h] >= heard[h]
    BY <1>2, <2>1
  <2>3. CASE ForRound(roundOf[i])
    <3>1. round' = Counted(Local, i)
      BY <1>10, <2>3 DEF Precommit
    <3>2. /\ round'.id = round.id /\ round'.height = round.height
          /\ round'.precommitPower <= heard'[round.height]
      BY <1>0, <1>3, <2>1, <2>3, <3>1
    <3>3. PowerHeard'
      BY <2>1, <3>2 DEF HeardInv, PowerHeard
    <3>4. ASSUME NEW h \in Recorded PROVE heard'[roundOf[finalized[h]]] >= Threshold
      <4>1. roundOf[finalized[h]] \in Ids /\ heard[roundOf[finalized[h]]] >= Threshold
        BY <1>0, RecordedRound DEF HeardInv, QuorumHeard
      <4> QED BY <1>0, <2>2, <4>1, ThresholdType
    <3>5. QuorumHeard'
      BY <2>1, <3>4 DEF QuorumHeard, Recorded, Threshold, TotalPower
    <3> QED BY <1>0, <3>3, <3>5 DEF HeardInv
  <2>4. CASE ~ForRound(roundOf[i])
    BY <1>0, <1>10, <2>1, <2>2, <2>4, HeardSame DEF Precommit
  <2> QED BY <2>3, <2>4
<1>11. CASE PrecommitCheck
  <2>1. CheckCommit(round) /\ UNCHANGED <<produced, roundOf, heard>>
    BY <1>11 DEF PrecommitCheck
  <2>2. round.id # 0 => round.precommitPower <= heard'[round.height]
    BY <2>1 DEF HeardInv, PowerHeard
  <2> QED BY <1>0, <1>1, <2>1, <2>2, HeardCheck
<1>12. ASSUME NEW i \in Ids, TimerFires(i)
       PROVE  HeardInv'
  BY <1>0, <1>1, <1>12, HeardSame DEF TimerFires
<1>13. ASSUME NEW i \in Ids, HandleTimeout(i)
       PROVE  HeardInv'
  <2>1. /\ round'.id = round.id /\ round'.height = round.height
        /\ round'.precommitPower = round.precommitPower
    BY <1>0, <1>13, TimedOutRound DEF HandleTimeout
  <2> QED BY <1>0, <1>1, <1>13, <2>1, HeardSame DEF HandleTimeout
<1> QED
  BY <1>4, <1>5, <1>6, <1>7, <1>8, <1>9, <1>10, <1>11, <1>12, <1>13
  DEF Next, Loop, Vote, Timeout

(* Whoever votes, and however often, FinalizeBlock is reached only after a *)
(* threshold of precommits for the height of the block's own round: a      *)
(* replaced round takes its votes with it, and a late commit check finds   *)
(* only the votes of the round it meets.                                   *)
THEOREM QuorumHeardCorrect == Spec => []QuorumHeard
<1>1. HeardInv /\ [Next]_vars => HeardInv'
  BY HeardStep
<1>2. HeardInv => QuorumHeard
  BY DEF HeardInv
<1> QED BY <1>1, <1>2, HeardInit, PTL DEF Spec
=============================================================================
