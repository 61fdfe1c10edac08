------------------------ MODULE MineralRightsProofs ------------------------
(***************************************************************************)
(* Proofs about MineralRights, for any accounts, deeds, roles, reserves,   *)
(* widths and bounds.                                                      *)
(***************************************************************************)
EXTENDS MineralRights, FiniteSetTheorems, TLAPS

USE MineralAssumption

(* The block that executes names a claim, and the window is not ahead. *)
BlockInv == block \in 1..MaxBlock /\ econo.start <= block

(* The one-byte count never exceeds the accounts that attested. *)
CountInv == \A c \in Claims : count[c] <= Cardinality(Attesters(c))

(* Only accounts with a badge attest. *)
BadgeInv == \A c \in Claims : \A a \in Attesters(c) : Badged(a)

Inv == TypeOK /\ BlockInv /\ CountInv /\ BadgeInv /\ TwoAttested /\ TierQuorum /\ TokensBacked

(* What LifeCycle says of one claim. *)
Kept(c) ==
    /\ Load(c)'.status \in {Load(c).status, Load(c).status + 1}
    /\ Load(c).status >= Reserved => /\ Load(c)'.ounces = Load(c).ounces
                                     /\ Load(c)'.tier = Load(c).tier

(* What every operation but registerClaim starts from. *)
LEMMA LoadType ==
    ASSUME TypeOK, NEW c \in Claims
    PROVE  /\ Load(c) \in ClaimType
           /\ Load(c).status # 0 => claim[c].deed # NoDeed /\ Load(c) = claim[c]
<1>1. NoClaim \in ClaimType
  BY DEF NoClaim, ClaimType, NoDeed, NoName, Active, Measured
<1>2. NoClaim.status = 0
  BY DEF NoClaim
<1> QED BY <1>1, <1>2 DEF TypeOK, Load

(* Storing a claim changes that claim alone, and it reads back as stored   *)
(* when its deed is not the zero word, except for an empty transferee.     *)
LEMMA StoreEffect ==
    ASSUME TypeOK, NEW c \in Claims, NEW r \in ClaimType, Store(c, r)
    PROVE  /\ claim' \in [Claims -> ClaimType]
           /\ \A d \in Claims \ {c} : Load(d)' = Load(d)
           /\ r.deed # NoDeed =>
                /\ Load(c)'.status = r.status /\ Load(c)'.tier = r.tier
                /\ Load(c)'.ounces = r.ounces /\ Load(c)'.supply = r.supply
                /\ Load(c)'.owner = r.owner /\ Load(c)'.deed = r.deed
           /\ r.deed = NoDeed => Load(c)' = NoClaim
<1> DEFINE w == [r EXCEPT !.transferee = IF r.transferee = NoName THEN claim[c].transferee ELSE @]
<1>1. w \in ClaimType
  BY DEF TypeOK, ClaimType
<1>2. /\ w.status = r.status /\ w.tier = r.tier /\ w.ounces = r.ounces
      /\ w.supply = r.supply /\ w.owner = r.owner /\ w.deed = r.deed
  BY DEF ClaimType
<1>3. claim' = [claim EXCEPT ![c] = w]
  BY DEF Store
<1>4. claim'[c] = w /\ \A d \in Claims \ {c} : claim'[d] = claim[d]
  <2> HIDE DEF w
  <2> QED BY <1>3 DEF TypeOK
<1>5. claim' \in [Claims -> ClaimType]
  <2> HIDE DEF w
  <2> QED BY <1>1, <1>3 DEF TypeOK
<1> HIDE DEF w
<1> QED BY <1>2, <1>4, <1>5 DEF Load

(* A date is one field of a claim. *)
LEMMA SetDate ==
    ASSUME NEW r \in ClaimType, NEW x \in Nat
    PROVE  /\ LET w == [r EXCEPT !.env = x]
              IN /\ w \in ClaimType /\ w.status = r.status /\ w.tier = r.tier
                 /\ w.ounces = r.ounces /\ w.supply = r.supply
                 /\ w.owner = r.owner /\ w.deed = r.deed
           /\ LET w == [r EXCEPT !.verified = x]
              IN /\ w \in ClaimType /\ w.status = r.status /\ w.tier = r.tier
                 /\ w.ounces = r.ounces /\ w.supply = r.supply
                 /\ w.owner = r.owner /\ w.deed = r.deed
           /\ LET w == [r EXCEPT !.issued = x]
              IN /\ w \in ClaimType /\ w.status = r.status /\ w.tier = r.tier
                 /\ w.ounces = r.ounces /\ w.supply = r.supply
                 /\ w.owner = r.owner /\ w.deed = r.deed
BY DEF ClaimType

LEMMA StatusOfLoad ==
    ASSUME TypeOK, NEW c \in Claims
    PROVE  Load(c).status \in 0..5 /\ Load(c).tier \in Nat
BY LoadType DEF ClaimType, Active, Measured

(* A state whose claims read as before and whose attestations are those of *)
(* before still satisfies what only depends on them.                       *)
LEMMA AttestersFinite ==
    ASSUME NEW c \in Claims
    PROVE  IsFiniteSet(Attesters(c)) /\ Cardinality(Attesters(c)) \in Nat
<1>1. Attesters(c) \subseteq Accounts
  BY DEF Attesters
<1> QED BY <1>1, FS_Subset, FS_CardinalityType

LEMMA InitInv == Init => Inv
<1> SUFFICES ASSUME Init PROVE Inv
  OBVIOUS
<1>1. NoClaim \in ClaimType /\ NoClaim.status = 0 /\ NoClaim.supply = 0
  BY DEF NoClaim, ClaimType, NoDeed, NoName, Active, Measured
<1>2. TypeOK
  BY <1>1 DEF Init, TypeOK, NoAttest
<1>3. \A c \in Claims : Load(c) = NoClaim
  BY DEF Init, Load
<1>4. BlockInv
  BY DEF Init, BlockInv
<1>5. CountInv
  BY AttestersFinite DEF Init, CountInv
<1>6. TwoAttested /\ TierQuorum /\ BadgeInv
  BY <1>1, <1>3 DEF Init, TwoAttested, TierQuorum, BadgeInv, Attesters, Verified, Reserved
<1>7. TokensBacked
  BY <1>1, <1>3 DEF Init, TokensBacked, Issued
<1> QED BY <1>2, <1>4, <1>5, <1>6, <1>7 DEF Inv

(* A step that leaves the attestations as they are keeps CountInv, and     *)
(* TwoAttested for every claim that was Verified already.                  *)
LEMMA SameAttesters ==
    ASSUME UNCHANGED attest, NEW c \in Claims
    PROVE  Attesters(c)' = Attesters(c)
BY DEF Attesters

(* registerClaim: the id was free, so the claim has no tokens yet. *)
LEMMA RegisterStep ==
    ASSUME Inv, NEW a \in Accounts, NEW deed \in Deeds \cup {NoDeed},
           NEW owner \in Names \cup {NoName}, RegisterClaim(a, deed, owner)
    PROVE  Inv' /\ \A d \in Claims : Kept(d)
<1>1. PICK c \in Claims : c = <<a, deed, block>>
  BY DEF Inv, BlockInv, Claims
<1> DEFINE r == [NoClaim EXCEPT !.deed = deed, !.status = Pending,
                                !.owner = IF owner = NoName THEN Trunc[a] ELSE owner]
<1>2. r \in ClaimType /\ r.status = 1 /\ r.supply = 0 /\ r.deed = deed
  <2>1. NoClaim \in ClaimType /\ NoClaim.supply = 0
    BY DEF NoClaim, ClaimType, NoDeed, NoName, Active, Measured
  <2> DEFINE o == IF owner = NoName THEN Trunc[a] ELSE owner
  <2>2. o \in Names \cup {NoName} /\ r = [[[NoClaim EXCEPT !.deed = deed] EXCEPT !.status = Pending] EXCEPT !.owner = o]
    OBVIOUS
  <2> HIDE DEF o, r
  <2> DEFINE r1 == [NoClaim EXCEPT !.deed = deed]
             r2 == [r1 EXCEPT !.status = Pending]
  <2>3. r1 \in ClaimType /\ r1.supply = 0 /\ r1.deed = deed
    BY <2>1 DEF ClaimType
  <2> HIDE DEF r1
  <2>4. r2 \in ClaimType /\ r2.supply = 0 /\ r2.deed = deed /\ r2.status = 1
    BY <2>3 DEF ClaimType, Active, Pending
  <2>5. r = [r2 EXCEPT !.owner = o]
    BY <2>2 DEF r1
  <2> HIDE DEF r2
  <2> QED BY <2>2, <2>4, <2>5 DEF ClaimType
<1>3. Store(c, r) /\ claim[c].deed = NoDeed
  BY <1>1 DEF RegisterClaim
<1>4. /\ UNCHANGED <<attest, count, tokens, econo, value, block, attests>>
      /\ claimCount' = claimCount + 1
  BY DEF RegisterClaim
<1>5. Load(c) = NoClaim /\ NoClaim.status = 0 /\ NoClaim.supply = 0 /\ NoClaim.owner \notin Names
  BY <1>3 DEF Load, NoClaim, NoName
<1> HIDE DEF r
<1>6. /\ claim' \in [Claims -> ClaimType]
      /\ \A d \in Claims \ {c} : Load(d)' = Load(d)
      /\ Load(c)'.status \in {0, 1} /\ Load(c)'.supply = 0
  BY <1>1, <1>2, <1>3, <1>5, StoreEffect DEF Inv
<1>7. TypeOK'
  BY <1>4, <1>6 DEF Inv, TypeOK
<1>8. BlockInv' /\ CountInv' /\ BadgeInv'
  BY <1>4, SameAttesters DEF Inv, BlockInv, CountInv, BadgeInv, Badged
<1>9. TwoAttested'
  BY <1>4, <1>6, SameAttesters DEF Inv, TwoAttested, Verified, Badged
<1>10. TierQuorum'
  BY <1>4, <1>6, SameAttesters DEF Inv, TierQuorum, Reserved
<1>11. TokensBacked'
  <2> SUFFICES ASSUME NEW d \in Claims
               PROVE  /\ Load(d)'.supply = IF Load(d)'.status >= Issued THEN Load(d)'.ounces ELSE 0
                      /\ \A n \in Names : tokens'[d][n] =
                           IF n = Load(d)'.owner
                           THEN IF Load(d)'.status >= Issued THEN Load(d)'.ounces ELSE 0
                           ELSE 0
    BY DEF TokensBacked
  <2>1. CASE d # c
    BY <1>4, <1>6, <2>1 DEF Inv, TokensBacked
  <2>2. CASE d = c
    BY <1>1, <1>4, <1>5, <1>6, <2>2 DEF Inv, TokensBacked, Issued
  <2> QED BY <2>1, <2>2
<1>12. \A d \in Claims : Kept(d)
  BY <1>5, <1>6 DEF Kept, Reserved
<1> QED BY <1>7, <1>8, <1>9, <1>10, <1>11, <1>12 DEF Inv

(* verifyClaim: one record is added, and the claim may become Verified. *)
LEMMA VerifyStep ==
    ASSUME Inv, NEW a \in Accounts, NEW c \in Claims, NEW role \in Roles,
           NEW approved \in {0, 1}, VerifyClaim(a, c, role, approved)
    PROVE  Inv' /\ \A d \in Claims : Kept(d)
<1> DEFINE r == Load(c)
           advance == r.status = Pending /\ approved = 1 /\ TwoVerifiers(c) /\ OwnershipRoles(c)
           v == [r EXCEPT !.status = Verified]
           rec == [role |-> role, approved |-> approved]
<1>1. /\ r.status # 0 /\ attest[c][a] = NoAttest
      /\ attest' = [attest EXCEPT ![c][a] = rec]
      /\ count' = [count EXCEPT ![c] = (@ + 1) % Uint8]
      /\ IF advance THEN Store(c, v) ELSE UNCHANGED claim
      /\ attests' = attests + 1 /\ UNCHANGED <<tokens, claimCount, value, block>>
  BY DEF VerifyClaim, NotYetAttested
<1>2. IF approved = 1 /\ (advance \/ r.status = Verified)
      THEN Accrue(r.supply) ELSE UNCHANGED econo
  BY DEF VerifyClaim
<1>3. r \in ClaimType /\ r = claim[c] /\ r.deed # NoDeed
  BY <1>1, LoadType DEF Inv
<1>4. v \in ClaimType /\ v.status = 2 /\ v.supply = r.supply /\ v.owner = r.owner
      /\ v.deed = r.deed /\ v.tier = r.tier /\ v.ounces = r.ounces
  BY <1>3 DEF ClaimType, Verified, Active
<1>5. rec \in [role : Nat, approved : 0..2] /\ rec # NoAttest
  BY DEF NoAttest
<1>6. econo' \in [start : Nat, claims : Nat, paid : Nat] /\ econo'.start <= block
  <2>1. econo \in [start : Nat, claims : Nat, paid : Nat] /\ block \in Nat /\ r.supply \in Nat
        /\ econo.start <= block
    BY <1>3 DEF Inv, TypeOK, BlockInv, ClaimType
  <2> DEFINE e == IF block - econo.start >= Window
                  THEN [start |-> block, claims |-> 0, paid |-> 0] ELSE econo
  <2>2. e \in [start : Nat, claims : Nat, paid : Nat] /\ e.start <= block
    BY <2>1
  <2>3. r.supply * PayWeight \in Nat
    BY <2>1
  <2>4. CASE UNCHANGED econo
    BY <2>1, <2>4
  <2>5. CASE Accrue(r.supply)
    <3>1. econo' = [e EXCEPT !.paid = @ + r.supply * PayWeight, !.claims = @ + 1]
      BY <2>5 DEF Accrue
    <3> DEFINE k == r.supply * PayWeight
    <3>2. k \in Nat /\ econo' = [e EXCEPT !.paid = @ + k, !.claims = @ + 1]
      BY <2>3, <3>1
    <3> HIDE DEF e, k
    <3>3. econo' = [start |-> e.start, claims |-> e.claims + 1, paid |-> e.paid + k]
      BY <2>2, <3>2
    <3> QED BY <2>2, <3>2, <3>3
  <2> QED BY <1>2, <2>4, <2>5
<1>7. attest' \in [Claims -> [Accounts -> [role : Nat, approved : 0..2]]]
  <2> HIDE DEF rec
  <2> QED BY <1>1, <1>5 DEF Inv, TypeOK
<1>8. /\ attest'[c][a] = rec
      /\ \A b \in Accounts \ {a} : attest'[c][b] = attest[c][b]
      /\ \A d \in Claims \ {c} : attest'[d] = attest[d]
  <2> HIDE DEF rec
  <2> QED BY <1>1 DEF Inv, TypeOK
<1>9. /\ a \notin Attesters(c) /\ Attesters(c)' = Attesters(c) \cup {a}
      /\ \A d \in Claims \ {c} : Attesters(d)' = Attesters(d)
  BY <1>1, <1>5, <1>8 DEF Attesters
<1>10. Cardinality(Attesters(c)') = Cardinality(Attesters(c)) + 1
  <2>1. IsFiniteSet(Attesters(c)) BY AttestersFinite
  <2>2. Cardinality(Attesters(c) \cup {a}) = Cardinality(Attesters(c)) + 1
    BY <1>9, <2>1, FS_AddElement, ZenonT(60)
  <2> QED BY <1>9, <2>2, ZenonT(60)
<1>11. count' \in [Claims -> 0..(Uint8 - 1)]
  <2>1. count[c] \in Nat
    BY DEF Inv, TypeOK
  <2>2. (count[c] + 1) % Uint8 \in 0..(Uint8 - 1)
    BY <2>1
  <2> QED BY <1>1, <2>2 DEF Inv, TypeOK
<1>12. CountInv'
  <2>1. count[c] \in Nat /\ (count[c] + 1) % Uint8 <= count[c] + 1
    <3>1. count[c] \in Nat
      BY DEF Inv, TypeOK
    <3> QED BY <3>1
  <2>2. count'[c] = (count[c] + 1) % Uint8 /\ \A d \in Claims \ {c} : count'[d] = count[d]
    BY <1>1 DEF Inv, TypeOK
  <2>3. count'[c] \in Nat /\ Cardinality(Attesters(c)) \in Nat /\ count[c] <= Cardinality(Attesters(c))
    BY <1>11, AttestersFinite DEF Inv, CountInv
  <2>4. count'[c] <= Cardinality(Attesters(c)')
    BY <1>10, <2>1, <2>2, <2>3
  <2> QED BY <1>9, <2>2, <2>4 DEF Inv, CountInv
<1>13. /\ claim' \in [Claims -> ClaimType]
       /\ \A d \in Claims \ {c} : Load(d)' = Load(d)
       /\ Load(c)'.tier = r.tier /\ Load(c)'.ounces = r.ounces
       /\ Load(c)'.supply = r.supply /\ Load(c)'.owner = r.owner
       /\ Load(c)'.status = IF advance THEN 2 ELSE r.status
  <2>1. CASE advance
    <3>1. Store(c, v)
      BY <1>1, <2>1
    <3> HIDE DEF r, v, advance
    <3> QED BY <1>3, <1>4, <2>1, <3>1, StoreEffect DEF Inv
  <2>2. CASE ~advance
    <3>1. UNCHANGED claim
      BY <1>1, <2>2
    <3>2. claim' \in [Claims -> ClaimType] /\ \A d \in Claims : Load(d)' = Load(d)
      BY <3>1 DEF Inv, TypeOK, Load
    <3> HIDE DEF advance
    <3> QED BY <2>2, <3>2
  <2> HIDE DEF advance
  <2> QED BY <2>1, <2>2
<1>14. r.status \in 0..5
  BY StatusOfLoad DEF Inv
<1>15. TypeOK'
  BY <1>1, <1>6, <1>7, <1>11, <1>13 DEF Inv, TypeOK
<1>16. BlockInv'
  BY <1>1, <1>6 DEF Inv, BlockInv
<1>21. BadgeInv'
  <2>1. Badged(a)
    BY DEF VerifyClaim
  <2>2. \A d \in Claims : \A b \in Attesters(d)' : b = a \/ b \in Attesters(d)
    BY <1>9
  <2> QED BY <2>1, <2>2 DEF Inv, BadgeInv, Badged
<1>17. TwoAttested'
  <2> SUFFICES ASSUME NEW d \in Claims, Load(d)'.status >= Verified
               PROVE  /\ Cardinality(Attesters(d)') >= 2
                      /\ \E b \in Attesters(d)' : attest'[d][b].approved = 1
    BY <1>21 DEF TwoAttested, BadgeInv
  <2>1. CASE d # c
    BY <1>8, <1>9, <1>13, <2>1 DEF Inv, TwoAttested
  <2>2. CASE d = c /\ advance
    <3>1. count'[c] >= 2 /\ approved = 1
      BY <2>2 DEF TwoVerifiers
    <3>2. count'[c] \in Nat /\ Cardinality(Attesters(c)') \in Nat
      BY <1>10, <1>11, AttestersFinite
    <3>3. Cardinality(Attesters(c)') >= 2
      BY <1>12, <3>1, <3>2 DEF CountInv
    <3>4. attest'[c][a].approved = 1 /\ a \in Attesters(c)'
      BY <1>8, <1>9, <3>1
    <3> QED BY <2>2, <3>3, <3>4
  <2>3. CASE d = c /\ ~advance
    <3>1. r.status >= Verified
      BY <1>13, <2>3
    <3>2. Cardinality(Attesters(c)) >= 2
      BY <3>1 DEF Inv, TwoAttested
    <3>3. PICK b \in Attesters(c) : attest[c][b].approved = 1
      BY <3>1 DEF Inv, TwoAttested
    <3>4. b \in Attesters(c)' /\ attest'[c][b] = attest[c][b]
      BY <1>8, <1>9 DEF Attesters
    <3>5. Cardinality(Attesters(c)') >= 2
      BY <1>10, <3>2, AttestersFinite
    <3> QED BY <2>3, <3>3, <3>4, <3>5
  <2> QED BY <2>1, <2>2, <2>3
<1>18. TierQuorum'
  <2> SUFFICES ASSUME NEW d \in Claims, Load(d)'.status >= Reserved
               PROVE  /\ Load(d)'.tier \in {Inferred, Indicated, Measured}
                      /\ Cardinality(Attesters(d)') >= Required(Load(d)'.tier)
    BY DEF TierQuorum, Required
  <2>1. CASE d # c
    BY <1>9, <1>13, <2>1 DEF Inv, TierQuorum
  <2>2. CASE d = c
    <3>1. r.status >= Reserved
      BY <1>13, <1>14, <2>2 DEF Reserved
    <3>2. r.tier \in {Inferred, Indicated, Measured} /\ Cardinality(Attesters(c)) >= Required(r.tier)
      BY <3>1 DEF Inv, TierQuorum
    <3>3. Load(c)'.tier = r.tier
      BY <1>13
    <3>4. Cardinality(Attesters(c)') >= Required(r.tier)
      BY <1>10, <3>2, AttestersFinite DEF Required
    <3> QED BY <2>2, <3>2, <3>3, <3>4
  <2> QED BY <2>1, <2>2
<1>19. TokensBacked'
  <2>1. \A d \in Claims : /\ Load(d)'.supply = Load(d).supply /\ Load(d)'.ounces = Load(d).ounces
                          /\ Load(d)'.owner = Load(d).owner
                          /\ (Load(d)'.status >= Issued <=> Load(d).status >= Issued)
    BY <1>13, <1>14 DEF Issued, Pending
  <2> QED BY <1>1, <2>1 DEF Inv, TokensBacked
<1>20. \A d \in Claims : Kept(d)
  <2>1. Load(c)'.status \in {r.status, r.status + 1}
    BY <1>13, <1>14 DEF Pending
  <2> QED BY <1>13, <2>1 DEF Kept
<1> QED BY <1>12, <1>15, <1>16, <1>17, <1>18, <1>19, <1>20, <1>21 DEF Inv

(* The steps of a claim after its verification store one claim and touch   *)
(* no attestation: what is left to show is that claim's own part.          *)
LEMMA LaterStep ==
    ASSUME Inv, NEW c \in Claims, NEW w \in ClaimType, Load(c).status # 0, Store(c, w),
           w.deed = Load(c).deed, UNCHANGED <<attest, count, claimCount, econo, block, attests>>,
           tokens' \in [Claims -> [Names -> Nat]], value' \in [Claims -> Nat],
           w.status >= Verified => Load(c).status >= Verified,
           w.status >= Reserved =>
               /\ w.tier \in {Inferred, Indicated, Measured}
               /\ Cardinality(Attesters(c)) >= Required(w.tier),
           w.status \in {Load(c).status, Load(c).status + 1},
           Load(c).status >= Reserved => w.ounces = Load(c).ounces /\ w.tier = Load(c).tier,
           w.owner = Load(c).owner,
           w.supply = IF w.status >= Issued THEN w.ounces ELSE 0,
           \A d \in Claims, n \in Names :
               tokens'[d][n] = IF d = c /\ n = w.owner THEN w.supply ELSE tokens[d][n]
    PROVE  Inv' /\ \A d \in Claims : Kept(d)
<1>1. Load(c) = claim[c] /\ w.deed # NoDeed
  BY LoadType DEF Inv
<1>2. /\ claim' \in [Claims -> ClaimType]
      /\ \A d \in Claims \ {c} : Load(d)' = Load(d)
      /\ Load(c)'.status = w.status /\ Load(c)'.tier = w.tier /\ Load(c)'.ounces = w.ounces
      /\ Load(c)'.supply = w.supply /\ Load(c)'.owner = w.owner
  BY <1>1, StoreEffect DEF Inv
<1>3. \A d \in Claims : Attesters(d)' = Attesters(d)
  BY SameAttesters
<1>4. TypeOK'
  BY <1>2 DEF Inv, TypeOK
<1>5. BlockInv' /\ CountInv' /\ BadgeInv'
  BY <1>3 DEF Inv, BlockInv, CountInv, BadgeInv, Badged
<1>6. TwoAttested'
  BY <1>2, <1>3 DEF Inv, TwoAttested, Badged
<1>7. TierQuorum'
  BY <1>2, <1>3 DEF Inv, TierQuorum, Required
<1>8. TokensBacked'
  <2> SUFFICES ASSUME NEW d \in Claims
               PROVE  /\ Load(d)'.supply = IF Load(d)'.status >= Issued THEN Load(d)'.ounces ELSE 0
                      /\ \A n \in Names : tokens'[d][n] =
                           IF n = Load(d)'.owner
                           THEN IF Load(d)'.status >= Issued THEN Load(d)'.ounces ELSE 0
                           ELSE 0
    BY DEF TokensBacked
  <2>1. CASE d # c
    BY <1>2, <2>1 DEF Inv, TokensBacked
  <2>2. CASE d = c
    BY <1>2, <2>2 DEF Inv, TokensBacked
  <2> QED BY <2>1, <2>2
<1>9. \A d \in Claims : Kept(d)
  BY <1>2 DEF Kept
<1> QED BY <1>4, <1>5, <1>6, <1>7, <1>8, <1>9 DEF Inv

(* A claim's tokens before the step, for the steps that mint nothing. *)
LEMMA TokensKept ==
    ASSUME Inv, NEW c \in Claims, UNCHANGED tokens
    PROVE  /\ tokens' \in [Claims -> [Names -> Nat]]
           /\ \A d \in Claims, n \in Names :
                  tokens'[d][n] = IF d = c /\ n = Load(c).owner THEN Load(c).supply ELSE tokens[d][n]
BY DEF Inv, TypeOK, TokensBacked

LEMMA ApproveStep ==
    ASSUME Inv, NEW a \in Accounts, NEW c \in Claims, NEW tier \in Tiers, NEW raw \in RawOunces,
           ApproveReserve(a, c, tier, raw)
    PROVE  Inv' /\ \A d \in Claims : Kept(d)
<1> DEFINE r == Load(c)
           w == [r EXCEPT !.status = Reserved, !.ounces = raw % Uint64, !.tier = tier,
                          !.verified = block, !.count = count[c]]
<1>1. /\ r.status = 2 /\ tier \in {Inferred, Indicated, Measured} /\ count[c] >= Required(tier)
      /\ Store(c, w)
      /\ UNCHANGED <<attest, count, tokens, claimCount, econo, value, block, attests>>
  BY DEF ApproveReserve, ReadyForReserve, TierVerified, Verified, Ounces
<1>2. r \in ClaimType /\ r.supply = 0
  BY <1>1, LoadType DEF Inv, TokensBacked, Issued
<1>3. raw % Uint64 \in 0..(Uint64 - 1) /\ count[c] \in 0..(Uint8 - 1) /\ block \in Nat
      /\ tier \in 0..3
  <2>1. raw \in Nat /\ Uint64 \in Nat \ {0}
    OBVIOUS
  <2>2. raw % Uint64 \in 0..(Uint64 - 1)
    BY <2>1
  <2>3. count[c] \in 0..(Uint8 - 1) /\ block \in Nat
    BY DEF Inv, TypeOK
  <2>4. tier \in 0..3
    BY <1>1 DEF Inferred, Indicated, Measured
  <2> QED BY <2>2, <2>3, <2>4
<1>4. /\ w \in ClaimType /\ w.status = 3 /\ w.tier = tier /\ w.deed = r.deed
      /\ w.owner = r.owner /\ w.supply = 0
  <2> DEFINE k == raw % Uint64
             r1 == [r EXCEPT !.status = Reserved]
             r2 == [r1 EXCEPT !.ounces = k]
             r3 == [r2 EXCEPT !.tier = tier]
             r4 == [r3 EXCEPT !.verified = block]
  <2>1. w = [r4 EXCEPT !.count = count[c]] /\ k \in 0..(Uint64 - 1)
    BY <1>3
  <2> HIDE DEF r, w, k
  <2>2. /\ r1 \in ClaimType /\ r1.status = 3 /\ r1.deed = r.deed /\ r1.owner = r.owner
        /\ r1.supply = 0
    BY <1>2 DEF ClaimType, Active, Reserved
  <2> HIDE DEF r1
  <2>3. /\ r2 \in ClaimType /\ r2.status = 3 /\ r2.deed = r.deed /\ r2.owner = r.owner
        /\ r2.supply = 0
    BY <2>1, <2>2 DEF ClaimType
  <2> HIDE DEF r2
  <2>4. /\ r3 \in ClaimType /\ r3.status = 3 /\ r3.deed = r.deed /\ r3.owner = r.owner
        /\ r3.supply = 0 /\ r3.tier = tier
    BY <1>3, <2>3 DEF ClaimType, Measured
  <2> HIDE DEF r3
  <2>5. /\ r4 \in ClaimType /\ r4.status = 3 /\ r4.deed = r.deed /\ r4.owner = r.owner
        /\ r4.supply = 0 /\ r4.tier = tier
    BY <1>3, <2>4, SetDate, ZenonT(60)
  <2> HIDE DEF r4
  <2> QED BY <1>3, <2>1, <2>5 DEF ClaimType
<1>5. Cardinality(Attesters(c)) >= Required(w.tier)
  <2>1. count[c] <= Cardinality(Attesters(c)) /\ count[c] \in Nat
    BY <1>3 DEF Inv, CountInv
  <2>2. Required(w.tier) \in {2, 3} /\ Required(w.tier) = Required(tier)
    BY <1>4 DEF Required
  <2> HIDE DEF w
  <2> QED BY <1>1, <2>1, <2>2, AttestersFinite
<1> HIDE DEF w, r
<1>6. Load(c) = r
  BY DEF r
<1>7. /\ tokens' \in [Claims -> [Names -> Nat]]
      /\ \A d \in Claims, n \in Names :
             tokens'[d][n] = IF d = c /\ n = w.owner THEN w.supply ELSE tokens[d][n]
  BY <1>1, <1>2, <1>4, <1>6, TokensKept
<1>8. value' \in [Claims -> Nat]
  BY <1>1 DEF Inv, TypeOK
<1> QED BY <1>1, <1>4, <1>5, <1>6, <1>7, <1>8, LaterStep DEF Verified, Reserved, Issued

LEMMA IssueStep ==
    ASSUME Inv, NEW c \in Claims, IssueTokens(c)
    PROVE  Inv' /\ \A d \in Claims : Kept(d)
<1> DEFINE r == Load(c)
           w == [r EXCEPT !.status = Issued, !.supply = r.ounces, !.issued = block]
           x == ((r.ounces * Rate[r.tier]) % Uint64) \div 10
<1>1. /\ r.status = 3 /\ Store(c, w)
      /\ tokens' = [tokens EXCEPT ![c][r.owner] = @ + r.ounces]
      /\ value' = [value EXCEPT ![c] = x]
      /\ UNCHANGED <<attest, count, claimCount, econo, block, attests>>
  BY DEF IssueTokens, Issuable, Reserved
<1>2. r \in ClaimType /\ r.ounces \in 0..(Uint64 - 1) /\ block \in Nat
  BY LoadType DEF Inv, TypeOK, ClaimType
<1>3. r.tier \in {Inferred, Indicated, Measured} /\ Cardinality(Attesters(c)) >= Required(r.tier)
  BY <1>1 DEF Inv, TierQuorum, Reserved
<1>4. /\ w \in ClaimType /\ w.status = 4 /\ w.tier = r.tier /\ w.deed = r.deed
      /\ w.owner = r.owner /\ w.supply = r.ounces /\ w.ounces = r.ounces
  <2> DEFINE r1 == [r EXCEPT !.status = Issued]
             r2 == [r1 EXCEPT !.supply = r.ounces]
  <2>1. w = [r2 EXCEPT !.issued = block]
    OBVIOUS
  <2> HIDE DEF r, w
  <2>2. /\ r1 \in ClaimType /\ r1.status = 4 /\ r1.tier = r.tier /\ r1.deed = r.deed
        /\ r1.owner = r.owner /\ r1.ounces = r.ounces
    BY <1>2 DEF ClaimType, Active, Issued
  <2> HIDE DEF r1
  <2>3. /\ r2 \in ClaimType /\ r2.status = 4 /\ r2.tier = r.tier /\ r2.deed = r.deed
        /\ r2.owner = r.owner /\ r2.supply = r.ounces /\ r2.ounces = r.ounces
    BY <1>2, <2>2 DEF ClaimType
  <2> HIDE DEF r2
  <2> QED BY <1>2, <2>1, <2>3, SetDate, ZenonT(60)
<1>5. x \in Nat
  <2>1. r.ounces \in Nat /\ Rate[r.tier] \in Nat
    BY <1>2, <1>3
  <2>2. r.ounces * Rate[r.tier] \in Nat
    BY <2>1
  <2>3. (r.ounces * Rate[r.tier]) % Uint64 \in Nat
    <3> DEFINE y == r.ounces * Rate[r.tier]
    <3>1. y \in Nat
      BY <2>2
    <3> HIDE DEF y
    <3>2. y % Uint64 \in Nat
      BY <3>1
    <3> QED BY <3>2 DEF y
  <2> DEFINE z == (r.ounces * Rate[r.tier]) % Uint64
  <2>4. z \in Nat
    BY <2>3
  <2> HIDE DEF z
  <2>5. z \div 10 \in Nat
    BY <2>4
  <2> QED BY <2>5 DEF z
<1> HIDE DEF x
<1>6. value' \in [Claims -> Nat]
  BY <1>1, <1>5 DEF Inv, TypeOK
<1>7. \A n \in Names : tokens[c][n] = 0
  BY <1>1 DEF Inv, TokensBacked, Issued
<1>8. tokens \in [Claims -> [Names -> Nat]] /\ r.ounces \in Nat
  BY <1>2 DEF Inv, TypeOK
<1> HIDE DEF w, r
<1>9. /\ tokens' \in [Claims -> [Names -> Nat]]
      /\ \A d \in Claims, n \in Names :
             tokens'[d][n] = IF d = c /\ n = w.owner THEN w.supply ELSE tokens[d][n]
  <2> DEFINE f == [tokens[c] EXCEPT ![r.owner] = @ + r.ounces]
  <2>1. tokens' = [tokens EXCEPT ![c] = f]
    BY <1>1, <1>8
  <2>2. f \in [Names -> Nat] /\ \A n \in Names : f[n] = IF n = r.owner THEN r.ounces ELSE 0
    <3> DEFINE g == tokens[c]
    <3>1. g \in [Names -> Nat] /\ \A n \in Names : g[n] = 0
      BY <1>7, <1>8
    <3>2. f = [g EXCEPT ![r.owner] = @ + r.ounces]
      OBVIOUS
    <3> HIDE DEF g, f
    <3>3. f = [n \in Names |-> IF n = r.owner THEN g[n] + r.ounces ELSE g[n]]
      BY <3>1, <3>2
    <3>4. \A n \in Names : f[n] = IF n = r.owner THEN r.ounces ELSE 0
      BY <1>8, <3>1, <3>3
    <3> QED BY <1>8, <3>3, <3>4
  <2> HIDE DEF f
  <2> QED BY <1>4, <1>7, <1>8, <2>1, <2>2
<1>10. Load(c) = r
  BY DEF r
<1> QED BY <1>1, <1>3, <1>4, <1>6, <1>9, <1>10, LaterStep DEF Verified, Reserved, Issued

LEMMA CheckStep ==
    ASSUME Inv, NEW a \in Accounts, NEW c \in Claims, NEW n \in CheckBlocks,
           EnvironmentalCheck(a, c, n)
    PROVE  Inv' /\ \A d \in Claims : Kept(d)
<1> DEFINE r == Load(c)
           w == [r EXCEPT !.status = Active, !.env = n]
<1>1. /\ r.status >= 4 /\ Store(c, w)
      /\ UNCHANGED <<attest, count, tokens, claimCount, econo, value, block, attests>>
  BY DEF EnvironmentalCheck, Issued
<1>2. r \in ClaimType /\ r.status \in 0..5 /\ r.supply = r.ounces
  BY <1>1, LoadType, StatusOfLoad DEF Inv, TokensBacked, Issued
<1>3. r.tier \in {Inferred, Indicated, Measured} /\ Cardinality(Attesters(c)) >= Required(r.tier)
  BY <1>1, <1>2 DEF Inv, TierQuorum, Reserved
<1>4. /\ w \in ClaimType /\ w.status = 5 /\ w.tier = r.tier /\ w.deed = r.deed
      /\ w.owner = r.owner /\ w.supply = r.supply /\ w.ounces = r.ounces
  <2> DEFINE r1 == [r EXCEPT !.status = Active]
  <2>1. w = [r1 EXCEPT !.env = n] /\ n \in Nat
    OBVIOUS
  <2> HIDE DEF r, w
  <2>2. /\ r1 \in ClaimType /\ r1.status = 5 /\ r1.tier = r.tier /\ r1.deed = r.deed
        /\ r1.owner = r.owner /\ r1.supply = r.supply /\ r1.ounces = r.ounces
    BY <1>2 DEF ClaimType, Active
  <2> HIDE DEF r1
  <2> QED BY <2>1, <2>2, SetDate, ZenonT(60)
<1> HIDE DEF w, r
<1>5. Load(c) = r
  BY DEF r
<1>6. /\ tokens' \in [Claims -> [Names -> Nat]]
      /\ \A d \in Claims, m \in Names :
             tokens'[d][m] = IF d = c /\ m = w.owner THEN w.supply ELSE tokens[d][m]
  BY <1>1, <1>4, <1>5, TokensKept
<1>7. value' \in [Claims -> Nat]
  BY <1>1 DEF Inv, TypeOK
<1> QED BY <1>1, <1>2, <1>3, <1>4, <1>5, <1>6, <1>7, LaterStep DEF Verified, Reserved, Issued

LEMMA TransferStep ==
    ASSUME Inv, NEW a \in Accounts, NEW c \in Claims, NEW newOwner \in Names \cup {NoName},
           TransferRights(a, c, newOwner)
    PROVE  Inv' /\ \A d \in Claims : Kept(d)
<1> DEFINE r == Load(c)
           w == [r EXCEPT !.transferee = newOwner]
<1>1. /\ r.status # 0 /\ Store(c, w)
      /\ UNCHANGED <<attest, count, tokens, claimCount, econo, value, block, attests>>
  BY DEF TransferRights
<1>2. /\ r \in ClaimType /\ r.status \in 0..5
      /\ r.supply = IF r.status >= Issued THEN r.ounces ELSE 0
  BY LoadType, StatusOfLoad DEF Inv, TokensBacked
<1>3. r.status >= Reserved => /\ r.tier \in {Inferred, Indicated, Measured}
                              /\ Cardinality(Attesters(c)) >= Required(r.tier)
  BY DEF Inv, TierQuorum
<1>4. /\ w \in ClaimType /\ w.status = r.status /\ w.tier = r.tier /\ w.deed = r.deed
      /\ w.owner = r.owner /\ w.supply = r.supply /\ w.ounces = r.ounces
  <2> HIDE DEF r
  <2> QED BY <1>2 DEF ClaimType
<1> HIDE DEF w, r
<1>5. Load(c) = r
  BY DEF r
<1>6. /\ tokens' \in [Claims -> [Names -> Nat]]
      /\ \A d \in Claims, m \in Names :
             tokens'[d][m] = IF d = c /\ m = w.owner THEN w.supply ELSE tokens[d][m]
  BY <1>1, <1>4, <1>5, TokensKept
<1>7. value' \in [Claims -> Nat]
  BY <1>1 DEF Inv, TypeOK
<1> QED BY <1>1, <1>2, <1>3, <1>4, <1>5, <1>6, <1>7, LaterStep

(* Every step keeps the invariant, and every claim's place in its life. *)
LEMMA NextInv == Inv /\ [Next]_vars => Inv' /\ \A c \in Claims : Kept(c)
<1> SUFFICES ASSUME Inv, [Next]_vars PROVE Inv' /\ \A c \in Claims : Kept(c)
  OBVIOUS
<1>1. CASE UNCHANGED vars
  <2>1. \A c \in Claims : Load(c)' = Load(c) /\ Attesters(c)' = Attesters(c)
    BY <1>1 DEF vars, Load, Attesters
  <2>2. TypeOK' /\ BlockInv' /\ CountInv' /\ BadgeInv'
    BY <1>1, <2>1 DEF vars, Inv, TypeOK, BlockInv, CountInv, BadgeInv, Badged
  <2>3. TwoAttested' /\ TierQuorum'
    BY <1>1, <2>1 DEF vars, Inv, TwoAttested, TierQuorum, Required, Badged
  <2>4. TokensBacked'
    BY <1>1, <2>1 DEF vars, Inv, TokensBacked
  <2>5. \A c \in Claims : Kept(c)
    BY <2>1 DEF Kept
  <2> QED BY <2>2, <2>3, <2>4, <2>5 DEF Inv
<1>2. CASE NextBlock
  <2>1. \A c \in Claims : Load(c)' = Load(c) /\ Attesters(c)' = Attesters(c)
    BY <1>2 DEF NextBlock, Load, Attesters
  <2>2. TypeOK' /\ BlockInv' /\ CountInv' /\ BadgeInv'
    BY <1>2, <2>1 DEF NextBlock, Inv, TypeOK, BlockInv, CountInv, BadgeInv, Badged
  <2>3. TwoAttested' /\ TierQuorum'
    BY <1>2, <2>1 DEF NextBlock, Inv, TwoAttested, TierQuorum, Required, Badged
  <2>4. TokensBacked'
    BY <1>2, <2>1 DEF NextBlock, Inv, TokensBacked
  <2>5. \A c \in Claims : Kept(c)
    BY <2>1 DEF Kept
  <2> QED BY <2>2, <2>3, <2>4, <2>5 DEF Inv
<1> QED BY <1>1, <1>2, RegisterStep, VerifyStep, ApproveStep, IssueStep, CheckStep, TransferStep
        DEF Next, View

-----------------------------------------------------------------------------
(* Theorems *)

(* Every word of the registry stays in the range of its slot, whatever is  *)
(* called.                                                                 *)
THEOREM MineralTypeCorrect == Spec => []TypeOK
<1>1. Inv => TypeOK
  BY DEF Inv
<1> QED BY <1>1, InitInv, NextInv, PTL DEF Spec

(* No claim is Verified on fewer than two attestations, by accounts with a *)
(* badge and one of them approving, whatever words callers have written    *)
(* for mrtGetVerifierRoles to find.                                        *)
THEOREM TwoAttestedCorrect == Spec => []TwoAttested
<1>1. Inv => TwoAttested
  BY DEF Inv
<1> QED BY <1>1, InitInv, NextInv, PTL DEF Spec

(* A reserve rests on as many different verifiers as its tier requires,    *)
(* for any width of the count that mrtApproveReserve compares.             *)
THEOREM QuorumCorrect == Spec => []TierQuorum
<1>1. Inv => TierQuorum
  BY DEF Inv
<1> QED BY <1>1, InitInv, NextInv, PTL DEF Spec

(* The tokens in existence are the approved ounces of the issued claims,   *)
(* however often mrtIssueTokens is called.                                 *)
THEOREM TokensCorrect == Spec => []TokensBacked
<1>1. Inv => TokensBacked
  BY DEF Inv
<1> QED BY <1>1, InitInv, NextInv, PTL DEF Spec

(* Claims only move forward, one state at a time, and keep their reserve.  *)
THEOREM LifeCycleCorrect == Spec => LifeCycle
<1>1. Inv /\ [Next]_vars => [\A c \in Claims : Kept(c)]_vars
  BY NextInv
<1>2. (\A c \in Claims : Kept(c)) <=>
      \A c \in Claims :
        LET old == Load(c)
            new == Load(c)'
        IN /\ new.status \in {old.status, old.status + 1}
           /\ old.status >= Reserved => /\ new.ounces = old.ounces
                                        /\ new.tier = old.tier
  BY DEF Kept
<1> QED BY <1>1, <1>2, InitInv, NextInv, PTL DEF Spec, LifeCycle
=============================================================================
