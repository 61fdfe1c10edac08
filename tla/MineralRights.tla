--------------------------- MODULE MineralRights ---------------------------
(***************************************************************************)
(* The mineral rights registry precompile (0x20): a claim is registered    *)
(* for a deed, attested by professionals, given a reserve, turned into     *)
(* tokens, monitored, and its rights handed on. Every action is one call,  *)
(* made by any account in any order; a call that returns an error changes  *)
(* nothing.                                                                *)
(*                                                                         *)
(* Abstractions: the SHA-256 claim id is the triple it hashes. Which words *)
(* have the form of an attestation of which claim is a constant relation.  *)
(* The GPS hash, the constant spot price and the logs are read by nothing  *)
(* and left out. Badge levels are constants.                               *)
(***************************************************************************)
EXTENDS Naturals, FiniteSets

CONSTANTS
    Accounts,    \* the callers, by their state key
    Level,       \* acc.DoxDevLevel
    Names,       \* the names that fit a 32-byte word
    Trunc,       \* the first 32 bytes of an account's key
    Deeds,       \* deed hashes, as calldata gives them
    ReadsAs,     \* <<word, claim, role>>: the bytes of a record of that claim and role
    Roles,       \* the role bytes that calldata names
    Tiers,       \* the tier bytes that calldata names
    RawOunces,   \* the 256-bit reserves that calldata names
    CheckBlocks, \* the block numbers that an inspector reports
    Uint8,       \* 2^8, the width of the count of verifiers
    Uint64,      \* 2^64, the width of the ounces
    Rate,        \* the issuance rate of each tier, in tenths
    PayWeight,   \* EconoMRTPayWeight
    Window,      \* EconoWindowBlocks
    MaxBlock,    \* bound on the block number
    MaxClaims,   \* bound on the number of registrations
    MaxAttests   \* bound on the number of attestations

NoDeed == "zero"
NoName == "none"
Lawyer == 1
Surveyor == 2
Pending == 1
Verified == 2
Reserved == 3
Issued == 4
Active == 5
Inferred == 1
Indicated == 2
Measured == 3

Claims == Accounts \X (Deeds \cup {NoDeed}) \X (1..MaxBlock)
NoClaim == [deed |-> NoDeed, owner |-> NoName, transferee |-> NoName, status |-> 0, tier |-> 0,
            count |-> 0, ounces |-> 0, supply |-> 0, verified |-> 0, issued |-> 0, env |-> 0]
NoAttest == [role |-> 0, approved |-> 2]

ASSUME MineralAssumption ==
    /\ IsFiniteSet(Accounts) /\ Level \in [Accounts -> Nat]
    /\ Trunc \in [Accounts -> Names] /\ NoName \notin Names /\ NoDeed \notin Deeds
    /\ Roles \subseteq Nat /\ Tiers \subseteq Nat /\ RawOunces \subseteq Nat
    /\ CheckBlocks \subseteq Nat /\ Uint8 \in Nat \ {0} /\ Uint64 \in Nat \ {0}
    /\ Rate \in [{Inferred, Indicated, Measured} -> Nat]
    /\ PayWeight \in Nat /\ Window \in Nat /\ MaxBlock \in Nat \ {0}
    /\ MaxClaims \in Nat /\ MaxAttests \in Nat

VARIABLES
    claim,      \* slots 0x01 to 0x0A of each claim
    attest,     \* slot 0x0B: the record of each verifier of a claim
    count,      \* slot 0x0D: the verifiers of a claim
    tokens,     \* slot 0x0C: the balances of a claim's tokens
    claimCount, \* mrtSlotClaimCount
    econo,      \* the mineral part of econoSnap
    value,      \* history: the issuance value that issueTokens answered
    block,      \* the number of the block that executes
    attests     \* how many attestations were made

vars == <<claim, attest, count, tokens, claimCount, econo, value, block, attests>>

Init ==
    /\ claim = [c \in Claims |-> NoClaim]
    /\ attest = [c \in Claims |-> [a \in Accounts |-> NoAttest]]
    /\ count = [c \in Claims |-> 0]
    /\ tokens = [c \in Claims |-> [n \in Names |-> 0]]
    /\ claimCount = 0 /\ attests = 0 /\ block = 1
    /\ econo = [start |-> 0, claims |-> 0, paid |-> 0]
    /\ value = [c \in Claims |-> 0]

-----------------------------------------------------------------------------
(* Helpers *)

Badged(a) == Level[a] >= 2

(* mrtGetClaimStorage: a claim whose deed word is zero reads as none. *)
Load(c) == IF claim[c].deed = NoDeed THEN NoClaim ELSE claim[c]

(* mrtSetClaimStorage: an empty transferee leaves the slot as it was. *)
Store(c, r) ==
    claim' = [claim EXCEPT ![c] =
        [r EXCEPT !.transferee = IF r.transferee = NoName THEN claim[c].transferee ELSE @]]

(* The verifiers of a claim that have a record. *)
Attesters(c) == {a \in Accounts : attest[c][a] # NoAttest}

(* mrtGetVerifierRoles scans every word of the account for the bytes of a  *)
(* record: attestations, whether or not they approve, and the deed, owner  *)
(* and transferee words that callers have chosen, of any claim.            *)
HasRole(c, r) ==
    \/ \E a \in Accounts : attest'[c][a] # NoAttest /\ attest'[c][a].role = r
    \/ \E d \in Claims, w \in {"deed", "owner", "transferee"} : <<claim[d][w], c, r>> \in ReadsAs

(* Mutant: one verifier is enough. *)
OneVerifier(c) == count'[c] >= 1

TwoVerifiers(c) == count'[c] >= 2

OwnershipRoles(c) == HasRole(c, Lawyer) /\ HasRole(c, Surveyor)

(* The verifiers that a tier requires. *)
Required(tier) == IF tier = Inferred THEN 2 ELSE 3

(* Mutant: every tier is content with two. *)
TwoForAnyTier(tier, n) == tier \in {Inferred, Indicated, Measured} /\ n >= 2

TierVerified(tier, n) == tier \in {Inferred, Indicated, Measured} /\ n >= Required(tier)

(* EconoAccrueMRT, with the window that it may reset. *)
Accrue(supply) ==
    LET e == IF block - econo.start >= Window
             THEN [start |-> block, claims |-> 0, paid |-> 0] ELSE econo
    IN econo' = [e EXCEPT !.paid = @ + supply * PayWeight, !.claims = @ + 1]

-----------------------------------------------------------------------------
(* Operations *)

(* The id names the caller, the deed and the block: it is taken only by a  *)
(* claim of the same caller, deed and block, and only for a deed that is   *)
(* not the zero word.                                                      *)
RegisterClaim(a, deed, owner) ==
    LET c == <<a, deed, block>>
    IN /\ claimCount < MaxClaims
       /\ Badged(a) /\ claim[c].deed = NoDeed
       /\ Store(c, [NoClaim EXCEPT !.deed = deed, !.status = Pending,
                                   !.owner = IF owner = NoName THEN Trunc[a] ELSE owner])
       /\ claimCount' = claimCount + 1
       /\ UNCHANGED <<attest, count, tokens, econo, value, block, attests>>

NotYetAttested(c, a) == attest[c][a] = NoAttest

(* The claim advances in the call that completes the attestations.         *)
VerifyClaim(a, c, role, approved) ==
    LET r == Load(c)
        advance == r.status = Pending /\ approved = 1 /\ TwoVerifiers(c) /\ OwnershipRoles(c)
    IN /\ attests < MaxAttests /\ attests' = attests + 1
       /\ Badged(a) /\ r.status # 0 /\ NotYetAttested(c, a)
       /\ attest' = [attest EXCEPT ![c][a] = [role |-> role, approved |-> approved]]
       /\ count' = [count EXCEPT ![c] = (@ + 1) % Uint8]
       /\ IF advance THEN Store(c, [r EXCEPT !.status = Verified]) ELSE UNCHANGED claim
       /\ IF approved = 1 /\ (advance \/ r.status = Verified)
          THEN Accrue(r.supply) ELSE UNCHANGED econo
       /\ UNCHANGED <<tokens, claimCount, value, block>>

ReadyForReserve(r) == r.status = Verified

(* big.Int.Uint64 keeps the low 64 bits. *)
Ounces(raw) == raw % Uint64

ApproveReserve(a, c, tier, raw) ==
    LET r == Load(c)
    IN /\ Badged(a) /\ ReadyForReserve(r) /\ TierVerified(tier, count[c])
       /\ Store(c, [r EXCEPT !.status = Reserved, !.ounces = Ounces(raw), !.tier = tier,
                             !.verified = block, !.count = count[c]])
       /\ UNCHANGED <<attest, count, tokens, claimCount, econo, value, block, attests>>

(* Mutant: a claim that has its tokens is issued them again. *)
IssuableAgain(r) == r.status \in {Reserved, Issued}

Issuable(r) == r.status = Reserved

(* The tokens go to the registered owner, whoever holds the rights. The    *)
(* value answered is computed in 64 bits.                                  *)
IssueTokens(c) ==
    LET r == Load(c)
    IN /\ Issuable(r)
       /\ Store(c, [r EXCEPT !.status = Issued, !.supply = r.ounces, !.issued = block])
       /\ tokens' = [tokens EXCEPT ![c][r.owner] = @ + r.ounces]
       /\ value' = [value EXCEPT ![c] = ((r.ounces * Rate[r.tier]) % Uint64) \div 10]
       /\ UNCHANGED <<attest, count, claimCount, econo, block, attests>>

EnvironmentalCheck(a, c, checked) ==
    LET r == Load(c)
    IN /\ Badged(a) /\ r.status >= Issued
       /\ Store(c, [r EXCEPT !.status = Active, !.env = checked])
       /\ UNCHANGED <<attest, count, tokens, claimCount, econo, value, block, attests>>

(* The holder as transferRights computes it. *)
Holder(r) == IF r.transferee # NoName THEN r.transferee ELSE r.owner

TransferRights(a, c, newOwner) ==
    LET r == Load(c)
    IN /\ r.status # 0 /\ a = Holder(r)
       /\ Store(c, [r EXCEPT !.transferee = newOwner])
       /\ UNCHANGED <<attest, count, tokens, claimCount, econo, value, block, attests>>

(* getClaim, getTokens, and every call that returns an error. *)
View == UNCHANGED vars

NextBlock ==
    /\ block < MaxBlock
    /\ block' = block + 1
    /\ UNCHANGED <<claim, attest, count, tokens, claimCount, econo, value, attests>>

Next ==
    \/ \E a \in Accounts, deed \in Deeds \cup {NoDeed}, owner \in Names \cup {NoName} :
           RegisterClaim(a, deed, owner)
    \/ \E a \in Accounts, c \in Claims, role \in Roles, approved \in {0, 1} :
           VerifyClaim(a, c, role, approved)
    \/ \E a \in Accounts, c \in Claims, tier \in Tiers, raw \in RawOunces :
           ApproveReserve(a, c, tier, raw)
    \/ \E c \in Claims : IssueTokens(c)
    \/ \E a \in Accounts, c \in Claims, n \in CheckBlocks : EnvironmentalCheck(a, c, n)
    \/ \E a \in Accounts, c \in Claims, newOwner \in Names \cup {NoName} :
           TransferRights(a, c, newOwner)
    \/ View
    \/ NextBlock

Spec == Init /\ [][Next]_vars

-----------------------------------------------------------------------------
(* Properties *)

ClaimType ==
    [deed : Deeds \cup {NoDeed}, owner : Names \cup {NoName}, transferee : Names \cup {NoName},
     status : 0..Active, tier : 0..Measured, count : 0..(Uint8 - 1), ounces : 0..(Uint64 - 1),
     supply : 0..(Uint64 - 1), verified : Nat, issued : Nat, env : Nat]

(* The types of the variables: every word of the registry is in the range  *)
(* that its slot can hold.                                                 *)
TypeOK ==
    /\ claim \in [Claims -> ClaimType]
    /\ attest \in [Claims -> [Accounts -> [role : Nat, approved : 0..2]]]
    /\ count \in [Claims -> 0..(Uint8 - 1)]
    /\ tokens \in [Claims -> [Names -> Nat]]
    /\ claimCount \in Nat /\ block \in Nat /\ attests \in Nat
    /\ econo \in [start : Nat, claims : Nat, paid : Nat]
    /\ value \in [Claims -> Nat]

(* No claim passes for owned on the word of one account: two different     *)
(* accounts with a badge have attested it and one of them approves,        *)
(* although the roles are read from words that a caller may have written   *)
(* himself (mrtVerifyClaim, and every later step that builds on it).       *)
TwoAttested ==
    \A c \in Claims : Load(c).status >= Verified =>
        /\ Cardinality(Attesters(c)) >= 2
        /\ \A a \in Attesters(c) : Badged(a)
        /\ \E a \in Attesters(c) : attest[c][a].approved = 1

(* A claim with a reserve was attested by as many different accounts as    *)
(* its tier requires, although mrtApproveReserve sees only a count of one  *)
(* byte that other calls raise.                                            *)
TierQuorum ==
    \A c \in Claims : Load(c).status >= Reserved =>
        /\ Load(c).tier \in {Inferred, Indicated, Measured}
        /\ Cardinality(Attesters(c)) >= Required(Load(c).tier)

(* The tokens of a claim are its approved ounces, held by its owner: none  *)
(* before issueTokens, and no more however often it is called.             *)
TokensBacked ==
    \A c \in Claims :
        LET r == Load(c)
            minted == IF r.status >= Issued THEN r.ounces ELSE 0
        IN /\ r.supply = minted
           /\ \A n \in Names : tokens[c][n] = IF n = r.owner THEN minted ELSE 0

(* A claim goes through its states in their order, one at a time and never *)
(* back, and what was approved stays: the reserve and the tier of a claim  *)
(* never change once it is Reserved.                                       *)
LifeCycle ==
    [][\A c \in Claims :
        LET old == Load(c)
            new == Load(c)'
        IN /\ new.status \in {old.status, old.status + 1}
           /\ old.status >= Reserved => /\ new.ounces = old.ounces
                                        /\ new.tier = old.tier]_vars

-----------------------------------------------------------------------------
(* What comments and documents say that the code does not do *)

(* mineral_rights_test.go: a second registration of the same deed hash     *)
(* should fail.                                                            *)
DeedOnce ==
    \A c, d \in Claims :
        Load(c).status # 0 /\ Load(d).status # 0 /\ c # d => claim[c].deed # claim[d].deed

(* mineral_rights.go: "Need at least lawyer + surveyor for ownership       *)
(* verification": two accounts that attested in these roles.               *)
OwnershipAttested ==
    \A c \in Claims : Load(c).status >= Verified =>
        \E l, s \in Attesters(c) : attest[c][l].role = Lawyer /\ attest[c][s].role = Surveyor

(* Ownership needs a lawyer and a surveyor who attest it, not one who      *)
(* rejects it.                                                             *)
OwnershipApproved ==
    \A c \in Claims : Load(c).status >= Verified =>
        \E l, s \in Attesters(c) :
            /\ attest[c][l] = [role |-> Lawyer, approved |-> 1]
            /\ attest[c][s] = [role |-> Surveyor, approved |-> 1]

(* Issuance value = tokens * issuanceRate / 1000000. *)
ValueExact ==
    \A c \in Claims : LET r == Load(c) IN
        r.status >= Issued => value[c] = (r.supply * Rate[r.tier]) \div 10

(* A verified claim is accorded a heavy weight in the health model. *)
VerifiedWeighs == econo.claims > 0 => econo.paid > 0

(* EnvCheckBlock is the last environmental monitoring block. *)
CheckedInPast == \A c \in Claims : Load(c).env <= block
=============================================================================
