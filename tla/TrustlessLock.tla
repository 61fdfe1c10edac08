---------------------------- MODULE TrustlessLock ----------------------------
(***************************************************************************)
(* The trustless lock precompile 0x1A (consensus/evm/trustless_lock.go):   *)
(* time, vesting and multi-signature locks, their release and extension.   *)
(*                                                                         *)
(* A lock is one 32 byte header: a type byte, a 64 bit block number and    *)
(* bytes of the pool, recipient and block it was made in.  Type 0 is the   *)
(* time lock, the mark of a released lock and the type byte of an empty    *)
(* slot at once.  No operation looks at who calls it, and no operation     *)
(* moves tokens: what a release returns is all there is to observe.        *)
(*                                                                         *)
(* released, earliest, latest and extensions are history variables: how    *)
(* often a lock was released, the first block at which one of its          *)
(* creations lets it go, the last block its creations and extensions hold  *)
(* it until, and the extensions so far.  Block numbers are computed in 64  *)
(* bits out of 256 bit inputs that nothing bounds: a creation or extension *)
(* whose sum does not fit lets the lock go at any block, 0.                *)
(***************************************************************************)
EXTENDS Integers, FiniteSets, TLC

CONSTANTS
    Terms,          \* pool, tokens and amount of a lock
    Periods,        \* lock periods of time locks, 256 bit numbers
    Schedules,      \* [start, end, cliff] of vesting locks
    Thresholds,     \* thresholds of multi-signature locks
    Additions,      \* blocks an extension adds, 256 bit numbers
    MinLockPeriod,  \* the minimum of a lock period
    Word,           \* 2^64: block numbers are computed modulo Word
    MaxHeight,      \* bound on the block height
    MaxLocks,       \* bound on the locks created
    MaxReleases,    \* bound on the releases of one lock
    MaxExtensions   \* bound on the extensions

ASSUME LockAssumptions ==
    /\ MinLockPeriod \in Nat /\ MaxHeight \in Nat /\ MaxLocks \in Nat
    /\ MaxReleases \in Nat /\ MaxExtensions \in Nat
    /\ Word \in Nat /\ MaxHeight < Word
    /\ Periods \subseteq Nat /\ Thresholds \subseteq Nat /\ Additions \subseteq Nat
    /\ Schedules \subseteq [start: Nat, end: Nat, cliff: Nat]

VARIABLES height, lock, vesting, count, released, earliest, latest, extensions

history == <<released, earliest, latest, extensions>>
lockVars == <<height, lock, vesting, count, history>>

\* generateLockID hashes the terms and the block number, not the caller, the
\* kind, the period or the recipient.  It joins the bytes of the amount and the
\* digits of the block without a mark between them; that two different pairs
\* give the same bytes is left out.
LockID(t) == [terms |-> t, block |-> height]
Ids == [terms : Terms, block : 0 .. MaxHeight]

\* The empty slot, and the header encodeLockHeader makes; made stands for the
\* bytes of the pool, the recipient and the block.
EmptyHeader == [type |-> "time", block |-> 0, made |-> 0]
Header(type, block) == [type |-> type, block |-> block, made |-> 1]

Uint64(n) == n % Word
Never == 2 * Word
Lesser(a, b) == IF a < b THEN a ELSE b
Greater(a, b) == IF a > b THEN a ELSE b

LockInit ==
    /\ height = 0
    /\ lock = [id \in Ids |-> EmptyHeader]
    /\ vesting = [id \in Ids |-> [end |-> 0, cliff |-> 0]]
    /\ count = 0
    /\ released = [id \in Ids |-> 0]
    /\ earliest = [id \in Ids |-> Never]
    /\ latest = [id \in Ids |-> 0]
    /\ extensions = 0

\* Block 0 for a sum of block numbers that does not fit.
Fitting(sum, first) == IF sum < Word THEN first ELSE 0

\* What a creation promises: the lock is held until `first' at least.
Promise(id, first, last) ==
    /\ earliest' = [earliest EXCEPT ![id] = Lesser(@, first)]
    /\ latest' = [latest EXCEPT ![id] = Greater(@, last)]
    /\ UNCHANGED <<released, extensions>>

\* Mutant: the check of the period is left out.
LongEnoughAny(period) == TRUE

LongEnough(period) == period >= MinLockPeriod

\* trustlessCreateTimeLock: the period is compared as a 256 bit number and
\* added as a 64 bit number.
CreateTimeLock(t, period) ==
    LET id == LockID(t)
        until == height + Greater(MinLockPeriod, period)
    IN
    /\ LongEnough(period)
    /\ lock' = [lock EXCEPT ![id] = Header("time", Uint64(height + Uint64(period)))]
    /\ count' = count + 1
    /\ Promise(id, Fitting(height + period, until), until)
    /\ UNCHANGED <<height, vesting>>

\* trustlessCreateVestingLock: the end is checked against the start, the cliff
\* against neither, so that the lock opens at whichever of cliff and end is first.
CreateVestingLock(t, s) ==
    LET id == LockID(t) IN
    /\ s.end > s.start
    /\ lock' = [lock EXCEPT ![id] = Header("vesting", s.start)]
    /\ vesting' = [vesting EXCEPT ![id] = [end |-> s.end, cliff |-> s.cliff]]
    /\ count' = count + 1
    /\ Promise(id, Lesser(s.cliff, s.end), s.end)
    /\ UNCHANGED height

\* trustlessCreateMultiSigLock: the threshold takes the place of the block.
CreateMultiSigLock(t, threshold) ==
    LET id == LockID(t) IN
    /\ threshold > 0
    /\ lock' = [lock EXCEPT ![id] = Header("multisig", threshold)]
    /\ count' = count + 1
    /\ Promise(id, Never, Never)
    /\ UNCHANGED <<height, vesting>>

\* int64 of a wrapped quotient, of which FillBytes takes the magnitude.
Magnitude(q) == IF q >= Word \div 2 THEN Word - q ELSE q

\* Thousandths of the vesting period that have passed, in 64 bit arithmetic.
VestedShare(id) ==
    Magnitude(Uint64(Uint64(height - lock[id].block) * 1000)
                 \div (vesting[id].end - lock[id].block))

\* Mutant: the lock opens one block later.
ReachedLate(block) == height > block

Reached(block) == height >= block

\* trustlessReleasableAmount: 1 stands for everything, and multi-signature
\* locks have no way to be released.
ReleasableAmount(id) ==
    CASE lock[id] = EmptyHeader -> 0
      [] lock[id] # EmptyHeader /\ lock[id].type = "time" ->
            IF Reached(lock[id].block) THEN 1 ELSE 0
      [] lock[id].type = "vesting" ->
            IF Reached(vesting[id].end) THEN 1
            ELSE IF Reached(vesting[id].cliff) THEN VestedShare(id) ELSE 0
      [] lock[id].type = "multisig" -> 0

\* trustlessRelease: the lock is marked by setting its type byte to 0.
Release(id) ==
    /\ ReleasableAmount(id) > 0
    /\ lock' = [lock EXCEPT ![id].type = "time"]
    /\ released' = [released EXCEPT ![id] = @ + 1]
    /\ UNCHANGED <<height, vesting, count, earliest, latest, extensions>>

\* Any time lock, a released lock and an empty slot can be extended.
Extendable(id) == lock[id].type = "time"

\* trustlessExtend
Extend(id, n) ==
    /\ n > 0 /\ Extendable(id)
    /\ lock' = [lock EXCEPT ![id].block = Uint64(@ + Uint64(n))]
    /\ earliest' = [earliest EXCEPT ![id] = Fitting(lock[id].block + n, @)]
    /\ latest' = [latest EXCEPT ![id] = Greater(@, lock[id].block) + n]
    /\ extensions' = extensions + 1
    /\ UNCHANGED <<height, vesting, count, released>>

NextBlock ==
    /\ height < MaxHeight
    /\ height' = height + 1
    /\ UNCHANGED <<lock, vesting, count, history>>

Create ==
    /\ count < MaxLocks
    /\ \E t \in Terms :
          \/ \E p \in Periods : CreateTimeLock(t, p)
          \/ \E s \in Schedules : CreateVestingLock(t, s)
          \/ \E k \in Thresholds : CreateMultiSigLock(t, k)

Withdraw == \E id \in Ids : released[id] < MaxReleases /\ Release(id)

Prolong ==
    /\ extensions < MaxExtensions
    /\ \E id \in Ids, n \in Additions : Extend(id, n)

LockNext == NextBlock \/ Create \/ Withdraw \/ Prolong

\* Blocks keep being produced.
LockSpec == LockInit /\ [][LockNext]_lockVars /\ WF_lockVars(NextBlock)

------------------------------------------------------------------------------
(* Properties *)

\* The step releases the lock, which some call has created.
Releases(id) == released'[id] > released[id] /\ lock[id].made = 1

\* trustlessRelease: no lock is released before the earliest block any of its
\* creations allows, whichever kind overwrites which in the block of creation,
\* and whatever releases and extensions do to it in between.  Only a period or an
\* extension that does not fit into 64 bits opens a lock before.
NotBeforeEarliest == [][\A id \in Ids : Releases(id) => height >= earliest[id]]_lockVars

\* trustlessReleasableAmount: a time or vesting lock is releasable, at the latest,
\* in the last block it was created for or extended to.
UnlocksInTime ==
    \A id \in Ids :
        (lock[id].made = 1 /\ latest[id] <= MaxHeight)
            ~> (ReleasableAmount(id) > 0 \/ latest[id] > MaxHeight)

------------------------------------------------------------------------------
(* What the documents say and the code does not do *)

\* No lock is released before the last block it was promised to be held until.
PromiseKept == [][\A id \in Ids : Releases(id) => height >= latest[id]]_lockVars

\* A vesting lock releases nothing before its vesting starts.
NotBeforeStart ==
    [][\A id \in Ids : Releases(id) /\ lock[id].type = "vesting"
          => height >= lock[id].block]_lockVars

\* The minimum lock period is enforced.
MinPeriodKept ==
    [][\A id \in Ids : Releases(id) => height >= id.block + MinLockPeriod]_lockVars

\* An extension moves the block of a lock to a later one.
ExtendsLater ==
    [][\A id \in Ids : lock[id].made = 1 /\ latest'[id] # latest[id] /\ height > id.block
          => lock'[id].block > lock[id].block]_lockVars

\* A released lock is not released again.
ReleasedOnce == \A id \in Ids : released[id] <= 1

\* While a lock is left alone, what it can release never shrinks.
VestingGrows ==
    [][\A id \in Ids : lock'[id] = lock[id]
          => (ReleasableAmount(id))' >= ReleasableAmount(id)]_lockVars
==============================================================================
