---------------------------- MODULE MCTrustlessLock ----------------------------
(* TrustlessLock for TLC.  The word is 2^16: heights, and a thousand times a    *)
(* height, stay far below it, so that only inputs near it wrap.                 *)
EXTENDS TrustlessLock

Word16 == 65536

\* A schedule with the cliff inside, at the end of and behind the vesting time.
MCSchedules == {[start |-> 0, end |-> 3, cliff |-> 1], [start |-> 1, end |-> 2, cliff |-> 2],
                [start |-> 0, end |-> 1, cliff |-> 4]}
NoSchedules == {}

\* A cliff before the start.
EarlyCliff == {[start |-> 3, end |-> 4, cliff |-> 1]}

\* A period, and an addition, of 2^64 and of 2^64 - 1.
WrappingPeriods == {Word16}
WrappingAdditions == {Word16 - 1}
===============================================================================
