----------------------------- MODULE MCSwapRoute -----------------------------
(* SwapRoute for TLC, with the lock's instance of MCTrustlessLock: the word is  *)
(* 2^16, far above every height and every thousandfold of a height.             *)
EXTENDS SwapRoute

Word16 == 65536

\* A schedule with the cliff inside the vesting time.
MCSchedules == {[start |-> 0, end |-> 3, cliff |-> 2]}

\* One block more, and an addition that wraps.
MCAdditions == {1, Word16 - 1}

\* The same liquidity in two ways.
MCDeposits == {<<1, 2>>, <<3, 0>>}
==============================================================================
