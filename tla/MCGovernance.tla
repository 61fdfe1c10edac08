----------------------------- MODULE MCGovernance -----------------------------
(* Governance for TLC: the bounds are constants of the cfg files, callers,   *)
(* titles and descriptions are model values.                                 *)
EXTENDS Governance, TLC

\* Callers are told apart only by equality.
CallerSymmetry == Permutations(Callers)
===============================================================================
