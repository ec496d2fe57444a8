--------------------------- MODULE MCChainPublish ---------------------------
(***************************************************************************)
(* Two processes on one build host, with target directories and output     *)
(* roots to share or not, and enough builds that the third generation of a *)
(* root puts the first outside the retained two.                           *)
(***************************************************************************)
EXTENDS ChainPublish, TLC

CONSTANTS p1, p2, d1, d2, r1, r2

Interchangeable ==
  Permutations(Proc) \cup Permutations(TargetDir) \cup Permutations(Root)
=============================================================================
