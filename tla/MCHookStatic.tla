--------------------------- MODULE MCHookStatic ---------------------------
(***************************************************************************)
(* Three threads and two cells are interchangeable.                        *)
(***************************************************************************)
EXTENDS HookStatic, TLC

Symmetric == Permutations(Thread) \cup Permutations(Cell)
===========================================================================
