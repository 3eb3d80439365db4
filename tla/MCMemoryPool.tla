---------------------------- MODULE MCMemoryPool ----------------------------
(***************************************************************************)
(* CRCMemoryPool for TLC.  Neither the threads nor the blocks of malloc()  *)
(* are told apart, and every property is a safety property.                *)
(***************************************************************************)
EXTENDS CRCMemoryPool, TLC

Symmetry == Permutations(Thread) \cup Permutations(SystemBlock)
=============================================================================
