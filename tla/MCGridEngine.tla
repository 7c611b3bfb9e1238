---------------------------- MODULE MCGridEngine ----------------------------
(***************************************************************************)
(* GridEngine for TLC.  Coroutines are interchangeable.                    *)
(***************************************************************************)
EXTENDS GridEngine, TLC

Symmetric == Permutations(Tasks)

=============================================================================
