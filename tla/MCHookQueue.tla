---------------------------- MODULE MCHookQueue ----------------------------
(* Instances of HookQueue for TLC. *)
EXTENDS HookQueue, TLC

Symmetry == Permutations(Proc)

=============================================================================
