-------------------------- MODULE MCSessionMirror --------------------------
(* Instances of SessionMirror for TLC. *)
EXTENDS SessionMirror, TLC

ProcSymmetry == Permutations(Proc)

=============================================================================
