--------------------------- MODULE MCCheckpoints ---------------------------
(* Instances of Checkpoints for TLC. *)
EXTENDS Checkpoints

CONSTANTS a, b

\* A branch that grows by an archive, and a switch back before it.
Growing == {<<>>, <<a>>, <<a, b>>}

OneBranch == {<<>>, <<a>>}

=============================================================================
