------------------------------ MODULE MCStore ------------------------------
(* Instances of Store for TLC. *)
EXTENDS Store

CONSTANTS c1, c2, e1, e2, small, other, big

\* Two clients agree, differ in a small event, or differ in the form of e2.
SomeViews ==
  {[e \in Event |-> IF e = e1 THEN small ELSE big],
   [e \in Event |-> IF e = e1 THEN other ELSE big],
   [e \in Event |-> small]}

\* Nothing; a manifest of other events; a manifest and a chunk cut short.
SomeLeftovers ==
  {[p \in {} |-> None],
   [p \in {Manifest} |-> [e \in Event |-> small]],
   [p \in {Manifest, <<"chunk", e2, 1>>} |-> Residue]}

OneBatch == {{e1, e2}}
=============================================================================
