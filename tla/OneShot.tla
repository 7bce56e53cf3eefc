------------------------------ MODULE OneShot ------------------------------
(***************************************************************************)
(* What a guarded, non-idempotent request promises.  A key is claimed at   *)
(* most once and for ever; the request for a key is submitted at most once *)
(* and only by the holder of its claim; a key is acknowledged at most once *)
(* and an acknowledgement is never taken back.                             *)
(*                                                                         *)
(* SessionMirror implements this specification twice: for native message   *)
(* appends (a key is a source ID) and for native commits (a key is a       *)
(* watermark).                                                             *)
(***************************************************************************)
EXTENDS Naturals

CONSTANT Key

VARIABLES
  claimed,     \* keys whose create-only intent has been published
  submitted,   \* submitted[k]: how many requests were sent for key k
  acked        \* keys whose acknowledgement has been published

vars == <<claimed, submitted, acked>>

TypeOK ==
  /\ claimed \in SUBSET Key
  /\ submitted \in [Key -> Nat]
  /\ acked \in SUBSET Key

Init ==
  /\ claimed = {}
  /\ submitted = [k \in Key |-> 0]
  /\ acked = {}

Claim(k) ==
  /\ k \notin claimed
  /\ claimed' = claimed \union {k}
  /\ UNCHANGED <<submitted, acked>>

Submit(k) ==
  /\ k \in claimed
  /\ submitted[k] = 0
  /\ submitted' = [submitted EXCEPT ![k] = 1]
  /\ UNCHANGED <<claimed, acked>>

Acknowledge(k) ==
  /\ k \notin acked
  /\ acked' = acked \union {k}
  /\ UNCHANGED <<claimed, submitted>>

Next == \E k \in Key : Claim(k) \/ Submit(k) \/ Acknowledge(k)

Spec == Init /\ [][Next]_vars

=============================================================================
