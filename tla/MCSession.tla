----------------------------- MODULE MCSession -----------------------------
(* Instances of Session for TLC. *)
EXTENDS Session

\* Users and tool results of one part, assistants of two.
Messages == {[kind |-> "user", parts |-> 1], [kind |-> "assistant", parts |-> 2],
             [kind |-> "toolResult", parts |-> 1]}

=============================================================================
