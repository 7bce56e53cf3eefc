---------------------------- MODULE DurableQueue ----------------------------
(***************************************************************************)
(* What the durable spool promises of a published record, whoever consumes *)
(* it: it is handled while it is still there (at least once), and it is    *)
(* removed only because it was handled, because a newer snapshot of its    *)
(* session is there, or because the retention budget or a capture policy   *)
(* says so.  HookQueue implements it.                                      *)
(***************************************************************************)
EXTENDS Naturals, Sequences, FiniteSets

CONSTANTS
  Key,         \* coalescing keys of records
  Hook,        \* the key of a record that never coalesces
  Policies,    \* capture policies: sets of keys a policy excludes
  Heavy,       \* keys whose records take two bytes, the others take one
  MaxBytes     \* retention budget

VARIABLES
  keys,        \* keys[i]: the key of record i, in the order they were accepted
  kept,        \* records that are published
  handled,     \* records whose handler has taken effect
  cutoff       \* records up to this one have outlived the retention age

vars == <<keys, kept, handled, cutoff>>

Init ==
  /\ keys = <<>>
  /\ kept = {}
  /\ handled = {}
  /\ cutoff = 0

Accept(k) ==
  /\ keys' = Append(keys, k)
  /\ UNCHANGED <<kept, handled, cutoff>>

Publish(i) ==
  /\ kept' = kept \union {i}
  /\ UNCHANGED <<keys, handled, cutoff>>

Handle(i) ==
  /\ i \in kept
  /\ handled' = handled \union {i}
  /\ UNCHANGED <<keys, kept, cutoff>>

Size(R) == Cardinality(R) + Cardinality({i \in R : keys[i] \in Heavy})

Superseded(i) ==
  \E j \in kept :
    /\ i < j
    /\ keys[i] = keys[j]
    /\ keys[i] # Hook

Expired(i)    == i <= cutoff
OverBudget    == Size(kept) > MaxBytes
Excluded(i)   == \E policy \in Policies : keys[i] \in policy

Remove(i) ==
  /\ i \in kept
  /\ i \in handled \/ Superseded(i) \/ Expired(i) \/ OverBudget \/ Excluded(i)
  /\ kept' = kept \ {i}
  /\ UNCHANGED <<keys, handled, cutoff>>

Age ==
  /\ cutoff' = cutoff + 1
  /\ UNCHANGED <<keys, kept, handled>>

Next ==
  \/ \E i \in 1..Len(keys) : Publish(i) \/ Handle(i) \/ Remove(i)
  \/ Age
  \/ \E k \in Key : Accept(k)

Spec == Init /\ [][Next]_vars

=============================================================================
