------------------------------ MODULE History ------------------------------
(***************************************************************************)
(* The pure algorithms over the tree of a session: the projection of       *)
(* entries to events (shared/recorded-event.mjs), acknowledged leaves      *)
(* (shared/sync-ack.mjs), the plan of archives (shared/archive.mjs), and   *)
(* the selection and rendering of the active context                       *)
(* (shared/active-context.mjs, takeover.ts).                               *)
(*                                                                         *)
(* An entry is its position in the tree, 1 for the first; 0 is no entry.   *)
(* Its data is what the algorithms tell apart: the parent, the kind and    *)
(* the number of content parts.  An event is one part of one entry; its    *)
(* identity is entry and part, which is what recordedEventId hashes.       *)
(* Every part weighs one token.                                            *)
(***************************************************************************)
EXTENDS Naturals, Sequences, FiniteSets, SequencesExt

CONSTANTS
  ChunkBudget,    \* archive.chunkTokenBudget
  RawTailBudget   \* archive.rawTailTokenBudget

ASSUME HistoryAssumption ==
  /\ ChunkBudget \in Nat \ {0}
  /\ RawTailBudget \in Nat \ {0}

\* Array.prototype.filter: the elements of seq that are in kept, in order.
Filter(seq, kept) ==
  LET filtered[i \in 0..Len(seq)] ==
        IF i = 0 THEN <<>>
        ELSE IF seq[i] \in kept THEN Append(filtered[i - 1], seq[i]) ELSE filtered[i - 1]
  IN filtered[Len(seq)]

-----------------------------------------------------------------------------
(* The tree *)

Kind == {"user", "assistant", "toolResult", "note"}

\* "note" stands for every entry that gives no context message: custom data,
\* changes of the model.
GivesMessage(kind) == kind # "note"

\* branch[i]: the entries from the root to i.
Lineage(tree) ==
  LET branch[i \in 0..Len(tree)] ==
        IF i = 0 THEN <<>> ELSE Append(branch[tree[i].parent], i)
  IN branch

Branch(tree, leaf) == Lineage(tree)[leaf]

\* The ends of the branches.
Leaves(tree) == {i \in 1..Len(tree) : \A j \in 1..Len(tree) : tree[j].parent # i}

IsAncestorEntry(tree, ancestor, descendant) ==
  Contains(Branch(tree, descendant), ancestor)

-----------------------------------------------------------------------------
(* Acknowledged leaves: each stands for itself and its ancestors *)

IsEntryAcknowledged(tree, ack, entry) ==
  \E leaf \in ack : IsAncestorEntry(tree, entry, leaf)

AdvanceSyncAck_KeepsAncestors(tree, ack, entry) == ack \union {entry}
AdvanceSyncAck(tree, ack, entry) ==
  IF IsEntryAcknowledged(tree, ack, entry) THEN ack
  ELSE {leaf \in ack : ~ IsAncestorEntry(tree, leaf, entry)} \union {entry}

\* The part of a branch before its first entry that is not acknowledged.
AcknowledgedPrefix(tree, ack, branch) ==
  LET open == {i \in 1..Len(branch) : ~ IsEntryAcknowledged(tree, ack, branch[i])}
  IN IF open = {} THEN branch ELSE SubSeq(branch, 1, Min(open) - 1)

-----------------------------------------------------------------------------
(* Projection *)

\* The turn an entry belongs to is named by its user entry, the step by its
\* assistant entry; a user entry leaves the step of its ancestors.
Turn(tree) ==
  LET turn[i \in 0..Len(tree)] ==
        IF i = 0 THEN 0
        ELSE IF tree[i].kind = "user" THEN i ELSE turn[tree[i].parent]
  IN turn

Step(tree) ==
  LET step[i \in 0..Len(tree)] ==
        IF i = 0 \/ tree[i].kind = "user" THEN 0
        ELSE IF tree[i].kind = "assistant" THEN i ELSE step[tree[i].parent]
  IN step

\* Only events of assistant and tool result entries carry the step.
EventsOf(tree, i) ==
  [p \in 1..tree[i].parts |->
    [entry |-> i, part |-> p, count |-> tree[i].parts, kind |-> tree[i].kind,
     turn |-> Turn(tree)[i],
     step |-> IF tree[i].kind \in {"assistant", "toolResult"} THEN Step(tree)[i] ELSE 0]]

\* The events of a branch: of all projected events those on the branch.
ProjectPiEntries(tree, branch) ==
  FlattenSeq([k \in 1..Len(branch) |-> EventsOf(tree, branch[k])])

EventId(event) == <<event.entry, event.part>>

Position(events, id) ==
  LET at == {i \in 1..Len(events) : EventId(events[i]) = id}
  IN IF at = {} THEN 0 ELSE Min(at)

-----------------------------------------------------------------------------
(* The plan of archives *)

\* Every part weighs one token: the pressure at an event is its position.
Pressure(events) == Len(events)

LastIndexAtOrBelow(events, target) == Min({Len(events), target})

\* The nearest boundary at or before index that splits no entry and that does
\* not separate two neighbours of one step.
SnapToAtomicBoundary(events, index) ==
  LET snap[i \in 0..Len(events)] ==
        IF i = 0 \/ i = Len(events) THEN i
        ELSE LET sameEntry(j) == events[j].entry = events[i].entry
                 sameStep(j)  == events[i].step # 0 /\ events[j].step = events[i].step
                 inEntry == sameEntry(i + 1)
                 inStep  == sameStep(i + 1)
                 outside == {j \in 1..(i - 1) :
                               ~ (inEntry /\ sameEntry(j)) /\ ~ (inStep /\ sameStep(j))}
             IN IF ~ inEntry /\ ~ inStep THEN i
                ELSE snap[IF outside = {} THEN 0 ELSE Max(outside)]
  IN snap[index]

\* An archive is due when the raw tail is left behind it.
ArchiveTargets_NoTail(events) ==
  {k \in 1..Len(events) : k * ChunkBudget <= Pressure(events)}
ArchiveTargets(events) ==
  {k \in 1..Len(events) : RawTailBudget + k * ChunkBudget <= Pressure(events)}

\* The last events of the archives, in order.
PlanArchives(events) ==
  LET targets == ArchiveTargets(events)
      ends[k \in 0..Cardinality(targets)] ==
        IF k = 0 THEN <<>>
        ELSE LET done == ends[k - 1]
                 end  == SnapToAtomicBoundary(events,
                           LastIndexAtOrBelow(events, k * ChunkBudget))
             IN IF done = <<>> THEN (IF end >= 1 THEN <<end>> ELSE done)
                ELSE IF end > Last(done) THEN Append(done, end) ELSE done
  IN ends[Cardinality(targets)]

\* A manifest is identified by its first and last event and their number; the
\* content hash covers every event of the range.
ArchiveManifest(events) ==
  [first |-> EventId(Head(events)), last |-> EventId(Last(events)), content |-> events]

DescribeArchives(events) ==
  LET ends == PlanArchives(events)
  IN [k \in 1..Len(ends) |->
       ArchiveManifest(SubSeq(events, IF k = 1 THEN 1 ELSE ends[k - 1] + 1, ends[k]))]

-----------------------------------------------------------------------------
(* The active context *)

\* The raw tail starts behind the last archive that has been consumed.  A
\* checkpoint is named by the archive it was made from; {} is none.
SelectActiveContext_AfterAllArchives(events, archives, checkpoint) ==
  {[checkpoint |-> archive,
    start |-> EventId(events[Position(events, Last(archives).last) + 1])] :
     archive \in {a \in ToSet(archives) \intersect checkpoint :
                    Position(events, Last(archives).last) \in 1..(Len(events) - 1)}}
SelectActiveContext(events, archives, checkpoint) ==
  {[checkpoint |-> archive, start |-> EventId(events[Position(events, archive.last) + 1])] :
     archive \in {a \in ToSet(archives) \intersect checkpoint :
                    Position(events, a.last) \in 1..(Len(events) - 1)}}

ActiveContextOnBranch(context, events) ==
  \E c \in context : Position(events, c.start) # 0

\* The user entry of the turn in which the raw tail starts, unless the tail
\* holds it already.
AnchorEvents(events, start) ==
  LET at    == Position(events, start)
      turn  == events[at].turn
      first == Min({i \in 1..Len(events) : events[i].turn = turn})
  IN IF at = 0 \/ turn = 0 \/ first = at THEN <<>>
     ELSE Filter(SubSeq(events, 1, at - 1), {e \in ToSet(events) : e.entry = events[first].entry})

\* The entries that become messages: notes give none.
MessagesFromEvents(events) ==
  LET firsts == Filter(events, {e \in ToSet(events) : e.part = 1 /\ GivesMessage(e.kind)})
  IN [i \in 1..Len(firsts) |-> firsts[i].entry]

SumWeight(events) == Len(Filter(events, {e \in ToSet(events) : GivesMessage(e.kind)}))

\* What the model would see: the checkpoint, the anchor and the raw tail.
MaterializeActiveContext(context, events) ==
  LET tail   == SubSeq(events, Position(events, context.start), Len(events))
      anchor == AnchorEvents(events, context.start)
  IN [checkpoint |-> context.checkpoint, anchor |-> anchor, tail |-> tail,
      tokens |-> 1 + SumWeight(anchor) + SumWeight(tail)]

RenderActiveContextMessages(payload) ==
  MessagesFromEvents(payload.anchor) \o MessagesFromEvents(payload.tail)

\* capacity is contextWindow - maxTokens; 0 stands for a model that does not
\* report it.  A takeover is enabled and the checkpoint has no budget of its own:
\* takeover_disabled, facts_unavailable and checkpoint_over_budget, which only
\* make a takeover rarer, are left out.
EvaluateEligibility(capacity, payload) ==
  IF capacity = 0 THEN "capacity_unknown"
  ELSE IF payload = {} THEN "no_context"
  ELSE IF \A p \in payload : capacity > p.tokens THEN "eligible"
  ELSE "capacity_mismatch"

\* takeover.ts: where the last KeepRecentTurns turns of a sequence of entries
\* start; 0 when there is nothing to keep.
RecentTurns(tree, entries, keep) ==
  LET starts == {i \in 1..Len(entries) : tree[entries[i]].kind = "user"}
      later(i) == Cardinality({j \in starts : j > i})
  IN IF starts = {} \/ keep = 0 THEN 0
     ELSE Min({i \in starts : later(i) < keep})

PreservesRecentTurns(tree, original, replacement, keep) ==
  LET from == RecentTurns(tree, original, keep)
      required == SubSeq(original, from, Len(original))
  IN from = 0 \/ \E offset \in 0..Len(replacement) :
                   /\ offset + Len(required) <= Len(replacement)
                   /\ SubSeq(replacement, offset + 1, offset + Len(required)) = required

CompactionKeepsRecentTurns(tree, branch, firstKept, keep) ==
  LET from == RecentTurns(tree, branch, keep)
  IN from = 0 \/ \E i \in 1..from : branch[i] = firstKept

=============================================================================
