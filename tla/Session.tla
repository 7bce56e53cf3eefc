------------------------------ MODULE Session ------------------------------
(***************************************************************************)
(* One session of the plugin: SyncManager (sync.ts) with the               *)
(* ActiveContextManager (shared/active-context.mjs) it drives, the queued  *)
(* snapshot that feeds it (runtime.ts), and restarts.                      *)
(*                                                                         *)
(* SyncManager runs one operation at a time (serialize).  A sync delivers  *)
(* the pending entries of a snapshot, forms the archives of its branch and *)
(* updates the active context; the steps between which the session grows,  *)
(* navigates or dies are actions of their own.  Checkpoints are consumed   *)
(* beside it; Checkpoints.tla has the detail, here a manager writes the    *)
(* next checkpoint of its scope and publishes what it finds consumed.      *)
(***************************************************************************)
EXTENDS History

CONSTANTS
  Drafts,        \* the [kind, parts] an entry may have
  MaxEntries,    \* bound: entries of the session
  MaxMoves,      \* bound: navigations in the tree
  MaxFaults,     \* bound: restarts, and archives found bound to other content
  Capacities,    \* contextWindow - maxTokens of the models used; 0: unknown
  KeepRecentTurns,
  None           \* no snapshot

ASSUME SessionAssumption ==
  /\ Drafts \subseteq [kind : Kind, parts : Nat \ {0}]
  /\ {MaxEntries, MaxMoves, MaxFaults, KeepRecentTurns} \subseteq Nat
  /\ Capacities \subseteq Nat
  /\ None \notin [len : Nat, leaf : Nat]

VARIABLES
  \* The harness: its tree of entries, and how often it moved in it.
  tree, leaf, moves, restarts,
  \* The durable queue's latest snapshot of this session, until delivered.
  job,
  \* The running sync.
  op,
  \* The server: entries whose events are stored, and checkpoint facts.
  remote, checkpoints,
  \* Acknowledged leaves: the file and memory.
  ackFile, ack,
  \* SyncManager: checkpointBranchLeafId, committedArchives,
  \* activeContextSnapshot, a refresh waiting in the queue of operations.
  seenLeaf, committed, snapshot, refresh,
  \* The checkpoint manager: its archives, a write begun, lastCheckpointId.
  scope, inflight, last,
  \* ActiveContextManager: the file, memory, and the failure of the round.
  contextFile, context, loaded, roundFailure,
  \* History: archives ever left out of a branch's archives.
  skipped

harness     == <<tree, leaf, moves, restarts>>
acks        == <<ackFile, ack>>
manager     == <<scope, inflight, last>>
selection   == <<contextFile, context, loaded, roundFailure>>
vars == <<harness, job, op, remote, checkpoints, acks, seenLeaf, committed,
          snapshot, refresh, manager, selection, skipped>>

-----------------------------------------------------------------------------
(* Data *)

Snapshot == [len : 0..MaxEntries, leaf : 0..MaxEntries]

\* A snapshot of a tree that only grows is a length and a leaf.
Current == [len |-> Len(tree), leaf |-> leaf]

Operation == [at : {"idle", "deliver", "archive"},
              len : 0..MaxEntries, leaf : 0..MaxEntries, delivered : BOOLEAN]

Idle == [at |-> "idle", len |-> 0, leaf |-> 0, delivered |-> FALSE]

BranchEvents(leafId) == ProjectPiEntries(tree, Branch(tree, leafId))

\* Entries of the snapshot that are not acknowledged, the next one first.
Pending == {i \in 1..op.len : ~ IsEntryAcknowledged(tree, ack, i)}

NextPending_NewestFirst == Max(Pending)
NextPending == Min(Pending)

\* The archives due on the acknowledged part of the branch of the running sync.
Plan == DescribeArchives(ProjectPiEntries(tree,
          AcknowledgedPrefix(tree, ack, Branch(tree, op.leaf))))

\* The archives due on each branch that was synced, for the attempts to clean.
ArchiveChains_Synced == {DescribeArchives(BranchEvents(seenLeaf))}
ArchiveChains ==
  {DescribeArchives(ProjectPiEntries(tree, AcknowledgedPrefix(tree, ack, Branch(tree, i)))) :
     i \in Leaves(tree) \union {seenLeaf}}

-----------------------------------------------------------------------------
(* Consumption *)

Checkpointed(archive) == \E c \in checkpoints : c.archive = archive

CheckpointOf(archive) == CHOOSE c \in checkpoints : c.archive = archive

\* scanFacts: the number of archives consumed at the head of the scope.
Consumed ==
  LET open == {k \in 1..Len(scope) : ~ Checkpointed(scope[k])}
  IN IF open = {} THEN Len(scope) ELSE Min(open) - 1

Previous(k) == IF k = 1 THEN {} ELSE {scope[k - 1]}

\* scanFacts throws on a gap and on a checkpoint that does not continue the
\* one before it.
ScopeReadable ==
  \A k \in 1..Len(scope) :
    Checkpointed(scope[k]) => /\ k <= Consumed
                              /\ CheckpointOf(scope[k]).previous = Previous(k)

Covered(archives) == UNION {CheckpointOf(a).covers : a \in archives}

\* The k-th archive's: made of its events and of the checkpoint before it.
CheckpointFact(k) ==
  [archive |-> scope[k], previous |-> Previous(k),
   covers |-> Covered(Previous(k)) \union ToSet(scope[k].content)]

\* The manager checks its scope and begins to write the next checkpoint.
BeginCheckpoint ==
  /\ inflight = {}
  /\ ScopeReadable
  /\ Consumed < Len(scope)
  /\ inflight' = {CheckpointFact(Consumed + 1)}
  /\ UNCHANGED <<harness, job, op, remote, checkpoints, acks, seenLeaf, committed,
                 snapshot, refresh, scope, last, selection, skipped>>

\* A write begun lands or fails, also after the scope has changed.
LandCheckpoint ==
  /\ inflight # {}
  /\ inflight' = {}
  /\ checkpoints' \in {checkpoints, checkpoints \union inflight}
  /\ UNCHANGED <<harness, job, op, remote, acks, seenLeaf, committed,
                 snapshot, refresh, scope, last, selection, skipped>>

\* A change of lastCheckpointId queues a refresh of the active context.
Notified_Never(changed) == refresh
Notified(changed) == refresh \/ changed

PublishState ==
  /\ ScopeReadable
  /\ last' = IF Consumed = 0 THEN {} ELSE {scope[Consumed]}
  /\ last' # last
  /\ refresh' = Notified(last' # last)
  /\ UNCHANGED <<harness, job, op, remote, checkpoints, acks, seenLeaf, committed,
                 snapshot, scope, inflight, selection, skipped>>

-----------------------------------------------------------------------------
(* The active context *)

\* The first update of a session reads the file.
Held == IF loaded THEN context ELSE contextFile

\* resolveContext: the selection on the branch is kept; otherwise the
\* candidate, or nothing, takes its place in the file and then in memory.
\* stored tells whether the file could be written.
Resolved(events, archives, stored) ==
  LET held == Held
      candidate == SelectActiveContext(events, archives, last)
      kept == ActiveContextOnBranch(held, events)
      writes == ~ kept /\ (candidate # {} \/ held # {})
  IN /\ writes \/ stored
     /\ loaded' = TRUE
     /\ context' = IF kept THEN held
                   ELSE IF stored THEN candidate
                   ELSE IF candidate = {} THEN {} ELSE held
     /\ contextFile' = IF writes /\ stored THEN candidate ELSE contextFile
     /\ roundFailure' = ~ stored

\* The queued refresh runs against the latest snapshot.
RefreshActiveContext ==
  /\ op.at = "idle"
  /\ refresh
  /\ refresh' = FALSE
  /\ IF snapshot = None THEN UNCHANGED selection
     ELSE \E stored \in BOOLEAN : Resolved(BranchEvents(snapshot.leaf), committed, stored)
  /\ UNCHANGED <<harness, job, op, remote, checkpoints, acks, seenLeaf, committed,
                 snapshot, manager, skipped>>

\* The candidate of takeoverMessages: the newest checkpoint's, else the held one.
Candidate(events) ==
  LET latest == SelectActiveContext(events, committed, last)
      candidate == IF latest # {} THEN latest ELSE context
  IN IF ActiveContextOnBranch(candidate, events) THEN candidate ELSE {}

Payloads(candidate, events) == {MaterializeActiveContext(c, events) : c \in candidate}

\* takeoverMessages: an eligible newer candidate is stored, then held; when the
\* write fails nothing changes and the full context stays.
TakeoverMessages ==
  LET events == BranchEvents(leaf)
      candidate == Candidate(events)
  IN /\ op.at = "idle"
     /\ \E capacity \in Capacities :
          EvaluateEligibility(capacity, Payloads(candidate, events)) = "eligible"
     /\ candidate # context
     /\ contextFile' = candidate
     /\ context' = candidate
     /\ UNCHANGED <<harness, job, op, remote, checkpoints, acks, seenLeaf, committed,
                    snapshot, refresh, manager, loaded, roundFailure, skipped>>

\* The context hook: the messages the model is given instead of its own, when
\* they keep the turns they must.
Replacement(c, events) == RenderActiveContextMessages(MaterializeActiveContext(c, events))

MayTakeOver(events) ==
  {c \in Candidate(events) :
     PreservesRecentTurns(tree, MessagesFromEvents(events), Replacement(c, events), KeepRecentTurns)}

\* session_before_compact: Pi keeps the branch from the entry in which the raw
\* tail starts, and the checkpoint is the summary of what lies before.
MayCompact(events) ==
  {c \in context : /\ ActiveContextOnBranch({c}, events)
                   /\ CompactionKeepsRecentTurns(tree, Branch(tree, leaf), c.start[1], KeepRecentTurns)}

-----------------------------------------------------------------------------
(* The sync of a snapshot *)

SyncSession ==
  /\ op.at = "idle"
  /\ job # None
  /\ op' = [at |-> "deliver", len |-> job.len, leaf |-> job.leaf, delivered |-> TRUE]
  /\ UNCHANGED <<harness, job, remote, checkpoints, acks, seenLeaf, committed,
                 snapshot, refresh, manager, selection, skipped>>

\* The events of the next entry are stored and verified, the leaf is
\* acknowledged in the file and then in memory.
DeliverEntry ==
  /\ op.at = "deliver"
  /\ Pending # {}
  /\ remote' = remote \union {NextPending}
  /\ ack' = AdvanceSyncAck(tree, ack, NextPending)
  /\ ackFile' = ack'
  /\ UNCHANGED <<harness, job, op, checkpoints, seenLeaf, committed,
                 snapshot, refresh, manager, selection, skipped>>

\* The queue gives up on the job: no derived state is advanced.
AbortSync ==
  /\ op.at = "deliver"
  /\ remote' \in {remote} \union {remote \union {NextPending} : i \in Pending}
  /\ op' = Idle
  /\ UNCHANGED <<harness, job, checkpoints, acks, seenLeaf, committed,
                 snapshot, refresh, manager, selection, skipped>>

BranchContinues == seenLeaf = 0 \/ IsAncestorEntry(tree, seenLeaf, op.leaf)

\* A branch that does not continue the last one takes the scope of the
\* checkpoint manager away before any archive is read.
ScopeBeforeReading_Kept == scope
ScopeBeforeReading == IF BranchContinues THEN scope ELSE <<>>

\* advanceDerivedState, up to the first read of an archive.
BeginArchives(delivered) ==
  /\ snapshot' = [len |-> op.len, leaf |-> op.leaf]
  /\ scope' = ScopeBeforeReading
  /\ seenLeaf' = op.leaf
  /\ op' = [op EXCEPT !.at = "archive", !.delivered = delivered]
  /\ UNCHANGED <<harness, job, checkpoints, acks, committed, refresh, inflight,
                 last, selection, skipped>>

EndDelivery ==
  /\ op.at = "deliver"
  /\ Pending = {}
  /\ BeginArchives(TRUE)
  /\ UNCHANGED remote

\* The write fails, its answer is lost, or the acknowledgement cannot be
\* written: the sync goes on with what is acknowledged.
FailEntry ==
  /\ op.at = "deliver"
  /\ Pending # {}
  /\ remote' \in {remote, remote \union {NextPending}}
  /\ BeginArchives(FALSE)

\* The queue keeps the job when the sync did not deliver everything; the mirror
\* that follows may keep it too.
JobLeft == IF op.delivered /\ job = [len |-> op.len, leaf |-> op.leaf]
           THEN {None, job} ELSE {job}

\* The active context follows in the same step: it starts from the archives
\* and from the checkpoint known when the last read returns.
EndSync(archives) ==
  /\ \E stored \in BOOLEAN : Resolved(BranchEvents(op.leaf), archives, stored)
  /\ job' \in JobLeft
  /\ op' = Idle
  /\ UNCHANGED <<harness, remote, checkpoints, acks, seenLeaf, snapshot, refresh,
                 inflight, last>>

\* Every due archive is committed, but for one that cannot be trusted and is
\* skipped: its identity is bound to other content, or an event of it is missing,
\* invalid or different in the store; archives and scope follow.
FormArchives ==
  /\ op.at = "archive"
  /\ \E leftOut \in SUBSET ToSet(Plan) :
       /\ restarts + Cardinality(leftOut \union skipped) <= MaxFaults
       /\ committed' = Filter(Plan, ToSet(Plan) \ leftOut)
       /\ skipped' = skipped \union leftOut
  /\ scope' = committed'
  /\ EndSync(committed')

\* A transport failure ends the round: archives and scope stay.
ArchivesUnreconciled ==
  /\ op.at = "archive"
  /\ Plan # <<>>
  /\ EndSync(committed)
  /\ UNCHANGED <<committed, scope, skipped>>

-----------------------------------------------------------------------------
(* The harness *)

\* The kind of the last message before the leaf.
LastKind ==
  LET messages == Filter(Branch(tree, leaf), {i \in 1..Len(tree) : GivesMessage(tree[i].kind)})
  IN IF messages = <<>> THEN "none" ELSE tree[Last(messages)].kind

MayFollow(kind) ==
  \/ kind = "user" /\ LastKind # "user"
  \/ kind = "assistant" /\ LastKind \in {"user", "toolResult"}
  \/ kind = "toolResult" /\ LastKind = "assistant"
  \/ kind = "note" /\ leaf # 0

\* The end of a turn or of the agent queues the snapshot, and may come later.
AppendEntry ==
  /\ Len(tree) < MaxEntries
  /\ \E d \in Drafts :
       /\ MayFollow(d.kind)
       /\ tree' = Append(tree, [parent |-> leaf, kind |-> d.kind, parts |-> d.parts])
  /\ leaf' = Len(tree')
  /\ UNCHANGED <<moves, restarts, job, op, remote, checkpoints, acks, seenLeaf,
                 committed, snapshot, refresh, manager, selection, skipped>>

\* enqueue coalesces the snapshots of a session into the latest.
ScheduleSync ==
  /\ job # Current
  /\ job' = Current
  /\ UNCHANGED <<harness, op, remote, checkpoints, acks, seenLeaf, committed,
                 snapshot, refresh, manager, selection, skipped>>

\* session_tree queues the snapshot of the new branch.
Navigate ==
  /\ moves < MaxMoves
  /\ \E target \in 1..Len(tree) : target # leaf /\ leaf' = target
  /\ moves' = moves + 1
  /\ job' = [len |-> Len(tree), leaf |-> leaf']
  /\ UNCHANGED <<tree, restarts, op, remote, checkpoints, acks, seenLeaf, committed,
                 snapshot, refresh, manager, selection, skipped>>

\* An acknowledgement file that cannot be read counts as empty.
ReadSyncAck == {ackFile, {}}

\* ensureSession of a new process: memory is lost, a write may still land.
Restart ==
  /\ restarts + Cardinality(skipped) < MaxFaults
  /\ restarts' = restarts + 1
  /\ op' = Idle
  /\ remote' \in {remote} \union
       {remote \union {NextPending} : i \in IF op.at = "deliver" THEN Pending ELSE {}}
  /\ checkpoints' \in {checkpoints, checkpoints \union inflight}
  /\ ack' \in ReadSyncAck
  /\ seenLeaf' = 0
  /\ committed' = <<>>
  /\ snapshot' = None
  /\ refresh' = FALSE
  /\ scope' = <<>>
  /\ inflight' = {}
  /\ last' = {}
  /\ context' = {}
  /\ loaded' = FALSE
  /\ roundFailure' = FALSE
  /\ UNCHANGED <<tree, leaf, moves, job, ackFile, contextFile, skipped>>

-----------------------------------------------------------------------------
Init ==
  /\ tree = <<>> /\ leaf = 0 /\ moves = 0 /\ restarts = 0
  /\ job = None
  /\ op = Idle
  /\ remote = {} /\ checkpoints = {}
  /\ ackFile = {} /\ ack = {}
  /\ seenLeaf = 0 /\ committed = <<>> /\ snapshot = None /\ refresh = FALSE
  /\ scope = <<>> /\ inflight = {} /\ last = {}
  /\ contextFile = {} /\ context = {} /\ loaded = FALSE /\ roundFailure = FALSE
  /\ skipped = {}

Sync ==
  \/ SyncSession \/ DeliverEntry \/ FailEntry \/ AbortSync \/ EndDelivery
  \/ FormArchives \/ ArchivesUnreconciled

Next ==
  \/ AppendEntry \/ ScheduleSync \/ Navigate \/ Restart
  \/ Sync
  \/ RefreshActiveContext \/ TakeoverMessages
  \/ BeginCheckpoint \/ LandCheckpoint \/ PublishState

Spec == Init /\ [][Next]_vars

-----------------------------------------------------------------------------
(* Properties *)

\* The types; and the acknowledged leaves are the fewest that say what they say
\* (advanceSyncAck).
TypeOK ==
  /\ \A i \in 1..Len(tree) : tree[i].parent < i /\ tree[i].kind \in Kind
  /\ leaf \in 0..Len(tree)
  /\ job \in Snapshot \union {None}
  /\ op \in Operation
  /\ snapshot \in Snapshot \union {None}
  /\ remote \subseteq 1..Len(tree)
  \* No acknowledged leaf is an ancestor of another one.
  /\ \A a \in {ack, ackFile} : \A i, j \in a : i # j => ~ IsAncestorEntry(tree, i, j)
  /\ Cardinality(context) <= 1 /\ Cardinality(contextFile) <= 1 /\ Cardinality(last) <= 1

\* An acknowledged leaf stands for itself and all its ancestors: every one of
\* them is on the server, whatever failed, was aborted or restarted on the way
\* (advanceSyncAck, syncSource).
AckCoversAccepted ==
  \A a \in {ack, ackFile} : \A i \in 1..Len(tree) :
    IsEntryAcknowledged(tree, a, i) => i \in remote

\* A branch that grows keeps its archives: the plan of an entry's parent is a
\* prefix of its own, so an archive once due is due for ever (planArchives).
PlanIsStable ==
  \A i \in 1..Len(tree) :
    IsPrefix(DescribeArchives(BranchEvents(tree[i].parent)),
             DescribeArchives(BranchEvents(i)))

\* The checkpoint manager only works for the branch that was synced last: no
\* archive of its scope ends on an abandoned branch (formArchives in sync.ts).  And
\* once everything is acknowledged, each archive that was ever worked on is still
\* found on some branch, so that its attempts can be cleaned
\* (checkpointArchiveChains).
ScopeOnBranch ==
  /\ \A k \in 1..Len(scope) : IsAncestorEntry(tree, scope[k].last[1], seenLeaf)
  /\ (\A i \in 1..Len(tree) : IsEntryAcknowledged(tree, ack, i)) =>
       \A c \in checkpoints \union inflight : \E chain \in ArchiveChains : Contains(chain, c.archive)

\* What replaces the context of the model forgets nothing: each message of the
\* live branch is shown, kept, or part of what the checkpoint summarises,
\* unless it lies in an archive that was skipped (takeoverMessages,
\* compaction, extensions/openviking.ts).
NothingForgotten ==
  LET branch == Branch(tree, leaf)
      events == BranchEvents(leaf)
      original == ToSet(MessagesFromEvents(events))
      lost == UNION {ToSet(a.content) : a \in skipped}
      Summarised(c, i) == ToSet(EventsOf(tree, i)) \subseteq
                            Covered({c.checkpoint}) \union lost
      Kept(c) == {branch[k] : k \in {j \in 1..Len(branch) :
                    \E f \in 1..j : branch[f] = c.start[1]}}
  IN /\ \A c \in MayTakeOver(events) :
          \A i \in original \ ToSet(Replacement(c, events)) : Summarised(c, i)
     /\ \A c \in MayCompact(events) :
          \A i \in original \ Kept(c) : Summarised(c, i)

\* No checkpoint is missed: with no sync running, no job and no refresh
\* waiting, a checkpoint that can be taken over on the synced branch has an
\* active context on that branch (scheduleActiveContextRefresh).
NoCheckpointMissed ==
  op.at = "idle" /\ job = None /\ ~ refresh /\ snapshot # None /\ ~ roundFailure
    /\ leaf = snapshot.leaf
  => LET events == BranchEvents(snapshot.leaf)
     IN SelectActiveContext(events, committed, last) # {} =>
          ActiveContextOnBranch(context, events)

=============================================================================
