---------------------------- MODULE SessionProofs ----------------------------
(***************************************************************************)
(* The safety of a session, proved for every tree and every budget.  The   *)
(* inductive invariant IInv says that what points into the tree stays in   *)
(* it (Shape), what either copy of the acknowledgement vouches for         *)
(* (AckSound), and how the archives that were ever due, the scope and the  *)
(* checkpoints of the checkpoint manager and the selection of the active   *)
(* context belong to the branch they were made for.                        *)
(***************************************************************************)
EXTENDS Session, HistoryProofs

Lost == UNION {ToSet(a.content) : a \in skipped}

\* An archive that is due on some branch of the tree.
Worked(a) == \E i \in 1..Len(tree) : Contains(DescribeArchives(BranchEvents(i)), a)

\* The tree grows and everything that points into it stays within it.
Moment(s) == s \in Snapshot /\ s.leaf <= s.len /\ s.len <= Len(tree)

Shape ==
  /\ tree \in Seq([parent : Nat, kind : Kind, parts : Nat \ {0}])
  /\ WellFormed(tree)
  /\ Len(tree) <= MaxEntries
  /\ leaf \in 0..Len(tree)
  /\ job = None \/ Moment(job)
  /\ snapshot = None \/ Moment(snapshot)
  /\ op \in Operation /\ op.leaf <= op.len /\ op.len <= Len(tree)
  /\ seenLeaf \in 0..Len(tree)
  /\ remote \subseteq 1..Len(tree)
  /\ op.at = "archive" => /\ seenLeaf = op.leaf
                          /\ snapshot = [len |-> op.len, leaf |-> op.leaf]

\* Acknowledged leaves: none covers another, and what they cover is stored.
AckSound(a) ==
  /\ a \subseteq 1..Len(tree)
  /\ \A i, j \in a : i # j => ~ IsAncestorEntry(tree, i, j)
  /\ \A i \in 1..Len(tree) : IsEntryAcknowledged(tree, a, i) => i \in remote

\* At most one of each, and a selection rests on a checkpoint that exists.
SelectionSound ==
  /\ AtMostOne(context) /\ AtMostOne(contextFile) /\ AtMostOne(last) /\ AtMostOne(inflight)
  /\ \A c \in context \union contextFile : Anchored(tree, c) /\ Checkpointed(c.checkpoint)
  /\ \A a \in last : Checkpointed(a)

\* Whatever is worked on as an archive is one of a branch.
ArchivesSound ==
  /\ Len(scope) \in Nat
  /\ \A k \in 1..Len(scope) : Worked(scope[k])
  /\ \A a \in last : Worked(a)
  /\ \A c \in checkpoints \union inflight : Worked(c.archive)

\* Events of a branch up to an entry, but for the lost ones.
EventsUpTo(i) == ToSet(BranchEvents(i))

\* The scope covers its branch: between two of its archives nothing is lost but
\* what was skipped.
ScopeCovers ==
  \A k \in 1..Len(scope) :
    /\ IsAncestorEntry(tree, EndOf(scope[k]), seenLeaf)
    /\ EventsUpTo(EndOf(scope[k])) \subseteq
         EventsUpTo(EndBefore(scope, k)) \union ToSet(scope[k].content) \union Lost

\* So a checkpoint covers its branch from the root.
CheckpointsCover ==
  \A c \in checkpoints \union inflight :
    EventsUpTo(EndOf(c.archive)) \subseteq c.covers \union Lost

\* With no job, no refresh waiting and the archives settled, the selection is
\* the one a sync of this branch would take.
SelectionFollows ==
  op.at # "archive" /\ job = None /\ ~ refresh /\ snapshot # None /\ ~ roundFailure
    /\ leaf = snapshot.leaf
  => LET events == BranchEvents(snapshot.leaf)
     IN SelectActiveContext(events, committed, last) # {} =>
          ActiveContextOnBranch(context, events)

IInv ==
  /\ Shape
  /\ AckSound(ack) /\ AckSound(ackFile)
  /\ SelectionSound
  /\ ArchivesSound
  /\ ScopeCovers
  /\ CheckpointsCover
  /\ SelectionFollows

-----------------------------------------------------------------------------
(* The steps that leave the tree as it is *)

OtherStep ==
  \/ ScheduleSync \/ Navigate \/ Restart
  \/ Sync
  \/ RefreshActiveContext \/ TakeoverMessages
  \/ BeginCheckpoint \/ LandCheckpoint \/ PublishState
  \/ UNCHANGED vars

LEMMA SameTree ==
  ASSUME OtherStep
  PROVE tree' = tree
BY DEF OtherStep, ScheduleSync, Navigate, Restart, Sync, SyncSession, DeliverEntry, FailEntry,
       AbortSync, EndDelivery, BeginArchives, FormArchives, ArchivesUnreconciled, EndSync,
       RefreshActiveContext, TakeoverMessages, BeginCheckpoint, LandCheckpoint, PublishState,
       vars, harness

LEMMA SameEvents ==
  ASSUME tree' = tree
  PROVE /\ \A i : EventsUpTo(i)' = EventsUpTo(i)
        /\ \A a : Worked(a)' <=> Worked(a)
        /\ \A s : Moment(s)' <=> Moment(s)
<1>1. \A i : EventsUpTo(i)' = EventsUpTo(i)
  BY DEF EventsUpTo, BranchEvents
<1>2. \A a : Worked(a)' <=> Worked(a)
  BY DEF Worked, BranchEvents
<1>3. \A s : Moment(s)' <=> Moment(s)
  BY DEF Moment
<1> QED BY <1>1, <1>2, <1>3

LEMMA PendingIs ==
  ASSUME Shape, Pending # {}
  PROVE /\ NextPending \in Pending /\ NextPending \in 1..Len(tree)
        /\ \A i \in Pending : NextPending <= i
<1>1. Pending \in SUBSET Nat
  BY DEF Pending
<1>2. NextPending \in Pending /\ \A i \in Pending : NextPending <= i
  BY <1>1, MinIsLeast DEF NextPending
<1>3. op.len \in Nat /\ op.len <= Len(tree) /\ Len(tree) \in Nat
  BY DEF Shape, Operation, WellFormed
<1> QED BY <1>2, <1>3 DEF Pending

\* The tree, and what points into it.
LEMMA ShapeKept ==
  ASSUME IInv, OtherStep
  PROVE Shape'
<1>1. tree' = tree /\ \A s : Moment(s)' <=> Moment(s)
  BY SameTree, SameEvents
<1>2. Shape
  BY DEF IInv
<1>3. /\ Len(tree) \in Nat /\ Len(tree) <= MaxEntries /\ MaxEntries \in Nat
      /\ leaf \in Nat /\ leaf <= Len(tree)
  BY <1>2, SessionAssumption DEF Shape, WellFormed
<1>4. /\ tree' \in Seq([parent : Nat, kind : Kind, parts : Nat \ {0}])
      /\ WellFormed(tree)' /\ Len(tree') <= MaxEntries
  BY <1>1, <1>2 DEF Shape
<1>5. Moment(Current) /\ \A i \in 0..Len(tree) : Moment([len |-> Len(tree), leaf |-> i])
  BY <1>3 DEF Current, Moment, Snapshot
<1>6. job = None \/ (Moment(job) /\ job.len \in 0..MaxEntries /\ job.leaf \in 0..MaxEntries)
  BY <1>2 DEF Shape, Moment, Snapshot
<1>7. op \in Operation /\ op.leaf <= op.len /\ op.len <= Len(tree) /\ op.leaf \in Nat /\ op.len \in Nat
  BY <1>2 DEF Shape, Operation
<1>8. Moment([len |-> op.len, leaf |-> op.leaf]) /\ op.leaf \in 0..Len(tree)
  BY <1>3, <1>7 DEF Moment, Snapshot
<1>9. Idle \in Operation /\ Idle.leaf = 0 /\ Idle.len = 0 /\ Idle.at = "idle"
  BY <1>3 DEF Idle, Operation
<1> DEFINE Rest == /\ leaf' \in 0..Len(tree)
                   /\ job' = None \/ Moment(job')
                   /\ snapshot' = None \/ Moment(snapshot')
                   /\ op' \in Operation /\ op'.leaf <= op'.len /\ op'.len <= Len(tree)
                   /\ seenLeaf' \in 0..Len(tree)
                   /\ remote' \subseteq 1..Len(tree)
                   /\ op'.at = "archive" => /\ seenLeaf' = op'.leaf
                                            /\ snapshot' = [len |-> op'.len, leaf |-> op'.leaf]
<1>10. Rest
  <2>1. CASE ScheduleSync
    BY <1>2, <1>5, <2>1 DEF ScheduleSync, Shape, harness
  <2>2. CASE Navigate
    BY <1>2, <1>3, <1>5, <2>2 DEF Navigate, Shape
  <2>3. CASE Restart
    <3>1. remote' \subseteq 1..Len(tree)
      <4>1. CASE remote' = remote
        BY <1>2, <4>1 DEF Shape
      <4>2. CASE remote' # remote
        <5>1. Pending # {} /\ remote' = remote \union {NextPending}
          BY <2>3, <4>2 DEF Restart
        <5> QED BY <1>2, <5>1, PendingIs DEF Shape
      <4> QED BY <4>1, <4>2
    <3> QED BY <1>2, <1>3, <1>9, <2>3, <3>1 DEF Restart, Shape
  <2>4. CASE SyncSession
    <3>1. job # None /\ op' = [at |-> "deliver", len |-> job.len, leaf |-> job.leaf, delivered |-> TRUE]
      BY <2>4 DEF SyncSession
    <3>2. op' \in Operation /\ op'.leaf <= op'.len /\ op'.len <= Len(tree) /\ op'.at # "archive"
      BY <1>6, <3>1 DEF Operation, Moment
    <3> QED BY <1>2, <2>4, <3>2 DEF SyncSession, Shape, harness
  <2>5. CASE DeliverEntry
    BY <1>2, <2>5, PendingIs DEF DeliverEntry, Shape, harness
  <2>6. CASE FailEntry \/ EndDelivery
    <3>1. PICK delivered \in BOOLEAN : BeginArchives(delivered)
      BY <2>6 DEF FailEntry, EndDelivery
    <3>2. remote' \subseteq 1..Len(tree)
      BY <1>2, <2>6, PendingIs DEF FailEntry, EndDelivery, Shape
    <3>3. op' = [op EXCEPT !.at = "archive", !.delivered = delivered]
      BY <3>1 DEF BeginArchives
    <3>4. op' \in Operation /\ op'.leaf = op.leaf /\ op'.len = op.len
      BY <1>7, <3>3 DEF Operation
    <3> QED BY <1>2, <1>7, <1>8, <3>1, <3>2, <3>4 DEF BeginArchives, Shape, harness
  <2>7. CASE AbortSync
    <3>1. remote' \subseteq 1..Len(tree)
      <4>1. CASE remote' = remote
        BY <1>2, <4>1 DEF Shape
      <4>2. CASE remote' # remote
        <5>1. Pending # {} /\ remote' = remote \union {NextPending}
          BY <2>7, <4>2 DEF AbortSync
        <5> QED BY <1>2, <5>1, PendingIs DEF Shape
      <4> QED BY <4>1, <4>2
    <3> QED BY <1>2, <1>3, <1>9, <2>7, <3>1 DEF AbortSync, Shape, harness
  <2>8. CASE FormArchives \/ ArchivesUnreconciled
    <3>1. /\ job' \in JobLeft /\ op' = Idle
          /\ UNCHANGED <<harness, remote, seenLeaf, snapshot>>
      BY <2>8 DEF FormArchives, ArchivesUnreconciled, EndSync
    <3>2. job' = None \/ job' = job
      BY <3>1 DEF JobLeft
    <3> QED BY <1>2, <1>3, <1>9, <3>1, <3>2 DEF Shape, harness
  <2>9. CASE RefreshActiveContext \/ TakeoverMessages \/ BeginCheckpoint \/ LandCheckpoint
             \/ PublishState \/ UNCHANGED vars
    BY <1>2, <2>9 DEF RefreshActiveContext, TakeoverMessages, BeginCheckpoint, LandCheckpoint,
                      PublishState, vars, Shape, harness
  <2> QED BY <2>1, <2>2, <2>3, <2>4, <2>5, <2>6, <2>7, <2>8, <2>9 DEF OtherStep, Sync
<1> HIDE DEF Rest
<1>11. Rest => /\ leaf' \in 0..Len(tree')
               /\ job' = None \/ Moment(job)'
               /\ snapshot' = None \/ Moment(snapshot)'
               /\ op' \in Operation /\ op'.leaf <= op'.len /\ op'.len <= Len(tree')
               /\ seenLeaf' \in 0..Len(tree')
               /\ remote' \subseteq 1..Len(tree')
               /\ op'.at = "archive" => /\ seenLeaf' = op'.leaf
                                        /\ snapshot' = [len |-> op'.len, leaf |-> op'.leaf]
  BY <1>1 DEF Rest, Moment
<1> QED BY <1>4, <1>10, <1>11 DEF Shape

LEMMA AckKept ==
  ASSUME IInv, OtherStep
  PROVE AckSound(ack)' /\ AckSound(ackFile)'
<1>1. tree' = tree
  BY SameTree
<1>2. Shape /\ AckSound(ack) /\ AckSound(ackFile) /\ WellFormed(tree) /\ Len(tree) \in Nat
  BY DEF IInv, Shape, WellFormed
<1> DEFINE Sound(a, stored) ==
      /\ a \subseteq 1..Len(tree)
      /\ \A i, j \in a : i # j => ~ IsAncestorEntry(tree, i, j)
      /\ \A i \in 1..Len(tree) : IsEntryAcknowledged(tree, a, i) => i \in stored
<1>3. Sound(ack, remote) /\ Sound(ackFile, remote) /\ Sound({}, remote)
  BY <1>2 DEF AckSound, IsEntryAcknowledged
<1>4. \A a, s, t : Sound(a, s) /\ s \subseteq t => Sound(a, t)
  OBVIOUS
<1>5. SUFFICES Sound(ack', remote') /\ Sound(ackFile', remote')
  BY <1>1 DEF AckSound
<1> HIDE DEF Sound
<1>6. CASE DeliverEntry
  <2>1. PICK e : e = NextPending
    OBVIOUS
  <2>2. e \in Pending /\ e \in 1..Len(tree) /\ \A i \in Pending : e <= i
    BY <1>2, <1>6, <2>1, PendingIs DEF DeliverEntry
  <2>3. /\ ack' = AdvanceSyncAck(tree, ack, e) /\ ackFile' = ack'
        /\ remote' = remote \union {e}
    BY <1>6, <2>1 DEF DeliverEntry
  <2>4. ack \in SUBSET (1..Len(tree)) /\ \A i, j \in ack : i # j => ~ IsAncestorEntry(tree, i, j)
    BY <1>3 DEF Sound
  <2>5. PICK new : new = ack'
    OBVIOUS
  <2>6. /\ new \in SUBSET (1..Len(tree))
        /\ \A i, j \in new : i # j => ~ IsAncestorEntry(tree, i, j)
        /\ \A i : IsEntryAcknowledged(tree, new, i) =>
                    IsEntryAcknowledged(tree, ack, i) \/ IsAncestorEntry(tree, i, e)
    <3>1. new = AdvanceSyncAck(tree, ack, e) /\ WellFormed(tree) /\ e \in 1..Len(tree)
      BY <1>2, <2>2, <2>3, <2>5
    <3> QED BY ONLY <2>4, <3>1, AdvanceKeeps, HistoryAssumption
  <2>7. ASSUME NEW i \in 1..Len(tree), IsEntryAcknowledged(tree, new, i) PROVE i \in remote'
    <3>1. CASE IsEntryAcknowledged(tree, ack, i)
      BY <1>3, <2>3, <3>1 DEF Sound
    <3>2. CASE ~ IsEntryAcknowledged(tree, ack, i)
      <4>1. IsAncestorEntry(tree, i, e)
        BY <2>6, <2>7, <3>2
      <4>2. i \in 1..e
        BY <1>2, <2>2, <4>1, AncestorBound
      <4>3. i \in Pending
        <5>1. op.len \in Nat
          BY <1>2 DEF Shape, Operation
        <5>2. e \in 1..op.len
          BY <2>2 DEF Pending
        <5> QED BY <3>2, <4>2, <5>1, <5>2 DEF Pending
      <4>4. i = e
        BY <1>2, <2>2, <4>2, <4>3
      <4> QED BY <2>3, <4>4
    <3> QED BY <3>1, <3>2
  <2>8. Sound(new, remote')
    BY <2>6, <2>7 DEF Sound
  <2> QED BY <2>3, <2>5, <2>8
<1>7. CASE Restart
  <2>1. remote \subseteq remote'
    BY <1>7 DEF Restart
  <2>2. ackFile' = ackFile /\ (ack' = ackFile \/ ack' = {})
    BY <1>7 DEF Restart, ReadSyncAck
  <2> QED BY <1>3, <1>4, <2>1, <2>2
<1>8. CASE OtherStep /\ ~ DeliverEntry /\ ~ Restart
  <2>1. ack' = ack /\ ackFile' = ackFile
    BY <1>8 DEF OtherStep, ScheduleSync, Navigate, Sync, SyncSession, FailEntry, AbortSync,
         EndDelivery, BeginArchives, FormArchives, ArchivesUnreconciled, EndSync,
         RefreshActiveContext, TakeoverMessages, BeginCheckpoint, LandCheckpoint, PublishState,
         vars, acks
  <2>2. remote \subseteq remote'
    BY <1>8 DEF OtherStep, ScheduleSync, Navigate, Sync, SyncSession, FailEntry, AbortSync,
         EndDelivery, BeginArchives, FormArchives, ArchivesUnreconciled, EndSync,
         RefreshActiveContext, TakeoverMessages, BeginCheckpoint, LandCheckpoint, PublishState,
         vars
  <2> QED BY <1>3, <1>4, <2>1, <2>2
<1> QED BY <1>6, <1>7, <1>8


\* What is consumed at the head of the scope is checkpointed.
LEMMA ConsumedIs ==
  ASSUME ArchivesSound
  PROVE /\ Consumed \in 0..Len(scope)
        /\ \A k \in 1..Consumed : Checkpointed(scope[k])
<1>1. PICK open, n : open = {k \in 1..Len(scope) : ~ Checkpointed(scope[k])} /\ n = Len(scope)
  OBVIOUS
<1>2. n \in Nat /\ open \in SUBSET Nat
  BY <1>1 DEF ArchivesSound
<1>3. Consumed = IF open = {} THEN n ELSE Min(open) - 1
  BY <1>1 DEF Consumed
<1>4. CASE open = {}
  BY <1>1, <1>2, <1>3, <1>4
<1>5. CASE open # {}
  <2>1. PICK m : m = Min(open)
    OBVIOUS
  <2>2. m \in open /\ \A k \in open : m <= k
    BY <1>2, <1>5, <2>1, MinIsLeast
  <2>3. Consumed = m - 1 /\ m \in 1..n
    BY <1>1, <1>3, <1>5, <2>1, <2>2
  <2>4. ASSUME NEW k \in 1..Consumed PROVE Checkpointed(scope[k])
    <3>1. k \in 1..n /\ ~ (m <= k)
      BY <1>2, <2>3
    <3> QED BY <1>1, <2>2, <3>1
  <2> QED BY <1>1, <1>2, <2>3, <2>4
<1> QED BY <1>4, <1>5

LEMMA CheckpointedLater ==
  ASSUME checkpoints \subseteq checkpoints'
  PROVE \A a : Checkpointed(a) => Checkpointed(a)'
BY DEF Checkpointed

LEMMA WorkedIsBounded ==
  ASSUME WellFormed(tree), NEW a, Worked(a)
  PROVE Bounded(tree, a)
<1>1. PICK i \in 1..Len(tree) : Contains(DescribeArchives(Events(tree, i)), a)
  BY DEF Worked, BranchEvents, Events
<1>2. PICK archives : archives = DescribeArchives(Events(tree, i))
  OBVIOUS
<1>3. PICK k \in 1..Len(archives) : archives[k] = a
  BY <1>1, <1>2 DEF Contains
<1>4. i \in 0..Len(tree)
  BY DEF WellFormed
<1>5. Bounded(tree, archives[k])
  BY ONLY WellFormed(tree), <1>2, <1>4, ArchiveOfBranch, HistoryAssumption
<1> QED BY <1>3, <1>5

\* The candidate for the branch of an entry.
LEMMA CandidateIs ==
  ASSUME Shape, SelectionSound, ArchivesSound, NEW d \in 0..Len(tree), NEW archives
  PROVE LET candidate == SelectActiveContext(BranchEvents(d), archives, last)
        IN /\ AtMostOne(candidate)
           /\ \A c \in candidate : Anchored(tree, c) /\ Checkpointed(c.checkpoint)
<1>1. PICK events, candidate : /\ events = Events(tree, d)
                               /\ candidate = SelectActiveContext(events, archives, last)
  OBVIOUS
<1>2. events = BranchEvents(d)
  BY <1>1 DEF BranchEvents, Events
<1>3. WellFormed(tree) /\ AtMostOne(last) /\ \A a \in last : Bounded(tree, a) /\ Checkpointed(a)
  BY WorkedIsBounded DEF Shape, SelectionSound, ArchivesSound
<1>4. AtMostOne(candidate)
  BY <1>1, <1>3, SelectedOne
<1>5. \A c \in candidate : c.checkpoint \in last /\ Anchored(tree, c)
  BY <1>1, <1>3, SelectedIs
<1> QED BY <1>1, <1>2, <1>3, <1>4, <1>5

LEMMA ResolvedKeeps ==
  ASSUME IInv, NEW d \in 0..Len(tree), NEW archives, NEW stored \in BOOLEAN,
         Resolved(BranchEvents(d), archives, stored),
         tree' = tree, UNCHANGED <<checkpoints, inflight, last>>
  PROVE SelectionSound'
<1>1. Shape /\ SelectionSound /\ ArchivesSound
  BY DEF IInv
<1>2. PICK candidate : candidate = SelectActiveContext(BranchEvents(d), archives, last)
  OBVIOUS
<1>3. /\ AtMostOne(candidate)
      /\ \A c \in candidate : Anchored(tree, c) /\ Checkpointed(c.checkpoint)
  BY <1>1, <1>2, CandidateIs
<1>4. /\ context' \in {context, contextFile, candidate, {}}
      /\ contextFile' \in {contextFile, candidate}
  BY <1>2 DEF Resolved, Held
<1>5. /\ AtMostOne(context) /\ AtMostOne(contextFile) /\ AtMostOne(last) /\ AtMostOne(inflight)
      /\ \A c \in context \union contextFile : Anchored(tree, c) /\ Checkpointed(c.checkpoint)
      /\ \A a \in last : Checkpointed(a)
      /\ AtMostOne({})
  BY <1>1 DEF SelectionSound, AtMostOne
<1>6. \A a : Checkpointed(a)' <=> Checkpointed(a)
  BY DEF Checkpointed
<1>7. AtMostOne(context') /\ AtMostOne(contextFile') /\ AtMostOne(last') /\ AtMostOne(inflight')
  BY <1>3, <1>4, <1>5
<1>8. \A c \in context' \union contextFile' : Anchored(tree', c) /\ Checkpointed(c.checkpoint)'
  BY <1>3, <1>4, <1>5, <1>6
<1> QED BY <1>5, <1>6, <1>7, <1>8 DEF SelectionSound, AtMostOne

LEMMA SelectionKept ==
  ASSUME IInv, OtherStep
  PROVE SelectionSound'
<1>1. tree' = tree
  BY SameTree
<1>2. Shape /\ SelectionSound /\ ArchivesSound
  BY DEF IInv
<1>3. /\ AtMostOne(context) /\ AtMostOne(contextFile) /\ AtMostOne(last) /\ AtMostOne(inflight)
      /\ \A c \in context \union contextFile : Anchored(tree, c) /\ Checkpointed(c.checkpoint)
      /\ \A a \in last : Checkpointed(a)
      /\ AtMostOne({})
  BY <1>2 DEF SelectionSound, AtMostOne
<1> DEFINE Sound(x, y, z, w) ==
      /\ AtMostOne(x) /\ AtMostOne(y) /\ AtMostOne(z) /\ AtMostOne(w)
      /\ \A c \in x \union y : Anchored(tree, c) /\ Checkpointed(c.checkpoint)
      /\ \A a \in z : Checkpointed(a)
<1>4. Sound(context', contextFile', last', inflight') /\ checkpoints \subseteq checkpoints'
        => SelectionSound'
  <2>1. checkpoints \subseteq checkpoints' => \A a : Checkpointed(a) => Checkpointed(a)'
    BY CheckpointedLater
  <2> QED BY <1>1, <2>1 DEF SelectionSound, AtMostOne
<1>5. CASE FormArchives \/ ArchivesUnreconciled
  <2>1. PICK archives : EndSync(archives)
    BY <1>5 DEF FormArchives, ArchivesUnreconciled
  <2>2. PICK stored \in BOOLEAN : Resolved(BranchEvents(op.leaf), archives, stored)
    BY <2>1 DEF EndSync
  <2>3. UNCHANGED <<checkpoints, inflight, last>>
    BY <2>1 DEF EndSync
  <2>4. op.leaf \in 0..Len(tree)
    BY <1>2 DEF Shape, Operation, WellFormed
  <2> QED BY <1>1, <2>2, <2>3, <2>4, ResolvedKeeps
<1>6. CASE RefreshActiveContext
  <2>1. UNCHANGED <<checkpoints, inflight, last>>
    BY <1>6 DEF RefreshActiveContext, manager
  <2>2. CASE snapshot = None
    <3>1. UNCHANGED <<context, contextFile>>
      BY <1>6, <2>2 DEF RefreshActiveContext, selection
    <3> QED BY <1>3, <1>4, <2>1, <3>1
  <2>3. CASE snapshot # None
    <3>1. PICK stored \in BOOLEAN : Resolved(BranchEvents(snapshot.leaf), committed, stored)
      BY <1>6, <2>3 DEF RefreshActiveContext
    <3>2. snapshot.leaf \in 0..Len(tree)
      BY <1>2, <2>3 DEF Shape, Moment, Snapshot, WellFormed
    <3> QED BY <1>1, <2>1, <3>1, <3>2, ResolvedKeeps
  <2> QED BY <2>2, <2>3
<1>7. CASE TakeoverMessages
  <2>1. leaf \in 0..Len(tree)
    BY <1>2 DEF Shape
  <2>2. PICK latest : latest = SelectActiveContext(BranchEvents(leaf), committed, last)
    OBVIOUS
  <2>3. /\ AtMostOne(latest)
        /\ \A c \in latest : Anchored(tree, c) /\ Checkpointed(c.checkpoint)
    BY <1>2, <2>1, <2>2, CandidateIs
  <2>4. Candidate(BranchEvents(leaf)) \in {latest, context, {}}
    BY <2>2 DEF Candidate
  <2>5. /\ context' = Candidate(BranchEvents(leaf)) /\ contextFile' = context'
        /\ UNCHANGED <<checkpoints, inflight, last>>
    BY <1>7 DEF TakeoverMessages, manager
  <2>6. Sound(context', contextFile', last', inflight')
    BY <1>3, <2>3, <2>4, <2>5
  <2> QED BY <1>4, <2>5, <2>6
<1>8. CASE BeginCheckpoint
  <2>1. inflight' = {CheckpointFact(Consumed + 1)}
        /\ UNCHANGED <<checkpoints, last, context, contextFile>>
    BY <1>8 DEF BeginCheckpoint, selection
  <2>2. AtMostOne(inflight')
    BY <2>1 DEF AtMostOne
  <2> QED BY <1>3, <1>4, <2>1, <2>2
<1>9. CASE LandCheckpoint
  <2>1. inflight' = {} /\ checkpoints \subseteq checkpoints' /\ UNCHANGED <<last, context, contextFile>>
    BY <1>9 DEF LandCheckpoint, selection
  <2> QED BY <1>3, <1>4, <2>1
<1>10. CASE PublishState
  <2>1. /\ last' = IF Consumed = 0 THEN {} ELSE {scope[Consumed]}
        /\ UNCHANGED <<checkpoints, inflight, context, contextFile>>
    BY <1>10 DEF PublishState, selection
  <2>2. Consumed # 0 => Consumed \in 1..Consumed
    BY <1>2, ConsumedIs DEF ArchivesSound
  <2>3. \A a \in last' : Checkpointed(a)
    BY <1>2, <2>1, <2>2, ConsumedIs
  <2>4. AtMostOne(last')
    BY <2>1 DEF AtMostOne
  <2> QED BY <1>3, <1>4, <2>1, <2>3, <2>4
<1>11. CASE Restart
  <2>1. /\ context' = {} /\ contextFile' = contextFile /\ last' = {} /\ inflight' = {}
        /\ checkpoints \subseteq checkpoints'
    BY <1>11 DEF Restart
  <2> QED BY <1>3, <1>4, <2>1
<1>12. CASE \/ ScheduleSync \/ Navigate \/ SyncSession \/ DeliverEntry \/ FailEntry \/ AbortSync
            \/ EndDelivery \/ UNCHANGED vars
  <2>1. UNCHANGED <<context, contextFile, last, inflight, checkpoints>>
    BY <1>12 DEF ScheduleSync, Navigate, SyncSession, DeliverEntry, FailEntry, AbortSync,
       EndDelivery, BeginArchives, vars, selection, manager
  <2> QED BY <1>3, <1>4, <2>1
<1> QED BY <1>5, <1>6, <1>7, <1>8, <1>9, <1>10, <1>11, <1>12 DEF OtherStep, Sync


-----------------------------------------------------------------------------
(* Archives and checkpoints *)

\* The plan of the running sync is that of an ancestor of its leaf.
LEMMA PlanOfBranch ==
  ASSUME Shape
  PROVE \E j \in 0..Len(tree) : /\ Plan = DescribeArchives(Events(tree, j))
                                /\ j = 0 \/ IsAncestorEntry(tree, j, op.leaf)
<1>1. WellFormed(tree) /\ op.leaf \in 0..Len(tree)
  BY DEF Shape, Operation, WellFormed
<1>2. PICK j \in 0..Len(tree) :
        /\ AcknowledgedPrefix(tree, ack, Branch(tree, op.leaf)) = Branch(tree, j)
        /\ j = 0 \/ IsAncestorEntry(tree, j, op.leaf)
  BY <1>1, AcknowledgedPrefixIsBranch
<1>3. Plan = DescribeArchives(Events(tree, j))
  BY <1>2 DEF Plan, Events
<1> QED BY <1>2, <1>3

\* The archives a sync forms: each is due on the branch, and together they cover
\* it, but for what is left out.
LEMMA FormedArchives ==
  ASSUME Shape, NEW leftOut
  PROVE LET formed == Filter(Plan, ToSet(Plan) \ leftOut)
        IN /\ Len(formed) \in Nat
           /\ \A k \in 1..Len(formed) : Worked(formed[k])
                                        /\ IsAncestorEntry(tree, EndOf(formed[k]), op.leaf)
           /\ Covering(tree, formed, Lost \union UNION {ToSet(a.content) : a \in leftOut})
<1>1. WellFormed(tree) /\ op.leaf \in 0..Len(tree)
  BY DEF Shape, Operation, WellFormed
<1>2. PICK j \in 0..Len(tree) : /\ Plan = DescribeArchives(Events(tree, j))
                                /\ j = 0 \/ IsAncestorEntry(tree, j, op.leaf)
  BY PlanOfBranch
<1>3. PICK plan, kept, formed, lost :
        /\ plan = Plan /\ kept = ToSet(Plan) \ leftOut /\ formed = Filter(plan, kept)
        /\ lost = Lost \union UNION {ToSet(a.content) : a \in leftOut}
  OBVIOUS
<1>4. plan = DescribeArchives(Events(tree, j))
  BY <1>2, <1>3
<1>5. /\ \E T : plan \in Seq(T) /\ Filter(plan, kept) \in Seq(T)
      /\ ToSet(Filter(plan, kept)) \subseteq ToSet(plan)
      /\ \A a : a \in ToSet(plan) <=> Contains(plan, a)
  BY ONLY <1>1, <1>4, j \in 0..Len(tree), FilterOf, HistoryAssumption
<1>6. PICK T : plan \in Seq(T) /\ formed \in Seq(T)
  BY <1>3, <1>5
<1>7. Len(formed) \in Nat /\ DOMAIN formed = 1..Len(formed) /\ DOMAIN plan = 1..Len(plan)
  BY <1>6, LenProperties
<1>8. ASSUME NEW k \in 1..Len(formed)
      PROVE Worked(formed[k]) /\ IsAncestorEntry(tree, EndOf(formed[k]), op.leaf)
  <2>1. formed[k] \in ToSet(formed)
    BY <1>7 DEF ToSet
  <2>2. Contains(plan, formed[k])
    BY <1>3, <1>5, <2>1
  <2>3. j # 0
    BY <1>1, <1>4, <2>2, NoneAtRoot
  <2>4. PICK n \in 1..Len(plan) : plan[n] = formed[k]
    BY <2>2 DEF Contains
  <2>5. IsAncestorEntry(tree, EndOf(plan[n]), j)
    BY ONLY <1>1, <1>4, j \in 0..Len(tree), n \in 1..Len(plan), ArchiveOfBranch, HistoryAssumption
  <2>6. IsAncestorEntry(tree, EndOf(formed[k]), op.leaf)
    BY <1>1, <1>2, <2>3, <2>4, <2>5, AncestorTransitive
  <2>7. j \in 1..Len(tree)
    BY <2>3
  <2>8. Worked(formed[k])
    BY <1>4, <2>2, <2>7 DEF Worked, BranchEvents, Events
  <2> QED BY <2>6, <2>8
<1>9. ASSUME NEW k \in 1..Len(plan), plan[k] \notin kept PROVE ToSet(plan[k].content) \subseteq lost
  <2>1. plan[k] \in ToSet(plan)
    BY <1>7 DEF ToSet
  <2>2. plan[k] \in leftOut
    BY <1>3, <1>9, <2>1
  <2> QED BY <1>3, <2>2
<1>10. Covering(tree, Filter(plan, kept), lost)
  BY ONLY <1>1, <1>4, <1>9, j \in 0..Len(tree), FilteredCover, HistoryAssumption
<1> QED BY <1>3, <1>7, <1>8, <1>10

LEMMA WorkedKept ==
  ASSUME IInv, OtherStep
  PROVE ArchivesSound'
<1>1. tree' = tree /\ \A a : Worked(a)' <=> Worked(a)
  BY SameTree, SameEvents
<1>2. /\ Len(scope) \in Nat
      /\ \A k \in 1..Len(scope) : Worked(scope[k])
      /\ \A a \in last : Worked(a)
      /\ \A c \in checkpoints \union inflight : Worked(c.archive)
      /\ ArchivesSound /\ Shape
  BY DEF IInv, ArchivesSound
<1> DEFINE ScopeFine(s) == Len(s) \in Nat /\ \A k \in 1..Len(s) : Worked(s[k])
           LastFine(s) == \A a \in s : Worked(a)
           FactsFine(s) == \A c \in s : Worked(c.archive)
<1>3. ScopeFine(scope')
  <2>1. ScopeFine(<<>>)
    <3>1. PICK e : e = <<>>
      OBVIOUS
    <3>2. Len(e) = 0
      BY <3>1
    <3>3. ScopeFine(e)
      BY <3>2
    <3> QED BY <3>1, <3>3
  <2>2. CASE FormArchives
    <3>1. PICK leftOut : scope' = Filter(Plan, ToSet(Plan) \ leftOut)
      BY <2>2 DEF FormArchives
    <3> QED BY <1>2, <3>1, FormedArchives
  <2>3. CASE ~ FormArchives
    <3>1. scope' = scope \/ scope' = <<>>
      BY <2>3 DEF OtherStep, ScheduleSync, Navigate, Restart, Sync, SyncSession, DeliverEntry,
         FailEntry, AbortSync, EndDelivery, BeginArchives, ScopeBeforeReading, ArchivesUnreconciled,
         RefreshActiveContext, TakeoverMessages, BeginCheckpoint, LandCheckpoint, PublishState,
         vars, manager
    <3> QED BY <1>2, <2>1, <3>1
  <2> QED BY <2>2, <2>3
<1>4. LastFine(last')
  <2>1. CASE PublishState
    <3>1. last' = IF Consumed = 0 THEN {} ELSE {scope[Consumed]}
      BY <2>1 DEF PublishState
    <3>2. Consumed \in 0..Len(scope)
      BY <1>2, ConsumedIs
    <3>3. Consumed # 0 => Consumed \in 1..Len(scope)
      BY <1>2, <3>2
    <3> QED BY <1>2, <3>1, <3>3
  <2>2. CASE ~ PublishState
    <3>1. last' = last \/ last' = {}
      BY <2>2 DEF OtherStep, ScheduleSync, Navigate, Restart, Sync, SyncSession, DeliverEntry,
         FailEntry, AbortSync, EndDelivery, BeginArchives, FormArchives, ArchivesUnreconciled,
         EndSync, RefreshActiveContext, TakeoverMessages, BeginCheckpoint, LandCheckpoint,
         vars, manager
    <3> QED BY <1>2, <3>1
  <2> QED BY <2>1, <2>2
<1>5. FactsFine(checkpoints' \union inflight')
  <2>1. CASE BeginCheckpoint
    <3>1. PICK k : k = Consumed + 1
      OBVIOUS
    <3>2. k \in 1..Len(scope)
      <4>1. Consumed \in 0..Len(scope) /\ Consumed < Len(scope)
        BY <1>2, <2>1, ConsumedIs DEF BeginCheckpoint
      <4> QED BY <1>2, <3>1, <4>1
    <3>3. checkpoints' = checkpoints /\ inflight' = {CheckpointFact(k)}
      BY <2>1, <3>1 DEF BeginCheckpoint
    <3>4. CheckpointFact(k).archive = scope[k]
      BY DEF CheckpointFact
    <3> QED BY <1>2, <3>2, <3>3, <3>4
  <2>2. CASE ~ BeginCheckpoint
    <3>1. checkpoints' \union inflight' \subseteq checkpoints \union inflight
      BY <2>2 DEF OtherStep, ScheduleSync, Navigate, Restart, Sync, SyncSession, DeliverEntry,
         FailEntry, AbortSync, EndDelivery, BeginArchives, FormArchives, ArchivesUnreconciled,
         EndSync, RefreshActiveContext, TakeoverMessages, LandCheckpoint, PublishState,
         vars, manager
    <3> QED BY <1>2, <3>1
  <2> QED BY <2>1, <2>2
<1> HIDE DEF ScopeFine, LastFine, FactsFine
<1>6. ScopeFine(scope') /\ LastFine(last') /\ FactsFine(checkpoints' \union inflight')
      => ArchivesSound'
  BY <1>1 DEF ArchivesSound, ScopeFine, LastFine, FactsFine
<1> QED BY <1>3, <1>4, <1>5, <1>6


\* What is lost stays lost.
LEMMA LostGrows ==
  ASSUME skipped \subseteq skipped'
  PROVE Lost \subseteq Lost'
BY DEF Lost

LEMMA SkippedGrows ==
  ASSUME OtherStep
  PROVE skipped \subseteq skipped'
BY DEF OtherStep, ScheduleSync, Navigate, Restart, Sync, SyncSession, DeliverEntry, FailEntry,
       AbortSync, EndDelivery, BeginArchives, FormArchives, ArchivesUnreconciled, EndSync,
       RefreshActiveContext, TakeoverMessages, BeginCheckpoint, LandCheckpoint, PublishState, vars

LEMMA ScopeKept ==
  ASSUME IInv, OtherStep
  PROVE ScopeCovers'
<1>1. tree' = tree /\ (\A i : EventsUpTo(i)' = EventsUpTo(i)) /\ Lost \subseteq Lost'
  BY SameTree, SameEvents, SkippedGrows, LostGrows
<1>2. Shape /\ ScopeCovers /\ WellFormed(tree) /\ Len(tree) \in Nat /\ ArchivesSound
  BY DEF IInv, Shape, WellFormed
<1> DEFINE Covers(s, seen, lost) ==
      \A k \in 1..Len(s) :
        /\ IsAncestorEntry(tree, EndOf(s[k]), seen)
        /\ EventsUpTo(EndOf(s[k])) \subseteq
             EventsUpTo(EndBefore(s, k)) \union ToSet(s[k].content) \union lost
<1>3. Covers(scope, seenLeaf, Lost) /\ Covers(scope, seenLeaf, Lost')
  BY <1>1, <1>2 DEF ScopeCovers
<1>4. \A seen, lost : Covers(<<>>, seen, lost)
  <2>1. PICK e : e = <<>>
    OBVIOUS
  <2>2. Len(e) = 0
    BY <2>1
  <2>3. \A seen, lost : Covers(e, seen, lost)
    BY <2>2
  <2> QED BY <2>1, <2>3
<1>5. Covers(scope', seenLeaf', Lost')
  <2>1. CASE FailEntry \/ EndDelivery
    <3>1. scope' = ScopeBeforeReading /\ seenLeaf' = op.leaf
      BY <2>1 DEF FailEntry, EndDelivery, BeginArchives
    <3>2. CASE ~ BranchContinues
      BY <1>4, <3>1, <3>2 DEF ScopeBeforeReading
    <3>3. CASE BranchContinues
      <4>1. scope' = scope
        BY <3>1, <3>3 DEF ScopeBeforeReading
      <4>2. op.leaf \in 0..Len(tree)
        BY <1>2 DEF Shape, Operation
      <4>3. ASSUME NEW k \in 1..Len(scope) PROVE IsAncestorEntry(tree, EndOf(scope[k]), op.leaf)
        <5>1. IsAncestorEntry(tree, EndOf(scope[k]), seenLeaf)
          BY <1>3
        <5>2. seenLeaf # 0
          BY <1>2, <5>1, AncestorStep
        <5>3. IsAncestorEntry(tree, seenLeaf, op.leaf)
          BY <3>3, <5>2 DEF BranchContinues
        <5> QED BY <1>2, <4>2, <5>1, <5>3, AncestorTransitive
      <4> QED BY <1>3, <3>1, <4>1, <4>3
    <3> QED BY <3>2, <3>3
  <2>2. CASE FormArchives
    <3>1. PICK leftOut : /\ scope' = Filter(Plan, ToSet(Plan) \ leftOut)
                         /\ skipped' = skipped \union leftOut
      BY <2>2 DEF FormArchives
    <3>2. seenLeaf' = seenLeaf /\ op.at = "archive" /\ seenLeaf = op.leaf
      BY <1>2, <2>2 DEF FormArchives, EndSync, Shape
    <3>3. PICK s : s = Filter(Plan, ToSet(Plan) \ leftOut)
      OBVIOUS
    <3>4. /\ \A k \in 1..Len(s) : IsAncestorEntry(tree, EndOf(s[k]), op.leaf)
          /\ Covering(tree, s, Lost \union UNION {ToSet(a.content) : a \in leftOut})
      BY <1>2, <3>3, FormedArchives
    <3>5. Lost \union UNION {ToSet(a.content) : a \in leftOut} = Lost'
      BY <3>1 DEF Lost
    <3>6. Covering(tree, s, Lost')
      BY <3>4, <3>5
    <3>7. \A i : EventsUpTo(i) = ToSet(Events(tree, i))
      BY DEF EventsUpTo, BranchEvents, Events
    <3>8. Covers(s, op.leaf, Lost')
      BY <3>4, <3>6, <3>7 DEF Covering
    <3> QED BY <3>1, <3>2, <3>3, <3>8
  <2>3. CASE Restart
    <3>1. scope' = <<>>
      BY <2>3 DEF Restart
    <3> QED BY <1>4, <3>1
  <2>4. CASE OtherStep /\ ~ FailEntry /\ ~ EndDelivery /\ ~ FormArchives /\ ~ Restart
    <3>1. scope' = scope /\ seenLeaf' = seenLeaf
      BY <2>4 DEF OtherStep, ScheduleSync, Navigate, Sync, SyncSession, DeliverEntry, AbortSync,
         ArchivesUnreconciled, EndSync, RefreshActiveContext, TakeoverMessages, BeginCheckpoint,
         LandCheckpoint, PublishState, vars, manager
    <3> QED BY <1>3, <3>1
  <2> QED BY <2>1, <2>2, <2>3, <2>4
<1> QED BY <1>1, <1>5 DEF ScopeCovers

LEMMA CheckpointsKept ==
  ASSUME IInv, OtherStep
  PROVE CheckpointsCover'
<1>1. (\A i : EventsUpTo(i)' = EventsUpTo(i)) /\ Lost \subseteq Lost'
  BY SameTree, SameEvents, SkippedGrows, LostGrows
<1>2. Shape /\ ScopeCovers /\ CheckpointsCover /\ ArchivesSound
  BY DEF IInv
<1> DEFINE Covers(S) == \A c \in S : EventsUpTo(EndOf(c.archive)) \subseteq c.covers \union Lost
<1>3. Covers(checkpoints \union inflight)
  BY <1>2 DEF CheckpointsCover
<1>4. Covers(checkpoints' \union inflight')
  <2>1. CASE BeginCheckpoint
    <3>1. PICK k : k = Consumed + 1
      OBVIOUS
    <3>2. k \in 1..Len(scope) /\ (k = 1 \/ k - 1 \in 1..Consumed)
      <4>1. Consumed \in 0..Len(scope) /\ Consumed < Len(scope) /\ Len(scope) \in Nat
        BY <1>2, <2>1, ConsumedIs DEF BeginCheckpoint, ArchivesSound
      <4> QED BY <3>1, <4>1
    <3>3. checkpoints' = checkpoints /\ inflight' = {CheckpointFact(k)}
      BY <2>1, <3>1 DEF BeginCheckpoint
    <3>4. /\ CheckpointFact(k).archive = scope[k]
          /\ CheckpointFact(k).covers = Covered(Previous(k)) \union ToSet(scope[k].content)
      BY DEF CheckpointFact
    <3>5. EventsUpTo(EndOf(scope[k])) \subseteq
            EventsUpTo(EndBefore(scope, k)) \union ToSet(scope[k].content) \union Lost
      BY <1>2, <3>2 DEF ScopeCovers
    <3>6. EventsUpTo(EndBefore(scope, k)) \subseteq Covered(Previous(k)) \union Lost
      <4>1. CASE k = 1
        <5>1. EndBefore(scope, k) = 0
          BY <4>1 DEF EndBefore
        <5>2. PICK e : e = BranchEvents(0)
          OBVIOUS
        <5>3. e = <<>>
          BY <1>2, <5>2, EventsStep DEF BranchEvents, Events, Shape
        <5>4. DOMAIN e = {}
          BY <5>3
        <5>5. EventsUpTo(0) = {}
          BY <5>2, <5>4 DEF EventsUpTo, ToSet
        <5> QED BY <5>1, <5>5
      <4>2. CASE k # 1
        <5>1. PICK a, c : a = scope[k - 1] /\ c = CheckpointOf(a)
          OBVIOUS
        <5>2. Checkpointed(a)
          BY <1>2, <3>2, <4>2, <5>1, ConsumedIs
        <5>3. c \in checkpoints /\ c.archive = a
          BY <5>1, <5>2 DEF CheckpointOf, Checkpointed
        <5>4. EventsUpTo(EndOf(a)) \subseteq c.covers \union Lost
          BY <1>3, <5>3
        <5>5. Previous(k) = {a}
          BY <4>2, <5>1 DEF Previous
        <5>6. Covered({a}) = c.covers
          BY <5>1 DEF Covered
        <5>7. EndBefore(scope, k) = EndOf(a)
          BY <4>2, <5>1 DEF EndBefore
        <5> QED BY <5>4, <5>5, <5>6, <5>7
      <4> QED BY <4>1, <4>2
    <3>7. EventsUpTo(EndOf(scope[k])) \subseteq CheckpointFact(k).covers \union Lost
      BY <3>4, <3>5, <3>6
    <3> QED BY <1>3, <3>3, <3>4, <3>7
  <2>2. CASE ~ BeginCheckpoint
    <3>1. checkpoints' \union inflight' \subseteq checkpoints \union inflight
      BY <2>2 DEF OtherStep, ScheduleSync, Navigate, Restart, Sync, SyncSession, DeliverEntry,
         FailEntry, AbortSync, EndDelivery, BeginArchives, FormArchives, ArchivesUnreconciled,
         EndSync, RefreshActiveContext, TakeoverMessages, LandCheckpoint, PublishState,
         vars, manager
    <3> QED BY <1>3, <3>1
  <2> QED BY <2>1, <2>2
<1>5. ASSUME NEW c \in checkpoints' \union inflight'
      PROVE EventsUpTo(EndOf(c.archive))' \subseteq c.covers \union Lost'
  <2>1. EventsUpTo(EndOf(c.archive))' = EventsUpTo(EndOf(c.archive))
    <3>1. PICK e : e = EndOf(c.archive)
      OBVIOUS
    <3> QED BY <1>1, <3>1 DEF EndOf
  <2> QED BY <1>1, <1>4, <2>1
<1> QED BY <1>5 DEF CheckpointsCover


-----------------------------------------------------------------------------
(* The selection follows the branch *)

\* A selection that can be had on a branch is had there.
Shows(d, archives, checkpoint, selected) ==
  SelectActiveContext(BranchEvents(d), archives, checkpoint) # {} =>
    ActiveContextOnBranch(selected, BranchEvents(d))

LEMMA ResolvedShows ==
  ASSUME Shape, NEW d \in 0..Len(tree), NEW archives, NEW stored \in BOOLEAN,
         Resolved(BranchEvents(d), archives, stored), ~ roundFailure'
  PROVE Shows(d, archives, last, context')
<1>1. PICK events, candidate : /\ events = BranchEvents(d)
                               /\ candidate = SelectActiveContext(events, archives, last)
  OBVIOUS
<1>2. Len(events) \in Nat
  BY <1>1, EventsStep, LenProperties DEF BranchEvents, Events, Shape
<1>3. stored
  BY DEF Resolved
<1>4. context' = IF ActiveContextOnBranch(Held, events) THEN Held ELSE candidate
  BY <1>1, <1>3 DEF Resolved
<1>5. candidate # {} => ActiveContextOnBranch(candidate, events)
  BY <1>1, <1>2, SelectedOnBranch
<1> QED BY <1>1, <1>4, <1>5 DEF Shows

LEMMA FollowsKept ==
  ASSUME IInv, OtherStep
  PROVE SelectionFollows'
<1>1. tree' = tree
  BY SameTree
<1>2. Shape /\ SelectionFollows
  BY DEF IInv
<1>3. op.at # "archive" /\ job = None /\ ~ refresh /\ snapshot # None /\ ~ roundFailure
        /\ leaf = snapshot.leaf => Shows(snapshot.leaf, committed, last, context)
  BY <1>2 DEF SelectionFollows, Shows
<1>4. SUFFICES ASSUME op'.at # "archive", job' = None, ~ refresh', snapshot' # None,
                      ~ roundFailure', leaf' = snapshot'.leaf
               PROVE Shows(snapshot'.leaf, committed', last', context')
  BY <1>1 DEF SelectionFollows, Shows, BranchEvents
<1>5. CASE FormArchives \/ ArchivesUnreconciled
  <2>1. PICK archives : EndSync(archives) /\ committed' = archives
    BY <1>5 DEF FormArchives, ArchivesUnreconciled
  <2>2. PICK stored \in BOOLEAN : Resolved(BranchEvents(op.leaf), archives, stored)
    BY <2>1 DEF EndSync
  <2>3. op.leaf \in 0..Len(tree)
    BY <1>2 DEF Shape, Operation, WellFormed
  <2>4. last' = last /\ job' \in JobLeft /\ snapshot' = snapshot
    BY <2>1 DEF EndSync
  <2>5. Shows(op.leaf, archives, last, context')
    BY <1>2, <1>4, <2>2, <2>3, ResolvedShows
  <2>6. snapshot.leaf = op.leaf
    BY <1>2, <1>5 DEF FormArchives, ArchivesUnreconciled, Shape
  <2> QED BY <2>1, <2>4, <2>5, <2>6
<1>6. CASE RefreshActiveContext
  <2>1. snapshot' = snapshot /\ committed' = committed /\ last' = last
    BY <1>6 DEF RefreshActiveContext, manager
  <2>2. PICK stored \in BOOLEAN : Resolved(BranchEvents(snapshot.leaf), committed, stored)
    BY <1>4, <1>6, <2>1 DEF RefreshActiveContext
  <2>3. snapshot.leaf \in 0..Len(tree)
    BY <1>2, <1>4, <2>1 DEF Shape, Moment, Snapshot, WellFormed
  <2> QED BY <1>2, <1>4, <2>1, <2>2, <2>3, ResolvedShows
<1>7. CASE TakeoverMessages
  <2>1. PICK capacity, candidate, events :
          /\ events = BranchEvents(leaf) /\ candidate = Candidate(events)
          /\ EvaluateEligibility(capacity, Payloads(candidate, events)) = "eligible"
          /\ context' = candidate
    BY <1>7 DEF TakeoverMessages
  <2>2. UNCHANGED <<leaf, snapshot, committed, last>>
    BY <1>7 DEF TakeoverMessages, harness, manager
  <2>3. Payloads(candidate, events) # {}
    BY <2>1 DEF EvaluateEligibility
  <2>4. candidate # {}
    BY <2>3 DEF Payloads
  <2>5. ActiveContextOnBranch(candidate, events)
    BY <2>1, <2>4 DEF Candidate
  <2> QED BY <1>4, <2>1, <2>2, <2>5 DEF Shows
<1>8. CASE PublishState
  <2>1. refresh'
    BY <1>8 DEF PublishState, Notified
  <2> QED BY <1>4, <2>1
<1>9. CASE ScheduleSync \/ Navigate
  <2>1. job' \in [len : Nat, leaf : Nat]
    <3>1. Len(tree) \in Nat /\ leaf' \in Nat /\ leaf \in Nat
      BY <1>2, <1>9 DEF Shape, WellFormed, ScheduleSync, Navigate, harness
    <3> QED BY <1>9, <3>1 DEF ScheduleSync, Navigate, Current
  <2> QED BY <1>4, <2>1, SessionAssumption
<1>10. CASE Restart
  BY <1>4, <1>10 DEF Restart
<1>11. CASE FailEntry \/ EndDelivery
  <2>1. PICK delivered : op' = [op EXCEPT !.at = "archive", !.delivered = delivered]
    BY <1>11 DEF FailEntry, EndDelivery, BeginArchives
  <2>2. op \in Operation
    BY <1>2 DEF Shape
  <2>3. op'.at = "archive"
    BY <2>1, <2>2 DEF Operation
  <2> QED BY <1>4, <2>3
<1>12. CASE SyncSession
  BY <1>4, <1>12 DEF SyncSession
<1>13. CASE DeliverEntry \/ AbortSync \/ BeginCheckpoint \/ LandCheckpoint \/ UNCHANGED vars
  <2>1. UNCHANGED <<leaf, job, snapshot, refresh, roundFailure, committed, last, context>>
    BY <1>13 DEF DeliverEntry, AbortSync, BeginCheckpoint, LandCheckpoint, vars, harness, manager,
       selection
  <2>2. op.at # "archive"
    BY <1>4, <1>13 DEF DeliverEntry, AbortSync, BeginCheckpoint, LandCheckpoint, vars
  <2> QED BY <1>3, <1>4, <2>1, <2>2
<1> QED BY <1>5, <1>6, <1>7, <1>8, <1>9, <1>10, <1>11, <1>12, <1>13 DEF OtherStep, Sync

-----------------------------------------------------------------------------
(* The step that grows the tree *)

LEMMA TreeGrows ==
  ASSUME IInv, AppendEntry
  PROVE /\ Grown(tree', tree) /\ Len(tree') = Len(tree) + 1
        /\ tree' \in Seq([parent : Nat, kind : Kind, parts : Nat \ {0}])
        /\ Len(tree') <= MaxEntries /\ leaf' = Len(tree')
<1>1. Shape
  BY DEF IInv
<1> DEFINE Entry == [parent : Nat, kind : Kind, parts : Nat \ {0}]
<1>2. PICK d \in Drafts : tree' = Append(tree, [parent |-> leaf, kind |-> d.kind, parts |-> d.parts])
  BY DEF AppendEntry
<1>3. PICK e : e = [parent |-> leaf, kind |-> d.kind, parts |-> d.parts]
  OBVIOUS
<1>4. /\ tree \in Seq(Entry) /\ WellFormed(tree) /\ leaf \in 0..Len(tree) /\ Len(tree) \in Nat
      /\ Len(tree) < MaxEntries /\ MaxEntries \in Nat /\ leaf' = Len(tree')
  BY <1>1, SessionAssumption DEF Shape, WellFormed, AppendEntry
<1>5. e \in Entry /\ e.parent = leaf
  BY <1>3, <1>4, SessionAssumption
<1>6. tree' = Append(tree, e)
  BY <1>2, <1>3
<1> HIDE DEF Entry
<1>7. /\ tree' \in Seq(Entry) /\ Len(tree') = Len(tree) + 1
      /\ tree'[Len(tree) + 1] = e
      /\ \A i \in 1..Len(tree) : tree'[i] = tree[i]
  BY <1>4, <1>5, <1>6, AppendProperties
<1>8. ASSUME NEW i \in 1..Len(tree')
      PROVE tree'[i].parent \in 0..(i - 1) /\ tree'[i].parts \in Nat \ {0}
  <2>1. CASE i \in 1..Len(tree)
    BY <1>4, <1>7, <2>1 DEF WellFormed
  <2>2. CASE i = Len(tree) + 1
    BY <1>4, <1>5, <1>7, <2>2 DEF Entry
  <2> QED BY <1>4, <1>7, <2>1, <2>2
<1>9. WellFormed(tree')
  BY <1>4, <1>7, <1>8 DEF WellFormed
<1>10. Len(tree) <= Len(tree') /\ Len(tree') <= MaxEntries
  BY <1>4, <1>7
<1> QED BY <1>4, <1>7, <1>9, <1>10 DEF Grown, Entry


LEMMA AppendKeeps ==
  ASSUME IInv, AppendEntry
  PROVE IInv'
<1>1. Grown(tree', tree) /\ Len(tree') = Len(tree) + 1 /\ leaf' = Len(tree')
      /\ tree' \in Seq([parent : Nat, kind : Kind, parts : Nat \ {0}]) /\ Len(tree') <= MaxEntries
  BY TreeGrows
<1>2. UNCHANGED <<job, op, remote, checkpoints, ackFile, ack, seenLeaf, committed, snapshot,
                  refresh, scope, inflight, last, contextFile, context, skipped>>
  BY DEF AppendEntry, acks, manager, selection
<1>3. /\ Shape /\ AckSound(ack) /\ AckSound(ackFile) /\ SelectionSound /\ ArchivesSound
      /\ ScopeCovers /\ CheckpointsCover
      /\ WellFormed(tree) /\ Len(tree) \in Nat /\ WellFormed(tree') /\ Len(tree') \in Nat
  BY <1>1 DEF IInv, Shape, WellFormed, Grown
<1>4. /\ \A i \in 0..Len(tree) : Branch(tree', i) = Branch(tree, i)
      /\ \A i \in 0..Len(tree) : Events(tree', i) = Events(tree, i)
      /\ \A i \in 1..Len(tree) : tree'[i] = tree[i]
  BY <1>1, EventsKept DEF Grown
<1>5. \A i \in 0..Len(tree) : \A a : IsAncestorEntry(tree', a, i) <=> IsAncestorEntry(tree, a, i)
  BY <1>4 DEF IsAncestorEntry
<1>6. \A i \in 0..Len(tree) : EventsUpTo(i)' = EventsUpTo(i)
  BY <1>4 DEF EventsUpTo, BranchEvents, Events
<1>7. \A a : Worked(a) => Worked(a)'
  <2> SUFFICES ASSUME NEW a, Worked(a) PROVE Worked(a)'
    OBVIOUS
  <2>1. PICK i \in 1..Len(tree) : Contains(DescribeArchives(Events(tree, i)), a)
    BY DEF Worked, BranchEvents, Events
  <2>2. i \in 1..Len(tree') /\ i \in 0..Len(tree)
    BY <1>1, <1>3
  <2>3. Contains(DescribeArchives(Events(tree', i)), a)
    BY <1>4, <2>1, <2>2
  <2> QED BY <2>2, <2>3 DEF Worked, BranchEvents, Events
<1>8. \A a : Bounded(tree, a) => Bounded(tree', a)
  BY SMTT(20), <1>1, <1>3, <1>4 DEF Bounded
<1>9. \A c : Anchored(tree, c) => Anchored(tree', c)
  <2> SUFFICES ASSUME NEW c, Anchored(tree, c) PROVE Anchored(tree', c)
    OBVIOUS
  <2>1. PICK f : f = c.start[1]
    OBVIOUS
  <2>2. /\ Bounded(tree, c.checkpoint) /\ c.start = <<f, 1>>
        /\ f \in 1..Len(tree) /\ tree[f].parent = EndOf(c.checkpoint)
    BY <2>1 DEF Anchored
  <2>3. Bounded(tree', c.checkpoint) /\ f \in 1..Len(tree') /\ tree'[f] = tree[f]
    BY <1>1, <1>3, <1>4, <1>8, <2>2
  <2> QED BY <2>1, <2>2, <2>3 DEF Anchored
<1>10. Shape'
  <2>1. \A s : Moment(s) => Moment(s)' /\ s.len <= Len(tree')
    BY <1>1, <1>3 DEF Moment, Snapshot
  <2>2. /\ (job = None \/ Moment(job)) /\ (snapshot = None \/ Moment(snapshot))
        /\ op \in Operation /\ op.leaf <= op.len /\ op.len <= Len(tree) /\ op.len \in Nat
        /\ seenLeaf \in 0..Len(tree) /\ remote \subseteq 1..Len(tree)
        /\ op.at = "archive" => /\ seenLeaf = op.leaf
                                /\ snapshot = [len |-> op.len, leaf |-> op.leaf]
    BY <1>3 DEF Shape, Operation
  <2>3. (job' = None \/ Moment(job)') /\ (snapshot' = None \/ Moment(snapshot)')
    <3>1. (Moment(job) => Moment(job)') /\ (Moment(snapshot) => Moment(snapshot)')
      BY <1>1, <1>2, <1>3 DEF Moment, Snapshot
    <3> QED BY <1>2, <2>2, <3>1
  <2>4. /\ op' \in Operation /\ op'.leaf <= op'.len /\ op'.len <= Len(tree')
        /\ seenLeaf' \in 0..Len(tree') /\ remote' \subseteq 1..Len(tree')
    BY <1>1, <1>2, <1>3, <2>2
  <2>5. leaf' \in 0..Len(tree') /\ WellFormed(tree)'
    BY <1>1, <1>3
  <2> QED BY <1>1, <1>2, <2>2, <2>3, <2>4, <2>5 DEF Shape
<1>11. AckSound(ack)' /\ AckSound(ackFile)'
  <2>1. ASSUME NEW a, a \subseteq 1..Len(tree),
               \A i, j \in a : i # j => ~ IsAncestorEntry(tree, i, j),
               \A i \in 1..Len(tree) : IsEntryAcknowledged(tree, a, i) => i \in remote
        PROVE /\ a \subseteq 1..Len(tree')
              /\ \A i, j \in a : i # j => ~ IsAncestorEntry(tree', i, j)
              /\ \A i \in 1..Len(tree') : IsEntryAcknowledged(tree', a, i) => i \in remote
    <3>1. a \subseteq 1..Len(tree') /\ a \subseteq 0..Len(tree)
      BY <1>1, <1>3, <2>1
    <3>2. \A i, j \in a : i # j => ~ IsAncestorEntry(tree', i, j)
      BY <1>5, <2>1, <3>1
    <3>3. ASSUME NEW i \in 1..Len(tree'), IsEntryAcknowledged(tree', a, i) PROVE i \in remote
      <4>1. PICK l \in a : IsAncestorEntry(tree, i, l)
        BY <1>5, <3>1, <3>3 DEF IsEntryAcknowledged
      <4>2. l \in 0..Len(tree) /\ i \in 1..l
        BY <1>3, <3>1, <4>1, AncestorBound
      <4>3. i \in 1..Len(tree)
        BY <1>3, <4>2
      <4> QED BY <2>1, <4>1, <4>3 DEF IsEntryAcknowledged
    <3> QED BY <3>1, <3>2, <3>3
  <2> QED BY <1>2, <1>3, <2>1 DEF AckSound
<1>12. SelectionSound'
  <2>1. \A a : Checkpointed(a)' <=> Checkpointed(a)
    BY <1>2 DEF Checkpointed
  <2> QED BY <1>2, <1>3, <1>9, <2>1 DEF SelectionSound, AtMostOne
<1>13. ArchivesSound'
  BY <1>2, <1>3, <1>7 DEF ArchivesSound
<1>14. \A a : Worked(a) => EndOf(a) \in 1..Len(tree) /\ EndOf(a) \in 0..Len(tree)
  BY <1>3, WorkedIsBounded DEF Bounded
<1>15. Lost' = Lost
  BY <1>2 DEF Lost
<1>16. ScopeCovers'
  <2>1. ASSUME NEW k \in 1..Len(scope)
        PROVE /\ IsAncestorEntry(tree', EndOf(scope[k]), seenLeaf)
              /\ EventsUpTo(EndOf(scope[k]))' \subseteq
                   EventsUpTo(EndBefore(scope, k))' \union ToSet(scope[k].content) \union Lost'
    <3>1. PICK i, j : i = EndOf(scope[k]) /\ j = EndBefore(scope, k)
      OBVIOUS
    <3>2. i \in 0..Len(tree)
      BY <1>3, <1>14, <3>1 DEF ArchivesSound
    <3>3. j \in 0..Len(tree)
      <4>1. CASE k = 1
        BY <1>3, <3>1, <4>1 DEF EndBefore
      <4>2. CASE k # 1
        <5>1. k - 1 \in 1..Len(scope) /\ j = EndOf(scope[k - 1])
          BY <1>3, <3>1, <4>2 DEF ArchivesSound, EndBefore
        <5> QED BY <1>3, <1>14, <5>1 DEF ArchivesSound
      <4> QED BY <4>1, <4>2
    <3>4. /\ IsAncestorEntry(tree, i, seenLeaf)
          /\ EventsUpTo(i) \subseteq EventsUpTo(j) \union ToSet(scope[k].content) \union Lost
      BY <1>3, <3>1 DEF ScopeCovers
    <3>5. IsAncestorEntry(tree', i, seenLeaf)
      BY <1>3, <1>5, <3>4 DEF Shape
    <3>6. EventsUpTo(i)' = EventsUpTo(i) /\ EventsUpTo(j)' = EventsUpTo(j)
      BY <1>6, <3>2, <3>3
    <3>7. EndOf(scope[k])' = i /\ EndBefore(scope, k)' = j
      BY <1>2, <3>1 DEF EndOf, EndBefore
    <3>8. EventsUpTo(i)' \subseteq EventsUpTo(j)' \union ToSet(scope[k].content) \union Lost'
      BY <1>15, <3>4, <3>6
    <3>9. EventsUpTo(EndOf(scope[k]))' = EventsUpTo(i)' /\ EventsUpTo(EndBefore(scope, k))' = EventsUpTo(j)'
      BY <3>7 DEF EventsUpTo, BranchEvents
    <3> QED BY <3>1, <3>5, <3>8, <3>9
  <2> QED BY <1>2, <2>1 DEF ScopeCovers
<1>17. CheckpointsCover'
  <2>1. ASSUME NEW c \in checkpoints \union inflight
        PROVE EventsUpTo(EndOf(c.archive))' \subseteq c.covers \union Lost'
    <3>1. PICK i : i = EndOf(c.archive)
      OBVIOUS
    <3>2. i \in 0..Len(tree)
      BY <1>3, <1>14, <3>1 DEF ArchivesSound
    <3>3. EventsUpTo(i) \subseteq c.covers \union Lost
      BY <1>3, <3>1 DEF CheckpointsCover
    <3>4. EventsUpTo(i)' = EventsUpTo(i)
      BY <1>6, <3>2
    <3> QED BY <1>15, <3>1, <3>3, <3>4
  <2> QED BY <1>2, <2>1 DEF CheckpointsCover
<1>18. SelectionFollows'
  <2>1. snapshot # None => snapshot.leaf \in 0..Len(tree)
    BY <1>3 DEF Shape, Moment, Snapshot
  <2>2. snapshot' # None => leaf' # snapshot'.leaf
    BY <1>1, <1>2, <1>3, <2>1
  <2> QED BY <2>2 DEF SelectionFollows
<1> QED BY <1>10, <1>11, <1>12, <1>13, <1>16, <1>17, <1>18 DEF IInv

LEMMA Starts ==
  ASSUME Init
  PROVE IInv
<1>1. PICK e : e = <<>>
  OBVIOUS
<1>2. e \in Seq([parent : Nat, kind : Kind, parts : Nat \ {0}]) /\ Len(e) = 0
  BY <1>1
<1>3. tree = e /\ scope = e /\ committed = e
  BY <1>1 DEF Init
<1>4. WellFormed(tree) /\ Len(tree) = 0 /\ Len(scope) = 0
  BY <1>2, <1>3 DEF WellFormed
<1>5. op = [at |-> "idle", len |-> 0, leaf |-> 0, delivered |-> FALSE] /\ MaxEntries \in Nat
  BY SessionAssumption DEF Init, Idle
<1>6. Shape
  BY <1>2, <1>3, <1>4, <1>5 DEF Init, Shape, Operation
<1>7. AckSound(ack) /\ AckSound(ackFile)
  BY DEF Init, AckSound, IsEntryAcknowledged
<1>8. SelectionSound
  BY DEF Init, SelectionSound, AtMostOne
<1>9. ArchivesSound /\ ScopeCovers /\ CheckpointsCover
  BY <1>4 DEF Init, ArchivesSound, ScopeCovers, CheckpointsCover
<1>10. SelectionFollows
  BY DEF Init, SelectionFollows
<1> QED BY <1>6, <1>7, <1>8, <1>9, <1>10 DEF IInv

LEMMA Inductive ==
  ASSUME IInv, [Next]_vars
  PROVE IInv'
<1>1. AppendEntry \/ OtherStep
  BY DEF Next, OtherStep
<1>2. CASE OtherStep
  BY <1>2, ShapeKept, AckKept, SelectionKept, WorkedKept, ScopeKept, CheckpointsKept, FollowsKept
     DEF IInv
<1> QED BY <1>1, <1>2, AppendKeeps

LEMMA Invariance == Spec => []IInv
<1>1. Init => IInv
  BY Starts
<1>2. IInv /\ [Next]_vars => IInv'
  BY Inductive
<1> QED BY <1>1, <1>2, PTL DEF Spec


-----------------------------------------------------------------------------
(* Theorems *)

\* Trees, snapshots and operations have their types, acknowledged leaves are the
\* fewest that say what they say (advanceSyncAck, shared/sync-ack.mjs), and there
\* is one selection at most (ActiveContextManager).
THEOREM TypeCorrect == Spec => []TypeOK
<1>1. IInv => TypeOK
  <2> SUFFICES ASSUME IInv PROVE TypeOK
    OBVIOUS
  <2>1. Shape /\ AckSound(ack) /\ AckSound(ackFile) /\ SelectionSound
    BY DEF IInv
  <2>2. \A i \in 1..Len(tree) : tree[i].parent < i /\ tree[i].kind \in Kind
    <3> TAKE i \in 1..Len(tree)
    <3>1. tree[i] \in [parent : Nat, kind : Kind, parts : Nat \ {0}]
      BY <2>1, ElementOfSeq DEF Shape
    <3>2. tree[i].parent \in 0..(i - 1)
      BY <2>1 DEF Shape, WellFormed
    <3>3. i \in Nat
      OBVIOUS
    <3> QED BY <3>1, <3>2, <3>3
  <2>3. /\ Cardinality(context) <= 1 /\ Cardinality(contextFile) <= 1
        /\ Cardinality(last) <= 1
    BY <2>1, OneAtMost DEF SelectionSound
  <2>4. \A a \in {ack, ackFile} : \A i, j \in a : i # j => ~ IsAncestorEntry(tree, i, j)
    BY <2>1 DEF AckSound
  <2>5. /\ leaf \in 0..Len(tree) /\ op \in Operation /\ remote \subseteq 1..Len(tree)
        /\ job \in Snapshot \union {None} /\ snapshot \in Snapshot \union {None}
    BY <2>1 DEF Shape, Moment
  <2> QED BY <2>2, <2>3, <2>4, <2>5 DEF TypeOK
<1> QED BY <1>1, Invariance, PTL

\* Whatever failed, was aborted or restarted on the way, an entry that counts as
\* acknowledged, in memory or in the file, is on the server (syncSource of
\* sync.ts, advanceSyncAck of shared/sync-ack.mjs).
THEOREM AcknowledgedIsStored == Spec => []AckCoversAccepted
<1>1. IInv => AckCoversAccepted
  BY DEF IInv, AckSound, AckCoversAccepted
<1> QED BY <1>1, Invariance, PTL

\* An archive once due on a branch stays due, with the same content, on all that
\* grows from it: planArchives of shared/archive.mjs only appends, for every tree
\* and every budget.
THEOREM ArchivesStayDue == Spec => []PlanIsStable
<1>1. IInv => PlanIsStable
  <2> SUFFICES ASSUME IInv, NEW i \in 1..Len(tree)
               PROVE IsPrefix(DescribeArchives(BranchEvents(tree[i].parent)),
                              DescribeArchives(BranchEvents(i)))
    BY DEF PlanIsStable
  <2>1. WellFormed(tree) /\ Len(tree) \in Nat
    BY DEF IInv, Shape, WellFormed
  <2>2. PICK p : p = tree[i].parent
    OBVIOUS
  <2>3. p \in 0..(i - 1) /\ p \in 0..Len(tree) /\ i \in 0..Len(tree)
    BY <2>1, <2>2 DEF WellFormed
  <2>4. IsAncestorEntry(tree, p, i) \/ p = 0
    <3>1. CASE p # 0
      <4>1. p \in 1..Len(tree)
        BY <2>3, <3>1
      <4>2. IsAncestorEntry(tree, p, p)
        BY <2>1, <4>1, AncestorStep
      <4> QED BY <2>1, <2>2, <4>2, AncestorStep
    <3> QED BY <3>1
  <2>5. IsPrefix(DescribeArchives(Events(tree, p)), DescribeArchives(Events(tree, i)))
    BY ONLY <2>1, <2>3, <2>4, ArchivesKept, HistoryAssumption
  <2> QED BY <2>2, <2>5 DEF BranchEvents, Events
<1> QED BY <1>1, Invariance, PTL

\* The checkpoint manager only works for the branch that was synced last
\* (formArchives, sync.ts), and once all is acknowledged each archive it ever
\* worked on is still due on some branch (checkpointArchiveChains).
THEOREM ScopeFollowsBranch == Spec => []ScopeOnBranch
<1>1. IInv => ScopeOnBranch
  <2> SUFFICES ASSUME IInv PROVE ScopeOnBranch
    OBVIOUS
  <2>1. WellFormed(tree) /\ Len(tree) \in Nat /\ ScopeCovers /\ ArchivesSound
    BY DEF IInv, Shape, WellFormed
  <2>2. \A k \in 1..Len(scope) : IsAncestorEntry(tree, scope[k].last[1], seenLeaf)
    BY <2>1 DEF ScopeCovers, EndOf
  <2>3. ASSUME \A i \in 1..Len(tree) : IsEntryAcknowledged(tree, ack, i),
               NEW c \in checkpoints \union inflight
        PROVE \E chain \in ArchiveChains : Contains(chain, c.archive)
    <3>1. Worked(c.archive)
      BY <2>1 DEF ArchivesSound
    <3>2. PICK i \in 1..Len(tree) : Contains(DescribeArchives(Events(tree, i)), c.archive)
      BY <3>1 DEF Worked, BranchEvents, Events
    <3>3. PICK l \in Leaves(tree) : l \in 1..Len(tree) /\ IsAncestorEntry(tree, i, l)
      BY <2>1, LeafAbove
    <3>4. i \in 0..Len(tree) /\ l \in 0..Len(tree)
      BY <2>1, <3>3
    <3>5. Extends(DescribeArchives(Events(tree, l)), DescribeArchives(Events(tree, i)))
      BY ONLY <2>1, <3>3, <3>4, ArchivesKept, HistoryAssumption
    <3>6. PICK x, y : x = DescribeArchives(Events(tree, i)) /\ y = DescribeArchives(Events(tree, l))
      OBVIOUS
    <3>7. PICK k \in 1..Len(x) : x[k] = c.archive
      BY <3>2, <3>6 DEF Contains
    <3>8. k \in 1..Len(y) /\ y[k] = c.archive
      BY <3>5, <3>6, <3>7 DEF Extends
    <3>9. Contains(y, c.archive)
      BY <3>8 DEF Contains
    <3>10. AcknowledgedPrefix(tree, ack, Branch(tree, l)) = Branch(tree, l)
      BY <2>1, <2>3, <3>4, AcknowledgedPrefixIsBranch
    <3>11. y = DescribeArchives(ProjectPiEntries(tree, AcknowledgedPrefix(tree, ack, Branch(tree, l))))
      BY <3>6, <3>10 DEF Events
    <3>12. y \in ArchiveChains
      BY <3>3, <3>11 DEF ArchiveChains
    <3> QED BY <3>9, <3>12
  <2> QED BY <2>2, <2>3 DEF ScopeOnBranch
<1> QED BY <1>1, Invariance, PTL

\* What lies before the end of a checkpoint's archive is part of the checkpoint.
LEMMA Summarises ==
  ASSUME IInv, NEW a, Checkpointed(a), NEW i, IsAncestorEntry(tree, i, EndOf(a)),
         EndOf(a) \in 1..Len(tree)
  PROVE ToSet(EventsOf(tree, i)) \subseteq Covered({a}) \union Lost
<1>1. WellFormed(tree) /\ CheckpointsCover
  BY DEF IInv, Shape
<1>2. PICK e, c : e = EndOf(a) /\ c = CheckpointOf(a)
  OBVIOUS
<1>3. c \in checkpoints /\ c.archive = a
  BY <1>2 DEF CheckpointOf, Checkpointed
<1>4. EventsUpTo(e) \subseteq c.covers \union Lost
  BY <1>1, <1>2, <1>3 DEF CheckpointsCover
<1>5. Covered({a}) = c.covers
  BY <1>2 DEF Covered
<1>6. e \in 0..Len(tree) /\ IsAncestorEntry(tree, i, e)
  BY <1>1, <1>2 DEF WellFormed
<1>7. ToSet(EventsOf(tree, i)) \subseteq ToSet(Events(tree, e))
  BY ONLY <1>1, <1>6, EventsOfAncestor, HistoryAssumption
<1> QED BY <1>4, <1>5, <1>7 DEF EventsUpTo, BranchEvents, Events

\* What replaces the context of the model forgets no message of the live branch:
\* takeoverMessages and the compaction of extensions/openviking.ts show it, keep
\* it, or have it in the checkpoint, but for archives that were skipped.
THEOREM ContextForgetsNothing == Spec => []NothingForgotten
<1>1. IInv => NothingForgotten
  <2> SUFFICES ASSUME IInv PROVE NothingForgotten
    OBVIOUS
  <2>1. /\ Shape /\ SelectionSound /\ ArchivesSound
        /\ WellFormed(tree) /\ leaf \in 0..Len(tree)
    BY DEF IInv, Shape
  <2>2. PICK branch, events : branch = Branch(tree, leaf) /\ events = Events(tree, leaf)
    OBVIOUS
  <2>3. events = BranchEvents(leaf)
    BY <2>2 DEF BranchEvents, Events
  <2>4. PICK latest : latest = SelectActiveContext(events, committed, last)
    OBVIOUS
  <2>5. /\ AtMostOne(latest)
        /\ \A c \in latest : Anchored(tree, c) /\ Checkpointed(c.checkpoint)
    BY <2>1, <2>3, <2>4, CandidateIs
  <2>6. /\ AtMostOne(context)
        /\ \A c \in context : Anchored(tree, c) /\ Checkpointed(c.checkpoint)
    BY <2>1 DEF SelectionSound
  <2>7. ASSUME NEW c, Anchored(tree, c), Checkpointed(c.checkpoint), NEW i,
               IsAncestorEntry(tree, i, EndOf(c.checkpoint))
        PROVE ToSet(EventsOf(tree, i)) \subseteq Covered({c.checkpoint}) \union Lost
    <3>1. EndOf(c.checkpoint) \in 1..Len(tree)
      BY <2>7 DEF Anchored, Bounded
    <3> QED BY <2>7, <3>1, Summarises
  <2>8. ASSUME NEW c \in MayTakeOver(events),
               NEW i \in ToSet(MessagesFromEvents(events)) \ ToSet(Replacement(c, events))
        PROVE ToSet(EventsOf(tree, i)) \subseteq Covered({c.checkpoint}) \union Lost
    <3>1. c \in Candidate(events)
      BY DEF MayTakeOver
    <3>2. /\ Candidate(events) \in {latest, context}
          /\ ActiveContextOnBranch(Candidate(events), events)
      BY <2>4, <3>1 DEF Candidate
    <3>3. Anchored(tree, c) /\ Checkpointed(c.checkpoint) /\ AtMostOne(Candidate(events))
      BY <2>5, <2>6, <3>1, <3>2
    <3>4. Position(events, c.start) # 0
      BY <3>1, <3>2, <3>3 DEF ActiveContextOnBranch, AtMostOne
    <3>5. /\ i \in ToSet(MessagesFromEvents(events))
          /\ i \notin ToSet(RenderActiveContextMessages(MaterializeActiveContext(c, events)))
      BY DEF Replacement
    <3>6. IsAncestorEntry(tree, i, EndOf(c.checkpoint))
      BY ONLY <2>1, <2>2, <3>3, <3>4, <3>5, TakeoverShows, HistoryAssumption
    <3> QED BY <2>7, <3>3, <3>6
  <2>9. ASSUME NEW c \in MayCompact(events),
               NEW i \in ToSet(MessagesFromEvents(events)) \
                         {branch[q] : q \in {u \in 1..Len(branch) :
                                               \E v \in 1..u : branch[v] = c.start[1]}}
        PROVE ToSet(EventsOf(tree, i)) \subseteq Covered({c.checkpoint}) \union Lost
    <3>1. c \in context /\ ActiveContextOnBranch({c}, events)
      BY DEF MayCompact
    <3>2. Anchored(tree, c) /\ Checkpointed(c.checkpoint)
      BY <2>6, <3>1
    <3>3. Position(events, c.start) # 0
      BY <3>1 DEF ActiveContextOnBranch
    <3>4. /\ i \in ToSet(MessagesFromEvents(events))
          /\ i \notin {branch[q] : q \in {u \in 1..Len(branch) :
                                            \E v \in 1..u : branch[v] = c.start[1]}}
      OBVIOUS
    <3>5. IsAncestorEntry(tree, i, EndOf(c.checkpoint))
      BY ONLY <2>1, <2>2, <3>2, <3>3, <3>4, CompactionKeeps, HistoryAssumption
    <3> QED BY <2>7, <3>2, <3>5
  <2> QED BY <2>2, <2>3, <2>8, <2>9 DEF NothingForgotten, Lost
<1> QED BY <1>1, Invariance, PTL

\* With nothing left to do, a checkpoint that can be taken over on the synced
\* branch is taken over there: the refresh that a change of lastCheckpointId
\* queues is never lost (scheduleActiveContextRefresh, sync.ts).
THEOREM CheckpointsAreSelected == Spec => []NoCheckpointMissed
<1>1. IInv => NoCheckpointMissed
  BY DEF IInv, SelectionFollows, NoCheckpointMissed
<1> QED BY <1>1, Invariance, PTL


=============================================================================
