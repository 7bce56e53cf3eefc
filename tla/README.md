# omp-ov-memory: verification

This directory holds TLA+ models of omp-ov-memory, an extension that copies
the conversations of a coding agent into an OpenViking server, keeps recorded
events, archives and checkpoints of them there, and recalls memories from it.
The code is `src/src/*.ts`, `src/src/shared/*.mjs` and
`src/extensions/openviking.ts`; paths below are from the repository's parent.

`tlc -config <Run>.cfg <Module>` repeats a run, with the module named in
section 2; `tlapm <Module>.tla` checks the proofs of the modules named
`...Proofs` and of `SessionMirrorSafety`. `PROJECT.json` lists components, runs, hazards, findings, theorems, for every property a change
of the code that breaks it ("mutants"), and for every definition the lines it
models ("map").

## 1. Inventory

| Component (source) | State | Operations | What makes it correct |
| --- | --- | --- | --- |
| Durable hook queue (`hook-queue.ts`) | spool directory (records, temporaries, `.lease`); in memory: pending counter, spools in flight and failed, timer, running flush, active delivery | `enqueue`, `flush`, `drain`, `dispose`, timer, recovery of dead writers | one consumer at a time; no record lost, or handled after its removal; accepted order; barriers hold; a drained report is true; nothing happens after dispose; the queue drains |
| Native session mirror (`session-mirror.ts`) | intent and acknowledgement files of appends and commits; the server's session | `sync`, `commit` | no append and no commit is submitted twice; an acknowledgement rests on evidence; uncertainty stops everything else and is resolved when evidence appears |
| Sync manager and acknowledgement (`sync.ts`, `sync-ack.mjs`) | acknowledged leaves (file and memory), last leaf, committed archives, snapshot, queued refresh | sync of a snapshot, abort, formation of archives, refresh of the active context, takeover | an acknowledged entry and its ancestors are stored remotely; derived state follows the branch; no checkpoint is missed |
| Recorded events, content objects, client (`recorded-event*.mjs`, `content-objects.mjs`, `client.ts`) | immutable remote objects | write events direct or in chunks, read both forms, create a batch, read back, retry when busy | an object is never changed; accepted means readable and equal; a commit is whole |
| Archives (`archive.mjs`, `archive-store.mjs`) | remote manifests; remembered proofs | plan, commit, prove, expand | an archive once due stays due; its events are in the store |
| Checkpoints (`checkpoint*.mjs`) | remote facts; temporary sessions and media; the run, its scope, dirty flag, timer, cleanup obligations | schedule, kick, reconcile, cleanup, stop | facts form chains; nothing is executed twice; nothing is left behind; it settles |
| Active context (`active-context.mjs`, `takeover.ts`) | persisted selection of checkpoint and raw tail | update, takeover, compaction | no message is forgotten |
| Recall (`recall.ts`, `ledger.ts`, `recall-core.mjs`) | pending prompt, generation, startup block, blocks in memory and on disk | queue a search, search, record, load, flush | the blocks of earlier turns do not change |
| Runtime (`runtime.ts`, `deadline.ts`, `handoff.ts`, extension) | the current runtime, its phase, a commit in flight | hooks, initialisation, shutdown | work is bound to the session it came from; shutdown ends within its deadline |
| Status refresh (`status-refresh.mjs`) | timer, generation | start, refresh, stop | not called by the extension |
| Tools, policy, configuration, credentials, proxy, logging, set-up | none of their own that others depend on | validation, parsing, formatting | not the subject of state machines |

How they interact. Hooks of the agent reach the **runtime**, which filters them
and enqueues hook records and sync snapshots in the **hook queue**. The queue's
handler, in the process that has the lease, gives a snapshot to the **sync
manager** (recorded events, then archives, checkpoints and the active context)
and to the **session mirror** (native messages); it removes the record when both
have succeeded. Processes of one workspace share the queue directory, the mirror
directory and the server; everything else is in the memory of one process and
interleaves at awaits. The checkpoint manager runs in the background of a
session and calls a mirror of its own for its temporary sessions; what it finds
consumed queues a refresh in the sync manager. The context hook asks the sync
manager for a takeover and the recall for the blocks of the turns.

Hard behaviours, each at its line under "hazards" in `PROJECT.json`: several
processes on one directory (lease, create-only files); death between any two
file operations; lost responses of requests that must not be repeated; sessions
deleted and created again on the server; views truncated to a token budget;
handlers that ignore their abort and settle late; spools that finish out of
order; results that arrive after a switch of branch, turn or session; batches
written in part; cleanups that fail half way; budgets, ages and deadlines.

## 2. The modules

| Module | Models | Extends | Runs (root module) |
| --- | --- | --- | --- |
| `OneShot` | abstract: a key is claimed, submitted and acknowledged once | | |
| `SessionMirror` | `session-mirror.ts` | implements `OneShot` twice | `Mirror*` (`MCSessionMirror`) |
| `SessionMirrorProofs` | proofs: types, and that it implements `OneShot` | `SessionMirror` | |
| `SessionMirrorSafety` | proofs: what is stored, acknowledged and waited for | `SessionMirrorProofs` | |
| `DurableQueue` | abstract: what a queue promises about a record | | |
| `HookQueue` | `hook-queue.ts` | implements `DurableQueue` | `Queue*` (`MCHookQueue`) |
| `HookQueueProofs` | proofs about the queue | `HookQueue` | |
| `History` | pure algorithms over the tree of a session | | |
| `HistoryProofs` | lemmas about the algorithms | `History` | |
| `Session` | `sync.ts`, `active-context.mjs`, `takeover.ts` and the context and compaction hooks | `History` | `Session` (`MCSession`) |
| `SessionProofs` | proofs about a session | `Session`, `HistoryProofs` | |
| `Store` | `recorded-event-adapter.mjs`, `content-objects.mjs`, `batchWrite`, `archive-store.mjs` | | `Store` (`MCStore`) |
| `StoreProofs` | proofs about the store | `Store` | |
| `Checkpoints` | `checkpoint-store.mjs`, `checkpoint-processor.mjs` | | `Checkpoint*` (`MCCheckpoints`) |
| `CheckpointsProofs` | proofs about checkpoints | `Checkpoints` | |
| `Runtime` | `runtime.ts`, `recall.ts`, `ledger.ts`, `deadline.ts`, the extension | | `Runtime` (`MCRuntime`) |
| `RuntimeProofs` | proofs about runtimes | `Runtime` | |

How they fit. `Session` composes the sync manager with the active context and
with what it needs of checkpoints: a manager writes the next checkpoint of its
scope and publishes. `Checkpoints` has the detail of that, over the promise of
the mirror (`OneShot`: one claim, an outcome that may stay unknown). `Store` is
what "the events of an entry are stored" and "an archive is committed" mean in
`Session`. `Runtime` takes the commit as something to wait for. No module has a
recursive operator: recursion is by recursive functions, so that every module is
open to proof.

What is proved, in short: every invariant and every action property of the
passing runs, and both refinements. The theorems hold for all values of the
constants: any number of processes, sessions, turns, clients, events, archives
and retries, any tree and any budget; those about the lease of the queue have a
condition, and one about the mirror is for one process, as said there. The
liveness properties stay with TLC (TLAPS has neither fairness nor ENABLED), and
so do the violations. The sections below give the inductive invariants; TLC has checked
each of them on the constants of the run that checks its conclusions.

Many lemmas need induction over data: that the least element of a set of
numbers exists, what a recursive function yields, that a plan of archives only
grows. The induction schemes of the library take an operator as a parameter,
which the provers cannot instantiate; well-foundedness of the natural numbers
(`NatLessThanWellFounded`, `WFMin`) is a plain fact about sets and serves instead
(`LeastNat`, and `Upwards` in `HistoryProofs`).

Deadlock is not checked (`CHECK_DEADLOCK FALSE`) in the runs: the counters are
bounded, processes may all be dead, and a manager may be at rest.

## 3. The session mirror

### What is modelled

`SessionMirror` has the directory (`intent`, `ack`, `commitIntent`,
`commitAck`), the server's session (`birth`, `commits`, `live`, `archived`),
requests on the way (`net`, `commitNet`) and, for each process, where its one
serialized operation stands (`pc`) and what it has read (`mem`). Every await is
a step boundary.

| Code | Actions |
| --- | --- |
| `syncNow`, `localState` | `StartSync`, `SyncNothing`, `BeginInspect`, `AckFound`, `BeginAppends`, `Claim`, `Post`, `BeginVerify`, `AckAppended` |
| `inspectRemote`, `addProofs` | `ReadContext`, `ReadRaw`, `ReadArchives`, `Recheck` |
| `reconcileCommits` | `ReadCommitState`, `ReadCommitMeta`, `Reconcile` |
| `commitNow` | `StartCommit`, `CommitNothing`, `BeginCommit`, `ClaimCommit`, `PostCommit`, `AckCommit` |
| thrown failure, abort, I/O error, crash | `Fail` |
| the server, as the client relies on it (external) | `ApplyAppend`, `ApplyCommit`, `ForeignCommit`, `ReplaceSession` |

A message is its source ID and digest; `project` is abstracted to the batch it
returns; publication of a file is one step, because a temporary is linked to its
name. A guard that throws is a conjunct of the step it protects. The archives of
one listing are read in one step, since an archive does not change; that a
session is replaced in the middle of it is covered by replacement between the
listing and the other reads. A request may stay in `net` for ever: that is the
lost request, and a response is lost when its process fails while waiting.
Messages may exist before the first run of the mirror (another installation);
for commits none is in flight then. This code commits with `keep_recent_count` 0
(`session-mirror.ts:205`), so that `ApplyCommit` archives all live messages.
`ForeignCommit`, by another client or by the server, may keep any of them: some,
or all, because messages of other clients are not represented and may be what it
archives. So the counter advances and messages of a watermark stay live.

### What the runs show

| Run | Instance | Shows |
| --- | --- | --- |
| `MirrorShared` | 2 processes, 1 source, 2 digests, 2 generations, 1 foreign commit | `TypeOK`, `NoDuplicate`, `CommitAckJustified`, `AckSound`, `DirectoryStaysUsable`, and that appends and commits implement `OneShot` |
| `MirrorRestart` | 1 process, 2 sources, 1 digest, 1 generation, fair | `UncertaintyStops`, `AppendResolves`, `CommitResolves` |
| `MirrorGenerationEvidence` | 2 processes, 2 generations | a violation of `AckSameGeneration` |

Bounds: two digests give a contradiction; two generations give a replacement;
one foreign commit moves messages between two reads, or advances the counter and
keeps the message, which is what an acknowledgement can be inferred from; two
sources (`MirrorRestart`) give a batch with one found and one missing message, and two
different watermarks. The processes are symmetric in `MirrorShared`. The run
with liveness has no symmetry.

Fairness (`FairSync`): the queue repeats a sync job until it succeeds, so its
steps are strongly fair, that is, they do not fail at the same await for ever. No
fairness is given to the server's steps, to commits or to appends: a request may
be lost for ever. `WF` of `Fail` only says that an operation that cannot go on
ends, as an exception does.

What an acknowledged commit says. The code takes any advance of the counter in
the generation of the intent for its own commit (`session-mirror.ts:177`), and
`docs/recovery.md:55,84` claims no more. `CommitAckJustified` states it: if the
request of the commit was executed, its watermark is archived; if not, the
counter has advanced since the claim. In the second case messages that a foreign
commit kept can be live behind an acknowledged watermark. The same watermark is
not submitted again; a commit of a larger watermark archives them. The documents
do not exclude that, so it is not listed as a finding.

What fails. `inspectRemote` returns without its closing metadata request as soon
as everything wanted is found; when the session was replaced after the first
metadata request, the acknowledgement names the old generation although its
evidence is of the new one (`AckSameGeneration`, against `docs/recovery.md:53`).
`AckSound` still holds, because acknowledgements of an older generation confirm
nothing: every later sync of that source is refused as a replaced session.
`DirectoryStaysUsable` says nothing once the session has been replaced, because
it does not hold then: one process acknowledges a source in the new generation
while the other claims it in the old one; from then on the directory is refused
for ever. The documents say nothing about that case, so it is not listed as a
finding.

### What is proved

`SessionMirrorProofs` proves, for every number of processes, sources, digests
and generations:

* `TypeCorrect`: `Spec => []TypeOK`.
* `AppendsOnce`: `Spec => AppendsImplementOneShot`, and `CommitsOnce`:
  `Spec => CommitsImplementOneShot`.

The argument. `OneShot` forbids a second `Submit` of a key. That a step of the
mirror never is one does not follow from the types: a process that is about to
post must be the only one, and must not have posted. `IInv` therefore adds to
`TypeOK` that a process at `post` holds the source in `mem.cur`, that its intent
is published and no request was submitted, that two processes at `post` hold
different sources, and that a source without an intent has no request; the same
for commits, with the watermark computed from the acknowledgements the process
knows, which never change because an acknowledgement is never taken back. The
theorem `Invariance` proves `IInv` inductive, one step per action. `AppendsOnce`
maps every step to `Claim`, `Submit`, `Acknowledge` or a stutter. The proof
assumes `MirrorAssumption`: `None` is no source and no record, and there is at
least one generation. TLC evaluates it on every run of the mirror.

`SessionMirrorSafety` proves on top of it:

* `StoredOnce` (`NoDuplicate`), `AcknowledgementsAreStored` (`AckSound`),
  `CommitsJustified` (`CommitAckJustified`) and `DirectoryUsableForEver`
  (`DirectoryStaysUsable`). Nothing is assumed of what foreign commits keep.
* `UncertaintyIsWaitedFor` (`UncertaintyStops`), for one process. With several it
  does not hold: what `localState` read is old by the time of the claim, and
  another process may have claimed meanwhile. The theorem says so in its
  assumption, as `MirrorRestart` does by its instance.

A reader of the session needs several requests to see it, and between any two of
them appends, commits and replacements happen. The invariant `Safe` says what a
process has learned so far (`Learned`): of the generation it saw first, that the
metadata has not gone back, that what it found is stored, and that what it found
missing was missing if nobody had claimed it then; of a generation that is gone
it says nothing. `Env` says what the others and the server can do in one step,
and two lemmas that knowledge survives it. The rest of `Safe` ties requests on
the way to intents, and commits to the messages before them. For
`UncertaintyIsWaitedFor` the invariant says that the one process knows the
directory (`KnowsDirectory`), which it alone writes.

Only model-checked: `AppendResolves` and `CommitResolves`, which are liveness.

## 4. The hook queue

### What is modelled

`HookQueue` has the directory (`files`, `temps`, `lease`), the processes
(`life`, `policy`, `pc`, `mem`), the age limit (`cutoff`) and two history
variables (`jobs`, `handled`). A process is one life of a pid: a restart is the
start of another process. A record is a number in the order of `enqueue`, which
is the order of file names.

| Code | Actions |
| --- | --- |
| `enqueue`, `schedule`, timer, `flush` | `Enqueue`, `TimerFires`, `CallFlush` |
| `spool`, `atomicWrite` | `CreateTemp`, `SyncTemp`, `PublishSpool`, `SpoolFails` |
| `acquireLease` | `LinkLease`, `ProbeLease`, `RereadLease`, `UnlinkLease`, `LeaseGone`, `Release` |
| `recoverInterruptedSpools` | `Recover`, `RecoverDone` |
| `flushNow` | `AwaitWrites`, `BeginListing`, `SpoolFailed`, `ReadDirectory`, `ReadRecord`, `StopClosed`, `Refuse`, `Rewrite`, `RewriteDone`, `StartDelivery`, `ReleaseLate` |
| `compactSpools` | `Compact`, `CompactDone` |
| `deliver`, `drain` | `HandlerTakesEffect`, `HandlerSucceeds`, `HandlerFails`, `RemoveDelivered`, `RemoveFails`, `Abort` |
| `dispose` | `Dispose` |
| exceptions | `FlushFails` |
| the machine and the clock | `Start`, `Die`, `Age` |

A payload is its coalescing key (`Hook` for none); a capture policy is the set
of keys it excludes, and `Redacted` the keys whose records a consumer with a newer
policy writes again. The budget is in bytes: a record of a
`Heavy` key takes two, another one, of `MaxBytes`. Reading the lease
and removing it is one step in `Release`, where the owner is alive and nobody
may touch the file. The lease's own temporaries, which nobody reads as a lease,
are left out. `flushNow` looks at `closed` before it reads a record and before it
delivers it (`hook-queue.ts:292,304`): between the two, `Refuse` and `Rewrite`
happen also when the queue was disposed meanwhile. What `flush` returns is `drained`, for a queue that is not closed;
the return value of `dispose` is not modelled. A clock that steps back, and a
pid that is used again, are not modelled.

### What the runs show

| Run | Instance | Shows |
| --- | --- | --- |
| `QueueShared` | 2 processes, 1 record that may age, policies that exclude it, redact it or leave it, fair | `TypeOK`, `OneConsumer`, `ImplementsDurableQueue`, `Drains` |
| `QueueSingle` | 1 process, 3 records, hooks of 2 bytes and snapshots of 1, windows of 2, a flush at 1 pending record, a budget of 4 bytes | `OwnOrder`, `ImplementsDurableQueue`, `DrainCovers`, `BarriersHold`, `DisposedStaysQuiet` |
| `QueueReclaim` | 3 processes, 1 record | a violation of `OneConsumer` |
| `QueueDrain` | 1 process, 3 records | a violation of `DrainHonest` |

`DurableQueue` is the promise: a record is handled only while it is published,
and it is removed only because it was handled, superseded, too old, over budget
or excluded. The mapping keeps `files`, `handled` and `cutoff` and forgets the
processes, so that it says that crashes, timeouts, late handlers and the lease
neither lose a record nor act on one that is gone.

Bounds: three records give a hook between two snapshots, coalescing, a window
smaller than the listing and a budget that drops some and keeps others; all that
is a matter of one process. Between processes it is the lease, a record at a
time: one record is published, leased, rewritten, handled, dropped for its age
and reclaimed by either. A third process is needed only to leave a dead owner behind for two
reclaimers, which is where `OneConsumer` breaks. `MaxRecords` and `MaxAged`
bound the counters in the guards of `Enqueue` and `Age`.

Fairness (`FairSpec`): ready work of the event loop runs, somebody calls `flush`
again and again (each turn of a session enqueues and drains), and faults of the
disk or the server come to an end (`<>[][Work]_vars`). Deliveries may time out for
ever; handlers then settle late. `Drains` assumes that from some time on the
queue is `Served`: a live process accepts work, and no live process is left
with a lease that it failed to remove.

What fails.

* `OneConsumer`, with three processes: `acquireLease` compares a dead owner's
  lease and then removes the file, whichever it is by then; the slower of two
  reclaimers removes the new lease of the faster one.
* `DrainHonest`: after an empty listing the code looks for spools in flight, not
  for spools that have been completed since the directory was read. `DrainCovers`
  is what does hold: everything accepted before the listing is gone.

`BarriersHold` is about published hooks. One that has been accepted and whose
spool is still being written cannot separate two snapshots that are listed
without it: spools of one process run in parallel.

### What is proved

`HookQueueProofs` proves in any case `TypeCorrect` and `Disposal`
(`DisposedStaysQuiet`), and under the condition `[]OneReclaimer`, that is, if
never two processes are between reading a dead owner's lease and removing it:

* `Exclusion` (`OneConsumer`), `Order` (`OwnOrder`), `Drain` (`DrainCovers`),
  `Barriers` (`BarriersHold`) and `Durability` (`ImplementsDurableQueue`).

The condition is the defect that `QueueReclaim` shows, and nothing else: without
it `OneConsumer` is false, with it all of the above holds for any number of
processes. `TwoProcesses` discharges it for two process lives, because a lease is
reclaimed from a third one, dead: there the theorem has no condition, and that is
what `QueueShared` and `QueueSingle` check.

The invariant has two parts. `Local` is what each process knows by itself:
which records its listing, its window and its delivery may name, that a stopped
process holds nothing, that a temporary belongs to an accepted record. It is
inductive without the condition. `Exclusive` is what the lease protects: whoever
lists, compacts or delivers has the lease; what it listed is still published;
and, for order and drains, no record that its process accepted before the listing
(`covers`) is published without being in the listing. Every step is shown to
move one process (`Moves`), and what it does to the lease and the files of the
others is one lemma per group of actions.

Only model-checked: `Drains` (liveness), and the two violations.

## 5. A session: sync, archives, active context

### What is modelled

`History` has the pure algorithms over a tree of entries. An entry is its
position in the tree with parent, kind and number of content parts; an event is
one part. Every part weighs one token, so that the pressure of a branch is its
number of events.

| Code | Operators |
| --- | --- |
| `sync-ack.mjs` | `IsEntryAcknowledged`, `AdvanceSyncAck` |
| `recorded-event.mjs`, `pi-session-source.mjs` | `Branch`, `Turn`, `Step`, `ProjectPiEntries` |
| `archive.mjs` | `SnapToAtomicBoundary`, `PlanArchives`, `DescribeArchives` |
| `active-context.mjs` | `SelectActiveContext`, `AnchorEvents`, `MaterializeActiveContext`, `EvaluateEligibility` |
| `takeover.ts` | `PreservesRecentTurns`, `CompactionKeepsRecentTurns` |

`Session` has the harness's tree, the snapshot waiting in the queue, the running
sync, the server's entries and checkpoints, both copies of the acknowledgement,
and the state of the sync manager, the checkpoint manager and the active context.

| Code | Actions |
| --- | --- |
| `syncSource` | `SyncSession`, `DeliverEntry`, `FailEntry`, `AbortSync`, `EndDelivery` |
| `advanceDerivedState`, `formArchives`, `updateActiveContext` | `BeginArchives` (in `EndDelivery` and `FailEntry`), `FormArchives`, `ArchivesUnreconciled` |
| `scheduleActiveContextRefresh` | `RefreshActiveContext`, set by `PublishState` |
| `takeoverMessages`, `compaction`, the hooks | `TakeoverMessages`; what the model is given is `MayTakeOver`, `MayCompact` |
| the checkpoint manager, in short | `BeginCheckpoint`, `LandCheckpoint`, `PublishState` |
| the harness | `AppendEntry`, `Navigate`, `ScheduleSync` |
| end of the process | `Restart` |

Storing an entry, the acknowledgement file and memory are one step of
`DeliverEntry`; the failures in between are those of `FailEntry`, `AbortSync` and
`Restart`, in which the entry may be stored and not acknowledged. An
acknowledgement file that cannot be read counts as empty (`ReadSyncAck`). The
active context follows the archives without another await that could change
what it reads, so that both are one step. An archive may be left out (`skipped`)
when an `ArchiveIntegrityError` says that it cannot be trusted: its identity is
bound to other content, or one of its stored events is missing, invalid or
different (`archive-store.mjs:118-123,230-241`). `EvaluateEligibility` leaves out
the configuration that makes a takeover rarer (`takeover_disabled`, and a budget
for the checkpoint: `facts_unavailable`, `checkpoint_over_budget`), so that the
model takes over more often than the code.

### What the run shows

`Session`: up to four entries (users and tool results of one part, assistants of
two), one navigation, one fault (a restart or a skipped archive), chunks and raw
tail of one token, models of unknown, small and large capacity, one recent turn.

* `AckCoversAccepted`: what counts as acknowledged is on the server. The
  acknowledgement is a set of leaves, so that one leaf too early vouches for all
  its ancestors.
* `PlanIsStable`: the archives of an entry's parent are a prefix of its own.
  This is what the raw tail and the boundaries are for.
* `ScopeOnBranch`: no checkpoint is made for an abandoned branch, and once
  everything is acknowledged every archive ever worked on is on some chain.
* `NothingForgotten`: each message of the live branch is shown to the model, or
  kept by the compaction, or covered by the checkpoint, directly or through the
  checkpoints before it.
* `NoCheckpointMissed`: at rest, a checkpoint that can be taken over has an
  active context.

Bounds: four entries of up to two parts give three archives with chunks of one,
a step of several entries, a branch in the middle, and a turn that is cut; one
navigation abandons a branch or comes to one that existed. Nothing depends on
fairness.

An exception of `NothingForgotten`: an archive that is skipped
(`archive-store.mjs:118-123`) leaves a gap in the chain, and a takeover then
loses its messages, which `active-context.mjs:66-68` does not expect. When the
archive is accepted later, `scanFacts` refuses the chain for ever
(`checkpoint-store.mjs:500`). That needs a manifest of other content, or a stored
event that is missing, invalid or different: another writer of the same identity
makes the former; the latter comes of an acknowledgement file that claims events
which are not in the store, or of two writers that store an event in both forms
(section 6). What a single writer itself stored and acknowledged stays readable,
so it is not a finding.
`SnapToAtomicBoundary` compares an entry with its neighbours only
(`archive.mjs:153`), although a comment above it speaks of whole steps; a step
is interrupted only by notes, and `PlanIsStable` holds all the same.

### What is proved

`SessionProofs` proves, for every tree, every chunk and tail budget, any number
of faults and moves: `TypeCorrect`, `AcknowledgedIsStored`
(`AckCoversAccepted`), `ArchivesStayDue` (`PlanIsStable`), `ScopeFollowsBranch`
(`ScopeOnBranch`), `ContextForgetsNothing` (`NothingForgotten`) and
`CheckpointsAreSelected` (`NoCheckpointMissed`).

The algorithms are recursive functions over a branch and its events, and the
properties are about what they compute: `HistoryProofs` has the lemmas. Those
that carry the theorems are `AdvanceKeeps` (an acknowledgement covers nothing
but what it covered, the new entry and its ancestors), `PlanKept` and
`ArchivesKept` (the archives of an ancestor are a prefix of those of the entry,
because the boundary of an archive depends on the events up to the raw tail
only), `PlanAtomic` (a boundary within the branch does not fall within an entry,
which `SnapToAtomicBoundary` is for), `TakeoverShows` and `CompactionKeeps`. `Filter` stands for
`Array.prototype.filter`; it is written as a recursive function because the
standard `SelectSeq` takes an operator, of which nothing can be proved.

The inductive invariant `IInv`: what points into the tree stays in it, and the
operation that forms archives belongs to the leaf last seen (`Shape`); each
acknowledgement, in memory and in the file, vouches for stored entries only
(`AckSound`); every archive that is scheduled or has a checkpoint was due on some
branch (`ArchivesSound`); between two archives of the scope no event of its branch
is lost but those of skipped archives (`ScopeCovers`), so that a checkpoint covers
its branch from the root (`CheckpointsCover`); there is one selection at most, and
it rests on a checkpoint that exists (`SelectionSound`); and it is the one that a
sync would take, whenever no job, no refresh and no archive is waiting
(`SelectionFollows`). The last two are what `NoCheckpointMissed` needs: that it
holds at rest follows only from what every state before has promised.

## 6. The store

### What is modelled

`Store` has the objects of the server and, for each client, the job it is in. A
client is a process, or one life of it. An event has a version in the view of a
client; a `Big` version is stored as claim, chunks and commit.

| Code | Actions |
| --- | --- |
| `writeEvents`, `writeChunked`, `assertRepresentationAbsent` | `Write`, `StatClaims`, `StatDirect`, `Verify`, `Accept` |
| `batchWrite`, `writeContentObjects`, `withBusyRetry` | `GetObject`, `PostAccepted`, `PostFails`, `PostBusy`, `ReadBack` |
| `ArchiveManager.commit`, `proveReferencedEvents` | `Archive`, `ReadManifest`, `LookForProof`, `Prove` |
| `ArchiveManager.expand` | `Expand`, `LookForEvent`, `ExpandEvent` |
| failures, restarts | `Fails` |

The server only creates objects. It may create a part of a batch and answer with
an error, and it may hold leftovers at the start: residue that is no event, or
the manifest of other events. The acknowledgement may claim events that are not
there (`acked`), which is why archives are proved.

### What the run shows

`Store`: two clients, a small and a big event of two chunks, views that agree,
differ in bytes or differ in form, one busy retry, two faults.

* `AcceptedIsStored`, `CommitMeansWhole`, `ArchiveIsProven`,
  `ExpansionIsArchive`: what is told, committed, proved or expanded is in the
  store, byte for byte.
* `Completes`: clients that agree on an empty server all come to commit the
  archive.

Bounds: two chunks give a chunk that is missing; a second fault hits a
repetition; a third view makes both forms of one event meet. Fairness: a request
ends, and a call that failed is made again, as each sync of the queue does.
Faults are bounded by `MaxFaults`: a server that never answers blocks everyone.

Not caught, and in the hazards: two clients with versions of different forms may
both look before either writes; both forms are then stored and every reader
refuses the event.

### What is proved

`StoreProofs` proves `TypeCorrect`, `AcceptedEventsAreStored` (`AcceptedIsStored`),
`CommittedEventsAreWhole` (`CommitMeansWhole`), `ArchivesAreProven`
(`ArchiveIsProven`) and `ExpansionsAreArchived` (`ExpansionIsArchive`) for any
clients, events, versions, chunks, retries and faults; and
`AcceptedEventsAgree`, that two clients which were told of the same event mean
the same bytes, unless one form is small and the other big, the case above.

Objects never change; so what a client has seen stays true, and the invariant
says what it has seen: `Sound(c, job)` is, for each stage of a job, which objects
of the batch are known to be there with the client's own bytes, and which earlier
stages are complete. A commit is only posted when claim and chunks are known. A
lemma (`SoundStays`) says that the steps of the others do not disturb this; what
is left is the client's own step.

`LeftoversAssumption` is what the theorems need of the server at the start: what
it holds may be residue or foreign manifests, but it is what writers of this code
leave, who never write the commit of an event without its parts
(`writeChunked` writes it last) nor a version in the form of the other size. TLC
evaluates it for the leftovers of the run.

Only model-checked: `Completes` (liveness).

## 7. Checkpoints

### What is modelled

`Checkpoints` is the background run of one session. Its state is the facts at the
server (requests, failures, checkpoints), the temporary session of each attempt
with its media and provider task, the mirror's claims of that session, the
scheduled scope and its version, the run and its stage, and the obligations to
clean up. Between any two steps the sync may replace the scope, and `CurrentScope`
says whether the run still belongs to it.

| Code | Actions |
| --- | --- |
| `schedule`, `kick`, `schedulePoll`, `stop` | `Schedule`, `EndRun`, `TimerFires`, `SetTimer`, `Stop` |
| `cleanupObsoleteRequests`, `cleanupTerminalAttempts`, `cleanup` | `ReadObsolete`, `CleanupAttempt`, `CleanupFails`, `AfterCleanup` |
| `scanFacts`, `publishState` | `ScanFacts` with `Consumed`, `CurrentTask`, `TerminalTasks` |
| `reconcile` | `WriteRequest`, `WriteFailure`, `ReadSourceAgain`, `WriteCheckpoint`, `PublishCheckpoint`, `TaskTimesOut` |
| `advance`, `prepareMedia` | `OpenSession`, `PrepareMedia`, `SubmitInput`, `CommitSession`, `PollTask` |
| `recordOperationalFailure`, failures of requests | `Retry`, `RequestFails` |
| the provider, the end of the program | `TaskEnds`, `Restart` |

Where the code looks at the scope matters, and the model looks where it does: an
attempt whose request was just written uploads its media without another look,
one that is resumed reads its archive and looks once, and the input is sent
whatever the scope has become. A checkpoint is written, and published only if the
scope is still the same when the write has ended; if not, the fact stays and the
next scan finds it. `Schedule` is called by every sync, with a new scope or with
the one that is scheduled already. A cleanup that fails may have deleted the session,
the media, both or neither. A scan is one step: what it reads changes only by
the run itself. One manager is modelled. What a stopped one still does beside
its successor in the same process is not; two managers of one session in two
processes can write two requests where `scanFacts` accepts one
(`checkpoint-store.mjs:479-485`), which the model does not contain either.

### What the runs show

`Checkpoints`: two archives, scopes that are empty, one or two archives long, two
attempts, three schedules, a restart, two faults, images in the second archive.

* `ChainSound`: the facts are a chain that `scanFacts` accepts: no attempt before
  its predecessor failed, no checkpoint without its predecessor's, none of a
  failed attempt.
* `ExecutedOnce`: input and commit of an attempt are executed at most once.
* `NothingLeftBehind`: at rest no session and no media of an ended attempt is
  left.
* `PublishesCurrentScope`: a scan of an older scope is dropped, and so is a
  checkpoint whose scope was replaced while it was written.
* `Settles`: in the end every archive is consumed or its attempts are used up, or
  the attempt in progress is one whose outcome is unknown or whose session was
  replaced.

Bounds: two archives give a predecessor; two attempts give a retry and an
exhausted one (the code has three); three schedules give a scope, another and the
first again; two faults give a failed cleanup after a lost answer. Fairness: the
requests of the run end, the timer fires, and a task that is polled for ever is
at some poll over the time limit (`SF` of `TaskTimesOut`).

Two exceptions in `NothingLeftBehind` and `Settles`. A poll timer that fires
during a run is lost, because `kick` then returns the run that is going; if a
cleanup of that run has failed, its retry waits for the next schedule, of the
same scope or another one (`RetryLost`). And a manager that was stopped leaves the rest to the next one.

`CheckpointWedge` finds `RetriesGoOn` violated: without the excuse of a replaced
session an attempt does not always come to an end. A switch of branches deletes
its temporary session but not the mirror's claim of the input; when the branch
comes back, the session is created anew, the mirror refuses it for ever
(`session-mirror.ts:331`), and the time limit, which is the way out that the
comment at `checkpoint-store.mjs:39-40` describes, is applied only to an attempt
that is being processed (`checkpoint-store.mjs:239`), not to one that is pending.
The archives behind it are never consumed.

### What is proved

`CheckpointsProofs` proves `TypeCorrect`, `FactsFormChains` (`ChainSound`),
`AttemptsRunOnce` (`ExecutedOnce`), `RestLeavesNothing` (`NothingLeftBehind`) and
the action property `PublishedIsCurrent` (`PublishesCurrentScope`), for any
archives, scopes, attempts, schedules, restarts and faults.

The facts alone do not say that the next one fits: the run that writes it read
them some steps ago. `RunSound` says that what the run is working on is still the
first attempt without an outcome (only the run writes facts) or, once its checkpoint is written, an attempt for an
archive of its scope, `AttemptsInOrder`
that the attempts of an archive were made one after the other, `ClaimsCount` that
nothing is executed without a claim of the mirror, `ScopeSound` that a run whose
scope was replaced is followed by another one, and `CleanupSound` that every ended
attempt is clean or still to be cleaned by the run, unless a cleanup failed. The
attempt to prove the last one showed that an attempt which is resumed has to
leave `cleanedTaskIds` before its session is opened
(`checkpoint-store.mjs:225`), whether or not opening succeeds.

Only model-checked: `Settles` (liveness), and the violation.

## 8. The runtime and the recall

### What is modelled

`Runtime` has the runtimes of a program one after the other, the context hooks
that run, and the ledger files.

| Code | Actions |
| --- | --- |
| `ensure`, `session_shutdown` (extension) | `Enter`, `Leave` |
| `before_agent_start`, `agent_end`, `context` | `BeforeAgentStart`, `AgentEnd`, `ContextCalled` |
| `initialize`, `RecallLedger.load` | `LoadLedger`, `Startup` |
| `searchPending`, `record`, `persist` | `TakePrompt`, `SearchEnds`, `Persist` |
| `shutdown`, `within` | `BeginShutdown`, `ShutdownEnds`, `ShutdownDeadline`, `Close` |
| the end of the program | `Crash` |

A block is the turn whose prompt was searched for and whether the startup context
is part of it. `rendered` remembers what the model was last given for each turn.

### What the run shows

`Runtime`: one session, two turns, two runtimes, two hooks at a time, one fault.

* `StablePrefix`: the model is given the same block for a turn each time, in this
  runtime and the next: the prefix of a conversation stays the same bytes.
* `StartupIsKept`: a recall that comes too late does not use up the startup
  context.
* `TypeOK` includes that a runtime which is not current is shutting down.

Three exceptions, remembered in history variables: a hook that did not wait for
the ledger (150 ms) renders older turns without their blocks; a runtime that
ended without its blocks on disk (`cut`); and the hook of an aborted turn that
was waiting for the runtime takes the prompt of the next turn under the key of
its own (`overtaken`, `recall.ts:31-39`).

Bounds: a second turn is what a late hook of the first can disturb, a second
runtime what the first leaves behind. No liveness is stated: every wait of this
component is bounded by a timer, which is an action that is always enabled.

### What is proved

`RuntimeProofs` proves `TypeCorrect`, `StartupNotLost` (`StartupIsKept`) and the
action property `StablePrefixHolds` (`StablePrefix`), for any number of sessions,
turns, runtimes, hooks at a time and faults.

The inductive invariant has two parts. `IInv` says where the prompt of a turn can
be: pending in one runtime or searched for by one hook, never both
(`OnePending`, `OneSearch`, `PendingOrSearched`), and that a turn whose prompt
waits has no block anywhere (`AskedIsBlank`); so the search that answers it is the
first to record a block, and the startup context it takes is kept. `RInv` is what
`StablePrefix` needs: that a turn which was rendered keeps its block says nothing
of the next runtime, which reads it from disk. So it says, of each turn that was
given to the model, that the current runtime holds the block it was given with
(`RenderedHere`); that one given without a block has none anywhere, and nobody
who could still add one (`RenderedWithout`); that one given with a block has it on
disk or on its way there, unless the session was cut (`RenderedWith`); that all
copies of a block are the same (`OneBlock`); and that after a ledger that was read
whole no other runtime of the session is open or writing (`Alone`). A hook that is
aborted goes on, and must not be the one that adds the block: `Awaited` and
`AwaitedPrompts` say that a prompt or a search that still counts belongs to the
hook that somebody waits for.

`RuntimeAssumption` says that `None` is no session, no block and no rendering.

## 9. Plan

Modelled and checked: all of sections 3 to 8. Proved: all safety properties and
both refinements. What is left:

1. Proofs: that `Store` implements an abstract store of events that are accepted
   once, and `AppendsOnce` and `AttemptsRunOnce` composed, so that the promise
   which `Checkpoints` takes from the mirror is the one that `SessionMirror`
   proves.
2. Without the condition: what does hold of the queue when two processes reclaim
   a lease at once (`Local`, `Disposal`; a record may be handled twice, but not be
   lost).

Not to be proved: liveness (`AppendResolves`, `CommitResolves`, `Drains`,
`Completes`, `Settles`), and properties of operators that take operators.

## 10. Not modelled

* Wording, ranking and formatting (tools, recall text, status lines), parsing and
  validation (configuration, credentials, policies, URIs), logging, the MCP
  proxy, the set-up wizard and the managed server keep no state that the rest
  depends on. The capture policy appears as the keys it excludes and redacts.
* `createStatusRefresh`, `SyncManager.observeSession`, `SyncManager.commit`,
  `SyncManager.refreshCheckpointFacts` and `CheckpointManager.refresh`: nothing
  calls them in the extension.
* The handoff: one object per workspace, replaced at the end of a session and
  read at the start of the next; the last writer wins and nothing depends on it.
* Most methods of the client are one request; they appear where they are called.
* A shutdown that joins a commit begun before the last snapshot was queued
  (`runtime.ts:202-203`), because it needs the runtime composed with the queue and
  the mirror.
* Clocks that step back, and pids that are used again.
