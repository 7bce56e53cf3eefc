----------------------------- MODULE HookQueue -----------------------------
(***************************************************************************)
(* The durable hook queue (src/src/hook-queue.ts).  Processes of one       *)
(* workspace spool policy-filtered records into one private directory; a   *)
(* lease file lets one of them dispatch the records, in file order, to its *)
(* asynchronous handler.                                                   *)
(*                                                                         *)
(* A process here is one life of an operating-system process (a pid): it   *)
(* starts once and, when it exits or crashes, its memory is gone and its   *)
(* files stay.  A restart is the start of another process.  Inside a       *)
(* process the code is single-threaded: an action is what runs between two *)
(* awaits, or one file operation; enqueue, the timer, the handler, aborts  *)
(* and dispose interleave with a running flush at its awaits.              *)
(*                                                                         *)
(* A record is a number: file names sort by the time of enqueue.           *)
(***************************************************************************)
EXTENDS Naturals, Sequences, FiniteSets

CONSTANTS
  Proc,          \* process lives
  Session,       \* coalescing keys of sync snapshots: their session IDs
  Hook,          \* the null key: a hook record, a barrier to coalescing
  Policies,      \* sets of keys that a process' capture policy excludes
  Redacted,      \* keys whose records the consumer's policy redacts further
  None,          \* no process, no record
  WindowSize,    \* records delivered between two listings (windowSize)
  Threshold,     \* pending records that start a flush (flushThreshold)
  Heavy,         \* keys whose records take two bytes, the others take one
  MaxBytes,      \* retention budget (maxBytes)
  MaxRecords,    \* bound: records ever enqueued
  MaxAged        \* bound: records that ever outlive maxAgeMs

Key == Session \union {Hook}

ASSUME QueueAssumption ==
  /\ Hook \notin Session
  /\ Policies \subseteq SUBSET Key
  /\ Redacted \subseteq Key
  /\ None \notin Proc
  /\ None \notin Nat
  /\ WindowSize \in Nat \ {0}
  /\ Threshold \in Nat \ {0}
  /\ Heavy \subseteq Key
  /\ MaxBytes \in Nat \ {0}
  /\ MaxRecords \in Nat /\ MaxAged \in Nat

VARIABLES
  \* The pending directory.
  files,         \* published records
  temps,         \* spool temporaries: record, writer's pid, completely written
  lease,         \* owner named by .lease, or None
  \* The processes.
  life,          \* "off", "up" or "dead"
  policy,        \* keys excluded by the process' capture policy
  pc,            \* where its flush stands; "idle": flushPromise is null
  mem,           \* the rest of its memory, a record
  \* Time.
  cutoff,        \* records up to this one are older than maxAgeMs
  \* History, read by properties and by the keys of records.
  jobs,          \* jobs[i]: who enqueued record i, and its key
  handled        \* records whose handler has taken effect at least once

directory == <<files, temps, lease>>
processes == <<life, policy, pc, mem>>
vars      == <<directory, processes, cutoff, jobs, handled>>

-----------------------------------------------------------------------------
(* Data *)

Temp == [rec : Nat, by : Proc, whole : BOOLEAN]

\* A queue as the constructor makes it.
Fresh ==
  [closed |-> FALSE, pending |-> 0, timer |-> FALSE,
   writes |-> {}, failed |-> {},         \* spools in flight, spools to retry
   seen |-> None, tries |-> 0,           \* acquireLease
   bad |-> {},                           \* temporaries found incomplete
   list |-> {},                          \* files of this pass, still to do
   covers |-> {},                        \* history: own records a drain covers
   drained |-> FALSE,                    \* what the flush will return
   active |-> None, stage |-> "none",    \* activeDelivery
   cleanup |-> FALSE]                    \* leaseCleanup

KeyOf(i) == jobs[i].key

Own(p) == {i \in DOMAIN jobs : jobs[i].by = p}

Oldest(S) == CHOOSE i \in S : \A j \in S : i <= j

Up(p) == life[p] = "up"

Set(p, at, m) ==
  /\ pc' = [pc EXCEPT ![p] = at]
  /\ mem' = [mem EXCEPT ![p] = m]
  /\ UNCHANGED <<life, policy>>

Init ==
  /\ files = {}
  /\ temps = {}
  /\ lease = None
  /\ life = [p \in Proc |-> "off"]
  /\ policy = [p \in Proc |-> {}]
  /\ pc = [p \in Proc |-> "idle"]
  /\ mem = [p \in Proc |-> Fresh]
  /\ cutoff = 0
  /\ jobs = <<>>
  /\ handled = {}

-----------------------------------------------------------------------------
(* Timers and the life cycle of a flush.                                   *)

\* schedule(): nothing to do is nothing to wait for.
Scheduled(m) ==
  [m EXCEPT !.timer = @ \/ (~m.closed /\ (m.pending > 0 \/ m.writes # {}))]

MayFlush(p, m) == pc[p] = "idle" /\ ~m.closed /\ m.active = None

\* The start of flush() and of flushNow(): failed spools are written again.
Flushing(m) ==
  [m EXCEPT !.timer = FALSE, !.writes = @ \union m.failed,
            !.drained = FALSE, !.bad = {}, !.list = {}, !.tries = 0]

\* flush() with memory m: joins a running flush, refuses beside an active
\* delivery, or starts.
Flush(p, m) ==
  IF MayFlush(p, m) THEN Set(p, "writes", Flushing(m)) ELSE Set(p, pc[p], m)

\* The flush ends without a lease to give back.
Ended(m) == Scheduled([m EXCEPT !.list = {}, !.bad = {}, !.seen = None, !.tries = 0,
                                !.covers = {}, !.drained = FALSE])

\* The flush ends holding the lease; an unfinished delivery keeps it.
LeaveLease_AtOnce(m) == <<"release", m>>

LeaveLease(m) ==
  IF m.active = None THEN <<"release", m>>
                     ELSE <<"idle", Ended([m EXCEPT !.cleanup = TRUE])>>

Leave(p, m) == LET l == LeaveLease(m) IN Set(p, l[1], l[2])

-----------------------------------------------------------------------------
(* enqueue and the spool.                                                  *)

Enqueue(p, k, now) ==
  LET i == Len(jobs) + 1
      m == [mem[p] EXCEPT !.pending = @ + 1, !.writes = @ \union {i}]
  IN
  /\ Up(p)
  /\ i <= MaxRecords
  /\ ~mem[p].closed
  /\ k \notin policy[p]
  /\ jobs' = Append(jobs, [by |-> p, key |-> k])
  /\ IF now \/ m.pending >= Threshold THEN Flush(p, m) ELSE Set(p, pc[p], Scheduled(m))
  /\ UNCHANGED <<directory, cutoff, handled>>

\* atomicWrite: a synced temporary, then a rename.
CreateTemp(p, i) ==
  /\ Up(p)
  /\ i \in mem[p].writes
  /\ ~ \E t \in temps : t.rec = i /\ t.by = p
  /\ temps' = temps \union {[rec |-> i, by |-> p, whole |-> FALSE]}
  /\ UNCHANGED <<files, lease, processes, cutoff, jobs, handled>>

SyncTemp(p, t) ==
  /\ Up(p)
  /\ t.by = p
  /\ ~t.whole
  /\ temps' = (temps \ {t}) \union {[t EXCEPT !.whole = TRUE]}
  /\ UNCHANGED <<files, lease, processes, cutoff, jobs, handled>>

PublishSpool(p, t) ==
  /\ Up(p)
  /\ t.by = p
  /\ t.whole
  /\ files' = files \union {t.rec}
  /\ temps' = temps \ {t}
  /\ Set(p, pc[p], [mem[p] EXCEPT !.writes = @ \ {t.rec}, !.failed = @ \ {t.rec}])
  /\ UNCHANGED <<lease, cutoff, jobs, handled>>

\* Any step of the write fails; after the rename the record is published all
\* the same.  The record stays in memory for the next flush.
SpoolFails(p, i) ==
  LET mine == {t \in temps : t.rec = i /\ t.by = p} IN
  /\ Up(p)
  /\ i \in mem[p].writes
  /\ temps' = temps \ mine
  /\ \/ UNCHANGED files
     \/ (\E t \in mine : t.whole) /\ files' = files \union {i}
  /\ Set(p, pc[p], [mem[p] EXCEPT !.writes = @ \ {i}, !.failed = @ \union {i}])
  /\ UNCHANGED <<lease, cutoff, jobs, handled>>

-----------------------------------------------------------------------------
(* flush: from its call to the lease.                                      *)

\* replayPending, drain, /ov sync.
CallFlush(p) ==
  /\ Up(p)
  /\ MayFlush(p, mem[p])
  /\ Flush(p, mem[p])
  /\ UNCHANGED <<directory, cutoff, jobs, handled>>

\* While a handler that was given up on has not settled, flush returns false
\* and nothing is scheduled again until somebody calls flush.
TimerFires(p) ==
  /\ Up(p)
  /\ mem[p].timer
  /\ Flush(p, [mem[p] EXCEPT !.timer = FALSE])
  /\ UNCHANGED <<directory, cutoff, jobs, handled>>

\* Every spool accepted so far has reached the disk, or the flush ends.
AwaitWrites(p) ==
  LET m == mem[p] IN
  /\ Up(p)
  /\ pc[p] = "writes"
  /\ m.writes = {}
  /\ IF m.closed \/ m.failed # {} THEN Set(p, "idle", Ended(m))
                                  ELSE Set(p, "link", m)
  /\ UNCHANGED <<directory, cutoff, jobs, handled>>

\* Creating the link is the atomic step; there are two attempts.
LinkLease(p) ==
  LET m == mem[p] IN
  /\ Up(p)
  /\ pc[p] = "link"
  /\ IF m.tries = 2 THEN Set(p, "idle", Ended(m)) /\ UNCHANGED lease
     ELSE IF lease = None THEN Set(p, "recover", [m EXCEPT !.tries = 0]) /\ lease' = p
     ELSE Set(p, "probe", [m EXCEPT !.tries = @ + 1]) /\ UNCHANGED lease
  /\ UNCHANGED <<files, temps, cutoff, jobs, handled>>

Reclaimable_Anyone(owner) == TRUE
Reclaimable_Nobody(owner) == FALSE
Reclaimable(owner) == life[owner] = "dead"

\* The owner is read and probed; a live one keeps its lease.
ProbeLease(p) ==
  /\ Up(p)
  /\ pc[p] = "probe"
  /\ lease # None
  /\ IF Reclaimable(lease) THEN Set(p, "reread", [mem[p] EXCEPT !.seen = lease])
                           ELSE Set(p, "idle", Ended(mem[p]))
  /\ UNCHANGED <<directory, cutoff, jobs, handled>>

RereadLease(p) ==
  /\ Up(p)
  /\ pc[p] = "reread"
  /\ lease # None
  /\ Set(p, IF lease = mem[p].seen THEN "unlink" ELSE "link", mem[p])
  /\ UNCHANGED <<directory, cutoff, jobs, handled>>

\* rm(path) removes whatever lease is there by then.
UnlinkLease(p) ==
  /\ Up(p)
  /\ pc[p] = "unlink"
  /\ lease # None
  /\ lease' = None
  /\ Set(p, "link", [mem[p] EXCEPT !.seen = None])
  /\ UNCHANGED <<files, temps, cutoff, jobs, handled>>

\* Its owner has removed the lease meanwhile: reading it fails, and the flush
\* with it.
LeaseGone(p) ==
  /\ Up(p)
  /\ pc[p] \in {"probe", "reread", "unlink"}
  /\ lease = None
  /\ Set(p, "idle", Ended(mem[p]))
  /\ UNCHANGED <<directory, cutoff, jobs, handled>>

-----------------------------------------------------------------------------
(* flush under the lease: recovery, listing, compaction.                   *)

Abandoned(p) == {t \in temps \ mem[p].bad : life[t.by] = "dead"}

\* recoverInterruptedSpools, one temporary of a dead writer at a time.
Recover(p, t) ==
  /\ Up(p)
  /\ pc[p] = "recover"
  /\ t \in Abandoned(p)
  /\ \/ /\ t.whole
        /\ files' = files \union {t.rec}
        /\ temps' = temps \ {t}
        /\ Set(p, "recover", mem[p])
     \/ \* Not whole, or the link or the removal fails: it is kept and reported.
        /\ IF t.whole THEN files' \in {files, files \union {t.rec}} ELSE UNCHANGED files
        /\ Set(p, "recover", [mem[p] EXCEPT !.bad = @ \union {t}])
        /\ UNCHANGED temps
  /\ UNCHANGED <<lease, cutoff, jobs, handled>>

RecoverDone(p) ==
  /\ Up(p)
  /\ pc[p] = "recover"
  /\ Abandoned(p) = {}
  /\ Set(p, "list", mem[p])
  /\ UNCHANGED <<directory, cutoff, jobs, handled>>

WritesVisible_InFlight(m) == m.failed = {}
WritesVisible_Failed(m) == m.writes = {}
WritesVisible(m) == m.writes = {} /\ m.failed = {}

\* The head of the loop: own spools are on the disk before it is listed.
BeginListing(p) ==
  /\ Up(p)
  /\ pc[p] = "list"
  /\ WritesVisible(mem[p])
  /\ Set(p, "read", [mem[p] EXCEPT !.covers = Own(p)])
  /\ UNCHANGED <<directory, cutoff, jobs, handled>>

SpoolFailed(p) ==
  /\ Up(p)
  /\ pc[p] = "list"
  /\ mem[p].writes = {}
  /\ mem[p].failed # {}
  /\ Set(p, "release", mem[p])
  /\ UNCHANGED <<directory, cutoff, jobs, handled>>

ReadDirectory(p) ==
  /\ Up(p)
  /\ pc[p] = "read"
  /\ Set(p, "compact", [mem[p] EXCEPT !.list = files])
  /\ UNCHANGED <<directory, cutoff, jobs, handled>>

Following(L, i) == Oldest({j \in L : i < j})

\* The next listed record is a newer snapshot of the same session.
Stale_AcrossBarriers(L) ==
  {i \in L : KeyOf(i) # Hook /\ \E j \in L : i < j /\ KeyOf(j) = KeyOf(i)}

Stale(L) ==
  {i \in L : /\ KeyOf(i) # Hook
             /\ \E j \in L : i < j
             /\ KeyOf(Following(L, i)) = KeyOf(i)}

Old(L) == {i \in L : i <= cutoff}

\* Over budget, snapshots go before hooks.
Size(L) == Cardinality(L) + Cardinality({i \in L : KeyOf(i) \in Heavy})

Excess_AtLimit(L) == IF Size(L) < MaxBytes THEN {} ELSE {Oldest(L)}

Excess(L) ==
  LET snapshots == {i \in L : KeyOf(i) # Hook}
  IN  IF Size(L) <= MaxBytes THEN {}
      ELSE {Oldest(IF snapshots # {} THEN snapshots ELSE L)}

\* compactSpools removes one file at a time: superseded, expired, excess.
Doomed(L) ==
  IF Stale(L) # {} THEN {Oldest(Stale(L))}
  ELSE IF Old(L) # {} THEN {Oldest(Old(L))}
  ELSE Excess(L)

Compact(p) ==
  \E i \in Doomed(mem[p].list) :
    /\ Up(p)
    /\ pc[p] = "compact"
    /\ i \in files
    /\ files' = files \ {i}
    /\ Set(p, "compact", [mem[p] EXCEPT !.list = @ \ {i}])
    /\ UNCHANGED <<temps, lease, cutoff, jobs, handled>>

Window(L) == {i \in L : Cardinality({j \in L : j < i}) < WindowSize}

\* A listing corrects the pending counter; records of earlier processes count.
Counted_Own(m) == m
Counted(m) == [m EXCEPT !.pending = Cardinality(m.list) + Cardinality(m.bad)]

\* Nothing is left to remove: deliver a window, or report the queue drained.
CompactDone(p) ==
  LET m == Counted(mem[p]) IN
  /\ Up(p)
  /\ pc[p] = "compact"
  /\ Doomed(m.list) = {}
  /\ IF m.list # {} THEN Set(p, "deliver", [m EXCEPT !.list = Window(m.list)])
     ELSE IF m.writes # {} THEN Set(p, "list", mem[p])
     ELSE Set(p, "release", [m EXCEPT !.drained = (m.bad = {})])
  /\ UNCHANGED <<directory, cutoff, jobs, handled>>

-----------------------------------------------------------------------------
(* Delivery.                                                               *)

Done(m, i) == [m EXCEPT !.list = @ \ {i}]

NextStep(m) == IF m.list = {} THEN "list" ELSE "deliver"

\* The policy of this process is newer than the one the record was filtered by.
NeedsRewrite(p, i) == jobs[i].by # p /\ KeyOf(i) \in Redacted

\* The oldest record of the window is read; from here on only a delivery is
\* stopped by dispose, not a removal or a rewrite.
ReadRecord(p) ==
  /\ Up(p)
  /\ pc[p] = "deliver"
  /\ ~mem[p].closed
  /\ Oldest(mem[p].list) \in files
  /\ Set(p, "record", mem[p])
  /\ UNCHANGED <<directory, cutoff, jobs, handled>>

StopClosed(p) ==
  LET i == Oldest(mem[p].list) IN
  /\ Up(p)
  /\ \/ pc[p] = "deliver"
     \/ pc[p] = "record" /\ KeyOf(i) \notin policy[p] /\ ~NeedsRewrite(p, i)
  /\ mem[p].closed
  /\ Set(p, "release", mem[p])
  /\ UNCHANGED <<directory, cutoff, jobs, handled>>

\* The current policy excludes the record.
Refuse(p) ==
  LET i == Oldest(mem[p].list)
      m == Done([mem[p] EXCEPT !.pending = @ - 1], i)
  IN
  /\ Up(p)
  /\ pc[p] = "record"
  /\ i \in files
  /\ KeyOf(i) \in policy[p]
  /\ files' = files \ {i}
  /\ Set(p, NextStep(m), m)
  /\ UNCHANGED <<temps, lease, cutoff, jobs, handled>>

\* The redacted record is written over the old one, through a temporary that
\* SyncTemp and PublishSpool complete like a spool's.
Rewrite(p) ==
  LET i == Oldest(mem[p].list) IN
  /\ Up(p)
  /\ pc[p] = "record"
  /\ KeyOf(i) \notin policy[p]
  /\ NeedsRewrite(p, i)
  /\ temps' = temps \union {[rec |-> i, by |-> p, whole |-> FALSE]}
  /\ Set(p, "rewrite", mem[p])
  /\ UNCHANGED <<files, lease, cutoff, jobs, handled>>

Delivering(m) == [m EXCEPT !.active = Oldest(m.list), !.stage = "running"]

RewriteDone(p) ==
  /\ Up(p)
  /\ pc[p] = "rewrite"
  /\ ~ \E t \in temps : t.rec = Oldest(mem[p].list) /\ t.by = p
  /\ IF mem[p].closed THEN Set(p, "release", mem[p])
                      ELSE Set(p, "wait", Delivering(mem[p]))
  /\ UNCHANGED <<directory, cutoff, jobs, handled>>

StartDelivery(p) ==
  LET i == Oldest(mem[p].list) IN
  /\ Up(p)
  /\ pc[p] = "record"
  /\ ~mem[p].closed
  /\ KeyOf(i) \notin policy[p]
  /\ ~NeedsRewrite(p, i)
  /\ Set(p, "wait", Delivering(mem[p]))
  /\ UNCHANGED <<directory, cutoff, jobs, handled>>

\* The handler's effect, at the remote end.
HandlerTakesEffect(p) ==
  /\ Up(p)
  /\ mem[p].stage = "running"
  /\ handled' = handled \union {mem[p].active}
  /\ Set(p, pc[p], [mem[p] EXCEPT !.stage = "effective"])
  /\ UNCHANGED <<directory, cutoff, jobs>>

\* The delivery settles.  The flush that waits for it goes on or stops; one
\* that has stopped waiting leaves the lease to leaseCleanup.
Settle(p, ok, m0) ==
  LET m == [m0 EXCEPT !.active = None, !.stage = "none"] IN
  IF pc[p] # "wait" THEN Set(p, pc[p], m)
  ELSE IF ok THEN Set(p, NextStep(Done(m, m0.active)), Done(m, m0.active))
  ELSE Set(p, "release", m)

MayAcknowledge_AfterDispose(m) == TRUE
MayAcknowledge(m) == ~m.closed

\* The handler succeeds, possibly long after the flush stopped waiting.
HandlerSucceeds(p) ==
  /\ Up(p)
  /\ mem[p].stage = "effective"
  /\ IF MayAcknowledge(mem[p]) THEN Set(p, pc[p], [mem[p] EXCEPT !.stage = "removing"])
                               ELSE Settle(p, TRUE, mem[p])
  /\ UNCHANGED <<directory, cutoff, jobs, handled>>

\* A failed or cancelled handler may have taken effect.
HandlerFails(p) ==
  /\ Up(p)
  /\ mem[p].stage \in {"running", "effective"}
  /\ Settle(p, FALSE, mem[p])
  /\ UNCHANGED <<directory, cutoff, jobs, handled>>

RemoveDelivered(p) ==
  LET m == mem[p] IN
  /\ Up(p)
  /\ m.stage = "removing"
  /\ m.active \in files
  /\ files' = files \ {m.active}
  /\ Settle(p, TRUE, [m EXCEPT !.pending = IF @ = 0 THEN 0 ELSE @ - 1])
  /\ UNCHANGED <<temps, lease, cutoff, jobs, handled>>

RemoveFails(p) ==
  /\ Up(p)
  /\ mem[p].stage = "removing"
  /\ Settle(p, FALSE, mem[p])
  /\ UNCHANGED <<directory, cutoff, jobs, handled>>

\* The delivery timeout, or the caller's drain timeout: the handler is told to
\* stop, which it may ignore, and the flush no longer waits for it.
Abort(p) ==
  /\ Up(p)
  /\ pc[p] = "wait"
  /\ Leave(p, mem[p])
  /\ UNCHANGED <<directory, cutoff, jobs, handled>>

-----------------------------------------------------------------------------
(* The end of a flush and of a process.                                    *)

Release(p) ==
  /\ Up(p)
  /\ pc[p] = "release"
  /\ \/ lease' = IF lease = p THEN None ELSE lease
     \/ UNCHANGED lease                                  \* lease_release_failed
  /\ Set(p, "idle", Ended(mem[p]))
  /\ UNCHANGED <<files, temps, cutoff, jobs, handled>>

\* leaseCleanup, once the abandoned handler has settled.
ReleaseLate(p) ==
  /\ Up(p)
  /\ mem[p].cleanup
  /\ mem[p].active = None
  /\ \/ lease' = IF lease = p THEN None ELSE lease
     \/ UNCHANGED lease
  /\ Set(p, pc[p], [mem[p] EXCEPT !.cleanup = FALSE])
  /\ UNCHANGED <<files, temps, cutoff, jobs, handled>>

\* An I/O error, a vanished or an unreadable file ends the flush.
FlushFails(p) ==
  /\ Up(p)
  /\ \/ /\ pc[p] \in {"link", "probe", "reread", "unlink"}
        /\ Set(p, "idle", Ended(mem[p]))
        /\ UNCHANGED temps
     \/ /\ pc[p] \in {"recover", "read", "compact", "deliver", "record", "rewrite"}
        /\ Set(p, "release", mem[p])
        /\ temps' = IF pc[p] # "rewrite" THEN temps
                    ELSE temps \ {t \in temps : t.rec = Oldest(mem[p].list) /\ t.by = p}
  /\ UNCHANGED <<files, lease, cutoff, jobs, handled>>

Dispose(p) ==
  LET m == [mem[p] EXCEPT !.closed = TRUE, !.timer = FALSE] IN
  /\ Up(p)
  /\ ~mem[p].closed
  /\ IF pc[p] = "wait" THEN Leave(p, m) ELSE Set(p, pc[p], m)
  /\ UNCHANGED <<directory, cutoff, jobs, handled>>

Start(p) ==
  /\ life[p] = "off"
  /\ life' = [life EXCEPT ![p] = "up"]
  /\ \E excluded \in Policies : policy' = [policy EXCEPT ![p] = excluded]
  /\ UNCHANGED <<directory, pc, mem, cutoff, jobs, handled>>

\* An exit or a crash, at any await.
Die(p) ==
  /\ Up(p)
  /\ life' = [life EXCEPT ![p] = "dead"]
  /\ pc' = [pc EXCEPT ![p] = "idle"]
  /\ mem' = [mem EXCEPT ![p] = Fresh]
  /\ UNCHANGED <<directory, policy, cutoff, jobs, handled>>

\* Time passes: only what is published ages, record after record.
Age ==
  /\ cutoff < MaxAged
  /\ cutoff + 1 \in files
  /\ cutoff' = cutoff + 1
  /\ UNCHANGED <<directory, processes, jobs, handled>>

-----------------------------------------------------------------------------
Spool(p) ==
  \/ \E i \in DOMAIN jobs : CreateTemp(p, i)
  \/ \E t \in temps : SyncTemp(p, t) \/ PublishSpool(p, t)

AcquireLease(p) ==
  \/ LinkLease(p)
  \/ ProbeLease(p)
  \/ RereadLease(p)
  \/ UnlinkLease(p)
  \/ LeaseGone(p)

FlushStep(p) ==
  \/ AwaitWrites(p)
  \/ AcquireLease(p)
  \/ \E t \in temps : Recover(p, t)
  \/ RecoverDone(p)
  \/ BeginListing(p)
  \/ SpoolFailed(p)
  \/ ReadDirectory(p)
  \/ Compact(p)
  \/ CompactDone(p)
  \/ ReadRecord(p)
  \/ StopClosed(p)
  \/ Refuse(p)
  \/ Rewrite(p)
  \/ RewriteDone(p)
  \/ StartDelivery(p)
  \/ Release(p)

Handler(p) ==
  \/ HandlerTakesEffect(p)
  \/ HandlerSucceeds(p)
  \/ RemoveDelivered(p)

\* What happens while the disk and the server work, deliveries that time out
\* included.
Work ==
  \/ \E p \in Proc :
       \/ Start(p) \/ Die(p) \/ Dispose(p)
       \/ \E k \in Key, now \in BOOLEAN : Enqueue(p, k, now)
       \/ Spool(p)
       \/ CallFlush(p) \/ TimerFires(p) \/ FlushStep(p)
       \/ Handler(p) \/ Abort(p) \/ ReleaseLate(p)
  \/ Age

Fault ==
  \E p \in Proc :
    \/ FlushFails(p) \/ HandlerFails(p) \/ RemoveFails(p)
    \/ \E i \in DOMAIN jobs : SpoolFails(p, i)

Next == Work \/ Fault

Spec == Init /\ [][Next]_vars

\* The event loop runs what is ready; somebody calls flush again and again, as
\* a session does that enqueues and drains at every turn; an outage of the
\* disk or of the server ends.  Deliveries may still time out for ever, their
\* handlers settling later.
FairSpec ==
  /\ Spec
  /\ WF_vars(\E p \in Proc : Start(p))
  /\ \A p \in Proc :
       /\ WF_vars(CallFlush(p) \/ FlushStep(p))
       /\ WF_vars(Spool(p) \/ Handler(p) \/ ReleaseLate(p))
  /\ <>[][Work]_vars

-----------------------------------------------------------------------------
(* Properties *)

Memory ==
  [closed : BOOLEAN, pending : Nat, timer : BOOLEAN,
   writes : SUBSET Nat, failed : SUBSET Nat,
   seen : Proc \union {None}, tries : 0..2,
   bad : SUBSET Temp, list : SUBSET Nat, covers : SUBSET Nat, drained : BOOLEAN,
   active : Nat \union {None},
   stage : {"none", "running", "effective", "removing"},
   cleanup : BOOLEAN]

Step == {"idle", "writes", "link", "probe", "reread", "unlink", "recover", "list",
         "read", "compact", "deliver", "record", "rewrite", "wait", "release"}

\* Every variable holds a value of its kind; in particular the pending counter
\* never becomes negative, though a refused record decrements it unclamped.
TypeOK ==
  /\ files \in SUBSET Nat
  /\ temps \in SUBSET Temp
  /\ lease \in Proc \union {None}
  /\ life \in [Proc -> {"off", "up", "dead"}]
  /\ policy \in [Proc -> SUBSET Key]
  /\ pc \in [Proc -> Step]
  /\ mem \in [Proc -> Memory]
  /\ cutoff \in Nat
  /\ jobs \in Seq([by : Proc, key : Key])
  /\ handled \in SUBSET Nat

UnderLease ==
  {"recover", "list", "read", "compact", "deliver", "record", "rewrite", "wait", "release"}

Consuming(p) == pc[p] \in UnderLease \/ mem[p].active # None

\* "A process lease prevents simultaneous replay of one durable queue"
\* (src/src/hook-queue.ts:153): at most one process lists, compacts or
\* delivers, also while a handler it gave up on has not settled.
OneConsumer == \A p, q \in Proc : Consuming(p) /\ Consuming(q) => p = q

Unsent(p) == files \union mem[p].writes \union mem[p].failed

\* A record never overtakes one its process accepted before the listing began,
\* also when spools finish out of order, or fail and are retried (lines 271-306).
OwnOrder ==
  \A p \in Proc :
    mem[p].active # None =>
      \A j \in mem[p].covers \intersect Unsent(p) : mem[p].active <= j

Drained(p) == ~mem[p].drained /\ mem[p].drained'

\* A flush that reports the queue drained has removed every record its process
\* accepted before the last listing began (lines 281-290).
DrainCovers ==
  [][\A p \in Proc : Drained(p) => mem[p].covers \intersect Unsent(p) = {}]_vars

\* "Do not report a successful drain before its spool has become visible"
\* (src/src/hook-queue.ts:286-287): no record the process accepted is
\* published and unhandled when the flush reports the queue drained.
DrainHonest ==
  [][\A p \in Proc : Drained(p) => Own(p) \intersect Unsent(p) = {}]_vars

\* "late handlers cannot acknowledge records after disposal"
\* (docs/recovery.md:38), and a disposed queue starts no delivery.
DisposedStaysQuiet ==
  [][\A p \in Proc : mem[p].closed /\ Up(p) =>
       /\ mem'[p].active \in {None, mem[p].active}
       /\ mem'[p].stage = "removing" => mem[p].stage = "removing"]_vars

\* The removal of i has a reason, or i has a newer snapshot of its session
\* here with none of the hooks of barriers in between.
Justified(i, barriers) ==
  \/ \E p \in Proc : mem[p].active = i \/ (Up(p) /\ KeyOf(i) \in policy[p])
  \/ i <= cutoff
  \/ Size(files) > MaxBytes
  \/ \E j \in files :
       /\ i < j /\ KeyOf(i) = KeyOf(j)
       /\ \A b \in barriers : i < b /\ b < j => KeyOf(b) # Hook

\* Coalescing never crosses a published hook of the compacting process that it
\* accepted before the listing began (lines 236-250 and 281-285).
BarriersHold ==
  [][\A i \in files \ files' :
       Justified(i, files \intersect UNION {mem[p].covers : p \in Proc})]_vars

\* No process is left that accepts work, or the lease can never be had because
\* its release failed in a process that lives on.
Served ==
  /\ \E p \in Proc : Up(p) /\ ~mem[p].closed
  /\ ~ \E p \in Proc : Up(p) /\ lease = p /\ ~Consuming(p) /\ ~mem[p].cleanup

\* While some process serves the queue, a published record is eventually
\* handled or removed by retention, whatever timed out, failed or crashed.
Drains ==
  <>[]Served => \A i \in 1..MaxRecords : (i \in files) ~> (i \notin files)

Durable == INSTANCE DurableQueue WITH
  keys <- [i \in DOMAIN jobs |-> jobs[i].key], kept <- files

\* The queue implements DurableQueue: processes, crashes, timeouts and late
\* handlers neither lose a published record nor handle one that is gone.
ImplementsDurableQueue == Durable!Spec

=============================================================================
