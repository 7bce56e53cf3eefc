-------------------------- MODULE HookQueueProofs --------------------------
(***************************************************************************)
(* Proofs about HookQueue, for any processes, policies and bounds.         *)
(*                                                                         *)
(* The lease is exclusive only as long as no two processes reclaim it at   *)
(* the same time (OneReclaimer; QueueReclaim shows what happens otherwise).*)
(* So the inductive invariant has two parts.  Local holds in any case and  *)
(* says what each process knows about its flush, its delivery and its      *)
(* temporaries.  Exclusive holds as long as OneReclaimer does and says     *)
(* what the lease protects: the listing of the consumer.  With two         *)
(* processes OneReclaimer needs no assumption.                             *)
(***************************************************************************)
EXTENDS HookQueue, FiniteSetTheorems, WellFoundedInduction, TLAPS

Reclaiming == {"reread", "unlink"}
Listed == {"compact", "deliver", "record", "rewrite", "wait"}
Window3 == {"deliver", "record", "rewrite", "wait"}

\* At most one process is about to take a lease away.
OneReclaimer ==
  \A p, q \in Proc : pc[p] \in Reclaiming /\ pc[q] \in Reclaiming => p = q

\* A flush at step at with memory m, in process p.
ProcOK(p, at, m) ==
  /\ at \in Step /\ m \in Memory /\ IsFiniteSet(m.bad) /\ m.list \subseteq DOMAIN jobs
  /\ ~ Up(p) => at = "idle" /\ m = Fresh
  /\ Up(p) => policy[p] \in Policies
  /\ m.writes \union m.failed \union m.covers \subseteq Own(p)
  /\ m.covers \intersect (m.writes \union m.failed) = {}
  /\ m.covers # {} => at \in UnderLease
  /\ m.active = None <=> m.stage = "none"
  /\ m.active # None => at \in {"wait", "idle"} /\ m.active \in DOMAIN jobs
  /\ at = "wait" => m.active \in m.list /\ \A j \in m.list : m.active <= j
  /\ at \in Window3 => m.list # {} /\ Cardinality(m.list) <= m.pending
  /\ at \in Reclaiming => m.seen \in Proc /\ life[m.seen] = "dead"
  /\ m.stage \in {"effective", "removing"} => m.active \in handled

\* A temporary of a process at step at with memory m is one of its spools, or
\* the record it is writing over.
TempFits(t, at, m) ==
  IF jobs[t.rec].by = t.by THEN t.rec \in m.writes
  ELSE at = "rewrite" /\ t.rec = Oldest(m.list)

Globals ==
  /\ jobs \in Seq([by : Proc, key : Key])
  /\ files \subseteq DOMAIN jobs
  /\ lease \in Proc \union {None}
  /\ life \in [Proc -> {"off", "up", "dead"}]
  /\ policy \in [Proc -> SUBSET Key]
  /\ cutoff \in Nat /\ handled \subseteq Nat

TempsOK ==
  /\ temps \subseteq Temp
  /\ \A t \in temps : t.rec \in DOMAIN jobs /\ life[t.by] # "off"
  /\ \A t \in temps : Up(t.by) => TempFits(t, pc[t.by], mem[t.by])
  /\ \A t, u \in temps : t.by = u.by /\ t.rec = u.rec /\ Up(t.by) /\ jobs[t.rec].by = t.by => t = u

Local ==
  /\ Globals /\ TempsOK
  /\ DOMAIN pc = Proc /\ pc \in [Proc -> Step] /\ mem \in [Proc -> Memory]
  /\ \A p \in Proc : ProcOK(p, pc[p], mem[p])

\* What the lease protects.
Guarded(p, at, m) ==
  /\ at \in UnderLease \/ m.active # None => lease = p
  /\ m.cleanup => lease = p /\ at \notin UnderLease
  /\ at \in Reclaiming => lease = m.seen
  /\ at \in Listed => m.list \subseteq files
  /\ m.active # None => m.active \in files
  /\ at = "compact" => m.covers \intersect files \subseteq m.list
  /\ at \in Window3 /\ ~ m.closed =>
       \A j \in m.covers \intersect files : j \in m.list \/ \A i \in m.list : i < j
  /\ m.active # None => \A j \in m.covers \intersect files : m.active <= j

Exclusive == \A p \in Proc : Guarded(p, pc[p], mem[p])


-----------------------------------------------------------------------------
(* Facts about the data.                                                   *)

LEMMA LeastNat ==
  ASSUME NEW S \in SUBSET Nat, S # {}
  PROVE  \E n \in S : \A m \in S : n <= m
<1>1. IsWellFoundedOn({ss \in Nat \X Nat : ss[1] < ss[2]}, Nat)
  BY NatLessThanWellFounded DEF OpToRel
<1>2. PICK n \in S : \A m \in S : ~ (<<m, n>> \in {ss \in Nat \X Nat : ss[1] < ss[2]})
  BY <1>1, WFMin
<1>3. \A m \in S : ~ (m < n)
  BY <1>2
<1> QED BY <1>3

LEMMA OldestFacts ==
  ASSUME NEW S \in SUBSET Nat, S # {}
  PROVE  Oldest(S) \in S /\ \A j \in S : Oldest(S) <= j
BY LeastNat DEF Oldest

\* Records are numbers, of which there are finitely many.
LEMMA RecordFacts ==
  ASSUME Local
  PROVE  /\ Len(jobs) \in Nat /\ DOMAIN jobs = 1..Len(jobs) /\ IsFiniteSet(DOMAIN jobs)
         /\ DOMAIN jobs \subseteq Nat /\ None \notin Nat
         /\ \A i \in DOMAIN jobs : jobs[i].by \in Proc /\ KeyOf(i) \in Key
<1>1. jobs \in Seq([by : Proc, key : Key])
  BY DEF Local, Globals
<1>2. Len(jobs) \in Nat /\ DOMAIN jobs = 1..Len(jobs)
  BY <1>1
<1>3. IsFiniteSet(1..Len(jobs))
  BY <1>2, FS_Interval
<1>4. ASSUME NEW i \in DOMAIN jobs PROVE jobs[i].by \in Proc /\ KeyOf(i) \in Key
  <2> DEFINE R == [by : Proc, key : Key]
  <2>1. jobs \in Seq(R) /\ i \in DOMAIN jobs
    BY <1>1
  <2>2. jobs[i] \in R
    <3> HIDE DEF R
    <3> QED BY <2>1
  <2> QED BY <2>2 DEF KeyOf
<1> QED BY <1>2, <1>3, <1>4, QueueAssumption

LEMMA ListFacts ==
  ASSUME Local, NEW L \in SUBSET DOMAIN jobs
  PROVE  IsFiniteSet(L) /\ Cardinality(L) \in Nat /\ L \subseteq Nat
BY RecordFacts, FS_Subset, FS_CardinalityType

LEMMA MemoryFacts ==
  ASSUME NEW m \in Memory
  PROVE  /\ m.closed \in BOOLEAN /\ m.pending \in Nat /\ m.timer \in BOOLEAN
         /\ m.writes \in SUBSET Nat /\ m.failed \in SUBSET Nat /\ m.seen \in Proc \union {None}
         /\ m.tries \in 0..2 /\ m.bad \in SUBSET Temp /\ m.list \in SUBSET Nat
         /\ m.covers \in SUBSET Nat /\ m.drained \in BOOLEAN /\ m.active \in Nat \union {None}
         /\ m.stage \in {"none", "running", "effective", "removing"} /\ m.cleanup \in BOOLEAN
BY DEF Memory

LEMMA ScheduledFacts ==
  ASSUME NEW m \in Memory
  PROVE  \E b \in BOOLEAN : Scheduled(m) = [m EXCEPT !.timer = b]
<1> PICK b : b = (m.timer \/ (~m.closed /\ (m.pending > 0 \/ m.writes # {})))
  OBVIOUS
<1>1. b \in BOOLEAN
  BY MemoryFacts
<1>2. Scheduled(m) = [m EXCEPT !.timer = b]
  BY DEF Scheduled
<1> QED BY <1>1, <1>2

LEMMA ScheduledSame ==
  ASSUME NEW m \in Memory, NEW e, e = Scheduled(m)
  PROVE  /\ e \in Memory /\ e.list = m.list /\ e.bad = m.bad /\ e.covers = m.covers
         /\ e.writes = m.writes /\ e.failed = m.failed /\ e.active = m.active /\ e.seen = m.seen
         /\ e.stage = m.stage /\ e.cleanup = m.cleanup /\ e.closed = m.closed
         /\ e.pending = m.pending /\ e.drained = m.drained
<1>1. PICK b \in BOOLEAN : e = [m EXCEPT !.timer = b]
  BY ScheduledFacts
<1>2. e \in Memory
  BY <1>1 DEF Memory
<1> QED BY <1>1, <1>2 DEF Memory

LEMMA EndedFacts ==
  ASSUME NEW m \in Memory, NEW e, e = Ended(m)
  PROVE  /\ e \in Memory /\ e.list = {} /\ e.bad = {} /\ e.covers = {} /\ ~ e.drained
         /\ e.writes = m.writes /\ e.failed = m.failed /\ e.active = m.active
         /\ e.stage = m.stage /\ e.cleanup = m.cleanup /\ e.closed = m.closed
         /\ e.pending = m.pending
<1> PICK x : x = [m EXCEPT !.list = {}, !.bad = {}, !.seen = None, !.tries = 0,
                           !.covers = {}, !.drained = FALSE]
  OBVIOUS
<1>1. x \in Memory
  <2>1. [m EXCEPT !.list = {}, !.bad = {}, !.covers = {}] \in Memory
    BY DEF Memory
  <2>2. PICK y \in Memory : y = [m EXCEPT !.list = {}, !.bad = {}, !.covers = {}]
    BY <2>1
  <2>3. PICK z \in Memory : z = [y EXCEPT !.seen = None, !.drained = FALSE]
    BY DEF Memory
  <2>4. [z EXCEPT !.tries = 0] \in Memory
    BY DEF Memory
  <2>5. x = [z EXCEPT !.tries = 0]
    BY <2>2, <2>3 DEF Memory
  <2> QED BY <2>4, <2>5
<1>2. /\ x.list = {} /\ x.bad = {} /\ x.covers = {} /\ x.drained = FALSE
      /\ x.writes = m.writes /\ x.failed = m.failed /\ x.active = m.active
      /\ x.stage = m.stage /\ x.cleanup = m.cleanup /\ x.closed = m.closed /\ x.pending = m.pending
  BY DEF Memory
<1>3. e = Scheduled(x)
  BY DEF Ended
<1> QED BY ZenonT(30), <1>1, <1>2, <1>3, ScheduledSame

LEMMA FlushingFacts ==
  ASSUME NEW m \in Memory, NEW e, e = Flushing(m)
  PROVE  /\ e \in Memory /\ e.list = {} /\ e.bad = {} /\ e.covers = m.covers /\ ~ e.drained
         /\ e.writes = m.writes \union m.failed /\ e.failed = m.failed /\ e.active = m.active
         /\ e.stage = m.stage /\ e.cleanup = m.cleanup /\ e.closed = m.closed
         /\ e.pending = m.pending
<1> PICK w : w = m.writes \union m.failed
  OBVIOUS
<1>1. w \in SUBSET Nat
  BY MemoryFacts
<1>2. e = [m EXCEPT !.timer = FALSE, !.writes = w, !.drained = FALSE, !.bad = {}, !.list = {},
                    !.tries = 0]
  BY DEF Flushing
<1>3. e \in Memory
  <2>0. [m EXCEPT !.tries = 0] \in Memory
    BY DEF Memory
  <2>1. PICK y \in Memory : y = [m EXCEPT !.tries = 0]
    BY <2>0
  <2>2. PICK z \in Memory : z = [y EXCEPT !.timer = FALSE, !.drained = FALSE]
    BY DEF Memory
  <2>3. PICK v \in Memory : v = [z EXCEPT !.list = {}, !.bad = {}]
    BY DEF Memory
  <2>4. [v EXCEPT !.writes = w] \in Memory
    BY <1>1 DEF Memory
  <2>5. e = [v EXCEPT !.writes = w]
    BY <1>2, <2>1, <2>2, <2>3 DEF Memory
  <2> QED BY <2>4, <2>5
<1> QED BY <1>2, <1>3 DEF Memory

LEMMA FreshFacts ==
  /\ Fresh \in Memory /\ Fresh.bad = {} /\ Fresh.list = {} /\ Fresh.covers = {}
  /\ Fresh.writes = {} /\ Fresh.failed = {} /\ Fresh.active = None /\ Fresh.stage = "none"
  /\ ~ Fresh.cleanup /\ ~ Fresh.closed /\ ~ Fresh.drained
BY DEF Fresh, Memory

-----------------------------------------------------------------------------
(* Steps of one process.                                                   *)

LEMMA MineFacts ==
  ASSUME Local, NEW p \in Proc
  PROVE  /\ pc[p] \in Step /\ mem[p] \in Memory /\ ProcOK(p, pc[p], mem[p])
         /\ (Up(p) => policy[p] \in Policies)
         /\ IsFiniteSet(mem[p].bad) /\ mem[p].list \subseteq DOMAIN jobs
BY DEF Local, ProcOK

LEMMA SetLocal ==
  ASSUME Local, NEW p \in Proc, NEW at \in Step, NEW m \in Memory, Set(p, at, m),
         jobs' = jobs, handled \subseteq handled', Globals', TempsOK', ProcOK(p, at, m)'
  PROVE  Local'
<1>1. /\ pc' = [pc EXCEPT ![p] = at] /\ mem' = [mem EXCEPT ![p] = m]
      /\ life' = life /\ policy' = policy
  BY DEF Set
<1>2. /\ pc \in [Proc -> Step] /\ mem \in [Proc -> Memory] /\ DOMAIN pc = Proc
  BY DEF Local
<1>3. pc' \in [Proc -> Step] /\ mem' \in [Proc -> Memory] /\ DOMAIN pc' = Proc
  BY <1>1, <1>2
<1>4. ASSUME NEW q \in Proc PROVE ProcOK(q, pc[q], mem[q])'
  <2>1. CASE q = p
    <3>1. pc'[q] = at /\ mem'[q] = m
      BY <1>1, <1>2, <2>1
    <3> QED BY <2>1, <3>1 DEF ProcOK, Up, Own
  <2>2. CASE q # p
    <3>1. pc'[q] = pc[q] /\ mem'[q] = mem[q]
      BY <1>1, <1>2, <2>2
    <3>2. ProcOK(q, pc[q], mem[q])
      BY DEF Local
    <3> QED BY <1>1, <3>1, <3>2 DEF ProcOK, Up, Own
  <2> QED BY <2>1, <2>2
<1> QED BY <1>3, <1>4 DEF Local

\* A step that leaves the temporaries and the records alone.
LEMMA QuietLocal ==
  ASSUME Local, NEW p \in Proc, NEW at \in Step, NEW m \in Memory, Set(p, at, m), Up(p),
         UNCHANGED <<temps, cutoff, jobs, handled>>,
         files' \subseteq DOMAIN jobs, lease' \in Proc \union {None},
         mem[p].writes \subseteq m.writes,
         pc[p] # "rewrite" \/ (at = "rewrite" /\ m.list = mem[p].list)
           \/ ~ \E t \in temps : t.rec = Oldest(mem[p].list) /\ t.by = p,
         ProcOK(p, at, m)
  PROVE  Local'
<1>1. /\ pc' = [pc EXCEPT ![p] = at] /\ mem' = [mem EXCEPT ![p] = m]
      /\ life' = life /\ policy' = policy
  BY DEF Set
<1>2. /\ pc \in [Proc -> Step] /\ mem \in [Proc -> Memory] /\ DOMAIN pc = Proc /\ Globals /\ TempsOK
  BY DEF Local
<1>3. Globals'
  BY <1>1, <1>2 DEF Globals
<1>4. TempsOK'
  <2>1. ASSUME NEW t \in temps, Up(t.by) PROVE TempFits(t, pc[t.by], mem[t.by])'
    <3>1. TempFits(t, pc[t.by], mem[t.by]) /\ t.by \in Proc
      BY <1>2, <2>1 DEF TempsOK, Temp
    <3>2. CASE t.by = p
      <4>1. pc'[t.by] = at /\ mem'[t.by] = m
        BY <1>1, <1>2, <3>2
      <4> QED BY <2>1, <3>1, <3>2, <4>1 DEF TempFits
    <3>3. CASE t.by # p
      <4>1. pc'[t.by] = pc[t.by] /\ mem'[t.by] = mem[t.by]
        BY <1>1, <1>2, <3>1, <3>3
      <4> QED BY <3>1, <4>1 DEF TempFits
    <3> QED BY <3>2, <3>3
  <2> QED BY <1>1, <1>2, <2>1 DEF TempsOK, Up
<1>5. ProcOK(p, at, m)'
  BY <1>1 DEF ProcOK, Up, Own
<1> QED BY <1>3, <1>4, <1>5, SetLocal

\* The flush ends, and no delivery hangs on it.
LEMMA EndLocal ==
  ASSUME Local, NEW p \in Proc, Up(p), NEW m \in Memory, Set(p, "idle", Ended(m)),
         UNCHANGED <<temps, cutoff, jobs, handled, files>>, lease' \in Proc \union {None},
         pc[p] # "rewrite", m.writes = mem[p].writes, m.failed = mem[p].failed,
         m.active = mem[p].active, m.stage = mem[p].stage
  PROVE  Local'
<1> PICK e : e = Ended(m)
  OBVIOUS
<1>1. /\ e \in Memory /\ e.list = {} /\ e.bad = {} /\ e.covers = {}
      /\ e.writes = m.writes /\ e.failed = m.failed /\ e.active = m.active /\ e.stage = m.stage
  BY EndedFacts
<1>2. ProcOK(p, pc[p], mem[p])
  BY MineFacts
<1>3. "idle" \in Step /\ "idle" \notin UnderLease \union Window3 \union Reclaiming \union {"wait"}
  BY DEF Step, UnderLease, Window3, Reclaiming
<1>4. ProcOK(p, "idle", e)
  BY <1>1, <1>2, <1>3, FS_EmptySet DEF ProcOK
<1>5. files \subseteq DOMAIN jobs
  BY DEF Local, Globals
<1> QED BY <1>1, <1>3, <1>4, <1>5, QuietLocal


\* A flush starts from an idle process.
LEMMA FlushOK ==
  ASSUME NEW p \in Proc, NEW m \in Memory, ProcOK(p, "idle", m), NEW e, e = Flushing(m), Up(p),
         m.active = None
  PROVE  e \in Memory /\ ProcOK(p, "writes", e) /\ m.writes \subseteq e.writes
<1>1. /\ e \in Memory /\ e.list = {} /\ e.bad = {} /\ e.covers = m.covers
      /\ e.writes = m.writes \union m.failed /\ e.failed = m.failed /\ e.active = m.active
      /\ e.stage = m.stage
  BY FlushingFacts
<1>2. "writes" \in Step /\ {"writes", "idle"} \intersect (UnderLease \union Window3 \union Reclaiming \union {"wait"}) = {}
  BY DEF Step, UnderLease, Window3, Reclaiming
<1>3. ProcOK(p, "writes", e)
  BY <1>1, <1>2, FS_EmptySet DEF ProcOK
<1> QED BY <1>1, <1>3

\* A flush that is asked for, with a memory that differs in its timer only.
LEMMA FlushLocal ==
  ASSUME Local, NEW p \in Proc, Up(p), NEW b \in BOOLEAN,
         Flush(p, [mem[p] EXCEPT !.timer = b]),
         UNCHANGED <<directory, cutoff, jobs, handled>>
  PROVE  Local'
<1> PICK m : m = [mem[p] EXCEPT !.timer = b]
  OBVIOUS
<1>0. mem[p] \in Memory /\ ProcOK(p, pc[p], mem[p]) /\ pc[p] \in Step
  BY MineFacts
<1>1. m \in Memory
  BY <1>0 DEF Memory
<1>2. /\ m.list = mem[p].list /\ m.bad = mem[p].bad /\ m.covers = mem[p].covers
      /\ m.writes = mem[p].writes /\ m.failed = mem[p].failed /\ m.active = mem[p].active
      /\ m.stage = mem[p].stage /\ m.seen = mem[p].seen /\ m.pending = mem[p].pending
  BY <1>0 DEF Memory
<1>3. ProcOK(p, pc[p], m)
  BY <1>0, <1>1, <1>2 DEF ProcOK
<1>4. files \subseteq DOMAIN jobs /\ lease \in Proc \union {None}
  BY DEF Local, Globals
<1>5. CASE MayFlush(p, m)
  <2> PICK e : e = Flushing(m)
    OBVIOUS
  <2>1. pc[p] = "idle" /\ m.active = None
    BY <1>5 DEF MayFlush
  <2>2. e \in Memory /\ ProcOK(p, "writes", e) /\ m.writes \subseteq e.writes
    <3>1. ProcOK(p, "idle", m) /\ Up(p) /\ m.active = None
      BY <1>3, <2>1
    <3> QED BY <1>1, <3>1, FlushOK
  <2>3. Set(p, "writes", e) /\ "writes" \in Step
    BY <1>5 DEF Flush, Step
  <2> QED BY <1>2, <1>4, <2>1, <2>2, <2>3, QuietLocal DEF directory
<1>6. CASE ~ MayFlush(p, m)
  <2>1. Set(p, pc[p], m)
    BY <1>6 DEF Flush
  <2> QED BY <1>0, <1>1, <1>2, <1>3, <1>4, <2>1, QuietLocal DEF directory
<1> QED BY <1>5, <1>6

LEMMA CallFlushLocal == ASSUME Local, NEW p \in Proc, CallFlush(p) \/ TimerFires(p) PROVE Local'
<1>1. mem[p] \in Memory
  BY MineFacts
<1>2. PICK b \in BOOLEAN : b = mem[p].timer
  BY <1>1 DEF Memory
<1>3. mem[p] = [mem[p] EXCEPT !.timer = b]
  BY <1>1, <1>2 DEF Memory
<1>4. CASE CallFlush(p)
  <2>1. Flush(p, [mem[p] EXCEPT !.timer = b])
    BY <1>3, <1>4 DEF CallFlush
  <2> QED BY <1>4, <2>1, FlushLocal DEF CallFlush
<1>5. CASE TimerFires(p)
  BY <1>5, FlushLocal DEF TimerFires
<1> QED BY <1>4, <1>5

\* Steps that change where the flush stands, and of its memory only what the
\* invariant does not speak of.
LEMMA MoveLocal ==
  ASSUME Local, NEW p \in Proc, Up(p), NEW at \in Step, NEW m \in Memory, Set(p, at, m),
         pc[p] \notin {"idle", "wait", "rewrite"},
         UNCHANGED <<temps, cutoff, jobs, handled>>, files' \subseteq DOMAIN jobs,
         lease' \in Proc \union {None},
         m.writes = mem[p].writes, m.failed = mem[p].failed, m.active = mem[p].active,
         m.stage = mem[p].stage, IsFiniteSet(m.bad), m.list \subseteq DOMAIN jobs,
         m.covers \subseteq Own(p),
         m.covers \intersect (m.writes \union m.failed) = {},
         m.covers # {} => at \in UnderLease, at # "wait",
         at \in Window3 => m.list # {} /\ Cardinality(m.list) <= m.pending,
         at \in Reclaiming => m.seen \in Proc /\ life[m.seen] = "dead"
  PROVE  Local'
<1>1. ProcOK(p, pc[p], mem[p])
  BY MineFacts
<1>2. mem[p].active = None
  BY <1>1 DEF ProcOK
<1>3. ProcOK(p, at, m)
  BY <1>1, <1>2 DEF ProcOK
<1> QED BY <1>3, QuietLocal

LEMMA EnterLeaseLocal ==
  ASSUME Local, NEW p \in Proc, AwaitWrites(p) \/ AcquireLease(p)
  PROVE  Local'
<1> PICK m : m = mem[p]
  OBVIOUS
<1>0. /\ mem[p] \in Memory /\ ProcOK(p, pc[p], mem[p]) /\ pc[p] \in Step /\ lease \in Proc \union {None}
      /\ files \subseteq DOMAIN jobs /\ IsFiniteSet(m.bad) /\ m.list \subseteq DOMAIN jobs
      /\ UNCHANGED <<files, temps, cutoff, jobs, handled>> /\ Up(p)
      /\ pc[p] \in {"writes", "link", "probe", "reread", "unlink"}
      /\ lease' \in Proc \union {None}
  BY MineFacts DEF AwaitWrites, AcquireLease, LinkLease, ProbeLease, RereadLease, UnlinkLease, LeaseGone,
     directory, Local, Globals
<1>1. m.covers = {} /\ m.active = None /\ m.tries \in 0..2
  BY <1>0, MemoryFacts DEF ProcOK, UnderLease
<1>2. CASE Set(p, "idle", Ended(m))
  BY <1>0, <1>2, EndLocal
<1>3. ASSUME NEW at \in Step \ (Window3 \union {"wait"}), NEW x \in Memory, Set(p, at, x),
             x.writes = m.writes, x.failed = m.failed, x.active = m.active, x.stage = m.stage,
             x.bad = m.bad, x.list = m.list, x.covers = m.covers,
             at \in Reclaiming => x.seen \in Proc /\ life[x.seen] = "dead"
      PROVE  Local'
  BY <1>0, <1>1, <1>3, MoveLocal
<1>4. CASE AwaitWrites(p)
  <2>1. "link" \in Step \ (Window3 \union {"wait"}) /\ "link" \notin Reclaiming
    BY DEF Step, Window3, Reclaiming
  <2> QED BY <1>0, <1>2, <1>3, <1>4, <2>1 DEF AwaitWrites
<1>5. CASE LinkLease(p)
  <2>1. CASE m.tries = 2
    BY <1>2, <1>5, <2>1 DEF LinkLease
  <2>2. CASE m.tries # 2 /\ lease = None
    <3> PICK x : x = [m EXCEPT !.tries = 0]
      OBVIOUS
    <3>1. x \in Memory
      BY <1>0 DEF Memory
    <3>2. /\ x.writes = m.writes /\ x.failed = m.failed /\ x.active = m.active /\ x.stage = m.stage
          /\ x.bad = m.bad /\ x.list = m.list /\ x.covers = m.covers
      BY <1>0 DEF Memory
    <3>3. Set(p, "recover", x)
      BY <1>5, <2>2 DEF LinkLease
    <3>4. "recover" \in Step \ (Window3 \union {"wait"}) /\ "recover" \notin Reclaiming
      BY DEF Step, Window3, Reclaiming
    <3> QED BY <1>3, <3>1, <3>2, <3>3, <3>4
  <2>3. CASE m.tries # 2 /\ lease # None
    <3> PICK n : n = m.tries + 1
      OBVIOUS
    <3> PICK x : x = [m EXCEPT !.tries = n]
      OBVIOUS
    <3>0. n \in 0..2
      BY <1>1, <2>3
    <3>1. x \in Memory
      <4> HIDE DEF Temp
      <4> QED BY <1>0, <3>0 DEF Memory
    <3>2. /\ x.writes = m.writes /\ x.failed = m.failed /\ x.active = m.active /\ x.stage = m.stage
          /\ x.bad = m.bad /\ x.list = m.list /\ x.covers = m.covers
      BY <1>0 DEF Memory
    <3>3. Set(p, "probe", x)
      BY <1>5, <2>3 DEF LinkLease
    <3>4. "probe" \in Step \ (Window3 \union {"wait"}) /\ "probe" \notin Reclaiming
      BY DEF Step, Window3, Reclaiming
    <3> QED BY <1>3, <3>1, <3>2, <3>3, <3>4
  <2> QED BY <2>1, <2>2, <2>3
<1>6. CASE ProbeLease(p)
  <2>1. CASE Reclaimable(lease)
    <3> PICK x : x = [m EXCEPT !.seen = lease]
      OBVIOUS
    <3>0. lease \in Proc /\ life[lease] = "dead"
      BY <1>0, <1>6, <2>1 DEF ProbeLease, Reclaimable
    <3>1. x \in Memory
      BY <1>0, <3>0 DEF Memory
    <3>2. /\ x.writes = m.writes /\ x.failed = m.failed /\ x.active = m.active /\ x.stage = m.stage
          /\ x.bad = m.bad /\ x.list = m.list /\ x.covers = m.covers /\ x.seen = lease
      BY <1>0 DEF Memory
    <3>3. Set(p, "reread", x)
      BY <1>6, <2>1 DEF ProbeLease
    <3>4. "reread" \in Step \ (Window3 \union {"wait"})
      BY DEF Step, Window3
    <3> QED BY <1>3, <3>0, <3>1, <3>2, <3>3, <3>4
  <2>2. CASE ~ Reclaimable(lease)
    BY <1>2, <1>6, <2>2 DEF ProbeLease
  <2> QED BY <2>1, <2>2
<1>7. CASE RereadLease(p)
  <2>1. m.seen \in Proc /\ life[m.seen] = "dead"
    BY <1>0, <1>7 DEF RereadLease, ProcOK, Reclaiming
  <2>2. Set(p, "unlink", m) \/ Set(p, "link", m)
    BY <1>7 DEF RereadLease
  <2>3. "unlink" \in Step \ (Window3 \union {"wait"}) /\ "link" \in Step \ (Window3 \union {"wait"})
    BY DEF Step, Window3
  <2> QED BY <1>0, <1>3, <2>1, <2>2, <2>3
<1>8. CASE UnlinkLease(p)
  <2> PICK x : x = [m EXCEPT !.seen = None]
    OBVIOUS
  <2>1. x \in Memory
    BY <1>0 DEF Memory
  <2>2. /\ x.writes = m.writes /\ x.failed = m.failed /\ x.active = m.active /\ x.stage = m.stage
        /\ x.bad = m.bad /\ x.list = m.list /\ x.covers = m.covers
    BY <1>0 DEF Memory
  <2>3. Set(p, "link", x)
    BY <1>8 DEF UnlinkLease
  <2>4. "link" \in Step \ (Window3 \union {"wait"}) /\ "link" \notin Reclaiming
    BY DEF Step, Window3, Reclaiming
  <2> QED BY <1>3, <2>1, <2>2, <2>3, <2>4
<1>9. CASE LeaseGone(p)
  BY <1>2, <1>9 DEF LeaseGone
<1> QED BY <1>4, <1>5, <1>6, <1>7, <1>8, <1>9 DEF AcquireLease


\* A window is the beginning of a listing.
LEMMA WindowFacts ==
  ASSUME Local, NEW L \in SUBSET DOMAIN jobs, L # {}
  PROVE  /\ Window(L) \subseteq L /\ Window(L) # {} /\ Cardinality(Window(L)) <= Cardinality(L)
         /\ \A i \in Window(L) : \A j \in L \ Window(L) : i < j
<1>0. IsFiniteSet(L) /\ Cardinality(L) \in Nat /\ L \subseteq Nat /\ WindowSize \in Nat /\ WindowSize # 0
  BY ListFacts, QueueAssumption
<1>1. Window(L) \subseteq L
  BY DEF Window
<1>2. Cardinality(Window(L)) <= Cardinality(L)
  BY <1>0, <1>1, FS_Subset
<1>3. Oldest(L) \in Window(L)
  <2>1. Oldest(L) \in L /\ \A j \in L : Oldest(L) <= j
    BY <1>0, OldestFacts
  <2>2. {j \in L : j < Oldest(L)} = {}
    BY <1>0, <2>1
  <2>3. Cardinality({j \in L : j < Oldest(L)}) = 0
    BY <2>2, FS_EmptySet
  <2> QED BY <1>0, <2>1, <2>3 DEF Window
<1>4. ASSUME NEW i \in Window(L), NEW j \in L \ Window(L) PROVE i < j
  <2> SUFFICES ASSUME ~ (i < j) PROVE FALSE
    OBVIOUS
  <2>1. i \in L /\ i \in Nat /\ j \in Nat /\ Cardinality({k \in L : k < i}) < WindowSize
        /\ ~ (Cardinality({k \in L : k < j}) < WindowSize)
    BY <1>0, <1>1 DEF Window
  <2>2. {k \in L : k < j} \subseteq {k \in L : k < i}
    BY <1>0, <2>1
  <2>3. {k \in L : k < j} \in SUBSET L /\ {k \in L : k < i} \in SUBSET L
    OBVIOUS
  <2>4. IsFiniteSet({k \in L : k < i}) /\ Cardinality({k \in L : k < i}) \in Nat
        /\ IsFiniteSet({k \in L : k < j}) /\ Cardinality({k \in L : k < j}) \in Nat
    BY <1>0, <2>3, FS_Subset, FS_CardinalityType
  <2>5. Cardinality({k \in L : k < j}) <= Cardinality({k \in L : k < i})
    BY <2>2, <2>4, FS_Subset
  <2> QED BY <1>0, <2>1, <2>4, <2>5
<1> QED BY <1>1, <1>2, <1>3, <1>4

\* What is doomed is listed.
LEMMA DoomedFacts ==
  ASSUME Local, NEW L \in SUBSET DOMAIN jobs, NEW i \in Doomed(L)
  PROVE  /\ i \in L
         /\ \/ i \in Stale(L) \/ i \in Old(L)
            \/ Size(L) > MaxBytes
<1>0. L \subseteq Nat
  BY ListFacts
<1>1. CASE Stale(L) # {}
  <2>1. Stale(L) \in SUBSET Nat /\ Stale(L) \subseteq L
    BY <1>0 DEF Stale
  <2> QED BY <1>1, <2>1, OldestFacts DEF Doomed
<1>2. CASE Stale(L) = {} /\ Old(L) # {}
  <2>1. Old(L) \in SUBSET Nat /\ Old(L) \subseteq L
    BY <1>0 DEF Old
  <2> QED BY <1>2, <2>1, OldestFacts DEF Doomed
<1>3. CASE Stale(L) = {} /\ Old(L) = {}
  <2>1. i \in Excess(L) /\ ~ (Size(L) <= MaxBytes)
    BY <1>3 DEF Doomed, Excess
  <2>2. PICK S : S = {j \in L : KeyOf(j) # Hook}
    OBVIOUS
  <2>3. PICK R : R = IF S # {} THEN S ELSE L
    OBVIOUS
  <2>4. i = Oldest(R)
    BY <2>1, <2>2, <2>3 DEF Excess
  <2>5. Size(L) \in Nat /\ MaxBytes \in Nat /\ (L = {} => Size(L) = 0)
    <3>1. PICK H : H = {j \in L : KeyOf(j) \in Heavy}
      OBVIOUS
    <3>2. H \in SUBSET DOMAIN jobs /\ (L = {} => H = {})
      BY <3>1
    <3>3. Cardinality(L) \in Nat /\ Cardinality(H) \in Nat
      BY <3>2, ListFacts
    <3>4. L = {} => Cardinality(L) = 0 /\ Cardinality(H) = 0
      BY <3>2, FS_EmptySet
    <3> QED BY <3>1, <3>3, <3>4, QueueAssumption DEF Size
  <2>6. L # {}
    BY <2>1, <2>5
  <2>7. R \in SUBSET Nat /\ R # {} /\ R \subseteq L
    BY <1>0, <2>2, <2>3, <2>6
  <2>8. Oldest(R) \in R
    BY <2>7, OldestFacts
  <2>9. i \in L
    BY <2>4, <2>7, <2>8
  <2> QED BY <2>1, <2>5, <2>9
<1> QED BY <1>1, <1>2, <1>3

LEMMA ListingLocal ==
  ASSUME Local, NEW p \in Proc,
         \/ RecoverDone(p) \/ BeginListing(p) \/ SpoolFailed(p) \/ ReadDirectory(p)
         \/ Compact(p) \/ CompactDone(p) \/ ReadRecord(p) \/ StopClosed(p) \/ Refuse(p)
  PROVE  Local'
<1> PICK m : m = mem[p]
  OBVIOUS
<1>0. /\ mem[p] \in Memory /\ ProcOK(p, pc[p], mem[p]) /\ lease \in Proc \union {None}
      /\ files \subseteq DOMAIN jobs /\ IsFiniteSet(m.bad) /\ m.list \subseteq DOMAIN jobs
      /\ UNCHANGED <<temps, lease, cutoff, jobs, handled>> /\ Up(p)
      /\ pc[p] \in {"recover", "list", "read", "compact", "deliver", "record"}
      /\ files' \subseteq files
  BY MineFacts DEF RecoverDone, BeginListing, SpoolFailed, ReadDirectory, Compact, CompactDone,
     ReadRecord, StopClosed, Refuse, directory, Local, Globals
<1>1. /\ m.covers \subseteq Own(p) /\ m.active = None
      /\ m.covers \intersect (m.writes \union m.failed) = {}
  BY <1>0 DEF ProcOK
<1>2. ASSUME NEW at \in Step \cap UnderLease, NEW x \in Memory, Set(p, at, x), at # "wait",
             x.writes = m.writes, x.failed = m.failed, x.active = m.active, x.stage = m.stage,
             x.bad = m.bad, x.list \subseteq DOMAIN jobs,
             x.covers = m.covers \/ (x.covers = Own(p) /\ m.writes = {} /\ m.failed = {}),
             at \in Window3 => x.list # {} /\ Cardinality(x.list) <= x.pending
      PROVE  Local'
  <2>1. at \notin Reclaiming
    BY <1>2 DEF UnderLease, Reclaiming
  <2>2. x.covers \subseteq Own(p) /\ x.covers \intersect (x.writes \union x.failed) = {}
    BY <1>1, <1>2
  <2>3. files' \subseteq DOMAIN jobs /\ lease' \in Proc \union {None}
    BY <1>0
  <2> QED BY <1>0, <1>2, <2>1, <2>2, <2>3, MoveLocal
<1>9. CASE ReadRecord(p)
  <2>1. Set(p, "record", m) /\ m.list # {} /\ Cardinality(m.list) <= m.pending
    BY <1>0, <1>9 DEF ReadRecord, ProcOK, Window3
  <2>2. "record" \in Step \cap UnderLease
    BY DEF Step, UnderLease
  <2> QED BY <1>0, <1>2, <2>1, <2>2
<1>3. CASE RecoverDone(p) \/ SpoolFailed(p) \/ StopClosed(p)
  <2>1. Set(p, "list", m) \/ Set(p, "release", m)
    BY <1>3 DEF RecoverDone, SpoolFailed, StopClosed
  <2>2. /\ "list" \in Step \cap UnderLease /\ "release" \in Step \cap UnderLease
        /\ "list" \notin Window3 /\ "release" \notin Window3
    BY DEF Step, UnderLease, Window3
  <2> QED BY <1>0, <1>2, <2>1, <2>2
<1>4. CASE BeginListing(p)
  <2> PICK x : x = [m EXCEPT !.covers = Own(p)]
    OBVIOUS
  <2>1. Own(p) \in SUBSET Nat
    BY RecordFacts DEF Own
  <2>2. x \in Memory
    BY <1>0, <2>1 DEF Memory
  <2>3. /\ x.writes = m.writes /\ x.failed = m.failed /\ x.active = m.active /\ x.stage = m.stage
        /\ x.bad = m.bad /\ x.list = m.list /\ x.covers = Own(p)
    BY <1>0 DEF Memory
  <2>4. Set(p, "read", x) /\ m.writes = {} /\ m.failed = {}
    BY <1>4 DEF BeginListing, WritesVisible
  <2>5. "read" \in Step \cap UnderLease /\ "read" \notin Window3
    BY DEF Step, UnderLease, Window3
  <2> QED BY <1>0, <1>2, <2>2, <2>3, <2>4, <2>5
<1>5. CASE ReadDirectory(p)
  <2> PICK x : x = [m EXCEPT !.list = files]
    OBVIOUS
  <2>1. files \in SUBSET Nat
    BY <1>0, RecordFacts
  <2>2. x \in Memory
    BY <1>0, <2>1 DEF Memory
  <2>3. /\ x.writes = m.writes /\ x.failed = m.failed /\ x.active = m.active /\ x.stage = m.stage
        /\ x.bad = m.bad /\ x.list = files /\ x.covers = m.covers
    BY <1>0 DEF Memory
  <2>4. Set(p, "compact", x)
    BY <1>5 DEF ReadDirectory
  <2>5. "compact" \in Step \cap UnderLease /\ "compact" \notin Window3
    BY DEF Step, UnderLease, Window3
  <2> QED BY <1>0, <1>2, <2>2, <2>3, <2>4, <2>5
<1>6. CASE Compact(p)
  <2>0. PICK i : Set(p, "compact", [m EXCEPT !.list = @ \ {i}])
    BY <1>6 DEF Compact
  <2> PICK x : x = [m EXCEPT !.list = @ \ {i}]
    OBVIOUS
  <2>1. m.list \ {i} \in SUBSET Nat
    BY <1>0, RecordFacts
  <2>2. x \in Memory
    BY <1>0, <2>1 DEF Memory
  <2>3. /\ x.writes = m.writes /\ x.failed = m.failed /\ x.active = m.active /\ x.stage = m.stage
        /\ x.bad = m.bad /\ x.list = m.list \ {i} /\ x.covers = m.covers
    BY <1>0 DEF Memory
  <2>5. "compact" \in Step \cap UnderLease /\ "compact" \notin Window3
    BY DEF Step, UnderLease, Window3
  <2> QED BY <1>0, <1>2, <2>0, <2>2, <2>3, <2>5
<1>7. CASE CompactDone(p)
  <2> PICK n : n = Cardinality(m.list) + Cardinality(m.bad)
    OBVIOUS
  <2>0. /\ Cardinality(m.list) \in Nat /\ Cardinality(m.bad) \in Nat
        /\ n \in Nat /\ Cardinality(m.list) <= n
    BY <1>0, ListFacts, FS_CardinalityType
  <2> PICK c : c = Counted(m)
    OBVIOUS
  <2>1. c = [m EXCEPT !.pending = n]
    BY DEF Counted
  <2>2. c \in Memory
    BY <1>0, <2>0, <2>1 DEF Memory
  <2>3. /\ c.writes = m.writes /\ c.failed = m.failed /\ c.active = m.active /\ c.stage = m.stage
        /\ c.bad = m.bad /\ c.list = m.list /\ c.covers = m.covers /\ c.pending = n
    BY <1>0, <2>1 DEF Memory
  <2>4. CASE m.list # {}
    <3> PICK w : w = Window(m.list)
      OBVIOUS
    <3> PICK x : x = [c EXCEPT !.list = w]
      OBVIOUS
    <3>1. w \subseteq m.list /\ w # {} /\ Cardinality(w) <= Cardinality(m.list) /\ Cardinality(w) \in Nat
      BY <1>0, <2>4, WindowFacts, ListFacts
    <3>2. w \in SUBSET Nat
      BY <1>0, <3>1, RecordFacts
    <3>3. x \in Memory
      BY <2>2, <3>2 DEF Memory
    <3>4. /\ x.writes = m.writes /\ x.failed = m.failed /\ x.active = m.active /\ x.stage = m.stage
          /\ x.bad = m.bad /\ x.list = w /\ x.covers = m.covers /\ x.pending = n
      BY <2>2, <2>3 DEF Memory
    <3>5. Set(p, "deliver", x)
      BY <1>7, <2>3, <2>4 DEF CompactDone
    <3>6. "deliver" \in Step \cap UnderLease
      BY DEF Step, UnderLease
    <3>7. Cardinality(w) <= n
      BY <2>0, <3>1
    <3> QED BY <1>0, <1>2, <3>1, <3>3, <3>4, <3>5, <3>6, <3>7
  <2>5. CASE m.list = {} /\ m.writes # {}
    <3>1. Set(p, "list", m)
      BY <1>7, <2>3, <2>5 DEF CompactDone
    <3>2. "list" \in Step \cap UnderLease /\ "list" \notin Window3
      BY DEF Step, UnderLease, Window3
    <3> QED BY <1>0, <1>2, <3>1, <3>2
  <2>6. CASE m.list = {} /\ m.writes = {}
    <3> PICK x : x = [c EXCEPT !.drained = (c.bad = {})]
      OBVIOUS
    <3>1. x \in Memory
      BY ZenonT(30), <2>2 DEF Memory
    <3>2. /\ x.writes = m.writes /\ x.failed = m.failed /\ x.active = m.active /\ x.stage = m.stage
          /\ x.bad = m.bad /\ x.list = m.list /\ x.covers = m.covers
      BY <2>2, <2>3 DEF Memory
    <3>3. Set(p, "release", x)
      BY <1>7, <2>3, <2>6 DEF CompactDone
    <3>4. "release" \in Step \cap UnderLease /\ "release" \notin Window3
      BY DEF Step, UnderLease, Window3
    <3> QED BY <1>0, <1>2, <3>1, <3>2, <3>3, <3>4
  <2> QED BY <2>4, <2>5, <2>6
<1>8. CASE Refuse(p)
  <2> PICK i : i = Oldest(m.list)
    OBVIOUS
  <2>0. pc[p] = "record" /\ m.list # {} /\ Cardinality(m.list) <= m.pending
    BY <1>0, <1>8 DEF Refuse, ProcOK, Window3
  <2>1. i \in m.list
    BY <1>0, <2>0, RecordFacts, OldestFacts
  <2> PICK l : l = m.list \ {i}
    OBVIOUS
  <2>2. Cardinality(l) = Cardinality(m.list) - 1 /\ Cardinality(m.list) \in Nat /\ Cardinality(l) \in Nat
        /\ l \subseteq DOMAIN jobs /\ l \in SUBSET Nat /\ m.pending \in Nat
    <3>1. l \subseteq DOMAIN jobs
      BY <1>0
    <3>2. IsFiniteSet(m.list)
      BY <1>0, ListFacts
    <3> QED BY <1>0, <2>1, <3>1, <3>2, ListFacts, FS_RemoveElement, MemoryFacts
  <2> PICK n : n = m.pending - 1
    OBVIOUS
  <2>3. n \in Nat /\ Cardinality(l) <= n
    BY <2>0, <2>2
  <2> PICK x : x = [m EXCEPT !.pending = n, !.list = l]
    OBVIOUS
  <2>4. x \in Memory
    BY ZenonT(30), <1>0, <2>2, <2>3 DEF Memory
  <2>5. /\ x.writes = m.writes /\ x.failed = m.failed /\ x.active = m.active /\ x.stage = m.stage
        /\ x.bad = m.bad /\ x.list = l /\ x.covers = m.covers /\ x.pending = n
    BY <1>0 DEF Memory
  <2>6. Done([m EXCEPT !.pending = @ - 1], i) = x
    BY <1>0 DEF Done, Memory
  <2>7. Set(p, NextStep(x), x)
    BY <1>8, <2>6 DEF Refuse
  <2>8. NextStep(x) = (IF l = {} THEN "list" ELSE "deliver")
    BY <2>5 DEF NextStep
  <2>9. /\ "list" \in Step \cap UnderLease /\ "deliver" \in Step \cap UnderLease
        /\ "list" \notin Window3
    BY DEF Step, UnderLease, Window3
  <2>10. CASE l = {}
    BY ZenonT(30), <1>0, <1>2, <2>2, <2>3, <2>4, <2>5, <2>7, <2>8, <2>9, <2>10
  <2>11. CASE l # {}
    <3>1. Set(p, "deliver", x)
      BY <2>7, <2>8, <2>11
    <3>2. x.list # {} /\ Cardinality(x.list) <= x.pending /\ x.list \subseteq DOMAIN jobs
      BY <2>2, <2>3, <2>5, <2>11
    <3> QED BY <1>2, <2>4, <2>5, <2>9, <3>1, <3>2
  <2> QED BY <2>10, <2>11
<1> QED BY <1>3, <1>4, <1>5, <1>6, <1>7, <1>8, <1>9


-----------------------------------------------------------------------------
(* A record is accepted.                                                   *)

LEMMA GrowFacts ==
  ASSUME Local, NEW r \in [by : Proc, key : Key], jobs' = Append(jobs, r)
  PROVE  /\ jobs' \in Seq([by : Proc, key : Key])
         /\ Len(jobs) + 1 \in Nat /\ Len(jobs) + 1 \notin DOMAIN jobs
         /\ DOMAIN jobs' = DOMAIN jobs \union {Len(jobs) + 1}
         /\ \A i \in DOMAIN jobs : jobs'[i] = jobs[i]
         /\ jobs'[Len(jobs) + 1] = r
         /\ \A q \in Proc : Own(q) \subseteq Own(q)'
         /\ Own(r.by)' = Own(r.by) \union {Len(jobs) + 1}
<1> DEFINE R == [by : Proc, key : Key]
<1>1. jobs \in Seq(R) /\ r \in R
  BY DEF Local, Globals
<1>2. Len(jobs) \in Nat /\ DOMAIN jobs = 1..Len(jobs)
  BY RecordFacts
<1>3. jobs' \in Seq(R) /\ Len(jobs') = Len(jobs) + 1 /\ DOMAIN jobs' = 1..(Len(jobs) + 1)
      /\ jobs'[Len(jobs) + 1] = r /\ \A i \in 1..Len(jobs) : jobs'[i] = jobs[i]
  <2> HIDE DEF R
  <2> QED BY <1>1, <1>2
<1>4. 1..(Len(jobs) + 1) = (1..Len(jobs)) \union {Len(jobs) + 1} /\ Len(jobs) + 1 \notin 1..Len(jobs)
  BY <1>2
<1>5. DOMAIN jobs' = DOMAIN jobs \union {Len(jobs) + 1} /\ Len(jobs) + 1 \notin DOMAIN jobs
  BY <1>2, <1>3, <1>4
<1>6. \A i \in DOMAIN jobs : jobs'[i] = jobs[i]
  BY <1>2, <1>3
<1>7. \A q \in Proc : Own(q) \subseteq Own(q)'
  BY <1>5, <1>6 DEF Own
<1>8. Own(r.by)' = Own(r.by) \union {Len(jobs) + 1}
  BY <1>3, <1>5, <1>6 DEF Own
<1> QED BY <1>2, <1>3, <1>5, <1>6, <1>7, <1>8

LEMMA EnqueueLocal ==
  ASSUME Local, NEW p \in Proc, NEW k \in Key, NEW now \in BOOLEAN, Enqueue(p, k, now)
  PROVE  Local'
<1> PICK i : i = Len(jobs) + 1
  OBVIOUS
<1> PICK r : r = [by |-> p, key |-> k]
  OBVIOUS
<1> PICK here : here = pc[p]
  OBVIOUS
<1> PICK m : m = [mem[p] EXCEPT !.pending = @ + 1, !.writes = @ \union {i}]
  OBVIOUS
<1>0. /\ Up(p) /\ jobs' = Append(jobs, r) /\ UNCHANGED <<files, temps, lease, cutoff, handled>>
      /\ Flush(p, m) \/ Set(p, pc[p], Scheduled(m))
  BY DEF Enqueue, directory
<1>1. r \in [by : Proc, key : Key] /\ r.by = p
  OBVIOUS
<1>2. /\ jobs' \in Seq([by : Proc, key : Key])
      /\ i \in Nat /\ i \notin DOMAIN jobs /\ DOMAIN jobs' = DOMAIN jobs \union {i}
      /\ \A j \in DOMAIN jobs : jobs'[j] = jobs[j]
      /\ \A q \in Proc : Own(q) \subseteq Own(q)'
      /\ Own(p)' = Own(p) \union {i}
  BY <1>0, <1>1, GrowFacts
<1>3. mem[p] \in Memory /\ ProcOK(p, pc[p], mem[p]) /\ pc[p] \in Step
  BY MineFacts
<1>4. m \in Memory
  <2> PICK n : n = mem[p].pending + 1
    OBVIOUS
  <2> PICK w : w = mem[p].writes \union {i}
    OBVIOUS
  <2>1. n \in Nat /\ w \in SUBSET Nat
    BY <1>2, <1>3, MemoryFacts
  <2>2. [mem[p] EXCEPT !.pending = n] \in Memory
    BY <1>3, <2>1 DEF Memory
  <2>3. PICK y \in Memory : y = [mem[p] EXCEPT !.pending = n]
    BY <2>2
  <2>4. [y EXCEPT !.writes = w] \in Memory
    BY <2>1 DEF Memory
  <2>5. m = [y EXCEPT !.writes = w]
    BY <1>3, <2>3 DEF Memory
  <2> QED BY <2>4, <2>5
<1>5. /\ m.list = mem[p].list /\ m.bad = mem[p].bad /\ m.covers = mem[p].covers
      /\ m.writes = mem[p].writes \union {i} /\ m.failed = mem[p].failed /\ m.active = mem[p].active
      /\ m.stage = mem[p].stage /\ m.seen = mem[p].seen /\ m.pending = mem[p].pending + 1
  BY <1>3 DEF Memory
<1>6. life' = life /\ policy' = policy
  BY <1>0 DEF Flush, Set
<1>7. ProcOK(p, here, m)'
  <2>1. pc[p] \in Window3 => m.list # {} /\ Cardinality(m.list) <= m.pending
    <3>1. mem[p].list \subseteq DOMAIN jobs /\ mem[p].pending \in Nat
      BY <1>3, MemoryFacts DEF ProcOK
    <3>2. Cardinality(mem[p].list) \in Nat
      BY <3>1, ListFacts
    <3> QED BY <1>3, <1>5, <3>1, <3>2 DEF ProcOK
  <2>2. m.writes \union m.failed \union m.covers \subseteq Own(p)'
        /\ m.covers \intersect (m.writes \union m.failed) = {}
    <3>1. Own(p) \subseteq DOMAIN jobs
      BY DEF Own
    <3> QED BY <1>2, <1>3, <1>5, <3>1 DEF ProcOK
  <2>3. m.list \subseteq DOMAIN jobs' /\ (m.active # None => m.active \in DOMAIN jobs')
    BY <1>2, <1>3, <1>5 DEF ProcOK
  <2> QED BY <1>0, <1>3, <1>4, <1>5, <1>6, <2>1, <2>2, <2>3 DEF ProcOK, Up
<1>8. ASSUME NEW at \in Step, NEW x \in Memory, Set(p, at, x), ProcOK(p, at, x)',
             m.writes \subseteq x.writes, pc[p] = "rewrite" => at = "rewrite" /\ x.list = m.list
      PROVE  Local'
  <2>1. /\ pc' = [pc EXCEPT ![p] = at] /\ mem' = [mem EXCEPT ![p] = x]
    BY <1>8 DEF Set
  <2>2. /\ pc \in [Proc -> Step] /\ mem \in [Proc -> Memory] /\ DOMAIN pc = Proc /\ Globals /\ TempsOK
    BY DEF Local
  <2>3. pc' \in [Proc -> Step] /\ mem' \in [Proc -> Memory] /\ DOMAIN pc' = Proc
    BY <2>1, <2>2
  <2>4. Globals'
    BY <1>0, <1>2, <1>6, <2>2 DEF Globals
  <2>5. ASSUME NEW t \in temps, Up(t.by) PROVE TempFits(t, pc[t.by], mem[t.by])'
    <3>1. TempFits(t, pc[t.by], mem[t.by]) /\ t.by \in Proc /\ t.rec \in DOMAIN jobs
      BY <2>2, <2>5 DEF TempsOK, Temp
    <3>2. jobs'[t.rec] = jobs[t.rec]
      BY <1>2, <3>1
    <3>3. CASE t.by = p
      <4>1. pc'[t.by] = at /\ mem'[t.by] = x
        BY <2>1, <2>2, <3>3
      <4> QED BY <1>5, <1>8, <3>1, <3>2, <3>3, <4>1 DEF TempFits
    <3>4. CASE t.by # p
      <4>1. pc'[t.by] = pc[t.by] /\ mem'[t.by] = mem[t.by]
        BY <2>1, <2>2, <3>1, <3>4
      <4> QED BY <3>1, <3>2, <4>1 DEF TempFits
    <3> QED BY <3>3, <3>4
  <2>6. TempsOK'
    <3>1. temps' = temps /\ temps \subseteq Temp
      BY <1>0, <2>2 DEF TempsOK
    <3>2. ASSUME NEW t \in temps PROVE t.rec \in DOMAIN jobs' /\ life'[t.by] # "off"
      BY <1>2, <1>6, <2>2 DEF TempsOK
    <3>3. ASSUME NEW t \in temps, NEW u \in temps, t.by = u.by, t.rec = u.rec, Up(t.by),
                 jobs'[t.rec].by = t.by
          PROVE  t = u
      BY <1>2, <2>2, <3>3 DEF TempsOK
    <3> QED BY <1>6, <2>5, <3>1, <3>2, <3>3 DEF TempsOK, Up
  <2>7. ASSUME NEW q \in Proc PROVE ProcOK(q, pc[q], mem[q])'
    <3>1. CASE q = p
      <4>1. pc'[q] = at /\ mem'[q] = x
        BY <2>1, <2>2, <3>1
      <4> QED BY <1>8, <3>1, <4>1 DEF ProcOK, Up, Own
    <3>2. CASE q # p
      <4>1. pc'[q] = pc[q] /\ mem'[q] = mem[q]
        BY <2>1, <2>2, <3>2
      <4>2. ProcOK(q, pc[q], mem[q])
        BY DEF Local
      <4>3. Own(q) \subseteq Own(q)' /\ DOMAIN jobs \subseteq DOMAIN jobs'
        BY <1>2
      <4> QED BY <1>0, <1>6, <4>1, <4>2, <4>3 DEF ProcOK, Up
    <3> QED BY <3>1, <3>2
  <2> QED BY <2>3, <2>4, <2>6, <2>7 DEF Local
<1>9. CASE Set(p, pc[p], Scheduled(m))
  <2> PICK e : e = Scheduled(m)
    OBVIOUS
  <2>1. /\ e \in Memory /\ e.list = m.list /\ e.bad = m.bad /\ e.covers = m.covers
        /\ e.writes = m.writes /\ e.failed = m.failed /\ e.active = m.active /\ e.seen = m.seen
        /\ e.stage = m.stage /\ e.pending = m.pending
    <3>1. m \in Memory /\ e = Scheduled(m)
      BY <1>4
    <3> QED BY ONLY <3>1, ScheduledSame
  <2>2. ProcOK(p, here, e)'
    BY ZenonT(30), <1>0, <1>6, <1>7, <2>1 DEF ProcOK, Up
  <2> QED BY <1>3, <1>8, <1>9, <2>1, <2>2
<1>10. CASE Flush(p, m)
  <2>1. CASE MayFlush(p, m)
    <3> PICK e : e = Flushing(m)
      OBVIOUS
    <3>1. /\ e \in Memory /\ e.list = {} /\ e.bad = {} /\ e.covers = m.covers
          /\ e.writes = m.writes \union m.failed /\ e.failed = m.failed /\ e.active = m.active
          /\ e.stage = m.stage
      BY <1>4, FlushingFacts
    <3>2. "writes" \in Step /\ {"writes", "idle"} \intersect (UnderLease \union Window3 \union Reclaiming \union {"wait"}) = {}
      BY DEF Step, UnderLease, Window3, Reclaiming
    <3>3. pc[p] = "idle" /\ m.active = None
      BY <2>1 DEF MayFlush
    <3>4. Set(p, "writes", e)
      BY <1>10, <2>1 DEF Flush
    <3>5. m.covers = {}
      BY <1>3, <1>5, <3>2, <3>3 DEF ProcOK
    <3>6. ProcOK(p, "writes", e)'
      <4>1. ProcOK(p, "idle", m)'
        BY <1>7, <3>3 DEF ProcOK
      <4>2. /\ e.writes \union e.failed \union e.covers \subseteq Own(p)'
            /\ e.covers \intersect (e.writes \union e.failed) = {} /\ e.covers = {}
        BY <3>1, <3>5, <4>1 DEF ProcOK
      <4>3. life'[p] = "up" /\ policy'[p] \in Policies
        BY <1>0, <1>6, <4>1 DEF ProcOK, Up
      <4> QED BY ZenonT(30), <3>1, <3>2, <3>3, <4>1, <4>2, <4>3, FS_EmptySet DEF ProcOK, Up
    <3> QED BY <1>8, <3>1, <3>2, <3>3, <3>4, <3>6
  <2>2. CASE ~ MayFlush(p, m)
    <3>1. Set(p, pc[p], m)
      BY <1>10, <2>2 DEF Flush
    <3> QED BY <1>3, <1>4, <1>7, <1>8, <3>1
  <2> QED BY <2>1, <2>2
<1> QED BY <1>0, <1>9, <1>10


-----------------------------------------------------------------------------
(* Temporaries.                                                            *)

\* A step of p that touches no temporary but its own and those of the dead.
LEMMA SpoolLocal ==
  ASSUME Local, NEW p \in Proc, NEW at \in Step, NEW m \in Memory, Set(p, at, m), Up(p),
         jobs' = jobs, handled' = handled, cutoff' = cutoff, lease' = lease,
         files' \subseteq DOMAIN jobs, temps' \subseteq Temp,
         \A t \in temps' : t.by # p => t \in temps,
         \A t \in temps' : t.by = p => t.rec \in DOMAIN jobs /\ TempFits(t, at, m),
         \A t, u \in temps' :
           t.by = p /\ u.by = p /\ t.rec = u.rec /\ jobs[t.rec].by = p => t = u,
         ProcOK(p, at, m)
  PROVE  Local'
<1>1. /\ pc' = [pc EXCEPT ![p] = at] /\ mem' = [mem EXCEPT ![p] = m]
      /\ life' = life /\ policy' = policy
  BY DEF Set
<1>2. /\ pc \in [Proc -> Step] /\ mem \in [Proc -> Memory] /\ DOMAIN pc = Proc /\ Globals /\ TempsOK
  BY DEF Local
<1>3. Globals'
  BY <1>1, <1>2 DEF Globals
<1>4. ASSUME NEW t \in temps'
      PROVE  t.by \in Proc /\ t.rec \in DOMAIN jobs' /\ life'[t.by] # "off"
  <2>1. t.by \in Proc
    BY DEF Temp
  <2>2. t.rec \in DOMAIN jobs /\ life[t.by] # "off"
    BY <1>2, <2>1 DEF TempsOK, Up
  <2> QED BY <1>1, <2>1, <2>2
<1>5. ASSUME NEW t \in temps', Up(t.by)' PROVE TempFits(t, pc[t.by], mem[t.by])'
  <2>1. CASE t.by = p
    <3>1. pc'[t.by] = at /\ mem'[t.by] = m
      BY <1>1, <1>2, <2>1
    <3> QED BY <2>1, <3>1 DEF TempFits
  <2>2. CASE t.by # p
    <3>1. pc'[t.by] = pc[t.by] /\ mem'[t.by] = mem[t.by]
      BY <1>1, <1>2, <1>4, <2>2
    <3>2. TempFits(t, pc[t.by], mem[t.by])
      BY <1>1, <1>2, <1>5, <2>2 DEF TempsOK, Up
    <3> QED BY <3>1, <3>2 DEF TempFits
  <2> QED BY <2>1, <2>2
<1>6. ASSUME NEW t \in temps', NEW u \in temps', t.by = u.by, t.rec = u.rec, Up(t.by)',
             jobs'[t.rec].by = t.by
      PROVE  t = u
  BY <1>1, <1>2, <1>6 DEF TempsOK, Up
<1>7. TempsOK'
  BY <1>4, <1>5, <1>6 DEF TempsOK
<1>8. ProcOK(p, at, m)'
  BY <1>1 DEF ProcOK, Up, Own
<1> QED BY <1>3, <1>7, <1>8, SetLocal

LEMMA WriteTempLocal ==
  ASSUME Local, NEW p \in Proc,
         \/ \E i \in DOMAIN jobs : CreateTemp(p, i)
         \/ \E t \in temps : SyncTemp(p, t)
  PROVE  Local'
<1>1. Globals /\ TempsOK /\ UNCHANGED <<files, lease, processes, cutoff, jobs, handled>>
  BY DEF CreateTemp, SyncTemp, Local
<1>2. TempsOK'
  <2>1. ASSUME NEW i \in DOMAIN jobs, CreateTemp(p, i) PROVE TempsOK'
    <3> PICK n : n = [rec |-> i, by |-> p, whole |-> FALSE]
      OBVIOUS
    <3>1. /\ temps' = temps \union {n} /\ n \in Temp /\ n.rec = i /\ n.by = p
          /\ ~ \E t \in temps : t.rec = i /\ t.by = p
      BY <2>1, RecordFacts DEF CreateTemp, Temp
    <3>2. i \in mem[p].writes /\ jobs[i].by = p /\ Up(p)
      BY <2>1, MineFacts DEF CreateTemp, ProcOK, Own
    <3>3. ASSUME NEW t \in temps', Up(t.by) PROVE TempFits(t, pc[t.by], mem[t.by])'
      BY <1>1, <3>1, <3>2, <3>3 DEF TempsOK, TempFits, processes
    <3>4. ASSUME NEW t \in temps', NEW u \in temps', t.by = u.by, t.rec = u.rec, Up(t.by),
                 jobs[t.rec].by = t.by
          PROVE  t = u
      BY <1>1, <3>1, <3>4 DEF TempsOK
    <3>5. \A t \in temps' : t.rec \in DOMAIN jobs' /\ life'[t.by] # "off"
      BY <1>1, <3>1, <3>2 DEF TempsOK, processes, Up
    <3> QED BY <1>1, <3>1, <3>3, <3>4, <3>5 DEF TempsOK, Up, processes
  <2>2. ASSUME NEW o \in temps, SyncTemp(p, o) PROVE TempsOK'
    <3> PICK n : n = [o EXCEPT !.whole = TRUE]
      OBVIOUS
    <3>1. /\ temps' = (temps \ {o}) \union {n} /\ n \in Temp /\ n.rec = o.rec /\ n.by = o.by
      BY <1>1, <2>2 DEF SyncTemp, TempsOK, Temp
    <3>3. ASSUME NEW t \in temps', Up(t.by) PROVE TempFits(t, pc[t.by], mem[t.by])'
      <4>1. PICK u \in temps : u.by = t.by /\ u.rec = t.rec
        BY <3>1
      <4>2. Up(u.by) /\ pc' = pc /\ mem' = mem /\ jobs' = jobs
        BY <1>1, <3>3, <4>1 DEF processes
      <4>3. TempFits(u, pc[u.by], mem[u.by])
        BY <1>1, <4>2 DEF TempsOK
      <4> QED BY <4>1, <4>2, <4>3 DEF TempFits
    <3>4. ASSUME NEW t \in temps', NEW u \in temps', t.by = u.by, t.rec = u.rec, Up(t.by),
                 jobs[t.rec].by = t.by
          PROVE  t = u
      BY <1>1, <3>1, <3>4 DEF TempsOK
    <3>5. \A t \in temps' : t.rec \in DOMAIN jobs' /\ life'[t.by] # "off"
      BY <1>1, <3>1 DEF TempsOK, processes
    <3> QED BY ZenonT(30), <1>1, <3>1, <3>3, <3>4, <3>5 DEF TempsOK, Up, processes
  <2> QED BY <2>1, <2>2
<1>3. Globals'
  BY <1>1 DEF Globals, processes
<1>4. ASSUME NEW q \in Proc PROVE ProcOK(q, pc[q], mem[q])'
  <2>1. ProcOK(q, pc[q], mem[q])
    BY MineFacts
  <2> QED BY <1>1, <2>1 DEF ProcOK, Up, Own, processes
<1> QED BY <1>1, <1>2, <1>3, <1>4 DEF Local, processes

LEMMA PublishLocal ==
  ASSUME Local, NEW p \in Proc, NEW t \in temps, PublishSpool(p, t)
  PROVE  Local'
<1> PICK m : m = [mem[p] EXCEPT !.writes = @ \ {t.rec}, !.failed = @ \ {t.rec}]
  OBVIOUS
<1> PICK here : here = pc[p]
  OBVIOUS
<1>0. /\ mem[p] \in Memory /\ ProcOK(p, here, mem[p]) /\ here \in Step
      /\ Globals /\ TempsOK
  BY MineFacts DEF Local
<1>1. /\ Up(p) /\ t.by = p /\ files' = files \union {t.rec} /\ temps' = temps \ {t}
      /\ Set(p, here, m) /\ UNCHANGED <<lease, cutoff, jobs, handled>>
  BY DEF PublishSpool
<1>2. m \in Memory
  <2> PICK w : w = mem[p].writes \ {t.rec}
    OBVIOUS
  <2> PICK f : f = mem[p].failed \ {t.rec}
    OBVIOUS
  <2>1. w \in SUBSET Nat /\ f \in SUBSET Nat
    BY <1>0, MemoryFacts
  <2> QED BY <1>0, <2>1 DEF Memory
<1>3. /\ m.list = mem[p].list /\ m.bad = mem[p].bad /\ m.covers = mem[p].covers
      /\ m.writes = mem[p].writes \ {t.rec} /\ m.failed = mem[p].failed \ {t.rec}
      /\ m.active = mem[p].active /\ m.stage = mem[p].stage /\ m.seen = mem[p].seen
      /\ m.pending = mem[p].pending
  BY <1>0 DEF Memory
<1>4. ProcOK(p, here, m)
  BY <1>0, <1>1, <1>2, <1>3 DEF ProcOK
<1>5. ASSUME NEW u \in temps', u.by = p PROVE u.rec \in DOMAIN jobs /\ TempFits(u, here, m)
  <2>1. u \in temps /\ u # t /\ u.rec \in DOMAIN jobs /\ TempFits(u, pc[u.by], mem[u.by])
    BY <1>0, <1>1, <1>5 DEF TempsOK
  <2>2. jobs[u.rec].by = p => u.rec # t.rec
    BY <1>0, <1>1, <1>5, <2>1 DEF TempsOK
  <2> QED BY <1>3, <1>5, <2>1, <2>2 DEF TempFits
<1>6. /\ \A u, v \in temps' : u.by = p /\ v.by = p /\ u.rec = v.rec /\ jobs[u.rec].by = p => u = v
      /\ temps' \subseteq Temp /\ \A u \in temps' : u \in temps
      /\ files' \subseteq DOMAIN jobs
  BY <1>0, <1>1 DEF TempsOK, Globals
<1> QED BY <1>0, <1>1, <1>2, <1>4, <1>5, <1>6, SpoolLocal

LEMMA SpoolFailsLocal ==
  ASSUME Local, NEW p \in Proc, NEW i \in DOMAIN jobs, SpoolFails(p, i)
  PROVE  Local'
<1> PICK m : m = [mem[p] EXCEPT !.writes = @ \ {i}, !.failed = @ \union {i}]
  OBVIOUS
<1> PICK here : here = pc[p]
  OBVIOUS
<1>0. /\ mem[p] \in Memory /\ ProcOK(p, here, mem[p]) /\ here \in Step
      /\ Globals /\ TempsOK
  BY MineFacts DEF Local
<1>1. /\ Up(p) /\ i \in mem[p].writes /\ temps' = temps \ {t \in temps : t.rec = i /\ t.by = p}
      /\ Set(p, here, m) /\ UNCHANGED <<lease, cutoff, jobs, handled>>
      /\ files' \subseteq files \union {i}
  BY DEF SpoolFails
<1>2. m \in Memory
  <2> PICK w : w = mem[p].writes \ {i}
    OBVIOUS
  <2> PICK f : f = mem[p].failed \union {i}
    OBVIOUS
  <2>1. w \in SUBSET Nat /\ f \in SUBSET Nat
    BY <1>0, MemoryFacts, RecordFacts
  <2> QED BY <1>0, <2>1 DEF Memory
<1>3. /\ m.list = mem[p].list /\ m.bad = mem[p].bad /\ m.covers = mem[p].covers
      /\ m.writes = mem[p].writes \ {i} /\ m.failed = mem[p].failed \union {i}
      /\ m.active = mem[p].active /\ m.stage = mem[p].stage /\ m.seen = mem[p].seen
      /\ m.pending = mem[p].pending
  BY <1>0 DEF Memory
<1>4. ProcOK(p, here, m)
  BY <1>0, <1>1, <1>2, <1>3 DEF ProcOK
<1>5. ASSUME NEW u \in temps', u.by = p PROVE u.rec \in DOMAIN jobs /\ TempFits(u, here, m)
  <2>1. u \in temps /\ u.rec # i /\ u.rec \in DOMAIN jobs /\ TempFits(u, pc[u.by], mem[u.by])
    BY <1>0, <1>1, <1>5 DEF TempsOK
  <2> QED BY <1>3, <1>5, <2>1 DEF TempFits
<1>6. /\ \A u, v \in temps' : u.by = p /\ v.by = p /\ u.rec = v.rec /\ jobs[u.rec].by = p => u = v
      /\ temps' \subseteq Temp /\ \A u \in temps' : u \in temps
      /\ files' \subseteq DOMAIN jobs
  BY <1>0, <1>1 DEF TempsOK, Globals
<1> QED BY <1>0, <1>1, <1>2, <1>4, <1>5, <1>6, SpoolLocal

LEMMA RecoverLocal ==
  ASSUME Local, NEW p \in Proc, NEW t \in temps, Recover(p, t)
  PROVE  Local'
<1>0. /\ mem[p] \in Memory /\ ProcOK(p, "recover", mem[p]) /\ "recover" \in Step
      /\ Globals /\ TempsOK /\ pc[p] = "recover" /\ Up(p)
      /\ UNCHANGED <<lease, cutoff, jobs, handled>>
  BY MineFacts DEF Local, Recover
<1>1. /\ files' \subseteq DOMAIN jobs /\ temps' \subseteq temps /\ temps \subseteq Temp
  BY <1>0 DEF Recover, TempsOK, Globals
<1>2. ASSUME NEW x \in Memory, Set(p, "recover", x), x.list = mem[p].list, x.writes = mem[p].writes,
             ProcOK(p, "recover", x)
      PROVE  Local'
  <2>1. \A u \in temps' : u.by = p => u.rec \in DOMAIN jobs /\ TempFits(u, "recover", x)
    BY <1>0, <1>1, <1>2 DEF TempsOK, TempFits
  <2>2. \A u, v \in temps' : u.by = p /\ v.by = p /\ u.rec = v.rec /\ jobs[u.rec].by = p => u = v
    BY <1>0, <1>1 DEF TempsOK
  <2> QED BY <1>0, <1>1, <1>2, <2>1, <2>2, SpoolLocal
<1>3. CASE Set(p, "recover", mem[p])
  BY <1>0, <1>2, <1>3
<1>4. CASE Set(p, "recover", [mem[p] EXCEPT !.bad = @ \union {t}])
  <2> PICK x : x = [mem[p] EXCEPT !.bad = @ \union {t}]
    OBVIOUS
  <2> PICK b : b = mem[p].bad \union {t}
    OBVIOUS
  <2>1. b \in SUBSET Temp /\ IsFiniteSet(b)
    <3>1. IsFiniteSet(mem[p].bad) /\ mem[p].bad \in SUBSET Temp
      BY <1>0, MemoryFacts DEF ProcOK
    <3>2. IsFiniteSet(mem[p].bad \union {t})
      BY <3>1, FS_AddElement
    <3> QED BY <1>1, <3>1, <3>2
  <2>2. x \in Memory
    BY <1>0, <2>1 DEF Memory
  <2>3. /\ x.list = mem[p].list /\ x.bad = b /\ x.covers = mem[p].covers
        /\ x.writes = mem[p].writes /\ x.failed = mem[p].failed
        /\ x.active = mem[p].active /\ x.stage = mem[p].stage /\ x.seen = mem[p].seen
        /\ x.pending = mem[p].pending
    BY <1>0 DEF Memory
  <2>4. ProcOK(p, "recover", x)
    BY <1>0, <2>1, <2>2, <2>3 DEF ProcOK
  <2> QED BY <1>2, <1>4, <2>2, <2>3, <2>4
<1> QED BY <1>3, <1>4 DEF Recover

LEMMA RewriteLocal ==
  ASSUME Local, NEW p \in Proc, Rewrite(p)
  PROVE  Local'
<1> PICK i : i = Oldest(mem[p].list)
  OBVIOUS
<1> PICK n : n = [rec |-> i, by |-> p, whole |-> FALSE]
  OBVIOUS
<1> PICK m : m = mem[p]
  OBVIOUS
<1>0. /\ m \in Memory /\ ProcOK(p, "record", m) /\ "rewrite" \in Step
      /\ Globals /\ TempsOK /\ pc[p] = "record" /\ Up(p)
      /\ UNCHANGED <<files, lease, cutoff, jobs, handled>> /\ Set(p, "rewrite", m)
      /\ temps' = temps \union {n} /\ jobs[i].by # p
  BY MineFacts DEF Local, Rewrite, Step, NeedsRewrite
<1>1. i \in DOMAIN jobs /\ files' \subseteq DOMAIN jobs /\ n \in Temp /\ n.rec = i /\ n.by = p
  <2>1. m.list \subseteq DOMAIN jobs /\ m.list # {}
    BY <1>0 DEF ProcOK, Window3
  <2>2. i \in m.list
    BY <2>1, RecordFacts, OldestFacts
  <2> QED BY <1>0, <2>1, <2>2, RecordFacts DEF Globals, Temp
<1>2. ProcOK(p, "rewrite", m)
  BY <1>0 DEF ProcOK, UnderLease, Window3, Reclaiming
<1>3. \A u \in temps' : u.by = p => u.rec \in DOMAIN jobs /\ TempFits(u, "rewrite", m)
  BY <1>0, <1>1 DEF TempsOK, TempFits
<1>4. /\ \A u, v \in temps' : u.by = p /\ v.by = p /\ u.rec = v.rec /\ jobs[u.rec].by = p => u = v
      /\ temps' \subseteq Temp
      /\ \A u \in temps' : u.by # p => u \in temps
  <2>1. ASSUME NEW u \in temps', NEW v \in temps', u.by = p, v.by = p, u.rec = v.rec,
               jobs[u.rec].by = p
        PROVE  u = v
    <3>1. u # n /\ v # n
      BY <1>0, <1>1, <2>1
    <3>2. u \in temps /\ v \in temps
      BY <1>0, <3>1
    <3> QED BY <1>0, <2>1, <3>2 DEF TempsOK
  <2>2. temps' \subseteq Temp /\ \A u \in temps' : u.by # p => u \in temps
    BY <1>0, <1>1 DEF TempsOK
  <2> QED BY <2>1, <2>2
<1> QED BY <1>0, <1>1, <1>2, <1>3, <1>4, SpoolLocal


-----------------------------------------------------------------------------
(* Delivery.                                                               *)

LEMMA DeliveringFacts ==
  ASSUME NEW m \in Memory, m.list # {}, NEW d, d = Delivering(m)
  PROVE  /\ d \in Memory /\ d.active = Oldest(m.list) /\ d.active \in m.list
         /\ \A j \in m.list : d.active <= j
         /\ d.stage = "running" /\ d.list = m.list /\ d.writes = m.writes /\ d.failed = m.failed
         /\ d.covers = m.covers /\ d.bad = m.bad /\ d.pending = m.pending /\ d.closed = m.closed
         /\ d.cleanup = m.cleanup /\ d.drained = m.drained /\ d.seen = m.seen
<1>1. m.list \in SUBSET Nat
  BY MemoryFacts
<1> PICK i : i = Oldest(m.list)
  OBVIOUS
<1>2. i \in m.list /\ (\A j \in m.list : i <= j) /\ i \in Nat
  BY <1>1, OldestFacts
<1>3. d = [m EXCEPT !.active = i, !.stage = "running"]
  BY DEF Delivering
<1>4. d \in Memory
  BY <1>2, <1>3 DEF Memory
<1> QED BY <1>2, <1>3, <1>4 DEF Memory

LEMMA StartLocal ==
  ASSUME Local, NEW p \in Proc, StartDelivery(p) \/ RewriteDone(p)
  PROVE  Local'
<1> PICK m : m = mem[p]
  OBVIOUS
<1>0. /\ m \in Memory /\ ProcOK(p, pc[p], m) /\ files \subseteq DOMAIN jobs
      /\ lease \in Proc \union {None} /\ Up(p) /\ UNCHANGED <<directory, cutoff, jobs, handled>>
      /\ pc[p] \in {"record", "rewrite"}
      /\ pc[p] = "record" \/ ~ \E t \in temps : t.rec = Oldest(mem[p].list) /\ t.by = p
      /\ Set(p, "release", m) \/ Set(p, "wait", Delivering(m))
  BY MineFacts DEF Local, Globals, StartDelivery, RewriteDone
<1>1. m.list # {} /\ m.active = None
  BY <1>0 DEF ProcOK, Window3
<1>2. CASE Set(p, "release", m)
  <2>1. "release" \in Step /\ "release" \in UnderLease
        /\ "release" \notin Window3 \union Reclaiming \union {"wait", "idle"}
    BY DEF Step, UnderLease, Window3, Reclaiming
  <2>2. ProcOK(p, "release", m)
    BY <1>0, <1>1, <2>1 DEF ProcOK
  <2> QED BY <1>0, <1>2, <2>1, <2>2, QuietLocal DEF directory
<1>3. CASE Set(p, "wait", Delivering(m))
  <2> PICK d : d = Delivering(m)
    OBVIOUS
  <2>1. /\ d \in Memory /\ d.active \in m.list /\ \A j \in m.list : d.active <= j
        /\ d.stage = "running" /\ d.list = m.list /\ d.writes = m.writes /\ d.failed = m.failed
        /\ d.covers = m.covers /\ d.bad = m.bad /\ d.pending = m.pending
    BY <1>0, <1>1, DeliveringFacts
  <2>2. "wait" \in Step /\ "wait" \in UnderLease \intersect Window3 /\ "wait" \notin Reclaiming
    BY DEF Step, UnderLease, Window3, Reclaiming
  <2>3. d.active # None /\ d.active \in DOMAIN jobs
    BY <1>0, <2>1, RecordFacts DEF ProcOK
  <2>4. Cardinality(m.list) <= m.pending
    BY <1>0 DEF ProcOK, Window3
  <2>5. ProcOK(p, "wait", d)
    BY <1>0, <1>1, <2>1, <2>2, <2>3, <2>4 DEF ProcOK
  <2>6. Set(p, "wait", d) /\ mem[p].writes \subseteq d.writes
    BY <1>3, <2>1
  <2>7. files' \subseteq DOMAIN jobs /\ lease' \in Proc \union {None} /\ UNCHANGED <<temps, cutoff, jobs, handled>>
    BY <1>0 DEF directory
  <2> QED BY <1>0, <2>1, <2>2, <2>5, <2>6, <2>7, QuietLocal
<1> QED BY <1>0, <1>2, <1>3

LEMMA SettleLocal ==
  ASSUME Local, NEW p \in Proc, Up(p), NEW ok \in BOOLEAN, NEW m0 \in Memory, Settle(p, ok, m0),
         UNCHANGED <<temps, lease, cutoff, jobs, handled>>, files' \subseteq files,
         mem[p].active # None,
         m0.active = mem[p].active, m0.list = mem[p].list, m0.bad = mem[p].bad,
         m0.covers = mem[p].covers, m0.writes = mem[p].writes, m0.failed = mem[p].failed,
         m0.seen = mem[p].seen,
         m0.pending = mem[p].pending \/ (ok /\ m0.pending >= mem[p].pending - 1)
  PROVE  Local'
<1> PICK m : m = [m0 EXCEPT !.active = None, !.stage = "none"]
  OBVIOUS
<1>0. /\ mem[p] \in Memory /\ ProcOK(p, pc[p], mem[p]) /\ pc[p] \in Step
      /\ files \subseteq DOMAIN jobs /\ lease \in Proc \union {None}
  BY MineFacts DEF Local, Globals
<1>1. m \in Memory
  BY DEF Memory
<1>2. /\ m.active = None /\ m.stage = "none" /\ m.list = mem[p].list /\ m.bad = mem[p].bad
      /\ m.covers = mem[p].covers /\ m.writes = mem[p].writes /\ m.failed = mem[p].failed
      /\ m.pending = m0.pending
  BY DEF Memory
<1>3. /\ pc[p] \in {"wait", "idle"} /\ IsFiniteSet(m.bad) /\ m.list \subseteq DOMAIN jobs
      /\ m.writes \union m.failed \union m.covers \subseteq Own(p)
      /\ m.covers \intersect (m.writes \union m.failed) = {}
  BY <1>0, <1>2 DEF ProcOK
<1>4. files' \subseteq DOMAIN jobs /\ lease' \in Proc \union {None} /\ UNCHANGED <<temps, cutoff, jobs, handled>>
  BY <1>0
<1>5. ASSUME NEW at \in {"list", "deliver", "release"}, NEW x \in Memory, Set(p, at, x), pc[p] = "wait",
             x.active = None, x.stage = "none", x.list \subseteq m.list, x.bad = m.bad,
             x.covers = m.covers, x.writes = m.writes, x.failed = m.failed,
             at = "deliver" => x.list # {} /\ Cardinality(x.list) <= x.pending
      PROVE  Local'
  <2>1. /\ at \in Step \intersect UnderLease /\ at \notin Reclaiming \union {"wait"}
        /\ (at \in Window3 => at = "deliver")
    BY <1>5 DEF Step, UnderLease, Window3, Reclaiming
  <2>2. ProcOK(p, at, x)
    BY <1>0, <1>3, <1>5, <2>1 DEF ProcOK
  <2> QED BY <1>0, <1>2, <1>4, <1>5, <2>1, <2>2, QuietLocal
<1>6. CASE pc[p] = "idle"
  <2>1. Set(p, "idle", m)
    BY <1>6 DEF Settle
  <2>2. "idle" \notin Window3 \union Reclaiming \union {"wait"} \union UnderLease
    BY DEF UnderLease, Window3, Reclaiming
  <2>3. ProcOK(p, "idle", m)
    BY <1>0, <1>1, <1>2, <1>3, <1>6, <2>2 DEF ProcOK
  <2> QED BY <1>0, <1>1, <1>2, <1>4, <1>6, <2>1, <2>3, QuietLocal
<1>7. CASE pc[p] = "wait" /\ ~ ok
  <2>1. Set(p, "release", m)
    BY <1>7 DEF Settle
  <2> QED BY <1>1, <1>2, <1>5, <1>7, <2>1
<1>8. CASE pc[p] = "wait" /\ ok
  <2> PICK a : a = m0.active
    OBVIOUS
  <2> PICK l : l = m.list \ {a}
    OBVIOUS
  <2> PICK x : x = Done(m, a)
    OBVIOUS
  <2>1. x = [m EXCEPT !.list = l]
    BY DEF Done
  <2>2. l \in SUBSET Nat
    BY <1>1, MemoryFacts
  <2>3. x \in Memory
    BY <1>1, <2>1, <2>2 DEF Memory
  <2>4. /\ x.active = None /\ x.stage = "none" /\ x.list = l /\ x.bad = m.bad /\ x.covers = m.covers
        /\ x.writes = m.writes /\ x.failed = m.failed /\ x.pending = m.pending
    BY <1>1, <1>2, <2>1 DEF Memory
  <2>5. Set(p, NextStep(x), x)
    BY <1>8 DEF Settle
  <2>6. Cardinality(l) <= m.pending
    <3>1. a \in m.list /\ Cardinality(m.list) <= mem[p].pending
      BY <1>0, <1>2, <1>8 DEF ProcOK, Window3
    <3>0. m.list \in SUBSET DOMAIN jobs /\ l \in SUBSET DOMAIN jobs
      BY <1>3
    <3>2. IsFiniteSet(m.list) /\ Cardinality(m.list) \in Nat /\ Cardinality(l) \in Nat
      <4>1. IsFiniteSet(m.list) /\ Cardinality(m.list) \in Nat
        BY <3>0, ListFacts
      <4>2. Cardinality(l) \in Nat
        BY <3>0, ListFacts
      <4> QED BY <4>1, <4>2
    <3>3. Cardinality(m.list \ {a}) = Cardinality(m.list) - 1
      BY ONLY <3>1, <3>2, FS_RemoveElement
    <3>4. mem[p].pending \in Nat /\ m0.pending \in Nat
      BY <1>0, MemoryFacts
    <3> QED BY <1>2, <3>1, <3>2, <3>3, <3>4
  <2>7. CASE l = {}
    <3>1. NextStep(x) = "list"
      BY <2>4, <2>7 DEF NextStep
    <3> QED BY <1>5, <1>8, <2>3, <2>4, <2>5, <3>1
  <2>8. CASE l # {}
    <3>1. NextStep(x) = "deliver"
      BY <2>4, <2>8 DEF NextStep
    <3>2. x.list # {} /\ Cardinality(x.list) <= x.pending /\ x.list \subseteq m.list
      BY <2>4, <2>6, <2>8
    <3>3. Set(p, "deliver", x)
      BY <2>5, <3>1
    <3> QED BY <1>5, <1>8, <2>3, <2>4, <3>2, <3>3
  <2> QED BY <2>7, <2>8
<1> QED BY <1>3, <1>6, <1>7, <1>8

LEMMA HandlerLocal ==
  ASSUME Local, NEW p \in Proc,
         \/ HandlerTakesEffect(p) \/ HandlerSucceeds(p) \/ HandlerFails(p)
         \/ RemoveDelivered(p) \/ RemoveFails(p)
  PROVE  Local'
<1> PICK m : m = mem[p]
  OBVIOUS
<1> PICK here : here = pc[p]
  OBVIOUS
<1>0. /\ m \in Memory /\ ProcOK(p, here, m) /\ here \in Step /\ Up(p)
      /\ files \subseteq DOMAIN jobs /\ lease \in Proc \union {None}
      /\ Globals /\ TempsOK
  BY MineFacts DEF Local, Globals, HandlerTakesEffect, HandlerSucceeds, HandlerFails,
     RemoveDelivered, RemoveFails
<1>1. /\ m.stage \in {"running", "effective", "removing"} /\ m.active # None
      /\ m.active \in DOMAIN jobs
  <2>1. m.stage \in {"running", "effective", "removing"}
    BY DEF HandlerTakesEffect, HandlerSucceeds, HandlerFails, RemoveDelivered, RemoveFails
  <2> QED BY <1>0, <2>1 DEF ProcOK
<1>2. CASE HandlerTakesEffect(p)
  <2> PICK x : x = [m EXCEPT !.stage = "effective"]
    OBVIOUS
  <2>1. /\ Set(p, here, x) /\ UNCHANGED <<files, temps, lease, cutoff, jobs>>
        /\ handled' = handled \union {m.active}
    BY <1>2 DEF HandlerTakesEffect, directory
  <2>2. x \in Memory
    BY <1>0 DEF Memory
  <2>3. /\ x.active = m.active /\ x.stage = "effective" /\ x.list = m.list /\ x.bad = m.bad
        /\ x.covers = m.covers /\ x.writes = m.writes /\ x.failed = m.failed
        /\ x.pending = m.pending /\ x.seen = m.seen
    BY <1>0 DEF Memory
  <2>4. life' = life /\ policy' = policy /\ pc' = [pc EXCEPT ![p] = here] /\ mem' = [mem EXCEPT ![p] = x]
    BY <2>1 DEF Set
  <2>5. ProcOK(p, here, x)'
    BY <1>0, <1>1, <2>1, <2>2, <2>3, <2>4 DEF ProcOK, Up, Own
  <2>6. Globals'
    BY <1>0, <1>1, <2>1, <2>4, RecordFacts DEF Globals
  <2>7. TempsOK'
    <3>1. pc' = pc
      BY <2>4 DEF Local
    <3>2. ASSUME NEW t \in temps, Up(t.by) PROVE TempFits(t, pc[t.by], mem[t.by])'
      <4>1. t.by \in Proc /\ TempFits(t, pc[t.by], mem[t.by])
        BY <1>0, <3>2 DEF TempsOK, Temp
      <4>2. mem'[t.by].list = mem[t.by].list /\ mem'[t.by].writes = mem[t.by].writes
        BY <2>3, <2>4, <4>1 DEF Local
      <4> QED BY <2>1, <3>1, <4>1, <4>2 DEF TempFits
    <3> QED BY <1>0, <2>1, <2>4, <3>2 DEF TempsOK, Up
  <2> QED BY <1>0, <2>1, <2>2, <2>5, <2>6, <2>7, SetLocal
<1>3. ASSUME NEW ok \in BOOLEAN, Settle(p, ok, m), UNCHANGED <<directory, cutoff, jobs, handled>>
      PROVE  Local'
  <2>1. UNCHANGED <<temps, lease, cutoff, jobs, handled>> /\ files' \subseteq files
    BY <1>3 DEF directory
  <2> QED BY <1>0, <1>1, <1>3, <2>1, SettleLocal
<1>4. CASE HandlerSucceeds(p)
  <2>1. CASE MayAcknowledge(m)
    <3> PICK x : x = [m EXCEPT !.stage = "removing"]
      OBVIOUS
    <3>1. /\ Set(p, here, x) /\ UNCHANGED <<files, temps, lease, cutoff, jobs, handled>>
          /\ m.stage = "effective"
      BY <1>4, <2>1 DEF HandlerSucceeds, directory
    <3>2. x \in Memory
      BY <1>0 DEF Memory
    <3>3. /\ x.active = m.active /\ x.stage = "removing" /\ x.list = m.list /\ x.bad = m.bad
          /\ x.covers = m.covers /\ x.writes = m.writes /\ x.failed = m.failed
          /\ x.pending = m.pending /\ x.seen = m.seen
      BY <1>0 DEF Memory
    <3>4. ProcOK(p, here, x)
      BY <1>0, <1>1, <3>1, <3>2, <3>3 DEF ProcOK
    <3> QED BY <1>0, <3>1, <3>2, <3>3, <3>4, QuietLocal
  <2>2. CASE ~ MayAcknowledge(m)
    BY <1>3, <1>4, <2>2 DEF HandlerSucceeds
  <2> QED BY <2>1, <2>2
<1>5. CASE HandlerFails(p) \/ RemoveFails(p)
  BY <1>3, <1>5 DEF HandlerFails, RemoveFails
<1>6. CASE RemoveDelivered(p)
  <2> PICK n : n = IF m.pending = 0 THEN 0 ELSE m.pending - 1
    OBVIOUS
  <2> PICK x : x = [m EXCEPT !.pending = n]
    OBVIOUS
  <2>1. /\ Settle(p, TRUE, x) /\ UNCHANGED <<temps, lease, cutoff, jobs, handled>>
        /\ files' \subseteq files
    BY <1>6 DEF RemoveDelivered
  <2>2. n \in Nat /\ n >= m.pending - 1
    BY <1>0, MemoryFacts
  <2>3. x \in Memory
    BY <1>0, <2>2 DEF Memory
  <2>4. /\ x.active = m.active /\ x.list = m.list /\ x.bad = m.bad
        /\ x.covers = m.covers /\ x.writes = m.writes /\ x.failed = m.failed
        /\ x.pending = n /\ x.seen = m.seen
    BY <1>0 DEF Memory
  <2> QED BY <1>0, <1>1, <2>1, <2>2, <2>3, <2>4, SettleLocal
<1> QED BY <1>2, <1>4, <1>5, <1>6


-----------------------------------------------------------------------------
(* The end of a flush, of a queue and of a process.                        *)

LEMMA LeaveLocal ==
  ASSUME Local, NEW p \in Proc, Up(p), pc[p] = "wait", NEW m \in Memory, Leave(p, m),
         UNCHANGED <<directory, cutoff, jobs, handled>>,
         m.writes = mem[p].writes, m.failed = mem[p].failed,
         m.active = mem[p].active, m.stage = mem[p].stage
  PROVE  Local'
<1> PICK x : x = [m EXCEPT !.cleanup = TRUE]
  OBVIOUS
<1>0. ProcOK(p, pc[p], mem[p]) /\ lease \in Proc \union {None}
  BY MineFacts DEF Local, Globals
<1>1. m.active # None
  BY <1>0, RecordFacts DEF ProcOK
<1>2. x \in Memory
  BY DEF Memory
<1>3. x.writes = m.writes /\ x.failed = m.failed /\ x.active = m.active /\ x.stage = m.stage
  BY DEF Memory
<1>4. Set(p, "idle", Ended(x))
  BY <1>1 DEF Leave, LeaveLease
<1> QED BY <1>0, <1>2, <1>3, <1>4, EndLocal DEF directory

LEMMA StopLocal ==
  ASSUME Local, NEW p \in Proc, Abort(p) \/ Dispose(p)
  PROVE  Local'
<1> PICK here : here = pc[p]
  OBVIOUS
<1>0. /\ mem[p] \in Memory /\ ProcOK(p, here, mem[p]) /\ here \in Step
      /\ files \subseteq DOMAIN jobs /\ lease \in Proc \union {None} /\ Up(p)
      /\ UNCHANGED <<directory, cutoff, jobs, handled>>
  BY MineFacts DEF Local, Globals, Abort, Dispose
<1>1. CASE Abort(p)
  BY <1>0, <1>1, LeaveLocal DEF Abort
<1>2. CASE Dispose(p)
  <2> PICK m : m = [mem[p] EXCEPT !.closed = TRUE, !.timer = FALSE]
    OBVIOUS
  <2>1. m \in Memory
    BY <1>0 DEF Memory
  <2>2. /\ m.list = mem[p].list /\ m.bad = mem[p].bad /\ m.covers = mem[p].covers
        /\ m.writes = mem[p].writes /\ m.failed = mem[p].failed
        /\ m.active = mem[p].active /\ m.stage = mem[p].stage /\ m.seen = mem[p].seen
        /\ m.pending = mem[p].pending
    BY <1>0 DEF Memory
  <2>3. CASE pc[p] = "wait"
    <3>1. Leave(p, m)
      BY <1>2, <2>3 DEF Dispose
    <3> QED BY <1>0, <2>1, <2>2, <2>3, <3>1, LeaveLocal
  <2>4. CASE pc[p] # "wait"
    <3>1. Set(p, here, m)
      BY <1>2, <2>4 DEF Dispose
    <3>2. ProcOK(p, here, m)
      BY <1>0, <2>1, <2>2 DEF ProcOK
    <3> QED BY <1>0, <2>1, <2>2, <3>1, <3>2, QuietLocal DEF directory
  <2> QED BY <2>3, <2>4
<1> QED BY <1>1, <1>2

LEMMA ReleaseLocal ==
  ASSUME Local, NEW p \in Proc, Release(p) \/ ReleaseLate(p)
  PROVE  Local'
<1> PICK here : here = pc[p]
  OBVIOUS
<1>0. /\ mem[p] \in Memory /\ ProcOK(p, here, mem[p]) /\ here \in Step
      /\ files \subseteq DOMAIN jobs /\ lease' \in Proc \union {None} /\ Up(p)
      /\ UNCHANGED <<files, temps, cutoff, jobs, handled>>
  BY MineFacts DEF Local, Globals, Release, ReleaseLate
<1>1. CASE Release(p)
  BY <1>0, <1>1, EndLocal DEF Release
<1>2. CASE ReleaseLate(p)
  <2> PICK m : m = [mem[p] EXCEPT !.cleanup = FALSE]
    OBVIOUS
  <2>1. m \in Memory
    BY <1>0 DEF Memory
  <2>2. /\ m.list = mem[p].list /\ m.bad = mem[p].bad /\ m.covers = mem[p].covers
        /\ m.writes = mem[p].writes /\ m.failed = mem[p].failed
        /\ m.active = mem[p].active /\ m.stage = mem[p].stage /\ m.seen = mem[p].seen
        /\ m.pending = mem[p].pending
    BY <1>0 DEF Memory
  <2>3. Set(p, here, m)
    BY <1>2 DEF ReleaseLate
  <2>4. ProcOK(p, here, m)
    BY <1>0, <2>1, <2>2 DEF ProcOK
  <2> QED BY <1>0, <2>1, <2>2, <2>3, <2>4, QuietLocal
<1> QED BY <1>1, <1>2

LEMMA FlushFailsLocal ==
  ASSUME Local, NEW p \in Proc, FlushFails(p)
  PROVE  Local'
<1> PICK m : m = mem[p]
  OBVIOUS
<1> PICK here : here = pc[p]
  OBVIOUS
<1>0. /\ m \in Memory /\ ProcOK(p, here, m) /\ here \in Step
      /\ files \subseteq DOMAIN jobs /\ lease \in Proc \union {None} /\ Up(p)
      /\ UNCHANGED <<files, lease, cutoff, jobs, handled>> /\ TempsOK
  BY MineFacts DEF Local, Globals, FlushFails
<1>1. CASE Set(p, "idle", Ended(m)) /\ temps' = temps /\ here \in {"link", "probe", "reread", "unlink"}
  <2>1. UNCHANGED <<temps, cutoff, jobs, handled, files>> /\ lease' \in Proc \union {None} /\ pc[p] # "rewrite"
    BY <1>0, <1>1
  <2> QED BY <1>0, <1>1, <2>1, EndLocal
<1>2. CASE /\ here \in {"recover", "read", "compact", "deliver", "record", "rewrite"}
           /\ Set(p, "release", m)
           /\ temps' = IF here # "rewrite" THEN temps
                       ELSE temps \ {t \in temps : t.rec = Oldest(m.list) /\ t.by = p}
  <2>1. "release" \in Step /\ "release" \in UnderLease
        /\ "release" \notin Window3 \union Reclaiming \union {"wait", "idle"}
    BY DEF Step, UnderLease, Window3, Reclaiming
  <2>2. ProcOK(p, "release", m)
    BY <1>0, <1>2, <2>1 DEF ProcOK
  <2>3. ASSUME NEW u \in temps', u.by = p PROVE u.rec \in DOMAIN jobs /\ TempFits(u, "release", m)
    <3>1. u \in temps /\ u.rec \in DOMAIN jobs /\ TempFits(u, here, m)
      BY <1>0, <1>2, <2>3 DEF TempsOK
    <3>2. here = "rewrite" => u.rec # Oldest(m.list)
      BY <1>2, <2>3
    <3> QED BY <3>1, <3>2 DEF TempFits
  <2>4. /\ temps' \subseteq temps /\ temps' \subseteq Temp
        /\ \A u, v \in temps' : u.by = p /\ v.by = p /\ u.rec = v.rec /\ jobs[u.rec].by = p => u = v
    BY <1>0, <1>2 DEF TempsOK
  <2>5. /\ jobs' = jobs /\ handled' = handled /\ cutoff' = cutoff /\ lease' = lease
        /\ files' \subseteq DOMAIN jobs /\ \A u \in temps' : u.by # p => u \in temps
    BY <1>0, <2>4
  <2> QED BY <1>0, <1>2, <2>1, <2>2, <2>3, <2>4, <2>5, SpoolLocal
<1> QED BY <1>1, <1>2 DEF FlushFails

LEMMA LifeLocal ==
  ASSUME Local, NEW p \in Proc, Start(p) \/ Die(p)
  PROVE  Local'
<1>1. /\ pc \in [Proc -> Step] /\ mem \in [Proc -> Memory] /\ DOMAIN pc = Proc /\ Globals /\ TempsOK
      /\ DOMAIN mem = Proc /\ DOMAIN life = Proc /\ DOMAIN policy = Proc
  BY DEF Local, Globals
<1>2. CASE Start(p)
  <2>1. PICK excluded \in Policies : policy' = [policy EXCEPT ![p] = excluded]
    BY <1>2 DEF Start
  <2>2. /\ life[p] = "off" /\ life' = [life EXCEPT ![p] = "up"]
        /\ UNCHANGED <<files, temps, lease, pc, mem, cutoff, jobs, handled>>
    BY <1>2 DEF Start, directory
  <2>3. excluded \in SUBSET Key
    BY QueueAssumption
  <2>4. Globals'
    BY <1>1, <2>1, <2>2, <2>3 DEF Globals
  <2>5. TempsOK'
    <3>1. ASSUME NEW t \in temps PROVE t.by # p /\ t.by \in Proc
      BY <1>1, <2>2 DEF TempsOK, Temp
    <3>2. ASSUME NEW t \in temps PROVE life'[t.by] = life[t.by]
      BY <1>1, <2>2, <3>1
    <3>3. ASSUME NEW t \in temps, Up(t.by)' PROVE TempFits(t, pc[t.by], mem[t.by])'
      BY <1>1, <2>2, <3>2, <3>3 DEF TempsOK, Up, TempFits
    <3>4. \A t \in temps' : t.rec \in DOMAIN jobs' /\ life'[t.by] # "off"
      BY <1>1, <2>2, <3>2 DEF TempsOK
    <3>5. \A t, u \in temps' : t.by = u.by /\ t.rec = u.rec /\ Up(t.by)' /\ jobs'[t.rec].by = t.by => t = u
      BY <1>1, <2>2, <3>2 DEF TempsOK, Up
    <3>6. temps' \subseteq Temp
      BY <1>1, <2>2 DEF TempsOK
    <3> QED BY <2>2, <3>3, <3>4, <3>5, <3>6 DEF TempsOK
  <2>6. ASSUME NEW q \in Proc PROVE ProcOK(q, pc[q], mem[q])'
    <3>1. ProcOK(q, pc[q], mem[q])
      BY MineFacts
    <3>2. life'[q] = (IF q = p THEN "up" ELSE life[q]) /\ policy'[q] = (IF q = p THEN excluded ELSE policy[q])
      BY <1>1, <2>1, <2>2
    <3>3. \A s \in Proc : life[s] = "dead" => life'[s] = "dead"
      BY <1>1, <2>2
    <3>4. Own(q)' = Own(q)
      BY <2>2 DEF Own
    <3>5. CASE q = p
      <4>1. pc[q] = "idle" /\ mem[q] = Fresh
        BY <2>2, <3>1, <3>5 DEF ProcOK, Up
      <4>2. "idle" \notin Window3 \union Reclaiming \union {"wait"} \union UnderLease /\ "idle" \in Step
        BY DEF UnderLease, Window3, Reclaiming, Step
      <4>3. pc'[q] = "idle" /\ mem'[q] = Fresh /\ life'[q] = "up" /\ policy'[q] \in Policies
        BY <2>2, <3>2, <3>5, <4>1
      <4> QED BY <4>2, <4>3, FreshFacts, FS_EmptySet DEF ProcOK, Up
    <3>6. CASE q # p
      BY <2>2, <3>1, <3>2, <3>3, <3>4, <3>6 DEF ProcOK, Up
    <3> QED BY <3>5, <3>6
  <2> QED BY <1>1, <2>2, <2>4, <2>5, <2>6 DEF Local
<1>3. CASE Die(p)
  <2>1. /\ life[p] = "up" /\ life' = [life EXCEPT ![p] = "dead"]
        /\ pc' = [pc EXCEPT ![p] = "idle"] /\ mem' = [mem EXCEPT ![p] = Fresh]
        /\ UNCHANGED <<files, temps, lease, policy, cutoff, jobs, handled>>
    BY <1>3 DEF Die, directory, Up
  <2>2. "idle" \notin Window3 \union Reclaiming \union {"wait"} \union UnderLease /\ "idle" \in Step
    BY DEF UnderLease, Window3, Reclaiming, Step
  <2>3. pc' \in [Proc -> Step] /\ mem' \in [Proc -> Memory] /\ DOMAIN pc' = Proc
    BY <1>1, <2>1, <2>2, FreshFacts
  <2>4. Globals'
    BY <1>1, <2>1 DEF Globals
  <2>5. TempsOK'
    <3>1. ASSUME NEW t \in temps PROVE t.by \in Proc
      BY <1>1 DEF TempsOK, Temp
    <3>2. ASSUME NEW t \in temps, Up(t.by)' PROVE t.by # p /\ Up(t.by)
      BY <1>1, <2>1, <3>1, <3>2 DEF Up
    <3>3. ASSUME NEW t \in temps, Up(t.by)' PROVE TempFits(t, pc[t.by], mem[t.by])'
      <4>1. TempFits(t, pc[t.by], mem[t.by])
        BY <1>1, <3>2, <3>3 DEF TempsOK
      <4>2. pc'[t.by] = pc[t.by] /\ mem'[t.by] = mem[t.by]
        BY <1>1, <2>1, <3>1, <3>2, <3>3
      <4> QED BY <2>1, <4>1, <4>2 DEF TempFits
    <3>4. \A t \in temps' : t.rec \in DOMAIN jobs' /\ life'[t.by] # "off"
      BY <1>1, <2>1, <3>1 DEF TempsOK
    <3>5. \A t, u \in temps' : t.by = u.by /\ t.rec = u.rec /\ Up(t.by)' /\ jobs'[t.rec].by = t.by => t = u
      BY <1>1, <2>1, <3>2 DEF TempsOK
    <3>6. temps' \subseteq Temp
      BY <1>1, <2>1 DEF TempsOK
    <3> QED BY <2>1, <3>3, <3>4, <3>5, <3>6 DEF TempsOK
  <2>6. ASSUME NEW q \in Proc PROVE ProcOK(q, pc[q], mem[q])'
    <3>1. ProcOK(q, pc[q], mem[q])
      BY MineFacts
    <3>3. \A s \in Proc : life[s] = "dead" => life'[s] = "dead"
      BY <1>1, <2>1
    <3>4. Own(q)' = Own(q)
      BY <2>1 DEF Own
    <3>5. CASE q = p
      <4>1. pc'[q] = "idle" /\ mem'[q] = Fresh /\ life'[q] = "dead"
        BY <1>1, <2>1, <3>5
      <4> QED BY <2>2, <4>1, FreshFacts, FS_EmptySet DEF ProcOK, Up
    <3>6. CASE q # p
      <4>1. pc'[q] = pc[q] /\ mem'[q] = mem[q] /\ life'[q] = life[q]
        BY <1>1, <2>1, <3>6
      <4> QED BY <2>1, <3>1, <3>3, <3>4, <4>1 DEF ProcOK, Up
    <3> QED BY <3>5, <3>6
  <2> QED BY <2>3, <2>4, <2>5, <2>6 DEF Local
<1> QED BY <1>2, <1>3


-----------------------------------------------------------------------------
(* The unconditional part is invariant.                                    *)

\* The steps of process p.
Starts(p) == Start(p) \/ Die(p)
Accepts(p) == \E k \in Key, now \in BOOLEAN : Enqueue(p, k, now)
WritesTemp(p) ==
  \/ \E i \in DOMAIN jobs : CreateTemp(p, i)
  \/ \E t \in temps : SyncTemp(p, t)
Publishes(p) ==
  \/ \E t \in temps : PublishSpool(p, t)
  \/ \E i \in DOMAIN jobs : SpoolFails(p, i)
Enters(p) == CallFlush(p) \/ TimerFires(p) \/ AwaitWrites(p) \/ AcquireLease(p)
Recovers(p) == \E t \in temps : Recover(p, t)
Lists(p) ==
  \/ RecoverDone(p) \/ BeginListing(p) \/ SpoolFailed(p) \/ ReadDirectory(p)
  \/ Compact(p) \/ CompactDone(p) \/ ReadRecord(p) \/ StopClosed(p) \/ Refuse(p)
Delivers(p) == Rewrite(p) \/ StartDelivery(p) \/ RewriteDone(p)
Handles(p) ==
  \/ HandlerTakesEffect(p) \/ HandlerSucceeds(p) \/ HandlerFails(p)
  \/ RemoveDelivered(p) \/ RemoveFails(p)
Stops(p) == Abort(p) \/ Dispose(p) \/ Release(p) \/ ReleaseLate(p) \/ FlushFails(p)

Moves(p) ==
  \/ Starts(p) \/ Accepts(p) \/ WritesTemp(p) \/ Publishes(p) \/ Enters(p)
  \/ Recovers(p) \/ Lists(p) \/ Delivers(p) \/ Handles(p) \/ Stops(p)

LEMMA NextMoves == ASSUME Next PROVE Age \/ \E p \in Proc : Moves(p)
<1> USE DEF Moves, Starts, Accepts, WritesTemp, Publishes, Enters, Recovers, Lists, Delivers,
            Handles, Stops
<1>1. CASE Work
  <2>1. ASSUME NEW p \in Proc, Spool(p) PROVE Moves(p)
    BY <2>1 DEF Spool
  <2>2. ASSUME NEW p \in Proc, FlushStep(p) PROVE Moves(p)
    BY <2>2 DEF FlushStep
  <2>3. ASSUME NEW p \in Proc, Handler(p) PROVE Moves(p)
    BY <2>3 DEF Handler
  <2> QED BY <1>1, <2>1, <2>2, <2>3 DEF Work
<1>2. CASE Fault
  BY <1>2 DEF Fault
<1> QED BY <1>1, <1>2 DEF Next

LEMMA LocalInit == Init => Local
<1> SUFFICES ASSUME Init PROVE Local
  OBVIOUS
<1>1. /\ files = {} /\ temps = {} /\ lease = None /\ cutoff = 0 /\ jobs = <<>> /\ handled = {}
      /\ life = [p \in Proc |-> "off"] /\ policy = [p \in Proc |-> {}]
      /\ pc = [p \in Proc |-> "idle"] /\ mem = [p \in Proc |-> Fresh]
  BY DEF Init
<1>2. "idle" \notin Window3 \union Reclaiming \union {"wait"} \union UnderLease /\ "idle" \in Step
  BY DEF UnderLease, Window3, Reclaiming, Step
<1>3. Globals
  BY <1>1 DEF Globals
<1>4. TempsOK
  BY <1>1 DEF TempsOK
<1>5. DOMAIN pc = Proc /\ pc \in [Proc -> Step] /\ mem \in [Proc -> Memory]
  BY <1>1, <1>2, FreshFacts
<1>6. ASSUME NEW p \in Proc PROVE ProcOK(p, pc[p], mem[p])
  <2>1. pc[p] = "idle" /\ mem[p] = Fresh /\ ~ Up(p)
    BY <1>1 DEF Up
  <2> QED BY <1>2, <2>1, FreshFacts, FS_EmptySet DEF ProcOK
<1> QED BY <1>3, <1>4, <1>5, <1>6 DEF Local

LEMMA LocalNext == Local /\ [Next]_vars => Local'
<1> SUFFICES ASSUME Local, [Next]_vars PROVE Local'
  OBVIOUS
<1>1. ASSUME UNCHANGED <<directory, processes, jobs, handled>>, cutoff' \in Nat
      PROVE  Local'
  <2>1. Globals' /\ TempsOK'
    BY <1>1 DEF Local, Globals, TempsOK, TempFits, Up, directory, processes
  <2>2. \A p \in Proc : ProcOK(p, pc[p], mem[p])'
    BY <1>1 DEF Local, ProcOK, Up, Own, directory, processes
  <2> QED BY <1>1, <2>1, <2>2 DEF Local, processes
<1>2. CASE UNCHANGED vars
  BY <1>1, <1>2 DEF vars, Local, Globals
<1>3. CASE Age
  BY <1>1, <1>3 DEF Age, Local, Globals
<1>4. ASSUME NEW p \in Proc, Moves(p) PROVE Local'
  <2>1. CASE Starts(p)
    BY <2>1, LifeLocal DEF Starts
  <2>2. CASE Accepts(p)
    BY <2>2, EnqueueLocal DEF Accepts
  <2>3. CASE WritesTemp(p)
    BY <2>3, WriteTempLocal DEF WritesTemp
  <2>4. CASE Publishes(p)
    BY <2>4, PublishLocal, SpoolFailsLocal DEF Publishes
  <2>5. CASE Enters(p)
    BY <2>5, CallFlushLocal, EnterLeaseLocal DEF Enters
  <2>6. CASE Recovers(p)
    BY <2>6, RecoverLocal DEF Recovers
  <2>7. CASE Lists(p)
    BY <2>7, ListingLocal DEF Lists
  <2>8. CASE Delivers(p)
    BY <2>8, RewriteLocal, StartLocal DEF Delivers
  <2>9. CASE Handles(p)
    BY <2>9, HandlerLocal DEF Handles
  <2>10. CASE Stops(p)
    BY <2>10, StopLocal, ReleaseLocal, FlushFailsLocal DEF Stops
  <2> QED BY <1>4, <2>1, <2>2, <2>3, <2>4, <2>5, <2>6, <2>7, <2>8, <2>9, <2>10 DEF Moves
<1> QED BY <1>2, <1>3, <1>4, NextMoves

\* What each process knows of its flush, its delivery and its temporaries holds
\* whatever the others do, any number of reclaimers included: a flush is only of a
\* queue that is up, and its listing, its window and its delivery are of accepted
\* records (flushNow and deliver, src/src/hook-queue.ts).
THEOREM LocalInvariance == Spec => []Local
BY LocalInit, LocalNext, PTL DEF Spec

LEMMA LocalTypes == Local => TypeOK
<1> SUFFICES ASSUME Local PROVE TypeOK
  OBVIOUS
<1>1. DOMAIN jobs \subseteq Nat
  BY RecordFacts
<1> QED BY <1>1 DEF Local, Globals, TempsOK, TypeOK

\* Every variable holds a value of its kind, for any processes, policies and
\* bounds; the pending counter of src/src/hook-queue.ts never becomes negative,
\* though a refused record decrements it unclamped (line 299).
THEOREM TypeCorrect == Spec => []TypeOK
BY LocalInvariance, LocalTypes, PTL


-----------------------------------------------------------------------------
(* What a step of one process leaves alone.                                *)

LEMMA SetEffect ==
  ASSUME Local, NEW q \in Proc, NEW at, NEW m, Set(q, at, m)
  PROVE  /\ pc'[q] = at /\ mem'[q] = m /\ life' = life /\ policy' = policy
         /\ \A p \in Proc \ {q} : pc'[p] = pc[p] /\ mem'[p] = mem[p]
BY DEF Set, Local

LEMMA FlushEffect ==
  ASSUME Local, NEW q \in Proc, NEW m, Flush(q, m)
  PROVE  /\ life' = life /\ policy' = policy
         /\ \A p \in Proc \ {q} : pc'[p] = pc[p] /\ mem'[p] = mem[p]
         /\ \/ MayFlush(q, m) /\ pc'[q] = "writes" /\ mem'[q] = Flushing(m)
            \/ pc'[q] = pc[q] /\ mem'[q] = m
<1>1. CASE MayFlush(q, m)
  <2>1. Set(q, "writes", Flushing(m))
    BY <1>1 DEF Flush
  <2> QED BY <1>1, <2>1, SetEffect
<1>2. CASE ~ MayFlush(q, m)
  <2>1. Set(q, pc[q], m)
    BY <1>2 DEF Flush
  <2> QED BY <2>1, SetEffect
<1> QED BY <1>1, <1>2

LEMMA LeaveEffect ==
  ASSUME Local, NEW q \in Proc, NEW m \in Memory, Leave(q, m), m.active # None
  PROVE  /\ life' = life /\ policy' = policy
         /\ \A p \in Proc \ {q} : pc'[p] = pc[p] /\ mem'[p] = mem[p]
         /\ pc'[q] = "idle" /\ mem'[q] = Ended([m EXCEPT !.cleanup = TRUE])
<1>1. Set(q, "idle", Ended([m EXCEPT !.cleanup = TRUE]))
  BY DEF Leave, LeaveLease
<1> QED BY <1>1, SetEffect

LEMMA SettleEffect ==
  ASSUME Local, NEW q \in Proc, NEW ok \in BOOLEAN, NEW m0 \in Memory, Settle(q, ok, m0)
  PROVE  /\ life' = life /\ policy' = policy
         /\ \A p \in Proc \ {q} : pc'[p] = pc[p] /\ mem'[p] = mem[p]
         /\ mem'[q].active = None /\ mem'[q].stage = "none" /\ mem'[q].covers = m0.covers
         /\ mem'[q].cleanup = m0.cleanup /\ mem'[q].closed = m0.closed
         /\ mem'[q].drained = m0.drained /\ mem'[q].seen = m0.seen
         /\ \/ pc[q] # "wait" /\ pc'[q] = pc[q] /\ mem'[q].list = m0.list
            \/ pc[q] = "wait" /\ ok /\ mem'[q].list = m0.list \ {m0.active}
               /\ pc'[q] = IF mem'[q].list = {} THEN "list" ELSE "deliver"
            \/ pc[q] = "wait" /\ ~ ok /\ mem'[q].list = m0.list /\ pc'[q] = "release"
<1> PICK m : m = [m0 EXCEPT !.active = None, !.stage = "none"]
  OBVIOUS
<1>1. /\ m \in Memory /\ m.active = None /\ m.stage = "none" /\ m.covers = m0.covers
      /\ m.cleanup = m0.cleanup /\ m.closed = m0.closed /\ m.list = m0.list
      /\ m.drained = m0.drained /\ m.seen = m0.seen
  BY DEF Memory
<1>2. CASE pc[q] # "wait"
  <2>1. Set(q, pc[q], m)
    BY <1>2 DEF Settle
  <2>2. pc'[q] = pc[q] /\ mem'[q] = m /\ life' = life /\ policy' = policy
        /\ \A p \in Proc \ {q} : pc'[p] = pc[p] /\ mem'[p] = mem[p]
    BY <2>1, SetEffect
  <2> QED BY <1>1, <1>2, <2>2
<1>3. CASE pc[q] = "wait" /\ ok
  <2> PICK x : x = Done(m, m0.active)
    OBVIOUS
  <2>1. Set(q, NextStep(x), x)
    BY <1>3 DEF Settle
  <2>2. /\ x.active = None /\ x.stage = "none" /\ x.covers = m0.covers
        /\ x.cleanup = m0.cleanup /\ x.closed = m0.closed /\ x.list = m0.list \ {m0.active}
        /\ x.drained = m0.drained /\ x.seen = m0.seen
    BY <1>1 DEF Done, Memory
  <2>3. pc'[q] = NextStep(x) /\ mem'[q] = x /\ life' = life /\ policy' = policy
        /\ \A p \in Proc \ {q} : pc'[p] = pc[p] /\ mem'[p] = mem[p]
    BY <2>1, SetEffect
  <2> QED BY <1>3, <2>2, <2>3 DEF NextStep
<1>4. CASE pc[q] = "wait" /\ ~ ok
  <2>1. Set(q, "release", m)
    BY <1>4 DEF Settle
  <2>2. pc'[q] = "release" /\ mem'[q] = m /\ life' = life /\ policy' = policy
        /\ \A p \in Proc \ {q} : pc'[p] = pc[p] /\ mem'[p] = mem[p]
    BY <2>1, SetEffect
  <2> QED BY <1>1, <1>4, <2>2
<1> QED BY <1>2, <1>3, <1>4

\* The others keep their memory and their place.
LEMMA Alone ==
  ASSUME Local, NEW q \in Proc, Moves(q), NEW p \in Proc, p # q
  PROVE  /\ pc'[p] = pc[p] /\ mem'[p] = mem[p] /\ life'[p] = life[p] /\ policy'[p] = policy[p]
         /\ Starts(q) \/ (life' = life /\ policy' = policy)
<1>1. ASSUME NEW at, NEW m, Set(q, at, m)
      PROVE  pc'[p] = pc[p] /\ mem'[p] = mem[p] /\ life' = life /\ policy' = policy
  BY <1>1, SetEffect
<1>2. ASSUME NEW m, Flush(q, m)
      PROVE  pc'[p] = pc[p] /\ mem'[p] = mem[p] /\ life' = life /\ policy' = policy
  BY <1>2, FlushEffect
<1>3. ASSUME NEW m, Leave(q, m)
      PROVE  pc'[p] = pc[p] /\ mem'[p] = mem[p] /\ life' = life /\ policy' = policy
  BY <1>1, <1>3 DEF Leave
<1>4. ASSUME NEW ok, NEW m, Settle(q, ok, m)
      PROVE  pc'[p] = pc[p] /\ mem'[p] = mem[p] /\ life' = life /\ policy' = policy
  BY <1>1, <1>4 DEF Settle
<1>5. CASE Starts(q)
  BY <1>5 DEF Starts, Start, Die, Local, Globals
<1>6. CASE Accepts(q)
  BY <1>1, <1>2, <1>6 DEF Accepts, Enqueue
<1>7. CASE WritesTemp(q) \/ Publishes(q)
  BY <1>1, <1>7 DEF WritesTemp, CreateTemp, SyncTemp, Publishes, PublishSpool, SpoolFails, processes
<1>8. CASE Enters(q)
  BY <1>1, <1>2, <1>8 DEF Enters, CallFlush, TimerFires, AwaitWrites, AcquireLease, LinkLease, ProbeLease,
     RereadLease, UnlinkLease, LeaseGone
<1>9. CASE Recovers(q) \/ Lists(q)
  BY <1>1, <1>9 DEF Recovers, Recover, Lists, RecoverDone, BeginListing, SpoolFailed, ReadDirectory,
     Compact, CompactDone, ReadRecord, StopClosed, Refuse
<1>10. CASE Delivers(q)
  BY <1>1, <1>10 DEF Delivers, Rewrite, StartDelivery, RewriteDone
<1>11. CASE Handles(q)
  BY <1>1, <1>4, <1>11 DEF Handles, HandlerTakesEffect, HandlerSucceeds, HandlerFails, RemoveDelivered,
     RemoveFails
<1>12. CASE Stops(q)
  BY <1>1, <1>3, <1>12 DEF Stops, Abort, Dispose, Release, ReleaseLate, FlushFails
<1> QED BY <1>5, <1>6, <1>7, <1>8, <1>9, <1>10, <1>11, <1>12 DEF Moves


-----------------------------------------------------------------------------
(* After dispose.                                                          *)

LEMMA QuietStep ==
  ASSUME Local, NEW p \in Proc, Moves(p), mem[p].closed, Up(p)
  PROVE  /\ mem'[p].active \in {None, mem[p].active}
         /\ mem'[p].stage = "removing" => mem[p].stage = "removing"
<1> PICK m : m = mem[p]
  OBVIOUS
<1> DEFINE Quiet(x) == x.active \in {None, m.active} /\ (x.stage = "removing" => m.stage = "removing")
<1>0. m \in Memory /\ ProcOK(p, pc[p], m) /\ m.closed /\ Up(p)
  BY MineFacts
<1>1. SUFFICES Quiet(mem'[p])
  OBVIOUS
<1>2. ASSUME NEW at, NEW x, Set(p, at, x), x.active \in {None, m.active}, x.stage \in {"none", m.stage}
      PROVE  Quiet(mem'[p])
  <2>1. mem'[p] = x
    BY <1>2, SetEffect
  <2> QED BY <1>2, <2>1
<1>3. ASSUME NEW x \in Memory, x.active = m.active, x.stage = m.stage, Flush(p, x), x.closed
      PROVE  Quiet(mem'[p])
  <2>1. Set(p, pc[p], x)
    BY <1>3 DEF Flush, MayFlush
  <2> QED BY <1>2, <1>3, <2>1
<1>4. ASSUME NEW at, NEW x \in Memory, x.active = m.active, x.stage = m.stage, Set(p, at, Ended(x))
      PROVE  Quiet(mem'[p])
  <2> PICK e : e = Ended(x)
    OBVIOUS
  <2>1. e.active = x.active /\ e.stage = x.stage
    BY EndedFacts
  <2> QED BY <1>2, <1>4, <2>1
<1>5. ASSUME NEW ok \in BOOLEAN, NEW x \in Memory, Settle(p, ok, x) PROVE Quiet(mem'[p])
  <2>1. mem'[p].active = None /\ mem'[p].stage = "none"
    BY <1>5, SettleEffect
  <2> QED BY <2>1
<1>6. ASSUME NEW x \in Memory, x.active = m.active, x.stage = m.stage, Leave(p, x)
      PROVE  Quiet(mem'[p])
  <2>1. CASE x.active = None
    BY <1>2, <1>6, <2>1 DEF Leave, LeaveLease
  <2>2. CASE x.active # None
    <3> PICK y : y = [x EXCEPT !.cleanup = TRUE]
      OBVIOUS
    <3>1. y \in Memory /\ y.active = x.active /\ y.stage = x.stage
      BY DEF Memory
    <3>2. Set(p, "idle", Ended(y))
      BY <1>6, <2>2 DEF Leave, LeaveLease
    <3> QED BY <1>4, <1>6, <3>1, <3>2
  <2> QED BY <2>1, <2>2
<1>7. CASE Starts(p)
  <2>1. Die(p)
    BY <1>0, <1>7 DEF Starts, Start, Up
  <2>2. mem'[p] = Fresh
    BY <2>1 DEF Die, Local
  <2> QED BY <2>2, FreshFacts
<1>8. CASE Accepts(p)
  BY <1>0, <1>8 DEF Accepts, Enqueue
<1>9. CASE WritesTemp(p)
  <2>1. mem' = mem
    BY <1>9 DEF WritesTemp, CreateTemp, SyncTemp, processes
  <2> QED BY <2>1
<1>10. CASE Publishes(p)
  <2>1. PICK w, f : Set(p, pc[p], [m EXCEPT !.writes = w, !.failed = f])
    BY <1>10 DEF Publishes, PublishSpool, SpoolFails
  <2>2. PICK x : x = [m EXCEPT !.writes = w, !.failed = f]
    OBVIOUS
  <2>3. x.active = m.active /\ x.stage = m.stage
    BY <1>0, <2>2 DEF Memory
  <2> QED BY <1>2, <2>1, <2>2, <2>3
<1>11. CASE CallFlush(p) \/ TimerFires(p)
  <2>1. CASE CallFlush(p)
    BY <1>0, <1>3, <2>1 DEF CallFlush
  <2>2. CASE TimerFires(p)
    <3> PICK x : x = [m EXCEPT !.timer = FALSE]
      OBVIOUS
    <3>1. x \in Memory /\ x.active = m.active /\ x.stage = m.stage /\ x.closed
      BY <1>0 DEF Memory
    <3> QED BY <1>3, <2>2, <3>1 DEF TimerFires
  <2> QED BY <1>11, <2>1, <2>2
<1>12. CASE AwaitWrites(p) \/ AcquireLease(p)
  <2>1. \/ Set(p, "idle", Ended(m))
        \/ \E at : Set(p, at, m)
        \/ \E at, n : Set(p, at, [m EXCEPT !.tries = n])
        \/ \E at, s : Set(p, at, [m EXCEPT !.seen = s])
    BY <1>12 DEF AwaitWrites, AcquireLease, LinkLease, ProbeLease, RereadLease, UnlinkLease, LeaseGone
  <2>2. ASSUME NEW at, NEW n, Set(p, at, [m EXCEPT !.tries = n]) PROVE Quiet(mem'[p])
    <3> PICK x : x = [m EXCEPT !.tries = n]
      OBVIOUS
    <3>1. x.active = m.active /\ x.stage = m.stage
      BY <1>0 DEF Memory
    <3> QED BY <1>2, <2>2, <3>1
  <2>3. ASSUME NEW at, NEW s, Set(p, at, [m EXCEPT !.seen = s]) PROVE Quiet(mem'[p])
    <3> PICK x : x = [m EXCEPT !.seen = s]
      OBVIOUS
    <3>1. x.active = m.active /\ x.stage = m.stage
      BY <1>0 DEF Memory
    <3> QED BY <1>2, <2>3, <3>1
  <2> QED BY <1>0, <1>2, <1>4, <2>1, <2>2, <2>3
<1>13. CASE Recovers(p)
  <2>1. Set(p, "recover", m) \/ \E b : Set(p, "recover", [m EXCEPT !.bad = b])
    BY <1>13 DEF Recovers, Recover
  <2>2. ASSUME NEW b, Set(p, "recover", [m EXCEPT !.bad = b]) PROVE Quiet(mem'[p])
    <3> PICK x : x = [m EXCEPT !.bad = b]
      OBVIOUS
    <3>1. x.active = m.active /\ x.stage = m.stage
      BY <1>0 DEF Memory
    <3> QED BY <1>2, <2>2, <3>1
  <2> QED BY <1>2, <2>1, <2>2
<1>14. CASE Lists(p)
  <2>1. \/ \E at : Set(p, at, m)
        \/ \E at, c : Set(p, at, [m EXCEPT !.covers = c])
        \/ \E at, l : Set(p, at, [m EXCEPT !.list = l])
        \/ \E at, l : Set(p, at, [Counted(m) EXCEPT !.list = l])
        \/ \E at, d : Set(p, at, [Counted(m) EXCEPT !.drained = d])
        \/ \E at, n, l : Set(p, at, [m EXCEPT !.pending = n, !.list = l])
    <3>1. CASE Refuse(p)
      <4> PICK i : i = Oldest(m.list)
        OBVIOUS
      <4> PICK n : n = m.pending - 1
        OBVIOUS
      <4> PICK l : l = m.list \ {i}
        OBVIOUS
      <4>1. Done([m EXCEPT !.pending = @ - 1], i) = [m EXCEPT !.pending = n, !.list = l]
        BY <1>0 DEF Done, Memory
      <4>2. \E at : Set(p, at, [m EXCEPT !.pending = n, !.list = l])
        BY <3>1, <4>1 DEF Refuse
      <4> QED BY <4>2
    <3>2. CASE CompactDone(p)
      BY <1>0, <3>2 DEF CompactDone
    <3>3. CASE ~ Refuse(p) /\ ~ CompactDone(p)
      BY <1>0, <1>14, <3>3 DEF Lists, RecoverDone, BeginListing, SpoolFailed, ReadDirectory, Compact,
         ReadRecord, StopClosed
    <3> QED BY <3>1, <3>2, <3>3
  <2>2. ASSUME NEW at, NEW c, Set(p, at, [m EXCEPT !.covers = c]) PROVE Quiet(mem'[p])
    <3> PICK x : x = [m EXCEPT !.covers = c]
      OBVIOUS
    <3>1. x.active = m.active /\ x.stage = m.stage
      BY <1>0 DEF Memory
    <3> QED BY <1>2, <2>2, <3>1
  <2>3. ASSUME NEW at, NEW l, Set(p, at, [m EXCEPT !.list = l]) PROVE Quiet(mem'[p])
    <3> PICK x : x = [m EXCEPT !.list = l]
      OBVIOUS
    <3>1. x.active = m.active /\ x.stage = m.stage
      BY <1>0 DEF Memory
    <3> QED BY <1>2, <2>3, <3>1
  <2>4. ASSUME NEW at, NEW l, Set(p, at, [Counted(m) EXCEPT !.list = l]) PROVE Quiet(mem'[p])
    <3> PICK x : x = [Counted(m) EXCEPT !.list = l]
      OBVIOUS
    <3>1. x.active = m.active /\ x.stage = m.stage
      BY <1>0 DEF Memory, Counted
    <3> QED BY <1>2, <2>4, <3>1
  <2>5. ASSUME NEW at, NEW d, Set(p, at, [Counted(m) EXCEPT !.drained = d]) PROVE Quiet(mem'[p])
    <3> PICK x : x = [Counted(m) EXCEPT !.drained = d]
      OBVIOUS
    <3>1. x.active = m.active /\ x.stage = m.stage
      BY <1>0 DEF Memory, Counted
    <3> QED BY <1>2, <2>5, <3>1
  <2>6. ASSUME NEW at, NEW n, NEW l, Set(p, at, [m EXCEPT !.pending = n, !.list = l])
        PROVE  Quiet(mem'[p])
    <3> PICK x : x = [m EXCEPT !.pending = n, !.list = l]
      OBVIOUS
    <3>1. x.active = m.active /\ x.stage = m.stage
      BY <1>0 DEF Memory
    <3> QED BY <1>2, <2>6, <3>1
  <2> QED BY <1>0, <1>2, <2>1, <2>2, <2>3, <2>4, <2>5, <2>6
<1>15. CASE Delivers(p)
  <2>1. \E at : Set(p, at, m)
    BY <1>0, <1>15 DEF Delivers, Rewrite, StartDelivery, RewriteDone
  <2> QED BY <1>2, <2>1
<1>16. CASE Handles(p)
  <2>1. CASE HandlerTakesEffect(p)
    <3> PICK x : x = [m EXCEPT !.stage = "effective"]
      OBVIOUS
    <3>1. x.active = m.active /\ x.stage = "effective"
      BY <1>0 DEF Memory
    <3>2. mem'[p] = x
      BY <2>1, SetEffect DEF HandlerTakesEffect
    <3> QED BY <3>1, <3>2
  <2>2. CASE HandlerSucceeds(p) \/ HandlerFails(p) \/ RemoveFails(p)
    BY <1>0, <1>5, <2>2 DEF HandlerSucceeds, HandlerFails, RemoveFails, MayAcknowledge
  <2>3. CASE RemoveDelivered(p)
    <3> PICK n : n = IF m.pending = 0 THEN 0 ELSE m.pending - 1
      OBVIOUS
    <3> PICK x : x = [m EXCEPT !.pending = n]
      OBVIOUS
    <3>1. n \in Nat
      BY <1>0, MemoryFacts
    <3>2. x \in Memory
      BY <1>0, <3>1 DEF Memory
    <3>3. Settle(p, TRUE, x)
      BY <2>3 DEF RemoveDelivered
    <3> QED BY <1>5, <3>2, <3>3
  <2> QED BY <1>16, <2>1, <2>2, <2>3 DEF Handles
<1>17. CASE Stops(p)
  <2>1. CASE Abort(p)
    BY <1>0, <1>6, <2>1 DEF Abort
  <2>2. CASE Dispose(p)
    BY <1>0, <2>2 DEF Dispose
  <2>3. CASE Release(p)
    BY <1>0, <1>4, <2>3 DEF Release
  <2>4. CASE ReleaseLate(p)
    <3> PICK x : x = [m EXCEPT !.cleanup = FALSE]
      OBVIOUS
    <3>1. x.active = m.active /\ x.stage = m.stage
      BY <1>0 DEF Memory
    <3> QED BY <1>2, <2>4, <3>1 DEF ReleaseLate
  <2>5. CASE FlushFails(p)
    BY <1>0, <1>2, <1>4, <2>5 DEF FlushFails
  <2> QED BY <1>17, <2>1, <2>2, <2>3, <2>4, <2>5 DEF Stops
<1> QED BY <1>7, <1>8, <1>9, <1>10, <1>11, <1>12, <1>13, <1>14, <1>15, <1>16, <1>17 DEF Moves, Enters

\* A disposed queue starts no delivery and its late handlers acknowledge
\* nothing, for any processes and bounds and however many processes reclaim a
\* lease at once: "late handlers cannot acknowledge records after disposal"
\* (docs/recovery.md:38; src/src/hook-queue.ts lines 292, 303 and 323).
THEOREM Disposal == Spec => DisposedStaysQuiet
<1> DEFINE Quiet ==
      \A p \in Proc : mem[p].closed /\ Up(p) =>
       /\ mem'[p].active \in {None, mem[p].active}
       /\ mem'[p].stage = "removing" => mem[p].stage = "removing"
<1>1. Local /\ [Next]_vars => [Quiet]_vars
  <2> SUFFICES ASSUME Local, Next, NEW p \in Proc, mem[p].closed, Up(p)
               PROVE  /\ mem'[p].active \in {None, mem[p].active}
                      /\ mem'[p].stage = "removing" => mem[p].stage = "removing"
    OBVIOUS
  <2>1. CASE Age
    BY <2>1 DEF Age, processes
  <2>2. ASSUME NEW q \in Proc, Moves(q), q # p
        PROVE  mem'[p] = mem[p]
    BY <2>2, Alone
  <2> QED BY <2>1, <2>2, QuietStep, NextMoves
<1> QED BY <1>1, LocalInvariance, PTL DEF Spec, DisposedStaysQuiet


-----------------------------------------------------------------------------
(* What the lease protects: the other processes.                           *)

LEMMA StepKinds ==
  /\ UnderLease \subseteq Step /\ Listed \subseteq UnderLease /\ Window3 \subseteq Listed
  /\ Reclaiming \subseteq Step \ UnderLease
  /\ {"idle", "writes", "link", "probe"} \subseteq Step \ (UnderLease \union Reclaiming)
  /\ {"recover", "list", "read", "release"} \subseteq UnderLease \ Listed
  /\ {"deliver", "record", "rewrite", "wait"} \subseteq Window3 /\ "compact" \in Listed \ Window3
BY DEF Step, UnderLease, Listed, Window3, Reclaiming

\* What a step may do to the lease.
LEMMA LeaseEffect ==
  ASSUME Local, NEW r \in Proc, Moves(r)
  PROVE  \/ lease' = lease
         \/ lease = None /\ lease' = r
         \/ lease = r /\ lease' = None
         \/ pc[r] = "unlink" /\ lease' = None
<1>1. CASE Starts(r) \/ Accepts(r) \/ WritesTemp(r) \/ Publishes(r) \/ Recovers(r)
  BY <1>1 DEF Starts, Start, Die, Accepts, Enqueue, WritesTemp, CreateTemp, SyncTemp, Publishes,
     PublishSpool, SpoolFails, Recovers, Recover, directory
<1>2. CASE Enters(r)
  BY <1>2 DEF Enters, CallFlush, TimerFires, AwaitWrites, AcquireLease, LinkLease, ProbeLease,
     RereadLease, UnlinkLease, LeaseGone, directory
<1>3. CASE Lists(r)
  BY <1>3 DEF Lists, RecoverDone, BeginListing, SpoolFailed, ReadDirectory,
     Compact, CompactDone, ReadRecord, StopClosed, Refuse, directory
<1>4. CASE Delivers(r) \/ Handles(r)
  BY <1>4 DEF Delivers, Rewrite, StartDelivery, RewriteDone, Handles, HandlerTakesEffect,
     HandlerSucceeds, HandlerFails, RemoveDelivered, RemoveFails, directory
<1>5. CASE Stops(r)
  BY <1>5 DEF Stops, Abort, Dispose, Release, ReleaseLate, FlushFails, directory
<1> QED BY <1>1, <1>2, <1>3, <1>4, <1>5 DEF Moves

\* What a step may publish, and who removes.
LEMMA FilesEffect ==
  ASSUME Local, NEW r \in Proc, Moves(r)
  PROVE  /\ files' = files \/ Publishes(r) \/ Recovers(r) \/ Compact(r) \/ Refuse(r) \/ RemoveDelivered(r)
         /\ \A i \in files \ files' : Consuming(r)
         /\ \A i \in files' \ files :
              i \in mem[r].writes \/ pc[r] = "recover" \/ (pc[r] = "rewrite" /\ jobs[i].by # r)
<1>1. CASE Starts(r) \/ Accepts(r) \/ WritesTemp(r)
  BY <1>1 DEF Starts, Start, Die, Accepts, Enqueue, WritesTemp, CreateTemp, SyncTemp, directory
<1>2. CASE Publishes(r)
  <2>1. ASSUME NEW t \in temps, PublishSpool(r, t)
        PROVE  /\ files \subseteq files'
               /\ \A i \in files' \ files :
                    i \in mem[r].writes \/ (pc[r] = "rewrite" /\ jobs[i].by # r)
    <3>1. t.by = r /\ Up(r) /\ files' = files \union {t.rec}
      BY <2>1 DEF PublishSpool
    <3>2. TempFits(t, pc[r], mem[r])
      BY <3>1 DEF Local, TempsOK
    <3> QED BY <3>1, <3>2 DEF TempFits
  <2>2. ASSUME NEW i \in DOMAIN jobs, SpoolFails(r, i)
        PROVE  files \subseteq files' /\ \A j \in files' \ files : j \in mem[r].writes
    BY <2>2 DEF SpoolFails
  <2> QED BY <1>2, <2>1, <2>2 DEF Publishes
<1>3. CASE Recovers(r)
  BY <1>3 DEF Recovers, Recover
<1>4. CASE Enters(r)
  BY <1>4 DEF Enters, CallFlush, TimerFires, AwaitWrites, AcquireLease, LinkLease, ProbeLease,
     RereadLease, UnlinkLease, LeaseGone, directory
<1>5. CASE Lists(r)
  <2>1. files' = files \/ Compact(r) \/ Refuse(r)
    BY <1>5 DEF Lists, RecoverDone, BeginListing, SpoolFailed, ReadDirectory, CompactDone, ReadRecord, StopClosed,
       directory
  <2>2. Compact(r) \/ Refuse(r) => pc[r] \in {"compact", "record"} /\ files' \subseteq files
    BY DEF Compact, Refuse
  <2> QED BY <2>1, <2>2 DEF Consuming, UnderLease
<1>6. CASE Delivers(r)
  BY <1>6 DEF Delivers, Rewrite, StartDelivery, RewriteDone, directory
<1>7. CASE Handles(r)
  <2>1. files' = files \/ (RemoveDelivered(r) /\ files' \subseteq files /\ mem[r].stage = "removing")
    BY <1>7 DEF Handles, HandlerTakesEffect,
       HandlerSucceeds, HandlerFails, RemoveDelivered, RemoveFails, directory
  <2>2. mem[r].stage = "removing" => mem[r].active # None
    BY MineFacts DEF ProcOK
  <2> QED BY <2>1, <2>2 DEF Consuming
<1>8. CASE Stops(r)
  BY <1>8 DEF Stops, Abort, Dispose, Release, ReleaseLate, FlushFails, directory
<1> QED BY <1>1, <1>2, <1>3, <1>4, <1>5, <1>6, <1>7, <1>8 DEF Moves

LEMMA GuardFacts ==
  ASSUME Local, Exclusive, NEW p \in Proc
  PROVE  /\ Guarded(p, pc[p], mem[p])
         /\ Consuming(p) => lease = p /\ Up(p)
         /\ pc[p] \in Reclaiming =>
              Up(p) /\ lease = mem[p].seen /\ mem[p].seen \in Proc /\ life[mem[p].seen] = "dead"
<1>1. Guarded(p, pc[p], mem[p]) /\ ProcOK(p, pc[p], mem[p])
  BY MineFacts DEF Exclusive
<1>2. ~ Up(p) => pc[p] = "idle" /\ mem[p].active = None
  BY <1>1, FreshFacts DEF ProcOK
<1> QED BY <1>1, <1>2, StepKinds DEF Guarded, Consuming, ProcOK, Reclaiming

LEMMA OthersGuarded ==
  ASSUME Local, Exclusive, OneReclaimer, NEW r \in Proc, Moves(r), NEW p \in Proc, p # r
  PROVE  Guarded(p, pc[p], mem[p])'
<1> PICK m : m = mem[p]
  OBVIOUS
<1> PICK at : at = pc[p]
  OBVIOUS
<1>1. mem'[p] = m /\ pc'[p] = at
  BY Alone
<1>2. /\ Guarded(p, at, m) /\ ProcOK(p, at, m)
      /\ (Consuming(p) => lease = p /\ Up(p))
      /\ (Consuming(r) => lease = r /\ Up(r))
      /\ (at \in Reclaiming => lease = m.seen /\ m.seen \in Proc /\ life[m.seen] = "dead")
      /\ (pc[r] \in Reclaiming => Up(r) /\ lease = mem[r].seen /\ life[mem[r].seen] = "dead")
  BY GuardFacts, MineFacts
<1>3. Consuming(p) \/ m.cleanup => lease = p /\ Up(p)
  BY <1>2, FreshFacts DEF Guarded, ProcOK
<1>4. None # p /\ None # r
  BY QueueAssumption
<1>5. Consuming(p) \/ m.cleanup => lease' = p
  <2>1. SUFFICES ASSUME lease = p, Up(p) PROVE lease' = p
    BY <1>3
  <2>2. pc[r] # "unlink"
    BY <1>2, <2>1 DEF Reclaiming, Up
  <2> QED BY <1>4, <2>1, <2>2, LeaseEffect
<1>6. at \in Reclaiming => lease' = m.seen
  <2>1. SUFFICES ASSUME at \in Reclaiming PROVE lease' = m.seen
    OBVIOUS
  <2>2. lease = m.seen /\ lease # None /\ life[lease] = "dead"
    BY <1>2, <2>1, QueueAssumption
  <2>3. pc[r] # "unlink"
    BY <2>1 DEF OneReclaimer, Reclaiming
  <2>4. CASE lease # r
    BY <2>2, <2>3, <2>4, LeaseEffect
  <2>5. CASE lease = r
    <3>1. life[r] = "dead"
      BY <2>2, <2>5
    <3>2. ~ Up(r) /\ pc[r] = "idle" /\ mem[r] = Fresh
      BY <3>1, MineFacts DEF Up, ProcOK
    <3>3. lease' = lease
      BY <3>1, <3>2, FreshFacts DEF Moves, Starts, Start, Accepts, Enqueue, WritesTemp, CreateTemp, SyncTemp, Publishes,
         PublishSpool, SpoolFails, Recovers, Recover, Enters, CallFlush, TimerFires, AwaitWrites, AcquireLease, LinkLease, ProbeLease,
         RereadLease, UnlinkLease, LeaseGone, Lists, RecoverDone, BeginListing, SpoolFailed, ReadDirectory,
         Compact, CompactDone, ReadRecord, StopClosed, Refuse, Delivers, Rewrite, StartDelivery, RewriteDone, Handles, HandlerTakesEffect,
         HandlerSucceeds, HandlerFails, RemoveDelivered, RemoveFails, Stops, Abort, Dispose, Release, ReleaseLate, FlushFails, Die, Up
    <3> QED BY <2>2, <3>3
  <2> QED BY <2>4, <2>5
<1>7. ASSUME Consuming(p)
      PROVE  files \subseteq files' /\ \A i \in files' \ files : i \notin m.covers
  <2>1. ~ Consuming(r)
    BY <1>2, <1>7
  <2>2. files \subseteq files' /\ \A i \in files' \ files : i \in mem[r].writes
    BY <2>1, FilesEffect DEF Consuming, UnderLease
  <2>3. mem[r].writes \subseteq Own(r) /\ m.covers \subseteq Own(p)
    BY <1>2, MineFacts DEF ProcOK
  <2> QED BY <2>2, <2>3 DEF Own
<1>8. CASE Consuming(p)
  <2>1. lease' = p /\ (m.cleanup => at \notin UnderLease) /\ (at \in Reclaiming => lease' = m.seen)
    BY <1>2, <1>5, <1>6, <1>8 DEF Guarded
  <2>2. files \subseteq files' /\ m.covers \intersect files' \subseteq m.covers \intersect files
    BY <1>7, <1>8
  <2> QED BY <1>1, <1>2, <2>1, <2>2 DEF Guarded
<1>9. CASE ~ Consuming(p)
  <2>1. at \notin UnderLease /\ m.active = None /\ at \notin Listed /\ at \notin Window3 /\ at # "compact"
    BY <1>9, StepKinds DEF Consuming
  <2> QED BY <1>1, <1>5, <1>6, <2>1 DEF Guarded
<1> QED BY <1>8, <1>9


-----------------------------------------------------------------------------
(* What the lease protects: the process that takes the step.               *)

\* Outside the lease, with no delivery left over.
LEMMA GuardOut ==
  ASSUME Local, NEW p \in Proc, NEW at, NEW x, Set(p, at, x),
         at \notin UnderLease \union Reclaiming, x.active = None, x.cleanup => lease' = p
  PROVE  Guarded(p, pc[p], mem[p])'
<1>1. pc'[p] = at /\ mem'[p] = x
  BY SetEffect
<1>2. at \notin Listed /\ at \notin Window3 /\ at # "compact"
  BY StepKinds
<1> QED BY <1>1, <1>2 DEF Guarded

\* Under the lease, before a listing or after it.
LEMMA GuardIn ==
  ASSUME Local, NEW p \in Proc, NEW at, NEW x, Set(p, at, x),
         at \in UnderLease \ Listed, x.active = None, ~ x.cleanup, lease' = p
  PROVE  Guarded(p, pc[p], mem[p])'
<1>1. pc'[p] = at /\ mem'[p] = x
  BY SetEffect
<1>2. at \notin Listed /\ at \notin Window3 /\ at # "compact" /\ at \notin Reclaiming
  BY StepKinds
<1> QED BY <1>1, <1>2 DEF Guarded

\* Where it is, with the same listing.
LEMMA GuardSame ==
  ASSUME Local, Exclusive, NEW p \in Proc, NEW x, Set(p, pc[p], x), lease' = lease,
         files \subseteq files',
         \A i \in files' \ files : i \notin mem[p].covers,
         x.list = mem[p].list, x.covers = mem[p].covers, x.active = mem[p].active,
         x.seen = mem[p].seen, x.cleanup = mem[p].cleanup, x.closed = mem[p].closed \/ x.closed
  PROVE  Guarded(p, pc[p], mem[p])'
<1> PICK at : at = pc[p]
  OBVIOUS
<1>1. pc'[p] = at /\ mem'[p] = x
  BY SetEffect
<1>2. Guarded(p, at, mem[p])
  BY DEF Exclusive
<1>3. x.covers \intersect files' \subseteq mem[p].covers \intersect files
  OBVIOUS
<1> QED BY <1>1, <1>2, <1>3 DEF Guarded

\* A flush that is asked for starts or does not.
LEMMA GuardFlush ==
  ASSUME Local, Exclusive, NEW p \in Proc, NEW x \in Memory, Flush(p, x), lease' = lease, files' = files,
         x.list = mem[p].list, x.covers = mem[p].covers, x.active = mem[p].active,
         x.seen = mem[p].seen, x.cleanup = mem[p].cleanup, x.closed = mem[p].closed
  PROVE  Guarded(p, pc[p], mem[p])'
<1>1. CASE MayFlush(p, x)
  <2> PICK e : e = Flushing(x)
    OBVIOUS
  <2>1. e.active = x.active /\ e.cleanup = x.cleanup
    BY FlushingFacts
  <2>2. Set(p, "writes", e) /\ x.active = None
    BY <1>1 DEF Flush, MayFlush
  <2>3. "writes" \notin UnderLease \union Reclaiming
    BY StepKinds
  <2>4. e.cleanup => lease' = p
    BY <2>1, GuardFacts DEF Guarded
  <2> QED BY <2>1, <2>2, <2>3, <2>4, GuardOut
<1>2. CASE ~ MayFlush(p, x)
  <2>1. Set(p, pc[p], x)
    BY <1>2 DEF Flush
  <2> QED BY <2>1, GuardSame
<1> QED BY <1>1, <1>2

\* The flush ends without a delivery left over.
LEMMA GuardEnd ==
  ASSUME Local, Exclusive, NEW p \in Proc, NEW x \in Memory, Set(p, "idle", Ended(x)),
         x.active = None, x.cleanup => lease' = p
  PROVE  Guarded(p, pc[p], mem[p])'
<1> PICK e : e = Ended(x)
  OBVIOUS
<1>1. e.active = x.active /\ e.cleanup = x.cleanup
  BY EndedFacts
<1>2. "idle" \notin UnderLease \union Reclaiming
  BY StepKinds
<1> QED BY <1>1, <1>2, GuardOut

LEMMA StartsGuarded ==
  ASSUME Local, Exclusive, NEW p \in Proc, Starts(p)
  PROVE  Guarded(p, pc[p], mem[p])'
<1>1. pc'[p] = "idle" /\ mem'[p] = Fresh
  <2>1. CASE Start(p)
    BY <2>1, MineFacts DEF Start, Up, ProcOK
  <2>2. CASE Die(p)
    BY <2>2 DEF Die, Local
  <2> QED BY <2>1, <2>2 DEF Starts
<1> QED BY <1>1, FreshFacts, StepKinds DEF Guarded

LEMMA AcceptsGuarded ==
  ASSUME Local, Exclusive, NEW p \in Proc, Accepts(p)
  PROVE  Guarded(p, pc[p], mem[p])'
<1>1. PICK k \in Key, now \in BOOLEAN : Enqueue(p, k, now)
  BY DEF Accepts
<1> PICK n : n = mem[p].pending + 1
  OBVIOUS
<1> PICK w : w = mem[p].writes \union {Len(jobs) + 1}
  OBVIOUS
<1> PICK m : m = [mem[p] EXCEPT !.pending = @ + 1, !.writes = @ \union {Len(jobs) + 1}]
  OBVIOUS
<1>2. mem[p] \in Memory
  BY MineFacts
<1>3. n \in Nat /\ w \in SUBSET Nat
  BY <1>2, MemoryFacts, RecordFacts
<1>4. m \in Memory
  <2>1. [mem[p] EXCEPT !.pending = n] \in Memory
    BY <1>2, <1>3 DEF Memory
  <2>2. PICK y \in Memory : y = [mem[p] EXCEPT !.pending = n]
    BY <2>1
  <2>3. [y EXCEPT !.writes = w] \in Memory
    BY <1>3 DEF Memory
  <2>4. m = [y EXCEPT !.writes = w]
    BY <1>2, <2>2 DEF Memory
  <2> QED BY <2>3, <2>4
<1>5. /\ m.list = mem[p].list /\ m.covers = mem[p].covers /\ m.active = mem[p].active
      /\ m.seen = mem[p].seen /\ m.cleanup = mem[p].cleanup /\ m.closed = mem[p].closed
  BY <1>2 DEF Memory
<1>6. files' = files /\ lease' = lease /\ (Flush(p, m) \/ Set(p, pc[p], Scheduled(m)))
  BY <1>1 DEF Enqueue, directory
<1>7. CASE Set(p, pc[p], Scheduled(m))
  <2> PICK e : e = Scheduled(m)
    OBVIOUS
  <2>1. /\ e.list = m.list /\ e.covers = m.covers /\ e.active = m.active
        /\ e.seen = m.seen /\ e.cleanup = m.cleanup /\ e.closed = m.closed
    <3>1. m \in Memory /\ e = Scheduled(m)
      BY <1>4
    <3> QED BY ONLY <3>1, ScheduledSame
  <2> QED BY <1>5, <1>6, <1>7, <2>1, GuardSame
<1> QED BY <1>4, <1>5, <1>6, <1>7, GuardFlush

LEMMA SpoolGuarded ==
  ASSUME Local, Exclusive, NEW p \in Proc, WritesTemp(p) \/ Publishes(p)
  PROVE  Guarded(p, pc[p], mem[p])'
<1>1. CASE WritesTemp(p)
  <2>1. mem' = mem /\ pc' = pc /\ files' = files /\ lease' = lease
    BY <1>1 DEF WritesTemp, CreateTemp, SyncTemp, processes
  <2> QED BY <2>1, GuardFacts DEF Guarded
<1>2. CASE Publishes(p)
  <2>1. PICK w, f : Set(p, pc[p], [mem[p] EXCEPT !.writes = w, !.failed = f])
    BY <1>2 DEF Publishes, PublishSpool, SpoolFails
  <2> PICK x : x = [mem[p] EXCEPT !.writes = w, !.failed = f]
    OBVIOUS
  <2>2. /\ x.list = mem[p].list /\ x.covers = mem[p].covers /\ x.active = mem[p].active
        /\ x.seen = mem[p].seen /\ x.cleanup = mem[p].cleanup /\ x.closed = mem[p].closed
    BY MineFacts DEF Memory
  <2>3. ProcOK(p, pc[p], mem[p]) /\ mem[p].covers \subseteq Own(p)
        /\ mem[p].covers \intersect mem[p].writes = {}
    BY MineFacts DEF ProcOK
  <2>4. ASSUME NEW t \in temps, PublishSpool(p, t)
        PROVE  /\ lease' = lease /\ files' = files \union {t.rec}
               /\ t.rec \notin mem[p].covers
    <3>1. t.by = p /\ Up(p) /\ files' = files \union {t.rec} /\ lease' = lease
      BY <2>4 DEF PublishSpool
    <3>2. TempFits(t, pc[p], mem[p])
      BY <3>1 DEF Local, TempsOK
    <3> QED BY <2>3, <3>1, <3>2 DEF TempFits, Own
  <2>5. ASSUME NEW i \in DOMAIN jobs, SpoolFails(p, i)
        PROVE  /\ lease' = lease /\ files \subseteq files' /\ files' \subseteq files \union {i}
               /\ i \notin mem[p].covers
    BY <2>3, <2>5 DEF SpoolFails
  <2>6. lease' = lease /\ files \subseteq files' /\ \A i \in files' \ files : i \notin mem[p].covers
    BY <1>2, <2>4, <2>5 DEF Publishes
  <2> QED BY <2>1, <2>2, <2>6, GuardSame
<1> QED BY <1>1, <1>2


LEMMA EntersGuarded ==
  ASSUME Local, Exclusive, NEW p \in Proc, Enters(p)
  PROVE  Guarded(p, pc[p], mem[p])'
<1> PICK m : m = mem[p]
  OBVIOUS
<1>0. m \in Memory /\ ProcOK(p, pc[p], m) /\ Guarded(p, pc[p], m)
  BY MineFacts, GuardFacts
<1>1. CASE CallFlush(p)
  BY <1>0, <1>1, GuardFlush DEF CallFlush, directory
<1>2. CASE TimerFires(p)
  <2> PICK x : x = [m EXCEPT !.timer = FALSE]
    OBVIOUS
  <2>1. /\ x \in Memory /\ x.list = m.list /\ x.covers = m.covers /\ x.active = m.active
        /\ x.seen = m.seen /\ x.cleanup = m.cleanup /\ x.closed = m.closed
    BY <1>0 DEF Memory
  <2>2. Flush(p, x) /\ lease' = lease /\ files' = files
    BY <1>2 DEF TimerFires, directory
  <2> QED BY <2>1, <2>2, GuardFlush
<1>3. CASE AwaitWrites(p) \/ AcquireLease(p)
  <2>1. pc[p] \in {"writes", "link", "probe", "reread", "unlink"} /\ Up(p)
    BY <1>3 DEF AwaitWrites, AcquireLease, LinkLease, ProbeLease, RereadLease, UnlinkLease, LeaseGone
  <2>2. m.active = None /\ (m.cleanup => lease = p)
    BY <1>0, <2>1 DEF ProcOK, Guarded
  <2>3. ASSUME Set(p, "idle", Ended(m)), lease' = lease PROVE Guarded(p, pc[p], mem[p])'
    BY <1>0, <2>2, <2>3, GuardEnd
  <2>4. "link" \notin UnderLease \union Reclaiming /\ "probe" \notin UnderLease \union Reclaiming
    BY StepKinds
  <2>5. CASE AwaitWrites(p)
    <3>1. Set(p, "idle", Ended(m)) \/ Set(p, "link", m)
      BY <2>5 DEF AwaitWrites
    <3>2. lease' = lease
      BY <2>5 DEF AwaitWrites, directory
    <3> QED BY <2>2, <2>3, <2>4, <3>1, <3>2, GuardOut
  <2>6. CASE LinkLease(p)
    <3>1. CASE Set(p, "idle", Ended(m)) /\ lease' = lease
      BY <2>3, <3>1
    <3>2. CASE lease = None /\ Set(p, "recover", [m EXCEPT !.tries = 0]) /\ lease' = p
      <4> PICK x : x = [m EXCEPT !.tries = 0]
        OBVIOUS
      <4>1. x.active = m.active /\ x.cleanup = m.cleanup /\ m.cleanup \in BOOLEAN
        BY <1>0 DEF Memory
      <4>2. ~ m.cleanup
        BY <2>2, <3>2, QueueAssumption
      <4>3. "recover" \in UnderLease \ Listed
        BY StepKinds
      <4> QED BY <2>2, <3>2, <4>1, <4>2, <4>3, GuardIn
    <3>3. CASE Set(p, "probe", [m EXCEPT !.tries = @ + 1]) /\ lease' = lease
      <4> PICK x : x = [m EXCEPT !.tries = @ + 1]
        OBVIOUS
      <4>1. x.active = m.active /\ x.cleanup = m.cleanup
        BY <1>0 DEF Memory
      <4> QED BY <2>2, <2>4, <3>3, <4>1, GuardOut
    <3> QED BY <2>6, <3>1, <3>2, <3>3 DEF LinkLease
  <2>7. CASE ProbeLease(p)
    <3>1. lease' = lease
      BY <2>7 DEF ProbeLease, directory
    <3>2. CASE Set(p, "reread", [m EXCEPT !.seen = lease])
      <4> PICK x : x = [m EXCEPT !.seen = lease]
        OBVIOUS
      <4>1. x.active = None /\ x.cleanup = m.cleanup /\ x.seen = lease
        BY <1>0, <2>2 DEF Memory
      <4>2. pc'[p] = "reread" /\ mem'[p] = x
        BY <3>2, SetEffect
      <4>3. "reread" \notin UnderLease \union Listed \union Window3 /\ "reread" # "compact"
        BY StepKinds DEF Reclaiming
      <4> QED BY <2>2, <3>1, <4>1, <4>2, <4>3 DEF Guarded
    <3>3. CASE Set(p, "idle", Ended(m))
      BY <2>3, <3>1, <3>3
    <3> QED BY <2>7, <3>2, <3>3 DEF ProbeLease
  <2>8. CASE RereadLease(p)
    <3>1. lease' = lease /\ pc[p] = "reread"
      BY <2>8 DEF RereadLease, directory
    <3>2. CASE Set(p, "unlink", m)
      <4>1. pc'[p] = "unlink" /\ mem'[p] = m
        BY <3>2, SetEffect
      <4>2. "unlink" \notin UnderLease \union Listed \union Window3 /\ "unlink" # "compact"
        BY StepKinds DEF Reclaiming
      <4>3. lease = m.seen
        BY <1>0, <3>1 DEF Guarded, Reclaiming
      <4> QED BY <2>2, <3>1, <4>1, <4>2, <4>3 DEF Guarded
    <3>3. CASE Set(p, "link", m)
      BY <2>2, <2>4, <3>1, <3>3, GuardOut
    <3> QED BY <2>8, <3>2, <3>3 DEF RereadLease
  <2>9. CASE UnlinkLease(p)
    <3> PICK x : x = [m EXCEPT !.seen = None]
      OBVIOUS
    <3>1. x.active = None /\ x.cleanup = m.cleanup
      BY <1>0, <2>2 DEF Memory
    <3>2. Set(p, "link", x) /\ pc[p] = "unlink"
      BY <2>9 DEF UnlinkLease
    <3>3. lease # p
      BY <2>1, <3>2, GuardFacts DEF Reclaiming, Up
    <3> QED BY <2>2, <2>4, <3>1, <3>2, <3>3, GuardOut
  <2>10. CASE LeaseGone(p)
    BY <2>3, <2>10 DEF LeaseGone, directory
  <2> QED BY <1>3, <2>5, <2>6, <2>7, <2>8, <2>9, <2>10 DEF AcquireLease
<1> QED BY <1>1, <1>2, <1>3 DEF Enters

LEMMA ListsGuarded ==
  ASSUME Local, Exclusive, NEW p \in Proc, Recovers(p) \/ Lists(p)
  PROVE  Guarded(p, pc[p], mem[p])'
<1> PICK m : m = mem[p]
  OBVIOUS
<1>0. m \in Memory /\ ProcOK(p, pc[p], m) /\ Guarded(p, pc[p], m)
  BY MineFacts, GuardFacts
<1>1. pc[p] \in {"recover", "list", "read", "compact", "deliver", "record"} /\ lease' = lease
  BY DEF Recovers, Recover, Lists, RecoverDone, BeginListing, SpoolFailed, ReadDirectory,
     Compact, CompactDone, ReadRecord, StopClosed, Refuse, directory
<1>2. m.active = None /\ ~ m.cleanup /\ lease' = p
  BY <1>0, <1>1 DEF ProcOK, Guarded, UnderLease
<1>3. ASSUME NEW at \in UnderLease \ Listed, NEW x, Set(p, at, x), x.active = m.active, x.cleanup = m.cleanup
      PROVE  Guarded(p, pc[p], mem[p])'
  BY <1>2, <1>3, GuardIn
<1>4. ASSUME NEW at, NEW x, Set(p, at, x), x.active = m.active, x.cleanup = m.cleanup,
             at \in {"compact", "deliver", "record"}, x.list \subseteq files',
             x.covers \intersect files' \subseteq x.list
               \/ (at # "compact" /\ x.closed)
               \/ (at # "compact" /\ \A j \in x.covers \intersect files' :
                                       j \in x.list \/ \A i \in x.list : i < j)
      PROVE  Guarded(p, pc[p], mem[p])'
  <2>1. pc'[p] = at /\ mem'[p] = x
    BY <1>4, SetEffect
  <2>2. at \in Listed /\ at \in UnderLease /\ at \notin Reclaiming /\ ("compact" \notin Window3)
    BY <1>4, StepKinds
  <2> QED BY <1>2, <1>4, <2>1, <2>2 DEF Guarded
<1>5. {"list", "release", "read", "recover"} \subseteq UnderLease \ Listed
  BY StepKinds
<1>6. CASE Recovers(p)
  <2>1. Set(p, "recover", m) \/ \E b : Set(p, "recover", [m EXCEPT !.bad = b])
    BY <1>6 DEF Recovers, Recover
  <2>2. ASSUME NEW b, Set(p, "recover", [m EXCEPT !.bad = b]) PROVE Guarded(p, pc[p], mem[p])'
    <3> PICK x : x = [m EXCEPT !.bad = b]
      OBVIOUS
    <3>1. x.active = m.active /\ x.cleanup = m.cleanup
      BY <1>0 DEF Memory
    <3> QED BY <1>3, <1>5, <2>2, <3>1
  <2> QED BY <1>3, <1>5, <2>1, <2>2
<1>7. CASE RecoverDone(p) \/ SpoolFailed(p) \/ StopClosed(p)
  BY <1>3, <1>5, <1>7 DEF RecoverDone, SpoolFailed, StopClosed
<1>8. CASE BeginListing(p)
  <2> PICK x : x = [m EXCEPT !.covers = Own(p)]
    OBVIOUS
  <2>1. x.active = m.active /\ x.cleanup = m.cleanup
    BY <1>0 DEF Memory
  <2> QED BY <1>3, <1>5, <1>8, <2>1 DEF BeginListing
<1>9. CASE ReadDirectory(p)
  <2> PICK x : x = [m EXCEPT !.list = files]
    OBVIOUS
  <2>1. x.active = m.active /\ x.cleanup = m.cleanup /\ x.list = files
    BY <1>0 DEF Memory
  <2>2. files' = files /\ Set(p, "compact", x)
    BY <1>9 DEF ReadDirectory, directory
  <2> QED BY <1>4, <2>1, <2>2
<1>10. CASE Compact(p)
  <2>1. PICK i : files' = files \ {i} /\ Set(p, "compact", [m EXCEPT !.list = @ \ {i}]) /\ pc[p] = "compact"
    BY <1>10 DEF Compact
  <2> PICK x : x = [m EXCEPT !.list = @ \ {i}]
    OBVIOUS
  <2>2. x.active = m.active /\ x.cleanup = m.cleanup /\ x.list = m.list \ {i} /\ x.covers = m.covers
    BY <1>0 DEF Memory
  <2>3. m.list \subseteq files /\ m.covers \intersect files \subseteq m.list
    BY <1>0, <2>1 DEF Guarded, Listed
  <2> QED BY <1>4, <2>1, <2>2, <2>3
<1>11. CASE CompactDone(p)
  <2> PICK n : n = Cardinality(m.list) + Cardinality(m.bad)
    OBVIOUS
  <2> PICK c : c = [m EXCEPT !.pending = n]
    OBVIOUS
  <2>1. c = Counted(m)
    BY DEF Counted
  <2>2. /\ DOMAIN c = DOMAIN m /\ c.active = m.active /\ c.cleanup = m.cleanup /\ c.list = m.list
        /\ c.covers = m.covers /\ c.writes = m.writes
    BY <1>0 DEF Memory
  <2>3. m.list \subseteq files /\ m.covers \intersect files \subseteq m.list /\ files' = files
    BY <1>0, <1>11 DEF Guarded, Listed, CompactDone, directory
  <2>4. CASE m.list # {}
    <3> PICK w : w = Window(m.list)
      OBVIOUS
    <3> PICK x : x = [c EXCEPT !.list = w]
      OBVIOUS
    <3>1. Set(p, "deliver", x)
      BY <1>11, <2>1, <2>2, <2>4 DEF CompactDone
    <3>2. x.active = m.active /\ x.cleanup = m.cleanup /\ x.list = w /\ x.covers = m.covers
      BY <1>0, <2>2 DEF Memory
    <3>3. w \subseteq m.list /\ \A i \in w : \A j \in m.list \ w : i < j
      <4>1. m.list \in SUBSET DOMAIN jobs
        BY <1>0 DEF ProcOK
      <4> QED BY <2>4, <4>1, WindowFacts
    <3>4. ASSUME NEW j \in x.covers \intersect files' PROVE j \in x.list \/ \A i \in x.list : i < j
      BY <2>3, <3>2, <3>3
    <3>5. x.list \subseteq files'
      BY <2>3, <3>2, <3>3
    <3> QED BY <1>4, <3>1, <3>2, <3>4, <3>5
  <2>5. CASE m.list = {} /\ m.writes # {}
    <3>1. Set(p, "list", m)
      BY <1>11, <2>1, <2>2, <2>5 DEF CompactDone
    <3> QED BY <1>3, <1>5, <3>1
  <2>6. CASE m.list = {} /\ m.writes = {}
    <3> PICK x : x = [c EXCEPT !.drained = (c.bad = {})]
      OBVIOUS
    <3>1. Set(p, "release", x)
      BY <1>11, <2>1, <2>2, <2>6 DEF CompactDone
    <3>2. x.active = m.active /\ x.cleanup = m.cleanup
      BY <1>0, <2>2 DEF Memory
    <3> QED BY <1>3, <1>5, <3>1, <3>2
  <2> QED BY <2>4, <2>5, <2>6
<1>12. CASE Refuse(p)
  <2> PICK i : i = Oldest(m.list)
    OBVIOUS
  <2> PICK n : n = m.pending - 1
    OBVIOUS
  <2> PICK l : l = m.list \ {i}
    OBVIOUS
  <2> PICK x : x = [m EXCEPT !.pending = n, !.list = l]
    OBVIOUS
  <2>1. Done([m EXCEPT !.pending = @ - 1], i) = x
    BY <1>0 DEF Done, Memory
  <2>2. Set(p, NextStep(x), x) /\ files' = files \ {i} /\ pc[p] = "record"
    BY <1>12, <2>1 DEF Refuse
  <2>3. x.active = m.active /\ x.cleanup = m.cleanup /\ x.list = l /\ x.covers = m.covers
        /\ x.closed = m.closed
    BY <1>0 DEF Memory
  <2>4. /\ m.list \subseteq files
        /\ ~ m.closed => \A j \in m.covers \intersect files : j \in m.list \/ \A k \in m.list : k < j
    BY <1>0, <2>2 DEF Guarded, Listed, Window3
  <2>5. CASE NextStep(x) = "list"
    BY <1>3, <1>5, <2>2, <2>3, <2>5
  <2>6. CASE NextStep(x) = "deliver"
    <3>1. x.list \subseteq files'
      BY <2>2, <2>3, <2>4
    <3>2. ASSUME ~ m.closed, NEW j \in x.covers \intersect files'
          PROVE  j \in x.list \/ \A k \in x.list : k < j
      BY <2>2, <2>3, <2>4, <3>2
    <3> QED BY <1>4, <2>2, <2>3, <2>6, <3>1, <3>2
  <2> QED BY <2>5, <2>6 DEF NextStep
<1>13. CASE ReadRecord(p)
  <2>1. Set(p, "record", m) /\ files' = files /\ pc[p] = "deliver" /\ ~ m.closed
    BY <1>13 DEF ReadRecord, directory
  <2>2. /\ m.list \subseteq files
        /\ \A j \in m.covers \intersect files : j \in m.list \/ \A k \in m.list : k < j
    BY <1>0, <2>1 DEF Guarded, Listed, Window3
  <2> QED BY <1>4, <2>1, <2>2
<1> QED BY <1>6, <1>7, <1>8, <1>9, <1>10, <1>11, <1>12, <1>13 DEF Lists


LEMMA DeliversGuarded ==
  ASSUME Local, Exclusive, NEW p \in Proc, Delivers(p)
  PROVE  Guarded(p, pc[p], mem[p])'
<1> PICK m : m = mem[p]
  OBVIOUS
<1>0. m \in Memory /\ ProcOK(p, pc[p], m) /\ Guarded(p, pc[p], m)
  BY MineFacts, GuardFacts
<1>1. pc[p] \in {"record", "rewrite"} /\ lease' = lease /\ files' = files
  BY DEF Delivers, Rewrite, StartDelivery, RewriteDone, directory
<1>2. pc[p] \in UnderLease /\ pc[p] \in Listed /\ pc[p] \in Window3
  BY <1>1 DEF UnderLease, Listed, Window3
<1>3. /\ m.active = None /\ ~ m.cleanup /\ lease' = p /\ m.list # {} /\ m.list \subseteq files
      /\ ~ m.closed => \A j \in m.covers \intersect files : j \in m.list \/ \A i \in m.list : i < j
  BY <1>0, <1>1, <1>2 DEF ProcOK, Guarded
<1>4. CASE Rewrite(p)
  <2>1. pc'[p] = "rewrite" /\ mem'[p] = m
    BY <1>4, SetEffect DEF Rewrite
  <2>2. "rewrite" \in Window3 /\ "rewrite" # "compact" /\ "rewrite" \notin Reclaiming
    BY StepKinds DEF Reclaiming
  <2> QED BY <1>1, <1>3, <2>1, <2>2 DEF Guarded
<1>5. CASE Set(p, "release", m)
  <2>1. "release" \in UnderLease \ Listed
    BY StepKinds
  <2> QED BY <1>3, <1>5, <2>1, GuardIn
<1>6. CASE Set(p, "wait", Delivering(m)) /\ ~ m.closed
  <2> PICK d : d = Delivering(m)
    OBVIOUS
  <2>1. /\ d.active \in m.list /\ (\A j \in m.list : d.active <= j) /\ d.list = m.list
        /\ d.covers = m.covers /\ d.closed = m.closed /\ d.cleanup = m.cleanup
    BY <1>0, <1>3, DeliveringFacts
  <2>2. pc'[p] = "wait" /\ mem'[p] = d
    BY <1>6, SetEffect
  <2>3. "wait" \in UnderLease /\ "wait" # "compact" /\ "wait" \notin Reclaiming
    BY StepKinds DEF Reclaiming
  <2>4. ASSUME NEW j \in d.covers \intersect files' PROVE d.active <= j
    <3>1. j \in Nat /\ d.active \in Nat
      BY <1>0, <2>1, MemoryFacts
    <3>2. j \in m.list \/ d.active < j
      BY <1>1, <1>3, <1>6, <2>1
    <3> QED BY <2>1, <3>1, <3>2
  <2> QED BY <1>1, <1>3, <2>1, <2>2, <2>3, <2>4 DEF Guarded
<1> QED BY <1>4, <1>5, <1>6 DEF Delivers, StartDelivery, RewriteDone

LEMMA SettleGuarded ==
  ASSUME Local, Exclusive, NEW p \in Proc, NEW ok \in BOOLEAN, NEW x \in Memory, Settle(p, ok, x),
         lease' = lease, mem[p].active # None,
         x.active = mem[p].active, x.list = mem[p].list, x.covers = mem[p].covers,
         x.cleanup = mem[p].cleanup, x.closed = mem[p].closed,
         files' = files \/ files' = files \ {x.active},
         ok => x.closed \/ files' = files \ {x.active}, ~ ok => files' = files
  PROVE  Guarded(p, pc[p], mem[p])'
<1> PICK m : m = mem[p]
  OBVIOUS
<1>0. m \in Memory /\ ProcOK(p, pc[p], m) /\ Guarded(p, pc[p], m)
  BY MineFacts, GuardFacts
<1>1. pc[p] \in {"wait", "idle"} /\ lease' = p /\ m.active \in files
  BY <1>0 DEF ProcOK, Guarded
<1>2. /\ mem'[p].active = None /\ mem'[p].covers = m.covers
      /\ mem'[p].cleanup = m.cleanup /\ mem'[p].closed = m.closed
      /\ \/ pc[p] # "wait" /\ pc'[p] = pc[p] /\ mem'[p].list = m.list
         \/ pc[p] = "wait" /\ ok /\ mem'[p].list = m.list \ {m.active}
            /\ pc'[p] = IF mem'[p].list = {} THEN "list" ELSE "deliver"
         \/ pc[p] = "wait" /\ ~ ok /\ mem'[p].list = m.list /\ pc'[p] = "release"
  BY SettleEffect
<1>3. /\ {"list", "release"} \subseteq UnderLease \ Listed
      /\ "deliver" \in Window3 /\ "deliver" # "compact" /\ "deliver" \notin Reclaiming
      /\ "idle" \notin UnderLease \union Reclaiming \union Listed \union Window3
      /\ {"list", "release"} \intersect (Window3 \union Reclaiming) = {}
      /\ "wait" \in UnderLease /\ "wait" \in Listed /\ "wait" \in Window3
  BY StepKinds
<1>4. CASE pc[p] = "idle"
  BY <1>1, <1>2, <1>3, <1>4 DEF Guarded
<1>5. CASE pc[p] = "wait" /\ pc'[p] \in {"list", "release"}
  <2>1. ~ m.cleanup
    BY <1>0, <1>3, <1>5 DEF Guarded
  <2>2. pc'[p] \notin Listed \union Window3 \union Reclaiming \union {"compact"}
    BY <1>3, <1>5
  <2> QED BY <1>1, <1>2, <2>1, <2>2 DEF Guarded
<1>6. CASE pc[p] = "wait" /\ pc'[p] = "deliver"
  <2>1. ok /\ mem'[p].list = m.list \ {m.active}
    BY <1>2, <1>6
  <2>2. /\ ~ m.cleanup /\ m.list \subseteq files
        /\ ~ m.closed => \A j \in m.covers \intersect files : j \in m.list \/ \A i \in m.list : i < j
    BY <1>0, <1>3, <1>6 DEF Guarded
  <2>3. mem'[p].list \subseteq files'
    BY <2>1, <2>2
  <2>4. ASSUME ~ m.closed, NEW j \in m.covers \intersect files'
        PROVE  j \in mem'[p].list \/ \A i \in mem'[p].list : i < j
    <3>1. j \in files /\ j # m.active
      BY <2>1, <2>4
    <3> QED BY <2>1, <2>2, <2>4, <3>1
  <2> QED BY <1>1, <1>2, <1>3, <1>6, <2>2, <2>3, <2>4 DEF Guarded
<1> QED BY <1>1, <1>2, <1>4, <1>5, <1>6

LEMMA HandlesGuarded ==
  ASSUME Local, Exclusive, NEW p \in Proc, Handles(p)
  PROVE  Guarded(p, pc[p], mem[p])'
<1> PICK m : m = mem[p]
  OBVIOUS
<1>0. m \in Memory /\ ProcOK(p, pc[p], m)
  BY MineFacts
<1>1. lease' = lease /\ m.active # None
  <2>1. lease' = lease /\ m.stage # "none"
    BY DEF Handles, HandlerTakesEffect, HandlerSucceeds, HandlerFails, RemoveDelivered, RemoveFails, directory
  <2> QED BY <1>0, <2>1 DEF ProcOK
<1>2. ASSUME NEW s, Set(p, pc[p], [m EXCEPT !.stage = s]), files' = files
      PROVE  Guarded(p, pc[p], mem[p])'
  <2> PICK x : x = [m EXCEPT !.stage = s]
    OBVIOUS
  <2>1. /\ x.list = m.list /\ x.covers = m.covers /\ x.active = m.active
        /\ x.seen = m.seen /\ x.cleanup = m.cleanup /\ x.closed = m.closed
    BY <1>0 DEF Memory
  <2> QED BY <1>1, <1>2, <2>1, GuardSame
<1>3. CASE HandlerTakesEffect(p)
  BY <1>2, <1>3 DEF HandlerTakesEffect, directory
<1>4. CASE HandlerSucceeds(p)
  <2>1. files' = files
    BY <1>4 DEF HandlerSucceeds, directory
  <2>2. Set(p, pc[p], [m EXCEPT !.stage = "removing"]) \/ (m.closed /\ Settle(p, TRUE, m))
    BY <1>4 DEF HandlerSucceeds, MayAcknowledge
  <2> QED BY <1>0, <1>1, <1>2, <2>1, <2>2, SettleGuarded
<1>5. CASE HandlerFails(p) \/ RemoveFails(p)
  <2>1. files' = files /\ Settle(p, FALSE, m)
    BY <1>5 DEF HandlerFails, RemoveFails, directory
  <2> QED BY <1>0, <1>1, <2>1, SettleGuarded
<1>6. CASE RemoveDelivered(p)
  <2> PICK n : n = IF m.pending = 0 THEN 0 ELSE m.pending - 1
    OBVIOUS
  <2> PICK x : x = [m EXCEPT !.pending = n]
    OBVIOUS
  <2>1. n \in Nat
    BY <1>0, MemoryFacts
  <2>2. x \in Memory
    BY <1>0, <2>1 DEF Memory
  <2>3. /\ x.list = m.list /\ x.covers = m.covers /\ x.active = m.active
        /\ x.cleanup = m.cleanup /\ x.closed = m.closed
    BY <1>0 DEF Memory
  <2>4. Settle(p, TRUE, x) /\ files' = files \ {m.active}
    BY <1>6 DEF RemoveDelivered
  <2> QED BY <1>1, <2>2, <2>3, <2>4, SettleGuarded
<1> QED BY <1>3, <1>4, <1>5, <1>6 DEF Handles

LEMMA LeaveGuarded ==
  ASSUME Local, Exclusive, NEW p \in Proc, NEW x \in Memory, Leave(p, x), pc[p] = "wait",
         lease' = lease, files' = files, x.active = mem[p].active
  PROVE  Guarded(p, pc[p], mem[p])'
<1> PICK y : y = [x EXCEPT !.cleanup = TRUE]
  OBVIOUS
<1> PICK e : e = Ended(y)
  OBVIOUS
<1>0. ProcOK(p, pc[p], mem[p]) /\ Guarded(p, pc[p], mem[p])
  BY MineFacts, GuardFacts
<1>1. x.active # None /\ lease' = p /\ x.active \in files'
  BY <1>0, RecordFacts DEF ProcOK, Guarded, UnderLease
<1>2. y \in Memory /\ y.active = x.active /\ y.cleanup = TRUE
  BY DEF Memory
<1>3. e.active = x.active /\ e.cleanup = TRUE /\ e.covers = {}
  BY <1>2, EndedFacts
<1>4. Set(p, "idle", e)
  BY <1>1 DEF Leave, LeaveLease
<1>5. pc'[p] = "idle" /\ mem'[p] = e
  BY <1>4, SetEffect
<1>6. "idle" \notin UnderLease \union Reclaiming \union Listed \union Window3
  BY StepKinds
<1> QED BY <1>1, <1>3, <1>5, <1>6 DEF Guarded

LEMMA StopsGuarded ==
  ASSUME Local, Exclusive, NEW p \in Proc, Stops(p)
  PROVE  Guarded(p, pc[p], mem[p])'
<1> PICK m : m = mem[p]
  OBVIOUS
<1>0. m \in Memory /\ ProcOK(p, pc[p], m) /\ Guarded(p, pc[p], m) /\ files' = files
  BY MineFacts, GuardFacts DEF Stops, Abort, Dispose, Release, ReleaseLate, FlushFails, directory
<1>1. CASE Abort(p)
  BY <1>0, <1>1, LeaveGuarded DEF Abort, directory
<1>2. CASE Dispose(p)
  <2> PICK x : x = [m EXCEPT !.closed = TRUE, !.timer = FALSE]
    OBVIOUS
  <2>1. x \in Memory
    BY <1>0 DEF Memory
  <2>2. /\ x.list = m.list /\ x.covers = m.covers /\ x.active = m.active
        /\ x.seen = m.seen /\ x.cleanup = m.cleanup /\ x.closed
    BY <1>0 DEF Memory
  <2>3. lease' = lease
    BY <1>2 DEF Dispose, directory
  <2>4. CASE pc[p] = "wait"
    <3>1. Leave(p, x)
      BY <1>2, <2>4 DEF Dispose
    <3> QED BY <1>0, <2>1, <2>2, <2>3, <2>4, <3>1, LeaveGuarded
  <2>5. CASE pc[p] # "wait"
    <3>1. Set(p, pc[p], x)
      BY <1>2, <2>5 DEF Dispose
    <3> QED BY <1>0, <2>2, <2>3, <3>1, GuardSame
  <2> QED BY <2>4, <2>5
<1>3. CASE Release(p)
  <2>1. pc[p] = "release" /\ Set(p, "idle", Ended(m))
    BY <1>3 DEF Release
  <2>2. m.active = None /\ ~ m.cleanup
    BY <1>0, <2>1, StepKinds DEF ProcOK, Guarded
  <2> QED BY <1>0, <2>1, <2>2, GuardEnd
<1>4. CASE ReleaseLate(p)
  <2> PICK x : x = [m EXCEPT !.cleanup = FALSE]
    OBVIOUS
  <2>1. x.cleanup = FALSE /\ x.active = m.active
    BY <1>0 DEF Memory
  <2>2. m.cleanup /\ m.active = None /\ Set(p, pc[p], x) /\ Up(p)
    BY <1>4 DEF ReleaseLate
  <2>3. lease = p /\ pc[p] \notin UnderLease
    BY <1>0, <2>2 DEF Guarded
  <2>4. pc[p] \notin Reclaiming
    BY <2>2, <2>3, GuardFacts DEF Up
  <2> QED BY <2>1, <2>2, <2>3, <2>4, GuardOut
<1>5. CASE FlushFails(p)
  <2>1. CASE pc[p] \in {"link", "probe", "reread", "unlink"} /\ Set(p, "idle", Ended(m))
    <3>1. m.active = None /\ (m.cleanup => lease = p) /\ lease' = lease
      BY <1>0, <1>5, <2>1 DEF ProcOK, Guarded, FlushFails
    <3> QED BY <1>0, <2>1, <3>1, GuardEnd
  <2>2. CASE pc[p] \in {"recover", "read", "compact", "deliver", "record", "rewrite"} /\ Set(p, "release", m)
    <3>1. pc[p] \in UnderLease
      BY <2>2 DEF UnderLease
    <3>2. m.active = None /\ ~ m.cleanup /\ lease = p /\ lease' = lease
      BY <1>0, <1>5, <2>2, <3>1 DEF ProcOK, Guarded, FlushFails
    <3>3. "release" \in UnderLease \ Listed
      BY StepKinds
    <3> QED BY <2>2, <3>2, <3>3, GuardIn
  <2> QED BY <1>5, <2>1, <2>2 DEF FlushFails
<1> QED BY <1>1, <1>2, <1>3, <1>4, <1>5 DEF Stops

-----------------------------------------------------------------------------
(* The lease is exclusive as long as there is one reclaimer at a time.     *)

LEMMA ExclusiveInit == Init => Exclusive
<1> SUFFICES ASSUME Init, NEW p \in Proc PROVE Guarded(p, pc[p], mem[p])
  BY DEF Exclusive
<1>1. pc[p] = "idle" /\ mem[p] = Fresh
  BY DEF Init
<1> QED BY <1>1, FreshFacts, StepKinds DEF Guarded

LEMMA ExclusiveNext == Local /\ Exclusive /\ OneReclaimer /\ [Next]_vars => Exclusive'
<1> SUFFICES ASSUME Local, Exclusive, OneReclaimer, [Next]_vars, NEW p \in Proc
             PROVE  Guarded(p, pc[p], mem[p])'
  BY DEF Exclusive
<1>1. ASSUME UNCHANGED <<directory, processes>> PROVE Guarded(p, pc[p], mem[p])'
  <2>1. files' = files /\ lease' = lease /\ pc' = pc /\ mem' = mem
    BY <1>1 DEF directory, processes
  <2> QED BY <2>1, GuardFacts DEF Guarded
<1>2. CASE UNCHANGED vars
  BY <1>1, <1>2 DEF vars
<1>3. CASE Age
  BY <1>1, <1>3 DEF Age
<1>4. ASSUME NEW q \in Proc, Moves(q), q # p PROVE Guarded(p, pc[p], mem[p])'
  BY <1>4, OthersGuarded
<1>5. ASSUME Moves(p) PROVE Guarded(p, pc[p], mem[p])'
  BY <1>5, StartsGuarded, AcceptsGuarded, SpoolGuarded, EntersGuarded, ListsGuarded,
     DeliversGuarded, HandlesGuarded, StopsGuarded DEF Moves
<1> QED BY <1>2, <1>3, <1>4, <1>5, NextMoves

\* What the lease protects is protected as long as no two processes reclaim an
\* abandoned lease at the same time (src/src/hook-queue.ts lines 154-182).
THEOREM ExclusiveInvariance == Spec /\ []OneReclaimer => []Exclusive
BY LocalInvariance, ExclusiveInit, ExclusiveNext, PTL DEF Spec


LEMMA ConsumerAlone == Local /\ Exclusive => OneConsumer /\ OwnOrder
<1> SUFFICES ASSUME Local, Exclusive PROVE OneConsumer /\ OwnOrder
  OBVIOUS
<1>1. OneConsumer
  BY GuardFacts DEF OneConsumer
<1>2. ASSUME NEW p \in Proc, mem[p].active # None, NEW j \in mem[p].covers \intersect Unsent(p)
      PROVE  mem[p].active <= j
  <2>1. mem[p].covers \intersect (mem[p].writes \union mem[p].failed) = {}
    BY MineFacts DEF ProcOK
  <2>2. j \in mem[p].covers \intersect files
    BY <1>2, <2>1 DEF Unsent
  <2> QED BY <1>2, <2>2, GuardFacts DEF Guarded
<1> QED BY <1>1, <1>2 DEF OwnOrder

\* As long as no two processes reclaim an abandoned lease at once, at most one
\* process lists, compacts or delivers: "A process lease prevents simultaneous
\* replay of one durable queue" (src/src/hook-queue.ts:153).
THEOREM Exclusion == Spec /\ []OneReclaimer => []OneConsumer
BY LocalInvariance, ExclusiveInvariance, ConsumerAlone, PTL

\* Under the same condition a record never overtakes one its process accepted
\* before the listing began, also when spools fail, are retried or finish out
\* of order (src/src/hook-queue.ts lines 271-306).
THEOREM Order == Spec /\ []OneReclaimer => []OwnOrder
BY LocalInvariance, ExclusiveInvariance, ConsumerAlone, PTL

-----------------------------------------------------------------------------
(* What a successful drain and a compaction mean.                          *)

\* Only the end of a listing reports the queue drained.
LEMMA DrainStep ==
  ASSUME Local, Exclusive, NEW p \in Proc, Moves(p), Drained(p)
  PROVE  mem[p].covers \intersect Unsent(p) = {}
<1> PICK m : m = mem[p]
  OBVIOUS
<1>0. m \in Memory /\ ProcOK(p, pc[p], m) /\ Guarded(p, pc[p], m)
  BY MineFacts, GuardFacts
<1>1. SUFFICES ASSUME ~ (CompactDone(p) /\ m.list = {}) PROVE mem'[p].drained => m.drained
  <2>1. ~ m.drained /\ mem'[p].drained
    BY DEF Drained
  <2>2. CompactDone(p) /\ m.list = {} => m.covers \intersect Unsent(p) = {}
    <3>1. CompactDone(p) => pc[p] = "compact"
      BY DEF CompactDone
    <3> QED BY <1>0, <3>1 DEF Guarded, ProcOK, Unsent
  <2> QED BY <2>1, <2>2
<1> DEFINE Silent(x) == x.drained => m.drained
<1>2. ASSUME NEW at, NEW x, Set(p, at, x), x.drained => m.drained PROVE Silent(mem'[p])
  <2>1. mem'[p] = x
    BY <1>2, SetEffect
  <2> QED BY <1>2, <2>1
<1>3. ASSUME NEW x \in Memory, x.drained => m.drained, Flush(p, x) PROVE Silent(mem'[p])
  <2>1. mem'[p] = x \/ mem'[p] = Flushing(x)
    BY <1>3, FlushEffect
  <2> PICK e : e = Flushing(x)
    OBVIOUS
  <2>2. ~ e.drained
    BY FlushingFacts
  <2> QED BY <1>3, <2>1, <2>2
<1>4. ASSUME NEW at, NEW x \in Memory, Set(p, at, Ended(x)) PROVE Silent(mem'[p])
  <2> PICK e : e = Ended(x)
    OBVIOUS
  <2>1. ~ e.drained
    BY EndedFacts
  <2> QED BY <1>2, <1>4, <2>1
<1>5. ASSUME NEW ok \in BOOLEAN, NEW x \in Memory, Settle(p, ok, x), x.drained => m.drained
      PROVE  Silent(mem'[p])
  <2>1. mem'[p].drained = x.drained
    BY <1>5, SettleEffect
  <2> QED BY <1>5, <2>1
<1>6. ASSUME NEW x \in Memory, Leave(p, x), x.drained => m.drained PROVE Silent(mem'[p])
  <2>1. CASE x.active = None
    BY <1>2, <1>6, <2>1 DEF Leave, LeaveLease
  <2>2. CASE x.active # None
    <3> PICK y : y = [x EXCEPT !.cleanup = TRUE]
      OBVIOUS
    <3>1. y \in Memory
      BY DEF Memory
    <3>2. Set(p, "idle", Ended(y))
      BY <1>6, <2>2 DEF Leave, LeaveLease
    <3> QED BY <1>4, <3>1, <3>2
  <2> QED BY <2>1, <2>2
<1>7. CASE Starts(p)
  <2>1. CASE Start(p)
    BY <2>1 DEF Start
  <2>2. CASE Die(p)
    <3>1. mem'[p] = Fresh
      BY <2>2 DEF Die, Local
    <3> QED BY <3>1, FreshFacts
  <2> QED BY <1>7, <2>1, <2>2 DEF Starts
<1>8. CASE Accepts(p)
  <2>1. PICK k \in Key, now \in BOOLEAN : Enqueue(p, k, now)
    BY <1>8 DEF Accepts
  <2> PICK n : n = m.pending + 1
    OBVIOUS
  <2> PICK w : w = m.writes \union {Len(jobs) + 1}
    OBVIOUS
  <2> PICK x : x = [m EXCEPT !.pending = @ + 1, !.writes = @ \union {Len(jobs) + 1}]
    OBVIOUS
  <2>2. n \in Nat /\ w \in SUBSET Nat
    BY <1>0, MemoryFacts, RecordFacts
  <2>3. PICK y \in Memory : y = [m EXCEPT !.pending = n]
    <3>1. [m EXCEPT !.pending = n] \in Memory
      BY <1>0, <2>2 DEF Memory
    <3> QED BY <3>1
  <2>4. [y EXCEPT !.writes = w] \in Memory
    BY <2>2 DEF Memory
  <2>5. x \in Memory /\ x.drained = m.drained
    BY <1>0, <2>3, <2>4 DEF Memory
  <2>6. Flush(p, x) \/ Set(p, pc[p], Scheduled(x))
    BY <2>1 DEF Enqueue
  <2> PICK e : e = Scheduled(x)
    OBVIOUS
  <2>7. e.drained = x.drained
    <3>1. x \in Memory /\ e = Scheduled(x)
      BY <2>5
    <3> QED BY ONLY <3>1, ScheduledSame
  <2> QED BY <1>2, <1>3, <2>5, <2>6, <2>7
<1>9. CASE WritesTemp(p)
  <2>1. mem' = mem
    BY <1>9 DEF WritesTemp, CreateTemp, SyncTemp, processes
  <2> QED BY <2>1
<1>10. CASE Publishes(p)
  <2>1. PICK w, f : Set(p, pc[p], [m EXCEPT !.writes = w, !.failed = f])
    BY <1>10 DEF Publishes, PublishSpool, SpoolFails
  <2>2. PICK x : x = [m EXCEPT !.writes = w, !.failed = f]
    OBVIOUS
  <2>3. x.drained = m.drained
    BY <1>0, <2>2 DEF Memory
  <2> QED BY <1>2, <2>1, <2>2, <2>3
<1>11. CASE CallFlush(p) \/ TimerFires(p)
  <2> PICK x : x = [m EXCEPT !.timer = FALSE]
    OBVIOUS
  <2>1. x \in Memory /\ x.drained = m.drained
    BY <1>0 DEF Memory
  <2>2. Flush(p, m) \/ Flush(p, x)
    BY <1>11 DEF CallFlush, TimerFires
  <2> QED BY <1>0, <1>3, <2>1, <2>2
<1>12. CASE AwaitWrites(p) \/ AcquireLease(p)
  <2>1. \/ Set(p, "idle", Ended(m))
        \/ \E at : Set(p, at, m)
        \/ \E at, n : Set(p, at, [m EXCEPT !.tries = n])
        \/ \E at, s : Set(p, at, [m EXCEPT !.seen = s])
    BY <1>12 DEF AwaitWrites, AcquireLease, LinkLease, ProbeLease, RereadLease, UnlinkLease, LeaseGone
  <2>2. ASSUME NEW at, NEW n, Set(p, at, [m EXCEPT !.tries = n]) PROVE Silent(mem'[p])
    <3> PICK x : x = [m EXCEPT !.tries = n]
      OBVIOUS
    <3>1. x.drained = m.drained
      BY <1>0 DEF Memory
    <3> QED BY <1>2, <2>2, <3>1
  <2>3. ASSUME NEW at, NEW s, Set(p, at, [m EXCEPT !.seen = s]) PROVE Silent(mem'[p])
    <3> PICK x : x = [m EXCEPT !.seen = s]
      OBVIOUS
    <3>1. x.drained = m.drained
      BY <1>0 DEF Memory
    <3> QED BY <1>2, <2>3, <3>1
  <2> QED BY <1>0, <1>2, <1>4, <2>1, <2>2, <2>3
<1>13. CASE Recovers(p)
  <2>1. Set(p, "recover", m) \/ \E b : Set(p, "recover", [m EXCEPT !.bad = b])
    BY <1>13 DEF Recovers, Recover
  <2>2. ASSUME NEW b, Set(p, "recover", [m EXCEPT !.bad = b]) PROVE Silent(mem'[p])
    <3> PICK x : x = [m EXCEPT !.bad = b]
      OBVIOUS
    <3>1. x.drained = m.drained
      BY <1>0 DEF Memory
    <3> QED BY <1>2, <2>2, <3>1
  <2> QED BY <1>2, <2>1, <2>2
<1>14. CASE Lists(p)
  <2>1. \/ \E at : Set(p, at, m)
        \/ \E at, c : Set(p, at, [m EXCEPT !.covers = c])
        \/ \E at, l : Set(p, at, [m EXCEPT !.list = l])
        \/ \E at, n, l : Set(p, at, [m EXCEPT !.pending = n, !.list = l])
    <3>1. CASE CompactDone(p)
      <4> PICK n : n = Cardinality(m.list) + Cardinality(m.bad)
        OBVIOUS
      <4> PICK c : c = [m EXCEPT !.pending = n]
        OBVIOUS
      <4>1. c = Counted(m) /\ c.list = m.list
        BY <1>0 DEF Counted, Memory
      <4>2. m.list # {}
        BY <1>1, <3>1
      <4>3. PICK l : Set(p, "deliver", [c EXCEPT !.list = l])
        BY <3>1, <4>1, <4>2 DEF CompactDone
      <4>4. [c EXCEPT !.list = l] = [m EXCEPT !.pending = n, !.list = l]
        BY <1>0 DEF Memory
      <4> QED BY <4>3, <4>4
    <3>2. CASE Refuse(p)
      <4> PICK i : i = Oldest(m.list)
        OBVIOUS
      <4> PICK n : n = m.pending - 1
        OBVIOUS
      <4> PICK l : l = m.list \ {i}
        OBVIOUS
      <4>1. Done([m EXCEPT !.pending = @ - 1], i) = [m EXCEPT !.pending = n, !.list = l]
        BY <1>0 DEF Done, Memory
      <4>2. \E at : Set(p, at, [m EXCEPT !.pending = n, !.list = l])
        BY <3>2, <4>1 DEF Refuse
      <4> QED BY <4>2
    <3> QED BY <1>14, <3>1, <3>2 DEF Lists, RecoverDone, BeginListing, SpoolFailed, ReadDirectory, Compact,
       ReadRecord, StopClosed
  <2>2. ASSUME NEW at, NEW c, Set(p, at, [m EXCEPT !.covers = c]) PROVE Silent(mem'[p])
    <3> PICK x : x = [m EXCEPT !.covers = c]
      OBVIOUS
    <3>1. x.drained = m.drained
      BY <1>0 DEF Memory
    <3> QED BY <1>2, <2>2, <3>1
  <2>3. ASSUME NEW at, NEW l, Set(p, at, [m EXCEPT !.list = l]) PROVE Silent(mem'[p])
    <3> PICK x : x = [m EXCEPT !.list = l]
      OBVIOUS
    <3>1. x.drained = m.drained
      BY <1>0 DEF Memory
    <3> QED BY <1>2, <2>3, <3>1
  <2>4. ASSUME NEW at, NEW n, NEW l, Set(p, at, [m EXCEPT !.pending = n, !.list = l])
        PROVE  Silent(mem'[p])
    <3> PICK x : x = [m EXCEPT !.pending = n, !.list = l]
      OBVIOUS
    <3>1. x.drained = m.drained
      BY <1>0 DEF Memory
    <3> QED BY <1>2, <2>4, <3>1
  <2> QED BY <1>2, <2>1, <2>2, <2>3, <2>4
<1>15. CASE Delivers(p)
  <2> PICK d : d = Delivering(m)
    OBVIOUS
  <2>1. (\E at : Set(p, at, m)) \/ Set(p, "wait", d)
    BY <1>15 DEF Delivers, Rewrite, StartDelivery, RewriteDone
  <2>2. d.drained = m.drained
    BY <1>0 DEF Delivering, Memory
  <2> QED BY <1>2, <2>1, <2>2
<1>16. CASE Handles(p)
  <2>1. ASSUME NEW s, Set(p, pc[p], [m EXCEPT !.stage = s]) PROVE Silent(mem'[p])
    <3> PICK x : x = [m EXCEPT !.stage = s]
      OBVIOUS
    <3>1. x.drained = m.drained
      BY <1>0 DEF Memory
    <3> QED BY <1>2, <2>1, <3>1
  <2>2. CASE HandlerTakesEffect(p) \/ HandlerSucceeds(p) \/ HandlerFails(p) \/ RemoveFails(p)
    BY <1>0, <1>5, <2>1, <2>2 DEF HandlerTakesEffect, HandlerSucceeds, HandlerFails, RemoveFails
  <2>3. CASE RemoveDelivered(p)
    <3> PICK n : n = IF m.pending = 0 THEN 0 ELSE m.pending - 1
      OBVIOUS
    <3> PICK x : x = [m EXCEPT !.pending = n]
      OBVIOUS
    <3>1. n \in Nat
      BY <1>0, MemoryFacts
    <3>2. x \in Memory /\ x.drained = m.drained
      BY <1>0, <3>1 DEF Memory
    <3>3. Settle(p, TRUE, x)
      BY <2>3 DEF RemoveDelivered
    <3> QED BY <1>5, <3>2, <3>3
  <2> QED BY <1>16, <2>2, <2>3 DEF Handles
<1>17. CASE Stops(p)
  <2>1. CASE Abort(p)
    BY <1>0, <1>6, <2>1 DEF Abort
  <2>2. CASE Dispose(p)
    <3> PICK x : x = [m EXCEPT !.closed = TRUE, !.timer = FALSE]
      OBVIOUS
    <3>1. x \in Memory /\ x.drained = m.drained
      BY <1>0 DEF Memory
    <3>2. Leave(p, x) \/ Set(p, pc[p], x)
      BY <2>2 DEF Dispose
    <3> QED BY <1>2, <1>6, <3>1, <3>2
  <2>3. CASE Release(p)
    BY <1>0, <1>4, <2>3 DEF Release
  <2>4. CASE ReleaseLate(p)
    <3> PICK x : x = [m EXCEPT !.cleanup = FALSE]
      OBVIOUS
    <3>1. x.drained = m.drained
      BY <1>0 DEF Memory
    <3> QED BY <1>2, <2>4, <3>1 DEF ReleaseLate
  <2>5. CASE FlushFails(p)
    BY <1>0, <1>2, <1>4, <2>5 DEF FlushFails
  <2> QED BY <1>17, <2>1, <2>2, <2>3, <2>4, <2>5 DEF Stops
<1> QED BY <1>7, <1>8, <1>9, <1>10, <1>11, <1>12, <1>13, <1>14, <1>15, <1>16, <1>17 DEF Moves, Enters

\* A flush that reports the queue drained has removed every record its process
\* accepted before the last listing began, as long as no two processes reclaim
\* a lease at once (src/src/hook-queue.ts lines 281-290).
THEOREM Drain == Spec /\ []OneReclaimer => DrainCovers
<1>1. Local /\ Exclusive /\ [Next]_vars =>
        [\A p \in Proc : Drained(p) => mem[p].covers \intersect Unsent(p) = {}]_vars
  <2> SUFFICES ASSUME Local, Exclusive, Next, NEW p \in Proc, Drained(p)
               PROVE  mem[p].covers \intersect Unsent(p) = {}
    OBVIOUS
  <2>1. mem'[p] # mem[p]
    BY DEF Drained
  <2>2. ~ Age
    BY <2>1 DEF Age, processes
  <2>3. ASSUME NEW q \in Proc, Moves(q) PROVE q = p
    BY <2>1, <2>3, Alone
  <2>4. Moves(p)
    BY <2>2, <2>3, NextMoves
  <2> QED BY <2>4, DrainStep
<1> QED BY <1>1, LocalInvariance, ExclusiveInvariance, PTL DEF Spec, DrainCovers


-----------------------------------------------------------------------------
(* What is removed.                                                        *)

\* What a compaction removes is listed, expired, in excess, or followed in the
\* listing by a newer snapshot of its session.
LEMMA CompactFacts ==
  ASSUME Local, Exclusive, NEW p \in Proc, Compact(p)
  PROVE  \E i \in files :
           /\ files' = files \ {i} /\ i \in DOMAIN jobs
           /\ UNCHANGED <<cutoff, jobs, handled>>
           /\ lease = p /\ mem[p].list \subseteq files
           /\ mem[p].covers \intersect files \subseteq mem[p].list
           /\ \/ i <= cutoff
              \/ Size(files) > MaxBytes
              \/ \E j \in mem[p].list :
                   /\ i < j /\ KeyOf(i) = KeyOf(j) /\ KeyOf(i) # Hook
                   /\ \A b \in mem[p].list : i < b => j <= b
<1> PICK L : L = mem[p].list
  OBVIOUS
<1>1. PICK i \in Doomed(L) :
        /\ i \in files /\ files' = files \ {i} /\ UNCHANGED <<cutoff, jobs, handled>>
        /\ pc[p] = "compact"
  BY DEF Compact
<1>2. lease = p /\ L \subseteq files /\ mem[p].covers \intersect files \subseteq L
  BY <1>1, GuardFacts, StepKinds DEF Guarded
<1>3. L \in SUBSET DOMAIN jobs /\ files \in SUBSET DOMAIN jobs /\ L \subseteq Nat
  BY <1>2, RecordFacts DEF Local, Globals
<1>4. i \in L /\ (i \in Stale(L) \/ i \in Old(L) \/ Size(L) > MaxBytes)
  BY <1>3, DoomedFacts
<1>5. CASE i \in Old(L)
  BY <1>1, <1>2, <1>3, <1>4, <1>5 DEF Old
<1>6. CASE Size(L) > MaxBytes
  <2> PICK H : H = {j \in L : KeyOf(j) \in Heavy}
    OBVIOUS
  <2> PICK G : G = {j \in files : KeyOf(j) \in Heavy}
    OBVIOUS
  <2>1. H \subseteq G /\ G \in SUBSET DOMAIN jobs /\ H \in SUBSET DOMAIN jobs
    BY <1>2, <1>3
  <2>2. IsFiniteSet(files) /\ Cardinality(files) \in Nat
    BY <1>3, ListFacts
  <2>3. IsFiniteSet(G) /\ Cardinality(G) \in Nat
    BY <2>1, ListFacts
  <2>4. Cardinality(L) \in Nat /\ Cardinality(H) \in Nat
    <3>1. Cardinality(L) \in Nat
      BY <1>3, ListFacts
    <3>2. Cardinality(H) \in Nat
      BY <2>1, ListFacts
    <3> QED BY <3>1, <3>2
  <2>5. Cardinality(L) <= Cardinality(files)
    BY ONLY <1>2, <2>2, FS_Subset
  <2>6. Cardinality(H) <= Cardinality(G)
    BY ONLY <2>1, <2>3, FS_Subset
  <2>7. Size(L) = Cardinality(L) + Cardinality(H) /\ Size(files) = Cardinality(files) + Cardinality(G)
    BY DEF Size
  <2>8. Size(files) > MaxBytes
    BY <1>6, <2>2, <2>3, <2>4, <2>5, <2>6, <2>7, QueueAssumption
  <2> QED BY <1>1, <1>2, <1>3, <1>4, <2>8
<1>7. CASE i \in Stale(L)
  <2> PICK A : A = {j \in L : i < j}
    OBVIOUS
  <2> PICK j : j = Oldest(A)
    OBVIOUS
  <2>1. A # {} /\ KeyOf(i) # Hook /\ KeyOf(j) = KeyOf(i)
    BY <1>7 DEF Stale, Following
  <2>2. A \in SUBSET Nat
    BY <1>3
  <2>3. j \in A /\ \A b \in A : j <= b
    BY <2>1, <2>2, OldestFacts
  <2>4. j \in L /\ i < j /\ \A b \in L : i < b => j <= b
    BY <2>3
  <2> QED BY <1>1, <1>2, <1>3, <1>4, <2>1, <2>4
<1> QED BY <1>4, <1>5, <1>6, <1>7

\* A step that removes a record compacts, refuses it or has delivered it.
LEMMA RemovalStep ==
  ASSUME Local, Exclusive, Next, NEW i \in files \ files'
  PROVE  Justified(i, files \intersect UNION {mem[p].covers : p \in Proc})
<1>1. ~ Age
  BY DEF Age, directory
<1>2. PICK p \in Proc : Moves(p)
  BY <1>1, NextMoves
<1>3. Compact(p) \/ Refuse(p) \/ RemoveDelivered(p)
  <2>1. ASSUME Publishes(p) \/ Recovers(p) PROVE files \subseteq files'
    BY <2>1 DEF Publishes, PublishSpool, SpoolFails, Recovers, Recover
  <2> QED BY <1>2, <2>1, FilesEffect
<1>4. CASE Compact(p)
  <2>1. PICK k \in files :
           /\ files' = files \ {k} /\ k \in DOMAIN jobs
           /\ lease = p /\ mem[p].list \subseteq files
           /\ mem[p].covers \intersect files \subseteq mem[p].list
           /\ \/ k <= cutoff
              \/ Size(files) > MaxBytes
              \/ \E j \in mem[p].list :
                   /\ k < j /\ KeyOf(k) = KeyOf(j) /\ KeyOf(k) # Hook
                   /\ \A b \in mem[p].list : k < b => j <= b
    BY <1>4, CompactFacts
  <2>2. k = i
    BY <2>1
  <2>3. CASE k <= cutoff \/ Size(files) > MaxBytes
    BY <2>2, <2>3 DEF Justified
  <2>4. ASSUME NEW j \in mem[p].list, k < j, KeyOf(k) = KeyOf(j),
               \A b \in mem[p].list : k < b => j <= b
        PROVE  Justified(i, files \intersect UNION {mem[q].covers : q \in Proc})
    <3>1. ASSUME NEW b \in files \intersect UNION {mem[q].covers : q \in Proc}, i < b, b < j
          PROVE  FALSE
      <4>1. PICK q \in Proc : b \in mem[q].covers
        BY <3>1
      <4>2. q = p
        <5>1. pc[q] \in UnderLease
          BY <4>1, MineFacts DEF ProcOK
        <5>2. lease = q
          BY <5>1, GuardFacts DEF Consuming
        <5> QED BY <2>1, <5>2
      <4>3. b \in mem[p].list
        BY <2>1, <3>1, <4>1, <4>2
      <4>4. j \in Nat /\ b \in Nat
        BY <4>3, MineFacts, MemoryFacts
      <4> QED BY <2>2, <2>4, <3>1, <4>3, <4>4
    <3>2. j \in files /\ i < j /\ KeyOf(i) = KeyOf(j)
      BY <2>1, <2>2, <2>4
    <3> QED BY <3>1, <3>2 DEF Justified
  <2> QED BY <2>1, <2>3, <2>4
<1>5. CASE Refuse(p)
  <2>1. i = Oldest(mem[p].list) /\ Up(p) /\ KeyOf(i) \in policy[p]
    BY <1>5 DEF Refuse
  <2> QED BY <2>1 DEF Justified
<1>6. CASE RemoveDelivered(p)
  BY <1>6 DEF RemoveDelivered, Justified
<1> QED BY <1>3, <1>4, <1>5, <1>6

\* As long as no two processes reclaim a lease at once, a record is removed
\* because it was delivered, refused, expired or in excess, or because a newer
\* snapshot of its session is there with no published hook of the compacting
\* process in between (src/src/hook-queue.ts lines 236-268 and 299).
THEOREM Barriers == Spec /\ []OneReclaimer => BarriersHold
<1>1. Local /\ Exclusive /\ [Next]_vars =>
        [\A i \in files \ files' :
           Justified(i, files \intersect UNION {mem[p].covers : p \in Proc})]_vars
  BY RemovalStep
<1> QED BY <1>1, LocalInvariance, ExclusiveInvariance, PTL DEF Spec, BarriersHold


-----------------------------------------------------------------------------
(* The queue implements DurableQueue.                                      *)

Keys == [i \in DOMAIN jobs |-> jobs[i].key]

LEMMA KeysFacts ==
  ASSUME Local
  PROVE  /\ Keys \in Seq(Key) /\ Len(Keys) = Len(jobs) /\ 1..Len(Keys) = DOMAIN jobs
         /\ \A i \in DOMAIN jobs : Keys[i] = KeyOf(i)
<1>1. DOMAIN jobs = 1..Len(jobs) /\ Len(jobs) \in Nat /\ \A i \in DOMAIN jobs : jobs[i].key \in Key
  BY RecordFacts DEF KeyOf
<1>2. Keys \in [1..Len(jobs) -> Key]
  BY <1>1 DEF Keys
<1>3. Keys \in Seq(Key) /\ Len(Keys) = Len(jobs)
  BY <1>1, <1>2
<1> QED BY <1>1, <1>3 DEF Keys, KeyOf

LEMMA DurableSize ==
  ASSUME Local
  PROVE  Durable!Size(files) = Size(files)
<1>1. files \subseteq DOMAIN jobs
  BY DEF Local, Globals
<1>2. {i \in files : Keys[i] \in Heavy} = {i \in files : KeyOf(i) \in Heavy}
  BY <1>1, KeysFacts
<1> QED BY <1>2 DEF Durable!Size, Size, Keys, Durable!Cardinality, Cardinality, Durable!IsFiniteSet, IsFiniteSet

LEMMA RefineAccept ==
  ASSUME Local, NEW p \in Proc, Accepts(p)
  PROVE  Durable!Next
<1>1. PICK k \in Key, now \in BOOLEAN : Enqueue(p, k, now)
  BY DEF Accepts
<1>2. jobs' = Append(jobs, [by |-> p, key |-> k]) /\ UNCHANGED <<files, cutoff, handled>>
  BY <1>1 DEF Enqueue, directory
<1> PICK r : r = [by |-> p, key |-> k]
  OBVIOUS
<1>3. r \in [by : Proc, key : Key] /\ r.key = k /\ jobs' = Append(jobs, r)
  BY <1>2
<1>4. /\ DOMAIN jobs' = DOMAIN jobs \union {Len(jobs) + 1} /\ Len(jobs) + 1 \notin DOMAIN jobs
      /\ (\A i \in DOMAIN jobs : jobs'[i] = jobs[i]) /\ jobs'[Len(jobs) + 1] = r
  BY <1>3, GrowFacts
<1>5. Keys' = Append(Keys, k)
  <2>1. Keys \in Seq(Key) /\ Len(Keys) = Len(jobs) /\ DOMAIN Keys = DOMAIN jobs /\ Len(jobs) \in Nat
    BY KeysFacts, RecordFacts DEF Keys
  <2>2. PICK a : a = Append(Keys, k)
    OBVIOUS
  <2>3. /\ a \in Seq(Key) /\ Len(a) = Len(jobs) + 1 /\ a[Len(jobs) + 1] = k
        /\ \A i \in 1..Len(jobs) : a[i] = Keys[i]
    BY <2>1, <2>2
  <2>4. DOMAIN a = DOMAIN jobs' /\ a = [i \in DOMAIN a |-> a[i]]
    <3>1. DOMAIN a = 1..(Len(jobs) + 1)
      BY <2>1, <2>3
    <3>2. DOMAIN jobs = 1..Len(jobs)
      BY RecordFacts
    <3>3. 1..(Len(jobs) + 1) = (1..Len(jobs)) \union {Len(jobs) + 1}
      BY <2>1
    <3> QED BY <1>4, <2>3, <3>1, <3>2, <3>3
  <2>5. ASSUME NEW i \in DOMAIN jobs' PROVE a[i] = jobs'[i].key
    <3>1. CASE i = Len(jobs) + 1
      BY <1>3, <1>4, <2>3, <3>1
    <3>2. CASE i \in DOMAIN jobs
      <4>1. i \in 1..Len(jobs) /\ Keys[i] = jobs[i].key
        BY <3>2, RecordFacts DEF Keys
      <4> QED BY <1>4, <2>3, <3>2, <4>1
    <3> QED BY <1>4, <3>1, <3>2
  <2> QED BY <2>2, <2>4, <2>5 DEF Keys
<1>6. Durable!Accept(k)
  BY <1>2, <1>5 DEF Durable!Accept, Keys
<1> QED BY <1>6 DEF Durable!Next

LEMMA RefineRemove ==
  ASSUME Local, Exclusive, NEW p \in Proc, Compact(p) \/ Refuse(p) \/ RemoveDelivered(p)
  PROVE  Durable!Next
<1>0. files \subseteq DOMAIN jobs /\ ProcOK(p, pc[p], mem[p])
  BY MineFacts DEF Local, Globals
<1>1. ASSUME NEW i \in files, files' = files \ {i}, UNCHANGED <<cutoff, jobs, handled>>,
             \/ i \in handled \/ i <= cutoff \/ Size(files) > MaxBytes
             \/ \E x \in Policies : KeyOf(i) \in x
             \/ \E j \in files : i < j /\ KeyOf(i) = KeyOf(j) /\ KeyOf(i) # Hook
      PROVE  Durable!Next
  <2>1. \A j \in files : Keys[j] = KeyOf(j)
    BY <1>0, KeysFacts
  <2>2. Durable!Remove(i)
    <3>1. \/ i \in handled \/ Durable!Superseded(i) \/ Durable!Expired(i) \/ Durable!OverBudget
          \/ Durable!Excluded(i)
      BY <1>1, <2>1, DurableSize
         DEF Durable!Superseded, Durable!Expired, Durable!OverBudget, Durable!Excluded, Keys
    <3> QED BY <1>1, <3>1 DEF Durable!Remove
  <2>3. i \in 1..Len(Keys)
    BY <1>0, KeysFacts
  <2> QED BY <2>2, <2>3 DEF Durable!Next, Keys
<1>2. CASE Compact(p)
  <2>1. PICK i \in files :
           /\ files' = files \ {i} /\ UNCHANGED <<cutoff, jobs, handled>>
           /\ mem[p].list \subseteq files
           /\ \/ i <= cutoff
              \/ Size(files) > MaxBytes
              \/ \E j \in mem[p].list : i < j /\ KeyOf(i) = KeyOf(j) /\ KeyOf(i) # Hook
    <3>1. PICK i \in files :
           /\ files' = files \ {i} /\ i \in DOMAIN jobs
           /\ UNCHANGED <<cutoff, jobs, handled>>
           /\ lease = p /\ mem[p].list \subseteq files
           /\ mem[p].covers \intersect files \subseteq mem[p].list
           /\ \/ i <= cutoff
              \/ Size(files) > MaxBytes
              \/ \E j \in mem[p].list :
                   /\ i < j /\ KeyOf(i) = KeyOf(j) /\ KeyOf(i) # Hook
                   /\ \A b \in mem[p].list : i < b => j <= b
      BY <1>2, CompactFacts
    <3> QED BY <3>1
  <2> QED BY <1>1, <2>1
<1>3. CASE Refuse(p)
  <2> PICK i : i = Oldest(mem[p].list)
    OBVIOUS
  <2>1. /\ i \in files /\ files' = files \ {i} /\ UNCHANGED <<cutoff, jobs, handled>>
        /\ KeyOf(i) \in policy[p] /\ Up(p)
    BY <1>3 DEF Refuse
  <2>2. policy[p] \in Policies
    BY <2>1, MineFacts
  <2> QED BY <1>1, <2>1, <2>2
<1>4. CASE RemoveDelivered(p)
  <2>1. /\ mem[p].active \in files /\ files' = files \ {mem[p].active}
        /\ UNCHANGED <<cutoff, jobs, handled>> /\ mem[p].stage = "removing"
    BY <1>4 DEF RemoveDelivered
  <2>2. mem[p].active \in handled
    BY <1>0, <2>1 DEF ProcOK
  <2> QED BY <1>1, <2>1, <2>2
<1> QED BY <1>2, <1>3, <1>4

LEMMA RefinePublish ==
  ASSUME Local, NEW p \in Proc, Publishes(p) \/ Recovers(p)
  PROVE  Durable!Next \/ UNCHANGED <<files, cutoff, jobs, handled>>
<1>1. \A t \in temps : t.rec \in DOMAIN jobs
  BY DEF Local, TempsOK
<1>2. UNCHANGED <<cutoff, jobs, handled>>
  BY DEF Publishes, PublishSpool, SpoolFails, Recovers, Recover
<1>3. files' = files \/ \E i \in DOMAIN jobs : files' = files \union {i}
  BY <1>1 DEF Publishes, PublishSpool, SpoolFails, Recovers, Recover
<1>4. ASSUME NEW i \in DOMAIN jobs, files' = files \union {i} PROVE Durable!Next
  <2>1. Durable!Publish(i)
    BY <1>2, <1>4 DEF Durable!Publish
  <2>2. i \in 1..Len(Keys)
    BY KeysFacts
  <2> QED BY <2>1, <2>2 DEF Durable!Next, Keys
<1> QED BY <1>2, <1>3, <1>4

LEMMA RefineHandle ==
  ASSUME Local, Exclusive, NEW p \in Proc, HandlerTakesEffect(p)
  PROVE  Durable!Next
<1>1. ProcOK(p, pc[p], mem[p]) /\ Guarded(p, pc[p], mem[p])
  BY MineFacts, GuardFacts
<1>2. mem[p].stage = "running" /\ handled' = handled \union {mem[p].active}
      /\ UNCHANGED <<files, cutoff, jobs>>
  BY DEF HandlerTakesEffect, directory
<1>3. mem[p].active \in files /\ mem[p].active \in DOMAIN jobs
  BY <1>1, <1>2 DEF ProcOK, Guarded
<1>4. Durable!Handle(mem[p].active)
  BY <1>2, <1>3 DEF Durable!Handle
<1>5. mem[p].active \in 1..Len(Keys)
  BY <1>3, KeysFacts
<1> QED BY <1>4, <1>5 DEF Durable!Next, Keys

LEMMA RefineStep == Local /\ Exclusive /\ [Next]_vars => [Durable!Next]_(Durable!vars)
<1> SUFFICES ASSUME Local, Exclusive, [Next]_vars
             PROVE  Durable!Next \/ UNCHANGED Durable!vars
  OBVIOUS
<1>1. ASSUME UNCHANGED <<files, cutoff, jobs, handled>> PROVE UNCHANGED Durable!vars
  BY <1>1 DEF Durable!vars
<1>2. CASE UNCHANGED vars
  BY <1>1, <1>2 DEF vars, directory
<1>3. CASE Age
  <2>1. Durable!Age
    BY <1>3 DEF Age, directory, Durable!Age
  <2> QED BY <2>1 DEF Durable!Next
<1>4. ASSUME NEW p \in Proc, Moves(p) PROVE Durable!Next \/ UNCHANGED Durable!vars
  <2>1. CASE Accepts(p)
    BY <2>1, RefineAccept
  <2>2. CASE Publishes(p) \/ Recovers(p)
    BY <1>1, <2>2, RefinePublish
  <2>3. CASE Compact(p) \/ Refuse(p) \/ RemoveDelivered(p)
    BY <2>3, RefineRemove
  <2>4. CASE HandlerTakesEffect(p)
    BY <2>4, RefineHandle
  <2>5. CASE Starts(p) \/ WritesTemp(p)
    BY <1>1, <2>5 DEF Starts, Start, Die, WritesTemp, CreateTemp, SyncTemp, directory
  <2>6. CASE Enters(p)
    BY <1>1, <2>6 DEF Enters, CallFlush, TimerFires, AwaitWrites, AcquireLease, LinkLease, ProbeLease,
       RereadLease, UnlinkLease, LeaseGone, directory
  <2>7. CASE Lists(p) /\ ~ Compact(p) /\ ~ Refuse(p)
    BY <1>1, <2>7 DEF Lists, RecoverDone, BeginListing, SpoolFailed, ReadDirectory, CompactDone,
       ReadRecord, StopClosed, directory
  <2>8. CASE Delivers(p) \/ HandlerSucceeds(p) \/ HandlerFails(p) \/ RemoveFails(p)
    BY <1>1, <2>8 DEF Delivers, Rewrite, StartDelivery, RewriteDone, HandlerSucceeds, HandlerFails,
       RemoveFails, directory
  <2>9. CASE Stops(p)
    BY <1>1, <2>9 DEF Stops, Abort, Dispose, Release, ReleaseLate, FlushFails, directory
  <2> QED BY <1>4, <2>1, <2>2, <2>3, <2>4, <2>5, <2>6, <2>7, <2>8, <2>9 DEF Moves, Lists, Handles
<1> QED BY <1>2, <1>3, <1>4, NextMoves

LEMMA RefineInit == Init => Durable!Init
<1> SUFFICES ASSUME Init PROVE Durable!Init
  OBVIOUS
<1>1. Local
  BY LocalInit
<1>2. Keys \in Seq(Key) /\ Len(Keys) = 0
  BY <1>1, KeysFacts DEF Init
<1>3. Keys = <<>>
  BY <1>2
<1> QED BY <1>3 DEF Init, Durable!Init, Keys

\* As long as no two processes reclaim a lease at once, the queue with its
\* crashes, timeouts and late handlers implements DurableQueue: no published
\* record is lost, and none is handled that is gone.
THEOREM Durability == Spec /\ []OneReclaimer => ImplementsDurableQueue
BY RefineInit, RefineStep, LocalInvariance, ExclusiveInvariance, PTL
   DEF Spec, ImplementsDurableQueue, Durable!Spec

-----------------------------------------------------------------------------
(* Two processes.                                                          *)

\* A lease is reclaimed from a dead process, so two reclaimers and its owner
\* are three.
LEMMA TwoSuffice ==
  ASSUME \A p, q, r \in Proc : p = q \/ q = r \/ p = r
  PROVE  Local => OneReclaimer
<1> SUFFICES ASSUME Local, NEW p \in Proc, NEW q \in Proc,
                    pc[p] \in Reclaiming, pc[q] \in Reclaiming
             PROVE  p = q
  BY DEF OneReclaimer
<1>1. ASSUME NEW r \in {p, q} PROVE life[r] = "up" /\ mem[r].seen \in Proc /\ life[mem[r].seen] = "dead"
  BY MineFacts DEF ProcOK, Up, Reclaiming
<1> QED BY <1>1

\* With at most two process lives, nothing is assumed: one consumer, in order,
\* drains that cover, barriers that hold, and a queue that implements
\* DurableQueue.
THEOREM TwoProcesses ==
  ASSUME \A p, q, r \in Proc : p = q \/ q = r \/ p = r
  PROVE  Spec => []OneConsumer /\ []OwnOrder /\ DrainCovers /\ BarriersHold /\ ImplementsDurableQueue
<1>1. Local => OneReclaimer
  BY TwoSuffice
<1>2. Spec => []OneReclaimer
  BY <1>1, LocalInvariance, PTL
<1> QED BY <1>2, Exclusion, Order, Drain, Barriers, Durability, PTL

=============================================================================
