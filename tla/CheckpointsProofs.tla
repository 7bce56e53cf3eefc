------------------------- MODULE CheckpointsProofs -------------------------
(***************************************************************************)
(* Proofs about Checkpoints, for any archives, scopes and bounds.  The     *)
(* inductive invariant IInv says, besides the types, how the attempts of   *)
(* an archive follow each other (AttemptsInOrder), what a run knows while  *)
(* it works on an attempt (RunSound), what a claim of the mirror excludes  *)
(* (ClaimsCount), how the scope of a run relates to the scheduled one      *)
(* (ScopeSound), and which attempts a run has cleaned (CleanupSound).      *)
(***************************************************************************)
EXTENDS Checkpoints, WellFoundedInduction, TLAPS

Working == {"request", "requested", "open", "load", "media", "submit", "commit", "poll",
            "failure", "checkpoint"}
HasSession == {"load", "media", "submit", "commit", "poll", "failure", "checkpoint"}

BoundsOK ==
  /\ counts \in [schedules : Nat, restarts : Nat, faults : Nat]
  /\ executed \in [Task -> [inputs : Nat, commits : Nat]]
  /\ version <= counts.schedules /\ counts.schedules <= MaxSchedules

\* Every attempt before a requested one has failed, and a checkpoint is of the
\* archive it is stored for.
AttemptsInOrder ==
  /\ \A t \in requests : \A n \in 1..MaxAttempts : n < t[3] => <<t[1], t[2], n>> \in failures
  /\ \A a \in Archive : checkpoint[a] # None => checkpoint[a][1] = a

\* A run works on the first open attempt of its scope, which it has requested,
\* which is not clean, and which has a session from some step on; when its
\* checkpoint is written, it is an attempt for an archive of the scope.
RunSound ==
  /\ run.at \in Working =>
       /\ run.task \in OpenAttempts(run.scope) \ cleaned
       /\ \A u \in OpenAttempts(run.scope) : run.task[3] <= u[3]
  /\ run.at \in Working \ {"request"} => run.task \in requests
  /\ run.at \in HasSession => server[run.task].birth # 0
  /\ run.at = "written" =>
       run.task \in requests /\ \E k \in 1..Len(run.scope) : run.scope[k] = run.task[1]
  /\ run.todo \subseteq requests

\* Nothing was executed without a claim.
ClaimsCount ==
  \A t \in Task :
    /\ mirror[t].intent = 0 => executed[t].inputs = 0
    /\ mirror[t].commitIntent = 0 => executed[t].commits = 0

\* A run whose scope was replaced is to be followed by another one; a run that
\* holds its scope has a prefix of the scheduled one.
ScopeSound ==
  /\ run.version <= version
  /\ CurrentScope => IsPrefix(run.scope, scope)
  /\ run.at = "idle" => ~ dirty
  /\ run.at # "idle" /\ ~ dirty =>
       CurrentScope /\ run.scope = scope /\ run.chains = chains
  /\ run.at = "lost" => ~ CurrentScope
  /\ counts.schedules = 0 => scope = <<>> /\ chains = {}

Clean(t) == server[t].birth = 0 /\ ~ server[t].media

\* What has been cleaned is clean; so is everything that ended, apart from what
\* the run still has to do, as long as no cleanup of it has failed.
CleanupSound ==
  /\ \A t \in cleaned : Clean(t)
  /\ run.complete /\ run.at \notin {"idle", "obsolete", "lost"} =>
       \A t \in ObsoleteTasks(run.scope, run.chains) :
          Clean(t) \/ (run.at = "cleanObsolete" /\ t \in run.todo)
  /\ run.complete /\ run.at \in Working \union {"clean", "cleanEnd"} =>
       \A t \in TerminalTasks(run.scope) :
          Clean(t) \/ (run.at \in {"clean", "cleanEnd"} /\ t \in run.todo)
  /\ run.complete /\ run.at = "written" =>
       \A t \in TerminalTasks(run.scope) : Clean(t) \/ t = run.task
  /\ run.at = "idle" /\ run.complete /\ ~ timer /\ ~ stopped =>
       \A t \in TerminalTasks(scope) \union ObsoleteTasks(scope, chains) : Clean(t)

IInv ==
  /\ TypeOK /\ BoundsOK /\ AttemptsInOrder /\ ChainSound /\ RunSound /\ ClaimsCount
  /\ ExecutedOnce /\ ScopeSound /\ CleanupSound

-----------------------------------------------------------------------------
(* Facts about the data.                                                   *)

LEMMA LeastNat ==
  ASSUME NEW S \in SUBSET Nat, S # {}
  PROVE  \E n \in S : \A m \in S : n <= m
<1>1. IsWellFoundedOn({ss \in Nat \X Nat : ss[1] < ss[2]}, Nat)
  BY NatLessThanWellFounded DEF OpToRel
<1>2. PICK n \in S : \A m \in S : ~ (<<m, n>> \in {ss \in Nat \X Nat : ss[1] < ss[2]})
  BY <1>1, WFMin
<1>3. \A m \in S : ~ (m < n)
  BY <1>2
<1> QED BY <1>3

LEMMA ScopeType ==
  ASSUME NEW s \in Scopes
  PROVE  s \in Seq(Archive) /\ Len(s) \in Nat /\ \A k \in 1..Len(s) : s[k] \in Archive
BY CheckpointsAssumption

LEMMA TaskType ==
  ASSUME NEW t \in Task
  PROVE  /\ t = <<t[1], t[2], t[3]>> /\ t # None
         /\ t[1] \in Archive /\ t[2] \in Predecessor /\ t[3] \in 1..MaxAttempts
BY CheckpointsAssumption DEF Task, Predecessor

\* The archives of a scope before the next one have a checkpoint, the next has none.
LEMMA ConsumedFacts ==
  ASSUME TypeOK, NEW s \in Scopes
  PROVE  /\ Consumed(s) \in 0..Len(s)
         /\ \A k \in 1..Consumed(s) : checkpoint[s[k]] # None
         /\ Consumed(s) < Len(s) => checkpoint[s[Consumed(s) + 1]] = None
<1> DEFINE open == {k \in 1..Len(s) : checkpoint[s[k]] = None}
<1>1. Len(s) \in Nat
  BY ScopeType
<1>2. CASE open = {}
  BY <1>1, <1>2 DEF Consumed
<1>3. CASE open # {}
  <2>0. open \in SUBSET Nat
    BY <1>1
  <2>1. \E n \in open : \A m \in open : n <= m
    <3> HIDE DEF open
    <3> QED BY <1>3, <2>0, LeastNat
  <2>2. Min(open) \in open /\ \A m \in open : Min(open) <= m
    BY <2>1 DEF Min
  <2>3. Consumed(s) = Min(open) - 1
    BY <1>3 DEF Consumed
  <2>4. PICK n : n = Min(open)
    OBVIOUS
  <2>5. n \in 1..Len(s) /\ checkpoint[s[n]] = None /\ Consumed(s) = n - 1
    BY <2>2, <2>3, <2>4
  <2>6. \A k \in 1..(n - 1) : k \notin open
    BY <1>1, <2>2, <2>4, <2>5
  <2>7. \A k \in 1..(n - 1) : checkpoint[s[k]] # None
    BY <1>1, <2>5, <2>6
  <2>8. Consumed(s) + 1 = n
    BY <1>1, <2>5
  <2> QED BY <1>1, <2>5, <2>7, <2>8
<1> QED BY <1>2, <1>3

LEMMA OpenFacts ==
  ASSUME TypeOK, NEW s \in Scopes, NEW t \in OpenAttempts(s)
  PROVE  /\ t \in Task /\ t \notin failures /\ Consumed(s) + 1 \in 1..Len(s)
         /\ t[1] = s[Consumed(s) + 1] /\ t[2] = PreviousIn(s, Consumed(s) + 1)
         /\ checkpoint[t[1]] = None /\ t[1] \in ToSet(s)
         /\ t[2] # None => checkpoint[t[2]] # None
<1>1. /\ Consumed(s) \in 0..Len(s) /\ Len(s) \in Nat
      /\ \A k \in 1..Consumed(s) : checkpoint[s[k]] # None
      /\ Consumed(s) < Len(s) => checkpoint[s[Consumed(s) + 1]] = None
  BY ConsumedFacts, ScopeType
<1>2. /\ t \in Task /\ t \notin failures /\ Consumed(s) + 1 <= Len(s)
      /\ t[1] = s[Consumed(s) + 1] /\ t[2] = PreviousIn(s, Consumed(s) + 1)
  BY DEF OpenAttempts
<1>3. t[2] # None => checkpoint[t[2]] # None
  <2>1. Consumed(s) + 1 - 1 = Consumed(s) /\ (Consumed(s) + 1 # 1 => Consumed(s) \in 1..Consumed(s))
    BY <1>1
  <2> QED BY <1>1, <1>2, <2>1 DEF PreviousIn
<1>4. t[1] \in ToSet(s)
  <2>1. Consumed(s) + 1 \in DOMAIN s
    BY <1>1, <1>2, ScopeType
  <2> QED BY <1>2, <2>1 DEF ToSet
<1>5. checkpoint[t[1]] = None /\ Consumed(s) + 1 \in 1..Len(s)
  BY <1>1, <1>2
<1> QED BY <1>2, <1>3, <1>4, <1>5

\* An open attempt has not ended, and is no other branch's.
LEMMA OpenNotEnded ==
  ASSUME TypeOK, AttemptsInOrder, NEW s \in Scopes, NEW c, NEW t \in OpenAttempts(s)
  PROVE  t \notin TerminalTasks(s) /\ t \notin ObsoleteTasks(s, c)
<1>1. /\ t \notin failures /\ checkpoint[t[1]] = None /\ t[1] \in ToSet(s)
      /\ t \in Task /\ t # None
  BY OpenFacts, TaskType
<1>2. t \notin TerminalTasks(s)
  BY <1>1 DEF TerminalTasks
<1>3. t \notin ObsoleteTasks(s, c)
  BY <1>1 DEF ObsoleteTasks
<1> QED BY <1>2, <1>3

LEMMA CurrentTaskFacts ==
  ASSUME TypeOK, NEW s \in Scopes, OpenAttempts(s) # {}
  PROVE  /\ CurrentTask(s) \in OpenAttempts(s)
         /\ \A u \in OpenAttempts(s) : CurrentTask(s)[3] <= u[3]
<1> DEFINE T == {t[3] : t \in OpenAttempts(s)}
<1>1. T \subseteq Nat /\ T # {}
  BY OpenFacts, TaskType, CheckpointsAssumption
<1>2. PICK n \in T : \A m \in T : n <= m
  BY <1>1, LeastNat
<1>3. \E t \in OpenAttempts(s) : \A u \in OpenAttempts(s) : t[3] <= u[3]
  BY <1>2
<1> QED BY <1>3 DEF CurrentTask

LEMMA OpenUnlessDone ==
  ASSUME TypeOK, NEW s \in Scopes, ~ CaughtUp(s), ~ Exhausted(s)
  PROVE  OpenAttempts(s) # {}
BY DEF Exhausted

\* What is said of a scope depends on the facts only.
LEMMA FactsStay ==
  ASSUME UNCHANGED facts, NEW s, NEW c
  PROVE  /\ Consumed(s)' = Consumed(s) /\ OpenAttempts(s)' = OpenAttempts(s)
         /\ TerminalTasks(s)' = TerminalTasks(s)
         /\ ObsoleteTasks(s, c)' = ObsoleteTasks(s, c)
BY DEF facts, Consumed, OpenAttempts, TerminalTasks, ObsoleteTasks, PreviousIn

LEMMA RunScope ==
  ASSUME NEW s, NEW c, run'.scope = s, run'.chains = c
  PROVE  /\ OpenAttempts(run.scope)' = OpenAttempts(s)'
         /\ TerminalTasks(run.scope)' = TerminalTasks(s)'
         /\ ObsoleteTasks(run.scope, run.chains)' = ObsoleteTasks(s, c)'
BY DEF Consumed, OpenAttempts, TerminalTasks, ObsoleteTasks, PreviousIn

LEMMA PlanScope ==
  ASSUME NEW s, NEW c, scope' = s, chains' = c
  PROVE  /\ TerminalTasks(scope)' = TerminalTasks(s)'
         /\ ObsoleteTasks(scope, chains)' = ObsoleteTasks(s, c)'
BY DEF Consumed, TerminalTasks, ObsoleteTasks, PreviousIn


\* <<>> has no attempts, ended or obsolete, when there are no other chains.
LEMMA NothingEnded == TerminalTasks(<<>>) = {} /\ ObsoleteTasks(<<>>, {}) = {}
BY DEF TerminalTasks, ObsoleteTasks

LEMMA PrefixFacts ==
  ASSUME NEW r \in Scopes, NEW s \in Scopes, NEW t \in Scopes
  PROVE  /\ IsPrefix(s, s) /\ IsPrefix(<<>>, s)
         /\ IsPrefix(r, s) /\ IsPrefix(s, t) => IsPrefix(r, t)
<1>1. \A u \in Scopes : u \in Seq(Archive) /\ Len(u) \in Nat
  BY ScopeType
<1>2. IsPrefix(s, s)
  BY <1>1 DEF IsPrefix
<1>3. IsPrefix(<<>>, s)
  BY <1>1 DEF IsPrefix
<1>4. ASSUME IsPrefix(r, s), IsPrefix(s, t) PROVE IsPrefix(r, t)
  <2>1. Len(r) <= Len(s) /\ Len(s) <= Len(t)
    BY <1>4 DEF IsPrefix
  <2>2. \A k \in 1..Len(r) : r[k] = s[k]
    <3> SUFFICES ASSUME NEW k \in 1..Len(r) PROVE r[k] = s[k]
      OBVIOUS
    <3>1. SubSeq(r, 1, Len(r))[k] = r[k] /\ SubSeq(s, 1, Len(r))[k] = s[k]
      BY <1>1, <2>1
    <3> QED BY <1>4, <3>1 DEF IsPrefix
  <2>3. \A k \in 1..Len(s) : s[k] = t[k]
    <3> SUFFICES ASSUME NEW k \in 1..Len(s) PROVE s[k] = t[k]
      OBVIOUS
    <3>1. SubSeq(s, 1, Len(s))[k] = s[k] /\ SubSeq(t, 1, Len(s))[k] = t[k]
      BY <1>1, <2>1
    <3> QED BY <1>4, <3>1 DEF IsPrefix
  <2>4. Len(r) <= Len(t) /\ \A k \in 1..Len(r) : r[k] = t[k]
    BY <1>1, <2>1, <2>2, <2>3
  <2>5. SubSeq(r, 1, Len(r)) = SubSeq(t, 1, Len(r))
    BY <1>1, <2>4
  <2> QED BY <2>4, <2>5 DEF IsPrefix
<1> QED BY <1>2, <1>3, <1>4

-----------------------------------------------------------------------------
(* Where runs begin and end.                                               *)

\* What of the invariant is not about the run.
Types ==
  /\ requests \subseteq Task /\ failures \subseteq requests
  /\ checkpoint \in [Archive -> Task \union {None}]
  /\ server \in [Task -> Session] /\ mirror \in [Task -> Claims]
  /\ scope \in Scopes /\ version \in 0..MaxSchedules /\ chains \subseteq Scopes
  /\ timer \in BOOLEAN /\ stopped \in BOOLEAN /\ ~ (stopped /\ timer)
  /\ cleaned \subseteq requests /\ pendingCleanup \subseteq requests
  /\ published \in Seq(Archive)

Base ==
  /\ Types /\ BoundsOK /\ AttemptsInOrder /\ ChainSound /\ ClaimsCount /\ ExecutedOnce
  /\ \A t \in cleaned : Clean(t)
  /\ counts.schedules = 0 => scope = <<>> /\ chains = {}

RunPart ==
  /\ run \in Run /\ dirty \in BOOLEAN /\ RunSound /\ ScopeSound /\ CleanupSound

LEMMA Parts == IInv <=> Base /\ RunPart
BY DEF IInv, Base, RunPart, Types, TypeOK, ScopeSound, CleanupSound

LEMMA PartsNext == Base' /\ RunPart' => IInv'
BY DEF IInv, Base, RunPart, Types, TypeOK, ScopeSound, CleanupSound

LEMMA StartedInv ==
  ASSUME Base', run' = Started(scope, version, chains)', dirty' = FALSE
  PROVE  IInv'
<1> PICK s : s = scope'
  OBVIOUS
<1> PICK v : v = version'
  OBVIOUS
<1> PICK c : c = chains'
  OBVIOUS
<1>1. s \in Scopes /\ <<>> \in Scopes /\ v \in 0..MaxSchedules /\ v \in Nat /\ c \subseteq Scopes
  BY CheckpointsAssumption DEF Base, Types
<1>2. /\ run'.at = IF s = <<>> /\ c = {} THEN "scan" ELSE "obsolete"
      /\ run'.version = v /\ run'.scope = s /\ run'.chains = c /\ run'.todo = {}
      /\ run'.complete = TRUE /\ run'.task = None
  BY <1>1 DEF Started, Idle
<1>3. run' \in Run
  BY <1>1, <1>2 DEF Started, Idle, Run, Steps
<1>4. RunSound'
  BY <1>2 DEF RunSound, Working, HasSession
<1>5. ScopeSound'
  BY <1>1, <1>2, PrefixFacts DEF ScopeSound, CurrentScope, Base
<1>6. CleanupSound'
  <2>1. run'.at = "scan" => ObsoleteTasks(run.scope, run.chains)' = {}
    BY <1>2, NothingEnded DEF ObsoleteTasks
  <2> QED BY <1>2, <2>1 DEF CleanupSound, Base, Working
<1> QED BY <1>3, <1>4, <1>5, <1>6, PartsNext DEF RunPart

\* The run ends: another one starts, or the manager rests.
LEMMA EndRunInv ==
  ASSUME IInv, Base', EndRun, run.at # "idle", UNCHANGED plan,
         \/ dirty \/ stopped \/ timer' \/ ~ run.complete
         \/ \A t \in TerminalTasks(scope)' \union ObsoleteTasks(scope, chains)' : Clean(t)'
  PROVE  IInv'
<1>1. CASE dirty /\ ~ stopped
  BY <1>1, StartedInv DEF EndRun, plan, Started
<1>2. CASE ~ (dirty /\ ~ stopped)
  <2>1. run' = [Idle EXCEPT !.complete = run.complete] /\ dirty' = FALSE
    BY <1>2 DEF EndRun
  <2>2. /\ run'.at = "idle" /\ run'.version = 0 /\ run'.scope = <<>> /\ run'.chains = {}
        /\ run'.todo = {} /\ run'.complete = run.complete /\ run'.task = None
    BY <2>1 DEF Idle
  <2>3. run.complete \in BOOLEAN /\ run' \in Run
    <3>1. run.complete \in BOOLEAN
      BY DEF IInv, TypeOK, Run
    <3>2. Idle \in Run
      BY CheckpointsAssumption DEF Idle, Run, Steps
    <3> QED BY <2>1, <3>1, <3>2 DEF Run
  <2>4. RunSound'
    BY <2>2 DEF RunSound, Working, HasSession
  <2>5. ScopeSound'
    <3>1. PICK s : s = scope'
      OBVIOUS
    <3>2. s \in Scopes /\ version' \in Nat
      BY <3>1, CheckpointsAssumption DEF Base, Types
    <3> QED BY <2>1, <2>2, <3>1, <3>2, PrefixFacts, CheckpointsAssumption DEF ScopeSound, CurrentScope, Base
  <2>6. CleanupSound'
    BY <1>2, <2>2 DEF CleanupSound, Base, Working, plan
  <2> QED BY <2>1, <2>3, <2>4, <2>5, <2>6, PartsNext DEF RunPart
<1> QED BY <1>1, <1>2

LEMMA RetryInv ==
  ASSUME IInv, Base', Retry, run.at # "idle", UNCHANGED plan
  PROVE  IInv'
<1>1. stopped \/ timer'
  BY DEF Retry, SetTimer, IInv, TypeOK
<1> QED BY <1>1, EndRunInv DEF Retry


-----------------------------------------------------------------------------
(* The facts.                                                              *)

\* A run works on the first open attempt of its scope.
LEMMA WorkFacts ==
  ASSUME IInv, run.at \in Working, NEW s, NEW t, run.scope = s, run.task = t
  PROVE  /\ s \in Scopes /\ t \in OpenAttempts(s) /\ t \notin cleaned
         /\ \A u \in OpenAttempts(s) : t[3] <= u[3]
         /\ t \in Task /\ t \notin failures /\ Consumed(s) + 1 \in 1..Len(s)
         /\ t[1] = s[Consumed(s) + 1] /\ t[2] = PreviousIn(s, Consumed(s) + 1)
         /\ checkpoint[t[1]] = None /\ t[1] \in ToSet(s)
         /\ t[2] # None => checkpoint[t[2]] # None
         /\ run.at # "request" => t \in requests
<1>1. s \in Scopes
  BY DEF IInv, TypeOK, Run
<1>2. /\ t \in OpenAttempts(s) /\ t \notin cleaned /\ \A u \in OpenAttempts(s) : t[3] <= u[3]
      /\ run.at # "request" => t \in requests
  BY DEF IInv, RunSound
<1> QED BY <1>1, <1>2, OpenFacts DEF IInv

\* All attempts before the current one have failed.
LEMMA EarlierFailed ==
  ASSUME IInv, run.at \in Working, NEW t, run.task = t, NEW n \in 1..MaxAttempts, n < t[3]
  PROVE  <<t[1], t[2], n>> \in failures
<1> PICK s : s = run.scope
  OBVIOUS
<1>1. /\ s \in Scopes /\ t \in OpenAttempts(s) /\ t \in Task
      /\ \A u \in OpenAttempts(s) : t[3] <= u[3]
  BY WorkFacts
<1>2. t[3] \in Nat /\ t[1] \in Archive /\ t[2] \in Predecessor /\ MaxAttempts \in Nat
  BY <1>1, TaskType, CheckpointsAssumption
<1>3. PICK u : u = <<t[1], t[2], n>>
  OBVIOUS
<1>4. u \in Task /\ u[1] = t[1] /\ u[2] = t[2] /\ u[3] = n
  BY <1>2, <1>3 DEF Task
<1>5. u \notin OpenAttempts(s)
  BY <1>1, <1>2, <1>4
<1>6. u \in failures
  BY <1>1, <1>4, <1>5 DEF OpenAttempts
<1> QED BY <1>3, <1>6

LEMMA RequestWritten ==
  ASSUME IInv, run.at = "request", requests' = Requested(run.task),
         UNCHANGED <<failures, checkpoint>>
  PROVE  requests' \subseteq Task /\ AttemptsInOrder' /\ ChainSound'
<1> PICK t : t = run.task
  OBVIOUS
<1>1. t \in Task /\ checkpoint[t[1]] = None /\ t \notin failures
  BY WorkFacts DEF Working
<1>2. requests' = requests \union {t} /\ requests \subseteq Task
  BY DEF Requested, IInv, TypeOK
<1>3. t[1] \in Archive /\ t[2] \in Predecessor /\ t[3] \in 1..MaxAttempts /\ MaxAttempts \in Nat
  BY <1>1, TaskType, CheckpointsAssumption
<1>4. \A n \in 1..MaxAttempts : n < t[3] => <<t[1], t[2], n>> \in failures
  BY EarlierFailed DEF Working
<1>5. AttemptsInOrder'
  BY <1>2, <1>4 DEF IInv, AttemptsInOrder
<1>6. ChainSound'
  <2>1. t[3] > 1 => <<t[1], t[2], t[3] - 1>> \in failures
    BY <1>3, <1>4
  <2>2. \A a \in Archive : checkpoint[a] # None => t[1] # a
    BY <1>1
  <2> QED BY <1>2, <2>1, <2>2 DEF IInv, ChainSound
<1> QED BY <1>1, <1>2, <1>5, <1>6

LEMMA FailureWritten ==
  ASSUME IInv, run.at = "failure", failures' = Failed(run.task),
         UNCHANGED <<requests, checkpoint>>
  PROVE  failures' \subseteq requests' /\ AttemptsInOrder' /\ ChainSound'
<1> PICK t : t = run.task
  OBVIOUS
<1>1. t \in requests /\ checkpoint[t[1]] = None
  BY WorkFacts DEF Working
<1>2. failures' = failures \union {t} /\ failures \subseteq requests
  BY DEF Failed, IInv, TypeOK
<1>3. \A a \in Archive : checkpoint[a] # None => checkpoint[a] # t
  BY <1>1 DEF IInv, AttemptsInOrder
<1>4. AttemptsInOrder'
  BY <1>2 DEF IInv, AttemptsInOrder
<1>5. ChainSound'
  BY <1>2, <1>3 DEF IInv, ChainSound
<1> QED BY <1>1, <1>2, <1>4, <1>5

LEMMA CheckpointWritten ==
  ASSUME IInv, run.at = "checkpoint", NEW t, run.task = t,
         checkpoint' = [checkpoint EXCEPT ![t[1]] = t], UNCHANGED <<requests, failures>>
  PROVE  checkpoint' \in [Archive -> Task \union {None}] /\ AttemptsInOrder' /\ ChainSound'
<1>1. /\ t \in Task /\ t \in requests /\ t \notin failures
      /\ t[2] # None => checkpoint[t[2]] # None
  BY WorkFacts DEF Working
<1>2. t[1] \in Archive /\ t[2] \in Predecessor /\ t[3] \in 1..MaxAttempts /\ t # None
  BY <1>1, TaskType
<1>3. checkpoint \in [Archive -> Task \union {None}] /\ requests \subseteq Task
  BY DEF IInv, TypeOK
<1>4. \A a \in Archive : checkpoint'[a] = IF a = t[1] THEN t ELSE checkpoint[a]
  BY <1>2, <1>3
<1>5. \A a \in Archive : checkpoint[a] # None => checkpoint'[a] # None
  BY <1>2, <1>4
<1>6. AttemptsInOrder'
  BY <1>4 DEF IInv, AttemptsInOrder
<1>7. \A u \in requests : u[1] = t[1] /\ u[2] = t[2] => u[3] <= t[3]
  <2> SUFFICES ASSUME NEW u \in requests, u[1] = t[1], u[2] = t[2], ~ (u[3] <= t[3])
               PROVE  FALSE
    OBVIOUS
  <2>1. u[3] \in 1..MaxAttempts /\ MaxAttempts \in Nat
    BY <1>3, TaskType, CheckpointsAssumption
  <2>2. t[3] < u[3]
    BY <1>2, <2>1
  <2>3. <<u[1], u[2], t[3]>> \in failures
    BY <1>2, <2>2 DEF IInv, AttemptsInOrder
  <2> QED BY <1>1, <2>3, TaskType
<1>8. /\ t \in requests \ failures
      /\ t[2] # None => checkpoint'[t[2]] # None
      /\ \A u \in requests : u[1] = t[1] /\ u[2] = t[2] => u[3] <= t[3]
  BY <1>1, <1>2, <1>5, <1>7 DEF Predecessor
<1>9. ChainSound'
  <2>1. \A a \in Archive : checkpoint[a] # None => checkpoint[a] \in Task
    BY <1>3
  <2>2. ASSUME NEW a \in Archive, checkpoint[a] # None, a # t[1]
        PROVE  /\ checkpoint[a] \in requests \ failures
               /\ checkpoint[a][2] # None => checkpoint'[checkpoint[a][2]] # None
               /\ \A u \in requests : u[1] = a /\ u[2] = checkpoint[a][2] => u[3] <= checkpoint[a][3]
    <3>1. checkpoint[a][2] \in Predecessor
      BY <2>1, <2>2, TaskType
    <3> QED BY <1>5, <2>2, <3>1 DEF IInv, ChainSound, Predecessor
  <2>3. \A u \in requests : u[3] > 1 => <<u[1], u[2], u[3] - 1>> \in failures
    BY DEF IInv, ChainSound
  <2>4. ASSUME NEW a \in Archive, NEW k, k = checkpoint'[a], k # None
        PROVE  /\ k \in requests \ failures
               /\ k[2] # None => checkpoint'[k[2]] # None
               /\ \A u \in requests : u[1] = a /\ u[2] = k[2] => u[3] <= k[3]
    <3>1. CASE a = t[1]
      BY <1>4, <1>8, <2>4, <3>1
    <3>2. CASE a # t[1]
      BY <1>4, <2>2, <2>4, <3>2
    <3> QED BY <3>1, <3>2
  <2> QED BY <2>3, <2>4 DEF ChainSound
<1> QED BY <1>2, <1>3, <1>6, <1>9, <1>1


-----------------------------------------------------------------------------
(* Steps.                                                                  *)

Counters == [schedules : Nat, restarts : Nat, faults : Nat]

\* A step that leaves the facts, the plan and the claims alone.
LEMMA BaseMoves ==
  ASSUME IInv, UNCHANGED <<facts, plan, mirror, executed>>,
         timer' \in BOOLEAN, ~ (stopped /\ timer'), published' \in Seq(Archive),
         cleaned' \subseteq requests, pendingCleanup' \subseteq requests,
         server' \in [Task -> Session], (\A t \in cleaned : Clean(t))',
         counts' \in Counters, counts'.schedules = counts.schedules
  PROVE  Base'
<1> USE DEF facts, plan
<1>1. Types' /\ BoundsOK'
  BY DEF IInv, TypeOK, Types, BoundsOK, Counters
<1>2. AttemptsInOrder' /\ ChainSound' /\ ClaimsCount' /\ ExecutedOnce'
  BY DEF IInv, AttemptsInOrder, ChainSound, ClaimsCount, ExecutedOnce
<1>3. (counts.schedules = 0 => scope = <<>> /\ chains = {})'
  BY DEF IInv, ScopeSound
<1> QED BY <1>1, <1>2, <1>3 DEF Base

\* One that leaves the server and the memory alone as well.
LEMMA BaseQuiet ==
  ASSUME IInv, UNCHANGED <<facts, plan, mirror, executed, server, memory>>,
         timer' \in BOOLEAN, ~ (stopped /\ timer'),
         counts' \in Counters, counts'.schedules = counts.schedules
  PROVE  Base'
<1>0. UNCHANGED <<facts, plan, mirror, executed>>
  OBVIOUS
<1>1. /\ published' \in Seq(Archive) /\ cleaned' \subseteq requests
      /\ pendingCleanup' \subseteq requests /\ server' \in [Task -> Session]
  BY DEF memory, IInv, TypeOK
<1>2. (\A t \in cleaned : Clean(t))'
  BY DEF memory, IInv, CleanupSound, Clean
<1> QED BY <1>0, <1>1, <1>2, BaseMoves

LEMMA TimerFacts ==
  ASSUME IInv
  PROVE  /\ timer \in BOOLEAN /\ stopped \in BOOLEAN /\ ~ (stopped /\ timer)
         /\ counts \in Counters /\ dirty \in BOOLEAN /\ run \in Run
         /\ (SetTimer => timer' \in BOOLEAN /\ ~ (stopped /\ timer'))
         /\ (Fault => counts' \in Counters /\ counts'.schedules = counts.schedules)
<1>1. timer \in BOOLEAN /\ stopped \in BOOLEAN /\ dirty \in BOOLEAN /\ ~ (stopped /\ timer)
      /\ run \in Run /\ counts \in Counters
  BY DEF IInv, TypeOK, BoundsOK, Counters
<1>2. SetTimer => timer' \in BOOLEAN /\ ~ (stopped /\ timer')
  BY <1>1 DEF SetTimer
<1>3. Fault => counts' \in Counters /\ counts'.schedules = counts.schedules
  BY <1>1 DEF Fault, Counters
<1> QED BY <1>1, <1>2, <1>3

LEMMA ScheduleInv == ASSUME IInv, Schedule PROVE IInv'
<1>1. PICK s \in Scopes :
        LET c == IF s = <<>> THEN {} ELSE Scopes \ {<<>>}
            v == IF IsPrefix(scope, s) THEN version ELSE version + 1
        IN /\ scope' = s /\ chains' = c /\ version' = v
           /\ IF run.at = "idle" THEN run' = Started(s, v, c) /\ dirty' = FALSE
              ELSE dirty' = TRUE /\ UNCHANGED run
  BY DEF Schedule
<1>2. PICK v : v = IF IsPrefix(scope, s) THEN version ELSE version + 1
  OBVIOUS
<1>3. PICK c : c = IF s = <<>> THEN {} ELSE Scopes \ {<<>>}
  OBVIOUS
<1>4. /\ scope' = s /\ chains' = c /\ version' = v /\ c \subseteq Scopes
      /\ run.at = "idle" => run' = Started(s, v, c) /\ dirty' = FALSE
      /\ run.at # "idle" => dirty' = TRUE /\ UNCHANGED run
  BY <1>1, <1>2, <1>3
<1>5. version \in Nat /\ scope \in Scopes /\ version <= counts.schedules /\ MaxSchedules \in Nat
  BY CheckpointsAssumption DEF IInv, TypeOK, BoundsOK
<1>6. /\ UNCHANGED <<facts, server, mirror, stopped, timer, memory, executed>>
      /\ counts' = [counts EXCEPT !.schedules = @ + 1] /\ counts.schedules < MaxSchedules
  BY DEF Schedule
<1>7. counts' \in Counters /\ counts'.schedules = counts.schedules + 1 /\ counts.schedules \in Nat
  BY <1>6 DEF IInv, BoundsOK, Counters
<1>8. Base'
  <2> USE DEF facts, memory
  <2>1. Types'
    BY <1>2, <1>4, <1>5, <1>6, <1>7 DEF IInv, TypeOK, Types
  <2>2. BoundsOK'
    BY <1>2, <1>4, <1>5, <1>6, <1>7 DEF IInv, BoundsOK, Counters
  <2>3. AttemptsInOrder' /\ ChainSound' /\ ClaimsCount' /\ ExecutedOnce'
    BY <1>6 DEF IInv, AttemptsInOrder, ChainSound, ClaimsCount, ExecutedOnce
  <2>4. (\A t \in cleaned : Clean(t))'
    BY <1>6 DEF IInv, CleanupSound, Clean
  <2> QED BY <2>1, <2>2, <2>3, <2>4, <1>7 DEF Base
<1>9. CASE run.at = "idle"
  BY <1>4, <1>8, <1>9, StartedInv DEF Started
<1>10. CASE run.at # "idle"
  <2>1. dirty' = TRUE /\ run' = run /\ run \in Run
    BY <1>4, <1>10 DEF IInv, TypeOK
  <2>2. RunSound'
    BY <1>6, <2>1 DEF facts, memory, IInv, RunSound, OpenAttempts, Consumed, PreviousIn
  <2>3. ScopeSound'
    <3>1. PICK r : r = run.scope
      OBVIOUS
    <3>2. r \in Scopes /\ run.version \in Nat /\ run.version <= version
      BY <2>1, <3>1 DEF Run, IInv, ScopeSound
    <3>3. run.version <= v
      BY <1>2, <1>5, <3>2
    <3>4. run.version = v => run.version = version /\ IsPrefix(r, s)
      BY <1>2, <1>5, <3>1, <3>2, PrefixFacts DEF IInv, ScopeSound, CurrentScope
    <3> QED BY <1>4, <1>7, <1>10, <2>1, <3>1, <3>2, <3>3, <3>4 DEF ScopeSound, CurrentScope, IInv
  <2>4. CleanupSound'
    BY <1>6, <1>10, <2>1
       DEF facts, memory, IInv, CleanupSound, Clean, TerminalTasks, ObsoleteTasks, PreviousIn
  <2> QED BY <1>8, <2>1, <2>2, <2>3, <2>4, PartsNext DEF RunPart
<1> QED BY <1>9, <1>10


\* A run that stays as it is, and a manager that stops or lets its timer go.
LEMMA RunStays ==
  ASSUME IInv, Base', UNCHANGED <<facts, plan, server, memory, run, dirty, counts>>,
         run.at # "idle" \/ ~ timer \/ timer' \/ counts.schedules = 0
  PROVE  IInv'
<1> USE DEF facts, plan, memory
<1>1. run \in Run /\ dirty \in BOOLEAN
  BY DEF IInv, TypeOK
<1>2. RunSound'
  BY DEF IInv, RunSound, OpenAttempts, Consumed, PreviousIn
<1>3. ScopeSound'
  BY DEF IInv, ScopeSound, CurrentScope
<1>4. CleanupSound'
  <2>1. counts.schedules = 0 => TerminalTasks(scope) \union ObsoleteTasks(scope, chains) = {}
    BY NothingEnded DEF IInv, ScopeSound
  <2>2. CASE counts.schedules = 0
    BY <2>1, <2>2, TimerFacts DEF IInv, CleanupSound, Clean, TerminalTasks, ObsoleteTasks, PreviousIn
  <2>3. CASE run.at # "idle" \/ ~ timer \/ timer'
    BY <2>3 DEF IInv, CleanupSound, Clean, TerminalTasks, ObsoleteTasks, PreviousIn
  <2> QED BY <2>2, <2>3
<1> QED BY <1>1, <1>2, <1>3, <1>4, PartsNext DEF RunPart

LEMMA TimerFiresInv == ASSUME IInv, TimerFires PROVE IInv'
<1>1. Base'
  BY BaseQuiet, TimerFacts DEF TimerFires
<1>2. CASE run.at = "idle" /\ counts.schedules > 0
  BY <1>1, <1>2, StartedInv DEF TimerFires, plan, Started
<1>3. CASE ~ (run.at = "idle" /\ counts.schedules > 0)
  <2>1. counts.schedules \in Nat
    BY TimerFacts DEF Counters
  <2> QED BY <1>1, <1>3, <2>1, RunStays DEF TimerFires
<1> QED BY <1>2, <1>3

LEMMA StopInv == ASSUME IInv, Stop PROVE IInv'
<1> USE DEF facts, plan, memory
<1>1. Types'
  BY DEF Stop, IInv, TypeOK, Types
<1>2. Base'
  BY <1>1 DEF Stop, IInv, Base, BoundsOK, AttemptsInOrder, ChainSound, ClaimsCount,
     ExecutedOnce, CleanupSound, ScopeSound, Clean
<1>3. run' \in Run /\ dirty' \in BOOLEAN
  BY TimerFacts DEF Stop
<1>4. RunSound'
  BY DEF Stop, IInv, RunSound, OpenAttempts, Consumed, PreviousIn
<1>5. ScopeSound'
  BY DEF Stop, IInv, ScopeSound, CurrentScope
<1>6. CleanupSound'
  BY DEF Stop, IInv, CleanupSound, Clean, TerminalTasks, ObsoleteTasks, PreviousIn
<1> QED BY <1>2, <1>3, <1>4, <1>5, <1>6, PartsNext DEF RunPart

\* The provider ends a task: nothing of the session but the task changes.
LEMMA TaskEndsInv == ASSUME IInv, TaskEnds PROVE IInv'
<1>1. PICK t \in Task, result \in {"completed", "failed"} :
        server' = [server EXCEPT ![t].task = result]
  BY DEF TaskEnds
<1>2. server \in [Task -> Session]
  BY DEF IInv, TypeOK
<1>3. server' \in [Task -> Session]
  BY <1>1, <1>2 DEF Session, TaskStatus
<1>4. \A u \in Task : server'[u].birth = server[u].birth /\ server'[u].media = server[u].media
  BY <1>1, <1>2 DEF Session
<1>5. \A u \in requests : u \in Task
  BY DEF IInv, TypeOK
<1> USE DEF facts, plan, memory
<1>6. cleaned' = cleaned /\ cleaned \subseteq requests
  BY DEF TaskEnds, IInv, TypeOK
<1>7. (\A u \in cleaned : Clean(u))'
  BY <1>4, <1>5, <1>6 DEF IInv, CleanupSound, Clean
<1>8. Base'
  BY <1>3, <1>6, <1>7, BaseMoves, TimerFacts DEF TaskEnds, IInv, TypeOK
<1>9. run' \in Run /\ dirty' \in BOOLEAN
  BY TimerFacts DEF TaskEnds
<1>10. RunSound'
  <2>1. run.task \in Task \/ run.at \notin HasSession
    BY WorkFacts DEF Working, HasSession
  <2> QED BY ZenonT(30), <1>4, <2>1 DEF TaskEnds, IInv, RunSound, OpenAttempts, Consumed, PreviousIn
<1>11. ScopeSound'
  BY DEF TaskEnds, IInv, ScopeSound, CurrentScope
<1>12. CleanupSound'
  <2>1. \A u \in requests : Clean(u)' = Clean(u)
    BY <1>4, <1>5 DEF Clean
  <2>2. \A s, c : TerminalTasks(s) \subseteq requests /\ ObsoleteTasks(s, c) \subseteq requests
    BY DEF TerminalTasks, ObsoleteTasks
  <2> QED BY <1>7, <2>1, <2>2
        DEF TaskEnds, IInv, CleanupSound, TerminalTasks, ObsoleteTasks, PreviousIn
<1> QED BY <1>8, <1>9, <1>10, <1>11, <1>12, PartsNext DEF RunPart


LEMMA ServerTasks ==
  ASSUME NEW s, NEW c
  PROVE  TerminalTasks(s) \subseteq requests /\ ObsoleteTasks(s, c) \subseteq requests
BY DEF TerminalTasks, ObsoleteTasks

\* The run goes on with its attempt, or with the next step of it.
LEMMA GoInv ==
  ASSUME IInv, Base', NEW t, run.task = t, run.at \in Working, NEW x \in Working \ {"request"},
         run' = [run EXCEPT !.at = x], dirty' = dirty, cleaned' = cleaned, counts' = counts,
         UNCHANGED <<plan, failures, checkpoint>>,
         requests' = requests \union {t},
         \A u \in Task \ {t} : server'[u] = server[u],
         x \in HasSession => server'[t].birth # 0
  PROVE  IInv'
<1> PICK s : s = run.scope
  OBVIOUS
<1> PICK c : c = run.chains
  OBVIOUS
<1> USE DEF plan
<1>1. /\ run'.at = x /\ run'.scope = s /\ run'.chains = c /\ run'.task = t
      /\ run'.todo = run.todo /\ run'.complete = run.complete /\ run'.version = run.version
      /\ run' \in Run
      /\ x \notin {"idle", "lost", "obsolete", "cleanObsolete", "clean", "cleanEnd", "written"}
  BY TimerFacts DEF Run, Working, Steps
<1>2. /\ s \in Scopes /\ t \in OpenAttempts(s) /\ t \in Task /\ t \notin cleaned
      /\ \A u \in OpenAttempts(s) : t[3] <= u[3]
  BY WorkFacts
<1>3. OpenAttempts(s)' = OpenAttempts(s)
  BY DEF OpenAttempts, Consumed, PreviousIn
<1>4. OpenAttempts(run.scope)' = OpenAttempts(s)' /\ TerminalTasks(run.scope)' = TerminalTasks(s)'
      /\ ObsoleteTasks(run.scope, run.chains)' = ObsoleteTasks(s, c)'
  BY <1>1, RunScope
<1>5. RunSound'
  <2>1. run.todo \subseteq requests'
    BY DEF IInv, RunSound
  <2> QED BY <1>1, <1>2, <1>3, <1>4, <2>1 DEF RunSound
<1>6. ScopeSound'
  BY <1>1 DEF IInv, ScopeSound, CurrentScope, Working
<1>7. CleanupSound'
  <2>1. TerminalTasks(s)' \subseteq TerminalTasks(s) /\ ObsoleteTasks(s, c)' \subseteq ObsoleteTasks(s, c)
    <3>1. t \notin failures /\ checkpoint[t[1]] = None /\ t # None /\ t[1] \in ToSet(s)
      BY <1>2, WorkFacts, TaskType
    <3>2. \A k \in 1..Len(s) : t[1] = s[k] => checkpoint[s[k]] # t
      BY <3>1
    <3>3. TerminalTasks(s)' \subseteq TerminalTasks(s)
      BY <3>1, <3>2 DEF TerminalTasks, PreviousIn
    <3>4. ObsoleteTasks(s, c)' \subseteq ObsoleteTasks(s, c)
      BY <3>1 DEF ObsoleteTasks
    <3> QED BY <3>3, <3>4
  <2>2. \A u \in TerminalTasks(s) \union ObsoleteTasks(s, c) : u \in Task /\ u # t
    BY <1>2, OpenNotEnded, ServerTasks DEF IInv, TypeOK
  <2>3. \A u \in TerminalTasks(s) \union ObsoleteTasks(s, c) : Clean(u)' = Clean(u)
    BY <2>2 DEF Clean
  <2>4. run.complete => \A u \in ObsoleteTasks(s, c) : Clean(u)
    BY DEF IInv, CleanupSound, Working
  <2>5. run.complete => \A u \in TerminalTasks(s) : Clean(u)
    BY DEF IInv, CleanupSound, Working
  <2>6. (\A u \in cleaned : Clean(u))'
    BY DEF Base
  <2> QED BY <1>1, <1>4, <2>1, <2>3, <2>4, <2>5, <2>6 DEF CleanupSound
<1> QED BY <1>1, <1>5, <1>6, <1>7, TimerFacts, PartsNext DEF RunPart

\* A run that has written a checkpoint.
LEMMA WrittenFacts ==
  ASSUME IInv, run.at = "written", NEW s, NEW t, run.scope = s, run.task = t
  PROVE  /\ s \in Scopes /\ t \in requests /\ t \in Task
         /\ \E k \in 1..Len(s) : s[k] = t[1]
<1>1. s \in Scopes /\ requests \subseteq Task
  BY DEF IInv, TypeOK, Run
<1>2. t \in requests /\ \E k \in 1..Len(s) : s[k] = t[1]
  BY DEF IInv, RunSound
<1> QED BY <1>1, <1>2

\* A run whose scope was replaced is about to be followed by another one.
LEMMA LoseScopeInv ==
  ASSUME IInv, Base', LoseScope, ~ CurrentScope, UNCHANGED plan,
         run.at \in (Working \ {"request"}) \union {"written"}, requests \subseteq requests', counts'.schedules = counts.schedules
  PROVE  IInv'
<1> USE DEF plan, LoseScope
<1>1. /\ run'.at = "lost" /\ run'.todo = {run.task} /\ run'.version = run.version
      /\ run'.scope = run.scope
  BY TimerFacts DEF Run
<1>2. run' \in Run /\ run.task \in requests
  <2>1. run.task \in requests /\ run.task \in Task
    BY WorkFacts, WrittenFacts
  <2> QED BY <2>1, TimerFacts DEF Run, Steps
<1>3. RunSound'
  BY <1>1, <1>2 DEF RunSound, Working, HasSession
<1>4. ScopeSound'
  <2>1. dirty
    BY DEF IInv, ScopeSound, Working
  <2> QED BY <1>1, <2>1 DEF IInv, ScopeSound, CurrentScope
<1>5. CleanupSound'
  BY <1>1 DEF CleanupSound, Base, Working
<1> QED BY <1>2, <1>3, <1>4, <1>5, TimerFacts, PartsNext DEF RunPart

LEMMA PendingInv ==
  ASSUME IInv, Base', Pending, run.at \in Working \ {"request"}, UNCHANGED plan,
         requests' = requests, counts'.schedules = counts.schedules
  PROVE  IInv'
<1>1. CASE CurrentScope
  BY <1>1, RetryInv DEF Pending, Working
<1>2. CASE ~ CurrentScope
  BY <1>2, LoseScopeInv DEF Pending
<1> QED BY <1>1, <1>2


\* A step that writes a fact.
LEMMA BaseFacts ==
  ASSUME IInv, UNCHANGED <<server, plan, mirror, executed, cleaned>>,
         requests \subseteq requests', requests' \subseteq Task, failures' \subseteq requests',
         checkpoint' \in [Archive -> Task \union {None}], AttemptsInOrder', ChainSound',
         timer' \in BOOLEAN, ~ (stopped /\ timer'), published' \in Seq(Archive),
         pendingCleanup' \subseteq requests',
         counts' \in Counters, counts'.schedules = counts.schedules
  PROVE  Base'
<1> USE DEF plan
<1>1. Types' /\ BoundsOK'
  BY DEF IInv, TypeOK, Types, BoundsOK, Counters
<1>2. ClaimsCount' /\ ExecutedOnce'
  BY DEF IInv, ClaimsCount, ExecutedOnce
<1>3. (counts.schedules = 0 => scope = <<>> /\ chains = {})'
  BY DEF IInv, ScopeSound
<1>4. (\A t \in cleaned : Clean(t))'
  BY DEF IInv, CleanupSound, Clean
<1> QED BY <1>1, <1>2, <1>3, <1>4 DEF Base

LEMMA MemoryFacts ==
  ASSUME IInv
  PROVE  /\ cleaned \subseteq requests /\ pendingCleanup \subseteq requests
         /\ published \in Seq(Archive) /\ requests \subseteq Task /\ failures \subseteq requests
         /\ checkpoint \in [Archive -> Task \union {None}] /\ server \in [Task -> Session]
         /\ AttemptsInOrder /\ ChainSound /\ \A t \in cleaned : Clean(t)
BY DEF IInv, TypeOK, CleanupSound

\* The advance ends without having done anything.
LEMMA PendingQuietInv ==
  ASSUME IInv, Pending, run.at \in Working \ {"request"},
         UNCHANGED <<facts, plan, server, mirror, counts, executed>>
  PROVE  IInv'
<1>1. run.task \in requests
  BY WorkFacts
<1>2. /\ timer' \in BOOLEAN /\ ~ (stopped /\ timer') /\ cleaned' = cleaned
      /\ published' = published /\ pendingCleanup' \subseteq requests
  BY <1>1, TimerFacts, MemoryFacts DEF Pending, Retry, LoseScope, memory
<1>3. (\A u \in cleaned : Clean(u))'
  BY <1>2, MemoryFacts DEF Clean
<1>4. Base'
  BY <1>2, <1>3, BaseMoves, MemoryFacts, TimerFacts
<1> QED BY <1>4, PendingInv DEF facts

LEMMA WriteRequestInv == ASSUME IInv, WriteRequest PROVE IInv'
<1> PICK t : t = run.task
  OBVIOUS
<1>0. run.at = "request" /\ run.at \in Working /\ t \in Task
  BY WorkFacts DEF WriteRequest, Working
<1>1. CASE CurrentScope
  <2>1. requests' = requests \union {t} /\ run' = [run EXCEPT !.at = "requested"] /\ dirty' = dirty
    BY <1>1 DEF WriteRequest, Requested, Go
  <2>2. requests' \subseteq Task /\ AttemptsInOrder' /\ ChainSound'
    BY <1>0, <1>1, RequestWritten DEF WriteRequest
  <2>3. Base'
    BY <2>1, <2>2, BaseFacts, MemoryFacts, TimerFacts DEF WriteRequest, memory
  <2>4. "requested" \in Working \ {"request"} /\ "requested" \notin HasSession
    BY DEF Working, HasSession
  <2> QED BY <1>0, <2>1, <2>3, <2>4, GoInv DEF WriteRequest, memory
<1>2. CASE ~ CurrentScope
  <2>1. dirty
    BY <1>0, <1>2 DEF IInv, ScopeSound
  <2>2. Base'
    BY <1>2, BaseQuiet, TimerFacts DEF WriteRequest, facts
  <2> QED BY <1>0, <1>2, <2>1, <2>2, EndRunInv DEF WriteRequest
<1> QED BY <1>1, <1>2

LEMMA OpenedFacts ==
  ASSUME IInv, NEW t \in Task, MayOpen(t)
  PROVE  /\ Opened(t) \in [Task -> Session] /\ Opened(t)[t].birth # 0
         /\ \A u \in Task \ {t} : Opened(t)[u] = server[u]
<1>0. server \in [Task -> Session] /\ MaxBirth \in Nat
  BY MemoryFacts, CheckpointsAssumption
<1>1. CASE server[t].birth # 0
  BY <1>0, <1>1 DEF Opened
<1>2. CASE server[t].birth = 0
  <2>1. server[t].last \in 0..MaxBirth /\ server[t].last < MaxBirth
    BY <1>0, <1>2 DEF MayOpen, Session
  <2>2. PICK n : n = server[t].last + 1
    OBVIOUS
  <2>3. n \in 0..MaxBirth /\ n # 0
    BY <1>0, <2>1, <2>2
  <2>4. Opened(t) = [server EXCEPT ![t] = [server[t] EXCEPT !.birth = n, !.last = n]]
    BY <1>0, <1>2, <2>2 DEF Opened
  <2>5. [server[t] EXCEPT !.birth = n, !.last = n] \in Session
    BY <1>0, <2>3 DEF Session
  <2>6. [server[t] EXCEPT !.birth = n, !.last = n].birth = n
    BY <1>0 DEF Session
  <2> QED BY <1>0, <2>3, <2>4, <2>5, <2>6
<1> QED BY <1>1, <1>2

LEMMA OpenSessionInv == ASSUME IInv, OpenSession PROVE IInv'
<1> PICK t : t = run.task
  OBVIOUS
<1>0. run.at \in Opening /\ run.at \in Working \ {"request"} /\ t \in Task /\ t \in requests /\ t \notin cleaned
  BY WorkFacts DEF OpenSession, Working, Opening
<1>1. CASE run.at = "requested" /\ ~ CurrentScope
  <2>1. dirty
    BY <1>1 DEF IInv, ScopeSound
  <2>2. EndRun /\ server' = server
    BY <1>1 DEF OpenSession
  <2>3. Base'
    BY <2>2, BaseQuiet, TimerFacts DEF OpenSession
  <2> QED BY <1>1, <2>1, <2>2, <2>3, EndRunInv DEF OpenSession
<1>2. CASE ~ (run.at = "requested" /\ ~ CurrentScope)
  <2>1. PICK x : x = IF server[t].commit THEN "poll" ELSE IF server[t].input THEN "commit"
                     ELSE IF run.at = "requested" THEN "media" ELSE "load"
    OBVIOUS
  <2>2. MayOpen(t) /\ server' = Opened(t) /\ Go(x) /\ x \in Working \ {"request"}
    BY <1>2, <2>1 DEF OpenSession, Working
  <2>3. /\ server' \in [Task -> Session] /\ server'[t].birth # 0
        /\ \A u \in Task \ {t} : server'[u] = server[u]
    BY <1>0, <2>2, OpenedFacts
  <2>4. (\A u \in cleaned : Clean(u))'
    BY <1>0, <2>3, MemoryFacts DEF OpenSession, memory, Clean
  <2>5. Base'
    BY <2>3, <2>4, BaseMoves, MemoryFacts, TimerFacts DEF OpenSession, memory
  <2>6. requests' = requests \union {t}
    BY <1>0 DEF OpenSession, facts
  <2> QED BY <1>0, <2>2, <2>3, <2>5, <2>6, GoInv DEF OpenSession, Go, memory, facts
<1> QED BY <1>1, <1>2

\* A change of the session of the attempt, which is not counted as clean.
LEMMA WorkServer ==
  ASSUME IInv, run.at \in Working \ {"request"}, NEW t, run.task = t, NEW v \in Session,
         server' = [server EXCEPT ![t] = v], UNCHANGED <<requests, cleaned>>,
         v.birth = server[t].birth
  PROVE  /\ server' \in [Task -> Session] /\ requests' = requests \union {t}
         /\ \A u \in Task \ {t} : server'[u] = server[u]
         /\ (\A u \in cleaned : Clean(u))'
         /\ run.at \in HasSession => server'[t].birth # 0
<1>1. t \in Task /\ t \in requests /\ t \notin cleaned
  BY WorkFacts
<1>2. run.at \in HasSession => server[t].birth # 0
  BY DEF IInv, RunSound
<1> QED BY <1>1, <1>2, MemoryFacts DEF Clean

LEMMA PrepareMediaInv == ASSUME IInv, PrepareMedia PROVE IInv'
<1> PICK t : t = run.task
  OBVIOUS
<1>0. run.at \in {"load", "media"} /\ run.at \in Working \ {"request"} /\ run.at \in HasSession
      /\ t \in Task /\ t \in requests /\ t \notin cleaned
  BY WorkFacts DEF PrepareMedia, Working, HasSession
<1>1. PICK v : v = [server[t] EXCEPT !.media = @ \/ HasImages(t)]
  OBVIOUS
<1>2. [server EXCEPT ![t].media = @ \/ HasImages(t)] = [server EXCEPT ![t] = v]
  BY <1>0, <1>1, MemoryFacts
<1>3. v \in Session /\ v.birth = server[t].birth
  <2>1. server[t] \in Session
    BY <1>0, MemoryFacts
  <2>2. (server[t].media \/ HasImages(t)) \in BOOLEAN
    OBVIOUS
  <2> QED BY <1>1, <2>1, <2>2 DEF Session
<1>4. CASE run.at = "load" /\ ~ CurrentScope
  <2>1. Pending /\ UNCHANGED <<server, counts>>
    BY <1>4 DEF PrepareMedia
  <2> QED BY <1>0, <2>1, PendingQuietInv DEF PrepareMedia
<1>5. CASE server' = [server EXCEPT ![t] = v] /\ Go("submit") /\ UNCHANGED <<counts, timer, memory>>
  <2>1. /\ server' \in [Task -> Session] /\ requests' = requests \union {t}
        /\ \A u \in Task \ {t} : server'[u] = server[u]
        /\ (\A u \in cleaned : Clean(u))' /\ server'[t].birth # 0
    BY <1>0, <1>3, <1>5, WorkServer DEF PrepareMedia, facts, memory
  <2>2. Base'
    BY <1>5, <2>1, BaseMoves, MemoryFacts, TimerFacts DEF PrepareMedia, memory
  <2>3. "submit" \in Working \ {"request"}
    BY DEF Working
  <2> QED BY <1>0, <1>5, <2>1, <2>2, <2>3, GoInv DEF PrepareMedia, Go, memory, facts
<1>6. CASE /\ server' \in {server, [server EXCEPT ![t] = v]}
           /\ Fault
           /\ Pending \/ (Retry /\ UNCHANGED memory)
  <2>1. /\ timer' \in BOOLEAN /\ ~ (stopped /\ timer') /\ cleaned' = cleaned
        /\ published' = published /\ pendingCleanup' \subseteq requests
    BY <1>0, <1>6, TimerFacts, MemoryFacts DEF Pending, Retry, LoseScope, memory
  <2>2. server' \in [Task -> Session] /\ (\A u \in cleaned : Clean(u))'
    <3>1. CASE server' = server
      BY <2>1, <3>1, MemoryFacts DEF Clean
    <3>2. CASE server' = [server EXCEPT ![t] = v]
      BY <1>0, <1>3, <2>1, <3>2, WorkServer DEF PrepareMedia, facts
    <3> QED BY <1>6, <3>1, <3>2
  <2>3. Base'
    BY <1>6, <2>1, <2>2, BaseMoves, MemoryFacts, TimerFacts DEF PrepareMedia
  <2>4. CASE Pending
    BY <1>0, <1>6, <2>3, <2>4, PendingInv, TimerFacts DEF PrepareMedia, facts
  <2>5. CASE Retry
    BY <1>0, <1>6, <2>3, <2>5, RetryInv DEF PrepareMedia, Working
  <2> QED BY <1>6, <2>4, <2>5
<1> QED BY <1>2, <1>4, <1>5, <1>6 DEF PrepareMedia


\* A step that claims for attempt t and executes at most what was not claimed.
LEMMA BaseClaims ==
  ASSUME IInv, UNCHANGED <<facts, plan, cleaned>>, NEW t \in Task,
         timer' \in BOOLEAN, ~ (stopped /\ timer'), published' \in Seq(Archive),
         pendingCleanup' \subseteq requests,
         server' \in [Task -> Session], (\A u \in cleaned : Clean(u))',
         counts' \in Counters, counts'.schedules = counts.schedules,
         NEW m \in Claims, mirror' = [mirror EXCEPT ![t] = m],
         NEW e \in [inputs : Nat, commits : Nat], executed' = [executed EXCEPT ![t] = e],
         e.inputs <= 1, e.commits <= 1,
         m.intent = 0 => e.inputs = 0, m.commitIntent = 0 => e.commits = 0
  PROVE  Base'
<1> USE DEF facts, plan
<1>1. mirror \in [Task -> Claims] /\ executed \in [Task -> [inputs : Nat, commits : Nat]]
  BY DEF IInv, TypeOK, BoundsOK
<1>2. mirror' \in [Task -> Claims] /\ executed' \in [Task -> [inputs : Nat, commits : Nat]]
  BY <1>1
<1>3. Types'
  BY <1>2, MemoryFacts DEF IInv, TypeOK, Types
<1>4. BoundsOK'
  BY <1>2 DEF IInv, BoundsOK, Counters
<1>5. AttemptsInOrder' /\ ChainSound'
  BY DEF IInv, AttemptsInOrder, ChainSound
<1>6. ClaimsCount'
  BY <1>1 DEF IInv, ClaimsCount
<1>7. ExecutedOnce'
  BY <1>1 DEF IInv, ExecutedOnce
<1>8. (counts.schedules = 0 => scope = <<>> /\ chains = {})'
  BY DEF IInv, ScopeSound
<1> QED BY <1>3, <1>4, <1>5, <1>6, <1>7, <1>8 DEF Base

\* What a claim of the current attempt may go along with.
LEMMA ClaimFacts ==
  ASSUME IInv, NEW t \in Task
  PROVE  /\ mirror[t] \in Claims /\ executed[t] \in [inputs : Nat, commits : Nat]
         /\ server[t] \in Session
         /\ mirror \in [Task -> Claims] /\ executed \in [Task -> [inputs : Nat, commits : Nat]]
         /\ executed[t].inputs <= 1 /\ executed[t].commits <= 1
         /\ mirror[t].intent = 0 => executed[t].inputs = 0
         /\ mirror[t].commitIntent = 0 => executed[t].commits = 0
BY DEF IInv, TypeOK, BoundsOK, ExecutedOnce, ClaimsCount

LEMMA SubmitInputInv == ASSUME IInv, SubmitInput PROVE IInv'
<1> PICK t : t = run.task
  OBVIOUS
<1>0. /\ run.at = "submit" /\ run.at \in Working \ {"request"} /\ run.at \in HasSession
      /\ t \in Task /\ t \in requests /\ server[t].birth # 0 /\ UNCHANGED <<facts, plan>>
  BY WorkFacts DEF SubmitInput, Working, HasSession, IInv, RunSound
<1>1. CASE ~ MayClaimInput(t)
  <2>1. Pending /\ UNCHANGED <<server, mirror, counts, executed>>
    BY <1>1 DEF SubmitInput
  <2> QED BY <1>0, <2>1, PendingQuietInv
<1>2. CASE MayClaimInput(t)
  <2>0. /\ mirror[t] \in Claims /\ executed[t] \in [inputs : Nat, commits : Nat]
        /\ server[t] \in Session /\ mirror[t].intent = 0 /\ executed[t].inputs = 0
        /\ executed[t].commits <= 1 /\ (mirror[t].commitIntent = 0 => executed[t].commits = 0)
        /\ server[t].birth \in 0..MaxBirth
    BY <1>0, <1>2, ClaimFacts DEF MayClaimInput, Session
  <2>1. CASE /\ server' = [server EXCEPT ![t].input = TRUE]
             /\ mirror' = [mirror EXCEPT ![t].intent = server[t].birth, ![t].ack = TRUE]
             /\ executed' = [executed EXCEPT ![t].inputs = @ + 1]
             /\ Go("commit")
             /\ UNCHANGED <<counts, timer, memory>>
    <3>1. PICK v : v = [server[t] EXCEPT !.input = TRUE]
      OBVIOUS
    <3>2. v \in Session /\ v.birth = server[t].birth /\ server' = [server EXCEPT ![t] = v]
      BY <1>0, <2>0, <2>1, <3>1, MemoryFacts DEF Session
    <3>3. PICK m : m = [mirror[t] EXCEPT !.intent = server[t].birth, !.ack = TRUE]
      OBVIOUS
    <3>4. /\ m \in Claims /\ m.intent = server[t].birth /\ m.commitIntent = mirror[t].commitIntent
          /\ mirror' = [mirror EXCEPT ![t] = m]
      BY <1>0, <2>0, <2>1, <3>3, ClaimFacts DEF Claims
    <3>5. PICK e : e = [executed[t] EXCEPT !.inputs = executed[t].inputs + 1]
      OBVIOUS
    <3>6. /\ e \in [inputs : Nat, commits : Nat] /\ e.inputs = 1 /\ e.commits = executed[t].commits
          /\ executed' = [executed EXCEPT ![t] = e]
      BY <1>0, <2>0, <2>1, <3>5, ClaimFacts
    <3>7. /\ server' \in [Task -> Session] /\ requests' = requests \union {t}
          /\ \A u \in Task \ {t} : server'[u] = server[u]
          /\ (\A u \in cleaned : Clean(u))' /\ server'[t].birth # 0
      <4>1. requests' = requests /\ cleaned' = cleaned
        BY <1>0, <2>1 DEF facts, memory
      <4> QED BY <1>0, <3>2, <4>1, WorkServer
    <3>8. Base'
      <4>1. /\ cleaned' = cleaned /\ timer' \in BOOLEAN /\ ~ (stopped /\ timer')
            /\ published' \in Seq(Archive) /\ pendingCleanup' \subseteq requests
            /\ counts' \in Counters /\ counts'.schedules = counts.schedules
        BY <2>1, MemoryFacts, TimerFacts DEF memory
      <4>2. /\ (m.intent = 0 => e.inputs = 0) /\ (m.commitIntent = 0 => e.commits = 0)
            /\ e.inputs <= 1 /\ e.commits <= 1
        BY <1>0, <2>0, <3>4, <3>6
      <4> QED BY <1>0, <3>4, <3>6, <3>7, <4>1, <4>2, BaseClaims
    <3>9. "commit" \in Working \ {"request"}
      BY DEF Working
    <3> QED BY <1>0, <2>1, <3>7, <3>8, <3>9, GoInv DEF Go, memory, facts
  <2>2. CASE /\ mirror' = [mirror EXCEPT ![t].intent = server[t].birth]
             /\ \E stored \in BOOLEAN :
                  /\ server' = [server EXCEPT ![t].input = stored]
                  /\ executed' = [executed EXCEPT ![t].inputs = IF stored THEN @ + 1 ELSE @]
             /\ Fault
             /\ Pending
    <3>0. PICK stored \in BOOLEAN :
             /\ server' = [server EXCEPT ![t].input = stored]
             /\ executed' = [executed EXCEPT ![t].inputs = IF stored THEN @ + 1 ELSE @]
      BY <2>2
    <3>1. PICK v : v = [server[t] EXCEPT !.input = stored]
      OBVIOUS
    <3>2. v \in Session /\ v.birth = server[t].birth /\ server' = [server EXCEPT ![t] = v]
      BY <1>0, <2>0, <3>0, <3>1, MemoryFacts DEF Session
    <3>3. PICK m : m = [mirror[t] EXCEPT !.intent = server[t].birth]
      OBVIOUS
    <3>4. /\ m \in Claims /\ m.intent = server[t].birth /\ m.commitIntent = mirror[t].commitIntent
          /\ mirror' = [mirror EXCEPT ![t] = m]
      BY <1>0, <2>0, <2>2, <3>3, ClaimFacts DEF Claims
    <3>5. PICK n : n = IF stored THEN executed[t].inputs + 1 ELSE executed[t].inputs
      OBVIOUS
    <3>6. PICK e : e = [executed[t] EXCEPT !.inputs = n]
      OBVIOUS
    <3>7. n \in Nat /\ n <= 1
      BY <2>0, <3>5
    <3>8. /\ e \in [inputs : Nat, commits : Nat] /\ e.inputs = n /\ e.commits = executed[t].commits
          /\ executed' = [executed EXCEPT ![t] = e]
      BY <1>0, <2>0, <3>0, <3>5, <3>6, <3>7, ClaimFacts
    <3>9. cleaned' = cleaned /\ timer' \in BOOLEAN /\ ~ (stopped /\ timer')
          /\ published' = published /\ pendingCleanup' \subseteq requests
      BY <1>0, <2>2, TimerFacts, MemoryFacts DEF Pending, Retry, LoseScope, memory
    <3>10. server' \in [Task -> Session] /\ (\A u \in cleaned : Clean(u))'
      BY <1>0, <3>2, <3>9, WorkServer DEF facts
    <3>11. Base'
      <4>1. /\ counts' \in Counters /\ counts'.schedules = counts.schedules
            /\ published' \in Seq(Archive)
        BY <2>2, <3>9, MemoryFacts, TimerFacts
      <4>2. /\ (m.intent = 0 => e.inputs = 0) /\ (m.commitIntent = 0 => e.commits = 0)
            /\ e.inputs <= 1 /\ e.commits <= 1
        BY <1>0, <2>0, <3>4, <3>7, <3>8
      <4> QED BY <1>0, <3>4, <3>8, <3>9, <3>10, <4>1, <4>2, BaseClaims
    <3> QED BY <1>0, <2>2, <3>11, PendingInv, TimerFacts DEF facts
  <2> QED BY <1>2, <2>1, <2>2 DEF SubmitInput
<1> QED BY <1>1, <1>2


LEMMA CommitSessionInv == ASSUME IInv, CommitSession PROVE IInv'
<1> PICK t : t = run.task
  OBVIOUS
<1>0. /\ run.at = "commit" /\ run.at \in Working \ {"request"} /\ run.at \in HasSession
      /\ t \in Task /\ t \in requests /\ server[t].birth # 0 /\ UNCHANGED <<facts, plan>>
  BY WorkFacts DEF CommitSession, Working, HasSession, IInv, RunSound
<1>1. CASE mirror[t].intent # server[t].birth \/ mirror[t].commitIntent # 0
  <2>1. Pending /\ UNCHANGED <<server, mirror, counts, executed>>
    BY <1>1 DEF CommitSession
  <2> QED BY <1>0, <2>1, PendingQuietInv
<1>2. CASE ~ (mirror[t].intent # server[t].birth \/ mirror[t].commitIntent # 0)
  <2>0. /\ mirror[t] \in Claims /\ executed[t] \in [inputs : Nat, commits : Nat]
        /\ server[t] \in Session /\ mirror[t].intent # 0 /\ executed[t].commits = 0
        /\ executed[t].inputs <= 1 /\ server[t].birth \in 0..MaxBirth
    BY <1>0, <1>2, ClaimFacts DEF Session
  <2>1. PICK done \in BOOLEAN :
          /\ mirror' = [mirror EXCEPT ![t].ack = TRUE, ![t].commitIntent = server[t].birth]
          /\ server' = IF done THEN [server EXCEPT ![t].commit = TRUE, ![t].task = "running"]
                       ELSE server
          /\ executed' = [executed EXCEPT ![t].commits = IF done THEN @ + 1 ELSE @]
          /\ \/ done /\ Go("poll") /\ UNCHANGED <<counts, timer, memory>>
             \/ Fault /\ Pending
    BY <1>2 DEF CommitSession
  <2>2. PICK m : m = [mirror[t] EXCEPT !.ack = TRUE, !.commitIntent = server[t].birth]
    OBVIOUS
  <2>3. /\ m \in Claims /\ m.intent = mirror[t].intent /\ m.commitIntent = server[t].birth
        /\ mirror' = [mirror EXCEPT ![t] = m]
    BY <1>0, <2>0, <2>1, <2>2, ClaimFacts DEF Claims
  <2>4. PICK n : n = IF done THEN executed[t].commits + 1 ELSE executed[t].commits
    OBVIOUS
  <2>5. n \in Nat /\ n <= 1
    BY <2>0, <2>4
  <2>6. PICK e : e = [executed[t] EXCEPT !.commits = n]
    OBVIOUS
  <2>7. /\ e \in [inputs : Nat, commits : Nat] /\ e.inputs = executed[t].inputs /\ e.commits = n
        /\ executed' = [executed EXCEPT ![t] = e]
    BY <1>0, <2>0, <2>1, <2>4, <2>5, <2>6, ClaimFacts
  <2>8. PICK v \in Session : v.birth = server[t].birth /\ server' = [server EXCEPT ![t] = v]
    <3>1. CASE done
      <4>1. PICK v : v = [server[t] EXCEPT !.commit = TRUE, !.task = "running"]
        OBVIOUS
      <4>2. v \in Session /\ v.birth = server[t].birth /\ server' = [server EXCEPT ![t] = v]
        BY <1>0, <2>0, <2>1, <3>1, <4>1, MemoryFacts DEF Session, TaskStatus
      <4> QED BY <4>2
    <3>2. CASE ~ done
      <4>1. server' = [server EXCEPT ![t] = server[t]]
        BY <1>0, <2>1, <3>2, MemoryFacts
      <4> QED BY <2>0, <4>1
    <3> QED BY <3>1, <3>2
  <2>9. /\ cleaned' = cleaned /\ timer' \in BOOLEAN /\ ~ (stopped /\ timer')
        /\ published' = published /\ pendingCleanup' \subseteq requests
        /\ counts' \in Counters /\ counts'.schedules = counts.schedules
    BY <1>0, <2>1, TimerFacts, MemoryFacts DEF Pending, Retry, LoseScope, memory
  <2>10. /\ server' \in [Task -> Session] /\ requests' = requests \union {t}
         /\ \A u \in Task \ {t} : server'[u] = server[u]
         /\ (\A u \in cleaned : Clean(u))' /\ server'[t].birth # 0
    <3>1. requests' = requests
      BY <1>0 DEF facts
    <3> QED BY <1>0, <2>8, <2>9, <3>1, WorkServer
  <2>11. Base'
    <3>1. /\ (m.intent = 0 => e.inputs = 0) /\ (m.commitIntent = 0 => e.commits = 0)
          /\ e.inputs <= 1 /\ e.commits <= 1 /\ published' \in Seq(Archive)
      BY <1>0, <2>0, <2>3, <2>5, <2>7, <2>9, MemoryFacts
    <3> QED BY <1>0, <2>3, <2>7, <2>9, <2>10, <3>1, BaseClaims
  <2>12. CASE Go("poll") /\ UNCHANGED counts
    <3>1. "poll" \in Working \ {"request"}
      BY DEF Working
    <3> QED BY <1>0, <2>9, <2>10, <2>11, <2>12, <3>1, GoInv DEF Go, facts
  <2>13. CASE Pending
    <3>1. requests' = requests
      BY <1>0 DEF facts
    <3> QED BY <1>0, <2>9, <2>11, <2>13, <3>1, PendingInv
  <2> QED BY <2>1, <2>12, <2>13
<1> QED BY <1>1, <1>2

LEMMA PollTaskInv == ASSUME IInv, PollTask \/ TaskTimesOut PROVE IInv'
<1> PICK t : t = run.task
  OBVIOUS
<1>0. /\ run.at = "poll" /\ run.at \in Working \ {"request"} /\ run.at \in HasSession
      /\ t \in Task /\ t \in requests /\ server[t].birth # 0
      /\ UNCHANGED <<facts, plan, server, mirror, counts, executed>>
  BY WorkFacts DEF PollTask, TaskTimesOut, Working, HasSession, IInv, RunSound
<1>1. CASE PollTask /\ ~ CurrentScope
  BY <1>0, <1>1, PendingQuietInv DEF PollTask, Pending
<1>2. CASE PollTask /\ CurrentScope /\ Retry
  <2>1. Pending
    BY <1>2 DEF PollTask, Pending
  <2> QED BY <1>0, <2>1, PendingQuietInv
<1>3. ASSUME NEW x \in {"checkpoint", "failure"}, Go(x), UNCHANGED <<timer, memory>> PROVE IInv'
  <2>1. Base'
    BY <1>0, <1>3, BaseQuiet, TimerFacts
  <2>2. x \in Working \ {"request"}
    BY <1>3 DEF Working
  <2> QED BY <1>0, <1>3, <2>1, <2>2, GoInv DEF Go, facts, memory
<1> QED BY <1>1, <1>2, <1>3 DEF PollTask, TaskTimesOut, Outcomes


\* The attempt of the run has ended, and is about to be cleaned.
LEMMA EndAttemptInv ==
  ASSUME IInv, Base', run.at \in {"failure", "written"}, NEW s, NEW t,
         run.scope = s, run.task = t, UNCHANGED <<requests, server, cleaned, counts, dirty, plan>>,
         run' = [run EXCEPT !.at = "cleanEnd", !.todo = {t}],
         TerminalTasks(s)' \subseteq TerminalTasks(s) \union {t}
  PROVE  IInv'
<1> USE DEF plan
<1> PICK c : c = run.chains
  OBVIOUS
<1>1. t \in requests /\ t \in Task
  BY WorkFacts, WrittenFacts DEF Working
<1>2. /\ run'.at = "cleanEnd" /\ run'.todo = {t} /\ run'.version = run.version
      /\ run'.scope = s /\ run'.chains = c /\ run'.complete = run.complete /\ run' \in Run
  <2>1. run \in Run
    BY TimerFacts
  <2> QED BY <1>1, <2>1 DEF Run, Steps
<1>3. RunSound'
  BY <1>1, <1>2 DEF RunSound, Working, HasSession
<1>4. ScopeSound'
  BY <1>1, <1>2 DEF IInv, ScopeSound, CurrentScope, Working
<1>5. CleanupSound'
  <2>1. TerminalTasks(run.scope)' = TerminalTasks(s)'
        /\ ObsoleteTasks(run.scope, run.chains)' = ObsoleteTasks(s, c)'
    BY <1>2, RunScope
  <2>2. ObsoleteTasks(s, c)' = ObsoleteTasks(s, c)
    BY DEF ObsoleteTasks
  <2>3. \A u : Clean(u)' = Clean(u)
    BY DEF Clean
  <2>4. run.complete => \A u \in ObsoleteTasks(s, c) : Clean(u)
    BY DEF IInv, CleanupSound
  <2>5. run.complete => \A u \in TerminalTasks(s) : Clean(u) \/ u = t
    BY <1>1 DEF IInv, CleanupSound, Working
  <2>6. (\A u \in cleaned : Clean(u))'
    BY DEF Base
  <2> QED BY <1>2, <2>1, <2>2, <2>3, <2>4, <2>5, <2>6 DEF CleanupSound, Working
<1> QED BY <1>2, <1>3, <1>4, <1>5, TimerFacts, PartsNext DEF RunPart

LEMMA WriteFailureInv == ASSUME IInv, WriteFailure PROVE IInv'
<1> PICK t : t = run.task
  OBVIOUS
<1> PICK s : s = run.scope
  OBVIOUS
<1>0. /\ run.at = "failure" /\ run.at \in Working \ {"request"} /\ t \in requests /\ t \in Task
      /\ failures' = failures \union {t}
      /\ UNCHANGED <<requests, checkpoint, server, mirror, plan, timer, counts, executed>>
  BY WorkFacts DEF WriteFailure, Failed, Working
<1>1. failures' \subseteq requests' /\ AttemptsInOrder' /\ ChainSound'
  BY <1>0, FailureWritten DEF Failed
<1>2. Base'
  <2>1. cleaned' = cleaned /\ pendingCleanup' = pendingCleanup \union {t} /\ published' = published
    BY DEF WriteFailure, EndAttempt, LoseScope
  <2> QED BY <1>0, <1>1, <2>1, BaseFacts, MemoryFacts, TimerFacts
<1>3. CASE CurrentScope
  <2>1. run' = [run EXCEPT !.at = "cleanEnd", !.todo = {t}] /\ UNCHANGED <<dirty, cleaned>>
    BY <1>3 DEF WriteFailure, EndAttempt
  <2>2. TerminalTasks(s)' \subseteq TerminalTasks(s) \union {t}
    BY <1>0 DEF TerminalTasks, PreviousIn
  <2> QED BY <1>0, <1>2, <2>1, <2>2, EndAttemptInv
<1>4. CASE ~ CurrentScope
  BY <1>0, <1>2, <1>4, LoseScopeInv DEF WriteFailure
<1> QED BY <1>3, <1>4

\* The checkpoint is stored: the attempt has ended, and its resources are left.
LEMMA WriteCheckpointInv == ASSUME IInv, WriteCheckpoint PROVE IInv'
<1> PICK t : t = run.task
  OBVIOUS
<1> PICK s : s = run.scope
  OBVIOUS
<1> PICK c : c = run.chains
  OBVIOUS
<1>0. /\ run.at = "checkpoint" /\ t \in requests /\ t \in Task /\ s \in Scopes
      /\ \E k \in 1..Len(s) : s[k] = t[1]
      /\ UNCHANGED <<requests, failures, server, mirror, plan, timer, memory, counts, executed>>
  BY WorkFacts DEF WriteCheckpoint, Working
<1>1. /\ checkpoint' = [checkpoint EXCEPT ![t[1]] = t]
      /\ run' = [run EXCEPT !.at = "written"] /\ dirty' = dirty
  BY DEF WriteCheckpoint, Go
<1>2. checkpoint' \in [Archive -> Task \union {None}] /\ AttemptsInOrder' /\ ChainSound'
  BY <1>0, <1>1, CheckpointWritten
<1>3. Base'
  BY <1>0, <1>1, <1>2, BaseFacts, MemoryFacts, TimerFacts DEF memory
<1>4. /\ run'.at = "written" /\ run'.scope = s /\ run'.chains = c /\ run'.task = t
      /\ run'.todo = run.todo /\ run'.complete = run.complete /\ run'.version = run.version
      /\ run' \in Run
  BY <1>1, TimerFacts DEF Run, Steps
<1>5. RunSound'
  <2>1. run.todo \subseteq requests
    BY DEF IInv, RunSound
  <2> QED BY <1>0, <1>4, <2>1 DEF RunSound, Working, HasSession
<1>6. ScopeSound'
  BY <1>0, <1>1, <1>4 DEF IInv, ScopeSound, CurrentScope, plan
<1>7. CleanupSound'
  <2>1. TerminalTasks(s)' \subseteq TerminalTasks(s) \union {t}
    <3>1. \A a \in Archive : checkpoint'[a] = t \/ checkpoint'[a] = checkpoint[a]
      BY <1>1, MemoryFacts
    <3>2. \A j \in 1..Len(s) : s[j] \in Archive
      BY <1>0, ScopeType
    <3> QED BY <1>0, <3>1, <3>2 DEF TerminalTasks, PreviousIn
  <2>2. TerminalTasks(run.scope)' = TerminalTasks(s)'
        /\ ObsoleteTasks(run.scope, run.chains)' = ObsoleteTasks(s, c)'
    BY <1>4, RunScope
  <2>3. ObsoleteTasks(s, c)' = ObsoleteTasks(s, c)
    BY <1>0 DEF ObsoleteTasks
  <2>4. \A u : Clean(u)' = Clean(u)
    BY <1>0 DEF Clean
  <2>5. run.complete => /\ \A u \in ObsoleteTasks(s, c) : Clean(u)
                        /\ \A u \in TerminalTasks(s) : Clean(u)
    BY <1>0 DEF IInv, CleanupSound, Working
  <2>6. (\A u \in cleaned : Clean(u))'
    BY <1>3 DEF Base
  <2> QED BY <1>4, <2>1, <2>2, <2>3, <2>4, <2>5, <2>6 DEF CleanupSound, Working
<1> QED BY <1>1, <1>3, <1>4, <1>5, <1>6, <1>7, TimerFacts, PartsNext DEF RunPart

\* What a run that has written a checkpoint publishes: a part of its scope.
LEMMA ConsumedByRunFacts ==
  ASSUME IInv, run.at = "written", NEW s, run.scope = s
  PROVE  \E k \in 1..Len(s) : ConsumedByRun = SubSeq(s, 1, k)
<1> PICK t : t = run.task
  OBVIOUS
<1> PICK k : k = CHOOSE j \in 1..Len(s) : s[j] = t[1]
  OBVIOUS
<1>1. k \in 1..Len(s)
  BY WrittenFacts
<1>2. ConsumedByRun = SubSeq(s, 1, k)
  BY DEF ConsumedByRun
<1> QED BY <1>1, <1>2

LEMMA PublishCheckpointInv == ASSUME IInv, PublishCheckpoint PROVE IInv'
<1> PICK t : t = run.task
  OBVIOUS
<1> PICK s : s = run.scope
  OBVIOUS
<1>0. /\ run.at = "written" /\ t \in requests /\ t \in Task /\ s \in Scopes
      /\ UNCHANGED <<facts, server, mirror, plan, timer, counts, executed>>
  BY WrittenFacts DEF PublishCheckpoint
<1>1. /\ cleaned' = cleaned /\ pendingCleanup' = pendingCleanup \union {t}
      /\ published' = IF CurrentScope THEN ConsumedByRun ELSE published
  BY DEF PublishCheckpoint, EndAttempt, LoseScope
<1>2. published' \in Seq(Archive)
  <2>1. PICK k \in 1..Len(s) : ConsumedByRun = SubSeq(s, 1, k)
    BY <1>0, ConsumedByRunFacts
  <2>2. SubSeq(s, 1, k) \in Seq(Archive)
    BY <1>0, <2>1, ScopeType
  <2> QED BY <1>1, <2>1, <2>2, MemoryFacts
<1>3. (\A u \in cleaned : Clean(u))'
  BY <1>0, <1>1, MemoryFacts DEF Clean
<1>4. Base'
  BY <1>0, <1>1, <1>2, <1>3, BaseMoves, MemoryFacts, TimerFacts
<1>5. CASE CurrentScope
  <2>1. run' = [run EXCEPT !.at = "cleanEnd", !.todo = {t}] /\ dirty' = dirty
    BY <1>5 DEF PublishCheckpoint, EndAttempt
  <2>2. TerminalTasks(s)' \subseteq TerminalTasks(s) \union {t}
    BY <1>0 DEF TerminalTasks, PreviousIn, facts
  <2> QED BY <1>0, <1>1, <1>4, <2>1, <2>2, EndAttemptInv DEF facts
<1>6. CASE ~ CurrentScope
  BY <1>0, <1>4, <1>6, LoseScopeInv DEF PublishCheckpoint, facts
<1> QED BY <1>5, <1>6

LEMMA ReadSourceAgainInv == ASSUME IInv, ReadSourceAgain PROVE IInv'
<1>1. Pending
  BY DEF ReadSourceAgain, Pending
<1> QED BY <1>1, PendingQuietInv DEF ReadSourceAgain, Working


LEMMA RequestFailsInv == ASSUME IInv, RequestFails PROVE IInv'
<1> PICK t : t = run.task
  OBVIOUS
<1>0. /\ run.at \in {"obsolete", "scan", "request", "poll", "failure", "checkpoint", "written"}
                     \union Opening
      /\ Fault /\ UNCHANGED <<mirror, plan, executed>>
      /\ counts' \in Counters /\ counts'.schedules = counts.schedules
  BY TimerFacts DEF RequestFails
<1>1. CASE run.at \in {"poll"} \union Opening
  <2>1. /\ UNCHANGED facts /\ Pending
        /\ server' = server \/ (run.at \in Opening /\ MayOpen(t) /\ server' = Opened(t))
    BY <1>1 DEF RequestFails, Opening, facts
  <2>2. /\ run.at \in Working \ {"request"} /\ t \in Task /\ t \in requests /\ t \notin cleaned
    BY <1>1, WorkFacts DEF Working, Opening
  <2>3. /\ timer' \in BOOLEAN /\ ~ (stopped /\ timer') /\ cleaned' = cleaned
        /\ published' = published /\ pendingCleanup' \subseteq requests
    BY <2>1, <2>2, TimerFacts, MemoryFacts DEF Pending, Retry, LoseScope, memory
  <2>4. server' \in [Task -> Session] /\ \A u \in cleaned : server'[u] = server[u]
    BY <2>1, <2>2, OpenedFacts, MemoryFacts
  <2>5. (\A u \in cleaned : Clean(u))'
    BY <2>3, <2>4, MemoryFacts DEF Clean
  <2>6. Base'
    BY <1>0, <2>1, <2>3, <2>4, <2>5, BaseMoves, MemoryFacts
  <2> QED BY <1>0, <2>1, <2>2, <2>6, PendingInv DEF facts
<1>2. CASE run.at \in {"obsolete", "scan", "request", "failure", "checkpoint", "written"}
  <2>1. /\ Retry /\ UNCHANGED memory /\ server' = server
    BY <1>2 DEF RequestFails, Opening
  <2>2. /\ requests' = requests \/ (run.at = "request" /\ requests' = Requested(t))
        /\ failures' = failures \/ (run.at = "failure" /\ failures' = Failed(t))
        /\ checkpoint' = checkpoint
           \/ (run.at = "checkpoint" /\ checkpoint' = [checkpoint EXCEPT ![t[1]] = t])
    BY DEF RequestFails
  <2>3. /\ requests \subseteq requests' /\ requests' \subseteq Task /\ failures' \subseteq requests'
        /\ checkpoint' \in [Archive -> Task \union {None}] /\ AttemptsInOrder' /\ ChainSound'
    <3>1. CASE UNCHANGED facts
      BY <3>1, MemoryFacts DEF facts, AttemptsInOrder, ChainSound
    <3>2. CASE run.at = "request" /\ requests' = Requested(t) /\ UNCHANGED <<failures, checkpoint>>
      BY <3>2, RequestWritten, MemoryFacts DEF Requested
    <3>3. CASE run.at = "failure" /\ failures' = Failed(t) /\ UNCHANGED <<requests, checkpoint>>
      BY <3>3, FailureWritten, MemoryFacts
    <3>4. CASE /\ run.at = "checkpoint" /\ checkpoint' = [checkpoint EXCEPT ![t[1]] = t]
               /\ UNCHANGED <<requests, failures>>
      BY <3>4, CheckpointWritten, MemoryFacts
    <3> QED BY <1>2, <2>2, <3>1, <3>2, <3>3, <3>4 DEF facts
  <2>4. Base'
    BY <1>0, <2>1, <2>3, BaseFacts, MemoryFacts, TimerFacts DEF Retry, memory
  <2> QED BY <1>0, <1>2, <2>1, <2>4, RetryInv
<1> QED BY <1>0, <1>1, <1>2

\* What a run does between attempts: it stays in the same scope, and what it
\* adds to do was requested.
LEMMA TidyInv ==
  ASSUME IInv, Base', NEW x \in {"cleanObsolete", "clean", "cleanEnd", "scan", "lost"},
         NEW d \in SUBSET requests, NEW b \in BOOLEAN,
         run' = [run EXCEPT !.at = x, !.todo = d, !.complete = b],
         run.at # "idle", x = "lost" => run.at = "lost",
         dirty' = dirty, counts' = counts, UNCHANGED <<facts, plan>>,
         CleanupSound'
  PROVE  IInv'
<1>1. run \in Run /\ requests \subseteq Task
  BY TimerFacts, MemoryFacts
<1>2. /\ run'.at = x /\ run'.todo = d /\ run'.version = run.version
      /\ run'.scope = run.scope /\ run'.chains = run.chains /\ run' \in Run
  BY <1>1 DEF Run, Steps
<1>3. RunSound'
  BY <1>2 DEF RunSound, Working, HasSession, facts
<1>4. ScopeSound'
  BY <1>2 DEF IInv, ScopeSound, CurrentScope, plan
<1> QED BY <1>2, <1>3, <1>4, TimerFacts, PartsNext DEF RunPart

LEMMA ReadObsoleteInv == ASSUME IInv, ReadObsolete PROVE IInv'
<1> PICK s : s = run.scope
  OBVIOUS
<1> PICK c : c = run.chains
  OBVIOUS
<1> PICK d : d = ObsoleteTasks(s, c)
  OBVIOUS
<1>0. /\ run.at = "obsolete" /\ d \in SUBSET requests
      /\ UNCHANGED <<facts, server, mirror, plan, timer, cleaned, published, counts, executed>>
  BY ServerTasks DEF ReadObsolete
<1>1. CASE CurrentScope
  <2>1. /\ run' = [run EXCEPT !.at = "cleanObsolete", !.todo = d] /\ dirty' = dirty
        /\ pendingCleanup' = pendingCleanup \union d
    BY <1>1 DEF ReadObsolete
  <2>2. (\A u \in cleaned : Clean(u))'
    BY <1>0, MemoryFacts DEF Clean
  <2>3. Base'
    BY <1>0, <2>1, <2>2, BaseMoves, MemoryFacts, TimerFacts
  <2>4. /\ run \in Run /\ run.complete \in BOOLEAN
        /\ run' = [run EXCEPT !.at = "cleanObsolete", !.todo = d, !.complete = run.complete]
    BY <2>1, TimerFacts DEF Run
  <2>5. /\ run'.at = "cleanObsolete" /\ run'.todo = d /\ run'.scope = s /\ run'.chains = c
    BY <2>1, <2>4 DEF Run
  <2>6. ObsoleteTasks(run.scope, run.chains)' = d
    BY <1>0, <2>5, RunScope, FactsStay
  <2>7. CleanupSound'
    BY <2>2, <2>5, <2>6 DEF CleanupSound, Working
  <2> QED BY <1>0, <2>1, <2>3, <2>4, <2>7, TidyInv
<1>2. CASE ~ CurrentScope
  <2>1. dirty
    BY <1>0, <1>2 DEF IInv, ScopeSound
  <2>2. EndRun /\ UNCHANGED pendingCleanup
    BY <1>2 DEF ReadObsolete
  <2>3. Base'
    BY <1>0, <2>2, BaseQuiet, TimerFacts DEF memory
  <2> QED BY <1>0, <2>1, <2>2, <2>3, EndRunInv
<1> QED BY <1>1, <1>2


\* A cleanup touches one session, of an attempt that was not known to be clean.
LEMMA CleanupAttemptInv == ASSUME IInv, CleanupAttempt PROVE IInv'
<1> PICK s : s = run.scope
  OBVIOUS
<1> PICK c : c = run.chains
  OBVIOUS
<1> PICK x : x = run.at
  OBVIOUS
<1> PICK b : b = run.complete
  OBVIOUS
<1>1. PICK t \in run.todo :
        /\ run' = [run EXCEPT !.todo = @ \ {t}]
        /\ IF t \in cleaned THEN UNCHANGED <<server, cleaned, pendingCleanup>>
           ELSE /\ server' = [server EXCEPT ![t] = Gone(@)]
                /\ cleaned' = cleaned \union {t}
                /\ pendingCleanup' = pendingCleanup \ {t}
  BY DEF CleanupAttempt
<1> PICK d : d = run.todo \ {t}
  OBVIOUS
<1>2. /\ run \in Run /\ x \in {"cleanObsolete", "clean", "cleanEnd", "lost"} /\ b \in BOOLEAN
      /\ run.todo \subseteq requests /\ d \in SUBSET requests /\ t \in requests /\ t \in Task
      /\ UNCHANGED <<facts, mirror, plan, dirty, timer, published, counts, executed>>
  BY TimerFacts, MemoryFacts DEF IInv, RunSound, CleanupAttempt, Cleaning, Run
<1>3. /\ run' = [run EXCEPT !.at = x, !.todo = d, !.complete = b]
      /\ run'.at = x /\ run'.todo = d /\ run'.scope = s /\ run'.chains = c /\ run'.complete = b
  BY <1>1, <1>2 DEF Run
<1>4. /\ server' \in [Task -> Session] /\ Clean(t)' /\ \A u \in Task : Clean(u) => Clean(u)'
      /\ cleaned' = cleaned \union {t} /\ pendingCleanup' \subseteq requests
  <2>1. CASE t \in cleaned
    BY <1>1, <2>1, MemoryFacts DEF Clean
  <2>2. CASE t \notin cleaned
    <3>1. Gone(server[t]) \in Session /\ Gone(server[t]).birth = 0 /\ ~ Gone(server[t]).media
      <4>1. server[t].last \in 0..MaxBirth /\ 0 \in 0..MaxBirth
        BY <1>2, MemoryFacts, CheckpointsAssumption DEF Session
      <4> QED BY <4>1 DEF Gone, Session, TaskStatus
    <3>2. server'[t] = Gone(server[t]) /\ \A u \in Task \ {t} : server'[u] = server[u]
      BY <1>1, <1>2, <2>2, MemoryFacts
    <3>3. server' \in [Task -> Session]
      BY <1>1, <1>2, <2>2, <3>1, MemoryFacts
    <3>4. Clean(t)' /\ \A u \in Task : Clean(u) => Clean(u)'
      BY <3>1, <3>2 DEF Clean
    <3> QED BY <1>1, <2>2, <3>3, <3>4, MemoryFacts
  <2> QED BY <2>1, <2>2
<1>5. (\A u \in cleaned : Clean(u))'
  BY <1>4, MemoryFacts
<1>6. Base'
  BY <1>2, <1>4, <1>5, BaseMoves, MemoryFacts, TimerFacts
<1>7. CleanupSound'
  <2>1. /\ TerminalTasks(run.scope)' = TerminalTasks(s)
        /\ ObsoleteTasks(run.scope, run.chains)' = ObsoleteTasks(s, c)
    BY <1>2, <1>3, RunScope, FactsStay
  <2>2. TerminalTasks(s) \subseteq Task /\ ObsoleteTasks(s, c) \subseteq Task
    BY ServerTasks, MemoryFacts
  <2>3. b /\ x # "lost" => \A u \in ObsoleteTasks(s, c) : Clean(u) \/ (x = "cleanObsolete" /\ u \in run.todo)
    BY <1>2 DEF IInv, CleanupSound
  <2>4. b /\ x \in {"clean", "cleanEnd"} =>
          \A u \in TerminalTasks(s) : Clean(u) \/ (x \in {"clean", "cleanEnd"} /\ u \in run.todo)
    BY <1>2 DEF IInv, CleanupSound
  <2>5. \A u \in Task : Clean(u) \/ u \in run.todo => Clean(u)' \/ u \in d
    BY <1>4
  <2>6. b /\ x # "lost" => \A u \in ObsoleteTasks(s, c) : Clean(u)' \/ (x = "cleanObsolete" /\ u \in d)
    BY <1>4, <2>2, <2>3, <2>5
  <2>7. b /\ x \in {"clean", "cleanEnd"} => \A u \in TerminalTasks(s) : Clean(u)' \/ u \in d
    BY <2>2, <2>4, <2>5
  <2> QED BY <1>2, <1>3, <1>5, <2>1, <2>6, <2>7 DEF CleanupSound, Working
<1> QED BY <1>2, <1>3, <1>6, <1>7, TidyInv

LEMMA CleanupFailsInv == ASSUME IInv, CleanupFails PROVE IInv'
<1> PICK x : x = run.at
  OBVIOUS
<1>0. PICK t \in run.todo \ cleaned :
        /\ run' = [run EXCEPT !.todo = @ \ {t}, !.complete = FALSE]
        /\ \E left \in Leftovers(server[t]) : server' = [server EXCEPT ![t] = left]
  BY DEF CleanupFails
<1>1. PICK left \in Leftovers(server[t]) : server' = [server EXCEPT ![t] = left]
  BY <1>0
<1> PICK d : d = run.todo \ {t}
  OBVIOUS
<1>2. /\ run \in Run /\ x \in {"cleanObsolete", "clean", "cleanEnd", "lost"}
      /\ run.todo \subseteq requests /\ d \in SUBSET requests /\ t \in requests /\ t \in Task
      /\ UNCHANGED <<facts, mirror, plan, dirty, memory, executed>> /\ Fault /\ SetTimer
  BY <1>0, TimerFacts, MemoryFacts DEF IInv, RunSound, CleanupFails, Cleaning
<1>3. /\ run' = [run EXCEPT !.at = x, !.todo = d, !.complete = FALSE]
      /\ run'.at = x /\ ~ run'.complete
  BY <1>0, <1>2 DEF Run
<1>4. left \in Session
  <2>1. server[t] \in Session /\ server[t].last \in 0..MaxBirth /\ 0 \in 0..MaxBirth
    BY <1>2, MemoryFacts, CheckpointsAssumption DEF Session
  <2>2. Gone(server[t]) \in Session
    BY <2>1 DEF Gone, Session, TaskStatus
  <2>3. [Gone(server[t]) EXCEPT !.media = server[t].media] \in Session
    BY <2>1, <2>2 DEF Session
  <2>4. [server[t] EXCEPT !.media = FALSE] \in Session
    BY <2>1 DEF Session
  <2> QED BY <1>1, <2>1, <2>2, <2>3, <2>4 DEF Leftovers
<1>5. server' \in [Task -> Session] /\ \A u \in Task \ {t} : server'[u] = server[u]
  BY <1>1, <1>2, <1>4, MemoryFacts
<1>6. (\A u \in cleaned : Clean(u))'
  BY <1>0, <1>2, <1>5, MemoryFacts DEF memory, Clean
<1>7. Base'
  BY <1>2, <1>5, <1>6, BaseMoves, MemoryFacts, TimerFacts DEF memory
<1>8. CleanupSound'
  BY <1>3, <1>6 DEF CleanupSound
<1>9. UNCHANGED <<facts, plan>> /\ dirty' = dirty
  BY <1>2
<1>10. /\ run'.todo = d /\ run'.version = run.version /\ run'.scope = run.scope
       /\ run'.chains = run.chains /\ run' \in Run
  BY <1>2, <1>3, MemoryFacts DEF Run, Steps
<1>11. RunSound'
  BY <1>2, <1>3, <1>10 DEF RunSound, Working, HasSession, facts
<1>12. ScopeSound'
  <2>1. counts'.schedules = counts.schedules
    BY <1>2, TimerFacts
  <2> QED BY <1>2, <1>3, <1>10, <2>1 DEF IInv, ScopeSound, CurrentScope, plan
<1> QED BY <1>7, <1>8, <1>9, <1>10, <1>11, <1>12, TimerFacts, PartsNext DEF RunPart

LEMMA ScanFactsInv == ASSUME IInv, ScanFacts PROVE IInv'
<1> PICK s : s = run.scope
  OBVIOUS
<1> PICK c : c = run.chains
  OBVIOUS
<1> PICK b : b = run.complete
  OBVIOUS
<1> PICK d : d = pendingCleanup \union TerminalTasks(s)
  OBVIOUS
<1>0. /\ run.at = "scan" /\ d \in SUBSET requests /\ run \in Run /\ b \in BOOLEAN /\ s \in Scopes
      /\ UNCHANGED <<facts, server, mirror, plan, timer, cleaned, pendingCleanup, counts, executed>>
  BY ServerTasks, MemoryFacts, TimerFacts DEF ScanFacts, Run
<1>1. CASE CurrentScope
  <2>1. /\ run' = [run EXCEPT !.at = "clean", !.todo = d] /\ dirty' = dirty
        /\ published' = SubSeq(s, 1, Consumed(s))
    BY <1>1 DEF ScanFacts, MayPublish
  <2>2. published' \in Seq(Archive)
    BY <1>0, <2>1, ConsumedFacts, ScopeType DEF IInv
  <2>3. (\A u \in cleaned : Clean(u))'
    BY <1>0, MemoryFacts DEF Clean
  <2>4. Base'
    BY <1>0, <2>1, <2>2, <2>3, BaseMoves, MemoryFacts, TimerFacts
  <2>5. /\ run' = [run EXCEPT !.at = "clean", !.todo = d, !.complete = b]
        /\ run'.at = "clean" /\ run'.todo = d /\ run'.scope = s /\ run'.chains = c /\ run'.complete = b
    BY <1>0, <2>1 DEF Run
  <2>6. /\ TerminalTasks(run.scope)' = TerminalTasks(s)
        /\ ObsoleteTasks(run.scope, run.chains)' = ObsoleteTasks(s, c)
    BY <1>0, <2>5, RunScope, FactsStay
  <2>7. b => \A u \in ObsoleteTasks(s, c) : Clean(u)'
    BY <1>0 DEF IInv, CleanupSound, Clean
  <2>8. CleanupSound'
    BY <2>3, <2>5, <2>6, <2>7 DEF CleanupSound, Working
  <2> QED BY <1>0, <2>1, <2>4, <2>5, <2>8, TidyInv
<1>2. CASE ~ CurrentScope
  <2>1. dirty
    BY <1>0, <1>2 DEF IInv, ScopeSound
  <2>2. EndRun /\ UNCHANGED published
    BY <1>2 DEF ScanFacts, MayPublish
  <2>3. Base'
    BY <1>0, <2>2, BaseQuiet, TimerFacts DEF memory
  <2> QED BY <1>0, <2>1, <2>2, <2>3, EndRunInv
<1> QED BY <1>1, <1>2


LEMMA AfterCleanupInv == ASSUME IInv, AfterCleanup PROVE IInv'
<1> PICK s : s = run.scope
  OBVIOUS
<1> PICK c : c = run.chains
  OBVIOUS
<1>0. /\ run.at \in {"cleanObsolete", "clean", "cleanEnd", "lost"} /\ run \in Run /\ s \in Scopes
      /\ run.at \notin Working /\ run.at # "idle" /\ run.complete \in BOOLEAN
      /\ run.todo = {} \/ (run.at = "cleanObsolete" /\ ~ CurrentScope)
      /\ cleaned' = (IF run'.at = "open" THEN cleaned \ {run'.task} ELSE cleaned)
      /\ UNCHANGED <<facts, server, mirror, plan, timer, pendingCleanup, published, counts, executed>>
  BY TimerFacts DEF AfterCleanup, Cleaning, Working, Run
<1>1. cleaned' \subseteq cleaned /\ (\A u \in cleaned : Clean(u))'
  <2>1. cleaned' \subseteq cleaned
    BY <1>0
  <2> QED BY <1>0, <2>1, MemoryFacts DEF Clean
<1>2. Base'
  BY <1>0, <1>1, BaseMoves, MemoryFacts, TimerFacts
<1>3. CASE ~ run.complete \/ ~ CurrentScope \/ run.at = "lost"
  <2>1. ~ run.complete \/ dirty
    BY <1>0, <1>3 DEF IInv, ScopeSound
  <2> QED BY <1>0, <1>2, <1>3, <2>1, EndRunInv DEF AfterCleanup
<1>4. CASE run.complete /\ CurrentScope /\ run.at # "lost"
  <2>0. run.todo = {}
    BY <1>0, <1>4
  <2>1. \A u \in ObsoleteTasks(s, c) : Clean(u)
    BY <1>0, <1>4, <2>0 DEF IInv, CleanupSound
  <2>2. CASE run.at \in {"cleanObsolete", "cleanEnd"} /\ stopped
    BY <1>0, <1>2, <1>4, <2>2, EndRunInv DEF AfterCleanup
  <2>3. CASE run.at \in {"cleanObsolete", "cleanEnd"} /\ ~ stopped
    <3>1. Go("scan")
      BY <1>0, <1>4, <2>3 DEF AfterCleanup
    <3>2. /\ run' = [run EXCEPT !.at = "scan", !.todo = {}, !.complete = run.complete]
          /\ dirty' = dirty /\ run'.at = "scan" /\ run'.scope = s /\ run'.chains = c
      BY <1>0, <2>0, <3>1 DEF Go, Run
    <3>3. ObsoleteTasks(run.scope, run.chains)' = ObsoleteTasks(s, c)
      BY <1>0, <3>2, RunScope, FactsStay
    <3>4. CleanupSound'
      BY <1>0, <1>1, <2>1, <3>2, <3>3 DEF CleanupSound, Working, Clean
    <3> QED BY <1>0, <1>2, <3>2, <3>4, TidyInv
  <2>4. CASE run.at = "clean"
    <3>1. \A u \in TerminalTasks(s) : Clean(u)
      BY <1>0, <1>4, <2>0, <2>4 DEF IInv, CleanupSound
    <3>2. CASE CaughtUp(s) \/ Exhausted(s)
      <4>1. EndRun
        BY <1>4, <2>4, <3>2 DEF AfterCleanup
      <4>2. CASE dirty
        BY <1>0, <1>2, <4>1, <4>2, EndRunInv
      <4>3. CASE ~ dirty
        <5>1. scope = s /\ chains = c
          BY <1>0, <4>3 DEF IInv, ScopeSound
        <5>2. scope' = s /\ chains' = c
          BY <1>0, <5>1 DEF plan
        <5>3. TerminalTasks(scope)' = TerminalTasks(s) /\ ObsoleteTasks(scope, chains)' = ObsoleteTasks(s, c)
          BY <1>0, <5>2, PlanScope, FactsStay
        <5>4. \A t \in TerminalTasks(scope)' \union ObsoleteTasks(scope, chains)' : Clean(t)'
          BY <1>0, <2>1, <3>1, <5>3 DEF Clean
        <5> QED BY <1>0, <1>2, <4>1, <5>4, EndRunInv
      <4> QED BY <4>2, <4>3
    <3>3. CASE ~ CaughtUp(s) /\ ~ Exhausted(s)
      <4>1. PICK t : t = CurrentTask(s)
        OBVIOUS
      <4>2. t \in OpenAttempts(s) /\ \A u \in OpenAttempts(s) : t[3] <= u[3]
        BY <1>0, <3>3, <4>1, OpenUnlessDone, CurrentTaskFacts DEF IInv
      <4>3. t \in Task
        BY <1>0, <4>2, OpenFacts DEF IInv
      <4>4. PICK x : x = IF t \in requests THEN "open" ELSE "request"
        OBVIOUS
      <4>5. run' = [run EXCEPT !.task = t, !.at = x] /\ dirty' = dirty
        BY <1>4, <2>4, <3>3, <4>1, <4>4 DEF AfterCleanup
      <4>6. /\ run'.at = x /\ run'.task = t /\ run'.scope = s /\ run'.chains = c /\ run'.todo = {}
            /\ run'.version = run.version /\ run'.complete = run.complete /\ run' \in Run
        BY <1>0, <2>0, <4>3, <4>4, <4>5 DEF Run, Steps
      <4>7. /\ t \notin cleaned' /\ x \in Working /\ x \notin HasSession /\ x # "written"
            /\ x \in Working \ {"request"} => t \in requests'
        BY <1>0, <4>4, <4>6, MemoryFacts DEF Working, HasSession, facts
      <4>8. /\ OpenAttempts(run.scope)' = OpenAttempts(s)
            /\ TerminalTasks(run.scope)' = TerminalTasks(s)
            /\ ObsoleteTasks(run.scope, run.chains)' = ObsoleteTasks(s, c)
        BY <1>0, <4>6, RunScope, FactsStay
      <4>9. RunSound'
        BY <4>2, <4>6, <4>7, <4>8 DEF RunSound
      <4>10. ScopeSound'
        BY <1>0, <4>4, <4>5, <4>6 DEF IInv, ScopeSound, CurrentScope, plan
      <4>11. CleanupSound'
        BY <1>0, <1>1, <2>1, <3>1, <4>4, <4>6, <4>8 DEF CleanupSound, Clean
      <4> QED BY <1>2, <4>5, <4>6, <4>9, <4>10, <4>11, TimerFacts, PartsNext DEF RunPart
    <3> QED BY <3>2, <3>3
  <2> QED BY <1>0, <1>4, <2>2, <2>3, <2>4
<1> QED BY <1>0, <1>3, <1>4

LEMMA RestartInv == ASSUME IInv, Restart PROVE IInv'
<1>0. /\ counts' = [counts EXCEPT !.restarts = @ + 1]
      /\ scope' = <<>> /\ version' = 0 /\ chains' = {} /\ stopped' = FALSE
      /\ run' = Idle /\ dirty' = FALSE /\ timer' = FALSE
      /\ cleaned' = {} /\ pendingCleanup' = {} /\ published' = <<>>
      /\ UNCHANGED <<requests, failures, checkpoint, server, mirror, executed>>
  BY DEF Restart, facts
<1>1. counts' \in Counters /\ counts'.schedules = counts.schedules /\ counts.schedules \in Nat
  BY <1>0, TimerFacts DEF Counters
<1>2. <<>> \in Scopes /\ 0 \in 0..MaxSchedules /\ <<>> \in Seq(Archive)
  BY CheckpointsAssumption
<1>3. Types'
  BY <1>0, <1>2 DEF IInv, TypeOK, Types
<1>4. BoundsOK'
  BY <1>0, <1>1 DEF IInv, BoundsOK, Counters
<1>5. AttemptsInOrder' /\ ChainSound' /\ ClaimsCount' /\ ExecutedOnce'
  BY <1>0 DEF IInv, AttemptsInOrder, ChainSound, ClaimsCount, ExecutedOnce
<1>6. Base'
  BY <1>0, <1>3, <1>4, <1>5 DEF Base
<1>7. /\ run'.at = "idle" /\ run'.version = 0 /\ run'.scope = <<>> /\ run'.chains = {}
      /\ run'.todo = {} /\ run' \in Run
  BY <1>0, <1>2 DEF Idle, Run, Steps
<1>8. RunSound'
  BY <1>7 DEF RunSound, Working, HasSession
<1>9. ScopeSound'
  BY <1>0, <1>2, <1>7, PrefixFacts DEF ScopeSound, CurrentScope
<1>10. CleanupSound'
  <2>1. TerminalTasks(scope)' = {} /\ ObsoleteTasks(scope, chains)' = {}
    <3>1. TerminalTasks(scope)' = TerminalTasks(<<>>)' /\ ObsoleteTasks(scope, chains)' = ObsoleteTasks(<<>>, {})'
      BY <1>0, PlanScope
    <3>2. TerminalTasks(<<>>)' = TerminalTasks(<<>>) /\ ObsoleteTasks(<<>>, {})' = ObsoleteTasks(<<>>, {})
      BY <1>0, FactsStay DEF facts
    <3> QED BY <3>1, <3>2, NothingEnded
  <2> QED BY <1>0, <1>7, <2>1 DEF CleanupSound, Working
<1> QED BY <1>0, <1>6, <1>7, <1>8, <1>9, <1>10, PartsNext DEF RunPart


-----------------------------------------------------------------------------
(* The invariant.                                                          *)

LEMMA InitInv == ASSUME Init PROVE IInv
<1> USE DEF Init
<1>1. <<>> \in Scopes /\ {MaxSchedules, MaxRestarts, MaxFaults, MaxBirth} \subseteq Nat
  BY CheckpointsAssumption
<1>2. Gone([last |-> 0]) \in Session /\ Gone([last |-> 0]).birth = 0 /\ ~ Gone([last |-> 0]).media
  BY <1>1 DEF Gone, Session, TaskStatus
<1>3. [intent |-> 0, ack |-> FALSE, commitIntent |-> 0] \in Claims
  BY <1>1 DEF Claims
<1>4. Idle \in Run /\ Idle.at = "idle" /\ Idle.version = 0 /\ Idle.scope = <<>> /\ Idle.chains = {}
      /\ Idle.todo = {}
  BY <1>1 DEF Idle, Run, Steps
<1>5. TypeOK
  <2>1. checkpoint \in [Archive -> Task \union {None}] /\ server \in [Task -> Session]
        /\ mirror \in [Task -> Claims]
    BY <1>2, <1>3
  <2>2. scope \in Scopes /\ version \in 0..MaxSchedules /\ chains \subseteq Scopes /\ run \in Run
        /\ published \in Seq(Archive)
    BY <1>1, <1>4
  <2>3. {dirty, timer, stopped} \subseteq BOOLEAN /\ ~ (stopped /\ timer)
    OBVIOUS
  <2> QED BY <2>1, <2>2, <2>3 DEF TypeOK
<1>6. BoundsOK /\ ClaimsCount /\ ExecutedOnce
  BY <1>1 DEF BoundsOK, ClaimsCount, ExecutedOnce
<1>7. AttemptsInOrder /\ ChainSound
  BY DEF AttemptsInOrder, ChainSound
<1>8. RunSound
  BY <1>4 DEF RunSound, Working, HasSession
<1>9. ScopeSound
  BY <1>1, <1>4, PrefixFacts DEF ScopeSound, CurrentScope
<1>10. CleanupSound
  BY <1>4, NothingEnded DEF CleanupSound, Working
<1> QED BY <1>5, <1>6, <1>7, <1>8, <1>9, <1>10 DEF IInv

LEMMA NextInv == ASSUME IInv, [Next]_vars PROVE IInv'
<1>1. CASE UNCHANGED vars
  <2>1. Base'
    BY <1>1, BaseQuiet, TimerFacts DEF vars
  <2> QED BY <1>1, <2>1, RunStays, TimerFacts DEF vars
<1>2. CASE Schedule
  BY <1>2, ScheduleInv
<1>3. CASE Stop
  BY <1>3, StopInv
<1>4. CASE TimerFires
  BY <1>4, TimerFiresInv
<1>5. CASE TaskEnds
  BY <1>5, TaskEndsInv
<1>6. CASE Restart
  BY <1>6, RestartInv
<1>7. CASE ReadObsolete
  BY <1>7, ReadObsoleteInv
<1>8. CASE CleanupAttempt
  BY <1>8, CleanupAttemptInv
<1>9. CASE CleanupFails
  BY <1>9, CleanupFailsInv
<1>10. CASE AfterCleanup
  BY <1>10, AfterCleanupInv
<1>11. CASE ScanFacts
  BY <1>11, ScanFactsInv
<1>12. CASE WriteRequest
  BY <1>12, WriteRequestInv
<1>13. CASE OpenSession
  BY <1>13, OpenSessionInv
<1>14. CASE PrepareMedia
  BY <1>14, PrepareMediaInv
<1>15. CASE SubmitInput
  BY <1>15, SubmitInputInv
<1>16. CASE CommitSession
  BY <1>16, CommitSessionInv
<1>17. CASE PollTask \/ TaskTimesOut
  BY <1>17, PollTaskInv
<1>18. CASE WriteFailure
  BY <1>18, WriteFailureInv
<1>19. CASE ReadSourceAgain
  BY <1>19, ReadSourceAgainInv
<1>20. CASE WriteCheckpoint
  BY <1>20, WriteCheckpointInv
<1>21. CASE PublishCheckpoint
  BY <1>21, PublishCheckpointInv
<1>22. CASE RequestFails
  BY <1>22, RequestFailsInv
<1> QED BY <1>1, <1>2, <1>3, <1>4, <1>5, <1>6, <1>7, <1>8, <1>9, <1>10, <1>11, <1>12, <1>13, <1>14,
           <1>15, <1>16, <1>17, <1>18, <1>19, <1>20, <1>21, <1>22
   DEF Next, Reconcile

\* Whatever is published, is published of a scope that still holds.
LEMMA PublishedOfScope ==
  ASSUME IInv, CurrentScope, NEW s, run.scope = s, s \in Scopes, NEW k \in 0..Len(s)
  PROVE  IsPrefix(SubSeq(s, 1, k), scope)
<1> PICK r : r = scope
  OBVIOUS
<1>1. r \in Scopes /\ IsPrefix(s, r) /\ s \in Seq(Archive) /\ r \in Seq(Archive)
      /\ Len(s) \in Nat /\ Len(r) \in Nat
  BY ScopeType DEF IInv, TypeOK, ScopeSound
<1>2. Len(s) <= Len(r) /\ SubSeq(s, 1, Len(s)) = SubSeq(r, 1, Len(s))
  BY <1>1 DEF IsPrefix
<1>3. \A j \in 1..Len(s) : s[j] = r[j]
  <2> SUFFICES ASSUME NEW j \in 1..Len(s) PROVE s[j] = r[j]
    OBVIOUS
  <2>1. SubSeq(s, 1, Len(s))[j] = s[j] /\ SubSeq(r, 1, Len(s))[j] = r[j]
    BY <1>1, <1>2
  <2> QED BY <1>2, <2>1
<1> PICK q : q = SubSeq(s, 1, k)
  OBVIOUS
<1>4. q \in Seq(Archive) /\ Len(q) = k /\ \A j \in 1..k : q[j] = s[j]
  BY <1>1
<1>5. SubSeq(q, 1, Len(q)) = SubSeq(r, 1, Len(q))
  BY <1>1, <1>2, <1>3, <1>4
<1>6. Len(q) <= Len(r)
  BY <1>1, <1>2, <1>4
<1> QED BY <1>4, <1>5, <1>6 DEF IsPrefix

LEMMA PublishStep ==
  ASSUME IInv, [Next]_vars, published' # published
  PROVE  IsPrefix(published', scope')
<1> PICK s : s = run.scope
  OBVIOUS
<1> PICK r : r = scope
  OBVIOUS
<1>1. s \in Scopes /\ r \in Scopes
  BY TimerFacts DEF Run, IInv, TypeOK
<1>2. CASE ScanFacts
  <2>1. CurrentScope /\ published' = SubSeq(s, 1, Consumed(s)) /\ scope' = r
    BY <1>2 DEF ScanFacts, MayPublish, plan
  <2>2. Consumed(s) \in 0..Len(s)
    BY <1>1, ConsumedFacts DEF IInv
  <2> QED BY <1>1, <2>1, <2>2, PublishedOfScope
<1>3. CASE PublishCheckpoint
  <2>1. run.at = "written" /\ CurrentScope /\ published' = ConsumedByRun /\ scope' = r
    BY <1>3 DEF PublishCheckpoint, EndAttempt, LoseScope, plan
  <2>2. PICK k \in 1..Len(s) : ConsumedByRun = SubSeq(s, 1, k)
    BY <2>1, ConsumedByRunFacts
  <2>3. k \in 0..Len(s)
    BY <1>1, <2>2, ScopeType
  <2> QED BY <1>1, <2>1, <2>2, <2>3, PublishedOfScope
<1>4. CASE Restart
  BY <1>1, <1>4, PrefixFacts, CheckpointsAssumption DEF Restart
<1>5. CASE ~ (ScanFacts \/ PublishCheckpoint \/ Restart)
  <2>1. CASE Schedule \/ Stop \/ TimerFires \/ TaskEnds \/ UNCHANGED vars
    BY <2>1 DEF Schedule, Stop, TimerFires, TaskEnds, vars, memory
  <2>2. CASE ReadObsolete \/ CleanupAttempt \/ CleanupFails \/ AfterCleanup
    BY <2>2 DEF ReadObsolete, CleanupAttempt, CleanupFails, AfterCleanup, memory
  <2>3. CASE \/ WriteRequest \/ OpenSession \/ PollTask \/ TaskTimesOut \/ WriteFailure
             \/ ReadSourceAgain \/ WriteCheckpoint
    BY <2>3 DEF WriteCheckpoint, WriteRequest, OpenSession, PollTask, TaskTimesOut, WriteFailure, ReadSourceAgain,
       LoseScope, EndAttempt, memory
  <2>4. CASE PrepareMedia \/ SubmitInput \/ CommitSession \/ RequestFails
    <3>1. Pending => published' = published
      BY DEF Pending, LoseScope, memory
    <3> QED BY <2>4, <3>1 DEF PrepareMedia, SubmitInput, CommitSession, RequestFails, memory
  <2> QED BY <1>5, <2>1, <2>2, <2>3, <2>4 DEF Next, Reconcile
<1> QED BY <1>2, <1>3, <1>4, <1>5

LEMMA Invariance == Spec => []IInv
BY InitInv, NextInv, PTL DEF Spec

-----------------------------------------------------------------------------
(* The theorems.                                                           *)

\* The types; only an attempt that was requested fails or has resources to clean,
\* and a manager that was stopped has no timer (reconcile, stop).
THEOREM TypeCorrect == Spec => []TypeOK
<1>1. IInv => TypeOK
  BY DEF IInv
<1> QED BY <1>1, Invariance, PTL

\* However often runs are replaced, fail half way or restart, the facts they leave
\* are a chain that the next scan accepts: attempts in order, a checkpoint made
\* by the last attempt of its archive and upon the one before it
\* (validateStoredCheckpoint, currentTask).
THEOREM FactsFormChains == Spec => []ChainSound
<1>1. IInv => ChainSound
  BY DEF IInv
<1> QED BY <1>1, Invariance, PTL

\* No provider task is paid for twice: the input and the commit of an attempt are
\* executed once at most, for any number of faults, restarts and generations of
\* its session (submitInput, commitSession through SessionMirror).
THEOREM AttemptsRunOnce == Spec => []ExecutedOnce
<1>1. IInv => ExecutedOnce
  BY DEF IInv
<1> QED BY <1>1, Invariance, PTL

\* When the manager rests, no session and no media of an ended attempt is left at
\* the server, neither of this branch nor of another one
\* (cleanupTerminalAttempts, cleanupObsoleteRequests, cleanedTaskIds).
THEOREM RestLeavesNothing == Spec => []NothingLeftBehind
<1>1. IInv => NothingLeftBehind
  <2>1. IInv => timer \in BOOLEAN /\ run.complete \in BOOLEAN
    BY DEF IInv, TypeOK, Run
  <2> QED BY <2>1 DEF IInv, NothingLeftBehind, RetryLost, CleanupSound, Clean
<1> QED BY <1>1, Invariance, PTL

\* A scan or a checkpoint of a scope that was replaced is never published: what
\* is published is a prefix of the archives scheduled at that moment
\* (publishState, currentScope).
THEOREM PublishedIsCurrent == Spec => PublishesCurrentScope
<1>1. IInv /\ [Next]_vars => [published' # published => IsPrefix(published', scope')]_vars
  BY PublishStep
<1> QED BY <1>1, Invariance, PTL DEF Spec, PublishesCurrentScope


=============================================================================
