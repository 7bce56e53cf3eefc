---------------------------- MODULE Checkpoints ----------------------------
(***************************************************************************)
(* The checkpoint manager and processor of one session                     *)
(* (shared/checkpoint-store.mjs, shared/checkpoint-processor.mjs).  One    *)
(* background run at a time (kick, reconcile) consumes the archives of a   *)
(* scope in order: it writes a request fact, drives a temporary session at *)
(* the server through input, commit and provider task, writes a failure or *)
(* a checkpoint fact, and removes the temporary session.  The sync may     *)
(* replace the scope between any two steps; currentScope tells.            *)
(*                                                                         *)
(* Input and commit of a temporary session go through SessionMirror; what  *)
(* it promises (OneShot) is what is modelled of it here: one claim, an     *)
(* outcome that may stay unknown, and no claim for a session that has been *)
(* replaced.  A fact is append-only.  Every failing request is a fault, of *)
(* which there are MaxFaults; then the network answers.                    *)
(***************************************************************************)
EXTENDS Naturals, Sequences, FiniteSets, SequencesExt

CONSTANTS
  Archive,       \* archive identities
  Scopes,        \* the chains of archives of the branches; <<>> among them
  Pictured,      \* the archives with images, which are uploaded apart
  MaxAttempts,   \* CHECKPOINT_MAX_ATTEMPTS, 3 in the code
  MaxSchedules,  \* bound: calls of schedule
  MaxRestarts,   \* bound: restarts of the program
  MaxFaults,     \* bound: requests that fail
  MaxBirth,      \* bound: generations of a temporary session
  None           \* no predecessor, no checkpoint, no task

ASSUME CheckpointsAssumption ==
  /\ <<>> \in Scopes
  /\ Scopes \subseteq Seq(Archive)
  /\ Pictured \subseteq Archive
  /\ \A s \in Scopes : IsInjective(s)
  /\ MaxAttempts \in Nat \ {0}
  /\ {MaxSchedules, MaxRestarts, MaxFaults, MaxBirth} \subseteq Nat
  /\ None \notin Archive
  /\ None \notin Archive \X (Archive \union {None}) \X (1..MaxAttempts)

VARIABLES
  \* Facts: requests and failures of tasks, checkpoint[a]: the task that made it.
  requests, failures, checkpoint,
  \* Temporary sessions, and the provider task of each.
  server,
  \* SessionMirror's intents and acknowledgements of each temporary session.
  mirror,
  \* The manager: the scheduled scope and its version, chains of all branches,
  \* and whether it was stopped.
  scope, version, chains, stopped,
  \* The run, and whether another one must follow; the poll timer.
  run, dirty, timer,
  \* cleanedTaskIds, pendingCleanupTaskIds, the archives published as consumed.
  cleaned, pendingCleanup, published,
  \* Bounds: schedules, restarts and faults so far.
  counts,
  \* History: inputs and commits the server ever executed for a task.
  executed

facts  == <<requests, failures, checkpoint>>
plan   == <<scope, version, chains, stopped>>
memory == <<cleaned, pendingCleanup, published>>
vars == <<facts, server, mirror, plan, run, dirty, timer, memory, counts, executed>>

-----------------------------------------------------------------------------
(* Data *)

Predecessor == Archive \union {None}
Task == Archive \X Predecessor \X (1..MaxAttempts)

TaskStatus == {"none", "running", "completed", "failed"}
Session == [birth : 0..MaxBirth, last : 0..MaxBirth, input : BOOLEAN,
            commit : BOOLEAN, task : TaskStatus, media : BOOLEAN]

\* birth 0: no such session; last: the latest generation there was; media: the
\* images of the archive, which are stored beside the session.
Gone(s) == [birth |-> 0, last |-> s.last, input |-> FALSE, commit |-> FALSE,
            task |-> "none", media |-> FALSE]

Claims == [intent : 0..MaxBirth, ack : BOOLEAN, commitIntent : 0..MaxBirth]

Steps == {"idle", "obsolete", "cleanObsolete", "scan", "clean", "request", "requested", "open",
          "load", "media", "submit", "commit", "poll", "failure", "checkpoint", "written",
          "cleanEnd", "lost"}

Run == [at : Steps, version : 0..MaxSchedules, scope : Scopes, chains : SUBSET Scopes,
        todo : SUBSET Task, complete : BOOLEAN, task : Task \union {None}]

Idle == [at |-> "idle", version |-> 0, scope |-> <<>>, chains |-> {}, todo |-> {},
         complete |-> TRUE, task |-> None]

\* reconcile captures the scope as it is when the run starts.
Started(archives, v, c) ==
  IF archives = <<>> /\ c = {} THEN [Idle EXCEPT !.at = "scan", !.version = v]
  ELSE [Idle EXCEPT !.at = "obsolete", !.version = v, !.scope = archives, !.chains = c]

CurrentScope == run.version = version

-----------------------------------------------------------------------------
(* What the facts say about a scope *)

PreviousIn(s, k) == IF k = 1 THEN None ELSE s[k - 1]

Consumed(s) ==
  LET open == {k \in 1..Len(s) : checkpoint[s[k]] = None}
  IN IF open = {} THEN Len(s) ELSE Min(open) - 1

\* The attempts of the next archive of s that have no failure yet.
OpenAttempts(s) ==
  LET k == Consumed(s) + 1
  IN {t \in Task : k <= Len(s) /\ t[1] = s[k] /\ t[2] = PreviousIn(s, k) /\ t \notin failures}

CaughtUp(s) == Consumed(s) = Len(s)
Exhausted(s) == ~ CaughtUp(s) /\ OpenAttempts(s) = {}

\* The first attempt without a failure: the one in progress, or a new one.
CurrentTask_NewAttempt(s) ==
  LET unsent == OpenAttempts(s) \ requests
  IN CHOOSE t \in (IF unsent = {} THEN OpenAttempts(s) ELSE unsent) :
       \A u \in (IF unsent = {} THEN OpenAttempts(s) ELSE unsent) : t[3] <= u[3]
CurrentTask(s) == CHOOSE t \in OpenAttempts(s) : \A u \in OpenAttempts(s) : t[3] <= u[3]

\* Attempts of s that have ended, by a failure or by the checkpoint.
TerminalTasks(s) ==
  {t \in requests : \E k \in 1..Len(s) :
     /\ t[1] = s[k] /\ t[2] = PreviousIn(s, k)
     /\ t \in failures \/ checkpoint[s[k]] = t}

\* Attempts for archives that are on other branches only; the checkpoint they
\* follow may be of any archive before them.
ObsoleteTasks(s, cs) ==
  {t \in requests : t[1] \notin ToSet(s) /\ \E c \in cs : \E k \in 1..Len(c) :
     t[1] = c[k] /\ (t[2] = None \/ \E j \in 1..(k - 1) : t[2] = c[j])}

-----------------------------------------------------------------------------
(* Runs *)

\* kick: at most one run; whoever schedules meanwhile leaves dirty behind.
\* An idle run keeps whether the last one completed its cleanup.
EndRun_Forgetful == run' = [Idle EXCEPT !.complete = run.complete] /\ dirty' = FALSE
EndRun ==
  /\ run' = IF dirty /\ ~ stopped THEN Started(scope, version, chains)
            ELSE [Idle EXCEPT !.complete = run.complete]
  /\ dirty' = FALSE

Go(at) == run' = [run EXCEPT !.at = at] /\ UNCHANGED dirty

\* schedule: a scope that only grows keeps its version.  Every sync schedules,
\* also the scope that is scheduled already.
Schedule ==
  /\ ~ stopped
  /\ counts.schedules < MaxSchedules
  /\ counts' = [counts EXCEPT !.schedules = @ + 1]
  /\ \E s \in Scopes :
       LET c == IF s = <<>> THEN {} ELSE Scopes \ {<<>>}
           v == IF IsPrefix(scope, s) THEN version ELSE version + 1
       IN /\ scope' = s /\ chains' = c /\ version' = v
          /\ IF run.at = "idle" THEN run' = Started(s, v, c) /\ dirty' = FALSE
             ELSE dirty' = TRUE /\ UNCHANGED run
  /\ UNCHANGED <<facts, server, mirror, stopped, timer, memory, executed>>

TimerFires ==
  /\ timer
  /\ timer' = FALSE
  /\ IF run.at = "idle" /\ counts.schedules > 0
     THEN run' = Started(scope, version, chains) /\ dirty' = FALSE
     ELSE UNCHANGED <<run, dirty>>
  /\ UNCHANGED <<facts, server, mirror, plan, memory, counts, executed>>

Fault ==
  /\ counts.faults < MaxFaults
  /\ counts' = [counts EXCEPT !.faults = @ + 1]

\* schedulePoll: a stopped manager sets no timer.
SetTimer == timer' = ~ stopped

\* An operational failure ends the run and is tried again by the timer.
Retry == EndRun /\ SetTimer

\* A session is left.  The run goes on to the end of its round.
Stop ==
  /\ ~ stopped
  /\ stopped' = TRUE
  /\ timer' = FALSE
  /\ UNCHANGED <<facts, server, mirror, scope, version, chains, run, dirty, memory, counts, executed>>

-----------------------------------------------------------------------------
(* Obsolete and terminal attempts *)

ReadObsolete ==
  /\ run.at = "obsolete"
  /\ LET todo == ObsoleteTasks(run.scope, run.chains)
     IN IF CurrentScope
        THEN /\ run' = [run EXCEPT !.at = "cleanObsolete", !.todo = todo]
             /\ pendingCleanup' = pendingCleanup \union todo
             /\ UNCHANGED dirty
        ELSE EndRun /\ UNCHANGED pendingCleanup
  /\ UNCHANGED <<facts, server, mirror, plan, timer, cleaned, published, counts, executed>>

Cleaning == run.at \in {"cleanObsolete", "clean", "cleanEnd", "lost"}

\* cleanup of one task: the provider task is cancelled, the session and then the
\* media are deleted, and both are read back.  A task known to be clean is not
\* cleaned again.
CleanupAttempt ==
  /\ Cleaning
  /\ run.at = "cleanObsolete" => CurrentScope
  /\ \E t \in run.todo :
       /\ run' = [run EXCEPT !.todo = @ \ {t}]
       /\ IF t \in cleaned THEN UNCHANGED <<server, cleaned, pendingCleanup>>
          ELSE /\ server' = [server EXCEPT ![t] = Gone(@)]
               /\ cleaned' = cleaned \union {t}
               /\ pendingCleanup' = pendingCleanup \ {t}
  /\ UNCHANGED <<facts, mirror, plan, dirty, timer, published, counts, executed>>

\* What a cleanup that fails leaves: each of the two deletions may have happened.
Leftovers(s) == {s, Gone(s), [Gone(s) EXCEPT !.media = s.media], [s EXCEPT !.media = FALSE]}

CleanupFails_Trusted ==
  /\ Cleaning
  /\ run.at = "cleanObsolete" => CurrentScope
  /\ \E t \in run.todo \ cleaned :
       /\ run' = [run EXCEPT !.todo = @ \ {t}]
       /\ cleaned' = cleaned \union {t}
       /\ \E left \in Leftovers(server[t]) : server' = [server EXCEPT ![t] = left]
  /\ Fault
  /\ SetTimer
  /\ UNCHANGED <<facts, mirror, plan, dirty, pendingCleanup, published, executed>>
CleanupFails ==
  /\ Cleaning
  /\ run.at = "cleanObsolete" => CurrentScope
  /\ \E t \in run.todo \ cleaned :
       /\ run' = [run EXCEPT !.todo = @ \ {t}, !.complete = FALSE]
       /\ \E left \in Leftovers(server[t]) : server' = [server EXCEPT ![t] = left]
  /\ Fault
  /\ SetTimer
  /\ UNCHANGED <<facts, mirror, plan, dirty, memory, executed>>

\* The run goes on only when everything was cleaned and the scope still holds,
\* and to another round only when the manager was not stopped.  An attempt that
\* is about to be resumed is not clean any more, whatever its advance comes to.
AfterCleanup ==
  /\ Cleaning
  /\ run.todo = {} \/ (run.at = "cleanObsolete" /\ ~ CurrentScope)
  /\ IF ~ run.complete \/ ~ CurrentScope \/ run.at = "lost" THEN EndRun
     ELSE CASE run.at \in {"cleanObsolete", "cleanEnd"} -> IF stopped THEN EndRun ELSE Go("scan")
            [] run.at = "clean" ->
                 IF CaughtUp(run.scope) \/ Exhausted(run.scope) THEN EndRun
                 ELSE LET t == CurrentTask(run.scope)
                      IN /\ run' = [run EXCEPT !.task = t,
                              !.at = IF t \in requests THEN "open" ELSE "request"]
                         /\ UNCHANGED dirty
  /\ cleaned' = IF run'.at = "open" THEN cleaned \ {run'.task} ELSE cleaned
  /\ UNCHANGED <<facts, server, mirror, plan, timer, pendingCleanup, published, counts, executed>>

\* The scope was lost while the attempt advanced: only its resources are left.
LoseScope ==
  /\ run' = [run EXCEPT !.at = "lost", !.todo = {run.task}]
  /\ pendingCleanup' = pendingCleanup \union {run.task}
  /\ UNCHANGED <<dirty, cleaned, published>>

\* The attempt has ended: its resources go, and the facts are scanned again.
EndAttempt(archives) ==
  /\ run' = [run EXCEPT !.at = "cleanEnd", !.todo = {run.task}]
  /\ pendingCleanup' = pendingCleanup \union {run.task}
  /\ published' = archives
  /\ UNCHANGED <<dirty, cleaned>>

-----------------------------------------------------------------------------
(* Consuming the next archive *)

\* scanFacts and publishState: the result of a scan counts only if the scope is
\* still the one that was scanned.
MayPublish_Always == TRUE
MayPublish == CurrentScope

ScanFacts ==
  /\ run.at = "scan"
  /\ IF MayPublish
     THEN /\ published' = SubSeq(run.scope, 1, Consumed(run.scope))
          /\ run' = [run EXCEPT !.at = "clean",
                       !.todo = pendingCleanup \union TerminalTasks(run.scope)]
          /\ UNCHANGED dirty
     ELSE EndRun /\ UNCHANGED published
  /\ UNCHANGED <<facts, server, mirror, plan, timer, cleaned, pendingCleanup, counts, executed>>

\* A fact is only ever added.
Requested(t) == requests \union {t}
Failed(t) == failures \union {t}

WriteRequest_Late ==
  /\ run.at = "request"
  /\ IF CurrentScope THEN Go("requested") ELSE EndRun
  /\ UNCHANGED <<facts, server, mirror, plan, timer, memory, counts, executed>>
WriteRequest ==
  /\ run.at = "request"
  /\ IF CurrentScope THEN requests' = Requested(run.task) /\ Go("requested")
     ELSE EndRun /\ UNCHANGED requests
  /\ UNCHANGED <<failures, checkpoint, server, mirror, plan, timer, memory, counts, executed>>

\* The temporary session is read and, when it is missing, created.  The scope
\* is looked at after the request was written, and then not before the advance
\* of the attempt ends; an attempt that is resumed reads its archive anew, which
\* looks at the scope once more.
Opening == {"requested", "open"}
MayOpen(t) == server[t].birth = 0 => server[t].last < MaxBirth
Opened(t) ==
  IF server[t].birth # 0 THEN server
  ELSE [server EXCEPT ![t].birth = server[t].last + 1, ![t].last = server[t].last + 1]

OpenSession ==
  /\ run.at \in Opening
  /\ LET t == run.task
         s == server[t]
     IN IF run.at = "requested" /\ ~ CurrentScope
        THEN EndRun /\ UNCHANGED server
        ELSE /\ MayOpen(t)
             /\ server' = Opened(t)
             /\ Go(IF s.commit THEN "poll" ELSE IF s.input THEN "commit"
                   ELSE IF run.at = "requested" THEN "media" ELSE "load")
  /\ UNCHANGED <<facts, mirror, plan, timer, memory, counts, executed>>

\* The advance ends without a result: pending, unless the scope was lost.
Pending ==
  IF CurrentScope THEN Retry /\ UNCHANGED memory
  ELSE LoseScope /\ UNCHANGED timer

\* Images are taken out of the events of an archive.
HasImages(t) == t[1] \in Pictured

\* loadEvents and prepareMedia: the images are uploaded and described before the
\* input.  An upload may have been stored when it fails, with an answer or with
\* an error.
PrepareMedia ==
  /\ run.at \in {"load", "media"}
  /\ LET t == run.task
         stored == [server EXCEPT ![t].media = @ \/ HasImages(t)]
     IN IF run.at = "load" /\ ~ CurrentScope
        THEN Pending /\ UNCHANGED <<server, counts>>
        ELSE \/ server' = stored /\ Go("submit") /\ UNCHANGED <<counts, timer, memory>>
             \/ /\ server' \in {server, stored}
                /\ Fault
                /\ Pending \/ (Retry /\ UNCHANGED memory)
  /\ UNCHANGED <<facts, mirror, plan, executed>>

\* SessionMirror.sync claims the input once, and for one generation.
MayClaimInput_Again(t) == mirror[t].intent # server[t].birth
MayClaimInput(t) == mirror[t].intent = 0

\* The input is sent whatever the scope is by now.  The answer may be lost, with
\* the input stored or not.
SubmitInput ==
  /\ run.at = "submit"
  /\ LET t == run.task
     IN IF ~ MayClaimInput(t)
        THEN Pending /\ UNCHANGED <<server, mirror, counts, executed>>
        ELSE \/ /\ server' = [server EXCEPT ![t].input = TRUE]
                /\ mirror' = [mirror EXCEPT ![t].intent = server[t].birth, ![t].ack = TRUE]
                /\ executed' = [executed EXCEPT ![t].inputs = @ + 1]
                /\ Go("commit")
                /\ UNCHANGED <<counts, timer, memory>>
             \/ /\ mirror' = [mirror EXCEPT ![t].intent = server[t].birth]
                /\ \E stored \in BOOLEAN :
                     /\ server' = [server EXCEPT ![t].input = stored]
                     /\ executed' = [executed EXCEPT ![t].inputs = IF stored THEN @ + 1 ELSE @]
                /\ Fault
                /\ Pending
  /\ UNCHANGED <<facts, plan>>

\* SessionMirror.sync([]) resolves the input from its evidence, then
\* SessionMirror.commit claims the commit once.
CommitSession ==
  /\ run.at = "commit"
  /\ LET t == run.task
         m == mirror[t]
     IN IF m.intent # server[t].birth \/ m.commitIntent # 0
        THEN Pending /\ UNCHANGED <<server, mirror, counts, executed>>
        ELSE /\ mirror' = [mirror EXCEPT ![t].ack = TRUE,
                                         ![t].commitIntent = server[t].birth]
             /\ \E done \in BOOLEAN :
                  /\ server' = IF done THEN [server EXCEPT ![t].commit = TRUE, ![t].task = "running"]
                               ELSE server
                  /\ executed' = [executed EXCEPT ![t].commits = IF done THEN @ + 1 ELSE @]
                  /\ \/ done /\ Go("poll") /\ UNCHANGED <<counts, timer, memory>>
                     \/ Fault /\ Pending
  /\ UNCHANGED <<facts, plan>>

\* A task that has completed may have left no overview, or an unusable one.
Outcomes(status) == IF status = "completed" THEN {"checkpoint", "failure"} ELSE {"failure"}

\* The provider task is read.  One that is still running is polled again, or
\* has taken too long.
PollTask ==
  /\ run.at = "poll"
  /\ LET status == server[run.task].task
     IN IF ~ CurrentScope THEN LoseScope /\ UNCHANGED timer
        ELSE /\ \/ status = "running" /\ Retry
                \/ /\ status \in {"failed", "completed"}
                   /\ \E outcome \in Outcomes(status) : Go(outcome)
                   /\ UNCHANGED timer
             /\ UNCHANGED memory
  /\ UNCHANGED <<facts, server, mirror, plan, counts, executed>>

TaskTimesOut ==
  /\ run.at = "poll"
  /\ CurrentScope
  /\ server[run.task].task = "running"
  /\ Go("failure")
  /\ UNCHANGED <<facts, server, mirror, plan, timer, memory, counts, executed>>

WriteFailure ==
  /\ run.at = "failure"
  /\ failures' = Failed(run.task)
  /\ IF CurrentScope THEN EndAttempt(published) ELSE LoseScope
  /\ UNCHANGED <<requests, checkpoint, server, mirror, plan, timer, counts, executed>>

\* The archive is expanded again, then the checkpoint is written.
ReadSourceAgain ==
  /\ run.at = "checkpoint"
  /\ ~ CurrentScope
  /\ LoseScope
  /\ UNCHANGED <<facts, server, mirror, plan, timer, counts, executed>>

WriteCheckpoint ==
  /\ run.at = "checkpoint"
  /\ CurrentScope
  /\ checkpoint' = [checkpoint EXCEPT ![run.task[1]] = run.task]
  /\ Go("written")
  /\ UNCHANGED <<requests, failures, server, mirror, plan, timer, memory, counts, executed>>

\* What the run consumed of its scope: up to the archive of its attempt.
ConsumedByRun ==
  SubSeq(run.scope, 1, CHOOSE k \in 1..Len(run.scope) : run.scope[k] = run.task[1])

\* A scope that took over while the checkpoint was written publishes nothing of
\* it; the next scan finds the fact.
PublishCheckpoint ==
  /\ run.at = "written"
  /\ IF CurrentScope THEN EndAttempt(ConsumedByRun) ELSE LoseScope
  /\ UNCHANGED <<facts, server, mirror, plan, timer, counts, executed>>

\* A read or a write of the run fails; what it wrote may have been stored.
RequestFails ==
  LET t == run.task
      MayStore(at, old, new) ==
        {old, IF run.at = at /\ (CurrentScope \/ at = "failure") THEN new ELSE old}
  IN /\ run.at \in {"obsolete", "scan", "request", "poll", "failure", "checkpoint", "written"}
          \union Opening
     /\ run.at = "requested" => CurrentScope
     /\ Fault
     /\ IF run.at \in {"poll"} \union Opening THEN Pending ELSE Retry /\ UNCHANGED memory
     /\ requests' \in MayStore("request", requests, Requested(t))
     /\ failures' \in MayStore("failure", failures, Failed(t))
     /\ checkpoint' \in MayStore("checkpoint", checkpoint, [checkpoint EXCEPT ![t[1]] = t])
     /\ run.at \in Opening => MayOpen(t)
     /\ server' \in (IF run.at \in Opening THEN {server, Opened(t)} ELSE {server})
     /\ UNCHANGED <<mirror, plan, executed>>

-----------------------------------------------------------------------------
(* The server and the program *)

TaskEnds ==
  /\ \E t \in Task : server[t].task = "running" /\
       \E result \in {"completed", "failed"} : server' = [server EXCEPT ![t].task = result]
  /\ UNCHANGED <<facts, mirror, plan, run, dirty, timer, memory, counts, executed>>

\* Memory is lost; the facts, the server and the mirror's files are not.
Restart ==
  /\ counts.restarts < MaxRestarts
  /\ counts' = [counts EXCEPT !.restarts = @ + 1]
  /\ scope' = <<>> /\ version' = 0 /\ chains' = {} /\ stopped' = FALSE
  /\ run' = Idle /\ dirty' = FALSE /\ timer' = FALSE
  /\ cleaned' = {} /\ pendingCleanup' = {} /\ published' = <<>>
  /\ UNCHANGED <<facts, server, mirror, executed>>

Init ==
  /\ requests = {} /\ failures = {} /\ checkpoint = [a \in Archive |-> None]
  /\ server = [t \in Task |-> Gone([last |-> 0])]
  /\ mirror = [t \in Task |-> [intent |-> 0, ack |-> FALSE, commitIntent |-> 0]]
  /\ scope = <<>> /\ version = 0 /\ chains = {} /\ stopped = FALSE
  /\ run = Idle /\ dirty = FALSE /\ timer = FALSE
  /\ cleaned = {} /\ pendingCleanup = {} /\ published = <<>>
  /\ counts = [schedules |-> 0, restarts |-> 0, faults |-> 0]
  /\ executed = [t \in Task |-> [inputs |-> 0, commits |-> 0]]

Reconcile ==
  \/ ReadObsolete \/ CleanupAttempt \/ CleanupFails \/ AfterCleanup \/ ScanFacts
  \/ WriteRequest \/ OpenSession \/ PrepareMedia \/ SubmitInput \/ CommitSession \/ PollTask
  \/ TaskTimesOut \/ WriteFailure \/ ReadSourceAgain \/ WriteCheckpoint
  \/ PublishCheckpoint \/ RequestFails

Next == Schedule \/ Stop \/ TimerFires \/ Reconcile \/ TaskEnds \/ Restart

Spec == Init /\ [][Next]_vars

\* Requests end, the timer fires, and a task that never ends times out.
FairSpec == Spec /\ WF_vars(Reconcile) /\ WF_vars(TimerFires) /\ SF_vars(TaskTimesOut)

-----------------------------------------------------------------------------
(* Properties *)

\* The types; and only an attempt that was requested fails, or has resources to
\* clean (reconcile); a manager that was stopped sets no timer (stop).
TypeOK ==
  /\ requests \subseteq Task /\ failures \subseteq requests
  /\ checkpoint \in [Archive -> Task \union {None}]
  /\ server \in [Task -> Session]
  /\ mirror \in [Task -> Claims]
  /\ scope \in Scopes /\ version \in 0..MaxSchedules /\ chains \subseteq Scopes
  /\ run \in Run
  /\ {dirty, timer, stopped} \subseteq BOOLEAN /\ ~ (stopped /\ timer)
  /\ cleaned \subseteq requests /\ pendingCleanup \subseteq requests
  /\ published \in Seq(Archive)

\* The facts always form chains that scanFacts accepts: an attempt was requested
\* only after the one before it failed, a checkpoint continues the checkpoint of
\* its predecessor and belongs to the one attempt that was requested and did not
\* fail; nothing is requested behind it (validateStoredCheckpoint).
ChainSound ==
  /\ \A t \in requests : t[3] > 1 => <<t[1], t[2], t[3] - 1>> \in failures
  /\ \A a \in Archive : LET t == checkpoint[a] IN t # None =>
       /\ t \in requests \ failures
       /\ t[2] # None => checkpoint[t[2]] # None
       /\ \A u \in requests : u[1] = a /\ u[2] = t[2] => u[3] <= t[3]

\* The server executes the input and the commit of an attempt at most once,
\* through faults, restarts, lost scopes and deleted sessions: no provider task
\* is paid for twice (checkpoint-processor.mjs, recovery.md).
ExecutedOnce ==
  \A t \in Task : executed[t].inputs <= 1 /\ executed[t].commits <= 1

\* A poll timer that fires during a run is lost: kick returns the run that is
\* going and asks for no other (kick, schedulePoll).  When a cleanup of that run
\* has failed, what it set the timer for waits for the next schedule.
RetryLost == run.at = "idle" /\ ~ timer /\ ~ run.complete

\* A manager at rest leaves no temporary session or media of an attempt that ended,
\* on the scheduled branch or on another one (cleanupTerminalAttempts,
\* cleanupObsoleteRequests), unless the retry of a failed cleanup was lost or the
\* manager was stopped, which leaves the rest to the next one.
NothingLeftBehind ==
  run.at = "idle" /\ ~ timer /\ ~ dirty /\ ~ RetryLost /\ ~ stopped =>
    \A t \in TerminalTasks(scope) \union ObsoleteTasks(scope, chains) :
      server[t].birth = 0 /\ ~ server[t].media

\* What is published as consumed is a prefix of the archives scheduled at that
\* moment: the scan of an older scope is dropped (reconcile, publishState).
PublishesCurrentScope ==
  [][published' # published => IsPrefix(published', scope')]_vars

\* An outcome that stays unknown: the input or the commit was claimed, sent, and
\* has left no trace.
Uncertain(t) ==
  \/ mirror[t].intent # 0 /\ ~ mirror[t].ack /\ ~ server[t].input
  \/ mirror[t].commitIntent # 0 /\ ~ server[t].commit

\* The session of a claim was deleted and created anew.
Replaced(t) == mirror[t].intent # 0 /\ mirror[t].intent # server[t].birth

Settled == /\ published = SubSeq(scope, 1, Consumed(scope))
           /\ CaughtUp(scope) \/ Exhausted(scope)

\* When schedules and faults have ended, every archive of the scope is consumed
\* and published, or its attempts are used up, or the current attempt is one
\* that may not be repeated: its outcome is unknown or its session was replaced.
\* No schedule is lost (kick, reconcile, recordOperationalFailure).
Settles ==
  <>[](\/ Settled
       \/ RetryLost \/ stopped
       \/ \E t \in OpenAttempts(scope) \intersect requests : Uncertain(t) \/ Replaced(t))

\* The same without the excuse of a replaced session: an attempt that does not
\* come to an end is recorded as failed and tried again.
RetriesGoOn ==
  <>[](\/ Settled
       \/ RetryLost \/ stopped
       \/ \E t \in OpenAttempts(scope) \intersect requests : Uncertain(t) /\ ~ Replaced(t))

=============================================================================
