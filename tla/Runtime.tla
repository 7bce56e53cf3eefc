------------------------------ MODULE Runtime ------------------------------
(***************************************************************************)
(* The life of memory runtimes in one program (runtime.ts, recall.ts,      *)
(* ledger.ts, deadline.ts, extensions/openviking.ts).  The harness raises  *)
(* events of the session it is in; the extension keeps one current         *)
(* runtime, and replaces it when an event is of another session.  A        *)
(* runtime starts up in the background and assembles the recall of a turn  *)
(* in the context hook; shutting down, it waits for its commit and its     *)
(* ledger, but no longer than a deadline.                                  *)
(*                                                                         *)
(* What a snapshot and a commit do is in HookQueue, Session and            *)
(* SessionMirror; here a commit is something the shutdown may have to wait *)
(* for.  A turn may be aborted while its context hook runs; the hook then  *)
(* goes on, and its result is not used.                                    *)
(***************************************************************************)
EXTENDS Naturals, FiniteSets

CONSTANTS
  Session,
  MaxTurns,     \* bound: turns of a session
  MaxRuntimes,  \* bound: runtimes, one after the other
  MaxCalls,     \* bound: context hooks that run at a time
  MaxFaults,    \* bound: ledger writes that fail, crashes of the program
  None          \* no session, no block

ASSUME RuntimeAssumption ==
  /\ {MaxTurns, MaxRuntimes, MaxCalls, MaxFaults} \subseteq Nat
  /\ None \notin Session \union [query : Nat, startup : BOOLEAN]
  /\ None \notin [block : [query : Nat, startup : BOOLEAN] \union {None}]

VARIABLES
  runtimes,  \* the runtimes so far
  current,   \* the runtime the extension holds, 0 if none
  calls,     \* context hooks that run
  turn,      \* turns begun in each session
  disk,      \* the ledger files of each session
  rendered,  \* history: what the model was last given for each turn
  overtaken, \* history: turns whose hook met the prompt of a later turn
  cut,       \* history: sessions of which a runtime left a block unwritten
  faults     \* bound

vars == <<runtimes, current, calls, turn, disk, rendered, overtaken, cut, faults>>
history == <<rendered, overtaken, cut>>

-----------------------------------------------------------------------------
(* Data *)

Turn == 1..MaxTurns
Rid == 1..MaxRuntimes

\* What the ledger holds for a turn: the turn whose prompt was searched for, 0 if
\* nothing was found, and whether the startup block is part of it.
Block == [query : 0..MaxTurns, startup : BOOLEAN]
Ledger == [Turn -> Block \union {None}]
Empty == [t \in Turn |-> None]

Runtime == [
  session : Session \union {None},
  phase : {"unborn", "live", "closing", "closed"},
  init : {"ledger", "loaded", "ready"},
  prompt : 0..MaxTurns,              \* pendingPrompt
  startup : {"unset", "set", "used"},  \* startupBlock
  blocks : Ledger,                   \* the ledger in memory
  writes : SUBSET Turn,              \* ledger files being written
  flushing : SUBSET Turn]            \* those the shutdown waits for

Unborn == [session |-> None, phase |-> "unborn", init |-> "ledger", prompt |-> 0,
           startup |-> "unset", blocks |-> Empty, writes |-> {}, flushing |-> {}]

\* A context hook: fresh while no newer prompt, and no end of the turn, has
\* changed the generation of the recall since it took its prompt.
Call == [runtime : Rid, turn : Turn, at : {"ready", "search"},
         query : 0..MaxTurns, fresh : BOOLEAN, aborted : BOOLEAN]

Open(r) == runtimes[r].phase \in {"live", "closing"}
CurrentFor(s) == current # 0 /\ runtimes[current].session = s
CallsOf(s) == {c \in calls : runtimes[c.runtime].session = s /\ ~ c.aborted}

-----------------------------------------------------------------------------
(* Parts of the handlers *)

\* A new prompt, or an end, changes the generation: no search of r counts now.
Stale(r, cs) ==
  {[c EXCEPT !.fresh = IF c.runtime = r THEN FALSE ELSE @] : c \in cs}

\* shutdown up to its wait, for a commit, in flight or its own, and a flush.
BeginShutdown_Flush(rt) == [rt EXCEPT !.flushing = rt.writes]
BeginShutdown(rt) == [rt EXCEPT !.phase = "closing", !.flushing = rt.writes]

-----------------------------------------------------------------------------
(* The extension *)

\* ensure: an event of another session, or from another directory of the same
\* workspace, replaces the current runtime.
Enter(s) ==
  /\ \E r \in Rid :
       /\ runtimes[r].phase = "unborn"
       /\ \A q \in 1..(r - 1) : runtimes[q].phase # "unborn"
       /\ runtimes' = [q \in Rid |->
            IF q = r THEN [Unborn EXCEPT !.session = s, !.phase = "live"]
            ELSE IF q = current THEN BeginShutdown(runtimes[q]) ELSE runtimes[q]]
       /\ current' = r
       /\ calls' = {[c EXCEPT !.aborted = TRUE] : c \in calls}
  /\ UNCHANGED <<turn, disk, history, faults>>

\* session_shutdown.
Leave(s) ==
  /\ CurrentFor(s)
  /\ runtimes' = [runtimes EXCEPT ![current] = BeginShutdown(@)]
  /\ current' = 0
  /\ calls' = {[c EXCEPT !.aborted = TRUE] : c \in calls}
  /\ UNCHANGED <<turn, disk, history, faults>>

\* before_agent_start: queueSearch.
BeforeAgentStart(s) ==
  /\ CurrentFor(s)
  /\ turn[s] < MaxTurns
  /\ turn' = [turn EXCEPT ![s] = @ + 1]
  /\ runtimes' = [runtimes EXCEPT ![current].prompt = turn[s] + 1]
  /\ overtaken' = [overtaken EXCEPT ![s] = @ \union
       {c.turn : c \in {d \in calls : d.runtime = current /\ d.at = "ready"}}]
  /\ calls' = {[c EXCEPT !.aborted = TRUE] : c \in Stale(current, calls)}
  /\ UNCHANGED <<current, disk, rendered, cut, faults>>

\* agent_end: invalidate.
AgentEnd(s) ==
  /\ CurrentFor(s)
  /\ turn[s] > 0
  /\ runtimes' = [runtimes EXCEPT ![current].prompt = 0]
  /\ calls' = {[c EXCEPT !.aborted = TRUE] : c \in Stale(current, calls)}
  /\ UNCHANGED <<current, turn, disk, history, faults>>

-----------------------------------------------------------------------------
(* initialize *)

\* ledger.load: what is on disk replaces what the memory holds.  A block of an
\* older runtime that is on its way is missed.  The ledger of a runtime that has
\* closed serves nobody.
LoadLedger(r) ==
  LET s == runtimes[r].session
      late == \E q \in Rid \ {r} :
                runtimes[q].session = s /\ (Open(q) \/ runtimes[q].writes # {})
  IN /\ Open(r)
     /\ runtimes[r].init = "ledger"
     /\ runtimes' = [runtimes EXCEPT ![r].init = "loaded",
          ![r].blocks = [t \in Turn |-> IF disk[s][t] # None THEN disk[s][t] ELSE @[t]]]
     /\ rendered' = [rendered EXCEPT ![s] = IF late \/ s \in cut THEN Empty ELSE @]
     /\ cut' = IF late THEN cut \union {s} ELSE cut
     /\ UNCHANGED <<current, calls, turn, disk, overtaken, faults>>

\* The user, the session, the server's health, then profile and resumed context;
\* nothing is set once the runtime has closed.  A startup that is degraded is one
\* that does not come so far.
Startup(r) ==
  /\ Open(r)
  /\ runtimes[r].init = "loaded"
  /\ runtimes' = [runtimes EXCEPT ![r].init = "ready", ![r].startup = "set"]
  /\ UNCHANGED <<current, calls, turn, disk, history, faults>>

-----------------------------------------------------------------------------
(* The context hook *)

ContextCalled(s) ==
  /\ CurrentFor(s)
  /\ turn[s] > 0
  /\ CallsOf(s) = {}
  /\ Cardinality(calls) < MaxCalls
  /\ calls' = calls \union {[runtime |-> current, turn |-> turn[s], at |-> "ready",
                             query |-> 0, fresh |-> TRUE, aborted |-> FALSE]}
  /\ UNCHANGED <<runtimes, current, turn, disk, history, faults>>

\* injectRecall gives each turn of the messages its block, or none.
Applied(c, rt, before) ==
  [t \in Turn |-> IF t > c.turn THEN before[t] ELSE [block |-> rt.blocks[t]]]

\* searchPending is over.  The result of a runtime that is no longer current, or
\* has closed, is dropped; a rendering that did not wait for the ledger is not
\* remembered here.
Answer(c, rt) ==
  /\ calls' = calls \ {c}
  /\ rendered' = IF c.aborted \/ c.runtime # current \/ rt.phase = "closed" \/ rt.init = "ledger"
                 THEN rendered
                 ELSE [rendered EXCEPT ![rt.session] = Applied(c, rt, @)]

\* The runtime is ready or the wait is over: the block of the turn is known or no
\* prompt is pending, and the hook answers, or the prompt is taken.
TakePrompt(c) ==
  LET rt == runtimes[c.runtime]
  IN /\ c.at = "ready"
     /\ runtimes' = [runtimes EXCEPT ![c.runtime].prompt = 0]
     /\ IF rt.blocks[c.turn] # None \/ rt.prompt = 0 THEN Answer(c, rt)
        ELSE /\ calls' = (calls \ {c}) \union
                   {[c EXCEPT !.at = "search", !.query = rt.prompt, !.fresh = TRUE]}
             /\ UNCHANGED rendered
     /\ UNCHANGED <<current, turn, disk, overtaken, cut, faults>>

\* The search has an answer, or the budget of the hook is used up.  A result that
\* is too late changes nothing; a turn keeps the block it has (record).
Recorded_Always(c, rt, b) ==
  [rt EXCEPT !.startup = IF @ = "set" THEN "used" ELSE @,
             !.blocks[c.turn] = IF @ = None THEN b ELSE @,
             !.writes = IF rt.blocks[c.turn] = None THEN @ \union {c.turn} ELSE @]
Recorded_StartupFirst(c, rt, b) ==
  IF ~ c.fresh THEN [rt EXCEPT !.startup = IF @ = "set" THEN "used" ELSE @]
  ELSE Recorded_Always(c, rt, b)
Recorded(c, rt, b) == IF ~ c.fresh THEN rt ELSE Recorded_Always(c, rt, b)

SearchEnds(c) ==
  /\ c.at = "search"
  /\ \E query \in {0, c.query} :
       LET rt == runtimes[c.runtime]
           b == [query |-> query, startup |-> rt.startup = "set"]
           done == Recorded(c, rt, b)
       IN /\ runtimes' = [runtimes EXCEPT ![c.runtime] = done]
          /\ Answer(c, done)
  /\ UNCHANGED <<current, turn, disk, overtaken, cut, faults>>

\* persist: the first writer of a file wins.
Persist(r) ==
  /\ \E t \in runtimes[r].writes :
       LET s == runtimes[r].session
       IN /\ runtimes' = [runtimes EXCEPT ![r].writes = @ \ {t},
                                 ![r].blocks[t] = IF Open(r) THEN @ ELSE None]
          /\ \/ /\ disk' = [disk EXCEPT ![s][t] = IF @ = None THEN runtimes[r].blocks[t] ELSE @]
                /\ UNCHANGED <<cut, faults>>
             \/ /\ faults < MaxFaults
                /\ faults' = faults + 1
                /\ cut' = cut \union {s}
                /\ UNCHANGED disk
  /\ UNCHANGED <<current, calls, turn, rendered, overtaken>>

-----------------------------------------------------------------------------
(* Shutdown *)

\* closed, and invalidate.  Of what a closed runtime holds, only the blocks it is
\* still writing matter.
Closed(rt) ==
  [Unborn EXCEPT !.session = rt.session, !.phase = "closed", !.writes = rt.writes,
     !.blocks = [t \in Turn |-> IF t \in rt.writes THEN rt.blocks[t] ELSE None]]
Close(r) ==
  /\ runtimes' = [runtimes EXCEPT ![r] = Closed(@)]
  /\ calls' = Stale(r, calls)
  /\ UNCHANGED <<current, turn, disk, rendered, overtaken, faults>>

\* The commit is over, with whatever outcome, and the ledger is written.
ShutdownEnds(r) ==
  /\ runtimes[r].phase = "closing"
  /\ runtimes[r].writes \intersect runtimes[r].flushing = {}
  /\ Close(r)
  /\ UNCHANGED cut

\* Whatever it waits for, shutdown waits no longer than its deadline.
ShutdownDeadline(r) ==
  /\ runtimes[r].phase = "closing"
  /\ Close(r)
  /\ cut' = IF runtimes[r].writes \intersect runtimes[r].flushing = {} THEN cut
            ELSE cut \union {runtimes[r].session}

\* The program ends, with ledger files half written.
Crash ==
  /\ faults < MaxFaults
  /\ faults' = faults + 1
  /\ cut' = cut \union {runtimes[r].session : r \in {q \in Rid : runtimes[q].writes # {}}}
  /\ runtimes' = [r \in Rid |-> IF runtimes[r].phase = "unborn" THEN Unborn
                                ELSE Closed([runtimes[r] EXCEPT !.writes = {}])]
  /\ current' = 0 /\ calls' = {}
  /\ UNCHANGED <<turn, disk, rendered, overtaken>>

Init ==
  /\ runtimes = [r \in Rid |-> Unborn]
  /\ current = 0 /\ calls = {}
  /\ turn = [s \in Session |-> 0]
  /\ disk = [s \in Session |-> Empty]
  /\ rendered = [s \in Session |-> Empty]
  /\ overtaken = [s \in Session |-> {}]
  /\ cut = {} /\ faults = 0

Harness ==
  \E s \in Session : \/ Enter(s) \/ Leave(s) \/ BeforeAgentStart(s) \/ AgentEnd(s)
                     \/ ContextCalled(s)

Network ==
  \E r \in Rid : LoadLedger(r) \/ Startup(r) \/ Persist(r) \/ ShutdownEnds(r)

Hook == \E c \in calls : TakePrompt(c) \/ SearchEnds(c)

Deadline == \E r \in Rid : ShutdownDeadline(r)

Next == Harness \/ Network \/ Hook \/ Deadline \/ Crash

Spec == Init /\ [][Next]_vars

-----------------------------------------------------------------------------
(* Properties *)

Rendering == [block : Block \union {None}]

\* The types; and a runtime that is not the current one is shutting down or shut.
TypeOK ==
  /\ runtimes \in [Rid -> Runtime]
  /\ current \in Rid \union {0}
  /\ \A r \in Rid : runtimes[r].phase = "live" <=> r = current
  /\ calls \subseteq Call
  /\ turn \in [Session -> 0..MaxTurns]
  /\ disk \in [Session -> Ledger]
  /\ rendered \in [Session -> [Turn -> Rendering \union {None}]]
  /\ overtaken \in [Session -> SUBSET Turn]
  /\ cut \subseteq Session
  /\ faults \in 0..MaxFaults

\* The model is given the same bytes for a turn each time, in the runtime that
\* recorded them and in every later one: a late search adds nothing to a turn
\* that was rendered without it (searchPending, record, load).  Three exceptions:
\* a rendering that did not wait for the ledger; a runtime that ended, or was
\* still ending, without its blocks on disk when the next one loaded the ledger;
\* and a turn whose hook, aborted while it waited, met the prompt of the next.
StablePrefix ==
  [][\A s \in Session : \A t \in Turn :
       LET before == rendered[s][t] after == rendered'[s][t]
       IN before # None /\ after # None =>
            \/ after.block = before.block
            \/ t \in overtaken[s]]_vars

\* The startup context is given to the model with some turn, not lost with a
\* recall that came too late (searchPending).  The exception: the hook of an
\* aborted turn took the prompt of the next one, and its own turn was found in the
\* ledger meanwhile.
StartupIsKept ==
  \A r \in Rid : runtimes[r].startup = "used" =>
    \/ overtaken[runtimes[r].session] # {}
    \/ \E t \in Turn : runtimes[r].blocks[t] # None /\ runtimes[r].blocks[t].startup

=============================================================================
