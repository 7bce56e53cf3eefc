---------------------------- MODULE RuntimeProofs ----------------------------
(***************************************************************************)
(* The safety of the runtimes of a program, proved for any number of       *)
(* sessions, runtimes, turns, calls and faults.                            *)
(*                                                                         *)
(* The inductive invariant has two parts.  IInv says where a prompt can    *)
(* wait, and that a turn whose prompt waits has no block.  RInv says what  *)
(* the model has been given: the block that the current runtime holds and, *)
(* unless the session was cut, the one that the next runtime will read.    *)
(***************************************************************************)
EXTENDS Runtime, TLAPS

Of(c) == runtimes[c.runtime].session
Pending(c) == runtimes[c.runtime].prompt

\* What a runtime holds in each phase.
Lives ==
  \A r \in Rid :
    LET rt == runtimes[r]
    IN /\ rt.phase = "unborn" => rt = Unborn
       /\ rt.phase # "unborn" => rt.session \in Session
       /\ ~ Open(r) => /\ rt.prompt = 0 /\ rt.startup = "unset"
                       /\ \A t \in Turn : rt.blocks[t] # None => t \in rt.writes
       /\ \A t \in rt.writes : rt.blocks[t] # None
       /\ rt.init # "ready" => rt.startup = "unset"

\* Nothing is known of a turn that has not begun.
RuntimesBegun ==
  \A r \in Rid :
    runtimes[r].phase # "unborn" =>
      /\ runtimes[r].prompt <= turn[runtimes[r].session]
      /\ \A t \in Turn : runtimes[r].blocks[t] # None => t <= turn[runtimes[r].session]
SessionsBegun ==
  \A s \in Session : \A t \in Turn : disk[s][t] # None \/ rendered[s][t] # None => t <= turn[s]
CallsBegun ==
  \A c \in calls : /\ runtimes[c.runtime].phase # "unborn"
                   /\ c.turn <= turn[Of(c)]
                   /\ c.at = "search" => c.query # 0 /\ c.query <= turn[Of(c)]

\* The prompt that is pending is that of the last turn; a hook searches for the
\* prompt of its own turn, but for overtaken ones.
Prompts ==
  /\ current # 0 => runtimes[current].prompt \in {0, turn[runtimes[current].session]}
  /\ \A c \in calls : c.turn \notin overtaken[Of(c)] =>
       /\ c.at = "ready" /\ Pending(c) # 0 => c.turn = Pending(c)
       /\ c.at = "search" => c.query = c.turn

\* A prompt is pending or searched for in one place.
OnePending ==
  \A q, r \in Rid : runtimes[q].session = runtimes[r].session
                      /\ runtimes[q].prompt # 0 /\ runtimes[q].prompt = runtimes[r].prompt => q = r
OneSearch ==
  \A c, d \in calls : c.at = "search" /\ d.at = "search" /\ Of(c) = Of(d) /\ c.query = d.query
                        => c = d
PendingOrSearched ==
  \A c \in calls, r \in Rid : c.at = "search" /\ Of(c) = runtimes[r].session
                                => c.query # runtimes[r].prompt

\* The prompt of the turn is pending, or searched for.
Asked(s, t) ==
  \/ \E r \in Rid : runtimes[r].session = s /\ runtimes[r].prompt = t
  \/ \E c \in calls : Of(c) = s /\ c.at = "search" /\ c.query = t

\* No block of the turn exists.
NoBlock(s, t) ==
  /\ disk[s][t] = None
  /\ \A r \in Rid : runtimes[r].session = s => runtimes[r].blocks[t] = None

\* A turn has no block while its prompt waits.
AskedIsBlank ==
  \A s \in Session : \A t \in Turn \ overtaken[s] : Asked(s, t) => NoBlock(s, t)

IInv ==
  /\ TypeOK /\ Lives /\ RuntimesBegun /\ SessionsBegun /\ CallsBegun /\ Prompts
  /\ OnePending /\ OneSearch /\ PendingOrSearched /\ AskedIsBlank /\ StartupIsKept

-----------------------------------------------------------------------------
(* What is rendered *)

\* Only one hook has somebody waiting for it, in the current runtime.
Awaited ==
  \A c \in calls :
    /\ ~ c.aborted => c.runtime = current
    /\ \A d \in calls : ~ c.aborted /\ ~ d.aborted => c = d
    /\ c.at = "search" /\ c.fresh => Open(c.runtime)

\* A hook that meets a prompt, or whose search still counts, is awaited.
AwaitedPrompts ==
  \A c \in calls :
    /\ c.runtime = current /\ c.turn \notin overtaken[Of(c)] =>
         /\ c.at = "ready" /\ Pending(c) # 0 => ~ c.aborted
         /\ c.at = "search" /\ c.fresh => ~ c.aborted
    /\ c.at = "search" /\ c.runtime = current /\ Pending(c) # 0 => c.aborted

\* A turn is recorded once: all that is held of it is one block.
OneBlock ==
  \A s \in Session : \A t \in Turn \ overtaken[s] : \A r \in Rid :
    runtimes[r].session = s /\ runtimes[r].blocks[t] # None =>
      /\ disk[s][t] \in {None, runtimes[r].blocks[t]}
      /\ \A q \in Rid : runtimes[q].session = s =>
           runtimes[q].blocks[t] \in {None, runtimes[r].blocks[t]}

\* A block that is held is on disk, on its way, or cut.
BlocksHeld ==
  \A r \in Rid : \A t \in Turn :
    runtimes[r].blocks[t] # None =>
      \/ t \in runtimes[r].writes
      \/ disk[runtimes[r].session][t] # None
      \/ runtimes[r].session \in cut

\* With a ledger that was read whole, the current runtime is alone and holds what
\* is on disk.
Alone ==
  current # 0 /\ runtimes[current].init # "ledger" /\ runtimes[current].session \notin cut =>
    LET s == runtimes[current].session
    IN /\ \A q \in Rid \ {current} :
            runtimes[q].session = s => ~ Open(q) /\ runtimes[q].writes = {}
       /\ \A t \in Turn \ overtaken[s] : disk[s][t] # None => runtimes[current].blocks[t] # None

\* What was rendered for a turn is what the current runtime holds, and, unless the
\* session was cut, what the next one will read.
RenderedHere ==
  \A s \in Session : \A t \in Turn \ overtaken[s] : rendered[s][t] # None /\ CurrentFor(s) =>
    /\ runtimes[current].init # "ledger" => rendered[s][t].block = runtimes[current].blocks[t]
    /\ runtimes[current].prompt # t
    /\ \A c \in calls : ~ (/\ c.runtime = current /\ c.at = "search" /\ c.fresh /\ c.turn = t)
RenderedWithout ==
  \A s \in Session \ cut : \A t \in Turn \ overtaken[s] :
    rendered[s][t] # None /\ rendered[s][t].block = None =>
      /\ NoBlock(s, t)
      /\ \A r \in Rid : runtimes[r].session = s => runtimes[r].prompt # t
      /\ \A c \in calls : Of(c) = s => ~ (c.at = "search" /\ c.fresh /\ c.turn = t)
RenderedWith ==
  \A s \in Session \ cut : \A t \in Turn \ overtaken[s] :
    rendered[s][t] # None /\ rendered[s][t].block # None =>
      \/ disk[s][t] = rendered[s][t].block
      \/ \E r \in Rid : /\ runtimes[r].session = s /\ t \in runtimes[r].writes
                        /\ runtimes[r].blocks[t] = rendered[s][t].block

RInv ==
  /\ Awaited /\ AwaitedPrompts /\ OneBlock /\ BlocksHeld /\ Alone
  /\ RenderedHere /\ RenderedWithout /\ RenderedWith

-----------------------------------------------------------------------------
(* The fields of what the parts of the handlers return *)

LEMMA UnbornIs ==
  /\ Unborn \in Runtime
  /\ Unborn.session = None /\ Unborn.phase = "unborn" /\ Unborn.init = "ledger" /\ Unborn.prompt = 0
  /\ Unborn.startup = "unset" /\ Unborn.writes = {}
  /\ Unborn.blocks = [t \in Turn |-> None]
  /\ \A t \in Turn : Unborn.blocks[t] = None
<1>1. Empty \in Ledger /\ Empty = [t \in Turn |-> None]
  BY DEF Empty, Ledger
<1>2. MaxTurns \in Nat
  BY RuntimeAssumption
<1> QED BY <1>1, <1>2 DEF Unborn, Runtime

Born(s) == [Unborn EXCEPT !.session = s, !.phase = "live"]

LEMMA BornIs ==
  ASSUME NEW s \in Session, NEW x, x = Born(s)
  PROVE /\ x \in Runtime
        /\ x.session = s /\ x.phase = "live" /\ x.init = "ledger" /\ x.prompt = 0
        /\ x.startup = "unset" /\ x.writes = {} /\ \A t \in Turn : x.blocks[t] = None
<1>1. PICK u : u = Unborn
  OBVIOUS
<1>2. /\ u \in Runtime /\ u.init = "ledger" /\ u.prompt = 0 /\ u.startup = "unset"
      /\ u.writes = {} /\ \A t \in Turn : u.blocks[t] = None
  BY <1>1, UnbornIs
<1>3. x = [u EXCEPT !.session = s, !.phase = "live"]
  BY <1>1 DEF Born
<1>4. /\ x \in Runtime
      /\ x.session = s /\ x.phase = "live" /\ x.init = u.init /\ x.prompt = u.prompt
      /\ x.startup = u.startup /\ x.writes = u.writes /\ x.blocks = u.blocks
  BY ONLY <1>2, <1>3, s \in Session DEF Runtime
<1> QED BY <1>2, <1>4

LEMMA ClosingIs ==
  ASSUME NEW rt \in Runtime, NEW x, x = BeginShutdown(rt)
  PROVE /\ x \in Runtime
        /\ x.session = rt.session /\ x.phase = "closing" /\ x.init = rt.init
        /\ x.prompt = rt.prompt /\ x.startup = rt.startup /\ x.blocks = rt.blocks
        /\ x.writes = rt.writes
BY DEF BeginShutdown, Runtime

LEMMA ClosedIs ==
  ASSUME NEW rt \in Runtime, NEW x, x = Closed(rt)
  PROVE /\ x \in Runtime
        /\ x.session = rt.session /\ x.phase = "closed" /\ x.init = "ledger"
        /\ x.prompt = 0 /\ x.startup = "unset" /\ x.writes = rt.writes
        /\ \A t \in Turn : x.blocks[t] = IF t \in rt.writes THEN rt.blocks[t] ELSE None
<1>1. PICK b : b = [t \in Turn |-> IF t \in rt.writes THEN rt.blocks[t] ELSE None]
  OBVIOUS
<1>2. b \in Ledger /\ \A t \in Turn : b[t] = IF t \in rt.writes THEN rt.blocks[t] ELSE None
  <2>1. \A t \in Turn : rt.blocks[t] \in Block \union {None}
    BY DEF Runtime, Ledger
  <2> QED BY <1>1, <2>1 DEF Ledger
<1>3. x = [session |-> rt.session, phase |-> "closed", init |-> "ledger", prompt |-> 0,
           startup |-> "unset", blocks |-> b, writes |-> rt.writes, flushing |-> {}]
  BY <1>1 DEF Closed, Unborn
<1>4. MaxTurns \in Nat /\ rt.session \in Session \union {None} /\ rt.writes \in SUBSET Turn
  BY RuntimeAssumption DEF Runtime
<1> QED BY <1>2, <1>3, <1>4 DEF Runtime

LEMMA PromptIs ==
  ASSUME NEW rt \in Runtime, NEW p \in 0..MaxTurns, NEW x, x = [rt EXCEPT !.prompt = p]
  PROVE /\ x \in Runtime
        /\ x.session = rt.session /\ x.phase = rt.phase /\ x.init = rt.init
        /\ x.prompt = p /\ x.startup = rt.startup /\ x.blocks = rt.blocks /\ x.writes = rt.writes
BY DEF Runtime

WithLedger(rt, stored) ==
  [rt EXCEPT !.init = "loaded",
             !.blocks = [t \in Turn |-> IF stored[t] # None THEN stored[t] ELSE @[t]]]

LEMMA LoadedIs ==
  ASSUME NEW rt \in Runtime, NEW stored \in Ledger, NEW x, x = WithLedger(rt, stored)
  PROVE /\ x \in Runtime
        /\ x.session = rt.session /\ x.phase = rt.phase /\ x.init = "loaded"
        /\ x.prompt = rt.prompt /\ x.startup = rt.startup /\ x.writes = rt.writes
        /\ \A t \in Turn : x.blocks[t] = IF stored[t] # None THEN stored[t] ELSE rt.blocks[t]
<1>1. PICK b : b = [t \in Turn |-> IF stored[t] # None THEN stored[t] ELSE rt.blocks[t]]
  OBVIOUS
<1>2. b \in Ledger /\ \A t \in Turn : b[t] = IF stored[t] # None THEN stored[t] ELSE rt.blocks[t]
  <2>1. \A t \in Turn : rt.blocks[t] \in Block \union {None} /\ stored[t] \in Block \union {None}
    BY DEF Runtime, Ledger
  <2> QED BY <1>1, <2>1 DEF Ledger
<1>3. x = [rt EXCEPT !.init = "loaded", !.blocks = b]
  BY <1>1 DEF WithLedger
<1> QED BY <1>2, <1>3 DEF Runtime

LEMMA ReadyIs ==
  ASSUME NEW rt \in Runtime, NEW x, x = [rt EXCEPT !.init = "ready", !.startup = "set"]
  PROVE /\ x \in Runtime
        /\ x.session = rt.session /\ x.phase = rt.phase /\ x.init = "ready"
        /\ x.prompt = rt.prompt /\ x.startup = "set" /\ x.blocks = rt.blocks /\ x.writes = rt.writes
BY DEF Runtime

LEMMA RecordedIs ==
  ASSUME NEW rt \in Runtime, NEW c \in Call, NEW b \in Block, NEW x, x = Recorded(c, rt, b)
  PROVE /\ x \in Runtime
        /\ x.session = rt.session /\ x.phase = rt.phase /\ x.init = rt.init /\ x.prompt = rt.prompt
        /\ ~ c.fresh => x = rt
        /\ c.fresh =>
             /\ x.startup = IF rt.startup = "set" THEN "used" ELSE rt.startup
             /\ \A t \in Turn : x.blocks[t] = IF t = c.turn /\ rt.blocks[t] = None THEN b
                                              ELSE rt.blocks[t]
             /\ x.writes = IF rt.blocks[c.turn] = None THEN rt.writes \union {c.turn} ELSE rt.writes
<1>1. CASE ~ c.fresh
  BY <1>1 DEF Recorded
<1>2. CASE c.fresh
  <2>1. PICK m, w, u :
          /\ m = [rt.blocks EXCEPT ![c.turn] = IF @ = None THEN b ELSE @]
          /\ w = IF rt.blocks[c.turn] = None THEN rt.writes \union {c.turn} ELSE rt.writes
          /\ u = IF rt.startup = "set" THEN "used" ELSE rt.startup
    OBVIOUS
  <2>2. c.turn \in Turn /\ rt.blocks \in Ledger /\ rt.writes \in SUBSET Turn
        /\ rt.startup \in {"unset", "set", "used"}
    BY DEF Call, Runtime
  <2>3. m \in Ledger /\ \A t \in Turn : m[t] = IF t = c.turn /\ rt.blocks[t] = None THEN b ELSE rt.blocks[t]
    BY <2>1, <2>2 DEF Ledger
  <2>4. w \in SUBSET Turn /\ u \in {"unset", "set", "used"}
    BY <2>1, <2>2
  <2>5. x = [rt EXCEPT !.startup = u, !.blocks = m, !.writes = w]
    BY <1>2, <2>1 DEF Recorded, Recorded_Always
  <2>6. /\ x \in Runtime
        /\ x.session = rt.session /\ x.phase = rt.phase /\ x.init = rt.init /\ x.prompt = rt.prompt
        /\ x.startup = u /\ x.blocks = m /\ x.writes = w
    BY <2>3, <2>4, <2>5 DEF Runtime
  <2> QED BY <1>2, <2>1, <2>3, <2>6
<1> QED BY <1>1, <1>2

Written(rt, t, b) == [rt EXCEPT !.writes = @ \ {t}, !.blocks[t] = b]

LEMMA PersistedIs ==
  ASSUME NEW rt \in Runtime, NEW t \in Turn, NEW b \in Block \union {None}, NEW x,
         x = Written(rt, t, b)
  PROVE /\ x \in Runtime
        /\ x.session = rt.session /\ x.phase = rt.phase /\ x.init = rt.init
        /\ x.prompt = rt.prompt /\ x.startup = rt.startup /\ x.writes = rt.writes \ {t}
        /\ \A u \in Turn : x.blocks[u] = IF u = t THEN b ELSE rt.blocks[u]
<1>1. PICK m, w : m = [rt.blocks EXCEPT ![t] = b] /\ w = rt.writes \ {t}
  OBVIOUS
<1>2. m \in Ledger /\ \A u \in Turn : m[u] = IF u = t THEN b ELSE rt.blocks[u]
  BY <1>1 DEF Ledger, Runtime
<1>3. w \in SUBSET Turn
  BY <1>1 DEF Runtime
<1>4. x = [rt EXCEPT !.writes = w, !.blocks = m]
  BY <1>1 DEF Written
<1> QED BY <1>1, <1>2, <1>3, <1>4 DEF Runtime

LEMMA AbortedIs ==
  ASSUME NEW c \in Call, NEW x, x = [c EXCEPT !.aborted = TRUE]
  PROVE /\ x \in Call /\ x.aborted
        /\ x.runtime = c.runtime /\ x.turn = c.turn /\ x.at = c.at /\ x.query = c.query
        /\ x.fresh = c.fresh
BY DEF Call

Outdated(c, r) == [c EXCEPT !.fresh = IF c.runtime = r THEN FALSE ELSE @]

LEMMA StaleIs ==
  ASSUME NEW c \in Call, NEW r, NEW x, x = Outdated(c, r)
  PROVE /\ x \in Call /\ x.aborted = c.aborted
        /\ x.runtime = c.runtime /\ x.turn = c.turn /\ x.at = c.at /\ x.query = c.query
        /\ c.runtime = r => x.fresh = FALSE
        /\ c.runtime # r => x.fresh = c.fresh
BY DEF Call, Outdated

Searching(c, p) == [c EXCEPT !.at = "search", !.query = p, !.fresh = TRUE]

LEMMA SearchingIs ==
  ASSUME NEW c \in Call, NEW p \in 0..MaxTurns, NEW x, x = Searching(c, p)
  PROVE /\ x \in Call /\ x.aborted = c.aborted /\ x.runtime = c.runtime /\ x.turn = c.turn
        /\ x.at = "search" /\ x.query = p /\ x.fresh
BY DEF Call, Searching


-----------------------------------------------------------------------------
(* Each step keeps the invariant *)

\* What the invariant says, of types, for all the steps.
LEMMA Typed ==
  ASSUME TypeOK
  PROVE /\ \A r \in Rid : /\ runtimes[r] \in Runtime
                          /\ runtimes[r].prompt \in 0..MaxTurns /\ runtimes[r].writes \subseteq Turn
                          /\ \A t \in Turn : runtimes[r].blocks[t] \in Block \union {None}
        /\ \A c \in calls : /\ c \in Call /\ c.runtime \in Rid /\ c.turn \in Turn
                            /\ c.query \in 0..MaxTurns /\ c.at \in {"ready", "search"}
                            /\ c.fresh \in BOOLEAN /\ c.aborted \in BOOLEAN
        /\ \A s \in Session : turn[s] \in 0..MaxTurns
        /\ MaxTurns \in Nat /\ 0 \notin Rid
        /\ None \notin Session /\ None \notin Block /\ None \notin Rendering
<1>1. /\ MaxTurns \in Nat /\ None \notin Session /\ None \notin Block
  BY RuntimeAssumption DEF Block
<1>2. None \notin Rendering
  <2>1. Rendering \subseteq [block : [query : Nat, startup : BOOLEAN] \union {None}]
    BY <1>1 DEF Rendering, Block
  <2> QED BY <2>1, RuntimeAssumption
<1>3. ASSUME NEW r \in Rid
      PROVE /\ runtimes[r] \in Runtime
            /\ runtimes[r].prompt \in 0..MaxTurns /\ runtimes[r].writes \subseteq Turn
            /\ \A t \in Turn : runtimes[r].blocks[t] \in Block \union {None}
  <2>1. runtimes[r] \in Runtime
    BY DEF TypeOK
  <2> QED BY <2>1 DEF Runtime, Ledger
<1>4. ASSUME NEW c \in calls
      PROVE /\ c \in Call /\ c.runtime \in Rid /\ c.turn \in Turn
            /\ c.query \in 0..MaxTurns /\ c.at \in {"ready", "search"}
            /\ c.fresh \in BOOLEAN /\ c.aborted \in BOOLEAN
  BY DEF TypeOK, Call
<1>5. 0 \notin Rid /\ \A s \in Session : turn[s] \in 0..MaxTurns
  BY DEF TypeOK, Rid
<1> QED BY <1>1, <1>2, <1>3, <1>4, <1>5


\* A runtime is replaced by r, or left, when r is 0.
Replaced(s, r) ==
  /\ current' = r
  /\ r # 0 => /\ runtimes[r].phase = "unborn" /\ runtimes'[r].session = s
              /\ runtimes[r].session = None /\ runtimes[r].init = "ledger"
              /\ runtimes[r].prompt = 0 /\ runtimes[r].startup = "unset"
              /\ runtimes[r].writes = {} /\ \A t \in Turn : runtimes[r].blocks[t] = None
  /\ r # current
  /\ \A q \in Rid :
       /\ runtimes'[q] \in Runtime
       /\ runtimes'[q].init = runtimes[q].init /\ runtimes'[q].prompt = runtimes[q].prompt
       /\ runtimes'[q].startup = runtimes[q].startup /\ runtimes'[q].writes = runtimes[q].writes
       /\ \A t \in Turn : runtimes'[q].blocks[t] = runtimes[q].blocks[t]
       /\ q # r => runtimes'[q].session = runtimes[q].session
       /\ runtimes'[q].phase = IF q = r THEN "live" ELSE IF q = current THEN "closing"
                               ELSE runtimes[q].phase
       /\ q # r /\ q # current => runtimes'[q] = runtimes[q]
  /\ runtimes' \in [Rid -> Runtime]
  /\ \A x \in calls' : x \in Call /\ x.aborted
  /\ \A x \in calls' : \E c \in calls :
       /\ x.runtime = c.runtime /\ x.turn = c.turn /\ x.at = c.at /\ x.query = c.query
       /\ x.fresh = c.fresh /\ x = [c EXCEPT !.aborted = TRUE]
  /\ UNCHANGED <<turn, disk, rendered, overtaken, cut, faults>>

LEMMA ReplacedIs ==
  ASSUME TypeOK, Lives, NEW s \in Session, Enter(s) \/ Leave(s)
  PROVE \E r \in Rid \union {0} : Replaced(s, r)
<1>1. CASE Enter(s)
  <2>1. PICK r \in Rid :
          /\ runtimes[r].phase = "unborn"
          /\ runtimes' = [q \in Rid |->
                IF q = r THEN Born(s)
                ELSE IF q = current THEN BeginShutdown(runtimes[q]) ELSE runtimes[q]]
          /\ current' = r
    BY <1>1 DEF Enter, Born
  <2>2. runtimes[r] = Unborn /\ r # current /\ r # 0
    BY <2>1, Typed DEF Lives, TypeOK
  <2>3. PICK x : x = Born(s)
    OBVIOUS
  <2>4. /\ x \in Runtime
        /\ x.session = s /\ x.phase = "live" /\ x.init = "ledger" /\ x.prompt = 0
        /\ x.startup = "unset" /\ x.writes = {} /\ \A t \in Turn : x.blocks[t] = None
    BY <2>3, BornIs
  <2>5. /\ runtimes[r].session = None /\ runtimes[r].init = "ledger" /\ runtimes[r].prompt = 0
        /\ runtimes[r].startup = "unset" /\ runtimes[r].writes = {}
        /\ \A t \in Turn : runtimes[r].blocks[t] = None
    BY <2>2, UnbornIs
  <2>6. runtimes'[r] = x
    BY <2>1, <2>3
  <2>7. ASSUME NEW q \in Rid
        PROVE /\ runtimes'[q] \in Runtime
              /\ runtimes'[q].init = runtimes[q].init /\ runtimes'[q].prompt = runtimes[q].prompt
              /\ runtimes'[q].startup = runtimes[q].startup /\ runtimes'[q].writes = runtimes[q].writes
              /\ \A t \in Turn : runtimes'[q].blocks[t] = runtimes[q].blocks[t]
              /\ q # r => runtimes'[q].session = runtimes[q].session
              /\ runtimes'[q].phase = IF q = r THEN "live" ELSE IF q = current THEN "closing"
                                      ELSE runtimes[q].phase
              /\ q # r /\ q # current => runtimes'[q] = runtimes[q]
    <3>1. runtimes[q] \in Runtime
      BY Typed
    <3>2. CASE q = r
      BY <2>4, <2>5, <2>6, <3>2
    <3>3. CASE q # r /\ q = current
      <4>1. runtimes'[q] = BeginShutdown(runtimes[q])
        BY <2>1, <3>3
      <4> QED BY <3>1, <3>3, <4>1, ClosingIs
    <3>4. CASE q # r /\ q # current
      BY <2>1, <3>1, <3>4
    <3> QED BY <3>2, <3>3, <3>4
  <2>8. runtimes' = [q \in Rid |-> runtimes'[q]]
    BY <2>1
  <2>9. runtimes' \in [Rid -> Runtime]
    BY <2>7, <2>8
  <2>10. /\ \A x1 \in calls' : x1 \in Call /\ x1.aborted
         /\ \A x1 \in calls' : \E c \in calls :
              /\ x1.runtime = c.runtime /\ x1.turn = c.turn /\ x1.at = c.at /\ x1.query = c.query
              /\ x1.fresh = c.fresh /\ x1 = [c EXCEPT !.aborted = TRUE]
    BY <1>1, Typed, AbortedIs DEF Enter
  <2>11. UNCHANGED <<turn, disk, rendered, overtaken, cut, faults>>
    BY <1>1 DEF Enter, history
  <2>12. Replaced(s, r)
    BY <2>1, <2>2, <2>4, <2>5, <2>6, <2>7, <2>9, <2>10, <2>11 DEF Replaced
  <2> QED BY <2>12
<1>2. CASE Leave(s)
  <2>1. /\ runtimes' = [runtimes EXCEPT ![current] = BeginShutdown(@)]
        /\ current # 0 /\ current' = 0 /\ current \in Rid /\ runtimes \in [Rid -> Runtime]
    BY <1>2 DEF Leave, CurrentFor, TypeOK
  <2>2. ASSUME NEW q \in Rid
        PROVE /\ runtimes'[q] \in Runtime
              /\ runtimes'[q].init = runtimes[q].init /\ runtimes'[q].prompt = runtimes[q].prompt
              /\ runtimes'[q].startup = runtimes[q].startup /\ runtimes'[q].writes = runtimes[q].writes
              /\ \A t \in Turn : runtimes'[q].blocks[t] = runtimes[q].blocks[t]
              /\ runtimes'[q].session = runtimes[q].session
              /\ runtimes'[q].phase = IF q = current THEN "closing" ELSE runtimes[q].phase
              /\ q # current => runtimes'[q] = runtimes[q]
    <3>1. runtimes[q] \in Runtime
      BY Typed
    <3>2. CASE q = current
      <4>1. runtimes'[q] = BeginShutdown(runtimes[q])
        BY <2>1, <3>2
      <4> QED BY <3>1, <3>2, <4>1, ClosingIs
    <3>3. CASE q # current
      BY <2>1, <3>1, <3>3
    <3> QED BY <3>2, <3>3
  <2>3. runtimes' = [q \in Rid |-> runtimes'[q]]
    BY <2>1
  <2>4. runtimes' \in [Rid -> Runtime]
    BY <2>2, <2>3
  <2>5. /\ \A x \in calls' : x \in Call /\ x.aborted
        /\ \A x \in calls' : \E c \in calls :
             /\ x.runtime = c.runtime /\ x.turn = c.turn /\ x.at = c.at /\ x.query = c.query
             /\ x.fresh = c.fresh /\ x = [c EXCEPT !.aborted = TRUE]
    BY <1>2, Typed, AbortedIs DEF Leave
  <2>6. UNCHANGED <<turn, disk, rendered, overtaken, cut, faults>>
    BY <1>2 DEF Leave, history
  <2>7. 0 \notin Rid
    BY Typed
  <2>8. Replaced(s, 0)
    BY <2>1, <2>2, <2>4, <2>5, <2>6, <2>7 DEF Replaced
  <2> QED BY <2>8
<1> QED BY <1>1, <1>2


LEMMA ReplaceKeeps ==
  ASSUME IInv, NEW s \in Session, Enter(s) \/ Leave(s)
  PROVE IInv'
<1>1. PICK r \in Rid \union {0} : Replaced(s, r)
  BY ReplacedIs DEF IInv
<1>2. ASSUME NEW x \in calls'
      PROVE \E c \in calls :
              /\ x.runtime = c.runtime /\ x.turn = c.turn /\ x.at = c.at /\ x.query = c.query
              /\ x = [c EXCEPT !.aborted = TRUE]
              /\ c.runtime # r /\ c.runtime \in Rid /\ Of(x)' = Of(c) /\ Pending(x)' = Pending(c)
  <2>1. PICK c \in calls :
          /\ x.runtime = c.runtime /\ x.turn = c.turn /\ x.at = c.at /\ x.query = c.query
          /\ x = [c EXCEPT !.aborted = TRUE]
    BY <1>1 DEF Replaced
  <2>2. c.runtime # r /\ c.runtime \in Rid
    BY <1>1, Typed DEF IInv, CallsBegun, Replaced
  <2>3. runtimes'[c.runtime].session = runtimes[c.runtime].session
        /\ runtimes'[c.runtime].prompt = runtimes[c.runtime].prompt
    BY <1>1, <2>2 DEF Replaced
  <2>4. Of(x)' = Of(c) /\ Pending(x)' = Pending(c)
    BY <2>1, <2>3 DEF Of, Pending
  <2> QED BY <2>1, <2>2, <2>4
<1>3. TypeOK'
  <2>1. runtimes' \in [Rid -> Runtime] /\ calls' \subseteq Call /\ current' \in Rid \union {0}
    BY <1>1 DEF Replaced
  <2>2. \A q \in Rid : runtimes'[q].phase = "live" <=> q = current'
    BY <1>1 DEF Replaced, IInv, TypeOK
  <2> QED BY <1>1, <2>1, <2>2 DEF IInv, TypeOK, Replaced
<1>4. Lives'
  <2>1. ASSUME NEW q \in Rid, q = r
        PROVE /\ runtimes'[q].phase = "live" /\ runtimes'[q].session = s /\ runtimes'[q].writes = {}
              /\ runtimes'[q].startup = "unset"
    BY <1>1, <2>1, Typed DEF Replaced, IInv
  <2>2. ASSUME NEW q \in Rid, q = current, q # r
        PROVE /\ runtimes'[q].phase = "closing" /\ runtimes'[q].session \in Session
              /\ \A t \in runtimes'[q].writes : runtimes'[q].blocks[t] # None
              /\ runtimes'[q].init # "ready" => runtimes'[q].startup = "unset"
    <3>1. runtimes[q].phase = "live" /\ runtimes[q].writes \subseteq Turn
      BY <2>2, Typed DEF IInv, TypeOK
    <3> QED BY <1>1, <2>2, <3>1 DEF Replaced, IInv, Lives
  <2>3. ASSUME NEW q \in Rid, q # current, q # r
        PROVE runtimes'[q] = runtimes[q]
    BY <1>1, <2>3 DEF Replaced
  <2> QED BY <2>1, <2>2, <2>3 DEF Lives, Open, IInv
<1>5. RuntimesBegun'
  <2>1. ASSUME NEW q \in Rid, q = r
        PROVE /\ runtimes'[q].prompt = 0 /\ runtimes'[q].session = s
              /\ \A t \in Turn : runtimes'[q].blocks[t] = None
    BY <1>1, <2>1, Typed DEF Replaced, IInv
  <2>2. ASSUME NEW q \in Rid, q # r, runtimes'[q].phase # "unborn"
        PROVE runtimes[q].phase # "unborn" /\ runtimes'[q].session = runtimes[q].session
              /\ runtimes'[q].prompt = runtimes[q].prompt
              /\ \A t \in Turn : runtimes'[q].blocks[t] = runtimes[q].blocks[t]
    BY <1>1, <2>2 DEF Replaced, IInv, TypeOK
  <2>3. turn' = turn /\ turn[s] >= 0
    BY <1>1, Typed DEF Replaced, IInv
  <2> QED BY <2>1, <2>2, <2>3 DEF RuntimesBegun, IInv
<1>6. SessionsBegun'
  BY <1>1 DEF SessionsBegun, Replaced, IInv
<1>7. CallsBegun'
  <2>1. \A q \in Rid : runtimes[q].phase # "unborn" => runtimes'[q].phase # "unborn"
    BY <1>1 DEF Replaced
  <2>2. turn' = turn
    BY <1>1 DEF Replaced
  <2> QED BY <1>2, <2>1, <2>2 DEF CallsBegun, IInv
<1>8. Prompts'
  <2>1. current' # 0 => runtimes'[current'].prompt = 0
    BY <1>1, Typed DEF Replaced, IInv
  <2>2. overtaken' = overtaken
    BY <1>1 DEF Replaced
  <2> QED BY <1>2, <2>1, <2>2 DEF Prompts, IInv
<1>9. OnePending'
  <2>1. \A q \in Rid : runtimes'[q].prompt # 0 => q # r /\ runtimes[q].prompt = runtimes'[q].prompt
                                                  /\ runtimes[q].session = runtimes'[q].session
    BY <1>1, Typed DEF Replaced, IInv
  <2> QED BY <2>1 DEF OnePending, IInv
<1>10. OneSearch'
  <2>1. ASSUME NEW x \in calls', NEW y \in calls',
               x.at = "search", y.at = "search", Of(x)' = Of(y)', x.query = y.query
        PROVE x = y
    <3>1. PICK c \in calls : /\ x.at = c.at /\ x.query = c.query /\ Of(x)' = Of(c)
                             /\ x = [c EXCEPT !.aborted = TRUE]
      BY <1>2
    <3>2. PICK d \in calls : /\ y.at = d.at /\ y.query = d.query /\ Of(y)' = Of(d)
                             /\ y = [d EXCEPT !.aborted = TRUE]
      BY <1>2
    <3>3. c = d
      BY <2>1, <3>1, <3>2 DEF OneSearch, IInv
    <3> QED BY <3>1, <3>2, <3>3
  <2> QED BY <2>1 DEF OneSearch
<1>11. PendingOrSearched'
  <2>1. ASSUME NEW x \in calls', NEW q \in Rid, x.at = "search", Of(x)' = runtimes'[q].session
        PROVE x.query # runtimes'[q].prompt
    <3>1. PICK c \in calls : x.at = c.at /\ x.query = c.query /\ Of(x)' = Of(c)
      BY <1>2
    <3>2. CASE q = r
      BY <1>1, <2>1, <3>1, <3>2, Typed DEF Replaced, IInv, CallsBegun
    <3>3. CASE q # r
      <4>1. runtimes'[q].session = runtimes[q].session /\ runtimes'[q].prompt = runtimes[q].prompt
        BY <1>1, <3>3 DEF Replaced
      <4> QED BY <2>1, <3>1, <4>1 DEF IInv, PendingOrSearched
    <3> QED BY <3>2, <3>3
  <2> QED BY <2>1 DEF PendingOrSearched
<1>12. AskedIsBlank'
  <2>1. ASSUME NEW u \in Session, NEW t \in Turn, Asked(u, t)' PROVE Asked(u, t)
    <3>1. CASE \E q \in Rid : runtimes'[q].session = u /\ runtimes'[q].prompt = t
      BY <1>1, <3>1, Typed DEF Replaced, IInv, Asked, Turn
    <3>2. CASE \E x \in calls' : Of(x)' = u /\ x.at = "search" /\ x.query = t
      BY <1>2, <3>2 DEF Asked
    <3> QED BY <2>1, <3>1, <3>2 DEF Asked
  <2>2. ASSUME NEW u \in Session, NEW t \in Turn, NoBlock(u, t) PROVE NoBlock(u, t)'
    <3>1. ASSUME NEW q \in Rid, runtimes'[q].session = u PROVE runtimes'[q].blocks[t] = None
      <4>1. q # r => runtimes[q].session = u
        BY <1>1, <3>1 DEF Replaced
      <4>2. runtimes'[q].blocks[t] = runtimes[q].blocks[t]
        BY <1>1 DEF Replaced
      <4>3. q = r => runtimes[q].blocks[t] = None
        BY <1>1, Typed DEF Replaced, IInv
      <4> QED BY <2>2, <4>1, <4>2, <4>3 DEF NoBlock
    <3>2. disk' = disk
      BY <1>1 DEF Replaced
    <3> QED BY <2>2, <3>1, <3>2 DEF NoBlock
  <2>3. overtaken' = overtaken
    BY <1>1 DEF Replaced
  <2> QED BY <2>1, <2>2, <2>3 DEF AskedIsBlank, IInv
<1>13. StartupIsKept'
  <2>1. ASSUME NEW q \in Rid, runtimes'[q].startup = "used"
        PROVE /\ runtimes[q].startup = "used" /\ runtimes'[q].session = runtimes[q].session
              /\ \A t \in Turn : runtimes'[q].blocks[t] = runtimes[q].blocks[t]
    BY <1>1, <2>1, Typed DEF Replaced, IInv
  <2>2. overtaken' = overtaken
    BY <1>1 DEF Replaced
  <2> QED BY <2>1, <2>2 DEF StartupIsKept, IInv
<1> QED BY <1>3, <1>4, <1>5, <1>6, <1>7, <1>8, <1>9, <1>10, <1>11, <1>12, <1>13 DEF IInv


\* The prompt of the current runtime, of session s, is set to p, and its hooks aborted.
Silenced(c) == [c EXCEPT !.fresh = IF c.runtime = current THEN FALSE ELSE @, !.aborted = TRUE]
PromptSet(s, p) ==
  /\ current \in Rid /\ runtimes[current].session = s /\ runtimes[current].phase = "live"
  /\ current' = current
  /\ \A q \in Rid :
       /\ runtimes'[q].session = runtimes[q].session /\ runtimes'[q].phase = runtimes[q].phase
       /\ runtimes'[q].init = runtimes[q].init /\ runtimes'[q].startup = runtimes[q].startup
       /\ runtimes'[q].prompt = IF q = current THEN p ELSE runtimes[q].prompt
       /\ runtimes'[q].writes = runtimes[q].writes /\ runtimes'[q].blocks = runtimes[q].blocks
       /\ q # current => runtimes'[q] = runtimes[q]
  /\ runtimes' \in [Rid -> Runtime]
  /\ \A x \in calls' : x \in Call /\ x.aborted
  /\ \A x \in calls' : \E c \in calls :
       /\ x.runtime = c.runtime /\ x.turn = c.turn /\ x.at = c.at /\ x.query = c.query
       /\ c.runtime = current => x.fresh = FALSE
       /\ c.runtime # current => x.fresh = c.fresh
       /\ Of(x)' = Of(c) /\ c.runtime \in Rid /\ x = Silenced(c)
  /\ UNCHANGED <<disk, rendered, cut, faults>>

LEMMA PromptSetIs ==
  ASSUME TypeOK, NEW s \in Session, CurrentFor(s), NEW p \in 0..MaxTurns,
         runtimes' = [runtimes EXCEPT ![current].prompt = p],
         calls' = {[c EXCEPT !.aborted = TRUE] : c \in Stale(current, calls)},
         UNCHANGED <<current, disk, rendered, cut, faults>>
  PROVE PromptSet(s, p)
<1>1. /\ current \in Rid /\ runtimes[current].session = s /\ runtimes \in [Rid -> Runtime]
      /\ runtimes[current].phase = "live"
  BY DEF CurrentFor, TypeOK
<1>2. ASSUME NEW q \in Rid
      PROVE /\ runtimes'[q] \in Runtime
            /\ runtimes'[q].session = runtimes[q].session /\ runtimes'[q].phase = runtimes[q].phase
            /\ runtimes'[q].init = runtimes[q].init /\ runtimes'[q].startup = runtimes[q].startup
            /\ runtimes'[q].prompt = IF q = current THEN p ELSE runtimes[q].prompt
            /\ runtimes'[q].writes = runtimes[q].writes /\ runtimes'[q].blocks = runtimes[q].blocks
            /\ q # current => runtimes'[q] = runtimes[q]
  <2>1. runtimes[q] \in Runtime
    BY Typed
  <2>2. CASE q = current
    <3>1. runtimes'[q] = [runtimes[q] EXCEPT !.prompt = p]
      BY <1>1, <2>2
    <3> QED BY <2>1, <2>2, <3>1, PromptIs
  <2>3. CASE q # current
    <3>1. runtimes'[q] = runtimes[q]
      BY <1>1, <2>3
    <3> QED BY <2>1, <2>3, <3>1
  <2> QED BY <2>2, <2>3
<1>3. runtimes' = [q \in Rid |-> runtimes'[q]]
  BY <1>1
<1>4. runtimes' \in [Rid -> Runtime]
  BY <1>2, <1>3
<1>5. ASSUME NEW x \in calls'
      PROVE /\ x \in Call /\ x.aborted
            /\ \E c \in calls :
                 /\ x.runtime = c.runtime /\ x.turn = c.turn /\ x.at = c.at /\ x.query = c.query
                 /\ c.runtime = current => x.fresh = FALSE
                 /\ c.runtime # current => x.fresh = c.fresh
                 /\ Of(x)' = Of(c) /\ c.runtime \in Rid /\ x = Silenced(c)
  <2>1. PICK y \in Stale(current, calls) : x = [y EXCEPT !.aborted = TRUE]
    OBVIOUS
  <2>2. PICK c \in calls : y = Outdated(c, current)
    BY DEF Stale, Outdated
  <2>3. c \in Call /\ c.runtime \in Rid
    BY Typed
  <2>4. /\ x \in Call /\ x.aborted
        /\ x.runtime = c.runtime /\ x.turn = c.turn /\ x.at = c.at /\ x.query = c.query
        /\ c.runtime = current => x.fresh = FALSE
        /\ c.runtime # current => x.fresh = c.fresh
    <3>1. /\ y \in Call /\ y.aborted = c.aborted
          /\ y.runtime = c.runtime /\ y.turn = c.turn /\ y.at = c.at /\ y.query = c.query
          /\ c.runtime = current => y.fresh = FALSE
          /\ c.runtime # current => y.fresh = c.fresh
      <4>1. PICK z : z = current
        OBVIOUS
      <4>2. c \in Call /\ y = Outdated(c, z)
        BY <2>2, <2>3, <4>1
      <4>3. /\ y \in Call /\ y.aborted = c.aborted
            /\ y.runtime = c.runtime /\ y.turn = c.turn /\ y.at = c.at /\ y.query = c.query
            /\ c.runtime = z => y.fresh = FALSE
            /\ c.runtime # z => y.fresh = c.fresh
        BY ONLY ZenonT(30), <4>2, StaleIs
      <4> QED BY <4>1, <4>3
    <3>2. /\ x \in Call /\ x.aborted
          /\ x.runtime = y.runtime /\ x.turn = y.turn /\ x.at = y.at /\ x.query = y.query
          /\ x.fresh = y.fresh
      <4>1. y \in Call
        BY <3>1
      <4> QED BY ONLY <2>1, <4>1, AbortedIs
    <3> QED BY <3>1, <3>2
  <2>5. x = Silenced(c)
    <3>1. c \in [runtime : Rid, turn : Turn, at : {"ready", "search"},
                   query : 0..MaxTurns, fresh : BOOLEAN, aborted : BOOLEAN]
      BY <2>3 DEF Call
    <3>2. PICK f : f = IF c.runtime = current THEN FALSE ELSE c.fresh
      OBVIOUS
    <3>3. x = [runtime |-> c.runtime, turn |-> c.turn, at |-> c.at, query |-> c.query,
               fresh |-> f, aborted |-> TRUE]
      <4>1. x \in [runtime : Rid, turn : Turn, at : {"ready", "search"},
                   query : 0..MaxTurns, fresh : BOOLEAN, aborted : BOOLEAN]
        BY <2>4 DEF Call
      <4>2. x.aborted = TRUE
        BY <2>4, <4>1
      <4>3. x.fresh = f
        BY <2>4, <3>2
      <4> QED BY <2>4, <4>1, <4>2, <4>3
    <3>4. Silenced(c) = [runtime |-> c.runtime, turn |-> c.turn, at |-> c.at, query |-> c.query,
                         fresh |-> f, aborted |-> TRUE]
      <4>1. Silenced(c) = [c EXCEPT !.fresh = f, !.aborted = TRUE]
        BY <3>2 DEF Silenced
      <4> QED BY <3>1, <4>1
    <3> QED BY <3>3, <3>4
  <2>6. Of(x)' = Of(c)
    BY <1>2, <2>3, <2>4 DEF Of
  <2> QED BY <2>3, <2>4, <2>5, <2>6
<1> QED BY <1>1, <1>2, <1>4, <1>5 DEF PromptSet

\* What a changed prompt leaves alone.
LEMMA PromptSetKeeps ==
  ASSUME IInv, NEW s \in Session, NEW p \in 0..MaxTurns, PromptSet(s, p)
  PROVE /\ Lives'
        /\ \A u \in Session : \A t \in Turn : NoBlock(u, t)' <=> NoBlock(u, t)
        /\ \A x \in calls' : \E c \in calls :
             /\ x.runtime = c.runtime /\ x.turn = c.turn /\ x.at = c.at /\ x.query = c.query
             /\ Of(x)' = Of(c)
        /\ OneSearch'
<1>1. Lives'
  <2>1. ASSUME NEW q \in Rid, q = current
        PROVE /\ runtimes'[q].phase = "live" /\ runtimes'[q].session \in Session
              /\ \A t \in runtimes'[q].writes : runtimes'[q].blocks[t] # None
              /\ runtimes'[q].init # "ready" => runtimes'[q].startup = "unset"
    BY <2>1 DEF PromptSet, IInv, Lives
  <2>2. ASSUME NEW q \in Rid, q # current
        PROVE runtimes'[q] = runtimes[q]
    BY <2>2 DEF PromptSet
  <2> QED BY <2>1, <2>2 DEF Lives, Open, IInv
<1>2. ASSUME NEW u \in Session, NEW t \in Turn PROVE NoBlock(u, t)' <=> NoBlock(u, t)
  BY DEF PromptSet, NoBlock
<1>3. \A x \in calls' : \E c \in calls :
             /\ x.runtime = c.runtime /\ x.turn = c.turn /\ x.at = c.at /\ x.query = c.query
             /\ Of(x)' = Of(c)
  BY DEF PromptSet
<1>4. OneSearch'
  <2>1. ASSUME NEW x \in calls', NEW y \in calls',
               x.at = "search", y.at = "search", Of(x)' = Of(y)', x.query = y.query
        PROVE x = y
    <3>1. PICK c \in calls : /\ x.at = c.at /\ x.query = c.query /\ Of(x)' = Of(c)
                             /\ x = Silenced(c)
      BY DEF PromptSet
    <3>2. PICK d \in calls : /\ y.at = d.at /\ y.query = d.query /\ Of(y)' = Of(d)
                             /\ y = Silenced(d)
      BY DEF PromptSet
    <3>3. c = d
      BY <2>1, <3>1, <3>2 DEF OneSearch, IInv
    <3> QED BY <3>1, <3>2, <3>3
  <2> QED BY <2>1 DEF OneSearch
<1> QED BY <1>1, <1>2, <1>3, <1>4


LEMMA BeforeAgentStartKeeps ==
  ASSUME IInv, NEW s \in Session, BeforeAgentStart(s)
  PROVE IInv'
<1>1. PICK p \in 1..MaxTurns : p = turn[s] + 1
  BY Typed DEF BeforeAgentStart, IInv
<1>2. PromptSet(s, p)
  <2>1. /\ TypeOK /\ CurrentFor(s) /\ p \in 0..MaxTurns
        /\ runtimes' = [runtimes EXCEPT ![current].prompt = p]
        /\ calls' = {[c EXCEPT !.aborted = TRUE] : c \in Stale(current, calls)}
        /\ UNCHANGED <<current, disk, rendered, cut, faults>>
    BY <1>1, Typed DEF BeforeAgentStart, IInv
  <2> QED BY ONLY <2>1, PromptSetIs, s \in Session
<1>3. /\ Lives'
      /\ \A u \in Session : \A t \in Turn : NoBlock(u, t)' <=> NoBlock(u, t)
      /\ \A x \in calls' : \E c \in calls :
           /\ x.runtime = c.runtime /\ x.turn = c.turn /\ x.at = c.at /\ x.query = c.query
           /\ Of(x)' = Of(c)
      /\ OneSearch'
  BY <1>1, <1>2, PromptSetKeeps
<1>4. /\ \A u \in Session : turn'[u] = IF u = s THEN p ELSE turn[u]
      /\ turn' \in [Session -> 0..MaxTurns]
  BY <1>1, Typed DEF BeforeAgentStart, IInv, TypeOK
<1>5. \A u \in Session : turn[u] <= turn'[u] /\ turn[u] \in Nat /\ turn'[u] \in Nat
  BY <1>1, <1>4, Typed DEF IInv
<1>6. /\ overtaken' \in [Session -> SUBSET Turn]
      /\ \A u \in Session : overtaken[u] \subseteq overtaken'[u]
      /\ \A c \in calls : c.runtime = current /\ c.at = "ready" => c.turn \in overtaken'[s]
  <2>1. PICK ready \in SUBSET Turn :
          ready = {c.turn : c \in {d \in calls : d.runtime = current /\ d.at = "ready"}}
    BY Typed DEF IInv
  <2>2. overtaken' = [overtaken EXCEPT ![s] = @ \union ready] /\ overtaken \in [Session -> SUBSET Turn]
    BY <2>1 DEF BeforeAgentStart, IInv, TypeOK
  <2>3. overtaken' \in [Session -> SUBSET Turn]
    BY <2>2
  <2>4. \A u \in Session : overtaken[u] \subseteq overtaken'[u]
    BY <2>2
  <2>5. \A c \in calls : c.runtime = current /\ c.at = "ready" => c.turn \in overtaken'[s]
    BY <2>1, <2>2
  <2> QED BY <2>3, <2>4, <2>5
<1>7. \A q \in Rid : runtimes[q].session \in Session => runtimes[q].phase # "unborn"
  BY UnbornIs, Typed DEF Lives, IInv
<1>8. TypeOK'
  <2>1. calls' \subseteq Call
    BY <1>2 DEF PromptSet
  <2> QED BY <1>2, <1>4, <1>6, <2>1 DEF IInv, TypeOK, PromptSet
<1>9. RuntimesBegun'
  <2>1. ASSUME NEW q \in Rid, runtimes'[q].phase # "unborn"
        PROVE /\ runtimes'[q].prompt <= turn'[runtimes'[q].session]
              /\ \A t \in Turn : runtimes'[q].blocks[t] # None => t <= turn'[runtimes'[q].session]
    <3>1. /\ runtimes[q].phase # "unborn" /\ runtimes'[q].session = runtimes[q].session
          /\ runtimes'[q].blocks = runtimes[q].blocks
          /\ runtimes'[q].prompt = IF q = current THEN p ELSE runtimes[q].prompt
          /\ runtimes[current].session = s
      BY <1>2, <2>1 DEF PromptSet
    <3>2. runtimes[q].session \in Session /\ runtimes[q].prompt \in Nat
      BY <3>1, Typed DEF Lives, IInv
    <3>3. /\ runtimes[q].prompt <= turn[runtimes[q].session]
          /\ \A t \in Turn : runtimes[q].blocks[t] # None => t <= turn[runtimes[q].session]
      BY <3>1 DEF RuntimesBegun, IInv
    <3>4. \A t \in Turn : runtimes'[q].blocks[t] # None => t <= turn'[runtimes'[q].session]
      BY <1>5, <3>1, <3>2, <3>3 DEF Turn
    <3>5. runtimes'[q].prompt <= turn'[runtimes'[q].session]
      BY <1>4, <1>5, <3>1, <3>2, <3>3
    <3> QED BY <3>4, <3>5
  <2> QED BY <2>1 DEF RuntimesBegun
<1>10. SessionsBegun'
  BY <1>2, <1>5 DEF SessionsBegun, IInv, PromptSet, Turn
<1>11. CallsBegun'
  <2>1. ASSUME NEW x \in calls'
        PROVE /\ runtimes'[x.runtime].phase # "unborn"
              /\ x.turn <= turn'[Of(x)']
              /\ x.at = "search" => x.query # 0 /\ x.query <= turn'[Of(x)']
    <3>1. PICK c \in calls :
           /\ x.runtime = c.runtime /\ x.turn = c.turn /\ x.at = c.at /\ x.query = c.query
           /\ Of(x)' = Of(c)
      BY <1>3
    <3>2. /\ runtimes[c.runtime].phase # "unborn"
          /\ c.turn <= turn[Of(c)]
          /\ c.at = "search" => c.query # 0 /\ c.query <= turn[Of(c)]
          /\ c.runtime \in Rid /\ c.turn \in Nat /\ c.query \in Nat
      BY Typed DEF CallsBegun, IInv, Turn
    <3>3. Of(c) \in Session
      BY <3>2 DEF Of, Lives, IInv
    <3>4. runtimes'[x.runtime].phase # "unborn"
      BY <1>2, <3>1, <3>2 DEF PromptSet
    <3> QED BY <1>5, <3>1, <3>2, <3>3, <3>4
  <2> QED BY <2>1 DEF CallsBegun
<1>12. Prompts'
  <2>1. current' # 0 => runtimes'[current'].prompt = turn'[runtimes'[current'].session]
    BY <1>2, <1>4 DEF PromptSet
  <2>2. ASSUME NEW x \in calls', x.turn \notin overtaken'[Of(x)']
        PROVE /\ x.at = "ready" /\ Pending(x)' # 0 => x.turn = Pending(x)'
              /\ x.at = "search" => x.query = x.turn
    <3>1. PICK c \in calls :
           /\ x.runtime = c.runtime /\ x.turn = c.turn /\ x.at = c.at /\ x.query = c.query
           /\ Of(x)' = Of(c)
      BY <1>3
    <3>2. c.runtime \in Rid /\ runtimes[c.runtime].phase # "unborn"
      BY Typed DEF IInv, CallsBegun
    <3>3. Of(c) \in Session /\ (c.runtime = current => Of(c) = s)
      BY <1>2, <3>2 DEF Of, Lives, IInv, PromptSet
    <3>4. c.turn \notin overtaken[Of(c)] /\ ~ (c.runtime = current /\ c.at = "ready")
      BY <1>6, <2>2, <3>1, <3>3
    <3>5. c.runtime # current => Pending(x)' = Pending(c)
      BY <1>2, <3>1, <3>2 DEF PromptSet, Pending
    <3>6. /\ c.at = "ready" /\ Pending(c) # 0 => c.turn = Pending(c)
          /\ c.at = "search" => c.query = c.turn
      BY <3>4 DEF Prompts, IInv
    <3> QED BY <3>1, <3>4, <3>5, <3>6
  <2> QED BY <2>1, <2>2 DEF Prompts
<1>13. \A q \in Rid : q # current /\ runtimes[q].session = s => runtimes[q].prompt < p
  BY <1>1, <1>7, Typed DEF RuntimesBegun, IInv
<1>14. OnePending'
  <2>1. ASSUME NEW q \in Rid, NEW r \in Rid, runtimes'[q].session = runtimes'[r].session,
               runtimes'[q].prompt # 0, runtimes'[q].prompt = runtimes'[r].prompt
        PROVE q = r
    <3>1. runtimes[q].session = runtimes[r].session /\ runtimes[current].session = s
      BY <1>2, <2>1 DEF PromptSet
    <3>2. /\ runtimes'[q].prompt = IF q = current THEN p ELSE runtimes[q].prompt
          /\ runtimes'[r].prompt = IF r = current THEN p ELSE runtimes[r].prompt
      BY <1>2 DEF PromptSet
    <3>3. runtimes[q].prompt \in Nat /\ runtimes[r].prompt \in Nat /\ p \in Nat
      BY Typed DEF IInv
    <3>4. q = current /\ r # current => runtimes[r].prompt < p
      BY <1>13, <3>1
    <3>5. q # current /\ r = current => runtimes[q].prompt < p
      BY <1>13, <3>1
    <3>6. q # current /\ r # current => q = r
      BY <2>1, <3>1, <3>2 DEF OnePending, IInv
    <3>7. CASE q = current /\ r # current
      <4>1. runtimes[r].prompt = p
        BY <2>1, <3>2, <3>7
      <4> QED BY <3>3, <3>4, <3>7, <4>1
    <3>8. CASE q # current /\ r = current
      <4>1. runtimes[q].prompt = p
        BY <2>1, <3>2, <3>8
      <4> QED BY <3>3, <3>5, <3>8, <4>1
    <3> QED BY <3>6, <3>7, <3>8
  <2> QED BY <2>1 DEF OnePending
<1>15. PendingOrSearched'
  <2>1. ASSUME NEW x \in calls', NEW q \in Rid, x.at = "search", Of(x)' = runtimes'[q].session
        PROVE x.query # runtimes'[q].prompt
    <3>1. PICK c \in calls : x.at = c.at /\ x.query = c.query /\ Of(x)' = Of(c)
      BY <1>3
    <3>2. /\ runtimes'[q].session = runtimes[q].session /\ runtimes[current].session = s
          /\ runtimes'[q].prompt = IF q = current THEN p ELSE runtimes[q].prompt
      BY <1>2 DEF PromptSet
    <3>3. CASE q = current
      <4>1. c.query <= turn[Of(c)] /\ c.query \in Nat
        BY <2>1, <3>1, Typed DEF CallsBegun, IInv
      <4>2. Of(c) = s
        BY <2>1, <3>1, <3>2, <3>3
      <4> QED BY <1>1, <1>5, <3>1, <3>2, <3>3, <4>1, <4>2
    <3>4. CASE q # current
      BY <2>1, <3>1, <3>2, <3>4 DEF PendingOrSearched, IInv
    <3> QED BY <3>3, <3>4
  <2> QED BY <2>1 DEF PendingOrSearched
<1>16. AskedIsBlank'
  <2>1. ASSUME NEW u \in Session, NEW t \in Turn, Asked(u, t)' PROVE Asked(u, t) \/ (u = s /\ t = p)
    <3>1. CASE \E q \in Rid : runtimes'[q].session = u /\ runtimes'[q].prompt = t
      <4>1. PICK q \in Rid : runtimes'[q].session = u /\ runtimes'[q].prompt = t
        BY <3>1
      <4>2. /\ runtimes'[q].session = runtimes[q].session /\ runtimes[current].session = s
            /\ runtimes'[q].prompt = IF q = current THEN p ELSE runtimes[q].prompt
        BY <1>2 DEF PromptSet
      <4> QED BY <4>1, <4>2 DEF Asked
    <3>2. CASE \E x \in calls' : Of(x)' = u /\ x.at = "search" /\ x.query = t
      BY <1>3, <3>2 DEF Asked
    <3> QED BY <2>1, <3>1, <3>2 DEF Asked
  <2>2. NoBlock(s, p)
    <3>1. p \in Turn /\ ~ (p <= turn[s])
      BY <1>1, <1>5 DEF Turn
    <3>2. disk[s][p] = None
      BY <3>1 DEF SessionsBegun, IInv
    <3>3. \A r \in Rid : runtimes[r].session = s => runtimes[r].blocks[p] = None
      BY <1>7, <3>1 DEF RuntimesBegun, IInv
    <3> QED BY <3>2, <3>3 DEF NoBlock
  <2>3. ASSUME NEW u \in Session, NEW t \in Turn, t \notin overtaken'[u], Asked(u, t)'
        PROVE NoBlock(u, t)'
    <3>1. t \notin overtaken[u]
      BY <1>6, <2>3
    <3>2. NoBlock(u, t)
      BY <2>1, <2>2, <2>3, <3>1 DEF AskedIsBlank, IInv
    <3> QED BY <1>3, <3>2
  <2> QED BY <2>3 DEF AskedIsBlank
<1>17. StartupIsKept'
  <2>1. ASSUME NEW q \in Rid, runtimes'[q].startup = "used"
        PROVE /\ runtimes[q].startup = "used" /\ runtimes'[q].session = runtimes[q].session
              /\ runtimes'[q].blocks = runtimes[q].blocks /\ runtimes[q].session \in Session
    <3>1. /\ runtimes[q].startup = "used" /\ runtimes'[q].session = runtimes[q].session
          /\ runtimes'[q].blocks = runtimes[q].blocks
      BY <1>2, <2>1 DEF PromptSet
    <3>2. runtimes[q].phase # "unborn"
      BY <3>1, UnbornIs DEF Lives, IInv
    <3> QED BY <3>1, <3>2 DEF Lives, IInv
  <2>2. \A u \in Session : overtaken[u] # {} => overtaken'[u] # {}
    BY <1>6
  <2> QED BY <2>1, <2>2 DEF StartupIsKept, IInv
<1> QED BY <1>3, <1>8, <1>9, <1>10, <1>11, <1>12, <1>14, <1>15, <1>16, <1>17 DEF IInv


LEMMA AgentEndKeeps ==
  ASSUME IInv, NEW s \in Session, AgentEnd(s)
  PROVE IInv'
<1>1. PromptSet(s, 0) /\ 0 \in 0..MaxTurns
  <2>1. /\ TypeOK /\ CurrentFor(s) /\ 0 \in 0..MaxTurns
        /\ runtimes' = [runtimes EXCEPT ![current].prompt = 0]
        /\ calls' = {[c EXCEPT !.aborted = TRUE] : c \in Stale(current, calls)}
        /\ UNCHANGED <<current, disk, rendered, cut, faults>>
    BY Typed DEF AgentEnd, IInv, history
  <2> QED BY ONLY <2>1, PromptSetIs, s \in Session
<1>2. /\ Lives'
      /\ \A u \in Session : \A t \in Turn : NoBlock(u, t)' <=> NoBlock(u, t)
      /\ \A x \in calls' : \E c \in calls :
           /\ x.runtime = c.runtime /\ x.turn = c.turn /\ x.at = c.at /\ x.query = c.query
           /\ Of(x)' = Of(c)
      /\ OneSearch'
  BY <1>1, PromptSetKeeps
<1>3. turn' = turn /\ overtaken' = overtaken
  BY DEF AgentEnd, history
<1>4. ASSUME NEW q \in Rid
      PROVE /\ runtimes'[q].session = runtimes[q].session /\ runtimes'[q].phase = runtimes[q].phase
            /\ runtimes'[q].prompt \in {0, runtimes[q].prompt}
            /\ runtimes'[q].blocks = runtimes[q].blocks
            /\ runtimes'[q].startup = runtimes[q].startup
  BY <1>1 DEF PromptSet
<1>5. TypeOK'
  <2>1. calls' \subseteq Call
    BY <1>1 DEF PromptSet
  <2> QED BY <1>1, <1>3, <2>1 DEF IInv, TypeOK, PromptSet
<1>6. RuntimesBegun'
  <2>1. ASSUME NEW q \in Rid, runtimes'[q].phase # "unborn"
        PROVE /\ runtimes'[q].prompt <= turn'[runtimes'[q].session]
              /\ \A t \in Turn : runtimes'[q].blocks[t] # None => t <= turn'[runtimes'[q].session]
    <3>1. turn[runtimes[q].session] \in Nat
      BY <1>4, <2>1, Typed DEF Lives, IInv
    <3> QED BY <1>3, <1>4, <2>1, <3>1 DEF RuntimesBegun, IInv
  <2> QED BY <2>1 DEF RuntimesBegun
<1>7. SessionsBegun'
  BY <1>1, <1>3 DEF SessionsBegun, IInv, PromptSet
<1>8. CallsBegun'
  <2>1. \A c \in calls : c.runtime \in Rid
    BY Typed DEF IInv
  <2> QED BY <1>2, <1>3, <1>4, <2>1 DEF CallsBegun, IInv
<1>9. Prompts'
  <2>1. current' # 0 => runtimes'[current'].prompt = 0
    BY <1>1 DEF PromptSet
  <2>2. ASSUME NEW x \in calls', x.turn \notin overtaken'[Of(x)']
        PROVE /\ x.at = "ready" /\ Pending(x)' # 0 => x.turn = Pending(x)'
              /\ x.at = "search" => x.query = x.turn
    <3>1. PICK c \in calls :
           /\ x.runtime = c.runtime /\ x.turn = c.turn /\ x.at = c.at /\ x.query = c.query
           /\ Of(x)' = Of(c)
      BY <1>2
    <3>2. Pending(x)' \in {0, Pending(c)}
      BY <1>4, <3>1, Typed DEF IInv, Pending
    <3> QED BY <1>3, <2>2, <3>1, <3>2 DEF Prompts, IInv
  <2> QED BY <2>1, <2>2 DEF Prompts
<1>10. OnePending'
  BY <1>4 DEF OnePending, IInv
<1>11. PendingOrSearched'
  <2>1. ASSUME NEW x \in calls', NEW q \in Rid, x.at = "search", Of(x)' = runtimes'[q].session
        PROVE x.query # runtimes'[q].prompt
    <3>1. PICK c \in calls : x.at = c.at /\ x.query = c.query /\ Of(x)' = Of(c)
      BY <1>2
    <3>2. c.query # 0
      BY <2>1, <3>1 DEF CallsBegun, IInv
    <3>3. Of(c) = runtimes[q].session
      BY <1>4, <2>1, <3>1
    <3>4. c.query # runtimes[q].prompt
      BY <2>1, <3>1, <3>3 DEF PendingOrSearched, IInv
    <3> QED BY <1>4, <3>1, <3>2, <3>4
  <2> QED BY <2>1 DEF PendingOrSearched
<1>12. AskedIsBlank'
  <2>1. ASSUME NEW u \in Session, NEW t \in Turn, Asked(u, t)' PROVE Asked(u, t)
    <3>1. CASE \E q \in Rid : runtimes'[q].session = u /\ runtimes'[q].prompt = t
      <4>1. PICK q \in Rid : runtimes'[q].session = u /\ runtimes'[q].prompt = t
        BY <3>1
      <4>2. runtimes[q].session = u /\ runtimes[q].prompt = t
        BY <1>4, <4>1 DEF Turn
      <4> QED BY <4>2 DEF Asked
    <3>2. CASE \E x \in calls' : Of(x)' = u /\ x.at = "search" /\ x.query = t
      BY <1>2, <3>2 DEF Asked
    <3> QED BY <2>1, <3>1, <3>2 DEF Asked
  <2> QED BY <1>2, <1>3, <2>1 DEF AskedIsBlank, IInv
<1>13. StartupIsKept'
  <2>1. ASSUME NEW q \in Rid, runtimes'[q].startup = "used"
        PROVE \/ overtaken'[runtimes'[q].session] # {}
              \/ \E t \in Turn : runtimes'[q].blocks[t] # None /\ runtimes'[q].blocks[t].startup
    BY <1>3, <1>4, <2>1 DEF StartupIsKept, IInv
  <2> QED BY <2>1 DEF StartupIsKept
<1> QED BY <1>2, <1>5, <1>6, <1>7, <1>8, <1>9, <1>10, <1>11, <1>12, <1>13 DEF IInv


\* The ledger of runtime r is read: each block on disk is a block in memory.
LedgerRead(r) ==
  /\ r \in Rid /\ Open(r) /\ runtimes[r].init = "ledger" /\ runtimes[r].session \in Session
  /\ \A q \in Rid :
       /\ runtimes'[q].session = runtimes[q].session /\ runtimes'[q].phase = runtimes[q].phase
       /\ runtimes'[q].startup = runtimes[q].startup /\ runtimes'[q].prompt = runtimes[q].prompt
       /\ runtimes'[q].writes = runtimes[q].writes
       /\ runtimes'[q].init = IF q = r THEN "loaded" ELSE runtimes[q].init
       /\ \A t \in Turn :
            runtimes'[q].blocks[t] = IF q = r /\ disk[runtimes[r].session][t] # None
                                     THEN disk[runtimes[r].session][t] ELSE runtimes[q].blocks[t]
       /\ q # r => runtimes'[q] = runtimes[q]
  /\ runtimes' \in [Rid -> Runtime]
  /\ rendered' \in [Session -> [Turn -> Rendering \union {None}]]
  /\ \A s \in Session : \A t \in Turn : rendered'[s][t] \in {None, rendered[s][t]}
  /\ cut' \in SUBSET Session /\ cut \subseteq cut'
  /\ UNCHANGED <<current, calls, turn, disk, overtaken, faults>>

LEMMA LedgerReadIs ==
  ASSUME TypeOK, Lives, NEW r \in Rid, LoadLedger(r)
  PROVE LedgerRead(r)
<1>1. PICK s : s = runtimes[r].session
  OBVIOUS
<1>2. Open(r) /\ runtimes[r].init = "ledger" /\ s \in Session
  BY <1>1 DEF LoadLedger, Lives, Open
<1>3. PICK stored \in Ledger : stored = disk[s]
  BY <1>2 DEF TypeOK
<1>4. runtimes' = [runtimes EXCEPT ![r].init = "loaded",
          ![r].blocks = [t \in Turn |-> IF stored[t] # None THEN stored[t] ELSE @[t]]]
  BY <1>1, <1>3 DEF LoadLedger
<1>5. runtimes \in [Rid -> Runtime] /\ rendered \in [Session -> [Turn -> Rendering \union {None}]]
      /\ cut \subseteq Session
  BY DEF TypeOK
<1>6. ASSUME NEW q \in Rid
      PROVE /\ runtimes'[q] \in Runtime
            /\ runtimes'[q].session = runtimes[q].session /\ runtimes'[q].phase = runtimes[q].phase
            /\ runtimes'[q].startup = runtimes[q].startup /\ runtimes'[q].prompt = runtimes[q].prompt
            /\ runtimes'[q].writes = runtimes[q].writes
            /\ runtimes'[q].init = IF q = r THEN "loaded" ELSE runtimes[q].init
            /\ \A t \in Turn : runtimes'[q].blocks[t] = IF q = r /\ stored[t] # None
                                                        THEN stored[t] ELSE runtimes[q].blocks[t]
            /\ q # r => runtimes'[q] = runtimes[q]
  <2>1. runtimes[q] \in Runtime
    BY Typed
  <2>2. CASE q = r
    <3>1. runtimes'[q] = WithLedger(runtimes[q], stored)
      BY <1>4, <1>5, <2>2 DEF WithLedger
    <3>2. PICK rt, x : rt = runtimes[q] /\ x = runtimes'[q]
      OBVIOUS
    <3>3. /\ x \in Runtime
          /\ x.session = rt.session /\ x.phase = rt.phase /\ x.init = "loaded"
          /\ x.prompt = rt.prompt /\ x.startup = rt.startup /\ x.writes = rt.writes
          /\ \A t \in Turn : x.blocks[t] = IF stored[t] # None THEN stored[t] ELSE rt.blocks[t]
      <4>1. rt \in Runtime /\ stored \in Ledger /\ x = WithLedger(rt, stored)
        BY <1>3, <2>1, <3>1, <3>2
      <4> QED BY ONLY <4>1, LoadedIs
    <3> QED BY <2>2, <3>2, <3>3
  <2>3. CASE q # r
    <3>1. runtimes'[q] = runtimes[q]
      BY <1>4, <1>5, <2>3
    <3> QED BY <2>1, <2>3, <3>1
  <2> QED BY <2>2, <2>3
<1>7. runtimes' = [q \in Rid |-> runtimes'[q]]
  BY <1>4, <1>5
<1>8. runtimes' \in [Rid -> Runtime]
  BY <1>6, <1>7
<1>9. PICK map \in [Turn -> Rendering \union {None}] :
        /\ rendered' = [rendered EXCEPT ![s] = map]
        /\ \A t \in Turn : map[t] \in {None, rendered[s][t]}
  <2>1. rendered' = [rendered EXCEPT ![s] = Empty] \/ rendered' = [rendered EXCEPT ![s] = rendered[s]]
    BY <1>1 DEF LoadLedger
  <2>2. Empty \in [Turn -> Rendering \union {None}] /\ \A t \in Turn : Empty[t] = None
    BY DEF Empty
  <2>3. rendered[s] \in [Turn -> Rendering \union {None}]
    BY <1>2, <1>5
  <2> QED BY <2>1, <2>2, <2>3
<1>10. /\ rendered' \in [Session -> [Turn -> Rendering \union {None}]]
       /\ \A u \in Session : \A t \in Turn : rendered'[u][t] \in {None, rendered[u][t]}
  <2>1. \A u \in Session : rendered'[u] = IF u = s THEN map ELSE rendered[u]
    BY <1>5, <1>9
  <2>2. \A u \in Session : rendered'[u] \in [Turn -> Rendering \union {None}]
    BY <1>5, <1>9, <2>1
  <2>3. rendered' = [u \in Session |-> rendered'[u]]
    BY <1>5, <1>9
  <2>4. rendered' \in [Session -> [Turn -> Rendering \union {None}]]
    BY <2>2, <2>3
  <2> QED BY <1>9, <2>1, <2>4
<1>11. cut' \in SUBSET Session /\ cut \subseteq cut'
  BY <1>1, <1>2, <1>5 DEF LoadLedger
<1>12. UNCHANGED <<current, calls, turn, disk, overtaken, faults>>
  BY DEF LoadLedger
<1> QED BY <1>1, <1>2, <1>3, <1>6, <1>8, <1>10, <1>11, <1>12 DEF LedgerRead

LEMMA LoadLedgerKeeps ==
  ASSUME IInv, NEW r \in Rid, LoadLedger(r)
  PROVE IInv'
<1>1. LedgerRead(r)
  BY LedgerReadIs DEF IInv
<1>2. PICK s \in Session : s = runtimes[r].session
  BY <1>1 DEF LedgerRead
<1>3. \A c \in calls : /\ c.runtime \in Rid
                       /\ Of(c)' = Of(c) /\ Pending(c)' = Pending(c)
                       /\ runtimes'[c.runtime].phase = runtimes[c.runtime].phase
  BY <1>1, Typed DEF LedgerRead, IInv, Of, Pending
<1>4. /\ runtimes[r].phase \in {"live", "closing"} /\ runtimes[r].startup = "unset"
      /\ \A t \in runtimes[r].writes : runtimes[r].blocks[t] # None
      /\ runtimes[r].writes \subseteq Turn
  BY <1>1, Typed DEF LedgerRead, IInv, Lives, Open
<1>5. TypeOK'
  <2>1. current' = current /\ calls' = calls /\ turn' = turn /\ disk' = disk
        /\ overtaken' = overtaken /\ faults' = faults
    BY <1>1 DEF LedgerRead
  <2>2. \A q \in Rid : runtimes'[q].phase = runtimes[q].phase
    BY <1>1 DEF LedgerRead
  <2>3. \A q \in Rid : runtimes[q].phase = "live" <=> q = current
    BY DEF IInv, TypeOK
  <2> QED BY <1>1, <2>1, <2>2, <2>3 DEF IInv, TypeOK, LedgerRead
<1>6. Lives'
  <2>1. /\ runtimes'[r].phase \in {"live", "closing"} /\ runtimes'[r].startup = "unset"
        /\ runtimes'[r].session \in Session
    BY <1>1, <1>4 DEF LedgerRead
  <2>2. \A t \in runtimes'[r].writes : runtimes'[r].blocks[t] # None
    BY SMTT(20), <1>1, <1>4 DEF LedgerRead
  <2>3. \A q \in Rid : q # r => runtimes'[q] = runtimes[q]
    BY <1>1 DEF LedgerRead
  <2> QED BY <2>1, <2>2, <2>3 DEF Lives, Open, IInv
<1>7. RuntimesBegun'
  <2>1. ASSUME NEW q \in Rid, runtimes'[q].phase # "unborn"
        PROVE /\ runtimes'[q].prompt <= turn'[runtimes'[q].session]
              /\ \A t \in Turn : runtimes'[q].blocks[t] # None => t <= turn'[runtimes'[q].session]
    <3>1. /\ runtimes[q].prompt <= turn[runtimes[q].session]
          /\ \A t \in Turn : runtimes[q].blocks[t] # None => t <= turn[runtimes[q].session]
      BY <1>1, <2>1 DEF LedgerRead, RuntimesBegun, IInv
    <3>2. \A t \in Turn : disk[s][t] # None => t <= turn[s]
      BY DEF SessionsBegun, IInv
    <3> QED BY <1>1, <1>2, <3>1, <3>2 DEF LedgerRead
  <2> QED BY <2>1 DEF RuntimesBegun
<1>8. SessionsBegun'
  BY <1>1 DEF SessionsBegun, IInv, LedgerRead
<1>9. CallsBegun'
  BY <1>1, <1>3 DEF CallsBegun, IInv, LedgerRead
<1>10. Prompts'
  <2>1. current' # 0 => runtimes'[current'].prompt \in {0, turn'[runtimes'[current'].session]}
    BY <1>1 DEF LedgerRead, Prompts, IInv, TypeOK
  <2>2. calls' = calls /\ overtaken' = overtaken
    BY <1>1 DEF LedgerRead
  <2> QED BY <1>3, <2>1, <2>2 DEF Prompts, IInv
<1>11. OnePending'
  BY <1>1 DEF OnePending, IInv, LedgerRead
<1>12. OneSearch'
  BY <1>1, <1>3 DEF OneSearch, IInv, LedgerRead
<1>13. PendingOrSearched'
  BY <1>1, <1>3 DEF PendingOrSearched, IInv, LedgerRead
<1>14. AskedIsBlank'
  <2>1. ASSUME NEW u \in Session, NEW t \in Turn, Asked(u, t)' PROVE Asked(u, t)
    <3>1. CASE \E q \in Rid : runtimes'[q].session = u /\ runtimes'[q].prompt = t
      <4>1. PICK q \in Rid : runtimes'[q].session = u /\ runtimes'[q].prompt = t
        BY <3>1
      <4>2. runtimes[q].session = u /\ runtimes[q].prompt = t
        BY <1>1, <4>1 DEF LedgerRead
      <4> QED BY <4>2 DEF Asked
    <3>2. CASE \E x \in calls' : Of(x)' = u /\ x.at = "search" /\ x.query = t
      BY <1>1, <1>3, <3>2 DEF Asked, LedgerRead
    <3> QED BY <2>1, <3>1, <3>2 DEF Asked
  <2>2. ASSUME NEW u \in Session, NEW t \in Turn, NoBlock(u, t) PROVE NoBlock(u, t)'
    <3>1. ASSUME NEW q \in Rid, runtimes'[q].session = u PROVE runtimes'[q].blocks[t] = None
      BY <1>1, <2>2, <3>1 DEF LedgerRead, NoBlock
    <3>2. disk' = disk
      BY <1>1 DEF LedgerRead
    <3> QED BY <2>2, <3>1, <3>2 DEF NoBlock
  <2>3. overtaken' = overtaken
    BY <1>1 DEF LedgerRead
  <2> QED BY <2>1, <2>2, <2>3 DEF AskedIsBlank, IInv
<1>15. StartupIsKept'
  <2>1. ASSUME NEW q \in Rid, runtimes'[q].startup = "used"
        PROVE runtimes'[q] = runtimes[q]
    BY <1>1, <1>4, <2>1 DEF LedgerRead
  <2>2. overtaken' = overtaken
    BY <1>1 DEF LedgerRead
  <2> QED BY <2>1, <2>2 DEF StartupIsKept, IInv
<1> QED BY <1>5, <1>6, <1>7, <1>8, <1>9, <1>10, <1>11, <1>12, <1>13, <1>14, <1>15 DEF IInv


\* Runtime r is ready.
StartedUp(r) ==
  /\ Open(r) /\ runtimes[r].init = "loaded"
  /\ \A q \in Rid :
       /\ runtimes'[q].session = runtimes[q].session /\ runtimes'[q].phase = runtimes[q].phase
       /\ runtimes'[q].startup = IF q = r THEN "set" ELSE runtimes[q].startup
       /\ runtimes'[q].prompt = runtimes[q].prompt /\ runtimes'[q].blocks = runtimes[q].blocks
       /\ runtimes'[q].writes = runtimes[q].writes
       /\ runtimes'[q].init = IF q = r THEN "ready" ELSE runtimes[q].init
       /\ q # r => runtimes'[q] = runtimes[q]
  /\ runtimes' \in [Rid -> Runtime]
  /\ UNCHANGED <<current, calls, turn, disk, rendered, overtaken, cut, faults>>

LEMMA StartedUpIs ==
  ASSUME TypeOK, NEW r \in Rid, Startup(r)
  PROVE StartedUp(r)
<1>1. runtimes' = [runtimes EXCEPT ![r].init = "ready", ![r].startup = "set"]
      /\ runtimes \in [Rid -> Runtime]
  BY DEF Startup, TypeOK
<1>2. ASSUME NEW q \in Rid
      PROVE /\ runtimes'[q] \in Runtime
            /\ runtimes'[q].session = runtimes[q].session /\ runtimes'[q].phase = runtimes[q].phase
            /\ runtimes'[q].startup = IF q = r THEN "set" ELSE runtimes[q].startup
            /\ runtimes'[q].prompt = runtimes[q].prompt /\ runtimes'[q].blocks = runtimes[q].blocks
            /\ runtimes'[q].writes = runtimes[q].writes
            /\ runtimes'[q].init = IF q = r THEN "ready" ELSE runtimes[q].init
            /\ q # r => runtimes'[q] = runtimes[q]
  <2>1. runtimes[q] \in Runtime
    BY Typed
  <2>2. CASE q = r
    <3>1. runtimes'[q] = [runtimes[q] EXCEPT !.init = "ready", !.startup = "set"]
      BY <1>1, <2>2
    <3>2. PICK rt, x : rt = runtimes[q] /\ x = runtimes'[q]
      OBVIOUS
    <3>3. /\ x \in Runtime
          /\ x.session = rt.session /\ x.phase = rt.phase /\ x.init = "ready"
          /\ x.prompt = rt.prompt /\ x.startup = "set" /\ x.blocks = rt.blocks
          /\ x.writes = rt.writes
      <4>1. rt \in Runtime /\ x = [rt EXCEPT !.init = "ready", !.startup = "set"]
        BY <2>1, <3>1, <3>2
      <4> QED BY ONLY <4>1, ReadyIs
    <3> QED BY <2>2, <3>2, <3>3
  <2>3. CASE q # r
    <3>1. runtimes'[q] = runtimes[q]
      BY <1>1, <2>3
    <3> QED BY <2>1, <2>3, <3>1
  <2> QED BY <2>2, <2>3
<1>3. runtimes' = [q \in Rid |-> runtimes'[q]]
  BY <1>1
<1>4. runtimes' \in [Rid -> Runtime]
  BY <1>2, <1>3
<1>5. UNCHANGED <<current, calls, turn, disk, rendered, overtaken, cut, faults>>
  BY DEF Startup, history
<1> QED BY <1>2, <1>4, <1>5 DEF StartedUp, Startup

LEMMA StartupKeeps ==
  ASSUME IInv, NEW r \in Rid, Startup(r)
  PROVE IInv'
<1>1. StartedUp(r)
  BY StartedUpIs DEF IInv
<1>2. \A q \in Rid : /\ runtimes'[q].session = runtimes[q].session
                     /\ runtimes'[q].phase = runtimes[q].phase
                     /\ runtimes'[q].prompt = runtimes[q].prompt
                     /\ runtimes'[q].blocks = runtimes[q].blocks
                     /\ runtimes'[q].writes = runtimes[q].writes
  BY <1>1 DEF StartedUp
<1>3. /\ current' = current /\ calls' = calls /\ turn' = turn /\ disk' = disk
      /\ overtaken' = overtaken /\ rendered' = rendered /\ cut' = cut /\ faults' = faults
  BY <1>1 DEF StartedUp
<1>4. \A c \in calls : /\ c.runtime \in Rid
                       /\ Of(c)' = Of(c) /\ Pending(c)' = Pending(c)
  BY <1>2, Typed DEF IInv, Of, Pending
<1>5. TypeOK'
  <2>1. \A q \in Rid : runtimes[q].phase = "live" <=> q = current
    BY DEF IInv, TypeOK
  <2> QED BY <1>1, <1>2, <1>3, <2>1 DEF IInv, TypeOK, StartedUp
<1>6. Lives'
  <2>1. runtimes[r].phase \in {"live", "closing"}
    BY <1>1 DEF StartedUp, Open
  <2>2. /\ runtimes'[r].phase \in {"live", "closing"} /\ runtimes'[r].session \in Session
        /\ runtimes'[r].init = "ready"
        /\ \A t \in runtimes'[r].writes : runtimes'[r].blocks[t] # None
    BY <1>1, <1>2, <2>1 DEF StartedUp, Lives, IInv
  <2>3. \A q \in Rid : q # r => runtimes'[q] = runtimes[q]
    BY <1>1 DEF StartedUp
  <2> QED BY <2>2, <2>3 DEF Lives, Open, IInv
<1>7. RuntimesBegun'
  BY <1>2, <1>3 DEF RuntimesBegun, IInv
<1>8. SessionsBegun'
  BY <1>3 DEF SessionsBegun, IInv
<1>9. CallsBegun'
  BY <1>2, <1>3, <1>4 DEF CallsBegun, IInv
<1>10. Prompts'
  <2>1. current' # 0 => runtimes'[current'].prompt \in {0, turn'[runtimes'[current'].session]}
    BY <1>2, <1>3 DEF Prompts, IInv, TypeOK
  <2> QED BY <1>3, <1>4, <2>1 DEF Prompts, IInv
<1>11. OnePending'
  BY <1>2 DEF OnePending, IInv
<1>12. OneSearch'
  BY <1>3, <1>4 DEF OneSearch, IInv
<1>13. PendingOrSearched'
  BY <1>2, <1>3, <1>4 DEF PendingOrSearched, IInv
<1>14. AskedIsBlank'
  <2>1. ASSUME NEW u \in Session, NEW t \in Turn, Asked(u, t)' PROVE Asked(u, t)
    <3>1. CASE \E q \in Rid : runtimes'[q].session = u /\ runtimes'[q].prompt = t
      <4>1. PICK q \in Rid : runtimes'[q].session = u /\ runtimes'[q].prompt = t
        BY <3>1
      <4>2. runtimes[q].session = u /\ runtimes[q].prompt = t
        BY <1>2, <4>1
      <4> QED BY <4>2 DEF Asked
    <3>2. CASE \E x \in calls' : Of(x)' = u /\ x.at = "search" /\ x.query = t
      BY <1>3, <1>4, <3>2 DEF Asked
    <3> QED BY <2>1, <3>1, <3>2 DEF Asked
  <2>2. ASSUME NEW u \in Session, NEW t \in Turn, NoBlock(u, t) PROVE NoBlock(u, t)'
    BY <1>2, <1>3, <2>2 DEF NoBlock
  <2> QED BY <1>3, <2>1, <2>2 DEF AskedIsBlank, IInv
<1>15. StartupIsKept'
  <2>1. ASSUME NEW q \in Rid, runtimes'[q].startup = "used"
        PROVE runtimes'[q] = runtimes[q]
    BY <1>1, <2>1 DEF StartedUp
  <2> QED BY <1>3, <2>1 DEF StartupIsKept, IInv
<1> QED BY <1>5, <1>6, <1>7, <1>8, <1>9, <1>10, <1>11, <1>12, <1>13, <1>14, <1>15 DEF IInv

\* A context hook is called: one more that is ready.
Called(s, x) ==
  /\ current \in Rid /\ runtimes[current].session = s /\ runtimes[current].phase = "live"
  /\ x \in Call /\ x.runtime = current /\ x.turn = turn[s] /\ x.at = "ready" /\ x.fresh = TRUE
  /\ x.aborted = FALSE
  /\ \A c \in calls : runtimes[c.runtime].session = s => c.aborted
  /\ calls' = calls \union {x}
  /\ UNCHANGED <<runtimes, current, turn, disk, rendered, overtaken, cut, faults>>

LEMMA CalledIs ==
  ASSUME TypeOK, NEW s \in Session, ContextCalled(s)
  PROVE \E x : Called(s, x)
<1>1. PICK x : x = [runtime |-> current, turn |-> turn[s], at |-> "ready",
                    query |-> 0, fresh |-> TRUE, aborted |-> FALSE]
  OBVIOUS
<1>2. /\ current \in Rid /\ runtimes[current].session = s /\ runtimes[current].phase = "live"
      /\ turn[s] \in Turn /\ 0 \in 0..MaxTurns
  BY Typed DEF ContextCalled, CurrentFor, TypeOK, Turn
<1>3. /\ x \in Call /\ x.runtime = current /\ x.turn = turn[s] /\ x.at = "ready" /\ x.fresh = TRUE
      /\ x.aborted = FALSE
  BY <1>1, <1>2 DEF Call
<1>4. \A c \in calls : runtimes[c.runtime].session = s => c.aborted
  BY DEF ContextCalled, CallsOf
<1>5. calls' = calls \union {x} /\ UNCHANGED <<runtimes, current, turn, disk, rendered, overtaken, cut, faults>>
  BY <1>1 DEF ContextCalled, history
<1> QED BY <1>2, <1>3, <1>4, <1>5 DEF Called

LEMMA ContextCalledKeeps ==
  ASSUME IInv, NEW s \in Session, ContextCalled(s)
  PROVE IInv'
<1>1. PICK x : Called(s, x)
  BY CalledIs DEF IInv
<1>2. calls' = calls \union {x}
      /\ UNCHANGED <<runtimes, current, turn, disk, rendered, overtaken, cut, faults>>
  BY <1>1 DEF Called
<1>3. /\ x.runtime = current /\ current \in Rid /\ x.turn = turn[s] /\ x.at = "ready"
      /\ runtimes[current].session = s /\ runtimes[current].phase = "live"
      /\ Of(x) = s /\ Pending(x) = runtimes[current].prompt /\ x \in Call
  BY <1>1 DEF Called, Of, Pending
<1>4. ASSUME NEW c PROVE Of(c)' = Of(c) /\ Pending(c)' = Pending(c)
  BY <1>2 DEF Of, Pending
<1>5. TypeOK'
  BY <1>2, <1>3 DEF IInv, TypeOK
<1>6. Lives' /\ RuntimesBegun' /\ SessionsBegun' /\ OnePending' /\ StartupIsKept'
  BY <1>2 DEF IInv, Lives, RuntimesBegun, SessionsBegun, OnePending, StartupIsKept, Open
<1>7. CallsBegun'
  BY <1>2, <1>3, <1>4, Typed DEF CallsBegun, IInv
<1>8. Prompts'
  <2>1. current # 0 /\ runtimes[current].prompt \in {0, turn[s]}
    BY <1>3, Typed DEF IInv, Prompts
  <2> QED BY <1>2, <1>3, <1>4, <2>1 DEF Prompts, IInv
<1>9. OneSearch'
  BY <1>2, <1>3, <1>4 DEF OneSearch, IInv
<1>10. PendingOrSearched'
  BY <1>2, <1>3, <1>4 DEF PendingOrSearched, IInv
<1>11. AskedIsBlank'
  <2>1. ASSUME NEW u \in Session, NEW t \in Turn, Asked(u, t)' PROVE Asked(u, t)
    BY <1>2, <1>3, <1>4, <2>1 DEF Asked
  <2>2. ASSUME NEW u \in Session, NEW t \in Turn, NoBlock(u, t) PROVE NoBlock(u, t)'
    BY <1>2, <2>2 DEF NoBlock
  <2> QED BY <1>2, <2>1, <2>2 DEF AskedIsBlank, IInv
<1> QED BY <1>5, <1>6, <1>7, <1>8, <1>9, <1>10, <1>11 DEF IInv


\* A hook has answered: what it rendered is what its runtime holds.
Answered(c, rt) ==
  /\ calls' = calls \ {c}
  /\ rendered' \in [Session -> [Turn -> Rendering \union {None}]]
  /\ \A s \in Session : \A t \in Turn :
       rendered'[s][t] # rendered[s][t] =>
         /\ ~ c.aborted /\ c.runtime = current /\ rt.init # "ledger" /\ rt.phase # "closed"
         /\ s = rt.session /\ t <= c.turn
         /\ rendered'[s][t] # None /\ rendered'[s][t].block = rt.blocks[t]

LEMMA AnswerIs ==
  ASSUME TypeOK, NEW c \in calls, NEW rt \in Runtime, rt.session \in Session, Answer(c, rt)
  PROVE Answered(c, rt)
<1>1. calls' = calls \ {c}
  BY DEF Answer
<1>2. rendered \in [Session -> [Turn -> Rendering \union {None}]] /\ c.turn \in Turn
  BY Typed DEF TypeOK
<1>3. CASE rendered' = rendered
  BY <1>1, <1>2, <1>3 DEF Answered
<1>4. CASE ~ (c.aborted \/ c.runtime # current \/ rt.phase = "closed" \/ rt.init = "ledger")
  <2>1. PICK s \in Session : s = rt.session
    OBVIOUS
  <2>2. PICK before \in [Turn -> Rendering \union {None}] : before = rendered[s]
    BY <1>2
  <2>3. PICK map : map = Applied(c, rt, before)
    OBVIOUS
  <2>4. rendered' = [rendered EXCEPT ![s] = map]
    BY <1>4, <2>1, <2>2, <2>3 DEF Answer
  <2>5. ASSUME NEW t \in Turn
        PROVE /\ rt.blocks[t] \in Block \union {None}
              /\ [block |-> rt.blocks[t]] \in Rendering /\ [block |-> rt.blocks[t]].block = rt.blocks[t]
    <3>1. rt.blocks[t] \in Block \union {None}
      BY DEF Runtime, Ledger
    <3> QED BY <3>1 DEF Rendering
  <2>6. map = [t \in Turn |-> IF t > c.turn THEN before[t] ELSE [block |-> rt.blocks[t]]]
    BY <2>3 DEF Applied
  <2>7. map \in [Turn -> Rendering \union {None}]
    BY <2>2, <2>5, <2>6
  <2>8. ASSUME NEW t \in Turn, map[t] # before[t]
        PROVE t <= c.turn /\ map[t] # None /\ map[t].block = rt.blocks[t]
    <3>1. ~ (t > c.turn) /\ map[t] = [block |-> rt.blocks[t]]
      BY <2>6, <2>8
    <3>2. map[t] # None
      BY <2>5, <3>1, Typed
    <3>3. t <= c.turn
      BY <1>2, <3>1 DEF Turn
    <3> QED BY <2>5, <3>1, <3>2, <3>3
  <2>9. \A u \in Session : rendered'[u] = IF u = s THEN map ELSE rendered[u]
    BY <1>2, <2>4
  <2>10. rendered' \in [Session -> [Turn -> Rendering \union {None}]]
    <3>1. \A u \in Session : rendered'[u] \in [Turn -> Rendering \union {None}]
      BY <1>2, <2>7, <2>9
    <3>2. rendered' = [u \in Session |-> rendered'[u]]
      BY <1>2, <2>4
    <3> QED BY <3>1, <3>2
  <2>11. ASSUME NEW u \in Session, NEW t \in Turn, rendered'[u][t] # rendered[u][t]
         PROVE /\ u = s /\ t <= c.turn
               /\ rendered'[u][t] # None /\ rendered'[u][t].block = rt.blocks[t]
    <3>1. u = s /\ rendered'[u][t] = map[t] /\ map[t] # before[t]
      BY <2>2, <2>9, <2>11
    <3> QED BY <2>8, <3>1
  <2> QED BY <1>1, <1>4, <2>1, <2>10, <2>11 DEF Answered
<1> QED BY <1>3, <1>4 DEF Answer

\* The prompt of runtime r is taken.
Taken(r) ==
  /\ \A q \in Rid :
       /\ runtimes'[q].session = runtimes[q].session /\ runtimes'[q].phase = runtimes[q].phase
       /\ runtimes'[q].init = runtimes[q].init /\ runtimes'[q].startup = runtimes[q].startup
       /\ runtimes'[q].prompt = IF q = r THEN 0 ELSE runtimes[q].prompt
       /\ runtimes'[q].writes = runtimes[q].writes /\ runtimes'[q].blocks = runtimes[q].blocks
  /\ \A q \in Rid : q # r => runtimes'[q] = runtimes[q]
  /\ runtimes' \in [Rid -> Runtime]

\* The hook c has become x, which searches for the prompt p.
Searches(c, x, p) ==
  /\ calls' = (calls \ {c}) \union {x}
  /\ x \in Call /\ x.runtime = c.runtime /\ x.turn = c.turn /\ x.at = "search" /\ x.query = p
  /\ x.fresh = TRUE /\ x.aborted = c.aborted
  /\ runtimes[c.runtime].prompt = p /\ p # 0 /\ runtimes[c.runtime].blocks[c.turn] = None

LEMMA TakePromptIs ==
  ASSUME TypeOK, Lives, CallsBegun, NEW c \in calls, TakePrompt(c)
  PROVE /\ Taken(c.runtime)
        /\ \/ Answered(c, runtimes[c.runtime])
           \/ /\ rendered' = rendered
              /\ \E x : \E p \in Turn : Searches(c, x, p)
<1>1. PICK r \in Rid : r = c.runtime
  BY Typed
<1>2. runtimes' = [runtimes EXCEPT ![r].prompt = 0] /\ runtimes \in [Rid -> Runtime]
  BY <1>1 DEF TakePrompt, TypeOK
<1>3. ASSUME NEW q \in Rid
      PROVE /\ runtimes'[q] \in Runtime
            /\ runtimes'[q].session = runtimes[q].session /\ runtimes'[q].phase = runtimes[q].phase
            /\ runtimes'[q].init = runtimes[q].init /\ runtimes'[q].startup = runtimes[q].startup
            /\ runtimes'[q].prompt = IF q = r THEN 0 ELSE runtimes[q].prompt
            /\ runtimes'[q].writes = runtimes[q].writes /\ runtimes'[q].blocks = runtimes[q].blocks
            /\ q # r => runtimes'[q] = runtimes[q]
  <2>1. runtimes[q] \in Runtime
    BY Typed
  <2>2. CASE q = r
    <3>1. runtimes'[q] = [runtimes[q] EXCEPT !.prompt = 0]
      BY <1>2, <2>2
    <3>2. 0 \in 0..MaxTurns
      BY Typed
    <3> QED BY <2>1, <2>2, <3>1, <3>2, PromptIs
  <2>3. CASE q # r
    <3>1. runtimes'[q] = runtimes[q]
      BY <1>2, <2>3
    <3> QED BY <2>1, <2>3, <3>1
  <2> QED BY <2>2, <2>3
<1>4. runtimes' = [q \in Rid |-> runtimes'[q]]
  BY <1>2
<1>5. runtimes' \in [Rid -> Runtime]
  BY <1>3, <1>4
<1>6. Taken(c.runtime)
  BY <1>1, <1>3, <1>5 DEF Taken
<1>7. PICK rt \in Runtime : rt = runtimes[r]
  BY Typed
<1>8. rt.session \in Session
  BY <1>1, <1>7 DEF CallsBegun, Lives
<1>9. CASE Answer(c, rt)
  BY <1>1, <1>6, <1>7, <1>8, <1>9, AnswerIs
<1>10. CASE ~ (rt.blocks[c.turn] # None \/ rt.prompt = 0)
  <2>1. PICK p \in Turn : p = rt.prompt
    <3>1. rt.prompt \in 0..MaxTurns /\ rt.prompt # 0 /\ MaxTurns \in Nat
      BY <1>7, <1>10, Typed
    <3>2. rt.prompt \in 1..MaxTurns
      BY <3>1
    <3> QED BY <3>2 DEF Turn
  <2>2. PICK x : x = Searching(c, p)
    OBVIOUS
  <2>3. calls' = (calls \ {c}) \union {x} /\ rendered' = rendered
    BY <1>1, <1>7, <1>10, <2>1, <2>2 DEF TakePrompt, Searching
  <2>4. c \in Call /\ p \in 0..MaxTurns
    BY <2>1, Typed DEF Turn
  <2>5. /\ x \in Call /\ x.runtime = c.runtime /\ x.turn = c.turn /\ x.at = "search" /\ x.query = p
        /\ x.fresh = TRUE /\ x.aborted = c.aborted
    <3>1. /\ x \in Call /\ x.aborted = c.aborted /\ x.runtime = c.runtime /\ x.turn = c.turn
          /\ x.at = "search" /\ x.query = p /\ x.fresh
      BY <2>2, <2>4, SearchingIs
    <3> QED BY <3>1 DEF Call
  <2>6. p # 0
    BY <2>1 DEF Turn
  <2>7. Searches(c, x, p)
    BY <1>1, <1>7, <1>10, <2>1, <2>3, <2>5, <2>6 DEF Searches
  <2> QED BY <1>6, <2>3, <2>7
<1> QED BY <1>1, <1>7, <1>9, <1>10 DEF TakePrompt


LEMMA TakePromptKeeps ==
  ASSUME IInv, NEW c \in calls, TakePrompt(c)
  PROVE IInv'
<1>1. PICK r \in Rid : r = c.runtime
  BY Typed DEF IInv
<1>2. /\ \A q \in Rid :
           /\ runtimes'[q].session = runtimes[q].session /\ runtimes'[q].phase = runtimes[q].phase
           /\ runtimes'[q].init = runtimes[q].init /\ runtimes'[q].startup = runtimes[q].startup
           /\ runtimes'[q].prompt = IF q = r THEN 0 ELSE runtimes[q].prompt
           /\ runtimes'[q].writes = runtimes[q].writes /\ runtimes'[q].blocks = runtimes[q].blocks
      /\ \A q \in Rid : q # r => runtimes'[q] = runtimes[q]
      /\ runtimes' \in [Rid -> Runtime]
  BY <1>1, TakePromptIs DEF IInv, Taken
<1>3. /\ c.at = "ready" /\ current' = current /\ turn' = turn /\ disk' = disk
      /\ overtaken' = overtaken /\ cut' = cut /\ faults' = faults
  BY DEF TakePrompt
<1>4. PICK x, p : \A y \in calls' :
                    \/ y \in calls
                    \/ y = x /\ p \in Turn /\ Searches(c, x, p)
  <2>1. CASE Answered(c, runtimes[c.runtime])
    BY <2>1 DEF Answered
  <2>2. CASE \E x : \E p \in Turn : Searches(c, x, p)
    BY <2>2 DEF Searches
  <2> QED BY <2>1, <2>2, TakePromptIs DEF IInv
<1>5. \A y \in calls : /\ y.runtime \in Rid /\ Of(y)' = Of(y)
                       /\ Pending(y)' = IF y.runtime = r THEN 0 ELSE Pending(y)
  BY <1>2, Typed DEF IInv, Of, Pending
<1>6. ASSUME NEW y \in calls', y \notin calls
      PROVE /\ y = x /\ p \in Turn /\ p # 0 /\ y \in Call /\ y.runtime = r /\ y.turn = c.turn
            /\ y.at = "search" /\ y.query = p /\ Of(y)' = Of(c) /\ Of(c) = runtimes[r].session
            /\ runtimes[r].prompt = p /\ Pending(c) = p /\ Pending(y)' = 0
            /\ runtimes[r].phase # "unborn"
  <2>1. y = x /\ p \in Turn /\ Searches(c, x, p)
    BY <1>4, <1>6
  <2>2. /\ y \in Call /\ y.runtime = r /\ y.turn = c.turn /\ y.at = "search" /\ y.query = p
        /\ runtimes[r].prompt = p /\ p # 0
    BY <1>1, <2>1 DEF Searches
  <2>3. runtimes[r].phase # "unborn"
    BY <1>1 DEF IInv, CallsBegun
  <2> QED BY <1>1, <1>2, <2>1, <2>2, <2>3 DEF Of, Pending
<1>7. TypeOK'
  <2>1. calls' \subseteq Call
    BY <1>6, Typed DEF IInv
  <2>2. rendered' \in [Session -> [Turn -> Rendering \union {None}]]
    <3>1. CASE Answered(c, runtimes[c.runtime])
      BY <3>1 DEF Answered
    <3>2. CASE rendered' = rendered
      BY <3>2 DEF IInv, TypeOK
    <3> QED BY <3>1, <3>2, TakePromptIs DEF IInv
  <2>3. \A q \in Rid : runtimes[q].phase = "live" <=> q = current
    BY DEF IInv, TypeOK
  <2> QED BY <1>2, <1>3, <2>1, <2>2, <2>3 DEF IInv, TypeOK
<1>8. Lives'
  <2>1. /\ runtimes'[r].phase # "unborn" /\ runtimes'[r].session \in Session
        /\ ~ Open(r) => /\ runtimes'[r].startup = "unset"
                        /\ \A t \in Turn : runtimes'[r].blocks[t] # None => t \in runtimes'[r].writes
        /\ \A t \in runtimes'[r].writes : runtimes'[r].blocks[t] # None
        /\ runtimes'[r].init # "ready" => runtimes'[r].startup = "unset"
    <3>1. runtimes[r].phase # "unborn"
      BY <1>1 DEF IInv, CallsBegun
    <3> QED BY <1>2, <3>1 DEF Lives, IInv
  <2>2. runtimes'[r].prompt = 0 /\ (Open(r)' <=> Open(r))
    BY <1>2 DEF Open
  <2> QED BY <1>2, <2>1, <2>2 DEF Lives, Open, IInv
<1>9. RuntimesBegun'
  <2>1. ASSUME NEW q \in Rid, runtimes'[q].phase # "unborn"
        PROVE /\ runtimes'[q].prompt <= turn'[runtimes'[q].session]
              /\ \A t \in Turn : runtimes'[q].blocks[t] # None => t <= turn'[runtimes'[q].session]
    <3>1. turn[runtimes[q].session] \in Nat
      BY <1>2, <2>1, Typed DEF Lives, IInv
    <3> QED BY <1>2, <1>3, <2>1, <3>1 DEF RuntimesBegun, IInv
  <2> QED BY <2>1 DEF RuntimesBegun
<1>10. SessionsBegun'
  <2>1. ASSUME NEW s \in Session, NEW t \in Turn, rendered'[s][t] # rendered[s][t]
        PROVE t <= turn[s]
    <3>1. Answered(c, runtimes[c.runtime])
      BY <2>1, TakePromptIs DEF IInv
    <3>2. t <= c.turn /\ s = Of(c)
      BY <2>1, <3>1 DEF Answered, Of
    <3> QED BY <3>2, Typed DEF IInv, CallsBegun, Turn
  <2> QED BY <1>3, <2>1 DEF SessionsBegun, IInv
<1>11. CallsBegun'
  <2>1. ASSUME NEW y \in calls'
        PROVE /\ runtimes'[y.runtime].phase # "unborn"
              /\ y.turn <= turn'[Of(y)']
              /\ y.at = "search" => y.query # 0 /\ y.query <= turn'[Of(y)']
    <3>1. CASE y \in calls
      BY <1>2, <1>3, <1>5, <3>1 DEF CallsBegun, IInv
    <3>2. CASE y \notin calls
      <4>1. c.turn <= turn[Of(c)]
        BY DEF CallsBegun, IInv
      <4>2. p <= turn[runtimes[r].session]
        BY <1>6, <3>2 DEF RuntimesBegun, IInv
      <4> QED BY <1>2, <1>3, <1>6, <3>2, <4>1, <4>2
    <3> QED BY <3>1, <3>2
  <2> QED BY <2>1 DEF CallsBegun
<1>12. Prompts'
  <2>1. current' # 0 => runtimes'[current'].prompt \in {0, turn'[runtimes'[current'].session]}
    BY <1>2, <1>3 DEF Prompts, IInv, TypeOK
  <2>2. ASSUME NEW y \in calls', y.turn \notin overtaken'[Of(y)']
        PROVE /\ y.at = "ready" /\ Pending(y)' # 0 => y.turn = Pending(y)'
              /\ y.at = "search" => y.query = y.turn
    <3>1. CASE y \in calls
      BY <1>3, <1>5, <2>2, <3>1 DEF Prompts, IInv
    <3>2. CASE y \notin calls
      <4>1. c.turn \notin overtaken[Of(c)]
        BY <1>3, <1>6, <2>2, <3>2
      <4>2. c.turn = p
        BY <1>3, <1>6, <3>2, <4>1 DEF Prompts, IInv
      <4> QED BY <1>6, <3>2, <4>2
    <3> QED BY <3>1, <3>2
  <2> QED BY <2>1, <2>2 DEF Prompts
<1>13. OnePending'
  BY <1>2 DEF OnePending, IInv
<1>14. ASSUME NEW y \in calls, y.at = "search" PROVE y.query # 0 /\ (Of(y) = runtimes[r].session => y.query # runtimes[r].prompt)
  BY <1>14 DEF CallsBegun, PendingOrSearched, IInv
<1>15. OneSearch'
  <2>1. ASSUME NEW y \in calls', NEW z \in calls',
               y.at = "search", z.at = "search", Of(y)' = Of(z)', y.query = z.query
        PROVE y = z
    <3>1. CASE y \in calls /\ z \in calls
      BY <1>5, <2>1, <3>1 DEF OneSearch, IInv
    <3>2. CASE y \in calls /\ z \notin calls
      BY <1>5, <1>6, <1>14, <2>1, <3>2
    <3>3. CASE y \notin calls /\ z \in calls
      BY <1>5, <1>6, <1>14, <2>1, <3>3
    <3>4. CASE y \notin calls /\ z \notin calls
      BY <1>6, <3>4
    <3> QED BY <3>1, <3>2, <3>3, <3>4
  <2> QED BY <2>1 DEF OneSearch
<1>16. PendingOrSearched'
  <2>1. ASSUME NEW y \in calls', NEW q \in Rid, y.at = "search", Of(y)' = runtimes'[q].session
        PROVE y.query # runtimes'[q].prompt
    <3>1. runtimes'[q].session = runtimes[q].session
          /\ runtimes'[q].prompt = IF q = r THEN 0 ELSE runtimes[q].prompt
      BY <1>2
    <3>2. CASE y \in calls
      BY <1>5, <1>14, <2>1, <3>1, <3>2 DEF PendingOrSearched, IInv
    <3>3. CASE y \notin calls
      BY <1>6, <2>1, <3>1, <3>3 DEF OnePending, IInv
    <3> QED BY <3>2, <3>3
  <2> QED BY <2>1 DEF PendingOrSearched
<1>17. AskedIsBlank'
  <2>1. ASSUME NEW u \in Session, NEW t \in Turn, Asked(u, t)' PROVE Asked(u, t)
    <3>1. CASE \E q \in Rid : runtimes'[q].session = u /\ runtimes'[q].prompt = t
      <4>1. PICK q \in Rid : runtimes'[q].session = u /\ runtimes'[q].prompt = t
        BY <3>1
      <4>2. runtimes[q].session = u /\ runtimes[q].prompt = t
        BY <1>2, <4>1 DEF Turn
      <4> QED BY <4>2 DEF Asked
    <3>2. CASE \E y \in calls' : Of(y)' = u /\ y.at = "search" /\ y.query = t
      <4>1. PICK y \in calls' : Of(y)' = u /\ y.at = "search" /\ y.query = t
        BY <3>2
      <4>2. CASE y \in calls
        BY <1>5, <4>1, <4>2 DEF Asked
      <4>3. CASE y \notin calls
        BY <1>6, <4>1, <4>3 DEF Asked
      <4> QED BY <4>2, <4>3
    <3> QED BY <2>1, <3>1, <3>2 DEF Asked
  <2>2. ASSUME NEW u \in Session, NEW t \in Turn, NoBlock(u, t) PROVE NoBlock(u, t)'
    BY <1>2, <1>3, <2>2 DEF NoBlock
  <2> QED BY <1>3, <2>1, <2>2 DEF AskedIsBlank, IInv
<1>18. StartupIsKept'
  <2>1. ASSUME NEW q \in Rid, runtimes'[q].startup = "used"
        PROVE \/ overtaken'[runtimes'[q].session] # {}
              \/ \E t \in Turn : runtimes'[q].blocks[t] # None /\ runtimes'[q].blocks[t].startup
    BY <1>2, <1>3, <2>1 DEF StartupIsKept, IInv
  <2> QED BY <2>1 DEF StartupIsKept
<1> QED BY <1>7, <1>8, <1>9, <1>10, <1>11, <1>12, <1>13, <1>15, <1>16, <1>17, <1>18 DEF IInv


\* The search of the hook c is over, with the block b.
Searched(c, b) ==
  LET r == c.runtime
  IN /\ c.at = "search" /\ b \in Block
     /\ (b.startup <=> runtimes[r].startup = "set") /\ b.query \in {0, c.query}
     /\ \A q \in Rid :
          /\ runtimes'[q].session = runtimes[q].session /\ runtimes'[q].phase = runtimes[q].phase
          /\ runtimes'[q].init = runtimes[q].init /\ runtimes'[q].prompt = runtimes[q].prompt
          /\ q # r \/ ~ c.fresh => runtimes'[q] = runtimes[q]
     /\ c.fresh =>
          /\ runtimes'[r].startup = IF runtimes[r].startup = "set" THEN "used" ELSE runtimes[r].startup
          /\ \A t \in Turn : runtimes'[r].blocks[t] =
               IF t = c.turn /\ runtimes[r].blocks[t] = None THEN b ELSE runtimes[r].blocks[t]
          /\ runtimes'[r].writes = IF runtimes[r].blocks[c.turn] = None
                                   THEN runtimes[r].writes \union {c.turn} ELSE runtimes[r].writes
     /\ runtimes' \in [Rid -> Runtime]
     /\ UNCHANGED <<current, turn, disk, overtaken, cut, faults>>

LEMMA SearchEndsIs ==
  ASSUME TypeOK, Lives, CallsBegun, NEW c \in calls, SearchEnds(c)
  PROVE /\ \E b : Searched(c, b)
        /\ Answered(c, runtimes'[c.runtime])
<1>1. PICK r \in Rid : r = c.runtime
  BY Typed
<1>2. PICK rt \in Runtime : rt = runtimes[r]
  BY Typed
<1>3. PICK query \in {0, c.query} :
        LET b == [query |-> query, startup |-> rt.startup = "set"]
            done == Recorded(c, rt, b)
        IN /\ runtimes' = [runtimes EXCEPT ![r] = done]
           /\ Answer(c, done)
  BY <1>1, <1>2 DEF SearchEnds
<1>4. PICK b : b = [query |-> query, startup |-> rt.startup = "set"]
  OBVIOUS
<1>5. b \in Block /\ (b.startup <=> rt.startup = "set") /\ b.query \in {0, c.query}
  <2>1. query \in 0..MaxTurns
    BY Typed
  <2> QED BY <1>4, <2>1 DEF Block
<1>6. PICK done : done = Recorded(c, rt, b)
  OBVIOUS
<1>7. runtimes' = [runtimes EXCEPT ![r] = done] /\ Answer(c, done) /\ runtimes \in [Rid -> Runtime]
  BY <1>3, <1>4, <1>6 DEF TypeOK
<1>8. c \in Call
  BY Typed
<1>9. /\ done \in Runtime
      /\ done.session = rt.session /\ done.phase = rt.phase /\ done.init = rt.init
      /\ done.prompt = rt.prompt
      /\ ~ c.fresh => done = rt
      /\ c.fresh =>
           /\ done.startup = IF rt.startup = "set" THEN "used" ELSE rt.startup
           /\ \A t \in Turn : done.blocks[t] = IF t = c.turn /\ rt.blocks[t] = None THEN b
                                               ELSE rt.blocks[t]
           /\ done.writes = IF rt.blocks[c.turn] = None THEN rt.writes \union {c.turn} ELSE rt.writes
  BY ONLY <1>5, <1>6, <1>8, rt \in Runtime, RecordedIs
<1>10. runtimes'[r] = done /\ (\A q \in Rid : q # r => runtimes'[q] = runtimes[q])
       /\ runtimes' \in [Rid -> Runtime]
  BY <1>7, <1>9
<1>11. \A q \in Rid :
         /\ runtimes'[q].session = runtimes[q].session /\ runtimes'[q].phase = runtimes[q].phase
         /\ runtimes'[q].init = runtimes[q].init /\ runtimes'[q].prompt = runtimes[q].prompt
         /\ q # r \/ ~ c.fresh => runtimes'[q] = runtimes[q]
  BY <1>2, <1>9, <1>10
<1>12. Searched(c, b)
  <2>1. c.at = "search" /\ UNCHANGED <<current, turn, disk, overtaken, cut, faults>>
    BY DEF SearchEnds
  <2>2. c.fresh =>
          /\ runtimes'[r].startup = IF runtimes[r].startup = "set" THEN "used" ELSE runtimes[r].startup
          /\ \A t \in Turn : runtimes'[r].blocks[t] =
               IF t = c.turn /\ runtimes[r].blocks[t] = None THEN b ELSE runtimes[r].blocks[t]
          /\ runtimes'[r].writes = IF runtimes[r].blocks[c.turn] = None
                                   THEN runtimes[r].writes \union {c.turn} ELSE runtimes[r].writes
    BY <1>2, <1>9, <1>10
  <2> QED BY <1>1, <1>2, <1>5, <1>10, <1>11, <2>1, <2>2 DEF Searched
<1>13. rt.session \in Session
  BY <1>1, <1>2 DEF CallsBegun, Lives
<1>14. Answered(c, done)
  BY <1>7, <1>9, <1>13, AnswerIs
<1> QED BY <1>1, <1>10, <1>12, <1>14

LEMMA SearchEndsKeeps ==
  ASSUME IInv, NEW c \in calls, SearchEnds(c)
  PROVE IInv'
<1>1. PICK r \in Rid : r = c.runtime
  BY Typed DEF IInv
<1>2. PICK b : Searched(c, b)
  BY SearchEndsIs DEF IInv
<1>3. /\ c.at = "search" /\ b \in Block /\ (b.startup <=> runtimes[r].startup = "set")
      /\ \A q \in Rid :
           /\ runtimes'[q].session = runtimes[q].session /\ runtimes'[q].phase = runtimes[q].phase
           /\ runtimes'[q].init = runtimes[q].init /\ runtimes'[q].prompt = runtimes[q].prompt
           /\ q # r \/ ~ c.fresh => runtimes'[q] = runtimes[q]
      /\ runtimes' \in [Rid -> Runtime]
  BY <1>1, <1>2 DEF Searched
<1>4. c.fresh =>
        /\ runtimes'[r].startup = IF runtimes[r].startup = "set" THEN "used" ELSE runtimes[r].startup
        /\ \A t \in Turn : runtimes'[r].blocks[t] =
             IF t = c.turn /\ runtimes[r].blocks[t] = None THEN b ELSE runtimes[r].blocks[t]
        /\ runtimes'[r].writes = IF runtimes[r].blocks[c.turn] = None
                                 THEN runtimes[r].writes \union {c.turn} ELSE runtimes[r].writes
  BY <1>1, <1>2 DEF Searched
<1>5. /\ current' = current /\ turn' = turn /\ disk' = disk
      /\ overtaken' = overtaken /\ cut' = cut /\ faults' = faults
  BY <1>2 DEF Searched
<1>6. /\ Answered(c, runtimes'[r]) /\ calls' = calls \ {c}
      /\ rendered' \in [Session -> [Turn -> Rendering \union {None}]]
  BY <1>1, SearchEndsIs DEF IInv, Answered
<1>7. \A y \in calls : /\ y.runtime \in Rid /\ Of(y)' = Of(y) /\ Pending(y)' = Pending(y)
  BY <1>3, Typed DEF IInv, Of, Pending
<1>8. /\ c.turn \in Turn /\ c.turn <= turn[Of(c)] /\ Of(c) = runtimes[r].session
      /\ runtimes[r].phase # "unborn" /\ Of(c) \in Session /\ turn[Of(c)] \in Nat
      /\ None \notin Block /\ runtimes[r].writes \subseteq Turn
  <2>1. /\ c.turn \in Turn /\ c.turn <= turn[Of(c)] /\ Of(c) = runtimes[r].session
        /\ runtimes[r].phase # "unborn" /\ None \notin Block /\ runtimes[r].writes \subseteq Turn
    BY <1>1, Typed DEF IInv, CallsBegun, Of
  <2>2. Of(c) \in Session
    BY <2>1 DEF IInv, Lives
  <2> QED BY <2>1, <2>2, Typed DEF IInv
<1>9. TypeOK'
  <2>1. \A q \in Rid : runtimes[q].phase = "live" <=> q = current
    BY DEF IInv, TypeOK
  <2> QED BY <1>3, <1>5, <1>6, <2>1 DEF IInv, TypeOK
<1>10. Lives'
  <2>1. CASE c.fresh
    <3>1. /\ runtimes'[r].phase # "unborn" /\ runtimes'[r].session \in Session
          /\ runtimes'[r].init # "ready" => runtimes'[r].startup = "unset"
          /\ ~ Open(r) => runtimes'[r].prompt = 0 /\ runtimes'[r].startup = "unset"
      BY <1>3, <1>4, <1>8, <2>1 DEF IInv, Lives
    <3>2. ASSUME NEW t \in Turn, ~ Open(r), runtimes'[r].blocks[t] # None
          PROVE t \in runtimes'[r].writes
      <4>1. runtimes[r].blocks[t] # None => t \in runtimes[r].writes
        BY <3>2 DEF IInv, Lives
      <4> QED BY <1>4, <2>1, <3>2, <4>1
    <3>3. ASSUME NEW t \in runtimes'[r].writes PROVE runtimes'[r].blocks[t] # None
      <4>1. \A u \in runtimes[r].writes : runtimes[r].blocks[u] # None
        BY DEF IInv, Lives
      <4>2. t \in Turn /\ (t \in runtimes[r].writes \/ (t = c.turn /\ runtimes[r].blocks[c.turn] = None))
        BY <1>4, <1>8, <2>1
      <4> QED BY <1>3, <1>4, <1>8, <2>1, <4>1, <4>2
    <3>4. Open(r)' <=> Open(r)
      BY <1>3 DEF Open
    <3>5. \A q \in Rid : q # r => runtimes'[q] = runtimes[q]
      BY <1>3
    <3> QED BY <3>1, <3>2, <3>3, <3>4, <3>5 DEF Lives, Open, IInv
  <2>2. CASE ~ c.fresh
    BY <1>3, <2>2 DEF Lives, Open, IInv
  <2> QED BY <2>1, <2>2
<1>11. ASSUME NEW q \in Rid, NEW t \in Turn, runtimes'[q].blocks[t] # runtimes[q].blocks[t]
       PROVE q = r /\ t = c.turn /\ runtimes[q].blocks[t] = None /\ c.fresh
  BY <1>3, <1>4, <1>11
<1>12. RuntimesBegun'
  <2>1. ASSUME NEW q \in Rid, runtimes'[q].phase # "unborn"
        PROVE /\ runtimes'[q].prompt <= turn'[runtimes'[q].session]
              /\ \A t \in Turn : runtimes'[q].blocks[t] # None => t <= turn'[runtimes'[q].session]
    <3>1. runtimes[q].prompt <= turn[runtimes[q].session]
          /\ \A t \in Turn : runtimes[q].blocks[t] # None => t <= turn[runtimes[q].session]
      BY <1>3, <2>1 DEF RuntimesBegun, IInv
    <3> QED BY <1>3, <1>5, <1>8, <1>11, <3>1
  <2> QED BY <2>1 DEF RuntimesBegun
<1>13. SessionsBegun'
  <2>1. ASSUME NEW s \in Session, NEW t \in Turn, rendered'[s][t] # rendered[s][t]
        PROVE t <= turn[s]
    <3>1. t <= c.turn /\ s = Of(c)
      BY <1>3, <1>6, <1>8, <2>1 DEF Answered
    <3> QED BY <1>8, <3>1 DEF Turn
  <2> QED BY <1>5, <2>1 DEF SessionsBegun, IInv
<1>14. CallsBegun'
  BY <1>3, <1>5, <1>6, <1>7 DEF CallsBegun, IInv
<1>15. Prompts'
  <2>1. current' # 0 => runtimes'[current'].prompt \in {0, turn'[runtimes'[current'].session]}
    BY <1>3, <1>5 DEF Prompts, IInv, TypeOK
  <2> QED BY <1>5, <1>6, <1>7, <2>1 DEF Prompts, IInv
<1>16. OnePending'
  BY <1>3 DEF OnePending, IInv
<1>17. OneSearch'
  BY <1>6, <1>7 DEF OneSearch, IInv
<1>18. PendingOrSearched'
  BY <1>3, <1>6, <1>7 DEF PendingOrSearched, IInv
<1>19. AskedIsBlank'
  <2>1. ASSUME NEW u \in Session, NEW t \in Turn, Asked(u, t)' 
        PROVE Asked(u, t) /\ ~ (u = Of(c) /\ t = c.query)
    <3>1. CASE \E q \in Rid : runtimes'[q].session = u /\ runtimes'[q].prompt = t
      <4>1. PICK q \in Rid : runtimes'[q].session = u /\ runtimes'[q].prompt = t
        BY <3>1
      <4>2. runtimes[q].session = u /\ runtimes[q].prompt = t
        BY <1>3, <4>1
      <4> QED BY <1>3, <4>2 DEF Asked, PendingOrSearched, IInv
    <3>2. CASE \E y \in calls' : Of(y)' = u /\ y.at = "search" /\ y.query = t
      <4>1. PICK y \in calls' : Of(y)' = u /\ y.at = "search" /\ y.query = t
        BY <3>2
      <4>2. y \in calls /\ y # c /\ Of(y) = u
        BY <1>6, <1>7, <4>1
      <4> QED BY <1>3, <4>1, <4>2 DEF Asked, OneSearch, IInv
    <3> QED BY <2>1, <3>1, <3>2 DEF Asked
  <2>2. ASSUME NEW u \in Session, NEW t \in Turn, t \notin overtaken'[u], Asked(u, t)'
        PROVE NoBlock(u, t)'
    <3>1. NoBlock(u, t)
      BY <1>5, <2>1, <2>2 DEF AskedIsBlank, IInv
    <3>2. ~ (u = Of(c) /\ t = c.turn)
      <4>1. c.turn \notin overtaken[Of(c)] => c.query = c.turn
        BY <1>3 DEF Prompts, IInv
      <4> QED BY <1>5, <2>1, <2>2, <4>1
    <3>3. ASSUME NEW q \in Rid, runtimes'[q].session = u PROVE runtimes'[q].blocks[t] = None
      BY <1>3, <1>8, <1>11, <3>1, <3>2, <3>3 DEF NoBlock
    <3> QED BY <1>5, <3>1, <3>3 DEF NoBlock
  <2> QED BY <2>2 DEF AskedIsBlank
<1>20. StartupIsKept'
  <2>1. ASSUME NEW q \in Rid, runtimes'[q].startup = "used"
        PROVE \/ overtaken'[runtimes'[q].session] # {}
              \/ \E t \in Turn : runtimes'[q].blocks[t] # None /\ runtimes'[q].blocks[t].startup
    <3>1. CASE runtimes[q].startup = "used"
      <4>1. \/ overtaken[runtimes[q].session] # {}
            \/ \E t \in Turn : runtimes[q].blocks[t] # None /\ runtimes[q].blocks[t].startup
        BY <3>1 DEF StartupIsKept, IInv
      <4>2. \A t \in Turn : runtimes[q].blocks[t] # None => runtimes'[q].blocks[t] = runtimes[q].blocks[t]
        BY <1>11
      <4> QED BY <1>3, <1>5, <4>1, <4>2
    <3>2. CASE runtimes[q].startup # "used"
      <4>1. q = r /\ c.fresh /\ runtimes[r].startup = "set"
        BY <1>3, <1>4, <2>1, <3>2
      <4>2. CASE runtimes[r].blocks[c.turn] = None
        <5>1. runtimes'[r].blocks[c.turn] = b /\ b.startup /\ b # None
          BY <1>3, <1>4, <1>8, <4>1, <4>2
        <5> QED BY <1>8, <4>1, <5>1
      <4>3. CASE runtimes[r].blocks[c.turn] # None
        <5>1. ~ NoBlock(Of(c), c.turn)
          BY <1>8, <4>3 DEF NoBlock
        <5>2. c.turn \notin overtaken[Of(c)] => Asked(Of(c), c.turn)
          BY <1>3 DEF Asked, Prompts, IInv
        <5>3. c.turn \in overtaken[Of(c)]
          BY <1>8, <5>1, <5>2 DEF AskedIsBlank, IInv
        <5> QED BY <1>3, <1>5, <1>8, <4>1, <5>3
      <4> QED BY <4>2, <4>3
    <3> QED BY <3>1, <3>2
  <2> QED BY <2>1 DEF StartupIsKept
<1> QED BY <1>9, <1>10, <1>12, <1>13, <1>14, <1>15, <1>16, <1>17, <1>18, <1>19, <1>20 DEF IInv


\* The file of the turn t is written, or its write has failed.
Persisted(r, t) ==
  LET s == runtimes[r].session
  IN /\ t \in runtimes[r].writes /\ t \in Turn /\ s \in Session /\ runtimes[r].phase # "unborn"
     /\ runtimes[r].blocks[t] # None
     /\ \A q \in Rid :
          /\ runtimes'[q].session = runtimes[q].session /\ runtimes'[q].phase = runtimes[q].phase
          /\ runtimes'[q].init = runtimes[q].init /\ runtimes'[q].prompt = runtimes[q].prompt
          /\ runtimes'[q].startup = runtimes[q].startup
          /\ runtimes'[q].writes = IF q = r THEN runtimes[q].writes \ {t} ELSE runtimes[q].writes
          /\ \A u \in Turn : runtimes'[q].blocks[u] = IF q = r /\ u = t /\ ~ Open(r) THEN None
                                                      ELSE runtimes[q].blocks[u]
          /\ q # r => runtimes'[q] = runtimes[q]
     /\ runtimes' \in [Rid -> Runtime]
     /\ disk' \in [Session -> Ledger]
     /\ \A v \in Session : \A u \in Turn :
          disk'[v][u] # disk[v][u] => /\ v = s /\ u = t /\ disk[v][u] = None
                                      /\ disk'[v][u] = runtimes[r].blocks[t]
     /\ \/ disk'[s][t] # None /\ cut' = cut
        \/ disk' = disk /\ cut' = cut \union {s}
     /\ faults' \in 0..MaxFaults
     /\ UNCHANGED <<current, calls, turn, rendered, overtaken>>

LEMMA PersistIs ==
  ASSUME TypeOK, Lives, NEW r \in Rid, Persist(r)
  PROVE \E t : Persisted(r, t)
<1>1. PICK rt \in Runtime : rt = runtimes[r]
  BY Typed
<1>2. PICK t \in rt.writes :
        LET s == rt.session
        IN /\ runtimes' = [runtimes EXCEPT ![r].writes = @ \ {t},
                                 ![r].blocks[t] = IF Open(r) THEN @ ELSE None]
           /\ \/ /\ disk' = [disk EXCEPT ![s][t] = IF @ = None THEN rt.blocks[t] ELSE @]
                 /\ UNCHANGED <<cut, faults>>
              \/ /\ faults < MaxFaults
                 /\ faults' = faults + 1
                 /\ cut' = cut \union {s}
                 /\ UNCHANGED disk
  BY <1>1 DEF Persist
<1>3. PICK s : s = rt.session
  OBVIOUS
<1>4. t \in Turn /\ rt.blocks[t] \in Block \union {None} /\ rt.blocks[t] # None
  BY <1>1, Typed DEF Lives
<1>5. rt.phase # "unborn" /\ s \in Session
  <2>1. rt.phase # "unborn"
    BY <1>1, <1>2, UnbornIs DEF Lives
  <2> QED BY <1>1, <1>3, <2>1 DEF Lives
<1>6. PICK b : b = IF Open(r) THEN rt.blocks[t] ELSE None
  OBVIOUS
<1>7. b \in Block \union {None}
  BY <1>4, <1>6
<1>8. runtimes \in [Rid -> Runtime] /\ disk \in [Session -> Ledger] /\ faults \in 0..MaxFaults
      /\ MaxFaults \in Nat
  BY RuntimeAssumption DEF TypeOK
<1>9. runtimes' = [runtimes EXCEPT ![r] = Written(rt, t, b)]
  BY <1>1, <1>2, <1>6, <1>8 DEF Written
<1>10. PICK x : x = Written(rt, t, b)
  OBVIOUS
<1>11. /\ x \in Runtime
       /\ x.session = rt.session /\ x.phase = rt.phase /\ x.init = rt.init
       /\ x.prompt = rt.prompt /\ x.startup = rt.startup /\ x.writes = rt.writes \ {t}
       /\ \A u \in Turn : x.blocks[u] = IF u = t THEN b ELSE rt.blocks[u]
  BY <1>4, <1>7, <1>10, PersistedIs
<1>12. runtimes'[r] = x /\ (\A q \in Rid : q # r => runtimes'[q] = runtimes[q])
       /\ runtimes' \in [Rid -> Runtime]
  BY <1>8, <1>9, <1>10, <1>11
<1>13. \A q \in Rid :
          /\ runtimes'[q].session = runtimes[q].session /\ runtimes'[q].phase = runtimes[q].phase
          /\ runtimes'[q].init = runtimes[q].init /\ runtimes'[q].prompt = runtimes[q].prompt
          /\ runtimes'[q].startup = runtimes[q].startup
          /\ runtimes'[q].writes = IF q = r THEN runtimes[q].writes \ {t} ELSE runtimes[q].writes
          /\ \A u \in Turn : runtimes'[q].blocks[u] = IF q = r /\ u = t /\ ~ Open(r) THEN None
                                                      ELSE runtimes[q].blocks[u]
  BY <1>1, <1>6, <1>11, <1>12
<1>14. /\ disk' \in [Session -> Ledger]
       /\ \A v \in Session : \A u \in Turn :
            disk'[v][u] # disk[v][u] => /\ v = s /\ u = t /\ disk[v][u] = None
                                        /\ disk'[v][u] = rt.blocks[t]
       /\ \/ disk'[s][t] # None /\ cut' = cut
          \/ disk' = disk /\ cut' = cut \union {s}
       /\ faults' \in 0..MaxFaults
  <2>1. CASE disk' = [disk EXCEPT ![s][t] = IF @ = None THEN rt.blocks[t] ELSE @]
             /\ UNCHANGED <<cut, faults>>
    <3>1. PICK n : n = IF disk[s][t] = None THEN rt.blocks[t] ELSE disk[s][t]
      OBVIOUS
    <3>2. disk[s] \in Ledger /\ disk[s][t] \in Block \union {None}
      BY <1>4, <1>5, <1>8 DEF Ledger
    <3>3. n \in Block \union {None} /\ n # None
      BY <1>4, <3>1, <3>2
    <3>4. PICK m : m = [disk[s] EXCEPT ![t] = n]
      OBVIOUS
    <3>5. m \in Ledger /\ m[t] = n /\ \A u \in Turn : u # t => m[u] = disk[s][u]
      BY <1>4, <3>2, <3>3, <3>4 DEF Ledger
    <3>6. disk' = [disk EXCEPT ![s] = m]
      BY <2>1, <3>1, <3>4
    <3>7. disk' \in [Session -> Ledger] /\ disk'[s] = m /\ \A v \in Session : v # s => disk'[v] = disk[v]
      BY <1>5, <1>8, <3>5, <3>6
    <3>8. ASSUME NEW v \in Session, NEW u \in Turn, disk'[v][u] # disk[v][u]
          PROVE v = s /\ u = t /\ disk[v][u] = None /\ disk'[v][u] = rt.blocks[t]
      BY <3>1, <3>5, <3>7, <3>8
    <3> QED BY <1>8, <2>1, <3>3, <3>5, <3>7, <3>8
  <2>2. CASE faults < MaxFaults /\ faults' = faults + 1 /\ cut' = cut \union {s} /\ disk' = disk
    BY <1>8, <2>2
  <2> QED BY <1>2, <1>3, <2>1, <2>2
<1>15. UNCHANGED <<current, calls, turn, rendered, overtaken>>
  BY DEF Persist
<1>16. Persisted(r, t)
  BY ZenonT(30), <1>1, <1>3, <1>4, <1>5, <1>12, <1>13, <1>14, <1>15 DEF Persisted
<1> QED BY <1>16

LEMMA PersistKeeps ==
  ASSUME IInv, NEW r \in Rid, Persist(r)
  PROVE IInv'
<1>1. PICK t : Persisted(r, t)
  BY PersistIs DEF IInv
<1>2. \A q \in Rid :
        /\ runtimes'[q].session = runtimes[q].session /\ runtimes'[q].phase = runtimes[q].phase
        /\ runtimes'[q].init = runtimes[q].init /\ runtimes'[q].prompt = runtimes[q].prompt
        /\ runtimes'[q].startup = runtimes[q].startup
        /\ q # r => runtimes'[q] = runtimes[q]
        /\ \A u \in Turn : runtimes'[q].blocks[u] = IF q = r /\ u = t /\ ~ Open(r) THEN None
                                                    ELSE runtimes[q].blocks[u]
  BY <1>1 DEF Persisted
<1>3. UNCHANGED <<current, calls, turn, rendered, overtaken>>
  BY <1>1 DEF Persisted
<1>4. \A c \in calls : /\ c.runtime \in Rid
                       /\ Of(c)' = Of(c) /\ Pending(c)' = Pending(c)
  BY <1>2, Typed DEF IInv, Of, Pending
<1>5. PICK s \in Session :
        /\ s = runtimes[r].session /\ t \in Turn /\ runtimes[r].phase # "unborn"
        /\ runtimes[r].blocks[t] # None
        /\ runtimes'[r].writes = runtimes[r].writes \ {t}
        /\ \A v \in Session : \A u \in Turn :
             disk'[v][u] # disk[v][u] => /\ v = s /\ u = t /\ disk[v][u] = None
                                         /\ disk'[v][u] = runtimes[r].blocks[t]
  BY <1>1 DEF Persisted
<1>6. TypeOK'
  <2>1. \A q \in Rid : runtimes[q].phase = "live" <=> q = current
    BY DEF IInv, TypeOK
  <2>2. cut' \subseteq Session
    BY <1>1, <1>5 DEF IInv, TypeOK, Persisted
  <2>3. /\ runtimes' \in [Rid -> Runtime] /\ disk' \in [Session -> Ledger] /\ faults' \in 0..MaxFaults
    BY <1>1 DEF Persisted
  <2> QED BY <1>2, <1>3, <2>1, <2>2, <2>3 DEF IInv, TypeOK
<1>7. Lives'
  <2>1. /\ runtimes'[r].phase # "unborn" /\ runtimes'[r].session \in Session
        /\ ~ Open(r) => runtimes'[r].prompt = 0 /\ runtimes'[r].startup = "unset"
        /\ runtimes'[r].init # "ready" => runtimes'[r].startup = "unset"
    BY <1>2, <1>5 DEF IInv, Lives
  <2>2. ASSUME NEW u \in Turn, ~ Open(r), runtimes'[r].blocks[u] # None
        PROVE u \in runtimes'[r].writes
    <3>1. u # t /\ runtimes[r].blocks[u] # None
      BY <1>2, <2>2
    <3> QED BY <1>5, <2>2, <3>1 DEF IInv, Lives
  <2>3. ASSUME NEW u \in runtimes'[r].writes PROVE runtimes'[r].blocks[u] # None
    <3>1. u # t /\ u \in runtimes[r].writes /\ u \in Turn
      BY <1>5, Typed DEF IInv
    <3> QED BY <1>2, <3>1 DEF IInv, Lives
  <2>4. Open(r)' <=> Open(r)
    BY <1>2 DEF Open
  <2> QED BY <1>2, <2>1, <2>2, <2>3, <2>4 DEF IInv, Lives, Open
<1>8. RuntimesBegun'
  <2>1. ASSUME NEW q \in Rid, runtimes'[q].phase # "unborn"
        PROVE /\ runtimes'[q].prompt <= turn'[runtimes'[q].session]
              /\ \A u \in Turn : runtimes'[q].blocks[u] # None => u <= turn'[runtimes'[q].session]
    <3>1. /\ runtimes[q].prompt <= turn[runtimes[q].session]
          /\ \A u \in Turn : runtimes[q].blocks[u] # None => u <= turn[runtimes[q].session]
      BY <1>2, <2>1 DEF RuntimesBegun, IInv
    <3> QED BY <1>2, <1>3, <3>1
  <2> QED BY <2>1 DEF RuntimesBegun
<1>9. SessionsBegun'
  <2>1. t <= turn[s]
    BY <1>5 DEF RuntimesBegun, IInv
  <2> QED BY <1>3, <1>5, <2>1 DEF SessionsBegun, IInv
<1>10. CallsBegun'
  BY <1>2, <1>3, <1>4 DEF CallsBegun, IInv
<1>11. Prompts'
  <2>1. current' # 0 => runtimes'[current'].prompt \in {0, turn'[runtimes'[current'].session]}
    BY <1>2, <1>3 DEF Prompts, IInv, TypeOK
  <2> QED BY <1>3, <1>4, <2>1 DEF Prompts, IInv
<1>12. OnePending'
  BY <1>2 DEF OnePending, IInv
<1>13. OneSearch'
  BY <1>3, <1>4 DEF OneSearch, IInv
<1>14. PendingOrSearched'
  BY <1>2, <1>3, <1>4 DEF PendingOrSearched, IInv
<1>15. AskedIsBlank'
  <2>1. ASSUME NEW v \in Session, NEW u \in Turn, Asked(v, u)' PROVE Asked(v, u)
    <3>1. CASE \E q \in Rid : runtimes'[q].session = v /\ runtimes'[q].prompt = u
      <4>1. PICK q \in Rid : runtimes'[q].session = v /\ runtimes'[q].prompt = u
        BY <3>1
      <4>2. runtimes[q].session = v /\ runtimes[q].prompt = u
        BY <1>2, <4>1
      <4> QED BY <4>2 DEF Asked
    <3>2. CASE \E x \in calls' : Of(x)' = v /\ x.at = "search" /\ x.query = u
      BY <1>3, <1>4, <3>2 DEF Asked
    <3> QED BY <2>1, <3>1, <3>2 DEF Asked
  <2>2. ASSUME NEW v \in Session, NEW u \in Turn, NoBlock(v, u) PROVE NoBlock(v, u)'
    <3>1. ASSUME NEW q \in Rid, runtimes'[q].session = v PROVE runtimes'[q].blocks[u] = None
      BY <1>2, <2>2, <3>1 DEF NoBlock
    <3>2. disk'[v][u] = None
      BY <1>5, <2>2 DEF NoBlock
    <3> QED BY <3>1, <3>2 DEF NoBlock
  <2> QED BY <1>3, <2>1, <2>2 DEF AskedIsBlank, IInv
<1>16. StartupIsKept'
  <2>1. ASSUME NEW q \in Rid, runtimes'[q].startup = "used"
        PROVE \A u \in Turn : runtimes'[q].blocks[u] = runtimes[q].blocks[u]
    <3>1. Open(q)
      BY <1>2, <2>1 DEF Lives, IInv
    <3> QED BY <1>2, <3>1
  <2>2. ASSUME NEW q \in Rid, runtimes'[q].startup = "used"
        PROVE \/ overtaken'[runtimes'[q].session] # {}
              \/ \E u \in Turn : runtimes'[q].blocks[u] # None /\ runtimes'[q].blocks[u].startup
    <3>1. \/ overtaken[runtimes[q].session] # {}
          \/ \E u \in Turn : runtimes[q].blocks[u] # None /\ runtimes[q].blocks[u].startup
      BY <1>2, <2>2 DEF StartupIsKept, IInv
    <3> QED BY <1>2, <1>3, <2>1, <2>2, <3>1
  <2> QED BY <2>2 DEF StartupIsKept
<1> QED BY <1>6, <1>7, <1>8, <1>9, <1>10, <1>11, <1>12, <1>13, <1>14, <1>15, <1>16 DEF IInv


\* Runtime r has closed: it keeps nothing but the blocks it still writes.
ClosedDown(r) ==
  /\ \A q \in Rid :
       /\ runtimes'[q].session = runtimes[q].session /\ runtimes'[q].writes = runtimes[q].writes
       /\ q # r => runtimes'[q] = runtimes[q]
  /\ runtimes[r].phase = "closing"
  /\ runtimes'[r].phase = "closed" /\ runtimes'[r].init = "ledger" /\ runtimes'[r].prompt = 0
  /\ runtimes'[r].startup = "unset"
  /\ \A t \in Turn : runtimes'[r].blocks[t] = IF t \in runtimes[r].writes THEN runtimes[r].blocks[t]
                                              ELSE None
  /\ runtimes' \in [Rid -> Runtime]
  /\ \A x \in calls' : x \in Call
  /\ \A x \in calls' : \E c \in calls :
       /\ x.runtime = c.runtime /\ x.turn = c.turn /\ x.at = c.at /\ x.query = c.query
       /\ x.aborted = c.aborted
       /\ c.runtime = r => x.fresh = FALSE
       /\ c.runtime # r => x.fresh = c.fresh
       /\ c.runtime \in Rid /\ Of(x)' = Of(c) /\ x = Outdated(c, r)
  /\ cut \subseteq cut' /\ cut' \in SUBSET Session
  /\ UNCHANGED <<current, turn, disk, rendered, overtaken, faults>>

LEMMA CloseIs ==
  ASSUME TypeOK, Lives, NEW r \in Rid, ShutdownEnds(r) \/ ShutdownDeadline(r)
  PROVE ClosedDown(r)
<1>1. /\ runtimes[r].phase = "closing" /\ runtimes' = [runtimes EXCEPT ![r] = Closed(@)]
      /\ calls' = Stale(r, calls) /\ runtimes \in [Rid -> Runtime]
      /\ UNCHANGED <<current, turn, disk, rendered, overtaken, faults>>
  BY DEF ShutdownEnds, ShutdownDeadline, Close, TypeOK
<1>2. cut \subseteq cut' /\ cut' \in SUBSET Session
  <2>1. cut \subseteq Session /\ runtimes[r].session \in Session
    BY <1>1 DEF TypeOK, Lives
  <2> QED BY <2>1 DEF ShutdownEnds, ShutdownDeadline
<1>3. PICK rt \in Runtime : rt = runtimes[r]
  BY Typed
<1>4. PICK x : x = Closed(rt)
  OBVIOUS
<1>5. /\ x \in Runtime
      /\ x.session = rt.session /\ x.phase = "closed" /\ x.init = "ledger"
      /\ x.prompt = 0 /\ x.startup = "unset" /\ x.writes = rt.writes
      /\ \A t \in Turn : x.blocks[t] = IF t \in rt.writes THEN rt.blocks[t] ELSE None
  BY <1>4, ClosedIs
<1>6. runtimes'[r] = x /\ (\A q \in Rid : q # r => runtimes'[q] = runtimes[q])
      /\ runtimes' \in [Rid -> Runtime]
  BY <1>1, <1>3, <1>4, <1>5
<1>7. \A q \in Rid : runtimes'[q].session = runtimes[q].session /\ runtimes'[q].writes = runtimes[q].writes
  BY <1>3, <1>5, <1>6
<1>8. ASSUME NEW y \in calls'
      PROVE /\ y \in Call
            /\ \E c \in calls :
                 /\ y.runtime = c.runtime /\ y.turn = c.turn /\ y.at = c.at /\ y.query = c.query
                 /\ y.aborted = c.aborted
                 /\ c.runtime = r => y.fresh = FALSE
                 /\ c.runtime # r => y.fresh = c.fresh
                 /\ c.runtime \in Rid /\ Of(y)' = Of(c) /\ y = Outdated(c, r)
  <2>1. PICK c \in calls : y = Outdated(c, r)
    BY <1>1 DEF Stale, Outdated
  <2>2. c \in Call /\ c.runtime \in Rid
    BY Typed
  <2>3. /\ y \in Call /\ y.aborted = c.aborted
        /\ y.runtime = c.runtime /\ y.turn = c.turn /\ y.at = c.at /\ y.query = c.query
        /\ c.runtime = r => y.fresh = FALSE
        /\ c.runtime # r => y.fresh = c.fresh
    <3>1. PICK z : z = r
      OBVIOUS
    <3>2. c \in Call /\ y = Outdated(c, z)
      BY <2>1, <2>2, <3>1
    <3>3. /\ y \in Call /\ y.aborted = c.aborted
          /\ y.runtime = c.runtime /\ y.turn = c.turn /\ y.at = c.at /\ y.query = c.query
          /\ c.runtime = z => y.fresh = FALSE
          /\ c.runtime # z => y.fresh = c.fresh
      BY ONLY ZenonT(30), <3>2, StaleIs
    <3> QED BY <3>1, <3>3
  <2>4. Of(y)' = Of(c)
    BY <1>7, <2>2, <2>3 DEF Of
  <2> QED BY <2>1, <2>2, <2>3, <2>4
<1> QED BY <1>1, <1>2, <1>3, <1>5, <1>6, <1>7, <1>8 DEF ClosedDown

LEMMA CloseKeeps ==
  ASSUME IInv, NEW r \in Rid, ShutdownEnds(r) \/ ShutdownDeadline(r)
  PROVE IInv'
<1>1. ClosedDown(r)
  BY CloseIs DEF IInv
<1>2. \A q \in Rid :
        /\ runtimes'[q].session = runtimes[q].session /\ runtimes'[q].writes = runtimes[q].writes
        /\ runtimes'[q].prompt \in {0, runtimes[q].prompt}
        /\ runtimes'[q].phase # "unborn" <=> runtimes[q].phase # "unborn"
        /\ \A t \in Turn : runtimes'[q].blocks[t] \in {None, runtimes[q].blocks[t]}
        /\ runtimes'[q].startup = "used" => runtimes'[q] = runtimes[q]
        /\ q # r => runtimes'[q] = runtimes[q]
  BY <1>1 DEF ClosedDown
<1>3. UNCHANGED <<current, turn, disk, rendered, overtaken, faults>>
  BY <1>1 DEF ClosedDown
<1>4. ASSUME NEW x \in calls'
      PROVE \E c \in calls :
              /\ x.runtime = c.runtime /\ x.turn = c.turn /\ x.at = c.at /\ x.query = c.query
              /\ c.runtime \in Rid /\ Of(x)' = Of(c) /\ x = Outdated(c, r)
              /\ Pending(x)' \in {0, Pending(c)}
  BY <1>1, <1>2 DEF ClosedDown, Pending
<1>5. TypeOK'
  <2>1. \A q \in Rid : runtimes[q].phase = "live" <=> q = current
    BY DEF IInv, TypeOK
  <2>2. \A q \in Rid : runtimes'[q].phase = "live" <=> runtimes[q].phase = "live"
    BY <1>1 DEF ClosedDown
  <2>3. runtimes' \in [Rid -> Runtime] /\ calls' \subseteq Call /\ cut' \subseteq Session
    BY <1>1 DEF ClosedDown
  <2> QED BY <1>3, <2>1, <2>2, <2>3 DEF IInv, TypeOK
<1>6. Lives'
  <2>1. /\ runtimes'[r].phase = "closed" /\ runtimes'[r].session \in Session
        /\ runtimes'[r].prompt = 0 /\ runtimes'[r].startup = "unset"
    BY <1>1 DEF IInv, Lives, ClosedDown
  <2>2. \A t \in Turn : runtimes'[r].blocks[t] # None => t \in runtimes'[r].writes
    BY <1>1 DEF ClosedDown
  <2>3. ASSUME NEW t \in runtimes'[r].writes PROVE runtimes'[r].blocks[t] # None
    <3>1. t \in Turn /\ t \in runtimes[r].writes
      BY <1>1, Typed DEF IInv, ClosedDown
    <3> QED BY <1>1, <3>1 DEF ClosedDown, IInv, Lives
  <2> QED BY <1>2, <2>1, <2>2, <2>3 DEF Lives, Open, IInv
<1>7. RuntimesBegun'
  <2>1. ASSUME NEW q \in Rid, runtimes'[q].phase # "unborn"
        PROVE /\ runtimes'[q].prompt <= turn'[runtimes'[q].session]
              /\ \A t \in Turn : runtimes'[q].blocks[t] # None => t <= turn'[runtimes'[q].session]
    <3>1. /\ runtimes[q].prompt <= turn[runtimes[q].session]
          /\ \A t \in Turn : runtimes[q].blocks[t] # None => t <= turn[runtimes[q].session]
      BY <1>2, <2>1 DEF RuntimesBegun, IInv
    <3>2. turn[runtimes[q].session] \in Nat
      BY <1>2, <2>1, Typed DEF Lives, IInv
    <3> QED BY <1>2, <1>3, <3>1, <3>2
  <2> QED BY <2>1 DEF RuntimesBegun
<1>8. SessionsBegun'
  BY <1>3 DEF SessionsBegun, IInv
<1>9. CallsBegun'
  <2>1. ASSUME NEW x \in calls'
        PROVE /\ runtimes'[x.runtime].phase # "unborn"
              /\ x.turn <= turn'[Of(x)']
              /\ x.at = "search" => x.query # 0 /\ x.query <= turn'[Of(x)']
    <3>1. PICK c \in calls :
            /\ x.runtime = c.runtime /\ x.turn = c.turn /\ x.at = c.at /\ x.query = c.query
            /\ c.runtime \in Rid /\ Of(x)' = Of(c)
      BY <1>4
    <3>2. /\ runtimes[c.runtime].phase # "unborn"
          /\ c.turn <= turn[Of(c)]
          /\ c.at = "search" => c.query # 0 /\ c.query <= turn[Of(c)]
      BY DEF CallsBegun, IInv
    <3> QED BY <1>2, <1>3, <3>1, <3>2
  <2> QED BY <2>1 DEF CallsBegun
<1>10. Prompts'
  <2>1. current' # 0 => runtimes'[current'].prompt \in {0, turn'[runtimes'[current'].session]}
    <3>1. current' # 0 => current \in Rid
      BY <1>3 DEF IInv, TypeOK
    <3>2. current # 0 => runtimes[current].prompt \in {0, turn[runtimes[current].session]}
      BY DEF IInv, Prompts
    <3> QED BY <1>2, <1>3, <3>1, <3>2
  <2>2. ASSUME NEW x \in calls', x.turn \notin overtaken'[Of(x)']
        PROVE /\ x.at = "ready" /\ Pending(x)' # 0 => x.turn = Pending(x)'
              /\ x.at = "search" => x.query = x.turn
    BY <1>3, <1>4, <2>2 DEF Prompts, IInv
  <2> QED BY <2>1, <2>2 DEF Prompts
<1>11. OnePending'
  BY <1>2 DEF OnePending, IInv
<1>12. OneSearch'
  <2>1. ASSUME NEW x \in calls', NEW y \in calls',
               x.at = "search", y.at = "search", Of(x)' = Of(y)', x.query = y.query
        PROVE x = y
    <3>1. PICK c \in calls : x.at = c.at /\ x.query = c.query /\ Of(x)' = Of(c) /\ x = Outdated(c, r)
      BY <1>4
    <3>2. PICK d \in calls : y.at = d.at /\ y.query = d.query /\ Of(y)' = Of(d) /\ y = Outdated(d, r)
      BY <1>4
    <3>3. c = d
      BY <2>1, <3>1, <3>2 DEF OneSearch, IInv
    <3> QED BY <3>1, <3>2, <3>3
  <2> QED BY <2>1 DEF OneSearch
<1>13. PendingOrSearched'
  <2>1. ASSUME NEW x \in calls', NEW q \in Rid, x.at = "search", Of(x)' = runtimes'[q].session
        PROVE x.query # runtimes'[q].prompt
    <3>1. PICK c \in calls : x.at = c.at /\ x.query = c.query /\ Of(x)' = Of(c)
      BY <1>4
    <3>2. c.query # 0
      BY <2>1, <3>1 DEF CallsBegun, IInv
    <3>3. Of(c) = runtimes[q].session
      BY <1>2, <2>1, <3>1
    <3>4. c.query # runtimes[q].prompt
      BY <2>1, <3>1, <3>3 DEF PendingOrSearched, IInv
    <3> QED BY <1>2, <3>1, <3>2, <3>4
  <2> QED BY <2>1 DEF PendingOrSearched
<1>14. AskedIsBlank'
  <2>1. ASSUME NEW u \in Session, NEW t \in Turn, Asked(u, t)' PROVE Asked(u, t)
    <3>1. CASE \E q \in Rid : runtimes'[q].session = u /\ runtimes'[q].prompt = t
      <4>1. PICK q \in Rid : runtimes'[q].session = u /\ runtimes'[q].prompt = t
        BY <3>1
      <4>2. runtimes[q].session = u /\ runtimes[q].prompt = t
        BY <1>2, <4>1 DEF Turn
      <4> QED BY <4>2 DEF Asked
    <3>2. CASE \E x \in calls' : Of(x)' = u /\ x.at = "search" /\ x.query = t
      BY <1>4, <3>2 DEF Asked
    <3> QED BY <2>1, <3>1, <3>2 DEF Asked
  <2>2. ASSUME NEW u \in Session, NEW t \in Turn, NoBlock(u, t) PROVE NoBlock(u, t)'
    BY <1>2, <1>3, <2>2 DEF NoBlock
  <2> QED BY <1>3, <2>1, <2>2 DEF AskedIsBlank, IInv
<1>15. StartupIsKept'
  <2>1. ASSUME NEW q \in Rid, runtimes'[q].startup = "used"
        PROVE \/ overtaken'[runtimes'[q].session] # {}
              \/ \E t \in Turn : runtimes'[q].blocks[t] # None /\ runtimes'[q].blocks[t].startup
    BY <1>2, <1>3, <2>1 DEF StartupIsKept, IInv
  <2> QED BY <2>1 DEF StartupIsKept
<1> QED BY <1>5, <1>6, <1>7, <1>8, <1>9, <1>10, <1>11, <1>12, <1>13, <1>14, <1>15 DEF IInv

\* The program has ended.
Crashed ==
  /\ \A q \in Rid :
       /\ runtimes'[q].session = runtimes[q].session /\ runtimes'[q].writes = {}
       /\ runtimes'[q].prompt = 0 /\ runtimes'[q].startup = "unset" /\ runtimes'[q].init = "ledger"
       /\ \A t \in Turn : runtimes'[q].blocks[t] = None
       /\ runtimes[q].phase = "unborn" => runtimes'[q] = Unborn /\ runtimes'[q].phase = "unborn"
       /\ runtimes[q].phase # "unborn" => runtimes'[q].phase = "closed"
  /\ runtimes' \in [Rid -> Runtime]
  /\ current' = 0 /\ calls' = {} /\ faults' \in 0..MaxFaults
  /\ \A q \in Rid : runtimes[q].writes # {} => runtimes[q].session \in cut'
  /\ cut \subseteq cut' /\ cut' \in SUBSET Session
  /\ UNCHANGED <<turn, disk, rendered, overtaken>>

LEMMA CrashIs ==
  ASSUME TypeOK, Lives, Crash
  PROVE Crashed
<1>1. ASSUME NEW q \in Rid
      PROVE /\ runtimes'[q] \in Runtime
            /\ runtimes'[q].session = runtimes[q].session /\ runtimes'[q].writes = {}
            /\ runtimes'[q].prompt = 0 /\ runtimes'[q].startup = "unset" /\ runtimes'[q].init = "ledger"
            /\ \A t \in Turn : runtimes'[q].blocks[t] = None
            /\ runtimes[q].phase = "unborn" => runtimes'[q] = Unborn /\ runtimes'[q].phase = "unborn"
            /\ runtimes[q].phase # "unborn" => runtimes'[q].phase = "closed"
  <2>1. CASE runtimes[q].phase = "unborn"
    <3>1. runtimes'[q] = Unborn /\ runtimes[q] = Unborn
      BY <2>1 DEF Crash, Lives
    <3> QED BY <2>1, <3>1, UnbornIs
  <2>2. CASE runtimes[q].phase # "unborn"
    <3>1. PICK rt : rt = [runtimes[q] EXCEPT !.writes = {}]
      OBVIOUS
    <3>2. rt \in Runtime /\ rt.writes = {} /\ rt.session = runtimes[q].session
      <4>1. runtimes[q] \in Runtime
        BY Typed
      <4> QED BY <3>1, <4>1 DEF Runtime
    <3>3. PICK x : x = Closed(rt)
      OBVIOUS
    <3>4. runtimes'[q] = x
      BY <2>2, <3>1, <3>3 DEF Crash
    <3>5. /\ x \in Runtime
          /\ x.session = rt.session /\ x.phase = "closed" /\ x.init = "ledger"
          /\ x.prompt = 0 /\ x.startup = "unset" /\ x.writes = rt.writes
          /\ \A t \in Turn : x.blocks[t] = IF t \in rt.writes THEN rt.blocks[t] ELSE None
      BY <3>2, <3>3, ClosedIs
    <3> QED BY <2>2, <3>2, <3>4, <3>5
  <2> QED BY <2>1, <2>2
<1>2. runtimes' = [q \in Rid |-> runtimes'[q]]
  BY DEF Crash
<1>3. runtimes' \in [Rid -> Runtime]
  BY <1>1, <1>2
<1>4. cut' = cut \union {runtimes[r].session : r \in {q \in Rid : runtimes[q].writes # {}}}
  BY DEF Crash
<1>5. \A q \in Rid : runtimes[q].writes # {} => runtimes[q].session \in Session
  <2>1. ASSUME NEW q \in Rid, runtimes[q].writes # {} PROVE runtimes[q].phase # "unborn"
    BY <2>1, UnbornIs DEF Lives
  <2> QED BY <2>1 DEF Lives
<1>6. /\ \A q \in Rid : runtimes[q].writes # {} => runtimes[q].session \in cut'
      /\ cut \subseteq cut' /\ cut' \in SUBSET Session
  <2>1. cut \subseteq Session
    BY DEF TypeOK
  <2> QED BY <1>4, <1>5, <2>1
<1>7. current' = 0 /\ calls' = {} /\ faults' \in 0..MaxFaults
      /\ UNCHANGED <<turn, disk, rendered, overtaken>>
  BY RuntimeAssumption DEF Crash, TypeOK
<1> QED BY <1>1, <1>3, <1>6, <1>7 DEF Crashed

LEMMA CrashKeeps ==
  ASSUME IInv, Crash
  PROVE IInv'
<1>1. Crashed
  BY CrashIs DEF IInv
<1>2. TypeOK'
  <2>1. \A q \in Rid : runtimes'[q].phase # "live"
    BY <1>1 DEF Crashed
  <2>2. 0 \notin Rid
    BY Typed DEF IInv
  <2> QED BY <1>1, <2>1, <2>2 DEF Crashed, IInv, TypeOK
<1>3. Lives'
  BY <1>1 DEF Crashed, IInv, Lives, Open
<1>4. RuntimesBegun'
  <2>1. ASSUME NEW q \in Rid, runtimes'[q].phase # "unborn" PROVE turn'[runtimes'[q].session] \in Nat
    BY <1>1, <2>1, Typed DEF Crashed, IInv, Lives
  <2> QED BY <1>1, <2>1 DEF Crashed, RuntimesBegun
<1>5. SessionsBegun'
  BY <1>1 DEF SessionsBegun, IInv, Crashed
<1>6. CallsBegun' /\ Prompts' /\ OneSearch' /\ PendingOrSearched' /\ OnePending'
  BY <1>1 DEF Crashed, CallsBegun, Prompts, OneSearch, PendingOrSearched, OnePending
<1>7. AskedIsBlank'
  <2>1. ASSUME NEW u \in Session, NEW t \in Turn PROVE ~ Asked(u, t)'
    BY <1>1 DEF Crashed, Asked, Turn
  <2> QED BY <2>1 DEF AskedIsBlank
<1>8. StartupIsKept'
  BY <1>1 DEF Crashed, StartupIsKept
<1> QED BY <1>2, <1>3, <1>4, <1>5, <1>6, <1>7, <1>8 DEF IInv

LEMMA StutterKeeps ==
  ASSUME IInv, UNCHANGED vars
  PROVE IInv'
<1>1. UNCHANGED <<runtimes, current, calls, turn, disk, rendered, overtaken, cut, faults>>
  BY DEF vars
<1>2. \A c : Of(c)' = Of(c) /\ Pending(c)' = Pending(c)
  BY <1>1 DEF Of, Pending
<1>3. \A s, t : (Asked(s, t)' <=> Asked(s, t)) /\ (NoBlock(s, t)' <=> NoBlock(s, t))
  BY <1>1, <1>2 DEF Asked, NoBlock
<1>4. TypeOK' /\ Lives' /\ RuntimesBegun' /\ SessionsBegun' /\ OnePending' /\ StartupIsKept'
  BY <1>1 DEF IInv, TypeOK, Lives, RuntimesBegun, SessionsBegun, OnePending, StartupIsKept, Open
<1>5. CallsBegun' /\ Prompts' /\ OneSearch' /\ PendingOrSearched'
  BY <1>1, <1>2 DEF IInv, CallsBegun, Prompts, OneSearch, PendingOrSearched
<1>6. AskedIsBlank'
  BY <1>1, <1>3 DEF IInv, AskedIsBlank
<1> QED BY <1>4, <1>5, <1>6 DEF IInv

LEMMA Initially ==
  ASSUME Init
  PROVE IInv
<1>1. ASSUME NEW q \in Rid
      PROVE /\ runtimes[q] = Unborn /\ runtimes[q] \in Runtime
            /\ runtimes[q].session = None /\ runtimes[q].phase = "unborn" /\ runtimes[q].prompt = 0
            /\ runtimes[q].init = "ledger" /\ runtimes[q].startup = "unset" /\ runtimes[q].writes = {}
            /\ \A t \in Turn : runtimes[q].blocks[t] = None
  <2>1. runtimes[q] = Unborn
    BY DEF Init
  <2> QED BY <2>1, UnbornIs
<1>2. TypeOK
  <2>1. Empty \in Ledger /\ Empty \in [Turn -> Rendering \union {None}]
    BY DEF Empty, Ledger
  <2>2. 0 \notin Rid /\ {} \subseteq Call
    BY DEF Rid
  <2>3. runtimes \in [Rid -> Runtime]
    BY <1>1 DEF Init
  <2>4. \A q \in Rid : runtimes[q].phase = "live" <=> q = current
    BY <1>1, <2>2 DEF Init
  <2>5. /\ turn \in [Session -> 0..MaxTurns] /\ faults \in 0..MaxFaults
        /\ overtaken \in [Session -> SUBSET Turn] /\ cut \subseteq Session
        /\ disk \in [Session -> Ledger]
        /\ rendered \in [Session -> [Turn -> Rendering \union {None}]]
    BY <2>1, RuntimeAssumption DEF Init
  <2> QED BY <2>2, <2>3, <2>4, <2>5 DEF Init, TypeOK
<1>3. Lives
  BY <1>1 DEF Lives, Open
<1>4. RuntimesBegun /\ OnePending /\ StartupIsKept
  BY <1>1 DEF RuntimesBegun, OnePending, StartupIsKept
<1>5. SessionsBegun
  <2>1. \A t \in Turn : Empty[t] = None
    BY DEF Empty
  <2> QED BY <2>1 DEF Init, SessionsBegun
<1>6. CallsBegun /\ Prompts /\ OneSearch /\ PendingOrSearched
  BY DEF Init, CallsBegun, Prompts, OneSearch, PendingOrSearched
<1>7. AskedIsBlank
  BY <1>1 DEF AskedIsBlank, Asked, Init, Turn
<1> QED BY <1>2, <1>3, <1>4, <1>5, <1>6, <1>7 DEF IInv

LEMMA Invariance == Spec => []IInv
<1>1. Init => IInv
  BY Initially
<1>2. IInv /\ [Next]_vars => IInv'
  <2> SUFFICES ASSUME IInv, [Next]_vars PROVE IInv'
    OBVIOUS
  <2>1. CASE Harness
    <3>1. PICK s \in Session : \/ Enter(s) \/ Leave(s) \/ BeforeAgentStart(s) \/ AgentEnd(s)
                               \/ ContextCalled(s)
      BY <2>1 DEF Harness
    <3> QED BY <3>1, ReplaceKeeps, BeforeAgentStartKeeps, AgentEndKeeps, ContextCalledKeeps
  <2>2. CASE Network
    <3>1. PICK r \in Rid : LoadLedger(r) \/ Startup(r) \/ Persist(r) \/ ShutdownEnds(r)
      BY <2>2 DEF Network
    <3> QED BY <3>1, LoadLedgerKeeps, StartupKeeps, PersistKeeps, CloseKeeps
  <2>3. CASE Hook
    <3>1. PICK c \in calls : TakePrompt(c) \/ SearchEnds(c)
      BY <2>3 DEF Hook
    <3> QED BY <3>1, TakePromptKeeps, SearchEndsKeeps
  <2>4. CASE Deadline
    BY <2>4, CloseKeeps DEF Deadline
  <2>5. CASE Crash
    BY <2>5, CrashKeeps
  <2>6. CASE UNCHANGED vars
    BY <2>6, StutterKeeps
  <2> QED BY <2>1, <2>2, <2>3, <2>4, <2>5, <2>6 DEF Next
<1> QED BY <1>1, <1>2, PTL DEF Spec

\* At any time at most one runtime is live, and it is the one the extension holds
\* (ensure, extensions/openviking.ts); every other is shutting down, has shut down
\* or does not exist yet.
THEOREM TypeCorrect == Spec => []TypeOK
<1>1. IInv => TypeOK
  BY DEF IInv
<1> QED BY <1>1, Invariance, PTL

\* The startup context that a runtime assembled reaches the model with some turn,
\* however searches, replacements, deadlines and crashes interleave, unless a hook
\* has met the prompt of a later turn (searchPending, recall.ts).
THEOREM StartupNotLost == Spec => []StartupIsKept
<1>1. IInv => StartupIsKept
  BY DEF IInv
<1> QED BY <1>1, Invariance, PTL


-----------------------------------------------------------------------------
(* Each step keeps what is known of the renderings *)

LEMMA ReplaceRenders ==
  ASSUME IInv, RInv, NEW s \in Session, Enter(s) \/ Leave(s)
  PROVE RInv'
<1>1. PICK r \in Rid \union {0} : Replaced(s, r)
  BY ReplacedIs DEF IInv
<1>2. /\ current' = r /\ r # current
      /\ disk' = disk /\ rendered' = rendered /\ overtaken' = overtaken /\ cut' = cut
      /\ \A q \in Rid :
           /\ runtimes'[q].init = runtimes[q].init /\ runtimes'[q].prompt = runtimes[q].prompt
           /\ runtimes'[q].writes = runtimes[q].writes
           /\ \A t \in Turn : runtimes'[q].blocks[t] = runtimes[q].blocks[t]
           /\ q # r => runtimes'[q].session = runtimes[q].session
           /\ q # r /\ Open(q) => Open(q)'
      /\ \A x \in calls' : x.aborted
  <2>1. \A q \in Rid : q # r /\ Open(q) => Open(q)'
    BY <1>1 DEF Replaced, Open
  <2> QED BY <1>1, <2>1 DEF Replaced
<1>3. r # 0 => /\ runtimes'[r].session = s /\ runtimes[r].init = "ledger" /\ runtimes[r].prompt = 0
               /\ runtimes[r].writes = {} /\ \A t \in Turn : runtimes[r].blocks[t] = None
  BY <1>1 DEF Replaced
<1>4. 0 \notin Rid
  BY Typed DEF IInv
<1>5. ASSUME NEW x \in calls'
      PROVE \E c \in calls :
              /\ x.runtime = c.runtime /\ x.turn = c.turn /\ x.at = c.at /\ x.fresh = c.fresh
              /\ c.runtime # r /\ c.runtime \in Rid /\ Of(x)' = Of(c)
  <2>1. PICK c \in calls : x.runtime = c.runtime /\ x.turn = c.turn /\ x.at = c.at /\ x.fresh = c.fresh
    BY <1>1 DEF Replaced
  <2>2. c.runtime # r /\ c.runtime \in Rid
    BY <1>1, <1>4, Typed DEF IInv, CallsBegun, Replaced
  <2> QED BY <1>2, <2>1, <2>2 DEF Of
<1>6. Awaited'
  BY <1>2, <1>5 DEF RInv, Awaited
<1>7. AwaitedPrompts'
  BY <1>2, <1>5 DEF AwaitedPrompts
<1>8. OneBlock'
  <2>1. ASSUME NEW u \in Session, NEW t \in Turn \ overtaken[u], NEW q \in Rid,
               runtimes'[q].session = u, runtimes'[q].blocks[t] # None
        PROVE /\ disk[u][t] \in {None, runtimes'[q].blocks[t]}
              /\ \A p \in Rid : runtimes'[p].session = u =>
                   runtimes'[p].blocks[t] \in {None, runtimes'[q].blocks[t]}
    <3>1. q # r /\ runtimes[q].session = u /\ runtimes'[q].blocks[t] = runtimes[q].blocks[t]
      BY <1>2, <1>3, <1>4, <2>1
    <3>2. /\ disk[u][t] \in {None, runtimes[q].blocks[t]}
          /\ \A p \in Rid : runtimes[p].session = u =>
               runtimes[p].blocks[t] \in {None, runtimes[q].blocks[t]}
      BY <2>1, <3>1 DEF RInv, OneBlock
    <3>3. ASSUME NEW p \in Rid, runtimes'[p].session = u
          PROVE runtimes'[p].blocks[t] \in {None, runtimes'[q].blocks[t]}
      BY <1>2, <1>3, <1>4, <3>1, <3>2, <3>3
    <3> QED BY <3>1, <3>2, <3>3
  <2> QED BY <1>2, <2>1 DEF OneBlock
<1>9. BlocksHeld'
  <2>1. ASSUME NEW q \in Rid, NEW t \in Turn, runtimes'[q].blocks[t] # None
        PROVE \/ t \in runtimes'[q].writes
              \/ disk[runtimes'[q].session][t] # None
              \/ runtimes'[q].session \in cut
    <3>1. q # r /\ runtimes[q].blocks[t] # None
      BY <1>2, <1>3, <1>4, <2>1
    <3> QED BY <1>2, <3>1 DEF RInv, BlocksHeld
  <2> QED BY <1>2, <2>1 DEF BlocksHeld
<1>10. Alone'
  BY <1>2, <1>3 DEF Alone
<1>11. RenderedHere'
  <2>1. CASE r = 0
    BY <1>2, <2>1 DEF RenderedHere, CurrentFor
  <2>2. CASE r # 0
    <3>1. r \in Rid /\ runtimes'[r].init = "ledger" /\ runtimes'[r].prompt = 0
      BY <1>2, <1>3, <2>2
    <3>2. \A x \in calls' : x.runtime # r
      BY <1>5
    <3>3. \A t \in Turn : t # 0
      BY DEF Turn
    <3> QED BY <1>2, <3>1, <3>2, <3>3 DEF RenderedHere
  <2> QED BY <2>1, <2>2
<1>12. RenderedWithout'
  <2>1. ASSUME NEW u \in Session, NEW t \in Turn, NoBlock(u, t) PROVE NoBlock(u, t)'
    <3>1. ASSUME NEW q \in Rid, runtimes'[q].session = u PROVE runtimes'[q].blocks[t] = None
      BY <1>2, <1>3, <1>4, <2>1, <3>1 DEF NoBlock
    <3> QED BY <1>2, <2>1, <3>1 DEF NoBlock
  <2>2. ASSUME NEW u \in Session \ cut, NEW t \in Turn \ overtaken[u],
               rendered[u][t] # None, rendered[u][t].block = None
        PROVE /\ NoBlock(u, t)'
              /\ \A q \in Rid : runtimes'[q].session = u => runtimes'[q].prompt # t
              /\ \A x \in calls' : Of(x)' = u => ~ (x.at = "search" /\ x.fresh /\ x.turn = t)
    <3>1. /\ NoBlock(u, t)
          /\ \A q \in Rid : runtimes[q].session = u => runtimes[q].prompt # t
          /\ \A c \in calls : Of(c) = u => ~ (c.at = "search" /\ c.fresh /\ c.turn = t)
      BY <2>2 DEF RInv, RenderedWithout
    <3>2. t # 0
      BY DEF Turn
    <3> QED BY <1>2, <1>3, <1>4, <1>5, <2>1, <3>1, <3>2
  <2> QED BY <1>2, <2>2 DEF RenderedWithout
<1>13. RenderedWith'
  <2>1. ASSUME NEW u \in Session \ cut, NEW t \in Turn \ overtaken[u],
               rendered[u][t] # None, rendered[u][t].block # None
        PROVE \/ disk[u][t] = rendered[u][t].block
              \/ \E q \in Rid : /\ runtimes'[q].session = u /\ t \in runtimes'[q].writes
                                /\ runtimes'[q].blocks[t] = rendered[u][t].block
    <3>1. CASE disk[u][t] = rendered[u][t].block
      BY <3>1
    <3>2. CASE \E q \in Rid : /\ runtimes[q].session = u /\ t \in runtimes[q].writes
                              /\ runtimes[q].blocks[t] = rendered[u][t].block
      <4>1. PICK q \in Rid : /\ runtimes[q].session = u /\ t \in runtimes[q].writes
                             /\ runtimes[q].blocks[t] = rendered[u][t].block
        BY <3>2
      <4>2. q # r
        BY <1>3, <1>4, <4>1
      <4> QED BY <1>2, <4>1, <4>2
    <3> QED BY <2>1, <3>1, <3>2 DEF RInv, RenderedWith
  <2> QED BY <1>2, <2>1 DEF RenderedWith
<1> QED BY <1>6, <1>7, <1>8, <1>9, <1>10, <1>11, <1>12, <1>13 DEF RInv


LEMMA PromptSetRenders ==
  ASSUME IInv, RInv, NEW s \in Session, NEW p \in 0..MaxTurns, PromptSet(s, p),
         \A u \in Session : overtaken[u] \subseteq overtaken'[u],
         p # 0 => \A c \in calls : c.runtime = current /\ c.at = "ready" => c.turn \in overtaken'[s],
         \A t \in Turn : rendered[s][t] # None => t # p
  PROVE RInv'
<1>1. /\ current \in Rid /\ current' = current /\ runtimes[current].session = s
      /\ disk' = disk /\ rendered' = rendered /\ cut' = cut
      /\ \A q \in Rid :
           /\ runtimes'[q].session = runtimes[q].session /\ runtimes'[q].phase = runtimes[q].phase
           /\ runtimes'[q].init = runtimes[q].init
           /\ runtimes'[q].prompt = IF q = current THEN p ELSE runtimes[q].prompt
           /\ runtimes'[q].writes = runtimes[q].writes /\ runtimes'[q].blocks = runtimes[q].blocks
           /\ Open(q)' <=> Open(q)
  BY DEF PromptSet, Open
<1>2. ASSUME NEW x \in calls'
      PROVE \E c \in calls :
              /\ x.runtime = c.runtime /\ x.turn = c.turn /\ x.at = c.at /\ x.aborted
              /\ x.fresh => c.fresh /\ c.runtime # current
              /\ c.runtime \in Rid /\ Of(x)' = Of(c)
  <2>1. PICK c \in calls :
              /\ x.runtime = c.runtime /\ x.turn = c.turn /\ x.at = c.at /\ x.aborted
              /\ c.runtime = current => x.fresh = FALSE
              /\ c.runtime # current => x.fresh = c.fresh
              /\ c.runtime \in Rid /\ Of(x)' = Of(c)
    BY DEF PromptSet
  <2> QED BY <2>1
<1>3. Awaited'
  <2>1. ASSUME NEW x \in calls'
        PROVE x.aborted /\ (x.at = "search" /\ x.fresh => Open(x.runtime)')
    <3>1. PICK c \in calls : /\ x.runtime = c.runtime /\ x.at = c.at /\ x.aborted
                             /\ x.fresh => c.fresh /\ c.runtime # current
                             /\ c.runtime \in Rid
      BY <1>2
    <3>2. c.at = "search" /\ c.fresh => Open(c.runtime)
      BY DEF RInv, Awaited
    <3> QED BY <1>1, <3>1, <3>2
  <2> QED BY <2>1 DEF Awaited
<1>4. AwaitedPrompts'
  <2>1. ASSUME NEW x \in calls', x.runtime = current, x.turn \notin overtaken'[Of(x)']
        PROVE ~ (x.at = "ready" /\ Pending(x)' # 0) /\ ~ (x.at = "search" /\ x.fresh)
    <3>1. PICK c \in calls : /\ x.runtime = c.runtime /\ x.turn = c.turn /\ x.at = c.at
                             /\ x.fresh => c.fresh /\ c.runtime # current
                             /\ Of(x)' = Of(c)
      BY <1>2
    <3>2. Of(c) = s
      BY <1>1, <2>1, <3>1 DEF Of
    <3>3. Pending(x)' = p
      BY <1>1, <2>1 DEF Pending
    <3> QED BY <2>1, <3>1, <3>2, <3>3
  <2> QED BY <1>1, <1>2, <2>1 DEF AwaitedPrompts
<1>5. OneBlock'
  BY <1>1 DEF RInv, OneBlock
<1>6. BlocksHeld'
  BY <1>1 DEF RInv, BlocksHeld
<1>7. Alone'
  <2>1. ASSUME current' # 0, runtimes'[current'].init # "ledger",
               runtimes'[current'].session \notin cut'
        PROVE /\ \A q \in Rid \ {current} :
                   runtimes'[q].session = s => ~ Open(q)' /\ runtimes'[q].writes = {}
              /\ \A t \in Turn \ overtaken[s] : disk[s][t] # None => runtimes'[current].blocks[t] # None
    BY <1>1, <2>1 DEF RInv, Alone
  <2>2. \A t \in Turn \ overtaken'[s] : t \in Turn \ overtaken[s]
    OBVIOUS
  <2> QED BY <1>1, <2>1, <2>2 DEF Alone
<1>8. RenderedHere'
  <2>1. ASSUME NEW u \in Session, NEW t \in Turn \ overtaken'[u], rendered[u][t] # None, CurrentFor(u)'
        PROVE /\ runtimes'[current].init # "ledger" =>
                   rendered[u][t].block = runtimes'[current].blocks[t]
              /\ runtimes'[current].prompt # t
              /\ \A x \in calls' : ~ (/\ x.runtime = current /\ x.at = "search"
                                      /\ x.fresh /\ x.turn = t)
    <3>1. CurrentFor(u) /\ u = s /\ t \in Turn \ overtaken[u]
      BY <1>1, <2>1 DEF CurrentFor
    <3>2. runtimes[current].init # "ledger" => rendered[u][t].block = runtimes[current].blocks[t]
      BY <2>1, <3>1 DEF RInv, RenderedHere
    <3>3. runtimes'[current].prompt # t
      BY <1>1, <2>1, <3>1
    <3>4. \A x \in calls' : x.runtime = current => ~ x.fresh
      BY <1>2
    <3> QED BY <1>1, <3>2, <3>3, <3>4
  <2> QED BY <1>1, <2>1 DEF RenderedHere
<1>9. RenderedWithout'
  <2>1. ASSUME NEW u \in Session \ cut, NEW t \in Turn \ overtaken'[u],
               rendered[u][t] # None, rendered[u][t].block = None
        PROVE /\ NoBlock(u, t)'
              /\ \A q \in Rid : runtimes'[q].session = u => runtimes'[q].prompt # t
              /\ \A x \in calls' : Of(x)' = u => ~ (x.at = "search" /\ x.fresh /\ x.turn = t)
    <3>1. /\ NoBlock(u, t)
          /\ \A q \in Rid : runtimes[q].session = u => runtimes[q].prompt # t
          /\ \A c \in calls : Of(c) = u => ~ (c.at = "search" /\ c.fresh /\ c.turn = t)
      BY <2>1 DEF RInv, RenderedWithout
    <3>2. NoBlock(u, t)'
      BY <1>1, <3>1 DEF NoBlock
    <3>3. \A q \in Rid : runtimes'[q].session = u => runtimes'[q].prompt # t
      BY <1>1, <2>1, <3>1
    <3>4. ASSUME NEW x \in calls', Of(x)' = u PROVE ~ (x.at = "search" /\ x.fresh /\ x.turn = t)
      BY <1>2, <3>1, <3>4
    <3> QED BY <3>2, <3>3, <3>4
  <2> QED BY <1>1, <2>1 DEF RenderedWithout
<1>10. RenderedWith'
  BY <1>1 DEF RInv, RenderedWith
<1> QED BY <1>3, <1>4, <1>5, <1>6, <1>7, <1>8, <1>9, <1>10 DEF RInv

LEMMA BeforeAgentStartRenders ==
  ASSUME IInv, RInv, NEW s \in Session, BeforeAgentStart(s)
  PROVE RInv'
<1>1. PICK p \in 1..MaxTurns : p = turn[s] + 1
  BY Typed DEF BeforeAgentStart, IInv
<1>2. PromptSet(s, p) /\ p \in 0..MaxTurns
  <2>1. /\ TypeOK /\ CurrentFor(s) /\ p \in 0..MaxTurns
        /\ runtimes' = [runtimes EXCEPT ![current].prompt = p]
        /\ calls' = {[c EXCEPT !.aborted = TRUE] : c \in Stale(current, calls)}
        /\ UNCHANGED <<current, disk, rendered, cut, faults>>
    BY <1>1, Typed DEF BeforeAgentStart, IInv
  <2> QED BY ONLY <2>1, PromptSetIs, s \in Session
<1>3. /\ \A u \in Session : overtaken[u] \subseteq overtaken'[u]
      /\ \A c \in calls : c.runtime = current /\ c.at = "ready" => c.turn \in overtaken'[s]
  <2>1. PICK ready \in SUBSET Turn :
          ready = {c.turn : c \in {d \in calls : d.runtime = current /\ d.at = "ready"}}
    BY Typed DEF IInv
  <2>2. overtaken' = [overtaken EXCEPT ![s] = @ \union ready] /\ overtaken \in [Session -> SUBSET Turn]
    BY <2>1 DEF BeforeAgentStart, IInv, TypeOK
  <2>3. \A u \in Session : overtaken[u] \subseteq overtaken'[u]
    BY <2>2
  <2>4. \A c \in calls : c.runtime = current /\ c.at = "ready" => c.turn \in overtaken'[s]
    BY <2>1, <2>2
  <2> QED BY <2>3, <2>4
<1>4. \A t \in Turn : rendered[s][t] # None => t # p
  BY <1>1, Typed DEF SessionsBegun, IInv
<1> QED BY <1>2, <1>3, <1>4, PromptSetRenders

LEMMA AgentEndRenders ==
  ASSUME IInv, RInv, NEW s \in Session, AgentEnd(s)
  PROVE RInv'
<1>1. PromptSet(s, 0) /\ 0 \in 0..MaxTurns
  <2>1. /\ TypeOK /\ CurrentFor(s) /\ 0 \in 0..MaxTurns
        /\ runtimes' = [runtimes EXCEPT ![current].prompt = 0]
        /\ calls' = {[c EXCEPT !.aborted = TRUE] : c \in Stale(current, calls)}
        /\ UNCHANGED <<current, disk, rendered, cut, faults>>
    BY Typed DEF AgentEnd, IInv, history
  <2> QED BY ONLY <2>1, PromptSetIs, s \in Session
<1>2. \A u \in Session : overtaken[u] \subseteq overtaken'[u]
  BY DEF AgentEnd, history
<1>3. \A t \in Turn : rendered[s][t] # None => t # 0
  BY DEF Turn
<1> QED BY <1>1, <1>2, <1>3, PromptSetRenders

\* Of the renderings, either the session has none left, or the ledger was read whole.
LEMMA LedgerReadWhole ==
  ASSUME TypeOK, Lives, NEW r \in Rid, LoadLedger(r), NEW s \in Session, s = runtimes[r].session
  PROVE \/ \A t \in Turn : rendered'[s][t] = None
        \/ /\ s \notin cut /\ cut' = cut
           /\ \A q \in Rid \ {r} : runtimes[q].session = s => ~ Open(q) /\ runtimes[q].writes = {}
<1> DEFINE late == \E q \in Rid \ {r} : runtimes[q].session = s /\ (Open(q) \/ runtimes[q].writes # {})
<1>1. /\ rendered' = [rendered EXCEPT ![s] = IF late \/ s \in cut THEN Empty ELSE @]
      /\ cut' = IF late THEN cut \union {s} ELSE cut
  BY DEF LoadLedger
<1>2. rendered \in [Session -> [Turn -> Rendering \union {None}]]
  BY DEF TypeOK
<1>3. CASE late \/ s \in cut
  <2>1. rendered'[s] = Empty
    BY <1>1, <1>2, <1>3
  <2> QED BY <2>1 DEF Empty
<1>4. CASE ~ (late \/ s \in cut)
  BY <1>1, <1>4
<1> QED BY <1>3, <1>4

\* The block of the turn that is rendered is the block of the ledger.
LEMMA LoadedAsRendered ==
  ASSUME IInv, RInv, NEW r \in Rid, LedgerRead(r), NEW s \in Session \ cut, s = runtimes[r].session,
         \A q \in Rid \ {r} : runtimes[q].session = s => ~ Open(q) /\ runtimes[q].writes = {},
         NEW t \in Turn \ overtaken[s], rendered[s][t] # None
  PROVE rendered[s][t].block = runtimes'[r].blocks[t]
<1>1. runtimes'[r].blocks[t] = IF disk[s][t] # None THEN disk[s][t] ELSE runtimes[r].blocks[t]
  BY DEF LedgerRead
<1>2. CASE rendered[s][t].block = None
  <2>1. NoBlock(s, t)
    BY <1>2 DEF RInv, RenderedWithout
  <2> QED BY <1>1, <1>2, <2>1 DEF NoBlock
<1>3. CASE rendered[s][t].block # None
  <2>1. CASE disk[s][t] = rendered[s][t].block
    BY <1>1, <1>3, <2>1
  <2>2. CASE \E q \in Rid : /\ runtimes[q].session = s /\ t \in runtimes[q].writes
                            /\ runtimes[q].blocks[t] = rendered[s][t].block
    <3>1. t \in runtimes[r].writes /\ runtimes[r].blocks[t] = rendered[s][t].block
      BY <2>2
    <3>2. disk[s][t] \in {None, runtimes[r].blocks[t]}
      BY <1>3, <3>1 DEF RInv, OneBlock
    <3> QED BY <1>1, <3>1, <3>2
  <2> QED BY <1>3, <2>1, <2>2 DEF RInv, RenderedWith
<1> QED BY <1>2, <1>3


LEMMA LoadLedgerRenders ==
  ASSUME IInv, RInv, NEW r \in Rid, LoadLedger(r)
  PROVE RInv'
<1>1. LedgerRead(r)
  BY LedgerReadIs DEF IInv
<1>2. PICK s \in Session : s = runtimes[r].session
  BY <1>1 DEF LedgerRead
<1>3. /\ current' = current /\ calls' = calls /\ disk' = disk /\ overtaken' = overtaken
      /\ cut \subseteq cut' /\ runtimes[r].init = "ledger"
      /\ \A q \in Rid :
           /\ runtimes'[q].session = runtimes[q].session
           /\ runtimes'[q].prompt = runtimes[q].prompt /\ runtimes'[q].writes = runtimes[q].writes
           /\ Open(q)' <=> Open(q)
           /\ runtimes'[q].init = IF q = r THEN "loaded" ELSE runtimes[q].init
           /\ \A t \in Turn : runtimes'[q].blocks[t] =
                IF q = r /\ disk[s][t] # None THEN disk[s][t] ELSE runtimes[q].blocks[t]
           /\ q # r => runtimes'[q] = runtimes[q]
  BY <1>1, <1>2 DEF LedgerRead, Open
<1>4. \A u \in Session : \A t \in Turn : rendered'[u][t] \in {None, rendered[u][t]}
  BY <1>1 DEF LedgerRead
<1>5. \/ \A t \in Turn : rendered'[s][t] = None
      \/ /\ s \notin cut /\ cut' = cut
         /\ \A q \in Rid \ {r} : runtimes[q].session = s => ~ Open(q) /\ runtimes[q].writes = {}
  BY <1>2, LedgerReadWhole DEF IInv
<1>6. \A c \in calls : c.runtime \in Rid /\ Of(c)' = Of(c) /\ Pending(c)' = Pending(c)
  BY <1>3, Typed DEF IInv, Of, Pending
<1>7. Awaited' /\ AwaitedPrompts'
  BY <1>3, <1>6 DEF RInv, Awaited, AwaitedPrompts
<1>8. OneBlock'
  <2>1. ASSUME NEW u \in Session, NEW t \in Turn \ overtaken[u], NEW q \in Rid,
               runtimes[q].session = u, runtimes[q].blocks[t] # None
        PROVE /\ disk[u][t] \in {None, runtimes[q].blocks[t]}
              /\ \A p \in Rid : runtimes[p].session = u =>
                   runtimes[p].blocks[t] \in {None, runtimes[q].blocks[t]}
    BY <2>1 DEF RInv, OneBlock
  <2>2. ASSUME NEW u \in Session, NEW t \in Turn \ overtaken[u], NEW q \in Rid,
               runtimes'[q].session = u, runtimes'[q].blocks[t] # None
        PROVE /\ disk[u][t] \in {None, runtimes'[q].blocks[t]}
              /\ \A p \in Rid : runtimes'[p].session = u =>
                   runtimes'[p].blocks[t] \in {None, runtimes'[q].blocks[t]}
    <3>1. CASE disk[u][t] = None
      <4>1. ASSUME NEW p \in Rid, runtimes[p].session = u PROVE runtimes'[p].blocks[t] = runtimes[p].blocks[t]
        BY <1>2, <1>3, <3>1, <4>1
      <4> QED BY <1>3, <2>1, <2>2, <3>1, <4>1
    <3>2. CASE disk[u][t] # None
      <4>1. ASSUME NEW p \in Rid, runtimes'[p].session = u PROVE runtimes'[p].blocks[t] \in {None, disk[u][t]}
        <5>1. runtimes[p].session = u /\ t \in Turn
          BY <1>3, <4>1
        <5>2. runtimes[p].blocks[t] \in {None, disk[u][t]}
          BY <2>1, <3>2, <5>1
        <5> QED BY <1>2, <1>3, <5>1, <5>2
      <4>2. runtimes'[q].blocks[t] = disk[u][t]
        BY <2>2, <4>1
      <4> QED BY <4>1, <4>2
    <3> QED BY <3>1, <3>2
  <2> QED BY <1>3, <2>2 DEF OneBlock
<1>9. BlocksHeld'
  <2>1. ASSUME NEW q \in Rid, NEW t \in Turn, runtimes'[q].blocks[t] # None
        PROVE \/ t \in runtimes'[q].writes
              \/ disk[runtimes'[q].session][t] # None
              \/ runtimes'[q].session \in cut'
    <3>1. CASE q = r /\ disk[s][t] # None
      BY <1>2, <1>3, <3>1
    <3>2. CASE ~ (q = r /\ disk[s][t] # None)
      <4>1. runtimes[q].blocks[t] # None
        BY <1>3, <2>1, <3>2
      <4> QED BY <1>3, <4>1 DEF RInv, BlocksHeld
    <3> QED BY <3>1, <3>2
  <2> QED BY <1>3, <2>1 DEF BlocksHeld
<1>10. Alone'
  <2>1. ASSUME current # 0, runtimes'[current].init # "ledger", runtimes'[current].session \notin cut'
        PROVE LET u == runtimes'[current].session
              IN /\ \A q \in Rid \ {current} :
                      runtimes'[q].session = u => ~ Open(q)' /\ runtimes'[q].writes = {}
                 /\ \A t \in Turn \ overtaken[u] :
                      disk[u][t] # None => runtimes'[current].blocks[t] # None
    <3>1. current \in Rid
      BY <2>1 DEF IInv, TypeOK
    <3>2. CASE current = r
      <4>1. runtimes'[current].session = s /\ s \notin cut'
        BY <1>2, <1>3, <2>1, <3>2
      <4>2. \A q \in Rid \ {r} : runtimes[q].session = s => ~ Open(q) /\ runtimes[q].writes = {}
        <5> DEFINE late == \E q \in Rid \ {r} :
                             runtimes[q].session = s /\ (Open(q) \/ runtimes[q].writes # {})
        <5>1. cut' = IF late THEN cut \union {s} ELSE cut
          BY <1>2 DEF LoadLedger
        <5> QED BY <4>1, <5>1
      <4>3. \A t \in Turn : disk[s][t] # None => runtimes'[r].blocks[t] # None
        BY <1>3
      <4> QED BY <1>3, <3>2, <4>1, <4>2, <4>3
    <3>3. CASE current # r
      <4>1. runtimes'[current] = runtimes[current] /\ runtimes[current].session \notin cut
        BY <1>3, <2>1, <3>1, <3>3
      <4> QED BY <1>3, <2>1, <4>1 DEF RInv, Alone
    <3> QED BY <3>2, <3>3
  <2> QED BY <1>3, <2>1 DEF Alone
<1>11. ASSUME NEW u \in Session, NEW t \in Turn, rendered'[u][t] # None
       PROVE rendered'[u][t] = rendered[u][t] /\ rendered[u][t] # None
  BY <1>4, <1>11
<1>12. RenderedHere'
  <2>1. ASSUME NEW u \in Session, NEW t \in Turn \ overtaken[u], rendered'[u][t] # None, CurrentFor(u)'
        PROVE /\ runtimes'[current].init # "ledger" =>
                   rendered'[u][t].block = runtimes'[current].blocks[t]
              /\ runtimes'[current].prompt # t
              /\ \A c \in calls : ~ (/\ c.runtime = current /\ c.at = "search"
                                     /\ c.fresh /\ c.turn = t)
    <3>1. CurrentFor(u) /\ current \in Rid /\ rendered'[u][t] = rendered[u][t] /\ rendered[u][t] # None
      BY <1>3, <1>11, <2>1 DEF CurrentFor, IInv, TypeOK
    <3>2. /\ runtimes[current].init # "ledger" => rendered[u][t].block = runtimes[current].blocks[t]
          /\ runtimes[current].prompt # t
          /\ \A c \in calls : ~ (/\ c.runtime = current /\ c.at = "search"
                                 /\ c.fresh /\ c.turn = t)
      BY <3>1 DEF RInv, RenderedHere
    <3>3. CASE current = r
      <4>1. u = s
        BY <1>2, <3>1, <3>3 DEF CurrentFor
      <4>2. /\ s \notin cut
            /\ \A q \in Rid \ {r} : runtimes[q].session = s => ~ Open(q) /\ runtimes[q].writes = {}
        BY <1>5, <2>1, <4>1
      <4>3. s \in Session \ cut /\ t \in Turn \ overtaken[s] /\ rendered[s][t] # None
        BY <3>1, <4>1, <4>2
      <4>4. rendered[s][t].block = runtimes'[r].blocks[t]
        BY <1>1, <1>2, <4>2, <4>3, LoadedAsRendered
      <4> QED BY <1>3, <3>1, <3>2, <3>3, <4>1, <4>4
    <3>4. CASE current # r
      BY <1>3, <3>1, <3>2, <3>4
    <3> QED BY <3>3, <3>4
  <2> QED BY <1>3, <2>1 DEF RenderedHere
<1>13. RenderedWithout'
  <2>1. ASSUME NEW u \in Session, NEW t \in Turn, NoBlock(u, t) PROVE NoBlock(u, t)'
    <3>1. ASSUME NEW q \in Rid, runtimes'[q].session = u PROVE runtimes'[q].blocks[t] = None
      BY <1>2, <1>3, <2>1, <3>1 DEF NoBlock
    <3> QED BY <1>3, <2>1, <3>1 DEF NoBlock
  <2>2. ASSUME NEW u \in Session \ cut', NEW t \in Turn \ overtaken[u],
               rendered'[u][t] # None, rendered'[u][t].block = None
        PROVE /\ NoBlock(u, t)'
              /\ \A q \in Rid : runtimes'[q].session = u => runtimes'[q].prompt # t
              /\ \A x \in calls : Of(x)' = u => ~ (x.at = "search" /\ x.fresh /\ x.turn = t)
    <3>1. u \in Session \ cut /\ rendered[u][t] # None /\ rendered[u][t].block = None
      BY <1>3, <1>11, <2>2
    <3>2. /\ NoBlock(u, t)
          /\ \A q \in Rid : runtimes[q].session = u => runtimes[q].prompt # t
          /\ \A c \in calls : Of(c) = u => ~ (c.at = "search" /\ c.fresh /\ c.turn = t)
      BY <3>1 DEF RInv, RenderedWithout
    <3> QED BY <1>3, <1>6, <2>1, <3>2
  <2> QED BY <1>3, <2>2 DEF RenderedWithout
<1>14. RenderedWith'
  <2>1. ASSUME NEW u \in Session \ cut', NEW t \in Turn \ overtaken[u],
               rendered'[u][t] # None, rendered'[u][t].block # None
        PROVE \/ disk[u][t] = rendered'[u][t].block
              \/ \E q \in Rid : /\ runtimes'[q].session = u /\ t \in runtimes'[q].writes
                                /\ runtimes'[q].blocks[t] = rendered'[u][t].block
    <3>1. /\ u \in Session \ cut /\ rendered[u][t] # None /\ rendered[u][t].block # None
          /\ rendered'[u][t] = rendered[u][t]
      BY <1>3, <1>11, <2>1
    <3>2. CASE disk[u][t] = rendered[u][t].block
      BY <3>1, <3>2
    <3>3. CASE \E q \in Rid : /\ runtimes[q].session = u /\ t \in runtimes[q].writes
                              /\ runtimes[q].blocks[t] = rendered[u][t].block
      <4>1. PICK q \in Rid : /\ runtimes[q].session = u /\ t \in runtimes[q].writes
                             /\ runtimes[q].blocks[t] = rendered[u][t].block
        BY <3>3
      <4>2. disk[u][t] \in {None, runtimes[q].blocks[t]}
        BY <3>1, <4>1 DEF RInv, OneBlock
      <4>3. runtimes'[q].blocks[t] = runtimes[q].blocks[t]
        BY <1>2, <1>3, <4>1, <4>2
      <4> QED BY <1>3, <3>1, <4>1, <4>3
    <3> QED BY <3>1, <3>2, <3>3 DEF RInv, RenderedWith
  <2> QED BY <1>3, <2>1 DEF RenderedWith
<1> QED BY <1>7, <1>8, <1>9, <1>10, <1>12, <1>13, <1>14 DEF RInv

LEMMA StartupRenders ==
  ASSUME IInv, RInv, NEW r \in Rid, Startup(r)
  PROVE RInv'
<1>1. StartedUp(r)
  BY StartedUpIs DEF IInv
<1>2. /\ current' = current /\ calls' = calls /\ disk' = disk /\ overtaken' = overtaken
      /\ cut' = cut /\ rendered' = rendered
      /\ \A q \in Rid :
           /\ runtimes'[q].session = runtimes[q].session
           /\ runtimes'[q].prompt = runtimes[q].prompt /\ runtimes'[q].writes = runtimes[q].writes
           /\ runtimes'[q].blocks = runtimes[q].blocks
           /\ Open(q)' <=> Open(q)
           /\ runtimes'[q].init = "ledger" <=> runtimes[q].init = "ledger"
  BY <1>1 DEF StartedUp, Open
<1>3. \A c \in calls : c.runtime \in Rid /\ Of(c)' = Of(c) /\ Pending(c)' = Pending(c)
  BY <1>2, Typed DEF IInv, Of, Pending
<1>4. current # 0 => current \in Rid
  BY DEF IInv, TypeOK
<1>5. Awaited' /\ AwaitedPrompts'
  BY <1>2, <1>3 DEF RInv, Awaited, AwaitedPrompts
<1>6. OneBlock'
  BY <1>2 DEF RInv, OneBlock
<1>7. BlocksHeld'
  BY <1>2 DEF RInv, BlocksHeld
<1>8. Alone'
  BY <1>2, <1>4 DEF RInv, Alone
<1>9. RenderedHere'
  BY <1>2, <1>3, <1>4 DEF RInv, RenderedHere, CurrentFor
<1>10. RenderedWithout'
  <2>1. \A u \in Session : \A t \in Turn : NoBlock(u, t) => NoBlock(u, t)'
    BY <1>2 DEF NoBlock
  <2> QED BY <1>2, <1>3, <2>1 DEF RInv, RenderedWithout
<1>11. RenderedWith'
  BY <1>2 DEF RInv, RenderedWith
<1> QED BY <1>5, <1>6, <1>7, <1>8, <1>9, <1>10, <1>11 DEF RInv

LEMMA ContextCalledRenders ==
  ASSUME IInv, RInv, NEW s \in Session, ContextCalled(s)
  PROVE RInv'
<1>1. PICK x : Called(s, x)
  BY CalledIs DEF IInv
<1>2. calls' = calls \union {x}
      /\ UNCHANGED <<runtimes, current, turn, disk, rendered, overtaken, cut, faults>>
  BY <1>1 DEF Called
<1>3. /\ x.runtime = current /\ x.at = "ready" /\ ~ x.aborted /\ runtimes[current].session = s
      /\ \A c \in calls : runtimes[c.runtime].session = s => c.aborted
  BY <1>1 DEF Called
<1>4. ASSUME NEW c PROVE Of(c)' = Of(c) /\ Pending(c)' = Pending(c)
  BY <1>2 DEF Of, Pending
<1>5. \A c \in calls : c.aborted
  BY <1>3 DEF RInv, Awaited
<1>6. Awaited'
  BY <1>2, <1>3, <1>5 DEF RInv, Awaited, Open
<1>7. AwaitedPrompts'
  BY <1>2, <1>3, <1>4 DEF RInv, AwaitedPrompts
<1>8. OneBlock' /\ BlocksHeld' /\ Alone' /\ RenderedWith'
  BY <1>2 DEF RInv, OneBlock, BlocksHeld, Alone, RenderedWith, Open
<1>9. RenderedHere'
  BY <1>2, <1>3 DEF RInv, RenderedHere, CurrentFor
<1>10. RenderedWithout'
  <2>1. \A u \in Session : \A t \in Turn : NoBlock(u, t) => NoBlock(u, t)'
    BY <1>2 DEF NoBlock
  <2> QED BY <1>2, <1>3, <1>4, <2>1 DEF RInv, RenderedWithout
<1> QED BY <1>6, <1>7, <1>8, <1>9, <1>10 DEF RInv


LEMMA PersistRenders ==
  ASSUME IInv, RInv, NEW r \in Rid, Persist(r)
  PROVE RInv'
<1>1. PICK w : Persisted(r, w)
  BY PersistIs DEF IInv
<1>2. PICK s \in Session : s = runtimes[r].session
  BY <1>1 DEF Persisted
<1>3. /\ current' = current /\ calls' = calls /\ rendered' = rendered /\ overtaken' = overtaken
      /\ cut \subseteq cut' /\ w \in Turn /\ w \in runtimes[r].writes /\ runtimes[r].blocks[w] # None
      /\ \A q \in Rid :
           /\ runtimes'[q].session = runtimes[q].session
           /\ runtimes'[q].init = runtimes[q].init /\ runtimes'[q].prompt = runtimes[q].prompt
           /\ runtimes'[q].writes = IF q = r THEN runtimes[q].writes \ {w} ELSE runtimes[q].writes
           /\ Open(q)' <=> Open(q)
           /\ \A t \in Turn : runtimes'[q].blocks[t] =
                IF q = r /\ t = w /\ ~ Open(r) THEN None ELSE runtimes[q].blocks[t]
  BY <1>1 DEF Persisted, Open
<1>4. /\ \A v \in Session : \A t \in Turn :
            disk'[v][t] # disk[v][t] => /\ v = s /\ t = w /\ disk[v][t] = None
                                        /\ disk'[v][t] = runtimes[r].blocks[w]
      /\ disk'[s][w] # None \/ s \in cut'
  BY <1>1, <1>2 DEF Persisted
<1>5. \A c \in calls : c.runtime \in Rid /\ Of(c)' = Of(c) /\ Pending(c)' = Pending(c)
  BY <1>3, Typed DEF IInv, Of, Pending
<1>6. Awaited' /\ AwaitedPrompts'
  BY <1>3, <1>5 DEF RInv, Awaited, AwaitedPrompts
<1>7. \A t \in Turn \ overtaken[s] : t = w =>
        /\ disk'[s][w] \in {None, runtimes[r].blocks[w]}
        /\ \A q \in Rid : runtimes[q].session = s => runtimes[q].blocks[w] \in {None, runtimes[r].blocks[w]}
  <2>1. ASSUME w \in Turn \ overtaken[s]
        PROVE /\ disk'[s][w] \in {None, runtimes[r].blocks[w]}
              /\ \A q \in Rid : runtimes[q].session = s => runtimes[q].blocks[w] \in {None, runtimes[r].blocks[w]}
    <3>1. /\ disk[s][w] \in {None, runtimes[r].blocks[w]}
          /\ \A q \in Rid : runtimes[q].session = s => runtimes[q].blocks[w] \in {None, runtimes[r].blocks[w]}
      BY <1>2, <1>3, <2>1 DEF RInv, OneBlock
    <3> QED BY <1>3, <1>4, <3>1
  <2> QED BY <2>1
<1>8. OneBlock'
  <2>1. ASSUME NEW u \in Session, NEW t \in Turn \ overtaken[u], NEW q \in Rid,
               runtimes'[q].session = u, runtimes'[q].blocks[t] # None
        PROVE /\ disk'[u][t] \in {None, runtimes'[q].blocks[t]}
              /\ \A p \in Rid : runtimes'[p].session = u =>
                   runtimes'[p].blocks[t] \in {None, runtimes'[q].blocks[t]}
    <3>1. runtimes[q].session = u /\ runtimes'[q].blocks[t] = runtimes[q].blocks[t]
      BY <1>3, <2>1
    <3>2. /\ disk[u][t] \in {None, runtimes[q].blocks[t]}
          /\ \A p \in Rid : runtimes[p].session = u =>
               runtimes[p].blocks[t] \in {None, runtimes[q].blocks[t]}
      BY <2>1, <3>1 DEF RInv, OneBlock
    <3>3. \A p \in Rid : runtimes'[p].session = u =>
            runtimes'[p].blocks[t] \in {None, runtimes'[q].blocks[t]}
      BY <1>3, <3>1, <3>2
    <3>4. disk'[u][t] \in {None, runtimes'[q].blocks[t]}
      <4>1. CASE disk'[u][t] = disk[u][t]
        BY <3>1, <3>2, <4>1
      <4>2. CASE disk'[u][t] # disk[u][t]
        <5>1. u = s /\ t = w /\ disk'[u][t] = runtimes[r].blocks[w]
          BY <1>4, <4>2
        <5>2. runtimes[q].blocks[w] \in {None, runtimes[r].blocks[w]}
          BY <1>7, <2>1, <3>1, <5>1
        <5> QED BY <2>1, <3>1, <5>1, <5>2
      <4> QED BY <4>1, <4>2
    <3> QED BY <3>3, <3>4
  <2> QED BY <1>3, <2>1 DEF OneBlock
<1>9. \A u \in Session : \A t \in Turn : disk[u][t] # None => disk'[u][t] = disk[u][t]
  BY <1>4
<1>10. BlocksHeld'
  <2>1. ASSUME NEW q \in Rid, NEW t \in Turn, runtimes'[q].blocks[t] # None
        PROVE \/ t \in runtimes'[q].writes
              \/ disk'[runtimes'[q].session][t] # None
              \/ runtimes'[q].session \in cut'
    <3>1. /\ runtimes[q].blocks[t] # None /\ runtimes'[q].session = runtimes[q].session
      BY <1>3, <2>1
    <3>2. runtimes[q].session \in Session
      <4>1. runtimes[q].phase # "unborn"
        BY <3>1, UnbornIs DEF IInv, Lives
      <4> QED BY <4>1 DEF IInv, Lives
    <3>3. CASE q = r /\ t = w
      BY <1>2, <1>4, <3>1, <3>3
    <3>4. CASE ~ (q = r /\ t = w)
      <4>1. t \in runtimes[q].writes => t \in runtimes'[q].writes
        BY <1>3, <3>4
      <4>2. \/ t \in runtimes[q].writes
            \/ disk[runtimes[q].session][t] # None
            \/ runtimes[q].session \in cut
        BY <3>1 DEF RInv, BlocksHeld
      <4> QED BY <1>3, <1>9, <3>1, <3>2, <4>1, <4>2
    <3> QED BY <3>3, <3>4
  <2> QED BY <2>1 DEF BlocksHeld
<1>11. Alone'
  <2>1. ASSUME current # 0, runtimes'[current].init # "ledger", runtimes'[current].session \notin cut'
        PROVE LET u == runtimes'[current].session
              IN /\ \A q \in Rid \ {current} :
                      runtimes'[q].session = u => ~ Open(q)' /\ runtimes'[q].writes = {}
                 /\ \A t \in Turn \ overtaken[u] :
                      disk'[u][t] # None => runtimes'[current].blocks[t] # None
    <3>1. current \in Rid /\ Open(current)
      BY <2>1 DEF IInv, TypeOK, Open
    <3>2. PICK u \in Session : u = runtimes[current].session
      BY <3>1 DEF IInv, Lives, Open
    <3>3. runtimes'[current].session = u /\ runtimes[current].init # "ledger" /\ u \notin cut
      BY <1>3, <2>1, <3>1, <3>2
    <3>4. /\ \A q \in Rid \ {current} : runtimes[q].session = u => ~ Open(q) /\ runtimes[q].writes = {}
          /\ \A t \in Turn \ overtaken[u] : disk[u][t] # None => runtimes[current].blocks[t] # None
      BY <2>1, <3>2, <3>3 DEF RInv, Alone
    <3>5. \A q \in Rid \ {current} : runtimes'[q].session = u => ~ Open(q)' /\ runtimes'[q].writes = {}
      BY <1>3, <3>4
    <3>6. ASSUME NEW t \in Turn \ overtaken[u], disk'[u][t] # None
          PROVE runtimes'[current].blocks[t] # None
      <4>1. runtimes'[current].blocks[t] = runtimes[current].blocks[t]
        BY <1>3, <3>1
      <4>2. CASE disk[u][t] # None
        BY <3>4, <4>1, <4>2
      <4>3. CASE disk[u][t] = None
        <5>1. u = s /\ t = w
          BY <1>4, <3>6, <4>3
        <5>2. r = current
          BY <1>2, <1>3, <3>4, <5>1
        <5> QED BY <1>3, <4>1, <5>1, <5>2
      <4> QED BY <4>2, <4>3
    <3> QED BY <3>3, <3>5, <3>6
  <2> QED BY <1>3, <2>1 DEF Alone
<1>12. RenderedHere'
  <2>1. ASSUME NEW u \in Session, NEW t \in Turn \ overtaken[u], rendered[u][t] # None, CurrentFor(u)'
        PROVE /\ runtimes'[current].init # "ledger" =>
                   rendered[u][t].block = runtimes'[current].blocks[t]
              /\ runtimes'[current].prompt # t
              /\ \A c \in calls : ~ (/\ c.runtime = current /\ c.at = "search"
                                     /\ c.fresh /\ c.turn = t)
    <3>1. current \in Rid /\ Open(current) /\ CurrentFor(u)
      BY <1>3, <2>1 DEF CurrentFor, IInv, TypeOK, Open
    <3>2. /\ runtimes[current].init # "ledger" => rendered[u][t].block = runtimes[current].blocks[t]
          /\ runtimes[current].prompt # t
          /\ \A c \in calls : ~ (/\ c.runtime = current /\ c.at = "search"
                                 /\ c.fresh /\ c.turn = t)
      BY <2>1, <3>1 DEF RInv, RenderedHere
    <3> QED BY <1>3, <3>1, <3>2
  <2> QED BY <1>3, <2>1 DEF RenderedHere
<1>13. RenderedWithout'
  <2>1. ASSUME NEW u \in Session, NEW t \in Turn, NoBlock(u, t) PROVE NoBlock(u, t)'
    <3>1. ASSUME NEW q \in Rid, runtimes'[q].session = u PROVE runtimes'[q].blocks[t] = None
      BY <1>3, <2>1, <3>1 DEF NoBlock
    <3>2. disk'[u][t] = None
      BY <1>2, <1>3, <1>4, <2>1 DEF NoBlock
    <3> QED BY <3>1, <3>2 DEF NoBlock
  <2>2. ASSUME NEW u \in Session \ cut', NEW t \in Turn \ overtaken[u],
               rendered[u][t] # None, rendered[u][t].block = None
        PROVE /\ NoBlock(u, t)'
              /\ \A q \in Rid : runtimes'[q].session = u => runtimes'[q].prompt # t
              /\ \A x \in calls : Of(x)' = u => ~ (x.at = "search" /\ x.fresh /\ x.turn = t)
    <3>1. u \in Session \ cut
      BY <1>3
    <3>2. /\ NoBlock(u, t)
          /\ \A q \in Rid : runtimes[q].session = u => runtimes[q].prompt # t
          /\ \A c \in calls : Of(c) = u => ~ (c.at = "search" /\ c.fresh /\ c.turn = t)
      BY <2>2, <3>1 DEF RInv, RenderedWithout
    <3> QED BY <1>3, <1>5, <2>1, <3>2
  <2> QED BY <1>3, <2>2 DEF RenderedWithout
<1>14. RenderedWith'
  <2>1. ASSUME NEW u \in Session \ cut', NEW t \in Turn \ overtaken[u],
               rendered[u][t] # None, rendered[u][t].block # None
        PROVE \/ disk'[u][t] = rendered[u][t].block
              \/ \E q \in Rid : /\ runtimes'[q].session = u /\ t \in runtimes'[q].writes
                                /\ runtimes'[q].blocks[t] = rendered[u][t].block
    <3>1. u \in Session \ cut
      BY <1>3
    <3>2. CASE disk[u][t] = rendered[u][t].block
      BY <1>9, <2>1, <3>2
    <3>3. CASE \E q \in Rid : /\ runtimes[q].session = u /\ t \in runtimes[q].writes
                              /\ runtimes[q].blocks[t] = rendered[u][t].block
      <4>1. PICK q \in Rid : /\ runtimes[q].session = u /\ t \in runtimes[q].writes
                             /\ runtimes[q].blocks[t] = rendered[u][t].block
        BY <3>3
      <4>2. CASE q = r /\ t = w
        <5>1. u = s
          BY <1>2, <4>1, <4>2
        <5>2. disk'[s][w] # None
          BY <1>4, <5>1
        <5>3. disk'[s][w] \in {None, runtimes[r].blocks[w]}
          BY <1>7, <4>2, <5>1
        <5> QED BY <4>1, <4>2, <5>1, <5>2, <5>3
      <4>3. CASE ~ (q = r /\ t = w)
        BY <1>3, <4>1, <4>3
      <4> QED BY <4>2, <4>3
    <3> QED BY <2>1, <3>1, <3>2, <3>3 DEF RInv, RenderedWith
  <2> QED BY <1>3, <2>1 DEF RenderedWith
<1> QED BY <1>6, <1>8, <1>10, <1>11, <1>12, <1>13, <1>14 DEF RInv

LEMMA CloseRenders ==
  ASSUME IInv, RInv, NEW r \in Rid, ShutdownEnds(r) \/ ShutdownDeadline(r)
  PROVE RInv'
<1>1. ClosedDown(r)
  BY CloseIs DEF IInv
<1>2. /\ current' = current /\ disk' = disk /\ rendered' = rendered /\ overtaken' = overtaken
      /\ cut \subseteq cut' /\ r # current
      /\ \A q \in Rid :
           /\ runtimes'[q].session = runtimes[q].session /\ runtimes'[q].writes = runtimes[q].writes
           /\ runtimes'[q].prompt \in {0, runtimes[q].prompt}
           /\ q # r => runtimes'[q] = runtimes[q]
           /\ Open(q)' <=> Open(q) /\ q # r
           /\ \A t \in Turn : /\ runtimes'[q].blocks[t] \in {None, runtimes[q].blocks[t]}
                              /\ t \in runtimes[q].writes => runtimes'[q].blocks[t] = runtimes[q].blocks[t]
                              /\ runtimes'[q].blocks[t] # None /\ q = r => t \in runtimes[q].writes
  <2>1. runtimes[r].phase = "closing"
    BY <1>1 DEF ClosedDown
  <2>2. r # current
    BY <2>1 DEF IInv, TypeOK
  <2> QED BY <1>1, <2>2 DEF ClosedDown, Open
<1>3. ASSUME NEW x \in calls'
      PROVE \E c \in calls :
              /\ x.runtime = c.runtime /\ x.turn = c.turn /\ x.at = c.at
              /\ x.aborted = c.aborted /\ c.runtime \in Rid
              /\ x.fresh => c.fresh /\ c.runtime # r
              /\ Of(x)' = Of(c) /\ x = Outdated(c, r)
              /\ (c.runtime # r => Pending(x)' = Pending(c))
  <2>1. PICK c \in calls :
       /\ x.runtime = c.runtime /\ x.turn = c.turn /\ x.at = c.at /\ x.query = c.query
       /\ x.aborted = c.aborted
       /\ c.runtime = r => x.fresh = FALSE
       /\ c.runtime # r => x.fresh = c.fresh
       /\ c.runtime \in Rid /\ Of(x)' = Of(c) /\ x = Outdated(c, r)
    BY <1>1 DEF ClosedDown
  <2>2. x.fresh => c.fresh /\ c.runtime # r
    BY <2>1
  <2>3. c.runtime # r => Pending(x)' = Pending(c)
    BY <1>2, <2>1 DEF Pending
  <2> QED BY <2>1, <2>2, <2>3
<1>4. Awaited'
  <2>1. ASSUME NEW x \in calls'
        PROVE /\ ~ x.aborted => x.runtime = current
              /\ x.at = "search" /\ x.fresh => Open(x.runtime)'
    BY <1>2, <1>3 DEF RInv, Awaited
  <2>2. ASSUME NEW x \in calls', NEW y \in calls', ~ x.aborted, ~ y.aborted PROVE x = y
    <3>1. PICK c \in calls : x.aborted = c.aborted /\ x = Outdated(c, r)
      BY <1>3
    <3>2. PICK d \in calls : y.aborted = d.aborted /\ y = Outdated(d, r)
      BY <1>3
    <3>3. c = d
      BY <2>2, <3>1, <3>2 DEF RInv, Awaited
    <3> QED BY <3>1, <3>2, <3>3
  <2> QED BY <1>2, <2>1, <2>2 DEF Awaited
<1>5. AwaitedPrompts'
  <2>1. ASSUME NEW x \in calls', x.runtime = current
        PROVE /\ x.turn \notin overtaken[Of(x)'] =>
                   /\ x.at = "ready" /\ Pending(x)' # 0 => ~ x.aborted
                   /\ x.at = "search" /\ x.fresh => ~ x.aborted
              /\ x.at = "search" /\ Pending(x)' # 0 => x.aborted
    <3>1. PICK c \in calls :
              /\ x.runtime = c.runtime /\ x.turn = c.turn /\ x.at = c.at
              /\ x.fresh => c.fresh
              /\ x.aborted = c.aborted
              /\ Of(x)' = Of(c) /\ Pending(x)' = Pending(c)
      BY <1>2, <1>3, <2>1
    <3> QED BY <2>1, <3>1 DEF RInv, AwaitedPrompts
  <2> QED BY <1>2, <2>1 DEF AwaitedPrompts
<1>6. OneBlock'
  <2>1. ASSUME NEW u \in Session, NEW t \in Turn \ overtaken[u], NEW q \in Rid,
               runtimes'[q].session = u, runtimes'[q].blocks[t] # None
        PROVE /\ disk[u][t] \in {None, runtimes'[q].blocks[t]}
              /\ \A p \in Rid : runtimes'[p].session = u =>
                   runtimes'[p].blocks[t] \in {None, runtimes'[q].blocks[t]}
    <3>1. runtimes[q].session = u /\ runtimes'[q].blocks[t] = runtimes[q].blocks[t]
      BY <1>2, <2>1
    <3>2. /\ disk[u][t] \in {None, runtimes[q].blocks[t]}
          /\ \A p \in Rid : runtimes[p].session = u =>
               runtimes[p].blocks[t] \in {None, runtimes[q].blocks[t]}
      BY <2>1, <3>1 DEF RInv, OneBlock
    <3> QED BY <1>2, <3>1, <3>2
  <2> QED BY <1>2, <2>1 DEF OneBlock
<1>7. BlocksHeld'
  <2>1. ASSUME NEW q \in Rid, NEW t \in Turn, runtimes'[q].blocks[t] # None
        PROVE \/ t \in runtimes'[q].writes
              \/ disk[runtimes'[q].session][t] # None
              \/ runtimes'[q].session \in cut'
    <3>1. runtimes[q].blocks[t] # None
      BY <1>2, <2>1
    <3> QED BY <1>2, <2>1, <3>1 DEF RInv, BlocksHeld
  <2> QED BY <1>2, <2>1 DEF BlocksHeld
<1>8. Alone'
  <2>1. ASSUME current # 0, runtimes'[current].init # "ledger", runtimes'[current].session \notin cut'
        PROVE LET u == runtimes'[current].session
              IN /\ \A q \in Rid \ {current} :
                      runtimes'[q].session = u => ~ Open(q)' /\ runtimes'[q].writes = {}
                 /\ \A t \in Turn \ overtaken[u] :
                      disk[u][t] # None => runtimes'[current].blocks[t] # None
    <3>1. runtimes'[current] = runtimes[current] /\ runtimes[current].session \notin cut
      BY <1>2, <2>1 DEF IInv, TypeOK
    <3> QED BY <1>2, <2>1, <3>1 DEF RInv, Alone
  <2> QED BY <1>2, <2>1 DEF Alone
<1>9. RenderedHere'
  <2>1. ASSUME NEW u \in Session, NEW t \in Turn \ overtaken[u], rendered[u][t] # None, CurrentFor(u)'
        PROVE /\ runtimes'[current].init # "ledger" =>
                   rendered[u][t].block = runtimes'[current].blocks[t]
              /\ runtimes'[current].prompt # t
              /\ \A x \in calls' : ~ (/\ x.runtime = current /\ x.at = "search"
                                      /\ x.fresh /\ x.turn = t)
    <3>1. current \in Rid /\ CurrentFor(u) /\ runtimes'[current] = runtimes[current]
      BY <1>2, <2>1 DEF CurrentFor, IInv, TypeOK
    <3>2. /\ runtimes[current].init # "ledger" => rendered[u][t].block = runtimes[current].blocks[t]
          /\ runtimes[current].prompt # t
          /\ \A c \in calls : ~ (/\ c.runtime = current /\ c.at = "search"
                                 /\ c.fresh /\ c.turn = t)
      BY <2>1, <3>1 DEF RInv, RenderedHere
    <3>3. ASSUME NEW x \in calls'
          PROVE ~ (x.runtime = current /\ x.at = "search" /\ x.fresh /\ x.turn = t)
      BY <1>3, <3>2
    <3> QED BY <3>1, <3>2, <3>3
  <2> QED BY <1>2, <2>1 DEF RenderedHere
<1>10. RenderedWithout'
  <2>1. ASSUME NEW u \in Session, NEW t \in Turn, NoBlock(u, t) PROVE NoBlock(u, t)'
    BY <1>2, <2>1 DEF NoBlock
  <2>2. ASSUME NEW u \in Session \ cut', NEW t \in Turn \ overtaken[u],
               rendered[u][t] # None, rendered[u][t].block = None
        PROVE /\ NoBlock(u, t)'
              /\ \A q \in Rid : runtimes'[q].session = u => runtimes'[q].prompt # t
              /\ \A x \in calls' : Of(x)' = u => ~ (x.at = "search" /\ x.fresh /\ x.turn = t)
    <3>1. u \in Session \ cut /\ t # 0
      BY <1>2 DEF Turn
    <3>2. /\ NoBlock(u, t)
          /\ \A q \in Rid : runtimes[q].session = u => runtimes[q].prompt # t
          /\ \A c \in calls : Of(c) = u => ~ (c.at = "search" /\ c.fresh /\ c.turn = t)
      BY <2>2, <3>1 DEF RInv, RenderedWithout
    <3>3. \A q \in Rid : runtimes'[q].session = u => runtimes'[q].prompt # t
      BY <1>2, <3>1, <3>2
    <3>4. ASSUME NEW x \in calls', Of(x)' = u PROVE ~ (x.at = "search" /\ x.fresh /\ x.turn = t)
      BY <1>3, <3>2, <3>4
    <3> QED BY <2>1, <3>2, <3>3, <3>4
  <2> QED BY <1>2, <2>2 DEF RenderedWithout
<1>11. RenderedWith'
  <2>1. ASSUME NEW u \in Session \ cut', NEW t \in Turn \ overtaken[u],
               rendered[u][t] # None, rendered[u][t].block # None
        PROVE \/ disk[u][t] = rendered[u][t].block
              \/ \E q \in Rid : /\ runtimes'[q].session = u /\ t \in runtimes'[q].writes
                                /\ runtimes'[q].blocks[t] = rendered[u][t].block
    <3>1. u \in Session \ cut
      BY <1>2
    <3>2. CASE disk[u][t] = rendered[u][t].block
      BY <3>2
    <3>3. CASE \E q \in Rid : /\ runtimes[q].session = u /\ t \in runtimes[q].writes
                              /\ runtimes[q].blocks[t] = rendered[u][t].block
      BY <1>2, <3>3
    <3> QED BY <2>1, <3>1, <3>2, <3>3 DEF RInv, RenderedWith
  <2> QED BY <1>2, <2>1 DEF RenderedWith
<1> QED BY <1>4, <1>5, <1>6, <1>7, <1>8, <1>9, <1>10, <1>11 DEF RInv

LEMMA CrashRenders ==
  ASSUME IInv, RInv, Crash
  PROVE RInv'
<1>1. Crashed
  BY CrashIs DEF IInv
<1>2. /\ current' = 0 /\ calls' = {} /\ disk' = disk /\ rendered' = rendered /\ overtaken' = overtaken
      /\ cut \subseteq cut'
      /\ \A q \in Rid : /\ runtimes'[q].session = runtimes[q].session /\ runtimes'[q].prompt = 0
                        /\ \A t \in Turn : runtimes'[q].blocks[t] = None
                        /\ runtimes[q].writes # {} => runtimes[q].session \in cut'
  BY <1>1 DEF Crashed
<1>3. Awaited' /\ AwaitedPrompts' /\ Alone'
  BY <1>2 DEF Awaited, AwaitedPrompts, Alone
<1>4. OneBlock' /\ BlocksHeld'
  BY <1>2 DEF OneBlock, BlocksHeld
<1>5. RenderedHere'
  BY <1>2 DEF RenderedHere, CurrentFor
<1>6. RenderedWithout'
  <2>1. ASSUME NEW u \in Session \ cut', NEW t \in Turn \ overtaken[u],
               rendered[u][t] # None, rendered[u][t].block = None
        PROVE NoBlock(u, t)' /\ t # 0
    <3>1. NoBlock(u, t)
      BY <1>2, <2>1 DEF RInv, RenderedWithout
    <3> QED BY <1>2, <3>1 DEF NoBlock, Turn
  <2> QED BY <1>2, <2>1 DEF RenderedWithout
<1>7. RenderedWith'
  <2>1. ASSUME NEW u \in Session \ cut', NEW t \in Turn \ overtaken[u],
               rendered[u][t] # None, rendered[u][t].block # None
        PROVE disk[u][t] = rendered[u][t].block
    BY <1>2, <2>1 DEF RInv, RenderedWith
  <2> QED BY <1>2, <2>1 DEF RenderedWith
<1> QED BY <1>3, <1>4, <1>5, <1>6, <1>7 DEF RInv


LEMMA StutterRenders ==
  ASSUME IInv, RInv, UNCHANGED vars
  PROVE RInv'
<1>1. UNCHANGED <<runtimes, current, calls, turn, disk, rendered, overtaken, cut, faults>>
  BY DEF vars
<1>2. \A c : Of(c)' = Of(c) /\ Pending(c)' = Pending(c)
  BY <1>1 DEF Of, Pending
<1>3. \A s, t : NoBlock(s, t)' <=> NoBlock(s, t)
  BY <1>1 DEF NoBlock
<1>4. Awaited' /\ AwaitedPrompts'
  BY <1>1, <1>2 DEF RInv, Awaited, AwaitedPrompts, Open
<1>5. OneBlock' /\ BlocksHeld' /\ Alone'
  BY <1>1 DEF RInv, OneBlock, BlocksHeld, Alone, Open
<1>6. RenderedHere' /\ RenderedWith'
  BY <1>1 DEF RInv, RenderedHere, RenderedWith, CurrentFor
<1>7. RenderedWithout'
  BY <1>1, <1>2, <1>3 DEF RInv, RenderedWithout
<1> QED BY <1>4, <1>5, <1>6, <1>7 DEF RInv

LEMMA InitiallyRenders ==
  ASSUME Init
  PROVE RInv
<1>1. \A q \in Rid : \A t \in Turn : runtimes[q].blocks[t] = None
  BY UnbornIs DEF Init
<1>2. \A s \in Session : \A t \in Turn : rendered[s][t] = None
  BY DEF Init, Empty
<1>3. calls = {} /\ current = 0
  BY DEF Init
<1>4. Awaited /\ AwaitedPrompts /\ Alone
  BY <1>3 DEF Awaited, AwaitedPrompts, Alone
<1>5. OneBlock /\ BlocksHeld
  BY <1>1 DEF OneBlock, BlocksHeld
<1>6. RenderedHere /\ RenderedWithout /\ RenderedWith
  BY <1>2 DEF RenderedHere, RenderedWithout, RenderedWith
<1> QED BY <1>4, <1>5, <1>6 DEF RInv

\* What the current runtime gives for a turn nobody searches for is settled.
LEMMA SettledIs ==
  ASSUME IInv', Awaited', OneBlock', BlocksHeld', Alone',
         NEW u \in Session, NEW t \in Turn, t \notin overtaken'[u],
         CurrentFor(u)', runtimes'[current'].init # "ledger", runtimes'[current'].prompt = 0,
         \A x \in calls' : ~ (/\ x.runtime = current' /\ x.at = "search"
                              /\ x.fresh /\ x.turn = t),
         rendered'[u][t].block = runtimes'[current'].blocks[t],
         u \notin cut'
  PROVE /\ rendered'[u][t].block = None =>
             /\ NoBlock(u, t)'
             /\ \A q \in Rid : runtimes'[q].session = u => runtimes'[q].prompt # t
             /\ \A x \in calls' : Of(x)' = u => ~ (x.at = "search" /\ x.fresh /\ x.turn = t)
        /\ rendered'[u][t].block # None =>
             \/ disk'[u][t] = rendered'[u][t].block
             \/ \E q \in Rid : /\ runtimes'[q].session = u /\ t \in runtimes'[q].writes
                               /\ runtimes'[q].blocks[t] = rendered'[u][t].block
<1>1. PICK r \in Rid : r = current' /\ runtimes'[r].session = u
  BY DEF CurrentFor, IInv, TypeOK
<1>2. r # 0 /\ t # 0
  BY DEF Rid, Turn
<1>3. /\ \A q \in Rid \ {r} : runtimes'[q].session = u => ~ Open(q)' /\ runtimes'[q].writes = {}
      /\ disk'[u][t] # None => runtimes'[r].blocks[t] # None
  BY <1>1, <1>2 DEF Alone
<1>4. ASSUME NEW q \in Rid, q # r, runtimes'[q].session = u
      PROVE runtimes'[q].prompt = 0 /\ runtimes'[q].blocks[t] = None
  BY <1>3, <1>4 DEF IInv, Lives
<1>5. CASE rendered'[u][t].block = None
  <2>1. NoBlock(u, t)'
    BY <1>1, <1>3, <1>4, <1>5 DEF NoBlock
  <2>2. \A q \in Rid : runtimes'[q].session = u => runtimes'[q].prompt # t
    BY <1>1, <1>2, <1>4
  <2>3. ASSUME NEW x \in calls', Of(x)' = u, x.at = "search", x.fresh, x.turn = t PROVE FALSE
    <3>1. x.runtime \in Rid /\ runtimes'[x.runtime].session = u
      BY <2>3 DEF IInv, TypeOK, Call, Of
    <3>2. Open(x.runtime)'
      BY <2>3 DEF Awaited
    <3>3. x.runtime = r
      BY <1>3, <3>1, <3>2
    <3> QED BY <1>1, <2>3, <3>3
  <2> QED BY <1>5, <2>1, <2>2, <2>3
<1>6. CASE rendered'[u][t].block # None
  <2>1. \/ t \in runtimes'[r].writes
        \/ disk'[u][t] # None
    BY <1>1, <1>6 DEF BlocksHeld
  <2>2. disk'[u][t] \in {None, runtimes'[r].blocks[t]}
    BY <1>1, <1>6 DEF OneBlock
  <2> QED BY <1>1, <1>6, <2>1, <2>2
<1> QED BY <1>5, <1>6


LEMMA TakePromptRenders ==
  ASSUME IInv, RInv, NEW c \in calls, TakePrompt(c)
  PROVE RInv'
<1>1. PICK r \in Rid : r = c.runtime
  BY Typed DEF IInv
<1>2. /\ Taken(r)
      /\ \/ Answered(c, runtimes[r])
         \/ /\ rendered' = rendered
            /\ \E x : \E p \in Turn : Searches(c, x, p)
  BY <1>1, TakePromptIs DEF IInv
<1>3. c.at = "ready" /\ UNCHANGED <<current, turn, disk, overtaken, cut, faults>>
  BY DEF TakePrompt
<1>4. IInv'
  BY TakePromptKeeps
<1>5. \A q \in Rid :
        /\ runtimes'[q].session = runtimes[q].session /\ runtimes'[q].init = runtimes[q].init
        /\ runtimes'[q].prompt \in {0, runtimes[q].prompt}
        /\ q = r => runtimes'[q].prompt = 0
        /\ runtimes'[q].writes = runtimes[q].writes /\ runtimes'[q].blocks = runtimes[q].blocks
        /\ Open(q)' <=> Open(q)
  BY <1>2 DEF Taken, Open
<1>6. ASSUME NEW y \in calls
      PROVE y.runtime \in Rid /\ Of(y)' = Of(y) /\ Pending(y)' \in {0, Pending(y)}
  <2>1. y.runtime \in Rid
    BY Typed DEF IInv
  <2> QED BY <1>5, <2>1 DEF Of, Pending
<1>7. current # 0 => current \in Rid
  BY DEF IInv, TypeOK
<1>8. ASSUME NEW x \in calls', x \notin calls
      PROVE /\ x.runtime = r /\ x.turn = c.turn /\ x.at = "search" /\ x.fresh = TRUE
            /\ x.aborted = c.aborted /\ Of(x)' = Of(c) /\ Pending(x)' = 0
            /\ rendered' = rendered /\ calls' = (calls \ {c}) \union {x}
            /\ Pending(c) # 0
            /\ c.turn \notin overtaken[Of(c)] => runtimes[r].prompt = c.turn
  <2>1. ~ Answered(c, runtimes[r])
    BY <1>8 DEF Answered
  <2>2. PICK z : \E p \in Turn : Searches(c, z, p)
    BY <1>2, <2>1
  <2>3. PICK p \in Turn : Searches(c, z, p)
    BY <2>2
  <2>4. x = z
    BY <1>8, <2>3 DEF Searches
  <2>5. /\ x.runtime = r /\ x.turn = c.turn /\ x.at = "search" /\ x.fresh = TRUE
        /\ x.aborted = c.aborted /\ calls' = (calls \ {c}) \union {x}
        /\ runtimes[r].prompt # 0
    BY <1>1, <2>3, <2>4 DEF Searches
  <2>6. Of(x)' = Of(c) /\ Pending(x)' = 0 /\ Pending(c) = runtimes[r].prompt
    BY <1>1, <1>5, <2>5 DEF Of, Pending
  <2>7. c.turn \notin overtaken[Of(c)] => Pending(c) = c.turn
    BY <1>3, <2>5, <2>6 DEF IInv, Prompts
  <2> QED BY <1>2, <2>1, <2>5, <2>6, <2>7
<1>9. Awaited'
  <2>1. ASSUME NEW x \in calls'
        PROVE /\ ~ x.aborted => x.runtime = current
              /\ x.at = "search" /\ x.fresh => Open(x.runtime)'
    <3>1. CASE x \in calls
      BY <1>5, <1>6, <3>1 DEF RInv, Awaited
    <3>2. CASE x \notin calls
      <4>1. Open(r)
        BY <1>1, <1>8, <3>2 DEF IInv, Lives, Pending
      <4> QED BY <1>1, <1>5, <1>8, <3>2, <4>1 DEF RInv, Awaited
    <3> QED BY <3>1, <3>2
  <2>2. ASSUME NEW x \in calls', NEW y \in calls', ~ x.aborted, ~ y.aborted PROVE x = y
    <3>1. CASE x \in calls /\ y \in calls
      BY <2>2, <3>1 DEF RInv, Awaited
    <3>2. CASE x \notin calls
      <4>1. y = x \/ (y \in calls /\ y # c)
        BY <1>8, <3>2
      <4>2. ~ c.aborted
        BY <1>8, <2>2, <3>2
      <4> QED BY <2>2, <4>1, <4>2 DEF RInv, Awaited
    <3>3. CASE y \notin calls
      <4>1. x = y \/ (x \in calls /\ x # c)
        BY <1>8, <3>3
      <4>2. ~ c.aborted
        BY <1>8, <2>2, <3>3
      <4> QED BY <2>2, <4>1, <4>2 DEF RInv, Awaited
    <3> QED BY <3>1, <3>2, <3>3
  <2> QED BY <1>3, <2>1, <2>2 DEF Awaited
<1>10. AwaitedPrompts'
  <2>1. ASSUME NEW x \in calls', x.runtime = current
        PROVE /\ x.turn \notin overtaken[Of(x)'] =>
                   /\ x.at = "ready" /\ Pending(x)' # 0 => ~ x.aborted
                   /\ x.at = "search" /\ x.fresh => ~ x.aborted
              /\ x.at = "search" /\ Pending(x)' # 0 => x.aborted
    <3>1. CASE x \in calls
      BY <1>6, <2>1, <3>1 DEF RInv, AwaitedPrompts
    <3>2. CASE x \notin calls
      <4>1. c.runtime = current /\ x.turn = c.turn /\ Of(x)' = Of(c)
        BY <1>1, <1>8, <2>1, <3>2
      <4>2. x.turn \notin overtaken[Of(x)'] => ~ c.aborted
        BY <1>3, <1>8, <3>2, <4>1 DEF RInv, AwaitedPrompts
      <4> QED BY <1>8, <3>2, <4>2
    <3> QED BY <3>1, <3>2
  <2> QED BY <1>3, <2>1 DEF AwaitedPrompts
<1>11. OneBlock' /\ BlocksHeld'
  BY <1>3, <1>5 DEF RInv, OneBlock, BlocksHeld
<1>12. Alone'
  BY <1>3, <1>5, <1>7 DEF RInv, Alone
<1>13. ASSUME NEW u \in Session, NEW t \in Turn, rendered'[u][t] # rendered[u][t]
       PROVE /\ CurrentFor(u)' /\ runtimes'[current'].init # "ledger"
             /\ runtimes'[current'].prompt = 0
             /\ rendered'[u][t].block = runtimes'[current'].blocks[t]
             /\ t \notin overtaken[u] =>
                  \A x \in calls' : ~ (/\ x.runtime = current' /\ x.at = "search"
                                       /\ x.fresh /\ x.turn = t)
  <2>1. Answered(c, runtimes[r])
    BY <1>2, <1>13
  <2>2. /\ calls' = calls \ {c} /\ ~ c.aborted /\ r = current /\ runtimes[r].init # "ledger"
        /\ u = runtimes[r].session /\ rendered'[u][t].block = runtimes[r].blocks[t]
    BY <1>1, <1>13, <2>1 DEF Answered
  <2>3. ASSUME NEW x \in calls', x.runtime = current, x.at = "search", x.fresh, x.turn = t,
               t \notin overtaken[u]
        PROVE FALSE
    <3>1. x \in calls /\ x # c
      BY <2>2, <2>3
    <3>2. Of(x) = u
      BY <2>2, <2>3 DEF Of
    <3>3. ~ x.aborted
      BY <2>3, <3>1, <3>2 DEF RInv, AwaitedPrompts
    <3> QED BY <2>2, <3>1, <3>3 DEF RInv, Awaited
  <2>4. current # 0
    BY <2>2 DEF Rid
  <2> QED BY <1>3, <1>5, <2>2, <2>3, <2>4 DEF CurrentFor
<1>14. RenderedHere'
  <2>1. ASSUME NEW u \in Session, NEW t \in Turn \ overtaken[u], rendered'[u][t] # None, CurrentFor(u)'
        PROVE /\ runtimes'[current].init # "ledger" =>
                   rendered'[u][t].block = runtimes'[current].blocks[t]
              /\ runtimes'[current].prompt # t
              /\ \A x \in calls' : ~ (/\ x.runtime = current /\ x.at = "search"
                                      /\ x.fresh /\ x.turn = t)
    <3>1. t # 0 /\ t \in Turn /\ t \notin overtaken[u]
      BY DEF Turn
    <3>2. CASE rendered'[u][t] # rendered[u][t]
      BY <1>3, <1>13, <3>1, <3>2
    <3>3. CASE rendered'[u][t] = rendered[u][t]
      <4>1. current \in Rid /\ CurrentFor(u) /\ current' = current
        BY <1>3, <1>5, <1>7, <2>1 DEF CurrentFor
      <4>2. /\ runtimes[current].init # "ledger" =>
                 rendered[u][t].block = runtimes[current].blocks[t]
            /\ runtimes[current].prompt # t
            /\ \A x \in calls : ~ (/\ x.runtime = current /\ x.at = "search"
                                   /\ x.fresh /\ x.turn = t)
        BY <2>1, <3>1, <3>3, <4>1 DEF RInv, RenderedHere
      <4>3. ASSUME NEW x \in calls', x.runtime = current, x.turn = t, x \notin calls
            PROVE FALSE
        <5>1. c.turn = t /\ r = current /\ Of(c) = u
          BY <1>1, <1>8, <4>1, <4>3 DEF Of, CurrentFor
        <5>2. runtimes[r].prompt = t
          BY <1>8, <3>1, <4>3, <5>1
        <5> QED BY <4>2, <5>1, <5>2
      <4> QED BY <1>5, <3>1, <3>3, <4>1, <4>2, <4>3
    <3> QED BY <3>2, <3>3
  <2> QED BY <1>3, <2>1 DEF RenderedHere
<1>15. RenderedWithout'
  <2>1. ASSUME NEW u \in Session, NEW t \in Turn, NoBlock(u, t) PROVE NoBlock(u, t)'
    BY <1>3, <1>5, <2>1 DEF NoBlock
  <2>2. ASSUME NEW u \in Session \ cut, NEW t \in Turn \ overtaken[u],
               rendered'[u][t] # None, rendered'[u][t].block = None
        PROVE /\ NoBlock(u, t)'
              /\ \A q \in Rid : runtimes'[q].session = u => runtimes'[q].prompt # t
              /\ \A x \in calls' : Of(x)' = u => ~ (x.at = "search" /\ x.fresh /\ x.turn = t)
    <3>1. t # 0 /\ t \in Turn /\ t \notin overtaken[u] /\ u \in Session /\ u \notin cut
      BY DEF Turn
    <3>2. CASE rendered'[u][t] # rendered[u][t]
      <4>1. t \notin overtaken'[u] /\ u \notin cut'
        BY <1>3, <3>1
      <4>2. /\ CurrentFor(u)' /\ runtimes'[current'].init # "ledger"
            /\ runtimes'[current'].prompt = 0
            /\ rendered'[u][t].block = runtimes'[current'].blocks[t]
            /\ \A x \in calls' : ~ (/\ x.runtime = current' /\ x.at = "search"
                                    /\ x.fresh /\ x.turn = t)
        BY <1>13, <3>1, <3>2
      <4> QED BY <1>4, <1>9, <1>11, <1>12, <2>2, <3>1, <4>1, <4>2, SettledIs
    <3>3. CASE rendered'[u][t] = rendered[u][t]
      <4>1. /\ NoBlock(u, t)
            /\ \A q \in Rid : runtimes[q].session = u => runtimes[q].prompt # t
            /\ \A x \in calls : Of(x) = u => ~ (x.at = "search" /\ x.fresh /\ x.turn = t)
        BY <2>2, <3>1, <3>3 DEF RInv, RenderedWithout
      <4>2. \A q \in Rid : runtimes'[q].session = u => runtimes'[q].prompt # t
        BY <1>5, <3>1, <4>1
      <4>3. ASSUME NEW x \in calls', Of(x)' = u, x.at = "search", x.fresh, x.turn = t
            PROVE FALSE
        <5>1. CASE x \in calls
          BY <1>6, <4>1, <4>3, <5>1
        <5>2. CASE x \notin calls
          <6>1. c.turn = t /\ Of(c) = u
            BY <1>8, <4>3, <5>2
          <6>2. runtimes[r].prompt = t /\ runtimes[r].session = u
            BY <1>1, <1>8, <3>1, <5>2, <6>1 DEF Of
          <6> QED BY <4>1, <6>2
        <5> QED BY <5>1, <5>2
      <4> QED BY <2>1, <3>1, <4>1, <4>2, <4>3
    <3> QED BY <3>2, <3>3
  <2> QED BY <1>3, <2>2 DEF RenderedWithout
<1>16. RenderedWith'
  <2>1. ASSUME NEW u \in Session \ cut, NEW t \in Turn \ overtaken[u],
               rendered'[u][t] # None, rendered'[u][t].block # None
        PROVE \/ disk'[u][t] = rendered'[u][t].block
              \/ \E q \in Rid : /\ runtimes'[q].session = u /\ t \in runtimes'[q].writes
                                /\ runtimes'[q].blocks[t] = rendered'[u][t].block
    <3>1. t \in Turn /\ t \notin overtaken[u] /\ u \in Session /\ u \notin cut
      OBVIOUS
    <3>2. CASE rendered'[u][t] # rendered[u][t]
      <4>1. t \notin overtaken'[u] /\ u \notin cut'
        BY <1>3, <3>1
      <4>2. /\ CurrentFor(u)' /\ runtimes'[current'].init # "ledger"
            /\ runtimes'[current'].prompt = 0
            /\ rendered'[u][t].block = runtimes'[current'].blocks[t]
            /\ \A x \in calls' : ~ (/\ x.runtime = current' /\ x.at = "search"
                                    /\ x.fresh /\ x.turn = t)
        BY <1>13, <3>1, <3>2
      <4> QED BY <1>4, <1>9, <1>11, <1>12, <2>1, <3>1, <4>1, <4>2, SettledIs
    <3>3. CASE rendered'[u][t] = rendered[u][t]
      <4>1. \/ disk[u][t] = rendered[u][t].block
            \/ \E q \in Rid : /\ runtimes[q].session = u /\ t \in runtimes[q].writes
                              /\ runtimes[q].blocks[t] = rendered[u][t].block
        BY <2>1, <3>1, <3>3 DEF RInv, RenderedWith
      <4> QED BY <1>3, <1>5, <3>3, <4>1
    <3> QED BY <3>2, <3>3
  <2> QED BY <1>3, <2>1 DEF RenderedWith
<1> QED BY <1>9, <1>10, <1>11, <1>12, <1>14, <1>15, <1>16 DEF RInv


LEMMA SearchEndsRenders ==
  ASSUME IInv, RInv, NEW c \in calls, SearchEnds(c)
  PROVE RInv'
<1>1. PICK r \in Rid : r = c.runtime
  BY Typed DEF IInv
<1>2. (\E b : Searched(c, b)) /\ Answered(c, runtimes'[r])
  BY <1>1, SearchEndsIs DEF IInv
<1>3. PICK b : Searched(c, b)
  BY <1>2
<1>4. /\ c.at = "search" /\ calls' = calls \ {c} /\ b \in Block
      /\ UNCHANGED <<current, turn, disk, overtaken, cut, faults>>
  BY <1>2, <1>3 DEF Searched, Answered
<1>5. IInv'
  BY SearchEndsKeeps
<1>6. ASSUME NEW q \in Rid
      PROVE /\ runtimes'[q].session = runtimes[q].session /\ runtimes'[q].init = runtimes[q].init
            /\ runtimes'[q].prompt = runtimes[q].prompt
            /\ runtimes[q].writes \subseteq runtimes'[q].writes
            /\ Open(q)' <=> Open(q)
            /\ q # r \/ ~ c.fresh => runtimes'[q] = runtimes[q]
  BY <1>1, <1>3 DEF Searched, Open
\* Where a block changes, the hook recorded it.
<1>7. ASSUME NEW q \in Rid, NEW t \in Turn, runtimes'[q].blocks[t] # runtimes[q].blocks[t]
      PROVE /\ q = r /\ c.fresh /\ t = c.turn /\ t \in runtimes'[r].writes
            /\ runtimes[q].blocks[t] = None /\ runtimes'[q].blocks[t] = b
  <2>1. q = r /\ c.fresh
    BY <1>6, <1>7
  <2>2. runtimes'[r].blocks[t] = IF t = c.turn /\ runtimes[r].blocks[t] = None THEN b
                                 ELSE runtimes[r].blocks[t]
    BY <1>1, <1>3, <2>1 DEF Searched
  <2>3. t = c.turn /\ runtimes[r].blocks[t] = None
    BY <1>7, <2>1, <2>2
  <2>4. t \in runtimes'[r].writes
    BY <1>1, <1>3, <2>1, <2>3 DEF Searched
  <2> QED BY <2>1, <2>2, <2>3, <2>4
<1>8. ASSUME NEW y \in calls
      PROVE y.runtime \in Rid /\ Of(y)' = Of(y) /\ Pending(y)' = Pending(y)
  <2>1. y.runtime \in Rid
    BY Typed DEF IInv
  <2> QED BY <1>6, <2>1 DEF Of, Pending
<1>9. current # 0 => current \in Rid
  BY DEF IInv, TypeOK
<1>10. Awaited'
  BY <1>4, <1>6, <1>8 DEF RInv, Awaited
<1>11. AwaitedPrompts'
  BY <1>4, <1>8 DEF RInv, AwaitedPrompts
<1>12. OneBlock'
  <2>1. ASSUME NEW u \in Session, NEW t \in Turn, t \notin overtaken[u], NEW q \in Rid,
               runtimes'[q].session = u, runtimes'[q].blocks[t] # None
        PROVE /\ disk[u][t] \in {None, runtimes'[q].blocks[t]}
              /\ \A p \in Rid : runtimes'[p].session = u =>
                   runtimes'[p].blocks[t] \in {None, runtimes'[q].blocks[t]}
    <3>1. CASE \A p \in Rid : runtimes'[p].session = u =>
                 runtimes'[p].blocks[t] = runtimes[p].blocks[t]
      <4>1. runtimes[q].session = u /\ runtimes'[q].blocks[t] = runtimes[q].blocks[t]
        BY <1>6, <2>1, <3>1
      <4>2. /\ disk[u][t] \in {None, runtimes[q].blocks[t]}
            /\ \A p \in Rid : runtimes[p].session = u =>
                 runtimes[p].blocks[t] \in {None, runtimes[q].blocks[t]}
        BY <2>1, <4>1 DEF RInv, OneBlock
      <4> QED BY <1>6, <3>1, <4>1, <4>2
    <3>2. CASE \E p \in Rid : runtimes'[p].session = u /\
                 runtimes'[p].blocks[t] # runtimes[p].blocks[t]
      <4>1. c.turn = t /\ runtimes[r].session = u /\ runtimes'[r].blocks[t] = b
        BY <1>6, <1>7, <3>2
      <4>2. Of(c) = u
        BY <1>1, <4>1 DEF Of
      <4>3. c.query = t
        BY <1>4, <2>1, <4>1, <4>2 DEF IInv, Prompts
      <4>4. NoBlock(u, t)
        BY <1>4, <2>1, <4>2, <4>3 DEF IInv, AskedIsBlank, Asked
      <4>5. /\ disk[u][t] = None
            /\ \A p \in Rid : runtimes[p].session = u => runtimes[p].blocks[t] = None
        BY <4>4 DEF NoBlock
      <4>6. \A p \in Rid : runtimes'[p].session = u => runtimes'[p].blocks[t] \in {None, b}
        BY <1>6, <1>7, <4>5
      <4>7. runtimes'[q].blocks[t] = b
        BY <2>1, <4>6
      <4> QED BY <4>5, <4>6, <4>7
    <3> QED BY <3>1, <3>2
  <2> QED BY <1>4, <2>1 DEF OneBlock
<1>13. BlocksHeld'
  <2>1. ASSUME NEW q \in Rid, NEW t \in Turn, runtimes'[q].blocks[t] # None
        PROVE \/ t \in runtimes'[q].writes
              \/ disk[runtimes'[q].session][t] # None
              \/ runtimes'[q].session \in cut
    <3>1. CASE runtimes'[q].blocks[t] # runtimes[q].blocks[t]
      BY <1>7, <3>1
    <3>2. CASE runtimes'[q].blocks[t] = runtimes[q].blocks[t]
      BY <1>6, <2>1, <3>2 DEF RInv, BlocksHeld
    <3> QED BY <3>1, <3>2
  <2> QED BY <1>4, <2>1 DEF BlocksHeld
<1>14. Alone'
  <2>1. ASSUME current # 0, runtimes'[current].init # "ledger", runtimes'[current].session \notin cut
        PROVE LET u == runtimes'[current].session
              IN /\ \A q \in Rid \ {current} :
                      runtimes'[q].session = u => ~ Open(q)' /\ runtimes'[q].writes = {}
                 /\ \A t \in Turn \ overtaken[u] :
                      disk[u][t] # None => runtimes'[current].blocks[t] # None
    <3>1. PICK u : u = runtimes[current].session /\ u = runtimes'[current].session
      BY <1>6, <1>9, <2>1
    <3>2. /\ \A q \in Rid \ {current} :
               runtimes[q].session = u => ~ Open(q) /\ runtimes[q].writes = {}
          /\ \A t \in Turn \ overtaken[u] : disk[u][t] # None => runtimes[current].blocks[t] # None
      BY <1>6, <1>9, <2>1, <3>1 DEF RInv, Alone
    <3>3. ASSUME NEW q \in Rid \ {current}, runtimes'[q].session = u
          PROVE ~ Open(q)' /\ runtimes'[q].writes = {}
      <4>1. ~ Open(q) /\ runtimes[q].writes = {}
        BY <1>6, <3>2, <3>3
      <4>2. q # r \/ ~ c.fresh
        BY <1>1, <1>4, <4>1 DEF RInv, Awaited
      <4>3. runtimes'[q] = runtimes[q]
        BY <1>6, <4>2
      <4> QED BY <1>6, <4>1, <4>3
    <3>4. ASSUME NEW t \in Turn \ overtaken[u], disk[u][t] # None
          PROVE runtimes'[current].blocks[t] # None
      BY <1>7, <1>9, <2>1, <3>2, <3>4
    <3> QED BY <3>1, <3>3, <3>4
  <2> QED BY <1>4, <2>1 DEF Alone
<1>15. ASSUME NEW u \in Session, NEW t \in Turn, rendered'[u][t] # rendered[u][t]
       PROVE /\ CurrentFor(u)' /\ runtimes'[current'].init # "ledger"
             /\ rendered'[u][t].block = runtimes'[current'].blocks[t]
             /\ runtimes'[current'].prompt = 0
             /\ t \notin overtaken[u] =>
                  \A x \in calls' : ~ (/\ x.runtime = current' /\ x.at = "search"
                                       /\ x.fresh /\ x.turn = t)
  <2>1. /\ ~ c.aborted /\ r = current /\ runtimes'[r].init # "ledger"
        /\ u = runtimes'[r].session /\ rendered'[u][t].block = runtimes'[r].blocks[t]
    BY <1>1, <1>2, <1>15 DEF Answered
  <2>2. u = runtimes[r].session
    BY <1>6, <2>1
  <2>3. runtimes[r].prompt = 0
    BY <1>1, <1>4, <2>1 DEF RInv, AwaitedPrompts, Pending
  <2>4. ASSUME NEW x \in calls', x.runtime = current, x.at = "search", x.fresh, x.turn = t,
               t \notin overtaken[u]
        PROVE FALSE
    <3>1. x \in calls /\ x # c
      BY <1>4, <2>4
    <3>2. Of(x) = u
      BY <2>1, <2>2, <2>4 DEF Of
    <3>3. ~ x.aborted
      BY <2>4, <3>1, <3>2 DEF RInv, AwaitedPrompts
    <3> QED BY <2>1, <3>1, <3>3 DEF RInv, Awaited
  <2>5. current # 0
    BY <2>1 DEF Rid
  <2> QED BY <1>4, <1>6, <2>1, <2>3, <2>4, <2>5 DEF CurrentFor
<1>16. RenderedHere'
  <2>1. ASSUME NEW u \in Session, NEW t \in Turn \ overtaken[u], rendered'[u][t] # None, CurrentFor(u)'
        PROVE /\ runtimes'[current].init # "ledger" =>
                   rendered'[u][t].block = runtimes'[current].blocks[t]
              /\ runtimes'[current].prompt # t
              /\ \A x \in calls' : ~ (/\ x.runtime = current /\ x.at = "search"
                                      /\ x.fresh /\ x.turn = t)
    <3>1. t # 0 /\ t \in Turn /\ t \notin overtaken[u]
      BY DEF Turn
    <3>2. CASE rendered'[u][t] # rendered[u][t]
      BY <1>4, <1>15, <3>1, <3>2
    <3>3. CASE rendered'[u][t] = rendered[u][t]
      <4>1. current \in Rid /\ CurrentFor(u) /\ current' = current
        BY <1>4, <1>6, <1>9, <2>1 DEF CurrentFor
      <4>2. /\ runtimes[current].init # "ledger" =>
                 rendered[u][t].block = runtimes[current].blocks[t]
            /\ runtimes[current].prompt # t
            /\ \A x \in calls : ~ (/\ x.runtime = current /\ x.at = "search"
                                   /\ x.fresh /\ x.turn = t)
        BY <2>1, <3>1, <3>3, <4>1 DEF RInv, RenderedHere
      <4>3. runtimes'[current].blocks[t] = runtimes[current].blocks[t]
        BY <1>1, <1>4, <1>7, <3>1, <4>1, <4>2
      <4> QED BY <1>4, <1>6, <3>3, <4>1, <4>2, <4>3
    <3> QED BY <3>2, <3>3
  <2> QED BY <1>4, <2>1 DEF RenderedHere
<1>17. RenderedWithout'
  <2>1. ASSUME NEW u \in Session \ cut, NEW t \in Turn \ overtaken[u],
               rendered'[u][t] # None, rendered'[u][t].block = None
        PROVE /\ NoBlock(u, t)'
              /\ \A q \in Rid : runtimes'[q].session = u => runtimes'[q].prompt # t
              /\ \A x \in calls' : Of(x)' = u => ~ (x.at = "search" /\ x.fresh /\ x.turn = t)
    <3>1. t # 0 /\ t \in Turn /\ t \notin overtaken[u] /\ u \in Session /\ u \notin cut
      BY DEF Turn
    <3>2. CASE rendered'[u][t] # rendered[u][t]
      <4>1. t \notin overtaken'[u] /\ u \notin cut'
        BY <1>4, <3>1
      <4>2. /\ CurrentFor(u)' /\ runtimes'[current'].init # "ledger"
            /\ runtimes'[current'].prompt = 0
            /\ rendered'[u][t].block = runtimes'[current'].blocks[t]
            /\ \A x \in calls' : ~ (/\ x.runtime = current' /\ x.at = "search"
                                    /\ x.fresh /\ x.turn = t)
        BY <1>15, <3>1, <3>2
      <4> QED BY <1>5, <1>10, <1>12, <1>13, <1>14, <2>1, <3>1, <4>1, <4>2, SettledIs
    <3>3. CASE rendered'[u][t] = rendered[u][t]
      <4>1. /\ NoBlock(u, t)
            /\ \A q \in Rid : runtimes[q].session = u => runtimes[q].prompt # t
            /\ \A x \in calls : Of(x) = u => ~ (x.at = "search" /\ x.fresh /\ x.turn = t)
        BY <2>1, <3>1, <3>3 DEF RInv, RenderedWithout
      <4>2. ASSUME NEW q \in Rid, runtimes'[q].session = u
            PROVE runtimes'[q].blocks[t] = None /\ runtimes'[q].prompt # t
        <5>1. runtimes[q].session = u /\ runtimes[q].blocks[t] = None /\ runtimes[q].prompt # t
          BY <1>6, <4>1, <4>2 DEF NoBlock
        <5>2. runtimes'[q].blocks[t] = runtimes[q].blocks[t]
          <6>1. ASSUME q = r, c.fresh, c.turn = t PROVE FALSE
            <7>1. Of(c) = u
              BY <1>1, <5>1, <6>1 DEF Of
            <7> QED BY <1>4, <4>1, <6>1, <7>1
          <6> QED BY <1>7, <3>1, <6>1
        <5> QED BY <1>6, <5>1, <5>2
      <4>3. NoBlock(u, t)'
        BY <1>4, <4>1, <4>2 DEF NoBlock
      <4> QED BY <1>4, <1>8, <4>1, <4>2, <4>3
    <3> QED BY <3>2, <3>3
  <2> QED BY <1>4, <2>1 DEF RenderedWithout
<1>18. RenderedWith'
  <2>1. ASSUME NEW u \in Session \ cut, NEW t \in Turn \ overtaken[u],
               rendered'[u][t] # None, rendered'[u][t].block # None
        PROVE \/ disk'[u][t] = rendered'[u][t].block
              \/ \E q \in Rid : /\ runtimes'[q].session = u /\ t \in runtimes'[q].writes
                                /\ runtimes'[q].blocks[t] = rendered'[u][t].block
    <3>1. t \in Turn /\ t \notin overtaken[u] /\ u \in Session /\ u \notin cut
      OBVIOUS
    <3>2. CASE rendered'[u][t] # rendered[u][t]
      <4>1. t \notin overtaken'[u] /\ u \notin cut'
        BY <1>4, <3>1
      <4>2. /\ CurrentFor(u)' /\ runtimes'[current'].init # "ledger"
            /\ runtimes'[current'].prompt = 0
            /\ rendered'[u][t].block = runtimes'[current'].blocks[t]
            /\ \A x \in calls' : ~ (/\ x.runtime = current' /\ x.at = "search"
                                    /\ x.fresh /\ x.turn = t)
        BY <1>15, <3>1, <3>2
      <4> QED BY <1>5, <1>10, <1>12, <1>13, <1>14, <2>1, <3>1, <4>1, <4>2, SettledIs
    <3>3. CASE rendered'[u][t] = rendered[u][t]
      <4>1. \/ disk[u][t] = rendered[u][t].block
            \/ \E q \in Rid : /\ runtimes[q].session = u /\ t \in runtimes[q].writes
                              /\ runtimes[q].blocks[t] = rendered[u][t].block
        BY <2>1, <3>1, <3>3 DEF RInv, RenderedWith
      <4>2. ASSUME NEW q \in Rid, runtimes[q].session = u, t \in runtimes[q].writes,
                   runtimes[q].blocks[t] = rendered[u][t].block
            PROVE /\ runtimes'[q].session = u /\ t \in runtimes'[q].writes
                  /\ runtimes'[q].blocks[t] = rendered'[u][t].block
        BY <1>6, <1>7, <2>1, <3>1, <3>3, <4>2
      <4> QED BY <1>4, <3>3, <4>1, <4>2
    <3> QED BY <3>2, <3>3
  <2> QED BY <1>4, <2>1 DEF RenderedWith
<1> QED BY <1>10, <1>11, <1>12, <1>13, <1>14, <1>16, <1>17, <1>18 DEF RInv

LEMMA RInvariance == Spec => [](IInv /\ RInv)
<1>1. Init => RInv
  BY InitiallyRenders
<1>2. IInv /\ RInv /\ [Next]_vars => RInv'
  <2> SUFFICES ASSUME IInv, RInv, [Next]_vars PROVE RInv'
    OBVIOUS
  <2>1. CASE Harness
    <3>1. PICK s \in Session : \/ Enter(s) \/ Leave(s) \/ BeforeAgentStart(s) \/ AgentEnd(s)
                               \/ ContextCalled(s)
      BY <2>1 DEF Harness
    <3> QED BY <3>1, ReplaceRenders, BeforeAgentStartRenders, AgentEndRenders, ContextCalledRenders
  <2>2. CASE Network
    <3>1. PICK r \in Rid : LoadLedger(r) \/ Startup(r) \/ Persist(r) \/ ShutdownEnds(r)
      BY <2>2 DEF Network
    <3> QED BY <3>1, LoadLedgerRenders, StartupRenders, PersistRenders, CloseRenders
  <2>3. CASE Hook
    <3>1. PICK c \in calls : TakePrompt(c) \/ SearchEnds(c)
      BY <2>3 DEF Hook
    <3> QED BY <3>1, TakePromptRenders, SearchEndsRenders
  <2>4. CASE Deadline
    BY <2>4, CloseRenders DEF Deadline
  <2>5. CASE Crash
    BY <2>5, CrashRenders
  <2>6. CASE UNCHANGED vars
    BY <2>6, StutterRenders
  <2> QED BY <2>1, <2>2, <2>3, <2>4, <2>5, <2>6 DEF Next
<1> QED BY <1>1, <1>2, Invariance, PTL DEF Spec


\* The block that answered a hook is the block its turn was rendered with before.
LEMMA AnsweredAsBefore ==
  ASSUME IInv, RInv, NEW c \in calls, NEW r \in Rid, r = c.runtime,
         NEW s \in Session, NEW t \in Turn, t \notin overtaken[s],
         TakePrompt(c) \/ SearchEnds(c),
         rendered[s][t] # None, rendered'[s][t] # rendered[s][t]
  PROVE rendered'[s][t].block = rendered[s][t].block
<1>1. CASE TakePrompt(c)
  <2>1. Taken(r) /\ Answered(c, runtimes[r])
    BY <1>1, TakePromptIs DEF IInv
  <2>2. /\ c.runtime = current /\ runtimes[r].init # "ledger" /\ s = runtimes[r].session
        /\ rendered'[s][t].block = runtimes[r].blocks[t]
    BY <2>1 DEF Answered
  <2>3. CurrentFor(s) /\ r = current
    BY <2>2 DEF CurrentFor, Rid
  <2> QED BY <2>2, <2>3 DEF RInv, RenderedHere
<1>2. CASE SearchEnds(c)
  <2>1. (\E b : Searched(c, b)) /\ Answered(c, runtimes'[r])
    BY <1>2, SearchEndsIs DEF IInv
  <2>2. PICK b : Searched(c, b)
    BY <2>1
  <2>3. c.at = "search" /\ runtimes'[r].session = runtimes[r].session
        /\ runtimes'[r].init = runtimes[r].init
    BY <2>2 DEF Searched
  <2>4. /\ c.runtime = current /\ runtimes[r].init # "ledger" /\ s = runtimes[r].session
        /\ rendered'[s][t].block = runtimes'[r].blocks[t]
    BY <2>1, <2>3 DEF Answered
  <2>5. CurrentFor(s) /\ r = current
    BY <2>4 DEF CurrentFor, Rid
  <2>6. rendered[s][t].block = runtimes[r].blocks[t] /\ ~ (c.fresh /\ c.turn = t)
    BY <2>3, <2>4, <2>5 DEF RInv, RenderedHere
  <2>7. runtimes'[r].blocks[t] = runtimes[r].blocks[t]
    <3>1. CASE ~ c.fresh
      BY <2>2, <3>1 DEF Searched
    <3>2. CASE c.fresh
      <4>1. runtimes'[r].blocks[t] = IF t = c.turn /\ runtimes[r].blocks[t] = None THEN b
                                     ELSE runtimes[r].blocks[t]
        BY <2>2, <3>2 DEF Searched
      <4> QED BY <2>6, <3>2, <4>1
    <3> QED BY <3>1, <3>2
  <2> QED BY <2>4, <2>6, <2>7
<1> QED BY <1>1, <1>2

\* Whenever the model has been given a turn and is given it again, it is given the
\* same block, in the same runtime or a later one, whatever the order of searches,
\* ledger writes, replacements, deadlines and crashes, but for the exceptions that
\* the property names (searchPending, recall.ts; record and load, ledger.ts).
THEOREM StablePrefixHolds == Spec => StablePrefix
<1>1. IInv /\ RInv /\ [Next]_vars =>
        [\A s \in Session : \A t \in Turn :
           LET before == rendered[s][t] after == rendered'[s][t]
           IN before # None /\ after # None =>
                \/ after.block = before.block
                \/ t \in overtaken[s]]_vars
  <2> SUFFICES ASSUME IInv, RInv, Next, NEW s \in Session, NEW t \in Turn,
                      rendered[s][t] # None, rendered'[s][t] # None, t \notin overtaken[s],
                      rendered'[s][t] # rendered[s][t]
               PROVE rendered'[s][t].block = rendered[s][t].block
    OBVIOUS
  <2>1. CASE Harness
    <3>1. rendered' = rendered
      BY <2>1 DEF Harness, Enter, Leave, BeforeAgentStart, AgentEnd, ContextCalled, history
    <3> QED BY <3>1
  <2>2. CASE Network
    <3>1. PICK r \in Rid : LoadLedger(r) \/ Startup(r) \/ Persist(r) \/ ShutdownEnds(r)
      BY <2>2 DEF Network
    <3>2. CASE LoadLedger(r)
      <4>1. LedgerRead(r)
        BY <3>2, LedgerReadIs DEF IInv
      <4> QED BY <4>1 DEF LedgerRead
    <3>3. CASE Startup(r) \/ Persist(r) \/ ShutdownEnds(r)
      <4>1. rendered' = rendered
        BY <3>3 DEF Startup, Persist, ShutdownEnds, Close, history
      <4> QED BY <4>1
    <3> QED BY <3>1, <3>2, <3>3
  <2>3. CASE Hook
    <3>1. PICK c \in calls : TakePrompt(c) \/ SearchEnds(c)
      BY <2>3 DEF Hook
    <3>2. c.runtime \in Rid
      BY Typed DEF IInv
    <3> QED BY <3>1, <3>2, AnsweredAsBefore
  <2>4. CASE Deadline
    BY <2>4 DEF Deadline, ShutdownDeadline, Close
  <2>5. CASE Crash
    BY <2>5 DEF Crash
  <2> QED BY <2>1, <2>2, <2>3, <2>4, <2>5 DEF Next
<1> QED BY <1>1, RInvariance, PTL DEF Spec, StablePrefix

=============================================================================
