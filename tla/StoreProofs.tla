---------------------------- MODULE StoreProofs ----------------------------
(***************************************************************************)
(* Proofs about Store, for any clients, events, versions and bounds.  The  *)
(* inductive invariant IInv says what a client that is at some point of a  *)
(* job may rely on at the server (Sound).  Objects never change, so it can *)
(* only be disturbed by the client's own next step (SoundStays).           *)
(***************************************************************************)
EXTENDS Store, TLAPS

StoredFor(c, e) == Stored(e, view[c][e])

\* The batch of objects that job j of client c is writing, and those of them of
\* which it does not know yet that they are there.
Transfers(j) == j.at \in {"get", "post", "back"}

BatchOf(c, j) ==
  {p \in Path :
     \/ j.stage = "direct" /\ \E e \in DirectEvents(c, j.events) : p = Direct(e)
     \/ j.stage = "claim" /\ \E e \in j.todo : p = Claim(e)
     \/ j.stage = "chunks" /\ \E e \in j.todo : p \in ChunksOf(e)
     \/ j.stage = "commit" /\ \E e \in j.todo : p = Commit(e)
     \/ j.stage = "manifest" /\ p = Manifest}

Unseen(j) ==
  (IF j.at \in {"get", "back"} THEN j.paths ELSE {})
    \union (IF j.at \in {"get", "post"} THEN j.missing ELSE {})

BatchSound(c, j) ==
  Transfers(j) =>
    /\ j.stage # "none"
    /\ Unseen(j) \subseteq BatchOf(c, j)
    /\ \A p \in BatchOf(c, j) \ Unseen(j) : store[p] = BytesOf(c, p)

\* The events that were accepted before the big event in progress.
BeforeSound(c, j) ==
  /\ \A e \in DirectEvents(c, j.events) : StoredDirect(e, view[c][e])
  /\ \A e \in j.direct : StoredChunked(e, view[c][e])

\* A big event in progress: the claim comes before the chunks, both before the
\* commit.
EventSound(c, j) ==
  /\ j.at = "statClaims" \/ (Transfers(j) /\ j.stage = "direct") => j.direct = {}
  /\ j.at \in {"statDirect", "verify"} \/ (Transfers(j) /\ j.stage \in {"claim", "chunks", "commit"}) =>
       /\ \E e \in j.events : j.todo = {e} /\ view[c][e] \in Big
       /\ BeforeSound(c, j)
  /\ j.at = "verify" \/ (Transfers(j) /\ j.stage \in {"chunks", "commit"}) =>
       \A e \in j.todo : store[Claim(e)] = view[c][e]
  /\ Transfers(j) /\ j.stage = "commit" =>
       \A e \in j.todo : \A p \in ChunksOf(e) : store[p] = view[c][e]

\* What was written or proved so far.
OutcomeSound(c, j) ==
  /\ j.at = "accept" /\ j.stage # "manifest" => \A e \in j.events : StoredFor(c, e)
  /\ j.at = "accept" /\ j.stage = "manifest" => store[Manifest] = view[c]
  /\ (j.at = "accept" \/ Transfers(j)) /\ j.stage = "manifest" =>
       \A e \in Event : StoredFor(c, e)
  /\ j.at = "prove" => \A e \in Event \ j.todo : StoredFor(c, e)
  /\ j.at = "proveCommit" => \A e \in Event \ j.events : StoredFor(c, e)
  /\ j.at \in {"expand", "expandCommit"} => store[Manifest] \in Views
  /\ j.at = "expand" => \A e \in Event \ j.todo : Stored(e, store[Manifest][e])
  /\ j.at = "expandCommit" => \A e \in Event \ j.events : Stored(e, store[Manifest][e])
  /\ j.at \in {"proveCommit", "expandCommit"} => \E e \in j.events : j.todo = {e}

Sound(c, j) == BatchSound(c, j) /\ EventSound(c, j) /\ OutcomeSound(c, j)

\* An event has the form of its size.
FormSound ==
  \A e \in Event : /\ store[Direct(e)] \notin Big
                   /\ Exists(Commit(e)) => store[Commit(e)] \in Big

ProofsSound ==
  /\ archived \union proven # {} => store[Manifest] \in Views
  /\ \A c \in Client : expanded[c] # None =>
       expanded[c] = store[Manifest] /\ \A e \in Event : Stored(e, store[Manifest][e])

IInv ==
  /\ TypeOK
  /\ FormSound /\ CommitMeansWhole
  /\ \A c \in Client : Sound(c, job[c])
  /\ AcceptedIsStored /\ ArchiveIsProven /\ ProofsSound

-----------------------------------------------------------------------------
(* Facts about objects *)

LEMMA PathFacts ==
  /\ Manifest \in Path
  /\ \A e \in Event :
       /\ Direct(e) \in Path /\ Claim(e) \in Path /\ Commit(e) \in Path
       /\ ChunksOf(e) \subseteq Path
BY DEF Path

\* Objects of different forms are different.
LEMMA PathsDiffer ==
  ASSUME NEW e \in Event
  PROVE  /\ \A d \in Event : /\ Direct(e) = Direct(d) => e = d
                             /\ Commit(e) = Commit(d) => e = d
                             /\ Direct(e) \notin {Claim(d), Commit(d)} \union ChunksOf(d)
                             /\ Commit(e) \notin {Direct(d), Claim(d)} \union ChunksOf(d)
         /\ Direct(e) # Manifest /\ Commit(e) # Manifest
BY DEF Direct, Claim, Commit, ChunksOf, Manifest

LEMMA BytesOfPath ==
  ASSUME NEW c
  PROVE  /\ BytesOf(c, Manifest) = view[c]
         /\ \A e \in Event :
              /\ BytesOf(c, Direct(e)) = view[c][e]
              /\ BytesOf(c, Claim(e)) = view[c][e]
              /\ BytesOf(c, Commit(e)) = view[c][e]
              /\ \A p \in ChunksOf(e) : BytesOf(c, p) = view[c][e]
<1>1. BytesOf(c, Manifest) = view[c]
  BY DEF BytesOf
<1>2. ASSUME NEW e \in Event, NEW p \in {Direct(e), Claim(e), Commit(e)} \union ChunksOf(e)
      PROVE  BytesOf(c, p) = view[c][e]
  <2>1. p # Manifest /\ p[2] = e
    BY <1>2 DEF Direct, Claim, Commit, ChunksOf, Manifest
  <2> QED BY <2>1 DEF BytesOf
<1> QED BY <1>1, <1>2

\* What a client sees of an event is bytes.
LEMMA ViewType ==
  ASSUME TypeOK, NEW c \in Client
  PROVE  /\ view[c] \in Views /\ view[c] # None
         /\ \A e \in Event : view[c][e] \in Version /\ view[c][e] # None
<1>1. view[c] \in Views
  BY DEF TypeOK
<1> QED BY <1>1, StoreAssumption

LEMMA BytesOfType ==
  ASSUME TypeOK, NEW c \in Client, NEW p \in Path
  PROVE  BytesOf(c, p) \in Bytes \ {None}
<1>1. CASE p = Manifest
  BY <1>1, ViewType, BytesOfPath, StoreAssumption DEF Bytes
<1>2. CASE p # Manifest
  <2>1. PICK e \in Event : p \in {Direct(e), Claim(e), Commit(e)} \union ChunksOf(e)
    BY <1>2 DEF Path
  <2>2. BytesOf(c, p) = view[c][e]
    BY <2>1, BytesOfPath
  <2> QED BY <2>2, ViewType, StoreAssumption DEF Bytes
<1> QED BY <1>1, <1>2

-----------------------------------------------------------------------------
(* The store only grows *)

Grows == view' = view /\ \A p \in Path : Exists(p) => store'[p] = store[p]

\* What is stored stays stored.
LEMMA StoredStays ==
  ASSUME Grows, NEW e \in Event, NEW v, v # None
  PROVE  /\ StoredDirect(e, v) => StoredDirect(e, v)'
         /\ StoredChunked(e, v) => StoredChunked(e, v)'
         /\ Stored(e, v) => Stored(e, v)'
<1>1. \A p \in Path : store[p] = v => store'[p] = v
  BY DEF Grows, Exists
<1>2. StoredDirect(e, v) => StoredDirect(e, v)'
  BY <1>1, PathFacts DEF StoredDirect
<1>3. StoredChunked(e, v) => StoredChunked(e, v)'
  BY <1>1, PathFacts DEF StoredChunked
<1> QED BY <1>2, <1>3 DEF Stored

LEMMA BatchSoundStays ==
  ASSUME TypeOK, Grows, NEW c \in Client, NEW j \in Job, BatchSound(c, j)
  PROVE  BatchSound(c, j)'
<1>1. BatchOf(c, j)' = BatchOf(c, j)
  BY DEF Grows, BatchOf, DirectEvents
<1>2. \A p \in BatchOf(c, j) : p \in Path /\ BytesOf(c, p)' = BytesOf(c, p) /\ BytesOf(c, p) # None
  BY BytesOfType DEF BatchOf, Grows, BytesOf
<1>3. \A p \in BatchOf(c, j) : store[p] = BytesOf(c, p) => store'[p] = BytesOf(c, p)'
  BY <1>2 DEF Grows, Exists
<1> QED BY <1>1, <1>3 DEF BatchSound

LEMMA EventSoundStays ==
  ASSUME TypeOK, Grows, NEW c \in Client, NEW j \in Job, EventSound(c, j)
  PROVE  EventSound(c, j)'
<1>1. view'[c] = view[c] /\ (DirectEvents(c, j.events))' = DirectEvents(c, j.events)
  BY DEF Grows, DirectEvents
<1>2. j.events \subseteq Event /\ j.direct \subseteq Event /\ j.todo \subseteq Event
  BY DEF Job
<1>3. BeforeSound(c, j) => BeforeSound(c, j)'
  BY <1>1, <1>2, StoredStays, ViewType DEF BeforeSound, DirectEvents
<1>4. \A e \in j.todo : \A p \in {Claim(e)} \union ChunksOf(e) :
        store[p] = view[c][e] => store'[p] = view'[c][e]
  BY <1>1, <1>2, ViewType, PathFacts DEF Grows, Exists
<1> QED BY <1>1, <1>3, <1>4 DEF EventSound

LEMMA OutcomeSoundStays ==
  ASSUME TypeOK, Grows, NEW c \in Client, NEW j \in Job, OutcomeSound(c, j)
  PROVE  OutcomeSound(c, j)'
<1>1. view'[c] = view[c] /\ view[c] \in Views /\ view[c] # None
  BY ViewType DEF Grows
<1>2. j.events \subseteq Event /\ j.todo \subseteq Event
  BY DEF Job
<1>3. \A e \in Event : StoredFor(c, e) => StoredFor(c, e)'
  BY <1>1, StoredStays, ViewType DEF StoredFor
<1>4. store[Manifest] \in Views => store'[Manifest] = store[Manifest]
  BY PathFacts, StoreAssumption DEF Grows, Exists
<1>5. \A e \in Event : store[Manifest] \in Views /\ Stored(e, store[Manifest][e])
                         => Stored(e, store[Manifest][e])'
  <2> TAKE e \in Event
  <2> HAVE store[Manifest] \in Views /\ Stored(e, store[Manifest][e])
  <2>1. store[Manifest][e] # None
    BY StoreAssumption
  <2>2. DEFINE v == store[Manifest][e]
  <2>3. Stored(e, v) => StoredDirect(e, v) \/ StoredChunked(e, v)
    BY DEF Stored
  <2>4. \A p \in Path : store[p] = v => store'[p] = v
    BY <2>1 DEF Grows, Exists
  <2>5. store'[Manifest][e] = v
    BY <1>4
  <2> QED BY <2>4, <2>5, PathFacts DEF Stored, StoredDirect, StoredChunked
<1> QED BY <1>1, <1>2, <1>3, <1>4, <1>5 DEF OutcomeSound

LEMMA SoundStays ==
  ASSUME TypeOK, Grows, NEW c \in Client, NEW j \in Job, Sound(c, j)
  PROVE  Sound(c, j)'
BY BatchSoundStays, EventSoundStays, OutcomeSoundStays DEF Sound

-----------------------------------------------------------------------------
(* Jobs *)

\* An idle client relies on nothing.
LEMMA IdleSound ==
  ASSUME NEW c \in Client
  PROVE  Idle \in Job /\ Sound(c, Idle)
<1>1. Idle \in Job
  BY StoreAssumption DEF Idle, Job
<1>2. BatchSound(c, Idle)
  BY DEF BatchSound, Transfers, Idle
<1>3. EventSound(c, Idle)
  BY DEF EventSound, Transfers, Idle
<1>4. OutcomeSound(c, Idle)
  BY DEF OutcomeSound, Transfers, Idle
<1> QED BY <1>1, <1>2, <1>3, <1>4 DEF Sound

\* The next big event is begun when all before it are stored, and writeEvents
\* ends when all are.
LEMMA NextChunkedSound ==
  ASSUME TypeOK, NEW c \in Client, NEW j \in Job, BeforeSound(c, j), j.stage # "manifest"
  PROVE  NextChunked(c, j) \in Job /\ Sound(c, NextChunked(c, j))
<1> DEFINE left == {e \in j.events : view[c][e] \in Big /\ e \notin j.direct}
           next == NextChunked(c, j)
<1>1. CASE left = {}
  <2>1. next = [j EXCEPT !.at = "accept"]
    BY <1>1 DEF NextChunked
  <2>2. next \in Job /\ ~ Transfers(next) /\ next.at = "accept" /\ next.stage # "manifest"
    BY <2>1 DEF Job, Transfers
  <2>3. \A e \in j.events : StoredFor(c, e)
    BY <1>1 DEF BeforeSound, DirectEvents, StoredFor, Stored
  <2>4. OutcomeSound(c, next)
    BY <2>1, <2>2, <2>3 DEF OutcomeSound, Job
  <2> QED BY <2>2, <2>4 DEF Sound, BatchSound, EventSound
<1>2. CASE left # {}
  <2>1. PICK e \in left : next = [j EXCEPT !.at = "statDirect", !.todo = {e}]
    BY <1>2 DEF NextChunked
  <2>2. next \in Job /\ ~ Transfers(next) /\ next.at = "statDirect"
    <3>1. {e} \in SUBSET Event
      BY DEF Job
    <3> HIDE DEF left
    <3> QED BY <2>1, <3>1 DEF Job, Transfers
  <2>3. BeforeSound(c, next)
    BY <2>1 DEF BeforeSound, Job
  <2>4. EventSound(c, next)
    BY <2>1, <2>2, <2>3 DEF EventSound, Job
  <2> QED BY <2>2, <2>4 DEF Sound, BatchSound, OutcomeSound
<1> QED BY <1>1, <1>2

LEMMA StartsWriteSound ==
  ASSUME TypeOK, NEW c \in Client, NEW j \in Job, j.direct = {}, j.stage # "manifest"
  PROVE  StartsWrite(c, j) \in Job /\ Sound(c, StartsWrite(c, j))
<1>1. CASE DirectEvents(c, j.events) = {}
  <2>1. BeforeSound(c, j)
    BY <1>1 DEF BeforeSound
  <2> QED BY <1>1, <2>1, NextChunkedSound DEF StartsWrite
<1>2. CASE DirectEvents(c, j.events) # {}
  <2> DEFINE next == [j EXCEPT !.at = "statClaims", !.todo = DirectEvents(c, j.events)]
  <2>1. next \in Job /\ ~ Transfers(next) /\ next.at = "statClaims" /\ next.direct = {}
    BY DEF Job, Transfers, DirectEvents
  <2>2. Sound(c, next)
    BY <2>1 DEF Sound, BatchSound, EventSound, OutcomeSound
  <2> QED BY <1>2, <2>1, <2>2 DEF StartsWrite
<1> QED BY <1>1, <1>2

\* A batch begins with all of it to be seen.
LEMMA BatchStartSound ==
  ASSUME NEW c \in Client, NEW j \in Job,
         NEW stage \in {"direct", "claim", "chunks", "commit", "manifest"}, NEW paths,
         paths = BatchOf(c, Batch(j, stage, paths)),
         EventSound(c, Batch(j, stage, paths)), OutcomeSound(c, Batch(j, stage, paths))
  PROVE  Batch(j, stage, paths) \in Job /\ Sound(c, Batch(j, stage, paths))
<1> DEFINE b == Batch(j, stage, paths)
<1>1. b.at = "get" /\ b.stage = stage /\ b.paths = paths /\ b.missing = {}
  BY DEF Batch, Job
<1>2. paths \subseteq Path
  BY DEF BatchOf
<1>3. b \in Job
  BY <1>2 DEF Batch, Job
<1>4. Unseen(b) = paths
  BY <1>1 DEF Unseen
<1>5. BatchSound(c, b)
  BY <1>1, <1>4 DEF BatchSound
<1> QED BY <1>3, <1>5 DEF Sound

\* What a batch consists of.
LEMMA BatchPaths ==
  ASSUME NEW c \in Client, NEW j \in Job, NEW paths
  PROVE  /\ BatchOf(c, Batch(j, "direct", paths)) = {Direct(e) : e \in DirectEvents(c, j.events)}
         /\ BatchOf(c, Batch(j, "manifest", paths)) = {Manifest}
         /\ \A e : j.todo = {e} =>
              /\ BatchOf(c, Batch(j, "claim", paths)) = {Claim(e)}
              /\ BatchOf(c, Batch(j, "chunks", paths)) = ChunksOf(e)
              /\ BatchOf(c, Batch(j, "commit", paths)) = {Commit(e)}
<1>1. /\ j.events \subseteq Event /\ j.todo \subseteq Event
      /\ DirectEvents(c, j.events) \subseteq Event
  BY DEF Job, DirectEvents
<1>2. \A stage : /\ Batch(j, stage, paths).stage = stage
                 /\ Batch(j, stage, paths).todo = j.todo
                 /\ Batch(j, stage, paths).events = j.events
  BY DEF Batch, Job
<1>3. BatchOf(c, Batch(j, "direct", paths)) = {Direct(e) : e \in DirectEvents(c, j.events)}
  BY <1>1, <1>2, PathFacts DEF BatchOf
<1>4. BatchOf(c, Batch(j, "manifest", paths)) = {Manifest}
  BY <1>1, <1>2, PathFacts DEF BatchOf
<1>5. ASSUME NEW e, j.todo = {e}
      PROVE  /\ BatchOf(c, Batch(j, "claim", paths)) = {Claim(e)}
             /\ BatchOf(c, Batch(j, "chunks", paths)) = ChunksOf(e)
             /\ BatchOf(c, Batch(j, "commit", paths)) = {Commit(e)}
  <2>1. e \in Event
    BY <1>1, <1>5
  <2>2. BatchOf(c, Batch(j, "claim", paths)) = {Claim(e)}
    BY <1>2, <1>5, <2>1, PathFacts DEF BatchOf
  <2>3. BatchOf(c, Batch(j, "chunks", paths)) = ChunksOf(e)
    BY <1>2, <1>5, <2>1, PathFacts DEF BatchOf
  <2>4. BatchOf(c, Batch(j, "commit", paths)) = {Commit(e)}
    BY <1>2, <1>5, <2>1, PathFacts DEF BatchOf
  <2> QED BY <2>2, <2>3, <2>4
<1> QED BY <1>3, <1>4, <1>5

\* What follows an accepted batch relies on its objects, which are there.
LEMMA FollowsSound ==
  ASSUME TypeOK, NEW c \in Client, NEW j \in Job, Transfers(j), j.stage # "none",
         EventSound(c, j), OutcomeSound(c, j),
         \A p \in BatchOf(c, j) : store[p] = BytesOf(c, p)
  PROVE  Follows(c, j) \in Job /\ Sound(c, Follows(c, j))
<1> DEFINE next == Follows(c, j)
           chosen == CHOOSE x \in j.todo : TRUE
<1>1. j.stage \in {"direct", "claim", "chunks", "commit", "manifest"}
  BY DEF Job
<1>2. j.events \subseteq Event /\ j.todo \subseteq Event
  BY DEF Job
<1>3. CASE j.stage = "direct"
  <2>1. next = NextChunked(c, j)
    BY <1>3 DEF Follows
  <2>2. \A e \in DirectEvents(c, j.events) : StoredDirect(e, view[c][e])
    <3> TAKE e \in DirectEvents(c, j.events)
    <3>1. e \in Event
      BY <1>2 DEF DirectEvents
    <3>2. Direct(e) \in BatchOf(c, j)
      BY <1>3, <3>1, PathFacts DEF BatchOf
    <3> QED BY <3>1, <3>2, BytesOfPath DEF StoredDirect
  <2>3. BeforeSound(c, j)
    BY <1>3, <2>2 DEF EventSound, BeforeSound
  <2> QED BY <1>3, <2>1, <2>3, NextChunkedSound
<1>4. CASE j.stage \in {"claim", "chunks", "commit"}
  <2>1. PICK e \in j.events : j.todo = {e} /\ view[c][e] \in Big
    BY <1>4 DEF EventSound
  <2>2. chosen = e /\ e \in Event /\ BeforeSound(c, j)
    BY <1>2, <1>4, <2>1 DEF EventSound
  <2>3. CASE j.stage = "claim"
    <3> DEFINE b == Batch(j, "chunks", ChunksOf(e))
    <3>1. next = b
      BY <2>2, <2>3 DEF Follows
    <3>2. store[Claim(e)] = view[c][e]
      <4>1. Claim(e) \in BatchOf(c, j)
        BY <2>1, <2>2, <2>3, PathFacts DEF BatchOf
      <4> QED BY <2>2, <4>1, BytesOfPath
    <3>3. /\ b.at = "get" /\ b.stage = "chunks" /\ b.events = j.events /\ b.todo = j.todo
          /\ b.direct = j.direct
      BY DEF Batch, Job
    <3>4. BeforeSound(c, b)
      BY <2>2, <3>3 DEF BeforeSound
    <3>5. EventSound(c, b)
      BY <2>1, <3>2, <3>3, <3>4 DEF EventSound
    <3>6. OutcomeSound(c, b)
      BY <3>3 DEF OutcomeSound
    <3>7. ChunksOf(e) = BatchOf(c, b)
      BY <2>1, BatchPaths
    <3> QED BY <3>1, <3>5, <3>6, <3>7, BatchStartSound
  <2>4. CASE j.stage = "chunks"
    <3> DEFINE v == [j EXCEPT !.at = "verify"]
    <3>1. next = v
      BY <2>4 DEF Follows
    <3>2. v \in Job /\ v.at = "verify" /\ v.events = j.events /\ v.todo = j.todo /\ v.direct = j.direct
      BY DEF Job
    <3>3. BeforeSound(c, v)
      BY <2>2, <3>2 DEF BeforeSound
    <3>4. \A d \in j.todo : store[Claim(d)] = view[c][d]
      BY <2>4 DEF EventSound
    <3>5. EventSound(c, v)
      BY <2>1, <3>2, <3>3, <3>4 DEF EventSound, Transfers
    <3>6. BatchSound(c, v) /\ OutcomeSound(c, v)
      BY <3>2 DEF BatchSound, OutcomeSound, Transfers
    <3> QED BY <3>1, <3>2, <3>5, <3>6 DEF Sound
  <2>5. CASE j.stage = "commit"
    <3> DEFINE d == [j EXCEPT !.direct = @ \union {e}]
    <3>1. next = NextChunked(c, d)
      BY <2>2, <2>5 DEF Follows
    <3>2. d \in Job /\ d.stage = "commit" /\ d.events = j.events /\ d.direct = j.direct \union {e}
      BY <2>2, <2>5 DEF Job
    <3>3. StoredChunked(e, view[c][e])
      <4>1. Commit(e) \in BatchOf(c, j)
        BY <2>1, <2>2, <2>5, PathFacts DEF BatchOf
      <4>2. store[Commit(e)] = view[c][e]
        BY <2>2, <4>1, BytesOfPath
      <4>3. store[Claim(e)] = view[c][e] /\ \A p \in ChunksOf(e) : store[p] = view[c][e]
        BY <2>1, <2>5 DEF EventSound
      <4> QED BY <4>2, <4>3 DEF StoredChunked
    <3>4. BeforeSound(c, d)
      BY <2>2, <3>2, <3>3 DEF BeforeSound
    <3> QED BY <3>1, <3>2, <3>4, NextChunkedSound
  <2> QED BY <1>4, <2>3, <2>4, <2>5
<1>5. CASE j.stage = "manifest"
  <2>1. next = [j EXCEPT !.at = "accept"]
    BY <1>5 DEF Follows
  <2>2. next \in Job /\ next.at = "accept" /\ next.stage = "manifest" /\ ~ Transfers(next)
    BY <1>5, <2>1 DEF Job, Transfers
  <2>3. store[Manifest] = view[c]
    <3>1. Manifest \in BatchOf(c, j)
      BY <1>5, PathFacts DEF BatchOf
    <3> QED BY <3>1, BytesOfPath
  <2>4. \A e \in Event : StoredFor(c, e)
    BY <1>5 DEF OutcomeSound
  <2>5. OutcomeSound(c, next)
    BY <2>2, <2>3, <2>4 DEF OutcomeSound
  <2> QED BY <2>2, <2>5 DEF Sound, BatchSound, EventSound
<1> QED BY <1>1, <1>3, <1>4, <1>5

-----------------------------------------------------------------------------
(* Reads of events *)

\* An event is read in the form of its size, or not at all.
LEMMA ReadEventSound ==
  ASSUME FormSound, NEW c \in Client, NEW e \in Event, ReadEvent(c, e) # None
  PROVE  Stored(e, ReadEvent(c, e))
<1> DEFINE v == ReadEvent(c, e)
<1>1. CASE e \in job[c].direct
  <2>1. v = store[Direct(e)]
    BY <1>1 DEF ReadEvent, Verified
  <2> QED BY <2>1 DEF Stored, StoredDirect, FormSound
<1>2. CASE e \notin job[c].direct
  <2>1. v = Verified(store[Commit(e)]) /\ store[Claim(e)] = v /\ \A p \in ChunksOf(e) : store[p] = v
    BY <1>2 DEF ReadEvent, ChunkedEvent
  <2>2. store[Commit(e)] = v /\ Exists(Commit(e))
    BY <2>1 DEF Verified, Exists
  <2> QED BY <2>1, <2>2 DEF Stored, StoredChunked, FormSound
<1> QED BY <1>1, <1>2

-----------------------------------------------------------------------------
(* Steps *)

\* A step of client c disturbs no other client.
LEMMA StepSound ==
  ASSUME IInv, Grows, NEW c \in Client, NEW j \in Job, Becomes(c, j), Sound(c, j)
  PROVE  job' \in [Client -> Job] /\ \A d \in Client : Sound(d, job[d])'
<1>1. job \in [Client -> Job] /\ job' = [job EXCEPT ![c] = j]
  BY DEF IInv, TypeOK, Becomes
<1>2. ASSUME NEW d \in Client
      PROVE  Sound(d, job[d])'
  <2>1. CASE d = c
    <3>1. Sound(c, j)'
      BY SoundStays DEF IInv
    <3>2. job'[c] = j
      BY <1>1
    <3> QED BY <2>1, <3>1, <3>2
  <2>2. CASE d # c
    <3>1. job[d] \in Job /\ Sound(d, job[d])
      BY <1>1 DEF IInv
    <3>2. job'[d] = job[d]
      BY <1>1, <2>2
    <3>3. PICK k \in Job : k = job[d]
      BY <3>1
    <3>4. Sound(d, k) /\ job'[d] = k
      BY <3>1, <3>2, <3>3
    <3>5. Sound(d, k)'
      BY <3>4, SoundStays DEF IInv
    <3> QED BY <3>4, <3>5
  <2> QED BY <2>1, <2>2
<1> QED BY <1>1, <1>2

\* A step that changes no object and tells nobody anything.
LEMMA CalmStep ==
  ASSUME IInv, NEW c \in Client, NEW j \in Job, Becomes(c, j), Sound(c, j),
         UNCHANGED <<view, acked, store, accepted, archived, expanded>>,
         proven' \subseteq proven, faults' \in 0..MaxFaults
  PROVE  IInv'
<1>1. Grows
  BY DEF Grows
<1>2. job' \in [Client -> Job] /\ \A d \in Client : Sound(d, job[d])'
  BY <1>1, StepSound
<1>3. TypeOK'
  BY <1>2 DEF IInv, TypeOK
<1>4. /\ \A e \in Event : \A v : Stored(e, v)' = Stored(e, v)
      /\ \A e \in Event : \A v : StoredChunked(e, v)' = StoredChunked(e, v)
  BY DEF Stored, StoredDirect, StoredChunked
<1>5. FormSound' /\ CommitMeansWhole'
  BY <1>4 DEF IInv, FormSound, CommitMeansWhole, Exists, StoredChunked
<1>6. AcceptedIsStored' /\ ArchiveIsProven' /\ ProofsSound'
  <2>1. AcceptedIsStored'
    BY <1>4 DEF IInv, AcceptedIsStored, Stored, StoredDirect, StoredChunked
  <2>2. ArchiveIsProven'
    BY <1>4 DEF IInv, ArchiveIsProven, Stored, StoredDirect, StoredChunked
  <2>3. ProofsSound'
    BY <1>4 DEF IInv, ProofsSound, Stored, StoredDirect, StoredChunked
  <2> QED BY <2>1, <2>2, <2>3
<1> QED BY <1>2, <1>3, <1>5, <1>6 DEF IInv

\* The objects of a batch stay within it, whatever is still to be seen of it.
LEMMA SameBatch ==
  ASSUME NEW c \in Client, NEW j \in Job, NEW k \in Job, Transfers(j), Transfers(k),
         k.stage = j.stage, k.events = j.events, k.todo = j.todo, k.direct = j.direct
  PROVE  /\ BatchOf(c, k) = BatchOf(c, j)
         /\ EventSound(c, j) => EventSound(c, k)
         /\ OutcomeSound(c, j) => OutcomeSound(c, k)
<1>1. BatchOf(c, k) = BatchOf(c, j)
  BY DEF BatchOf
<1>2. BeforeSound(c, j) => BeforeSound(c, k)
  BY DEF BeforeSound
<1>3. EventSound(c, j) => EventSound(c, k)
  BY <1>2 DEF EventSound, Transfers
<1>4. OutcomeSound(c, j) => OutcomeSound(c, k)
  BY DEF OutcomeSound, Transfers
<1> QED BY <1>1, <1>3, <1>4

-----------------------------------------------------------------------------
(* One lemma for each group of actions *)

LEMMA WriteStep ==
  ASSUME IInv, NEW c \in Client, Write(c)
  PROVE  IInv'
<1>1. PICK es \in Batches : Becomes(c, StartsWrite(c, [Idle EXCEPT !.events = es]))
  BY DEF Write
<1> DEFINE j == [Idle EXCEPT !.events = es]
<1>2. j \in Job /\ j.direct = {} /\ j.stage = "none"
  BY StoreAssumption, IdleSound DEF Idle, Job
<1>3. StartsWrite(c, j) \in Job /\ Sound(c, StartsWrite(c, j))
  BY <1>2, StartsWriteSound DEF IInv
<1>4. proven' \subseteq proven /\ faults' \in 0..MaxFaults
  BY DEF Write, outcome, IInv, TypeOK
<1> QED BY <1>1, <1>3, <1>4, CalmStep DEF Write, outcome

LEMMA StatClaimsStep ==
  ASSUME IInv, NEW c \in Client, StatClaims(c)
  PROVE  IInv'
<1> DEFINE j == job[c]
<1>1. j \in Job /\ j.at = "statClaims" /\ Sound(c, j) /\ j.direct = {}
  BY DEF IInv, TypeOK, StatClaims, At, Sound, EventSound
<1>2. UNCHANGED <<view, acked, store, accepted, archived, expanded>> /\ proven' \subseteq proven
      /\ faults' \in 0..MaxFaults
  BY DEF StatClaims, outcome, IInv, TypeOK
<1>3. PICK e \in j.todo :
        LET rest == j.todo \ {e}
        IN IF Exists(Claim(e)) THEN Stops(c)
           ELSE IF rest # {} THEN Becomes(c, [j EXCEPT !.todo = rest])
           ELSE Becomes(c, Batch([j EXCEPT !.todo = {}], "direct",
                                 {Direct(d) : d \in DirectEvents(c, j.events)}))
  BY DEF StatClaims
<1>4. CASE Stops(c)
  BY <1>2, <1>4, IdleSound, CalmStep DEF Stops
<1>5. CASE Becomes(c, [j EXCEPT !.todo = @ \ {e}])
  <2> DEFINE k == [j EXCEPT !.todo = @ \ {e}]
  <2>1. k \in Job /\ k.at = "statClaims" /\ k.direct = {}
    BY <1>1 DEF Job
  <2>2. Sound(c, k)
    BY <2>1 DEF Sound, BatchSound, EventSound, OutcomeSound, Transfers
  <2> QED BY <1>2, <1>5, <2>1, <2>2, CalmStep
<1>6. CASE Becomes(c, Batch([j EXCEPT !.todo = {}], "direct",
                            {Direct(d) : d \in DirectEvents(c, j.events)}))
  <2> DEFINE k == [j EXCEPT !.todo = {}]
             paths == {Direct(d) : d \in DirectEvents(c, j.events)}
             b == Batch(k, "direct", paths)
  <2>1. k \in Job /\ k.events = j.events /\ k.direct = {}
    BY <1>1 DEF Job
  <2>2. b.at = "get" /\ b.stage = "direct" /\ b.direct = {}
    BY <2>1 DEF Batch, Job
  <2>3. EventSound(c, b) /\ OutcomeSound(c, b)
    BY <2>2 DEF EventSound, OutcomeSound
  <2>4. paths = BatchOf(c, b)
    <3>1. BatchOf(c, b) = {Direct(d) : d \in DirectEvents(c, k.events)}
      BY ONLY ZenonT(30), <2>1, BatchPaths, c \in Client
    <3> QED BY <2>1, <3>1
  <2>5. b \in Job /\ Sound(c, b)
    BY <2>1, <2>3, <2>4, BatchStartSound
  <2> QED BY <1>2, <1>6, <2>5, CalmStep
<1> QED BY <1>3, <1>4, <1>5, <1>6

LEMMA StatDirectStep ==
  ASSUME IInv, NEW c \in Client, StatDirect(c)
  PROVE  IInv'
<1> DEFINE j == job[c]
<1>1. j \in Job /\ j.at = "statDirect" /\ Sound(c, j)
  BY DEF IInv, TypeOK, StatDirect, At
<1>2. UNCHANGED <<view, acked, store, accepted, archived, expanded>> /\ proven' \subseteq proven
      /\ faults' \in 0..MaxFaults
  BY DEF StatDirect, outcome, IInv, TypeOK
<1>3. PICK e \in j.todo :
        IF Exists(Direct(e)) THEN Stops(c) ELSE Becomes(c, Batch(j, "claim", {Claim(e)}))
  BY DEF StatDirect
<1>4. CASE Stops(c)
  BY <1>2, <1>4, IdleSound, CalmStep DEF Stops
<1>5. CASE Becomes(c, Batch(j, "claim", {Claim(e)}))
  <2> DEFINE b == Batch(j, "claim", {Claim(e)})
  <2>1. j.todo = {e} /\ e \in j.events /\ view[c][e] \in Big /\ BeforeSound(c, j)
    BY <1>1 DEF Sound, EventSound
  <2>2. /\ b.at = "get" /\ b.stage = "claim" /\ b.events = j.events /\ b.todo = j.todo
        /\ b.direct = j.direct
    BY <1>1 DEF Batch, Job
  <2>3. BeforeSound(c, b)
    BY <2>1, <2>2 DEF BeforeSound
  <2>4. EventSound(c, b) /\ OutcomeSound(c, b)
    BY <2>1, <2>2, <2>3 DEF EventSound, OutcomeSound
  <2>5. {Claim(e)} = BatchOf(c, b)
    BY <1>1, <2>1, BatchPaths
  <2>6. b \in Job /\ Sound(c, b)
    BY <1>1, <2>4, <2>5, BatchStartSound
  <2> QED BY <1>2, <1>5, <2>6, CalmStep
<1> QED BY <1>3, <1>4, <1>5

LEMMA VerifyStep ==
  ASSUME IInv, NEW c \in Client, Verify(c)
  PROVE  IInv'
<1> DEFINE j == job[c]
<1>1. j \in Job /\ j.at = "verify" /\ Sound(c, j)
  BY DEF IInv, TypeOK, Verify, At
<1>2. UNCHANGED <<view, acked, store, accepted, archived, expanded>> /\ proven' \subseteq proven
      /\ faults' \in 0..MaxFaults
  BY DEF Verify, outcome, IInv, TypeOK
<1>3. PICK e \in j.todo :
        IF \A p \in ChunksOf(e) : store[p] = view[c][e]
        THEN Becomes(c, Batch(j, "commit", {Commit(e)}))
        ELSE Stops(c)
  BY DEF Verify
<1>4. CASE Stops(c)
  BY <1>2, <1>4, IdleSound, CalmStep DEF Stops
<1>5. CASE /\ \A p \in ChunksOf(e) : store[p] = view[c][e]
           /\ Becomes(c, Batch(j, "commit", {Commit(e)}))
  <2> DEFINE b == Batch(j, "commit", {Commit(e)})
  <2>1. j.todo = {e} /\ e \in j.events /\ view[c][e] \in Big /\ BeforeSound(c, j)
        /\ store[Claim(e)] = view[c][e]
    BY <1>1 DEF Sound, EventSound
  <2>2. /\ b.at = "get" /\ b.stage = "commit" /\ b.events = j.events /\ b.todo = j.todo
        /\ b.direct = j.direct
    BY <1>1 DEF Batch, Job
  <2>3. BeforeSound(c, b)
    BY <2>1, <2>2 DEF BeforeSound
  <2>4. EventSound(c, b) /\ OutcomeSound(c, b)
    BY <1>5, <2>1, <2>2, <2>3 DEF EventSound, OutcomeSound
  <2>5. {Commit(e)} = BatchOf(c, b)
    BY <1>1, <2>1, BatchPaths
  <2>6. b \in Job /\ Sound(c, b)
    BY <1>1, <2>4, <2>5, BatchStartSound
  <2> QED BY <1>2, <1>5, <2>6, CalmStep
<1> QED BY <1>3, <1>4, <1>5

LEMMA GetObjectStep ==
  ASSUME IInv, NEW c \in Client, GetObject(c)
  PROVE  IInv'
<1> DEFINE o == job[c]
<1>1. o \in Job /\ o.at = "get" /\ BatchSound(c, o) /\ EventSound(c, o) /\ OutcomeSound(c, o)
  BY DEF IInv, TypeOK, GetObject, At, Sound
<1>2. UNCHANGED <<view, acked, store, accepted, archived, expanded>> /\ proven' \subseteq proven
      /\ faults' \in 0..MaxFaults
  BY DEF GetObject, outcome, IInv, TypeOK
<1> DEFINE seen(p) == [o EXCEPT !.paths = @ \ {p},
                                !.missing = IF Exists(p) THEN @ ELSE @ \union {p}]
<1>3. PICK p \in o.paths :
        IF Exists(p) /\ ~ Unchanged(c, p) THEN Stops(c)
        ELSE IF seen(p).paths # {} THEN Becomes(c, seen(p))
        ELSE IF seen(p).missing # {} THEN Becomes(c, [seen(p) EXCEPT !.at = "post"])
        ELSE Becomes(c, Follows(c, seen(p)))
  BY DEF GetObject
<1>4. CASE Stops(c)
  BY <1>2, <1>4, IdleSound, CalmStep DEF Stops
<1>5. CASE ~ (Exists(p) /\ ~ Unchanged(c, p))
  <2>1. p \in Path
    BY <1>1 DEF Job
  <2>2. PICK j \in Job : j = seen(p)
    BY <1>1, <2>1 DEF Job
  <2>3. /\ j.at = "get" /\ j.stage = o.stage /\ j.events = o.events /\ j.todo = o.todo
        /\ j.direct = o.direct /\ j.paths = o.paths \ {p}
        /\ j.missing = IF Exists(p) THEN o.missing ELSE o.missing \union {p}
    BY <1>1, <2>2 DEF Job
  <2>4. Transfers(o) /\ Transfers(j)
    BY <1>1, <2>3 DEF Transfers
  <2>5. BatchOf(c, j) = BatchOf(c, o) /\ EventSound(c, j) /\ OutcomeSound(c, j)
    BY <1>1, <2>3, <2>4, SameBatch
  <2>6. Unseen(o) \subseteq BatchOf(c, o) /\ \A q \in BatchOf(c, o) \ Unseen(o) : store[q] = BytesOf(c, q)
    BY <1>1, <2>4 DEF BatchSound
  <2>7. Unseen(o) = o.paths \union o.missing /\ Unseen(j) = j.paths \union j.missing
    BY <1>1, <2>3 DEF Unseen
  <2>8. /\ Unseen(j) \subseteq BatchOf(c, j)
        /\ \A q \in BatchOf(c, j) \ Unseen(j) : store[q] = BytesOf(c, q)
    BY <1>3, <1>5, <2>3, <2>5, <2>6, <2>7 DEF Unchanged
  <2>9. j.stage # "none"
    BY <1>1, <2>3, <2>4 DEF BatchSound
  <2>10. Sound(c, j)
    BY <2>5, <2>8, <2>9 DEF Sound, BatchSound
  <2>11. CASE Becomes(c, j)
    BY <1>2, <2>10, <2>11, CalmStep
  <2>12. CASE j.paths = {} /\ Becomes(c, [j EXCEPT !.at = "post"])
    <3> DEFINE k == [j EXCEPT !.at = "post"]
    <3>1. /\ k \in Job /\ k.at = "post" /\ k.stage = j.stage /\ k.events = j.events
          /\ k.todo = j.todo /\ k.direct = j.direct /\ k.missing = j.missing
      BY DEF Job
    <3>2. Transfers(k)
      BY <3>1 DEF Transfers
    <3>3. BatchOf(c, k) = BatchOf(c, j) /\ EventSound(c, k) /\ OutcomeSound(c, k)
      BY <2>4, <2>5, <3>1, <3>2, SameBatch
    <3>4. Unseen(k) = Unseen(j)
      BY <2>7, <2>12, <3>1 DEF Unseen
    <3>5. BatchSound(c, k)
      BY <2>8, <2>9, <3>1, <3>3, <3>4 DEF BatchSound
    <3> QED BY <1>2, <2>12, <3>1, <3>3, <3>5, CalmStep DEF Sound
  <2>13. CASE j.paths = {} /\ j.missing = {} /\ Becomes(c, Follows(c, j))
    <3>1. \A q \in BatchOf(c, j) : store[q] = BytesOf(c, q)
      BY <2>7, <2>8, <2>13
    <3>2. Follows(c, j) \in Job /\ Sound(c, Follows(c, j))
      BY <2>4, <2>5, <2>9, <3>1, FollowsSound DEF IInv
    <3> QED BY <1>2, <2>13, <3>2, CalmStep
  <2> QED BY <1>3, <1>4, <1>5, <2>2, <2>11, <2>12, <2>13
<1> QED BY <1>3, <1>4, <1>5

\* The server creates objects of the batch that are missing.
LEMMA CreatedGrows ==
  ASSUME TypeOK, NEW c \in Client, NEW paths \in SUBSET Path,
         store' = Created(c, paths), UNCHANGED view
  PROVE  /\ Grows /\ store' \in [Path -> Bytes]
         /\ \A p \in Path : store'[p] # store[p] =>
              p \in paths /\ store[p] = None /\ store'[p] = BytesOf(c, p)
<1>1. \A p \in Path : BytesOf(c, p) \in Bytes /\ store[p] \in Bytes
  BY BytesOfType DEF TypeOK
<1> QED BY <1>1 DEF Grows, Created, Exists

\* It may create them at once or a part of them: an event keeps the form of its
\* size, and its commit comes last.
LEMMA PostStep ==
  ASSUME IInv, NEW c \in Client, At(c, "post"), NEW paths \in SUBSET job[c].missing,
         store' = Created(c, paths), NEW j \in Job, Becomes(c, j), Sound(c, j),
         UNCHANGED <<view, acked, outcome>>, faults' \in 0..MaxFaults
  PROVE  IInv'
<1> DEFINE o == job[c]
<1>1. o \in Job /\ o.at = "post" /\ BatchSound(c, o) /\ EventSound(c, o)
  BY DEF IInv, TypeOK, At, Sound
<1>2. paths \in SUBSET Path /\ paths \subseteq BatchOf(c, o)
  BY <1>1 DEF Job, BatchSound, Transfers, Unseen
<1>3. Grows /\ store' \in [Path -> Bytes]
  BY <1>2, CreatedGrows DEF IInv
<1>4. \A p \in Path : store'[p] # store[p] => p \in paths /\ store[p] = None /\ store'[p] = BytesOf(c, p)
  BY <1>2, CreatedGrows DEF IInv
<1>5. job' \in [Client -> Job] /\ \A d \in Client : Sound(d, job[d])'
  BY <1>3, StepSound
<1>6. TypeOK'
  BY <1>3, <1>5 DEF IInv, TypeOK, outcome
<1>7. \A d \in Client : view[d] \in Views /\ \A e \in Event : view[d][e] # None
  BY ViewType DEF IInv
<1>8. o.events \subseteq Event /\ o.todo \subseteq Event
  BY <1>1 DEF Job
<1>9. ASSUME NEW e \in Event, Direct(e) \in paths
       PROVE  view[c][e] \notin Big
  <2>1. \E d \in DirectEvents(c, o.events) : Direct(e) = Direct(d)
    BY <1>2, <1>8, <1>9, PathsDiffer DEF BatchOf
  <2>2. e \in DirectEvents(c, o.events)
    BY <1>8, <2>1, PathsDiffer DEF DirectEvents
  <2> QED BY <2>2 DEF DirectEvents
<1>10. ASSUME NEW e \in Event, Commit(e) \in paths
       PROVE  view[c][e] \in Big /\ store[Claim(e)] = view[c][e]
              /\ \A p \in ChunksOf(e) : store[p] = view[c][e]
  <2>1. o.stage = "commit" /\ \E d \in o.todo : Commit(e) = Commit(d)
    BY <1>2, <1>8, <1>10, PathsDiffer DEF BatchOf, DirectEvents
  <2>2. e \in o.todo
    BY <1>8, <2>1, PathsDiffer
  <2> QED BY <1>1, <2>1, <2>2 DEF EventSound, Transfers
<1>11. FormSound'
  <2> SUFFICES ASSUME NEW e \in Event
               PROVE  store'[Direct(e)] \notin Big /\ (store'[Commit(e)] # None => store'[Commit(e)] \in Big)
    BY DEF FormSound, Exists
  <2>1. store'[Direct(e)] \notin Big
    BY <1>4, <1>9, PathFacts, BytesOfPath DEF IInv, FormSound
  <2>2. store'[Commit(e)] # None => store'[Commit(e)] \in Big
    BY <1>4, <1>10, PathFacts, BytesOfPath DEF IInv, FormSound, Exists
  <2> QED BY <2>1, <2>2
<1>12. CommitMeansWhole'
  <2> SUFFICES ASSUME NEW e \in Event, store'[Commit(e)] # None
               PROVE  StoredChunked(e, store[Commit(e)])'
    BY DEF CommitMeansWhole, Exists
  <2>1. CASE store[Commit(e)] # None
    <3>1. store'[Commit(e)] = store[Commit(e)]
      BY <1>3, <2>1, PathFacts DEF Grows, Exists
    <3>2. store[Claim(e)] = store[Commit(e)] /\ \A p \in ChunksOf(e) : store[p] = store[Commit(e)]
      BY <2>1 DEF IInv, CommitMeansWhole, StoredChunked, Exists
    <3>3. \A p \in {Claim(e)} \union ChunksOf(e) : store'[p] = store[p]
      BY <1>3, <2>1, <3>2, PathFacts DEF Grows, Exists
    <3> QED BY <3>1, <3>2, <3>3 DEF StoredChunked
  <2>2. CASE store[Commit(e)] = None
    <3>1. Commit(e) \in paths /\ store'[Commit(e)] = view[c][e]
      BY <1>4, <2>2, PathFacts, BytesOfPath
    <3>2. \A p \in {Claim(e)} \union ChunksOf(e) : store[p] = view[c][e]
      BY <1>10, <3>1
    <3>3. \A p \in {Claim(e)} \union ChunksOf(e) : store'[p] = store[p]
      BY <1>3, <1>7, <3>2, PathFacts DEF Grows, Exists
    <3> QED BY <3>1, <3>2, <3>3 DEF StoredChunked
  <2> QED BY <2>1, <2>2
<1>13. AcceptedIsStored'
  <2> SUFFICES ASSUME NEW d \in Client, NEW e \in accepted[d]
               PROVE  Stored(e, view[d][e])'
    BY DEF AcceptedIsStored, outcome
  <2>1. e \in Event /\ Stored(e, view[d][e]) /\ view[d][e] # None /\ view' = view
    BY <1>7 DEF IInv, AcceptedIsStored, TypeOK
  <2>2. \A p \in Path : store[p] = view[d][e] => store'[p] = view[d][e]
    BY <1>3, <2>1 DEF Grows, Exists
  <2> QED BY <2>1, <2>2, PathFacts DEF Stored, StoredDirect, StoredChunked
<1>14. store[Manifest] \in Views => store'[Manifest] = store[Manifest]
  BY <1>3, PathFacts, StoreAssumption DEF Grows, Exists
<1>15. ASSUME NEW e \in Event, store[Manifest] \in Views, Stored(e, store[Manifest][e])
       PROVE  Stored(e, store[Manifest][e])'
  <2>1. store[Manifest][e] # None /\ store'[Manifest][e] = store[Manifest][e]
    BY <1>14, <1>15, StoreAssumption
  <2>2. \A p \in Path : store[p] = store[Manifest][e] => store'[p] = store[Manifest][e]
    BY <1>3, <2>1 DEF Grows, Exists
  <2> QED BY <1>15, <2>1, <2>2, PathFacts DEF Stored, StoredDirect, StoredChunked
<1>16. ProofsSound'
  <2>1. archived' \union proven' # {} => store'[Manifest] \in Views
    BY <1>14 DEF ProofsSound, IInv, outcome
  <2>2. ASSUME NEW d \in Client, expanded'[d] # None
        PROVE  expanded'[d] = store'[Manifest] /\ \A e \in Event : Stored(e, store[Manifest][e])'
    <3>1. expanded[d] = store[Manifest] /\ store[Manifest] \in Views
      BY <2>2 DEF ProofsSound, IInv, TypeOK, outcome
    <3>2. \A e \in Event : Stored(e, store[Manifest][e])'
      BY <1>15, <2>2, <3>1 DEF ProofsSound, IInv, outcome
    <3> QED BY <1>14, <2>2, <3>1, <3>2 DEF outcome
  <2> QED BY <2>1, <2>2 DEF ProofsSound
<1>17. ArchiveIsProven'
  <2>1. \A d \in archived : store'[Manifest] = view'[d]
    BY <1>7, <1>14 DEF IInv, ArchiveIsProven, TypeOK
  <2>2. \A d \in archived \union proven : \A e \in Event : Stored(e, store[Manifest][e])'
    BY <1>15 DEF IInv, ArchiveIsProven, ProofsSound
  <2> QED BY <2>1, <2>2 DEF ArchiveIsProven, outcome
<1> QED BY <1>5, <1>6, <1>11, <1>12, <1>13, <1>16, <1>17 DEF IInv

LEMMA PostActionsStep ==
  ASSUME IInv, NEW c \in Client, PostAccepted(c) \/ PostFails(c) \/ PostBusy(c)
  PROVE  IInv'
<1> DEFINE o == job[c]
<1>1. At(c, "post")
  BY DEF PostAccepted, PostFails, PostBusy
<1>2. o \in Job /\ o.at = "post" /\ BatchSound(c, o) /\ EventSound(c, o) /\ OutcomeSound(c, o)
  BY <1>1 DEF IInv, TypeOK, At, Sound
<1>3. faults \in 0..MaxFaults /\ (Fault => faults' \in 0..MaxFaults)
  BY StoreAssumption DEF IInv, TypeOK, Fault
<1>4. CASE PostAccepted(c)
  <2>1. PICK j \in Job : j = AfterPost(c)
    BY <1>2 DEF AfterPost, Job
  <2>2. /\ j.at = "back" /\ j.paths = o.missing /\ j.stage = o.stage /\ j.events = o.events
        /\ j.todo = o.todo /\ j.direct = o.direct
    BY <1>2, <2>1 DEF AfterPost, Job
  <2>3. Transfers(o) /\ Transfers(j) /\ Unseen(j) = Unseen(o)
    BY <1>2, <2>2 DEF Transfers, Unseen
  <2>4. BatchOf(c, j) = BatchOf(c, o) /\ EventSound(c, j) /\ OutcomeSound(c, j)
    BY <1>2, <2>2, <2>3, SameBatch
  <2>5. BatchSound(c, j)
    BY <1>2, <2>2, <2>3, <2>4 DEF BatchSound
  <2>6. Sound(c, j) /\ Becomes(c, j) /\ store' = Created(c, job[c].missing)
    BY <1>4, <2>1, <2>4, <2>5 DEF Sound, PostAccepted
  <2>7. UNCHANGED <<view, acked, outcome>> /\ faults' \in 0..MaxFaults
    BY <1>3, <1>4 DEF PostAccepted
  <2> QED BY <1>1, <2>6, <2>7, PostStep
<1>5. CASE PostFails(c)
  <2>1. PICK some \in SUBSET job[c].missing : store' = Created(c, some)
    BY <1>5 DEF PostFails
  <2>2. UNCHANGED <<view, acked, outcome>> /\ faults' \in 0..MaxFaults /\ Stops(c)
    BY <1>3, <1>5 DEF PostFails
  <2> QED BY <1>1, <2>1, <2>2, IdleSound, PostStep DEF Stops
<1>6. CASE PostBusy(c)
  <2>1. UNCHANGED <<view, acked, store, accepted, archived, expanded>> /\ proven' \subseteq proven
        /\ faults' \in 0..MaxFaults
    BY <1>3, <1>6 DEF PostBusy, outcome
  <2>2. CASE Stops(c)
    BY <2>1, <2>2, IdleSound, CalmStep DEF Stops
  <2>3. CASE o.tries # MaxBusy /\ Repeats(c, [o EXCEPT !.tries = @ + 1, !.direct = {}])
    <3>1. o.tries + 1 \in 0..MaxBusy
      BY <1>2, <2>3, StoreAssumption DEF Job
    <3>2. PICK j \in Job : j = [o EXCEPT !.tries = @ + 1, !.direct = {}]
      BY <1>2, <3>1 DEF Job
    <3>3. j.direct = {} /\ j.stage = o.stage
      BY <1>2, <3>2 DEF Job
    <3>4. CASE j.stage = "manifest"
      <4> DEFINE b == Batch(j, "manifest", {Manifest})
      <4>1. b.at = "get" /\ b.stage = "manifest"
        BY DEF Batch, Job
      <4>2. \A e \in Event : StoredFor(c, e)
        BY <1>2, <3>3, <3>4 DEF OutcomeSound, Transfers
      <4>3. EventSound(c, b) /\ OutcomeSound(c, b)
        BY <4>1, <4>2 DEF EventSound, OutcomeSound, Transfers
      <4>4. {Manifest} = BatchOf(c, b)
        BY BatchPaths
      <4>5. b \in Job /\ Sound(c, b)
        BY <4>3, <4>4, BatchStartSound
      <4>6. Becomes(c, b)
        BY <2>3, <3>2, <3>4 DEF Repeats
      <4> QED BY <2>1, <4>5, <4>6, CalmStep
    <3>5. CASE j.stage # "manifest"
      <4>1. PICK k \in Job : k = [j EXCEPT !.missing = {}, !.paths = {}]
        BY DEF Job
      <4>2. k.direct = {} /\ k.stage # "manifest"
        BY <3>3, <3>5, <4>1 DEF Job
      <4>3. StartsWrite(c, k) \in Job /\ Sound(c, StartsWrite(c, k))
        BY <4>2, StartsWriteSound DEF IInv
      <4>4. Becomes(c, StartsWrite(c, k))
        BY <2>3, <3>2, <3>5, <4>1 DEF Repeats
      <4> QED BY <2>1, <4>3, <4>4, CalmStep
    <3> QED BY <3>4, <3>5
  <2> QED BY <1>6, <2>2, <2>3 DEF PostBusy
<1> QED BY <1>4, <1>5, <1>6

LEMMA ReadBackStep ==
  ASSUME IInv, NEW c \in Client, ReadBack(c)
  PROVE  IInv'
<1> DEFINE o == job[c]
<1>1. o \in Job /\ o.at = "back" /\ BatchSound(c, o) /\ EventSound(c, o) /\ OutcomeSound(c, o)
  BY DEF IInv, TypeOK, ReadBack, At, Sound
<1>2. UNCHANGED <<view, acked, store, accepted, archived, expanded>> /\ proven' \subseteq proven
      /\ faults' \in 0..MaxFaults
  BY DEF ReadBack, outcome, IInv, TypeOK
<1>3. PICK p \in o.paths :
        LET j == [o EXCEPT !.paths = @ \ {p}]
        IN IF store[p] # BytesOf(c, p) THEN Stops(c)
           ELSE Becomes(c, IF j.paths = {} THEN Follows(c, j) ELSE j)
  BY DEF ReadBack
<1>4. CASE Stops(c)
  BY <1>2, <1>4, IdleSound, CalmStep DEF Stops
<1>5. CASE store[p] = BytesOf(c, p)
  <2>1. PICK j \in Job : j = [o EXCEPT !.paths = @ \ {p}]
    BY <1>1 DEF Job
  <2>2. /\ j.at = "back" /\ j.paths = o.paths \ {p} /\ j.stage = o.stage /\ j.events = o.events
        /\ j.todo = o.todo /\ j.direct = o.direct
    BY <1>1, <2>1 DEF Job
  <2>3. Transfers(o) /\ Transfers(j) /\ Unseen(j) = j.paths /\ Unseen(o) = o.paths
    BY <1>1, <2>2 DEF Transfers, Unseen
  <2>4. BatchOf(c, j) = BatchOf(c, o) /\ EventSound(c, j) /\ OutcomeSound(c, j)
    BY <1>1, <2>2, <2>3, SameBatch
  <2>5. /\ Unseen(j) \subseteq BatchOf(c, j)
        /\ \A q \in BatchOf(c, j) \ Unseen(j) : store[q] = BytesOf(c, q)
    BY <1>1, <1>5, <2>2, <2>3, <2>4 DEF BatchSound
  <2>6. j.stage # "none"
    BY <1>1, <2>2, <2>3 DEF BatchSound
  <2>7. CASE j.paths # {}
    <3>1. Sound(c, j)
      BY <2>4, <2>5, <2>6 DEF Sound, BatchSound
    <3>2. Becomes(c, j)
      BY <1>3, <1>5, <2>1, <2>7
    <3> QED BY <1>2, <3>1, <3>2, CalmStep
  <2>8. CASE j.paths = {}
    <3>1. \A q \in BatchOf(c, j) : store[q] = BytesOf(c, q)
      BY <2>3, <2>5, <2>8
    <3>2. Follows(c, j) \in Job /\ Sound(c, Follows(c, j))
      BY <2>3, <2>4, <2>6, <3>1, FollowsSound DEF IInv
    <3>3. Becomes(c, Follows(c, j))
      BY <1>3, <1>5, <2>1, <2>8
    <3> QED BY <1>2, <3>2, <3>3, CalmStep
  <2> QED BY <2>7, <2>8
<1> QED BY <1>3, <1>4, <1>5

\* A step that tells a client something of what is stored.
LEMMA TellingStep ==
  ASSUME IInv, NEW c \in Client, Stops(c), UNCHANGED <<view, acked, store, faults>>,
         accepted' \in [Client -> SUBSET Event], proven' \subseteq Client, archived' \subseteq Client,
         expanded' \in [Client -> Views \union {None}],
         AcceptedIsStored', ArchiveIsProven', ProofsSound'
  PROVE  IInv'
<1>1. Grows
  BY DEF Grows
<1>2. job' \in [Client -> Job] /\ \A d \in Client : Sound(d, job[d])'
  BY <1>1, StepSound, IdleSound DEF Stops
<1>3. TypeOK'
  BY <1>2 DEF IInv, TypeOK
<1>4. FormSound' /\ CommitMeansWhole'
  BY DEF IInv, FormSound, CommitMeansWhole, Exists, StoredChunked
<1> QED BY <1>2, <1>3, <1>4 DEF IInv

LEMMA AcceptStep ==
  ASSUME IInv, NEW c \in Client, Accept(c)
  PROVE  IInv'
<1> DEFINE o == job[c]
<1>1. o \in Job /\ o.at = "accept" /\ OutcomeSound(c, o)
  BY DEF IInv, TypeOK, Accept, At, Sound
<1>2. Stops(c) /\ UNCHANGED <<view, acked, store, expanded, faults>>
  BY DEF Accept
<1>3. CASE o.stage = "manifest"
  <2>1. archived' = archived \union {c} /\ proven' = proven \union {c} /\ accepted' = accepted
    BY <1>3 DEF Accept
  <2>2. store[Manifest] = view[c] /\ \A e \in Event : Stored(e, view[c][e])
    BY <1>1, <1>3 DEF OutcomeSound, StoredFor
  <2>3. view[c] \in Views
    BY ViewType DEF IInv
  <2>4. AcceptedIsStored'
    BY <1>2, <2>1 DEF IInv, AcceptedIsStored, Stored, StoredDirect, StoredChunked
  <2>5. ArchiveIsProven'
    <3>1. \A d \in archived \union {c} : store[Manifest] = view[d]
      BY <2>2 DEF IInv, ArchiveIsProven
    <3>2. \A d \in archived \union proven \union {c} : \A e \in Event : Stored(e, store[Manifest][e])
      BY <2>2 DEF IInv, ArchiveIsProven
    <3> QED BY <1>2, <2>1, <3>1, <3>2 DEF ArchiveIsProven, Stored, StoredDirect, StoredChunked
  <2>6. ProofsSound'
    BY <1>2, <2>1, <2>2, <2>3 DEF IInv, ProofsSound, Stored, StoredDirect, StoredChunked
  <2> QED BY <1>2, <2>1, <2>4, <2>5, <2>6, TellingStep DEF IInv, TypeOK
<1>4. CASE o.stage # "manifest"
  <2>1. /\ accepted' = [accepted EXCEPT ![c] = @ \union o.events]
        /\ archived' = archived /\ proven' = proven
    BY <1>4 DEF Accept
  <2>2. \A e \in o.events : Stored(e, view[c][e])
    BY <1>1, <1>4 DEF OutcomeSound, StoredFor
  <2>3. accepted' \in [Client -> SUBSET Event]
    BY <1>1, <2>1 DEF IInv, TypeOK, Job
  <2>4. \A d \in Client : \A e \in accepted'[d] : Stored(e, view[d][e])
    BY <2>1, <2>2 DEF IInv, TypeOK, AcceptedIsStored
  <2>5. AcceptedIsStored'
    BY <1>2, <2>4 DEF AcceptedIsStored, Stored, StoredDirect, StoredChunked
  <2>6. ArchiveIsProven' /\ ProofsSound'
    BY <1>2, <2>1 DEF IInv, ArchiveIsProven, ProofsSound, Stored, StoredDirect, StoredChunked
  <2> QED BY <1>2, <2>1, <2>3, <2>5, <2>6, TellingStep DEF IInv, TypeOK
<1> QED BY <1>3, <1>4

\* A client that begins a call, or stops, while nothing is told.
LEMMA BeginStep ==
  ASSUME IInv, NEW c \in Client, Archive(c) \/ Expand(c) \/ Fails(c)
  PROVE  IInv'
<1>1. UNCHANGED <<view, acked, store, accepted, archived, expanded>> /\ proven' \subseteq proven
      /\ faults' \in 0..MaxFaults
  BY StoreAssumption DEF Archive, Expand, Fails, Fault, outcome, IInv, TypeOK
<1>2. CASE Stops(c)
  BY <1>1, <1>2, IdleSound, CalmStep DEF Stops
<1>3. CASE Archive(c)
  <2> DEFINE j == [Idle EXCEPT !.at = "readManifest"]
  <2>1. j \in Job /\ j.at = "readManifest"
    BY IdleSound DEF Idle, Job
  <2>2. Sound(c, j)
    BY <2>1 DEF Sound, BatchSound, EventSound, OutcomeSound, Transfers
  <2> QED BY <1>1, <1>3, <2>1, <2>2, CalmStep DEF Archive
<1>4. CASE IsManifest(store[Manifest]) /\ Becomes(c, [Idle EXCEPT !.at = "expand", !.todo = Event])
  <2> DEFINE j == [Idle EXCEPT !.at = "expand", !.todo = Event]
  <2>1. j \in Job /\ j.at = "expand" /\ j.todo = Event
    BY IdleSound DEF Idle, Job
  <2>2. Sound(c, j)
    BY <1>4, <2>1 DEF Sound, BatchSound, EventSound, OutcomeSound, Transfers, IsManifest
  <2> QED BY <1>1, <1>4, <2>1, <2>2, CalmStep
<1> QED BY <1>2, <1>3, <1>4 DEF Expand, Fails

LEMMA ReadManifestStep ==
  ASSUME IInv, NEW c \in Client, ReadManifest(c)
  PROVE  IInv'
<1> DEFINE o == job[c]
           prove == [o EXCEPT !.at = "prove", !.todo = Event]
<1>1. o \in Job
  BY DEF IInv, TypeOK
<1>2. UNCHANGED <<view, acked, store, accepted, expanded, faults>> /\ faults' \in 0..MaxFaults
  BY DEF ReadManifest, IInv, TypeOK
<1>3. prove \in Job /\ Sound(c, prove)
  <2>1. prove \in Job /\ prove.at = "prove" /\ prove.todo = Event
    BY <1>1 DEF Job
  <2> QED BY <2>1 DEF Sound, BatchSound, EventSound, OutcomeSound, Transfers
<1>4. CASE store[Manifest] = view[c] /\ c \in proven
  <2>1. archived' = archived \union {c} /\ proven' = proven /\ Stops(c)
    BY <1>4 DEF ReadManifest
  <2>2. ArchiveIsProven'
    BY <1>2, <1>4, <2>1 DEF IInv, ArchiveIsProven, Stored, StoredDirect, StoredChunked
  <2>3. AcceptedIsStored' /\ ProofsSound'
    BY <1>2, <1>4, <2>1 DEF IInv, AcceptedIsStored, ProofsSound, Stored, StoredDirect, StoredChunked
  <2> QED BY <1>2, <2>1, <2>2, <2>3, TellingStep DEF IInv, TypeOK
<1>5. CASE ~ (store[Manifest] = view[c] /\ c \in proven)
  <2>1. archived' = archived /\ proven' \subseteq proven /\ (Becomes(c, prove) \/ Stops(c))
    BY <1>5 DEF ReadManifest
  <2> QED BY <1>2, <1>3, <2>1, IdleSound, CalmStep DEF Stops
<1> QED BY <1>4, <1>5

LEMMA LooksForDirectStep ==
  ASSUME IInv, NEW c \in Client, LookForProof(c) \/ LookForEvent(c)
  PROVE  IInv'
<1> DEFINE o == job[c]
           look(e, after) == [o EXCEPT !.at = after, !.todo = {e}, !.events = o.todo,
                                       !.direct = IF Exists(Direct(e)) THEN {e} ELSE {}]
<1>1. o \in Job /\ OutcomeSound(c, o)
  BY DEF IInv, TypeOK, Sound
<1>2. UNCHANGED <<view, acked, store, accepted, archived, expanded>> /\ proven' \subseteq proven
      /\ faults' \in 0..MaxFaults
  BY DEF LookForProof, LookForEvent, LooksForDirect, outcome, IInv, TypeOK
<1>3. PICK e \in o.todo : \/ o.at = "prove" /\ Becomes(c, look(e, "proveCommit"))
                          \/ o.at = "expand" /\ Becomes(c, look(e, "expandCommit"))
  BY DEF LookForProof, LookForEvent, LooksForDirect, At
<1>4. o.todo \subseteq Event /\ e \in Event
  BY <1>1 DEF Job
<1>5. ASSUME NEW after \in {"proveCommit", "expandCommit"}
      PROVE  /\ look(e, after) \in Job /\ look(e, after).at = after
             /\ look(e, after).todo = {e} /\ look(e, after).events = o.todo
  BY <1>1, <1>4 DEF Job
<1>6. CASE o.at = "prove" /\ Becomes(c, look(e, "proveCommit"))
  <2>1. PICK j \in Job : j = look(e, "proveCommit")
    BY <1>5
  <2>2. j.at = "proveCommit" /\ j.todo = {e} /\ j.events = o.todo
    BY <1>5, <2>1
  <2>3. OutcomeSound(c, j)
    BY <1>1, <1>6, <2>2 DEF OutcomeSound, Transfers
  <2>4. Sound(c, j)
    BY <2>2, <2>3 DEF Sound, BatchSound, EventSound, Transfers
  <2> QED BY <1>2, <1>6, <2>1, <2>4, CalmStep
<1>7. CASE o.at = "expand" /\ Becomes(c, look(e, "expandCommit"))
  <2>1. PICK j \in Job : j = look(e, "expandCommit")
    BY <1>5
  <2>2. j.at = "expandCommit" /\ j.todo = {e} /\ j.events = o.todo
    BY <1>5, <2>1
  <2>3. OutcomeSound(c, j)
    BY <1>1, <1>7, <2>2 DEF OutcomeSound, Transfers
  <2>4. Sound(c, j)
    BY <2>2, <2>3 DEF Sound, BatchSound, EventSound, Transfers
  <2> QED BY <1>2, <1>7, <2>1, <2>4, CalmStep
<1> QED BY <1>3, <1>6, <1>7

LEMMA ProveStep ==
  ASSUME IInv, NEW c \in Client, Prove(c)
  PROVE  IInv'
<1> DEFINE o == job[c]
<1>1. o \in Job /\ o.at = "proveCommit" /\ OutcomeSound(c, o)
  BY DEF IInv, TypeOK, Sound, Prove, At
<1>2. UNCHANGED <<view, acked, store, accepted, archived, expanded>> /\ proven' \subseteq proven
      /\ faults' \in 0..MaxFaults
  BY DEF Prove, outcome, IInv, TypeOK
<1>3. PICK e \in o.todo :
        LET rest == o.events \ {e}
        IN IF ~ Proven(c, e) THEN Stops(c)
           ELSE IF rest # {}
           THEN Becomes(c, [o EXCEPT !.at = "prove", !.todo = rest, !.direct = {}])
           ELSE Becomes(c, Batch([o EXCEPT !.direct = {}, !.events = {}, !.todo = {}],
                                 "manifest", {Manifest}))
  BY DEF Prove
<1>4. CASE Stops(c)
  BY <1>2, <1>4, IdleSound, CalmStep DEF Stops
<1>5. CASE Proven(c, e)
  <2>1. e \in Event /\ o.events \subseteq Event /\ \A d \in Event \ o.events : StoredFor(c, d)
    BY <1>1 DEF Job, OutcomeSound
  <2>2. StoredFor(c, e)
    BY <1>5, <2>1, ViewType, ReadEventSound DEF Proven, StoredFor, IInv
  <2>3. CASE o.events \ {e} # {}
    <3>1. PICK j \in Job : j = [o EXCEPT !.at = "prove", !.todo = o.events \ {e}, !.direct = {}]
      BY <1>1 DEF Job
    <3>2. j.at = "prove" /\ j.todo = o.events \ {e}
      BY <1>1, <3>1 DEF Job
    <3>3. OutcomeSound(c, j)
      BY <2>1, <2>2, <3>2 DEF OutcomeSound, Transfers
    <3>4. Sound(c, j)
      BY <3>2, <3>3 DEF Sound, BatchSound, EventSound, Transfers
    <3> QED BY <1>2, <1>3, <1>5, <2>3, <3>1, <3>4, CalmStep
  <2>4. CASE o.events \ {e} = {}
    <3>1. PICK j \in Job : j = [o EXCEPT !.direct = {}, !.events = {}, !.todo = {}]
      BY <1>1 DEF Job
    <3> DEFINE b == Batch(j, "manifest", {Manifest})
    <3>2. b.at = "get" /\ b.stage = "manifest"
      BY DEF Batch, Job
    <3>3. \A d \in Event : StoredFor(c, d)
      BY <2>1, <2>2, <2>4
    <3>4. EventSound(c, b) /\ OutcomeSound(c, b)
      BY <3>2, <3>3 DEF EventSound, OutcomeSound, Transfers
    <3>5. {Manifest} = BatchOf(c, b)
      BY BatchPaths
    <3>6. b \in Job /\ Sound(c, b)
      BY <3>4, <3>5, BatchStartSound
    <3>7. Becomes(c, b)
      BY <1>3, <1>5, <2>4, <3>1
    <3> QED BY <1>2, <3>6, <3>7, CalmStep
  <2> QED BY <2>3, <2>4
<1> QED BY <1>3, <1>4, <1>5

LEMMA ExpandEventStep ==
  ASSUME IInv, NEW c \in Client, ExpandEvent(c)
  PROVE  IInv'
<1> DEFINE o == job[c]
<1>1. o \in Job /\ o.at = "expandCommit" /\ OutcomeSound(c, o)
  BY DEF IInv, TypeOK, Sound, ExpandEvent, At
<1>2. UNCHANGED <<view, acked, store, accepted, archived, faults>> /\ faults' \in 0..MaxFaults
  BY DEF ExpandEvent, IInv, TypeOK
<1>3. PICK e \in o.todo :
        LET rest == o.events \ {e}
        IN IF ~ Expanded(c, e) THEN Stops(c) /\ UNCHANGED <<proven, expanded>>
           ELSE IF rest # {}
           THEN /\ Becomes(c, [o EXCEPT !.at = "expand", !.todo = rest, !.direct = {}])
                /\ UNCHANGED <<proven, expanded>>
           ELSE /\ Stops(c)
                /\ proven' = proven \union {c}
                /\ expanded' = [expanded EXCEPT ![c] = store[Manifest]]
  BY DEF ExpandEvent
<1>4. CASE Stops(c) /\ UNCHANGED <<proven, expanded>>
  BY <1>2, <1>4, IdleSound, CalmStep DEF Stops
<1>5. CASE Expanded(c, e)
  <2>1. /\ e \in Event /\ o.events \subseteq Event /\ store[Manifest] \in Views
        /\ \A d \in Event \ o.events : Stored(d, store[Manifest][d])
    BY <1>1 DEF Job, OutcomeSound
  <2>2. Stored(e, store[Manifest][e])
    <3>1. store[Manifest][e] # None
      BY <2>1, StoreAssumption
    <3> QED BY <1>5, <2>1, <3>1, ReadEventSound DEF Expanded, IInv
  <2>3. CASE o.events \ {e} # {}
    <3>1. PICK j \in Job : j = [o EXCEPT !.at = "expand", !.todo = o.events \ {e}, !.direct = {}]
      BY <1>1 DEF Job
    <3>2. j.at = "expand" /\ j.todo = o.events \ {e}
      BY <1>1, <3>1 DEF Job
    <3>3. OutcomeSound(c, j)
      BY <2>1, <2>2, <3>2 DEF OutcomeSound, Transfers
    <3>4. Sound(c, j)
      BY <3>2, <3>3 DEF Sound, BatchSound, EventSound, Transfers
    <3> QED BY <1>2, <1>3, <1>5, <2>3, <3>1, <3>4, CalmStep
  <2>4. CASE o.events \ {e} = {}
    <3>1. /\ Stops(c) /\ proven' = proven \union {c}
          /\ expanded' = [expanded EXCEPT ![c] = store[Manifest]]
      BY <1>3, <1>5, <2>4
    <3>2. \A d \in Event : Stored(d, store[Manifest][d])
      BY <2>1, <2>2, <2>4
    <3>3. expanded' \in [Client -> Views \union {None}] /\ proven' \subseteq Client
      BY <2>1, <3>1 DEF IInv, TypeOK
    <3>4. AcceptedIsStored'
      BY <1>2 DEF IInv, AcceptedIsStored, Stored, StoredDirect, StoredChunked
    <3>5. ArchiveIsProven'
      BY <1>2, <3>1, <3>2 DEF IInv, ArchiveIsProven, Stored, StoredDirect, StoredChunked
    <3>6. ProofsSound'
      <4>1. \A d \in Client : expanded'[d] # None =>
              expanded'[d] = store[Manifest] /\ \A x \in Event : Stored(x, store[Manifest][x])
        BY <3>1, <3>2 DEF IInv, TypeOK, ProofsSound
      <4> QED BY <1>2, <2>1, <4>1 DEF ProofsSound, Stored, StoredDirect, StoredChunked
    <3> QED BY <1>2, <3>1, <3>3, <3>4, <3>5, <3>6, TellingStep DEF IInv, TypeOK
  <2> QED BY <2>3, <2>4
<1> QED BY <1>3, <1>4, <1>5

-----------------------------------------------------------------------------
(* The theorems *)

LEMMA InitInv == Init => IInv
<1> SUFFICES ASSUME Init PROVE IInv
  OBVIOUS
<1>1. PICK left \in Leftovers :
        store = [p \in Path |-> IF p \in DOMAIN left THEN left[p] ELSE None]
  BY DEF Init
<1>2. /\ \A p \in DOMAIN left : left[p] \in Bytes
      /\ \A e \in Event :
           /\ Direct(e) \in DOMAIN left => left[Direct(e)] \notin Big
           /\ Commit(e) \in DOMAIN left =>
                /\ left[Commit(e)] \in Big
                /\ \A p \in {Claim(e)} \union ChunksOf(e) : p \in DOMAIN left /\ left[p] = left[Commit(e)]
  BY LeftoversAssumption
<1>3. None \notin Big
  BY StoreAssumption
<1>4. TypeOK
  <2>1. store \in [Path -> Bytes]
    BY <1>1, <1>2 DEF Bytes
  <2>2. job \in [Client -> Job]
    BY IdleSound DEF Init
  <2>3. view \in [Client -> Views] /\ acked \in [Client -> SUBSET Event]
    BY DEF Init
  <2>4. /\ accepted \in [Client -> SUBSET Event] /\ proven \subseteq Client
        /\ archived \subseteq Client /\ expanded \in [Client -> Views \union {None}]
        /\ faults \in 0..MaxFaults
    BY StoreAssumption DEF Init
  <2> QED BY <2>1, <2>2, <2>3, <2>4 DEF TypeOK
<1>5. FormSound
  BY <1>1, <1>2, <1>3, PathFacts DEF FormSound, Exists
<1>6. CommitMeansWhole
  <2> SUFFICES ASSUME NEW e \in Event, Exists(Commit(e))
               PROVE  StoredChunked(e, store[Commit(e)])
    BY DEF CommitMeansWhole
  <2>1. Commit(e) \in DOMAIN left
    BY <1>1, PathFacts DEF Exists
  <2> QED BY <1>1, <1>2, <2>1, PathFacts DEF StoredChunked
<1>7. \A c \in Client : Sound(c, job[c])
  BY IdleSound DEF Init
<1>8. AcceptedIsStored /\ ArchiveIsProven /\ ProofsSound
  BY DEF Init, AcceptedIsStored, ArchiveIsProven, ProofsSound
<1> QED BY <1>4, <1>5, <1>6, <1>7, <1>8 DEF IInv

LEMMA NextInv == IInv /\ [Next]_vars => IInv'
<1> SUFFICES ASSUME IInv, [Next]_vars PROVE IInv'
  OBVIOUS
<1>1. CASE UNCHANGED vars
  <2>1. \A c \in Client : Sound(c, job[c])'
    BY <1>1 DEF IInv, vars, outcome, Sound, BatchSound, EventSound, OutcomeSound, BeforeSound,
                BatchOf, DirectEvents, BytesOf, StoredFor, Stored, StoredDirect, StoredChunked
  <2> QED BY <1>1, <2>1 DEF IInv, vars, outcome, TypeOK, FormSound, Exists, CommitMeansWhole,
                            AcceptedIsStored, ArchiveIsProven, ProofsSound, Stored, StoredDirect,
                            StoredChunked
<1>2. ASSUME NEW c \in Client, Works(c) \/ PostFails(c) \/ PostBusy(c) \/ Fails(c)
      PROVE  IInv'
  BY <1>2, WriteStep, StatClaimsStep, StatDirectStep, VerifyStep, GetObjectStep, PostActionsStep,
     ReadBackStep, AcceptStep, BeginStep, ReadManifestStep, LooksForDirectStep, ProveStep,
     ExpandEventStep DEF Works
<1> QED BY <1>1, <1>2 DEF Next

LEMMA AlwaysInv == Spec => []IInv
BY InitInv, NextInv, PTL DEF Spec

\* The types; and one call repeats a busy write at most MaxBusy times.
THEOREM TypeCorrect == Spec => []TypeOK
<1>1. IInv => TypeOK
  BY DEF IInv
<1> QED BY <1>1, AlwaysInv, PTL

\* What a client was told is stored is on the server, byte for byte, however
\* many clients write the same events (writeEvents, batchWrite).
THEOREM AcceptedEventsAreStored == Spec => []AcceptedIsStored
<1>1. IInv => AcceptedIsStored
  BY DEF IInv
<1> QED BY <1>1, AlwaysInv, PTL

\* Whoever sees the commit of a big event finds its claim and all its chunks
\* with the same bytes (writeChunked).
THEOREM CommittedEventsAreWhole == Spec => []CommitMeansWhole
<1>1. IInv => CommitMeansWhole
  BY DEF IInv
<1> QED BY <1>1, AlwaysInv, PTL

\* A committed archive, or one whose proof is remembered, has its manifest and
\* each of its events stored (ArchiveManager.commit).
THEOREM ArchivesAreProven == Spec => []ArchiveIsProven
<1>1. IInv => ArchiveIsProven
  BY DEF IInv
<1> QED BY <1>1, AlwaysInv, PTL

\* An expansion gives the stored events, those that every client that committed
\* the archive has archived (ArchiveManager.expand).
THEOREM ExpansionsAreArchived == Spec => []ExpansionIsArchive
<1>1. IInv => ExpansionIsArchive
  BY DEF IInv, ProofsSound, ArchiveIsProven, ExpansionIsArchive
<1> QED BY <1>1, AlwaysInv, PTL

\* Two clients that were told of an event mean the same bytes, or two forms of it.
Agreement ==
  \A c, d \in Client : \A e \in accepted[c] \intersect accepted[d] :
    \/ view[c][e] = view[d][e]
    \/ (view[c][e] \in Big) # (view[d][e] \in Big)

\* Two clients that were told of the same event agree on its bytes, unless one
\* stored it direct and the other in chunks (assertRepresentationAbsent looks
\* before it writes, and both may have looked).
THEOREM AcceptedEventsAgree == Spec => []Agreement
<1>1. IInv => Agreement
  BY DEF IInv, AcceptedIsStored, Agreement, Stored, StoredDirect, StoredChunked
<1> QED BY <1>1, AlwaysInv, PTL

=============================================================================
