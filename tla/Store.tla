------------------------------- MODULE Store -------------------------------
(***************************************************************************)
(* The durable objects of a session: recorded events and the manifest of an *)
(* archive of them (shared/recorded-event-adapter.mjs, content-objects.mjs, *)
(* archive-store.mjs, batchWrite of client.ts).  Clients are programs that  *)
(* share the server: two processes, or one before and after a restart.  A   *)
(* client has its own version of each event, and the versions may differ.   *)
(*                                                                         *)
(* An event is stored direct, as one object, or when it is Big as a claim,  *)
(* chunks and a commit.  The server only creates objects, so one that has   *)
(* been seen keeps its bytes; it may create a part of a batch, and answer   *)
(* what it likes.  Directories are left out: creating one is idempotent.    *)
(***************************************************************************)
EXTENDS Naturals, FiniteSets

CONSTANTS
  Client, Event,
  Version,     \* the bytes an event may have
  Big,         \* the versions above BATCH_MAX_FILE_BYTES
  Views,       \* what a client may take the events for
  Batches,     \* the events of a call of writeEvents
  Chunks,      \* bound: chunks of a big event
  MaxBusy,     \* the delays of withBusyRetry, 3 in the code
  MaxFaults,   \* bound: answers that fail, restarts
  Leftovers,   \* objects the server may hold at the start
  None, Residue

ASSUME StoreAssumption ==
  /\ Big \subseteq Version
  /\ Views \subseteq [Event -> Version]
  /\ Batches \subseteq SUBSET Event
  /\ Chunks \in Nat \ {0} /\ MaxBusy \in Nat /\ MaxFaults \in Nat
  /\ {None, Residue} \intersect (Version \union Views) = {}
  /\ None # Residue /\ None \notin Event

VARIABLES
  view,      \* each client's events
  acked,     \* events the acknowledgement file holds from elsewhere
  store,     \* objects of the server
  job,       \* what each client is doing
  accepted,  \* events each client has been told are stored
  proven,    \* provenArchives: clients that remember a proof
  archived,  \* clients that have committed the archive
  expanded,  \* the last expansion each client was given
  faults     \* bound

vars == <<view, acked, store, job, accepted, proven, archived, expanded, faults>>
outcome == <<accepted, proven, archived, expanded>>

-----------------------------------------------------------------------------
(* Objects *)

Direct(e) == <<"direct", e, 0>>
Claim(e) == <<"claim", e, 0>>
ChunksOf(e) == {<<"chunk", e, i>> : i \in 1..Chunks}
Commit(e) == <<"commit", e, 0>>
Manifest == <<"manifest", None, 0>>

Path == {Direct(e) : e \in Event} \union {Claim(e) : e \in Event} \union {Commit(e) : e \in Event}
          \union (UNION {ChunksOf(e) : e \in Event}) \union {Manifest}
Bytes == Version \union Views \union {None, Residue}

\* The bytes client c writes at p; a manifest stands for the events it covers.
BytesOf(c, p) == IF p = Manifest THEN view[c] ELSE view[c][p[2]]

Exists(p) == store[p] # None

\* What the server may hold already is what writers of this code have left: no
\* version in the form of the other size, and no commit without its event.
ASSUME LeftoversAssumption ==
  \A left \in Leftovers :
    /\ DOMAIN left \subseteq Path
    /\ \A p \in DOMAIN left : left[p] \in Bytes
    /\ \A e \in Event :
         /\ Direct(e) \in DOMAIN left => left[Direct(e)] \notin Big
         /\ Commit(e) \in DOMAIN left =>
              /\ left[Commit(e)] \in Big
              /\ \A p \in {Claim(e)} \union ChunksOf(e) :
                   p \in DOMAIN left /\ left[p] = left[Commit(e)]

DirectEvents(c, es) == {e \in es : view[c][e] \notin Big}

-----------------------------------------------------------------------------
(* Jobs *)

Idle == [at |-> "idle", stage |-> "none", events |-> {}, todo |-> {}, direct |-> {},
         paths |-> {}, missing |-> {}, tries |-> 0]

Job == [at : {"idle", "statClaims", "statDirect", "get", "post", "back", "verify",
              "readManifest", "prove", "proveCommit", "accept", "readArchive", "expand",
              "expandCommit"},
        stage : {"none", "direct", "claim", "chunks", "commit", "manifest"},
        events : SUBSET Event, todo : SUBSET Event, direct : SUBSET Event,
        paths : SUBSET Path, missing : SUBSET Path, tries : 0..MaxBusy]

At(c, step) == job[c].at = step
Becomes(c, j) == job' = [job EXCEPT ![c] = j]
Stops(c) == Becomes(c, Idle)

\* writeObjects: every object of the batch is first read.
Batch(j, stage, paths) ==
  [j EXCEPT !.at = "get", !.stage = stage, !.paths = paths, !.missing = {}]

\* writeEvents goes on with the next chunked event, or has accepted them all.
NextChunked(c, j) ==
  LET left == {e \in j.events : view[c][e] \in Big /\ e \notin j.direct}
  IN IF left = {} THEN [j EXCEPT !.at = "accept"]
     ELSE [j EXCEPT !.at = "statDirect", !.todo = {CHOOSE e \in left : TRUE}]

StartsWrite(c, j) ==
  IF DirectEvents(c, j.events) = {} THEN NextChunked(c, j)
  ELSE [j EXCEPT !.at = "statClaims", !.todo = DirectEvents(c, j.events)]

\* What follows an accepted batch: a claim, its chunks, their verification, and
\* only then the commit (writeChunked).
Follows_CommitFirst(c, j) ==
  LET e == CHOOSE x \in j.todo : TRUE
  IN CASE j.stage = "direct" -> NextChunked(c, j)
       [] j.stage = "claim" -> Batch(j, "commit", {Commit(e)})
       [] j.stage = "commit" -> Batch(j, "chunks", ChunksOf(e))
       [] j.stage = "chunks" -> NextChunked(c, [j EXCEPT !.direct = @ \union {e}])
       [] j.stage = "manifest" -> [j EXCEPT !.at = "accept"]
Follows(c, j) ==
  LET e == CHOOSE x \in j.todo : TRUE
  IN CASE j.stage = "direct" -> NextChunked(c, j)
       [] j.stage = "claim" -> Batch(j, "chunks", ChunksOf(e))
       [] j.stage = "chunks" -> [j EXCEPT !.at = "verify"]
       [] j.stage = "commit" -> NextChunked(c, [j EXCEPT !.direct = @ \union {e}])
       [] j.stage = "manifest" -> [j EXCEPT !.at = "accept"]

-----------------------------------------------------------------------------
(* writeEvents *)

Write(c) ==
  /\ At(c, "idle")
  /\ \E es \in Batches :
       /\ ~ es \subseteq accepted[c] \union acked[c]
       /\ Becomes(c, StartsWrite(c, [Idle EXCEPT !.events = es]))
  /\ UNCHANGED <<view, acked, store, outcome, faults>>

\* assertRepresentationAbsent: an event is stored in one form only.
StatClaims(c) ==
  /\ At(c, "statClaims")
  /\ \E e \in job[c].todo :
       LET rest == job[c].todo \ {e}
       IN IF Exists(Claim(e)) THEN Stops(c)
          ELSE IF rest # {} THEN Becomes(c, [job[c] EXCEPT !.todo = rest])
          ELSE Becomes(c, Batch([job[c] EXCEPT !.todo = {}], "direct",
                                {Direct(d) : d \in DirectEvents(c, job[c].events)}))
  /\ UNCHANGED <<view, acked, store, outcome, faults>>

StatDirect(c) ==
  /\ At(c, "statDirect")
  /\ \E e \in job[c].todo :
       IF Exists(Direct(e)) THEN Stops(c) ELSE Becomes(c, Batch(job[c], "claim", {Claim(e)}))
  /\ UNCHANGED <<view, acked, store, outcome, faults>>

\* The chunks are read back and put together again.
Verify(c) ==
  /\ At(c, "verify")
  /\ \E e \in job[c].todo :
       IF \A p \in ChunksOf(e) : store[p] = view[c][e]
       THEN Becomes(c, Batch(job[c], "commit", {Commit(e)}))
       ELSE Stops(c)
  /\ UNCHANGED <<view, acked, store, outcome, faults>>

-----------------------------------------------------------------------------
(* batchWrite *)

\* An object that exists with the same bytes is unchanged, with other bytes a
\* conflict.
Unchanged_Never(c, p) == FALSE
Unchanged(c, p) == store[p] = BytesOf(c, p)

GetObject(c) ==
  /\ At(c, "get")
  /\ \E p \in job[c].paths :
       LET j == [job[c] EXCEPT !.paths = @ \ {p},
                               !.missing = IF Exists(p) THEN @ ELSE @ \union {p}]
       IN IF Exists(p) /\ ~ Unchanged(c, p) THEN Stops(c)
          ELSE IF j.paths # {} THEN Becomes(c, j)
          ELSE IF j.missing # {} THEN Becomes(c, [j EXCEPT !.at = "post"])
          ELSE Becomes(c, Follows(c, j))
  /\ UNCHANGED <<view, acked, store, outcome, faults>>

\* The server creates objects that are missing.
Created(c, paths) ==
  [p \in Path |-> IF p \in paths /\ ~ Exists(p) THEN BytesOf(c, p) ELSE store[p]]

\* It accepts the batch; what another client has created meanwhile stays.
AfterPost_Trusted(c) == Follows(c, job[c])
AfterPost(c) == [job[c] EXCEPT !.at = "back", !.paths = job[c].missing]

PostAccepted(c) ==
  /\ At(c, "post")
  /\ store' = Created(c, job[c].missing)
  /\ Becomes(c, AfterPost(c))
  /\ UNCHANGED <<view, acked, outcome, faults>>

Fault == faults < MaxFaults /\ faults' = faults + 1

\* The answer is an error or is lost: a part of the batch may be stored.  It may
\* be an error for no other reason than that an object exists by now.
PostFails(c) ==
  /\ At(c, "post")
  /\ \E some \in SUBSET job[c].missing : store' = Created(c, some)
  /\ \/ Fault
     \/ (\E p \in job[c].missing : Exists(p)) /\ UNCHANGED faults
  /\ Stops(c)
  /\ UNCHANGED <<view, acked, outcome>>

\* withBusyRetry: the whole write of events, or the write of the manifest.
Repeats(c, j) ==
  Becomes(c, IF j.stage = "manifest" THEN Batch(j, "manifest", {Manifest})
             ELSE StartsWrite(c, [j EXCEPT !.missing = {}, !.paths = {}]))

PostBusy_Unlimited(c) ==
  /\ At(c, "post")
  /\ Fault
  /\ Repeats(c, [job[c] EXCEPT !.tries = @ + 1, !.direct = {}])
  /\ UNCHANGED <<view, acked, store, outcome>>
PostBusy(c) ==
  /\ At(c, "post")
  /\ Fault
  /\ IF job[c].tries = MaxBusy THEN Stops(c)
     ELSE Repeats(c, [job[c] EXCEPT !.tries = @ + 1, !.direct = {}])
  /\ UNCHANGED <<view, acked, store, outcome>>

ReadBack(c) ==
  /\ At(c, "back")
  /\ \E p \in job[c].paths :
       LET j == [job[c] EXCEPT !.paths = @ \ {p}]
       IN IF store[p] # BytesOf(c, p) THEN Stops(c)
          ELSE Becomes(c, IF j.paths = {} THEN Follows(c, j) ELSE j)
  /\ UNCHANGED <<view, acked, store, outcome, faults>>

\* The caller is told: events are acknowledged, an archive is committed.
Accept(c) ==
  /\ At(c, "accept")
  /\ IF job[c].stage = "manifest"
     THEN /\ archived' = archived \union {c}
          /\ proven' = proven \union {c}
          /\ UNCHANGED accepted
     ELSE /\ accepted' = [accepted EXCEPT ![c] = @ \union job[c].events]
          /\ UNCHANGED <<archived, proven>>
  /\ Stops(c)
  /\ UNCHANGED <<view, acked, store, expanded, faults>>

-----------------------------------------------------------------------------
(* readEventIfExists: both forms are looked for, one after the other *)

\* Bytes that are an event.
Verified(bytes) == IF bytes \in Version THEN bytes ELSE None

\* The event as client c reads it, once it has seen whether it is stored direct.
ChunkedEvent(e) ==
  LET v == Verified(store[Commit(e)])
  IN IF store[Claim(e)] = v /\ \A p \in ChunksOf(e) : store[p] = v THEN v ELSE None

ReadEvent(c, e) ==
  IF e \in job[c].direct
  THEN IF Exists(Commit(e)) THEN None ELSE Verified(store[Direct(e)])
  ELSE ChunkedEvent(e)

LooksForDirect(c, before, after) ==
  /\ At(c, before)
  /\ \E e \in job[c].todo :
       Becomes(c, [job[c] EXCEPT !.at = after, !.todo = {e}, !.events = job[c].todo,
                     !.direct = IF Exists(Direct(e)) THEN {e} ELSE {}])
  /\ UNCHANGED <<view, acked, store, outcome, faults>>

-----------------------------------------------------------------------------
(* ArchiveManager *)

Archive(c) ==
  /\ At(c, "idle")
  /\ Event \subseteq accepted[c] \union acked[c]
  /\ Becomes(c, [Idle EXCEPT !.at = "readManifest"])
  /\ UNCHANGED <<view, acked, store, outcome, faults>>

\* Bytes that are a manifest.
IsManifest(bytes) == bytes \in Views

\* commit: the manifest exists, with a proof or to be proved, or is to be written
\* after a proof.  One that is bound to other events is an integrity error; one
\* that is residue could only be replaced by hash, which batchWrite refuses.
ReadManifest(c) ==
  /\ At(c, "readManifest")
  /\ LET prove == [job[c] EXCEPT !.at = "prove", !.todo = Event]
     IN IF store[Manifest] = view[c]
        THEN IF c \in proven THEN archived' = archived \union {c} /\ Stops(c) /\ UNCHANGED proven
             ELSE Becomes(c, prove) /\ UNCHANGED <<archived, proven>>
        ELSE /\ proven' = proven \ {c}
             /\ IF store[Manifest] = None THEN Becomes(c, prove) ELSE Stops(c)
             /\ UNCHANGED archived
  /\ UNCHANGED <<view, acked, store, accepted, expanded, faults>>

\* proveReferencedEvents: each event is read back and compared.
Proven_Readable(c, e) == ReadEvent(c, e) # None
Proven(c, e) == ReadEvent(c, e) = view[c][e]

LookForProof(c) == LooksForDirect(c, "prove", "proveCommit")

Prove(c) ==
  /\ At(c, "proveCommit")
  /\ \E e \in job[c].todo :
       LET rest == job[c].events \ {e}
       IN IF ~ Proven(c, e) THEN Stops(c)
          ELSE IF rest # {}
          THEN Becomes(c, [job[c] EXCEPT !.at = "prove", !.todo = rest, !.direct = {}])
          ELSE Becomes(c, Batch([job[c] EXCEPT !.direct = {}, !.events = {}, !.todo = {}],
                                "manifest", {Manifest}))
  /\ UNCHANGED <<view, acked, store, outcome, faults>>

\* expand: a new proof of the manifest, or none.
Expand(c) ==
  /\ At(c, "idle")
  /\ expanded[c] = None
  /\ proven' = proven \ {c}
  /\ IF IsManifest(store[Manifest])
     THEN Becomes(c, [Idle EXCEPT !.at = "expand", !.todo = Event])
     ELSE Stops(c)
  /\ UNCHANGED <<view, acked, store, accepted, archived, expanded, faults>>

LookForEvent(c) == LooksForDirect(c, "expand", "expandCommit")

Expanded_Unchecked(c, e) == ReadEvent(c, e) # None
Expanded(c, e) == ReadEvent(c, e) = store[Manifest][e]

ExpandEvent(c) ==
  /\ At(c, "expandCommit")
  /\ \E e \in job[c].todo :
       LET rest == job[c].events \ {e}
       IN IF ~ Expanded(c, e) THEN Stops(c) /\ UNCHANGED <<proven, expanded>>
          ELSE IF rest # {}
          THEN /\ Becomes(c, [job[c] EXCEPT !.at = "expand", !.todo = rest, !.direct = {}])
               /\ UNCHANGED <<proven, expanded>>
          ELSE /\ Stops(c)
               /\ proven' = proven \union {c}
               /\ expanded' = [expanded EXCEPT ![c] = store[Manifest]]
  /\ UNCHANGED <<view, acked, store, accepted, archived, faults>>

-----------------------------------------------------------------------------
\* A read fails, or the program restarts: what it knew is lost.
Fails(c) ==
  /\ ~ At(c, "idle")
  /\ Fault
  /\ Stops(c)
  /\ proven' \in {proven, proven \ {c}}
  /\ UNCHANGED <<view, acked, store, accepted, archived, expanded>>

Init ==
  /\ view \in [Client -> Views]
  /\ acked \in [Client -> {{}, Event}]
  /\ \E left \in Leftovers : store = [p \in Path |-> IF p \in DOMAIN left THEN left[p] ELSE None]
  /\ job = [c \in Client |-> Idle]
  /\ accepted = [c \in Client |-> {}]
  /\ proven = {} /\ archived = {}
  /\ expanded = [c \in Client |-> None]
  /\ faults = 0

Works(c) ==
  \/ Write(c) \/ StatClaims(c) \/ StatDirect(c) \/ Verify(c)
  \/ GetObject(c) \/ PostAccepted(c) \/ ReadBack(c) \/ Accept(c)
  \/ Archive(c) \/ ReadManifest(c) \/ LookForProof(c) \/ Prove(c)
  \/ Expand(c) \/ LookForEvent(c) \/ ExpandEvent(c)

Next == \E c \in Client : Works(c) \/ PostFails(c) \/ PostBusy(c) \/ Fails(c)

Spec == Init /\ [][Next]_vars

\* Each call of a client ends, and its sync is called again.
FairSpec == Spec /\ \A c \in Client : WF_vars(Works(c))

-----------------------------------------------------------------------------
(* Properties *)

\* The types; and the delays of one call are bounded (withBusyRetry).
TypeOK ==
  /\ view \in [Client -> Views]
  /\ acked \in [Client -> SUBSET Event]
  /\ store \in [Path -> Bytes]
  /\ job \in [Client -> Job]
  /\ accepted \in [Client -> SUBSET Event]
  /\ proven \subseteq Client /\ archived \subseteq Client
  /\ expanded \in [Client -> Views \union {None}]
  /\ faults \in 0..MaxFaults

StoredDirect(e, v) == store[Direct(e)] = v
StoredChunked(e, v) ==
  store[Commit(e)] = v /\ store[Claim(e)] = v /\ \A p \in ChunksOf(e) : store[p] = v
Stored(e, v) == IF v \in Big THEN StoredChunked(e, v) ELSE StoredDirect(e, v)

\* What a client was told is stored is there, byte for byte, and stays: through
\* partial batches, lost answers and a batch that another client has written a
\* part of in between (writeEvents, batchWrite).  Two clients are therefore told
\* of different bytes only when both forms of the event coexist: assert-
\* RepresentationAbsent looks before it writes, and both may have looked.
AcceptedIsStored ==
  \A c \in Client : \A e \in accepted[c] : Stored(e, view[c][e])

\* Who sees the commit of a big event finds its claim and every chunk: the commit
\* is what makes the event (writeChunked, readEventIfExists).
CommitMeansWhole ==
  \A e \in Event : Exists(Commit(e)) => StoredChunked(e, store[Commit(e)])

\* An archive that was committed, or whose proof is remembered, has its manifest
\* and each of its events in the store, whatever the acknowledgements said
\* (commit, proveReferencedEvents, provenArchives).
ArchiveIsProven ==
  /\ \A c \in archived : store[Manifest] = view[c]
  /\ \A c \in archived \union proven : \A e \in Event : Stored(e, store[Manifest][e])

\* An expansion gives the events that whoever committed the archive has archived,
\* and they are the stored ones (expand).
ExpansionIsArchive ==
  \A c \in Client : expanded[c] # None =>
    /\ \A e \in Event : Stored(e, expanded[c][e])
    /\ \A d \in archived : expanded[c] = view[d]

\* On a server that holds nothing else, clients that agree all come to commit the
\* archive: no partial write, lost answer or race blocks its repetition
\* (create_if_absent, withBusyRetry, batchWrite).
Completes ==
  (/\ \A c, d \in Client : view[c] = view[d] /\ acked[c] = {}
   /\ \A p \in Path : store[p] = None)
  => <>(archived = Client)

=============================================================================
