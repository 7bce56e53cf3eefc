--------------------------- MODULE SessionMirror ---------------------------
(***************************************************************************)
(* The native session mirror (src/src/session-mirror.ts).  Processes that  *)
(* share one state directory copy approved messages into one session of a  *)
(* server that does not deduplicate appends.  A create-only intent file is *)
(* the claim on an append or on a commit; an acknowledgement file is       *)
(* published only from positive evidence.                                  *)
(*                                                                         *)
(* Every await of the code is a step boundary.  A guard of the code that   *)
(* throws MirrorFailure is a conjunct of the step it protects: when it is  *)
(* false the only step left to that process is Fail, which also stands for *)
(* a cancelled signal, an I/O or network error and a crash (memory is      *)
(* lost, the directory is not).  File publication is atomic: a synced      *)
(* temporary is linked to its name.                                        *)
(***************************************************************************)
EXTENDS Naturals, FiniteSets

CONSTANTS
  Proc,          \* processes sharing the mirror directory
  Source,        \* stable source IDs, one per mirrored entry
  Digest,        \* role/content digests
  MaxBirth,      \* bound: generations of the server session
  MaxCommits,    \* bound: commits other clients make in one generation
  None           \* no record, no source

ASSUME MirrorAssumption ==
  /\ MaxBirth \in Nat \ {0}
  /\ MaxCommits \in Nat
  /\ None \notin Source
  /\ None \notin [digest : Digest, birth : 1..MaxBirth]
  /\ None \notin [birth : 1..MaxBirth, before : Nat]

VARIABLES
  \* The directory <stateDir>/session-mirror/<target and session>.
  intent,        \* intent[s]: <sourceId>.intent.json, or None
  ack,           \* ack[s]: <sourceId>.ack.json, or None
  commitIntent,  \* commitIntent[w]: commit-<watermark>.intent.json, or None
  commitAck,     \* commitAck[w]: commit-<watermark>.ack.json, or None
  \* The server's session.
  birth,         \* created_at: the generation of the session
  commits,       \* commit_count of this generation
  live,          \* active messages
  archived,      \* messages moved to archives by commits
  \* Requests submitted and not yet executed; one may stay here for ever.
  net,           \* appends
  commitNet,     \* commits
  \* Each process: where its one serialized operation stands, and its memory.
  pc,
  mem,
  \* History, read by properties only.
  posts,         \* posts[s]: append requests ever submitted for s
  commitPosts,   \* commitPosts[w]: commit requests ever submitted for w
  stored         \* every <<source, digest, generation>> the server ever stored

directory == <<intent, ack, commitIntent, commitAck>>
session   == <<birth, commits, live, archived>>
network   == <<net, commitNet>>
history   == <<posts, commitPosts, stored>>
vars      == <<directory, session, network, history, pc, mem>>

-----------------------------------------------------------------------------
(* Data *)

Birth        == 1..MaxBirth
Record       == [digest : Digest, birth : Birth]
CommitRecord == [birth : Birth, before : Nat]
Watermark    == SUBSET (Source \X Digest)
Batch        == UNION {[S -> Digest] : S \in SUBSET Source}

\* A stored message; copy tells two messages of one source apart, as the
\* server's message IDs do.
Message == [src : Source, digest : Digest, copy : Nat \ {0}]
Request == [src : Source, digest : Digest]

\* The session metadata that inspectRemote reads twice and compares.
Metadata ==
  [birth |-> birth, commits |-> commits, live |-> Cardinality(live),
   total |-> Cardinality(live \union archived)]

NoMetadata == [birth |-> 1, commits |-> 0, live |-> 0, total |-> 0]

Published(file) == {k \in DOMAIN file : file[k] # None}

SourcesOf(messages) == {m.src : m \in messages}

\* The memory of a process with no operation running.
Blank ==
  [op |-> "none", batch |-> [s \in {} |-> None], intents |-> {}, acks |-> {},
   unacked |-> {}, want |-> {}, meta |-> NoMetadata, found |-> {},
   enough |-> FALSE, todo |-> {}, cur |-> None]

Move(p, at, m) ==
  /\ pc' = [pc EXCEPT ![p] = at]
  /\ mem' = [mem EXCEPT ![p] = m]

\* The operation of p ends, with success or with an error.
Return(p) == Move(p, "idle", Blank)

Init ==
  /\ intent = [s \in Source |-> None]
  /\ ack = [s \in Source |-> None]
  /\ commitIntent = [w \in Watermark |-> None]
  /\ commitAck = [w \in Watermark |-> None]
  /\ birth = 1
  \* Another installation may have mirrored sources into the session already.
  /\ \E L, A \in {M \in SUBSET [src : Source, digest : Digest, copy : {1}] :
                     \A m, n \in M : m.src = n.src => m = n} :
        /\ IsFiniteSet(L) /\ IsFiniteSet(A)
        /\ SourcesOf(L) \cap SourcesOf(A) = {}
        /\ live = L
        /\ archived = A
        /\ commits = IF A = {} THEN 0 ELSE 1
  /\ net = {}
  /\ commitNet = {}
  /\ posts = [s \in Source |-> 0]
  /\ commitPosts = [w \in Watermark |-> 0]
  /\ stored = {<<m.src, m.digest, 1>> : m \in live \union archived}
  /\ pc = [p \in Proc |-> "idle"]
  /\ mem = [p \in Proc |-> Blank]

-----------------------------------------------------------------------------
(* Starting an operation: serialize lets one run at a time in a process.   *)

\* localState refuses a directory whose acknowledgement contradicts an intent.
DirectoryUsable ==
  \A s \in Source : intent[s] # None /\ ack[s] # None => ack[s] = intent[s]

Loaded(op, b) ==
  [Blank EXCEPT !.op = op, !.batch = b,
                !.intents = Published(intent), !.acks = Published(ack)]

StartSync(p, b) ==
  /\ pc[p] = "idle"
  /\ DirectoryUsable
  /\ Move(p, "commits", Loaded("sync", b))
  /\ UNCHANGED <<directory, session, network, history>>

\* Every intent this process loaded has an acknowledgement it knows of.
NothingUnknown_Skipped(m) == TRUE
NothingUnknown(m) == m.intents \subseteq m.acks

\* commitNow refuses to start while an append outcome is unknown.
StartCommit(p) ==
  /\ pc[p] = "idle"
  /\ DirectoryUsable
  /\ NothingUnknown(Loaded("commit", Blank.batch))
  /\ Move(p, "commits", Loaded("commit", Blank.batch))
  /\ UNCHANGED <<directory, session, network, history>>

-----------------------------------------------------------------------------
(* reconcileCommits *)

ReadCommitState(p) ==
  /\ pc[p] = "commits"
  /\ LET unacked == Published(commitIntent) \ Published(commitAck)
     IN  Move(p, IF unacked = {} THEN "begin" ELSE "commitMeta",
             [mem[p] EXCEPT !.unacked = unacked])
  /\ UNCHANGED <<directory, session, network, history>>

ReadCommitMeta(p) ==
  /\ pc[p] = "commitMeta"
  /\ Move(p, "reconcile", [mem[p] EXCEPT !.meta = Metadata])
  /\ UNCHANGED <<directory, session, network, history>>

CommitObserved_NotAdvanced(record, meta) ==
  /\ record.birth = meta.birth
  /\ meta.commits >= record.before

CommitObserved_Late(record, meta) ==
  /\ record.birth = meta.birth
  /\ meta.commits > record.before + 1

CommitObserved(record, meta) ==
  /\ record.birth = meta.birth
  /\ meta.commits > record.before

Reconcile(p, w) ==
  /\ pc[p] = "reconcile"
  /\ w \in mem[p].unacked
  /\ CommitObserved(commitIntent[w], mem[p].meta)
  /\ commitAck' = IF commitAck[w] = None
                    THEN [commitAck EXCEPT ![w] = commitIntent[w]]
                    ELSE commitAck
  /\ LET rest == mem[p].unacked \ {w}
     IN  Move(p, IF rest = {} THEN "begin" ELSE "reconcile",
             [mem[p] EXCEPT !.unacked = rest,
                            !.meta = IF rest = {} THEN NoMetadata ELSE @])
  /\ UNCHANGED <<intent, ack, commitIntent, session, network, history>>

-----------------------------------------------------------------------------
(* inspectRemote: metadata, context, raw messages, archives, metadata.     *)

Wanted_BatchOnly(m) == DOMAIN m.batch

Wanted(m) == DOMAIN m.batch \union (m.intents \ m.acks)

\* The digest this process knows locally for s: intents.get(s) ?? acks.get(s).
LocalDigest(m, s) == IF s \in m.intents THEN intent[s].digest ELSE ack[s].digest

NoLocalConflict(m) ==
  \A s \in DOMAIN m.batch \cap (m.intents \union m.acks) :
     LocalDigest(m, s) = m.batch[s]

Inspecting(m, sources) ==
  [m EXCEPT !.want = sources, !.meta = Metadata, !.found = {}, !.enough = FALSE]

SyncNothing(p) ==
  /\ pc[p] = "begin"
  /\ mem[p].op = "sync"
  /\ Wanted(mem[p]) = {}
  /\ Return(p)
  /\ UNCHANGED <<directory, session, network, history>>

BeginInspect(p) ==
  /\ pc[p] = "begin"
  /\ mem[p].op = "sync"
  /\ NoLocalConflict(mem[p])
  /\ Wanted(mem[p]) # {}
  /\ Move(p, "context", Inspecting(mem[p], Wanted(mem[p])))
  /\ UNCHANGED <<directory, session, network, history>>


Proven(m) == m.want \subseteq SourcesOf(m.found)

\* addProofs throws when two messages claim one source.
Unambiguous(messages) == \A m, n \in messages : m.src = n.src => m = n

Looked(p, m, next) ==
  /\ Unambiguous(m.found)
  /\ Move(p, IF Proven(m) THEN "proved" ELSE next, m)
  /\ UNCHANGED <<directory, session, network, history>>

\* The context is truncated to a token budget: any part of the active
\* messages may be missing from it.
ReadContext(p) ==
  /\ pc[p] = "context"
  /\ \E shown \in SUBSET live :
       LET all == Cardinality(shown) >= mem[p].meta.live
       IN  Looked(p, [mem[p] EXCEPT !.found = shown, !.enough = all],
                  IF all THEN "archives" ELSE "raw")

ReadRaw(p) ==
  /\ pc[p] = "raw"
  /\ Looked(p, [mem[p] EXCEPT !.found = @ \union live,
                              !.enough = Cardinality(live) >= mem[p].meta.live],
            "archives")

ReadArchives(p) ==
  /\ pc[p] = "archives"
  /\ commits >= mem[p].meta.commits
  /\ Looked(p, [mem[p] EXCEPT !.found = @ \union archived], "recheck")

\* Absence may be concluded only from a complete view of an unchanged session.
Recheck(p) ==
  /\ pc[p] = "recheck"
  /\ Metadata = mem[p].meta
  /\ Cardinality(mem[p].found) >= mem[p].meta.total
  /\ mem[p].enough
  /\ Move(p, "proved", mem[p])
  /\ UNCHANGED <<directory, session, network, history>>

-----------------------------------------------------------------------------
(* syncNow: acknowledge what was found, then append what is missing.       *)

Expected(m, s) == IF s \in DOMAIN m.batch THEN m.batch[s] ELSE LocalDigest(m, s)

\* Messages of a replaced session confirm nothing.
SameGeneration(m) ==
  /\ \A s \in m.want \cap m.intents : intent[s].birth = m.meta.birth
  /\ \A s \in m.want \cap m.acks : ack[s].birth = m.meta.birth

Confirms_AnyDigest(m, s, d) == s \in SourcesOf(m.found)

Confirms(m, s, d) == \E msg \in m.found : msg.src = s /\ msg.digest = d

\* publish(record, "ack"): create, or find the same record there.
PublishAck_DigestOnly(s, record) ==
  /\ ack[s] = None
  /\ ack' = [ack EXCEPT ![s] = record.digest]

PublishAck(s, record) ==
  /\ ack[s] \in {None, record}
  /\ ack' = [ack EXCEPT ![s] = record]

AckFound(p, s) ==
  LET m == mem[p] IN
  /\ pc[p] = "proved"
  /\ m.cur = None
  /\ SameGeneration(m)
  /\ s \in (m.want \cap SourcesOf(m.found)) \ m.acks
  /\ Confirms(m, s, Expected(m, s))
  /\ PublishAck(s, [digest |-> Expected(m, s), birth |-> m.meta.birth])
  /\ Move(p, "proved", [m EXCEPT !.acks = @ \union {s}])
  /\ UNCHANGED <<intent, commitIntent, commitAck, session, network, history>>

\* Everything found is acknowledged.  Any intent still without an
\* acknowledgement is an unknown outcome and stops the operation.
BeginAppends(p) ==
  LET m    == mem[p]
      todo == DOMAIN m.batch \ SourcesOf(m.found)
  IN
  /\ pc[p] = "proved"
  /\ m.cur = None
  /\ SameGeneration(m)
  /\ \A s \in m.want \cap SourcesOf(m.found) :
        s \in m.acks /\ Confirms(m, s, Expected(m, s))
  /\ NothingUnknown(m)
  /\ IF todo = {} THEN Return(p)
     ELSE Move(p, "append", [m EXCEPT !.todo = todo, !.want = {}, !.found = {}])
  /\ UNCHANGED <<directory, session, network, history>>

\* An acknowledged message that is not visible is never appended again, and
\* an intent that is already there belongs to somebody else.
MayAppend_Unclaimed(m, s) == s \notin m.acks

MayAppend(m, s) ==
  /\ s \notin m.acks
  /\ intent[s] = None

Claim(p, s) ==
  LET m == mem[p] IN
  /\ pc[p] = "append"
  /\ s \in m.todo
  /\ MayAppend(m, s)
  /\ intent' = [intent EXCEPT ![s] = [digest |-> m.batch[s], birth |-> m.meta.birth]]
  /\ Move(p, "post", [m EXCEPT !.cur = s])
  /\ UNCHANGED <<ack, commitIntent, commitAck, session, network, history>>

AppendRequest(m) == [src |-> m.cur, digest |-> m.batch[m.cur]]

Post(p) ==
  LET m == mem[p] IN
  /\ pc[p] = "post"
  /\ net' = net \union {AppendRequest(m)}
  /\ posts' = [posts EXCEPT ![m.cur] = @ + 1]
  /\ Move(p, "posted", m)
  /\ UNCHANGED <<directory, session, commitNet, commitPosts, stored>>

\* The response arrives, and the read-back starts with the metadata.
BeginVerify(p) ==
  LET m == mem[p] IN
  /\ pc[p] = "posted"
  /\ AppendRequest(m) \notin net
  /\ Move(p, "context", Inspecting(m, {m.cur}))
  /\ UNCHANGED <<directory, session, network, history>>

AckAppended(p) ==
  LET m    == mem[p]
      rest == m.todo \ {m.cur}
  IN
  /\ pc[p] = "proved"
  /\ m.cur # None
  /\ m.meta.birth = intent[m.cur].birth
  /\ Confirms(m, m.cur, m.batch[m.cur])
  /\ PublishAck(m.cur, intent[m.cur])
  /\ IF rest = {} THEN Return(p)
     ELSE Move(p, "append", [m EXCEPT !.todo = rest, !.cur = None,
                                      !.want = {}, !.found = {}])
  /\ UNCHANGED <<intent, commitIntent, commitAck, session, network, history>>

-----------------------------------------------------------------------------
(* commitNow: one attempt per set of confirmed messages.                   *)

\* The watermark: the acknowledged sources with their digests.
WatermarkOf(m) == {<<s, ack[s].digest>> : s \in m.acks}

CommitNothing(p) ==
  LET m == mem[p] IN
  /\ pc[p] = "begin"
  /\ m.op = "commit"
  /\ m.acks = {} \/ commitAck[WatermarkOf(m)] # None
  /\ Return(p)
  /\ UNCHANGED <<directory, session, network, history>>

MayCommit(m) == \A s \in m.acks : ack[s].birth = birth

BeginCommit(p) ==
  LET m == mem[p] IN
  /\ pc[p] = "begin"
  /\ m.op = "commit"
  /\ m.acks # {}
  /\ commitAck[WatermarkOf(m)] = None
  /\ MayCommit(m)
  /\ Move(p, "commitClaim", [m EXCEPT !.meta = Metadata])
  /\ UNCHANGED <<directory, session, network, history>>

MayClaimCommit_Overwrite(w) == commitAck[w] = None
MayClaimCommit(w) == commitIntent[w] = None

ClaimCommit(p) ==
  LET m == mem[p]
      w == WatermarkOf(m)
  IN
  /\ pc[p] = "commitClaim"
  /\ MayClaimCommit(w)
  /\ commitIntent' = [commitIntent EXCEPT
                        ![w] = [birth |-> m.meta.birth, before |-> m.meta.commits]]
  /\ Move(p, "commitPost", m)
  /\ UNCHANGED <<intent, ack, commitAck, session, network, history>>

PostCommit(p) ==
  LET w == WatermarkOf(mem[p]) IN
  /\ pc[p] = "commitPost"
  /\ commitNet' = commitNet \union {w}
  /\ commitPosts' = [commitPosts EXCEPT ![w] = @ + 1]
  /\ Move(p, "commitPosted", mem[p])
  /\ UNCHANGED <<directory, session, net, posts, stored>>

\* The server answered "accepted" or "skipped".
AckCommit(p) ==
  LET w == WatermarkOf(mem[p]) IN
  /\ pc[p] = "commitPosted"
  /\ w \notin commitNet
  /\ commitAck' = IF commitAck[w] = None
                    THEN [commitAck EXCEPT ![w] = commitIntent[w]]
                    ELSE commitAck
  /\ Return(p)
  /\ UNCHANGED <<intent, ack, commitIntent, session, network, history>>

Fail(p) ==
  /\ pc[p] # "idle"
  /\ Return(p)
  /\ UNCHANGED <<directory, session, network, history>>

-----------------------------------------------------------------------------
(* The server, modelled from what the client code relies on.               *)

\* An append is executed as often as it arrives: no deduplication.
ApplyAppend(r) ==
  /\ r \in net
  /\ LET copies == {m \in live \union archived : m.src = r.src}
     IN  live' = live \union {[src |-> r.src, digest |-> r.digest,
                               copy |-> Cardinality(copies) + 1]}
  /\ net' = net \ {r}
  /\ stored' = stored \union {<<r.src, r.digest, birth>>}
  /\ UNCHANGED <<directory, birth, commits, archived, commitNet, posts, commitPosts,
                 pc, mem>>

\* All live messages but the kept ones go into a new archive.
Archive(kept) ==
  /\ archived' = archived \union (live \ kept)
  /\ live' = kept

\* This code commits with keep_recent_count 0 (line 205).  A commit with nothing
\* to archive is "skipped" and leaves the counter.
ApplyCommit(w) ==
  /\ w \in commitNet
  /\ Archive({})
  /\ commits' = IF live = {} THEN commits ELSE commits + 1
  /\ commitNet' = commitNet \ {w}
  /\ UNCHANGED <<directory, birth, net, history, pc, mem>>

\* Another client, or the server on its own account, commits.  It may keep
\* recent messages, so that the counter advances and a watermark stays live.
\* Messages have no order here, and those of other clients are not represented:
\* any of the live ones may be the recent ones, and all of them.
ForeignCommit ==
  /\ commits < MaxCommits
  /\ \E kept \in SUBSET live : Archive(kept)
  /\ commits' = commits + 1
  /\ UNCHANGED <<directory, birth, network, history, pc, mem>>

\* The session is deleted and created again under the same name.
ReplaceSession ==
  /\ birth < MaxBirth
  /\ birth' = birth + 1
  /\ commits' = 0
  /\ live' = {}
  /\ archived' = {}
  /\ UNCHANGED <<directory, network, history, pc, mem>>

-----------------------------------------------------------------------------
Sync(p) ==
  \/ \E b \in Batch : StartSync(p, b)
  \/ SyncNothing(p)
  \/ BeginInspect(p)
  \/ ReadContext(p)
  \/ ReadRaw(p)
  \/ ReadArchives(p)
  \/ Recheck(p)
  \/ \E s \in Source : AckFound(p, s)
  \/ BeginAppends(p)
  \/ \E s \in Source : Claim(p, s)
  \/ Post(p)
  \/ BeginVerify(p)
  \/ AckAppended(p)

Commit(p) ==
  \/ StartCommit(p)
  \/ CommitNothing(p)
  \/ BeginCommit(p)
  \/ ClaimCommit(p)
  \/ PostCommit(p)
  \/ AckCommit(p)

ReconcileCommits(p) ==
  \/ ReadCommitState(p)
  \/ ReadCommitMeta(p)
  \/ \E w \in Watermark : Reconcile(p, w)

Server ==
  \/ \E r \in net : ApplyAppend(r)
  \/ \E w \in commitNet : ApplyCommit(w)
  \/ ForeignCommit
  \/ ReplaceSession

Next ==
  \/ \E p \in Proc : Sync(p) \/ Commit(p) \/ ReconcileCommits(p) \/ Fail(p)
  \/ Server

Spec == Init /\ [][Next]_vars

\* The durable queue retries its sync job until it succeeds, and neither the
\* network nor the process fails at the same await for ever.  Nothing is
\* assumed of the server, of commits or of appends.
FairSync(p) ==
  /\ SF_vars(\E b \in Batch : StartSync(p, b))
  /\ SF_vars(ReadCommitState(p))
  /\ SF_vars(ReadCommitMeta(p))
  /\ SF_vars(\E w \in Watermark : Reconcile(p, w))
  /\ SF_vars(BeginInspect(p))
  /\ SF_vars(ReadContext(p))
  /\ SF_vars(ReadRaw(p))
  /\ SF_vars(ReadArchives(p))
  /\ SF_vars(Recheck(p))
  /\ SF_vars(\E s \in Source : AckFound(p, s))

FairSpec == Spec /\ \A p \in Proc : WF_vars(Fail(p)) /\ FairSync(p)

-----------------------------------------------------------------------------
(* Properties *)

Memory ==
  [op : {"none", "sync", "commit"}, batch : Batch,
   intents : SUBSET Source, acks : SUBSET Source, unacked : SUBSET Watermark,
   want : SUBSET Source,
   meta : [birth : Birth, commits : Nat, live : Nat, total : Nat],
   found : SUBSET Message, enough : BOOLEAN, todo : SUBSET Source,
   cur : Source \union {None}]

Step == {"idle", "commits", "commitMeta", "reconcile", "begin", "context", "raw",
         "archives", "recheck", "proved", "append", "post", "posted",
         "commitClaim", "commitPost", "commitPosted"}

\* Every variable holds a value of its kind.
TypeOK ==
  /\ intent \in [Source -> Record \union {None}]
  /\ ack \in [Source -> Record \union {None}]
  /\ commitIntent \in [Watermark -> CommitRecord \union {None}]
  /\ commitAck \in [Watermark -> CommitRecord \union {None}]
  /\ birth \in Birth
  /\ commits \in Nat
  /\ live \in SUBSET Message
  /\ archived \in SUBSET Message
  /\ net \in SUBSET Request
  /\ commitNet \in SUBSET Watermark
  /\ pc \in [Proc -> Step]
  /\ mem \in [Proc -> Memory]
  /\ posts \in [Source -> Nat]
  /\ commitPosts \in [Watermark -> Nat]
  /\ stored \in SUBSET (Source \X Digest \X Birth)

Stored == live \union archived

\* No source is ever stored twice in one session, whatever was mirrored
\* before, whichever processes sync, and whatever fails (lines 318-368).
NoDuplicate == Unambiguous(Stored)

\* An acknowledgement of the current generation has its message on the server,
\* with the recorded digest: an acknowledgement rests on positive read-back,
\* never on a response or on absence (lines 341-365).
AckSound ==
  \A s \in Source :
    ack[s] # None /\ ack[s].birth = birth =>
      \E m \in Stored : m.src = s /\ m.digest = ack[s].digest

\* The server has executed the commit request of watermark w.
Executed(w) == commitPosts[w] > 0 /\ w \notin commitNet

\* What an acknowledged commit of this generation establishes: "commit submission
\* was accepted/skipped or later native counter progress reconciled it"
\* (docs/recovery.md:84).  If its own request was executed, every message of the
\* watermark is archived, so submitted to extraction.  Otherwise the counter has
\* advanced since the claim, and that is all: the commit that advanced it may be
\* another client's, which kept messages of the watermark (lines 170-183, 192-210).
CommitAckJustified ==
  \A w \in Watermark :
    commitAck[w] # None /\ commitAck[w].birth = birth =>
      IF Executed(w)
      THEN \A e \in w : \E m \in archived : m.src = e[1] /\ m.digest = e[2]
      ELSE commits > commitAck[w].before

\* Until the session is replaced, the directory never reaches a state that
\* localState refuses, and nothing could ever be mirrored again: intents and
\* acknowledgements of racing processes agree (lines 224-227, 338-340).
DirectoryStaysUsable == birth = 1 => DirectoryUsable

\* An acknowledgement records the generation its evidence was read from:
\* "only a matching source ID and role/content digest in the same
\* server-session generation can establish positive confirmation"
\* (docs/recovery.md:53).
AckSameGeneration ==
  \A s \in Source :
    ack[s] # None => <<s, ack[s].digest, ack[s].birth>> \in stored

\* One process, however often it restarts, claims no append and no commit
\* while an earlier append or commit has an unknown outcome (lines 188, 346).
UncertaintyStops ==
  [][ (intent' # intent \/ commitIntent' # commitIntent) =>
        /\ Published(intent) \subseteq Published(ack)
        /\ Published(commitIntent) \subseteq Published(commitAck) ]_vars

\* A message that reached the server is eventually acknowledged, whatever
\* happened to the response of its append (lines 329-343).
AppendResolves ==
  \A s \in Source :
    (intent[s] # None /\ s \in SourcesOf(Stored)) ~> (ack[s] # None)

\* A commit whose counter is seen to advance is eventually acknowledged
\* (lines 170-183).
CommitResolves ==
  \A w \in Watermark :
    (commitIntent[w] # None /\ commits > commitIntent[w].before) ~> (commitAck[w] # None)

AppendGuard == INSTANCE OneShot WITH
  Key <- Source, claimed <- Published(intent), submitted <- posts,
  acked <- Published(ack)

CommitGuard == INSTANCE OneShot WITH
  Key <- Watermark, claimed <- Published(commitIntent), submitted <- commitPosts,
  acked <- Published(commitAck)

\* Appends implement OneShot: one claim, one request, one acknowledgement for
\* a source, across processes, restarts and replaced sessions.
AppendsImplementOneShot == AppendGuard!Spec

\* Commits implement OneShot, a watermark at a time.
CommitsImplementOneShot == CommitGuard!Spec

=============================================================================
