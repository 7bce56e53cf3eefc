------------------------ MODULE SessionMirrorSafety ------------------------
(***************************************************************************)
(* Proofs that the mirror stores no source twice and acknowledges only     *)
(* what is there, for any processes, sources, digests and bounds.  On top  *)
(* of the invariant IInv of SessionMirrorProofs, the inductive invariant   *)
(* Safe says what the steps of a process have taught it about the session  *)
(* (Learned), which stays true of its generation whatever the others do    *)
(* (Env), and what the requests and the directory say about the session.   *)
(***************************************************************************)
EXTENDS SessionMirrorProofs

\* Each source of a watermark is among the messages, with its digest.
Covered(w, messages) == \A e \in w : \E m \in messages : m.src = e[1] /\ m.digest = e[2]

Inspects == {"context", "raw", "archives", "recheck", "proved"}

\* What a process at step `at` with memory m has learned: of its generation,
\* of sources that nobody has claimed, and of the watermark it commits.
LearnedSession(at, m) ==
  /\ m.meta.birth <= birth
  /\ m.meta.birth = birth => m.meta.commits <= commits
  /\ at \in Inspects /\ m.meta.birth = birth => m.found \subseteq Stored

LearnedAbsence(at, m) ==
  /\ \A s \in m.todo : intent[s] = None => s \notin SourcesOf(Stored)
  /\ at \in Inspects /\ m.cur = None /\ at # "proved" => DOMAIN m.batch \subseteq m.want
  /\ at = "proved" /\ m.cur = None =>
       \A s \in DOMAIN m.batch \ SourcesOf(m.found) :
          intent[s] = None => s \notin SourcesOf(Stored)
  /\ m.cur # None => intent[m.cur].digest = m.batch[m.cur]
  /\ at = "post" => m.cur \notin SourcesOf(Stored)

LearnedCommit(at, m) ==
  /\ at \in {"commitClaim", "commitPost"} /\ m.meta.birth = birth =>
       Covered(WatermarkOf(m), Stored)
  /\ at = "commitPosted" =>
       commitIntent[WatermarkOf(m)] # None /\ commitPosts[WatermarkOf(m)] # 0

Learned(at, m) == LearnedSession(at, m) /\ LearnedAbsence(at, m) /\ LearnedCommit(at, m)

\* A request is the only one of its source, is claimed, and is not executed yet.
RequestsSound ==
  /\ \A r \in net : /\ posts[r.src] # 0 /\ intent[r.src] # None
                    /\ r.src \notin SourcesOf(Stored)
                    /\ r.digest = intent[r.src].digest
  /\ \A r, q \in net : r.src = q.src => r = q

\* No record is of a generation to come.
RecordsPast ==
  /\ \A s \in Source : /\ intent[s] # None => intent[s].birth <= birth
                       /\ ack[s] # None => ack[s].birth <= birth
  /\ \A w \in Watermark : /\ commitIntent[w] # None => commitIntent[w].birth <= birth
                          /\ commitAck[w] # None => commitAck[w].birth <= birth

\* A message of a claimed source has the digest that was claimed.
ClaimsSound == \A m \in Stored : intent[m.src] # None => m.digest = intent[m.src].digest

\* A commit is acknowledged as it was claimed, the watermark of a claim is there,
\* and a request that was executed has archived it.
CommitClaimsSound ==
  \A w \in Watermark :
    /\ commitAck[w] # None => commitAck[w] = commitIntent[w]
    /\ commitIntent[w] # None /\ commitIntent[w].birth = birth =>
         /\ Covered(w, Stored)
         /\ Executed(w) => Covered(w, archived)

Safe ==
  /\ \A p \in Proc : Learned(pc[p], mem[p])
  /\ RequestsSound /\ RecordsPast /\ ClaimsSound /\ CommitClaimsSound
  /\ NoDuplicate /\ AckSound /\ CommitAckJustified /\ DirectoryStaysUsable

SInv == IInv /\ Safe

-----------------------------------------------------------------------------
(* What one process or the server does to the knowledge of the others.     *)

\* Records and what was submitted stay, messages stay within a generation, and
\* only a claimed source with a request is ever added.
Env ==
  /\ birth' >= birth
  /\ \A s \in Source : /\ intent[s] # None => intent'[s] = intent[s]
                       /\ ack[s] # None => ack'[s] = ack[s]
  /\ \A w \in Watermark : /\ commitIntent[w] # None => commitIntent'[w] = commitIntent[w]
                          /\ commitPosts[w] # 0 => commitPosts'[w] # 0
  /\ \A s \in Source : s \in SourcesOf(Stored)' /\ (intent'[s] = None \/ posts[s] = 0) =>
                         s \in SourcesOf(Stored)
  /\ birth' = birth =>
       commits <= commits' /\ Stored \subseteq Stored' /\ archived \subseteq archived'

LEMMA CoveredMore ==
  ASSUME NEW w, NEW M, NEW N, M \subseteq N, Covered(w, M)
  PROVE  Covered(w, N)
BY DEF Covered

\* The watermark of a process stays: acknowledgements are never changed.
LEMMA WatermarkStays ==
  ASSUME IInv, Env, NEW q \in Proc, mem'[q] = mem[q]
  PROVE  WatermarkOf(mem[q])' = WatermarkOf(mem[q])
<1>1. \A s \in mem[q].acks : s \in Source /\ ack'[s] = ack[s]
  BY DEF IInv, MemoryOK, KnowsOnlyPublished, Published, TypeOK, Env
<1> QED BY <1>1 DEF WatermarkOf

LEMMA LearnedStays ==
  ASSUME IInv, Safe, Env, TypeOK', NEW q \in Proc, pc'[q] = pc[q], mem'[q] = mem[q]
  PROVE  Learned(pc[q], mem[q])'
<1> DEFINE m == mem[q]
           w == WatermarkOf(mem[q])
<1>1. m \in Memory /\ KnowsOnlyPublished(pc[q], m) /\ DOMAIN m.batch \subseteq Source
  BY MemoryFacts
<1>2. LearnedSession(pc[q], m) /\ LearnedAbsence(pc[q], m) /\ LearnedCommit(pc[q], m)
  BY DEF Safe, Learned
<1>3. birth \in Nat /\ birth' \in Nat /\ commits \in Nat /\ commits' \in Nat
      /\ m.meta.birth \in Nat /\ m.meta.commits \in Nat
  BY <1>1 DEF IInv, TypeOK, Birth, Memory
<1>4. LearnedSession(pc[q], mem[q])'
  <2>1. m.meta.birth <= birth'
    BY <1>2, <1>3 DEF LearnedSession, Env
  <2>2. m.meta.birth = birth' => birth' = birth
    BY <1>2, <1>3 DEF LearnedSession, Env
  <2> QED BY <1>2, <1>3, <2>1, <2>2 DEF LearnedSession, Env
<1>5. LearnedAbsence(pc[q], mem[q])'
  <2>1. \A s \in Source : intent'[s] = None /\ s \notin SourcesOf(Stored) => s \notin SourcesOf(Stored)'
    BY DEF Env
  <2>2. \A s \in Source : intent'[s] = None => intent[s] = None
    BY DEF Env
  <2>3. m.cur # None => m.cur \in Source /\ intent'[m.cur] = intent[m.cur]
    BY <1>1 DEF KnowsOnlyPublished, Published, Env, IInv, TypeOK
  <2>4. pc[q] = "post" => m.cur \in Source /\ m.cur \notin SourcesOf(Stored)'
    BY <1>1, <1>2, <2>3 DEF KnowsOnlyPublished, LearnedAbsence, Env, IInv, AppendClaims
  <2>5. m.todo \subseteq Source
    BY <1>1 DEF Memory
  <2> QED BY <1>1, <1>2, <2>1, <2>2, <2>3, <2>4, <2>5 DEF LearnedAbsence
<1>6. LearnedCommit(pc[q], mem[q])'
  <2>1. WatermarkOf(mem[q])' = w /\ w \in Watermark
    BY WatermarkStays, WatermarkType DEF IInv
  <2>2. m.meta.birth = birth' => birth' = birth
    BY <1>2, <1>3 DEF LearnedSession, Env
  <2>3. CASE pc[q] \in {"commitClaim", "commitPost"} /\ m.meta.birth = birth'
    <3>1. Covered(w, Stored')
      BY <1>2, <2>2, <2>3, CoveredMore DEF LearnedCommit, Env
    <3> QED BY <2>1, <2>3, <3>1 DEF LearnedCommit, Stored
  <2>4. CASE pc[q] = "commitPosted"
    BY <1>2, <2>1, <2>4 DEF LearnedCommit, Env
  <2>5. CASE /\ ~ (pc[q] \in {"commitClaim", "commitPost"} /\ m.meta.birth = birth')
             /\ pc[q] # "commitPosted"
    BY <2>5 DEF LearnedCommit
  <2> QED BY <2>3, <2>4, <2>5
<1> QED BY <1>4, <1>5, <1>6 DEF Learned

-----------------------------------------------------------------------------
(* Steps that change only where a process stands and what it remembers.    *)

Globals ==
  /\ RequestsSound /\ RecordsPast /\ ClaimsSound /\ CommitClaimsSound
  /\ NoDuplicate /\ AckSound /\ CommitAckJustified /\ DirectoryStaysUsable

LEMMA OthersLearned ==
  ASSUME IInv, Safe, Env, TypeOK', NEW p \in Proc, NEW at, NEW m, Move(p, at, m),
         Learned(at, m)'
  PROVE  \A q \in Proc : Learned(pc[q], mem[q])'
<1>1. pc'[p] = at /\ mem'[p] = m /\ \A q \in Proc : q # p => pc'[q] = pc[q] /\ mem'[q] = mem[q]
  BY DEF IInv, TypeOK, Move
<1>2. ASSUME NEW q \in Proc, q # p PROVE Learned(pc[q], mem[q])'
  BY <1>1, <1>2, LearnedStays
<1>3. Learned(pc[p], mem[p])'
  BY <1>1
<1> QED BY <1>2, <1>3

LEMMA QuietEnv ==
  ASSUME TypeOK, UNCHANGED <<directory, session, network, history>>
  PROVE  Env
<1> USE DEF directory, session, network, history
<1>1. birth \in Nat /\ commits \in Nat
  BY DEF TypeOK, Birth
<1>2. Stored' = Stored /\ SourcesOf(Stored)' = SourcesOf(Stored)
  BY DEF Stored, SourcesOf
<1> QED BY <1>1, <1>2 DEF Env

LEMMA MoveSafe ==
  ASSUME SInv, IInv', NEW p \in Proc, NEW at, NEW m, Move(p, at, m),
         UNCHANGED <<directory, session, network, history>>, Learned(at, m)
  PROVE  SInv'
<1> USE DEF directory, session, network, history
<1>1. Env
  BY QuietEnv DEF SInv, IInv
<1>2. Learned(at, m)'
  BY DEF Learned, LearnedSession, LearnedAbsence, LearnedCommit, WatermarkOf, Stored
<1>3. \A q \in Proc : Learned(pc[q], mem[q])'
  BY <1>1, <1>2, OthersLearned DEF SInv, IInv
<1>4. Globals'
  BY DEF SInv, Safe, Globals, RequestsSound, RecordsPast, ClaimsSound, CommitClaimsSound,
         NoDuplicate, AckSound, CommitAckJustified, Executed, DirectoryStaysUsable, DirectoryUsable,
         Unambiguous, Stored
<1> QED BY <1>3, <1>4 DEF SInv, Safe, Globals

LEMMA BlankLearned ==
  ASSUME TypeOK
  PROVE  Learned("idle", Blank)
BY DEF Learned, LearnedSession, LearnedAbsence, LearnedCommit, Blank, NoMetadata, Inspects,
       TypeOK, Birth

LEMMA ReturnSafe ==
  ASSUME SInv, IInv', NEW p \in Proc, Return(p),
         UNCHANGED <<directory, session, network, history>>
  PROVE  SInv'
BY BlankLearned, MoveSafe DEF Return, SInv, IInv

\* The metadata of a session is that of its generation.
LEMMA MetadataLearned ==
  ASSUME SInv, NEW at, NEW m, m.meta = Metadata, at \in Inspects => m.found = {}
  PROVE  LearnedSession(at, m)
<1>1. Metadata.birth = birth /\ Metadata.commits = commits /\ birth \in Nat /\ commits \in Nat
  BY DEF Metadata, SInv, IInv, TypeOK, Birth
<1> QED BY <1>1 DEF LearnedSession

\* Where a process stands before the inspection.
Early == {"idle", "commits", "commitMeta", "reconcile", "begin"}

LEMMA EarlyLearned ==
  ASSUME NEW at \in Early, NEW m, m.cur = None, LearnedSession(at, m),
         \A s \in m.todo : intent[s] = None => s \notin SourcesOf(Stored)
  PROVE  Learned(at, m)
BY DEF Learned, LearnedAbsence, LearnedCommit, Early, Inspects

LEMMA StartSafe ==
  ASSUME SInv, IInv', NEW p \in Proc, (\E b \in Batch : StartSync(p, b)) \/ StartCommit(p)
  PROVE  SInv'
<1>1. PICK op \in {"sync", "commit"}, b \in Batch :
        Move(p, "commits", Loaded(op, b)) /\ UNCHANGED <<directory, session, network, history>>
  BY EmptyBatch DEF StartSync, StartCommit, Blank
<1> DEFINE m == Loaded(op, b)
<1>2. m \in Memory /\ m.cur = None /\ m.todo = {} /\ m.meta = NoMetadata
  <2>1. Published(intent) \subseteq Source /\ Published(ack) \subseteq Source
    BY DEF SInv, IInv, TypeOK, Published
  <2> QED BY <2>1, BlankMemory DEF Loaded, Memory, Blank
<1>3. LearnedSession("commits", m)
  BY <1>2 DEF LearnedSession, NoMetadata, Inspects, SInv, IInv, TypeOK, Birth
<1>4. Learned("commits", m)
  BY <1>2, <1>3, EarlyLearned DEF Early
<1> QED BY <1>1, <1>4, MoveSafe

\* The acknowledgement of a commit is published once its request was executed
\* or the counter has advanced past its claim.
LEMMA PublishCommitAckSafe ==
  ASSUME SInv, IInv', NEW p \in Proc, NEW at \in Early, NEW m, NEW w \in Watermark,
         Move(p, at, m), UNCHANGED <<intent, ack, commitIntent, session, network, history>>,
         commitAck' = IF commitAck[w] = None
                        THEN [commitAck EXCEPT ![w] = commitIntent[w]]
                        ELSE commitAck,
         commitIntent[w] # None /\ commitIntent[w].birth = birth =>
           Executed(w) \/ commits > commitIntent[w].before,
         LearnedSession(at, m), LearnedAbsence(at, m)
  PROVE  SInv'
<1> USE DEF session, network, history
<1>1. birth \in Birth /\ commits \in Nat
  BY DEF SInv, IInv, TypeOK
<1>2. Env
  <2>1. Stored' = Stored /\ SourcesOf(Stored)' = SourcesOf(Stored)
    BY DEF Stored, SourcesOf
  <2> QED BY <1>1, <2>1 DEF Env, Birth
<1>3. Learned(at, m)'
  BY DEF Learned, LearnedSession, LearnedAbsence, LearnedCommit, Early, Stored
<1>4. \A q \in Proc : Learned(pc[q], mem[q])'
  BY <1>2, <1>3, OthersLearned DEF SInv, IInv
<1>5. \A v \in Watermark : commitAck'[v] \in {commitAck[v], IF v = w THEN commitIntent[w] ELSE commitAck[v]}
  BY DEF SInv, IInv, TypeOK
<1>6. RecordsPast' /\ CommitAckJustified'
  BY <1>5 DEF SInv, Safe, RecordsPast, CommitClaimsSound, CommitAckJustified, Executed, Covered
<1>7. /\ RequestsSound' /\ ClaimsSound' /\ NoDuplicate' /\ AckSound' /\ DirectoryStaysUsable'
  BY DEF SInv, Safe, RequestsSound, ClaimsSound, NoDuplicate, AckSound,
         DirectoryStaysUsable, DirectoryUsable, Unambiguous, Stored
<1>8. CommitClaimsSound'
  BY <1>5 DEF SInv, Safe, CommitClaimsSound, Executed, Covered, Stored
<1> QED BY <1>4, <1>6, <1>7, <1>8 DEF SInv, Safe

LEMMA ReconcileCommitsSafe ==
  ASSUME SInv, IInv', NEW p \in Proc, ReconcileCommits(p)
  PROVE  SInv'
<1> DEFINE o == mem[p]
<1>1. o \in Memory /\ KnowsOnlyPublished(pc[p], o)
  BY MemoryFacts DEF SInv
<1>2. LearnedSession(pc[p], o) /\ LearnedAbsence(pc[p], o)
  BY DEF SInv, Safe, Learned
<1>3. \A s \in o.todo : intent[s] = None => s \notin SourcesOf(Stored)
  BY <1>2 DEF LearnedAbsence
<1>4. CASE ReadCommitState(p)
  <2> DEFINE m == [o EXCEPT !.unacked = Published(commitIntent) \ Published(commitAck)]
  <2>1. m.cur = None /\ m.todo = o.todo /\ m.meta = o.meta
    BY <1>1, <1>4 DEF ReadCommitState, KnowsOnlyPublished, Memory
  <2>2. \A at \in {"begin", "commitMeta"} : Learned(at, m)
    <3>1. \A at \in {"begin", "commitMeta"} : LearnedSession(at, m)
      BY <1>2, <2>1 DEF LearnedSession, Inspects
    <3> QED BY <1>3, <2>1, <3>1, EarlyLearned DEF Early
  <2> QED BY <1>4, <2>2, MoveSafe DEF ReadCommitState
<1>5. CASE ReadCommitMeta(p)
  <2>0. PICK m : m = [o EXCEPT !.meta = Metadata]
    OBVIOUS
  <2>1. m.cur = None /\ m.todo = o.todo /\ m.meta = Metadata
    BY <1>1, <1>5, <2>0 DEF ReadCommitMeta, KnowsOnlyPublished, Memory
  <2>2. LearnedSession("reconcile", m)
    BY <2>1, MetadataLearned DEF Inspects
  <2>3. Learned("reconcile", m)
    BY <1>3, <2>1, <2>2, EarlyLearned DEF Early
  <2> QED BY <1>5, <2>0, <2>3, MoveSafe DEF ReadCommitMeta
<1>6. ASSUME NEW w \in Watermark, Reconcile(p, w) PROVE SInv'
  <2> DEFINE rest == o.unacked \ {w}
  <2>0. PICK at, m :
          /\ at = IF rest = {} THEN "begin" ELSE "reconcile"
          /\ m = [o EXCEPT !.unacked = rest, !.meta = IF rest = {} THEN NoMetadata ELSE @]
    OBVIOUS
  <2>1. Move(p, at, m) /\ UNCHANGED <<intent, ack, commitIntent, session, network, history>>
    BY <1>6, <2>0 DEF Reconcile
  <2>2. m.cur = None /\ m.todo = o.todo /\ m.meta \in {o.meta, NoMetadata}
    BY <1>1, <1>6, <2>0 DEF Reconcile, KnowsOnlyPublished, Memory
  <2>3. birth \in Birth /\ commits \in Nat
    BY DEF SInv, IInv, TypeOK
  <2>4. LearnedSession(at, m)
    BY <1>2, <2>0, <2>2, <2>3 DEF LearnedSession, NoMetadata, Birth, Inspects
  <2>5. at \in Early
    BY <2>0 DEF Early
  <2>6. Learned(at, m)
    BY <1>3, <2>2, <2>4, <2>5, EarlyLearned
  <2>7. LearnedSession(at, m) /\ LearnedAbsence(at, m)
    BY <2>6 DEF Learned
  <2>8. /\ commitIntent[w] \in CommitRecord
        /\ commitIntent[w].birth = birth => commits > commitIntent[w].before
    <3>1. commitIntent[w] # None /\ commitIntent[w] \in CommitRecord
      BY <1>1, <1>6 DEF Reconcile, KnowsOnlyPublished, Published, SInv, IInv, TypeOK
    <3>2. commitIntent[w].birth = o.meta.birth /\ o.meta.commits > commitIntent[w].before
      BY <1>6 DEF Reconcile, CommitObserved
    <3>3. commitIntent[w].birth = birth => commits > commitIntent[w].before
      BY <1>1, <1>2, <2>3, <3>1, <3>2 DEF LearnedSession, Memory, CommitRecord
    <3> QED BY <3>1, <3>3
  <2> QED BY <1>6, <2>1, <2>5, <2>7, <2>8, PublishCommitAckSafe DEF Reconcile
<1> QED BY <1>4, <1>5, <1>6 DEF ReconcileCommits

-----------------------------------------------------------------------------
(* The inspection.                                                         *)

\* A complete view of an unchanged session shows every message there is.
LEMMA CompleteView ==
  ASSUME SInv, NEW found, found \subseteq Stored, Cardinality(found) >= Cardinality(Stored)
  PROVE  found = Stored
<1>1. IsFiniteSet(Stored)
  BY FS_Union DEF SInv, IInv, FiniteSession, Stored
<1>2. IsFiniteSet(found) /\ Cardinality(found) <= Cardinality(Stored)
      /\ (Cardinality(found) = Cardinality(Stored) => found = Stored)
  BY <1>1, FS_Subset
<1>3. Cardinality(found) \in Nat /\ Cardinality(Stored) \in Nat
  BY <1>1, <1>2, FS_CardinalityType
<1> QED BY <1>2, <1>3

LEMMA LookedSafe ==
  ASSUME SInv, IInv', NEW p \in Proc, NEW found, NEW all, NEW next \in Inspects,
         next # "proved", pc[p] \in Inspects, pc[p] # "proved",
         found \subseteq mem[p].found \union Stored,
         Looked(p, [mem[p] EXCEPT !.found = found, !.enough = all], next)
  PROVE  SInv'
<1> DEFINE o == mem[p]
           m == [o EXCEPT !.found = found, !.enough = all]
           at == IF Proven(m) THEN "proved" ELSE next
<1>1. o \in Memory
  BY MemoryFacts DEF SInv
<1>2. LearnedSession(pc[p], o) /\ LearnedAbsence(pc[p], o)
  BY DEF SInv, Safe, Learned
<1>3. /\ m.cur = o.cur /\ m.todo = o.todo /\ m.meta = o.meta /\ m.batch = o.batch
      /\ m.want = o.want /\ m.found = found
  BY <1>1 DEF Memory
<1>4. at \in Inspects /\ (at = "proved" => m.want \subseteq SourcesOf(m.found) \/ next = "proved")
  BY DEF Inspects, Proven
<1>5. Move(p, at, m) /\ UNCHANGED <<directory, session, network, history>>
  BY DEF Looked
<1> HIDE DEF at, m
<1>6. LearnedSession(at, m)
  BY <1>2, <1>3, <1>4 DEF LearnedSession
<1>7. LearnedAbsence(at, m)
  BY <1>2, <1>3, <1>4 DEF LearnedAbsence, Inspects
<1>8. LearnedCommit(at, m)
  BY <1>4 DEF LearnedCommit, Inspects
<1> QED BY <1>5, <1>6, <1>7, <1>8, MoveSafe DEF Learned

LEMMA InspectSafe ==
  ASSUME SInv, IInv', NEW p \in Proc,
         BeginInspect(p) \/ ReadContext(p) \/ ReadRaw(p) \/ ReadArchives(p)
         \/ Recheck(p) \/ BeginVerify(p)
  PROVE  SInv'
<1> DEFINE o == mem[p]
<1>1. o \in Memory /\ KnowsOnlyPublished(pc[p], o)
  BY MemoryFacts DEF SInv
<1>2. LearnedSession(pc[p], o) /\ LearnedAbsence(pc[p], o)
  BY DEF SInv, Safe, Learned
<1>3. ASSUME NEW sources, o.cur = None => DOMAIN o.batch \subseteq sources,
             Move(p, "context", Inspecting(o, sources)),
             UNCHANGED <<directory, session, network, history>>
      PROVE  SInv'
  <2>1. PICK m : m = Inspecting(o, sources)
    OBVIOUS
  <2>2. /\ m.cur = o.cur /\ m.todo = o.todo /\ m.meta = Metadata /\ m.batch = o.batch
        /\ m.want = sources /\ m.found = {}
    BY <1>1, <2>1 DEF Inspecting, Memory
  <2>3. LearnedSession("context", m)
    BY <2>2, MetadataLearned
  <2>4. LearnedAbsence("context", m) /\ LearnedCommit("context", m)
    BY <1>2, <1>3, <2>2 DEF LearnedAbsence, LearnedCommit
  <2> QED BY <1>3, <2>1, <2>3, <2>4, MoveSafe DEF Learned
<1>4. CASE BeginInspect(p)
  BY <1>3, <1>4 DEF BeginInspect, Wanted
<1>5. CASE BeginVerify(p)
  BY <1>1, <1>3, <1>5 DEF BeginVerify, KnowsOnlyPublished
<1>6. CASE ReadContext(p)
  <2>1. PICK shown \in SUBSET live :
          LET all == Cardinality(shown) >= o.meta.live
          IN  Looked(p, [o EXCEPT !.found = shown, !.enough = all], IF all THEN "archives" ELSE "raw")
    BY <1>6 DEF ReadContext
  <2>2. PICK all : all = (Cardinality(shown) >= o.meta.live)
    OBVIOUS
  <2>3. PICK next \in {"archives", "raw"} : next = IF all THEN "archives" ELSE "raw"
    OBVIOUS
  <2>4. Looked(p, [o EXCEPT !.found = shown, !.enough = all], next)
    BY <2>1, <2>2, <2>3
  <2>5. pc[p] \in Inspects /\ pc[p] # "proved" /\ shown \subseteq o.found \union Stored
    BY <1>6 DEF ReadContext, Inspects, Stored
  <2>6. next \in Inspects /\ next # "proved"
    BY DEF Inspects
  <2> QED BY <2>4, <2>5, <2>6, LookedSafe
<1>7. CASE ReadRaw(p)
  <2>1. PICK all : all = (Cardinality(live) >= o.meta.live)
    OBVIOUS
  <2>2. Looked(p, [o EXCEPT !.found = o.found \union live, !.enough = all], "archives")
    BY <1>1, <1>7, <2>1 DEF ReadRaw, Memory
  <2>3. pc[p] \in Inspects /\ pc[p] # "proved" /\ o.found \union live \subseteq o.found \union Stored
    BY <1>7 DEF ReadRaw, Inspects, Stored
  <2>4. "archives" \in Inspects
    BY DEF Inspects
  <2> QED BY <2>2, <2>3, <2>4, LookedSafe
<1>8. CASE ReadArchives(p)
  <2>1. [o EXCEPT !.found = @ \union archived]
          = [o EXCEPT !.found = o.found \union archived, !.enough = o.enough]
    BY <1>1 DEF Memory
  <2>2. Looked(p, [o EXCEPT !.found = o.found \union archived, !.enough = o.enough], "recheck")
    BY <1>8, <2>1 DEF ReadArchives
  <2>3. pc[p] \in Inspects /\ pc[p] # "proved" /\ o.found \union archived \subseteq o.found \union Stored
    BY <1>8 DEF ReadArchives, Inspects, Stored
  <2>4. "recheck" \in Inspects
    BY DEF Inspects
  <2> QED BY <2>2, <2>3, <2>4, LookedSafe
<1>9. CASE Recheck(p)
  <2>1. o.meta = Metadata /\ Cardinality(o.found) >= Cardinality(Stored) /\ o.found \subseteq Stored
    BY <1>2, <1>9 DEF Recheck, Metadata, LearnedSession, Inspects, Stored
  <2>2. o.found = Stored
    BY <2>1, CompleteView
  <2>3. LearnedSession("proved", o)
    BY <1>2, <2>1 DEF LearnedSession
  <2>4. LearnedAbsence("proved", o) /\ LearnedCommit("proved", o)
    BY <1>2, <2>2 DEF LearnedAbsence, LearnedCommit
  <2> QED BY <1>9, <2>3, <2>4, MoveSafe DEF Recheck, Learned
<1> QED BY <1>4, <1>5, <1>6, <1>7, <1>8, <1>9

-----------------------------------------------------------------------------
(* Acknowledgements and appends.                                           *)

\* An acknowledgement rests on a message of its generation; in the first
\* generation it therefore agrees with the claim.
LEMMA PublishAckSafe ==
  ASSUME SInv, IInv', NEW p \in Proc, NEW at, NEW m, NEW s \in Source, NEW record \in Record,
         Move(p, at, m), PublishAck(s, record),
         UNCHANGED <<intent, commitIntent, commitAck, session, network, history>>,
         record.birth <= birth,
         record.birth = birth => \E msg \in Stored : msg.src = s /\ msg.digest = record.digest,
         LearnedSession(at, m), LearnedAbsence(at, m),
         at \notin {"commitClaim", "commitPost", "commitPosted"}
  PROVE  SInv'
<1> USE DEF session, network, history
<1>1. birth \in Birth /\ commits \in Nat /\ ack \in [Source -> Record \union {None}]
  BY DEF SInv, IInv, TypeOK
<1>2. ack'[s] = record /\ \A t \in Source : t # s => ack'[t] = ack[t]
  BY <1>1 DEF PublishAck
<1>3. Stored' = Stored /\ SourcesOf(Stored)' = SourcesOf(Stored)
  BY DEF Stored, SourcesOf
<1>4. Env
  BY <1>1, <1>2, <1>3 DEF Env, PublishAck, Birth
<1>5. Learned(at, m)'
  BY <1>3 DEF Learned, LearnedSession, LearnedAbsence, LearnedCommit, Stored
<1>6. \A q \in Proc : Learned(pc[q], mem[q])'
  BY <1>4, <1>5, OthersLearned DEF SInv, IInv
<1>7. AckSound' /\ RecordsPast'
  BY <1>2 DEF SInv, Safe, AckSound, RecordsPast, Stored
<1>8. DirectoryStaysUsable'
  <2> SUFFICES ASSUME birth = 1, intent[s] # None PROVE record = intent[s]
    BY <1>2 DEF SInv, Safe, DirectoryStaysUsable, DirectoryUsable
  <2>1. intent[s] \in Record /\ intent[s].birth <= birth
    BY DEF SInv, Safe, RecordsPast, IInv, TypeOK
  <2>2. intent[s].birth = 1 /\ record.birth = 1
    BY <2>1 DEF Record, Birth
  <2>3. record.digest = intent[s].digest
    BY <2>2 DEF SInv, Safe, ClaimsSound
  <2> QED BY <2>1, <2>2, <2>3 DEF Record
<1>9. RequestsSound' /\ ClaimsSound' /\ CommitClaimsSound' /\ NoDuplicate' /\ CommitAckJustified'
  BY DEF SInv, Safe, RequestsSound, ClaimsSound, CommitClaimsSound, NoDuplicate,
         CommitAckJustified, Executed, Unambiguous, Stored
<1> QED BY <1>6, <1>7, <1>8, <1>9 DEF SInv, Safe

LEMMA AckFoundSafe ==
  ASSUME SInv, IInv', NEW p \in Proc, NEW s \in Source, AckFound(p, s)
  PROVE  SInv'
<1> DEFINE o == mem[p]
<1>1. o \in Memory /\ LearnedSession(pc[p], o) /\ LearnedAbsence(pc[p], o)
  BY MemoryFacts DEF SInv, Safe, Learned
<1>2. PICK m : m = [o EXCEPT !.acks = @ \union {s}]
  OBVIOUS
<1>3. PICK record : record = [digest |-> Expected(o, s), birth |-> o.meta.birth]
  OBVIOUS
<1>4. /\ m.cur = o.cur /\ m.todo = o.todo /\ m.meta = o.meta /\ m.batch = o.batch
      /\ m.want = o.want /\ m.found = o.found
  BY <1>1, <1>2 DEF Memory
<1>5. record \in Record
  <2>1. o.cur = None /\ s \in o.want
    BY DEF AckFound
  <2> QED BY <1>1, <1>3, <2>1, ExpectedType DEF SInv, IInv, Memory, Record
<1>6. record.birth <= birth
  BY <1>1, <1>3 DEF LearnedSession
<1>7. record.birth = birth => \E msg \in Stored : msg.src = s /\ msg.digest = record.digest
  BY <1>1, <1>3 DEF AckFound, Confirms, LearnedSession, Inspects
<1>8. LearnedSession("proved", m) /\ LearnedAbsence("proved", m)
  BY <1>1, <1>4 DEF AckFound, LearnedSession, LearnedAbsence
<1>9. Move(p, "proved", m) /\ PublishAck(s, record)
      /\ UNCHANGED <<intent, commitIntent, commitAck, session, network, history>>
  BY <1>2, <1>3 DEF AckFound
<1> QED BY <1>5, <1>6, <1>7, <1>8, <1>9, PublishAckSafe

LEMMA AckAppendedSafe ==
  ASSUME SInv, IInv', NEW p \in Proc, AckAppended(p)
  PROVE  SInv'
<1> DEFINE o == mem[p]
           rest == o.todo \ {o.cur}
<1>1. o \in Memory /\ KnowsOnlyPublished(pc[p], o) /\ LearnedSession(pc[p], o) /\ LearnedAbsence(pc[p], o)
  BY MemoryFacts DEF SInv, Safe, Learned
<1>2. PICK s, record : s = o.cur /\ record = intent[o.cur]
  OBVIOUS
<1>3. s \in Source /\ record \in Record
  BY <1>1, <1>2 DEF AckAppended, KnowsOnlyPublished, Published, SInv, IInv, TypeOK
<1>4. record.birth <= birth /\ record.birth = o.meta.birth /\ record.digest = o.batch[s]
  BY <1>1, <1>2 DEF AckAppended, LearnedSession, LearnedAbsence
<1>5. record.birth = birth => \E msg \in Stored : msg.src = s /\ msg.digest = record.digest
  BY <1>1, <1>2, <1>4 DEF AckAppended, Confirms, LearnedSession, Inspects
<1>6. PublishAck(s, record)
      /\ UNCHANGED <<intent, commitIntent, commitAck, session, network, history>>
  BY <1>2 DEF AckAppended
<1>7. CASE Return(p)
  <2>1. LearnedSession("idle", Blank) /\ LearnedAbsence("idle", Blank)
    BY BlankLearned DEF SInv, IInv, Learned
  <2> QED BY <1>3, <1>4, <1>5, <1>6, <1>7, <2>1, PublishAckSafe DEF Return
<1>8. CASE Move(p, "append", [o EXCEPT !.todo = rest, !.cur = None, !.want = {}, !.found = {}])
  <2>1. PICK m : m = [o EXCEPT !.todo = rest, !.cur = None, !.want = {}, !.found = {}]
    OBVIOUS
  <2>2. m.cur = None /\ m.todo = rest /\ m.meta = o.meta
    BY <1>1, <2>1 DEF Memory
  <2>3. LearnedSession("append", m) /\ LearnedAbsence("append", m)
    BY <1>1, <2>2 DEF LearnedSession, LearnedAbsence, Inspects
  <2> QED BY <1>3, <1>4, <1>5, <1>6, <1>8, <2>1, <2>3, PublishAckSafe
<1> QED BY <1>7, <1>8 DEF AckAppended

LEMMA BeginAppendsSafe ==
  ASSUME SInv, IInv', NEW p \in Proc, BeginAppends(p)
  PROVE  SInv'
<1> DEFINE o == mem[p]
           todo == DOMAIN o.batch \ SourcesOf(o.found)
<1>1. o \in Memory /\ LearnedSession(pc[p], o) /\ LearnedAbsence(pc[p], o)
  BY MemoryFacts DEF SInv, Safe, Learned
<1>2. CASE Return(p)
  BY <1>2, ReturnSafe DEF BeginAppends
<1>3. CASE Move(p, "append", [o EXCEPT !.todo = todo, !.want = {}, !.found = {}])
  <2>1. PICK m : m = [o EXCEPT !.todo = todo, !.want = {}, !.found = {}]
    OBVIOUS
  <2>2. m.cur = None /\ m.todo = todo /\ m.meta = o.meta
    BY <1>1, <2>1 DEF Memory, BeginAppends
  <2>3. LearnedSession("append", m) /\ LearnedAbsence("append", m) /\ LearnedCommit("append", m)
    BY <1>1, <2>2 DEF BeginAppends, LearnedSession, LearnedAbsence, LearnedCommit, Inspects
  <2> QED BY <1>3, <2>1, <2>3, MoveSafe DEF BeginAppends, Learned
<1> QED BY <1>2, <1>3 DEF BeginAppends

\* A source is claimed while the server has no message of it.
LEMMA ClaimSafe ==
  ASSUME SInv, IInv', NEW p \in Proc, NEW s \in Source, Claim(p, s)
  PROVE  SInv'
<1> USE DEF session, network, history
<1> DEFINE o == mem[p]
<1>1. o \in Memory /\ LearnedSession(pc[p], o) /\ LearnedAbsence(pc[p], o) /\ KnowsOnlyPublished(pc[p], o)
  BY MemoryFacts DEF SInv, Safe, Learned
<1>2. PICK m, record : m = [o EXCEPT !.cur = s] /\ record = [digest |-> o.batch[s], birth |-> o.meta.birth]
  OBVIOUS
<1>3. /\ pc[p] = "append" /\ s \in o.todo /\ intent[s] = None
      /\ intent' = [intent EXCEPT ![s] = record] /\ Move(p, "post", m)
      /\ UNCHANGED <<ack, commitIntent, commitAck, session, network, history>>
  BY <1>2 DEF Claim, MayAppend
<1>4. /\ m.cur = s /\ m.todo = o.todo /\ m.meta = o.meta /\ m.batch = o.batch
  BY <1>1, <1>2 DEF Memory
<1>5. /\ intent'[s] = record /\ \A t \in Source : t # s => intent'[t] = intent[t]
      /\ birth \in Birth /\ commits \in Nat
  BY <1>3 DEF SInv, IInv, TypeOK
<1>6. s \notin SourcesOf(Stored) /\ record.birth <= birth /\ record.digest = o.batch[s]
  BY <1>1, <1>2, <1>3 DEF LearnedAbsence, LearnedSession
<1>7. Stored' = Stored /\ SourcesOf(Stored)' = SourcesOf(Stored)
  BY <1>3 DEF Stored, SourcesOf
<1>8. \A t \in Source : intent'[t] = None => intent[t] = None
  BY <1>3, <1>5
<1>9. Env
  BY <1>3, <1>5, <1>7 DEF Env, Birth
<1>10. Learned("post", m)'
  <2>1. LearnedSession("post", m)'
    BY <1>1, <1>3, <1>4 DEF LearnedSession, Inspects
  <2>2. LearnedAbsence("post", m)'
    <3>1. \A t \in m.todo : intent'[t] = None => t \notin SourcesOf(Stored)'
      BY <1>1, <1>4, <1>7, <1>8 DEF LearnedAbsence, Memory
    <3> QED BY <1>4, <1>5, <1>6, <1>7, <3>1 DEF LearnedAbsence, Inspects
  <2>3. LearnedCommit("post", m)'
    BY DEF LearnedCommit
  <2> QED BY <2>1, <2>2, <2>3 DEF Learned
<1>11. \A q \in Proc : Learned(pc[q], mem[q])'
  BY <1>3, <1>9, <1>10, OthersLearned DEF SInv, IInv
<1>12. RequestsSound'
  <2>1. \A r \in net : r \in Request
    BY DEF SInv, IInv, TypeOK
  <2> QED BY <1>3, <1>5, <1>7, <2>1 DEF SInv, Safe, RequestsSound, Request
<1>13. RecordsPast'
  BY <1>3, <1>5, <1>6 DEF SInv, Safe, RecordsPast
<1>14. ClaimsSound'
  <2>1. \A msg \in Stored : msg.src \in Source /\ msg.src # s
    BY <1>6 DEF SourcesOf, Stored, Message, SInv, IInv, TypeOK
  <2> QED BY <1>5, <1>7, <2>1 DEF SInv, Safe, ClaimsSound
<1>15. DirectoryStaysUsable'
  <2>1. birth = 1 => ack[s] = None
    <3> SUFFICES ASSUME birth = 1, ack[s] # None PROVE FALSE
      OBVIOUS
    <3>1. ack[s].birth = birth
      BY DEF SInv, Safe, RecordsPast, IInv, TypeOK, Record, Birth
    <3> QED BY <1>6, <3>1 DEF SInv, Safe, AckSound, SourcesOf
  <2> QED BY <1>3, <1>5, <2>1 DEF SInv, Safe, DirectoryStaysUsable, DirectoryUsable
<1>16. CommitClaimsSound' /\ NoDuplicate' /\ AckSound' /\ CommitAckJustified'
  BY <1>3 DEF SInv, Safe, CommitClaimsSound, NoDuplicate, AckSound, CommitAckJustified,
              Executed, Unambiguous, Stored
<1> QED BY <1>11, <1>12, <1>13, <1>14, <1>15, <1>16 DEF SInv, Safe

\* Its one request is submitted while the server still has none.
LEMMA PostSafe ==
  ASSUME SInv, IInv', NEW p \in Proc, Post(p)
  PROVE  SInv'
<1> USE DEF directory, session
<1>1. PICK m : m = mem[p]
  OBVIOUS
<1>2. m \in Memory /\ LearnedSession("post", m) /\ LearnedAbsence("post", m)
      /\ KnowsOnlyPublished("post", m) /\ m.cur \in Source
  <2>1. pc[p] = "post"
    BY DEF Post
  <2> QED BY <1>1, <2>1, MemoryFacts DEF SInv, Safe, Learned, KnowsOnlyPublished, Memory
<1>3. PICK request : request = AppendRequest(m)
  OBVIOUS
<1>4. request.src = m.cur /\ request.digest = intent[m.cur].digest /\ intent[m.cur] # None
      /\ posts[m.cur] = 0 /\ m.cur \notin SourcesOf(Stored)
  BY <1>1, <1>2, <1>3 DEF AppendRequest, LearnedAbsence, KnowsOnlyPublished, Post, SInv, IInv, AppendClaims
<1>5. /\ net' = net \union {request} /\ posts' = [posts EXCEPT ![m.cur] = @ + 1]
      /\ Move(p, "posted", m) /\ UNCHANGED <<directory, session, commitNet, commitPosts, stored>>
  BY <1>1, <1>3 DEF Post
<1>6. posts'[m.cur] = 1 /\ \A s \in Source : s # m.cur => posts'[s] = posts[s]
  BY <1>2, <1>4, <1>5 DEF SInv, IInv, TypeOK
<1>7. Stored' = Stored /\ SourcesOf(Stored)' = SourcesOf(Stored)
  BY <1>5 DEF Stored, SourcesOf
<1>8. Env
  BY <1>5, <1>7 DEF Env, Birth, SInv, IInv, TypeOK
<1>9. Learned("posted", m)'
  BY <1>2, <1>4, <1>5, <1>7 DEF Learned, LearnedSession, LearnedAbsence, LearnedCommit, Inspects
<1>10. \A q \in Proc : Learned(pc[q], mem[q])'
  BY <1>5, <1>8, <1>9, OthersLearned DEF SInv, IInv
<1>11. RequestsSound'
  <2>1. \A r \in net : r.src \in Source /\ posts[r.src] # 0 /\ r.src # m.cur
    BY <1>4 DEF SInv, Safe, RequestsSound, IInv, TypeOK, Request
  <2>2. \A r \in net' : /\ posts'[r.src] # 0 /\ intent[r.src] # None
                        /\ r.src \notin SourcesOf(Stored) /\ r.digest = intent[r.src].digest
    BY <1>4, <1>5, <1>6, <2>1 DEF SInv, Safe, RequestsSound
  <2>3. \A r, q \in net' : r.src = q.src => r = q
    BY <1>4, <1>5, <2>1 DEF SInv, Safe, RequestsSound
  <2> QED BY <1>5, <1>7, <2>2, <2>3 DEF RequestsSound
<1>12. /\ RecordsPast' /\ ClaimsSound' /\ CommitClaimsSound' /\ NoDuplicate' /\ AckSound'
       /\ CommitAckJustified' /\ DirectoryStaysUsable'
  BY <1>5 DEF SInv, Safe, RecordsPast, ClaimsSound, CommitClaimsSound, NoDuplicate, AckSound,
              CommitAckJustified, Executed, DirectoryStaysUsable, DirectoryUsable, Unambiguous, Stored
<1> QED BY <1>10, <1>11, <1>12 DEF SInv, Safe

-----------------------------------------------------------------------------
(* Commits.                                                                *)

LEMMA CommitSafe ==
  ASSUME SInv, IInv', NEW p \in Proc,
         BeginCommit(p) \/ ClaimCommit(p) \/ PostCommit(p) \/ AckCommit(p)
  PROVE  SInv'
<1>1. PICK o, w : o = mem[p] /\ w = WatermarkOf(mem[p])
  OBVIOUS
<1>2. /\ o \in Memory /\ w \in Watermark /\ KnowsOnlyPublished(pc[p], o)
      /\ LearnedSession(pc[p], o) /\ LearnedAbsence(pc[p], o) /\ LearnedCommit(pc[p], o)
  BY <1>1, MemoryFacts, WatermarkType DEF SInv, Safe, Learned, IInv
<1>3. birth \in Birth /\ commits \in Nat
  BY DEF SInv, IInv, TypeOK
<1>4. CASE BeginCommit(p)
  <2>1. PICK m : m = [o EXCEPT !.meta = Metadata]
    OBVIOUS
  <2>2. m.cur = o.cur /\ m.todo = o.todo /\ m.meta = Metadata /\ m.acks = o.acks
    BY <1>2, <2>1 DEF Memory
  <2>3. LearnedSession("commitClaim", m)
    BY <2>2, MetadataLearned DEF Inspects
  <2>4. LearnedAbsence("commitClaim", m)
    BY <1>2, <1>4, <2>2 DEF LearnedAbsence, Inspects, BeginCommit, KnowsOnlyPublished
  <2>5. LearnedCommit("commitClaim", m)
    <3>1. \A s \in o.acks : s \in Source /\ ack[s] # None /\ ack[s].birth = birth
      BY <1>1, <1>2, <1>4 DEF BeginCommit, MayCommit, KnowsOnlyPublished, Published, SInv, IInv, TypeOK
    <3>2. Covered(WatermarkOf(m), Stored)
      BY <2>2, <3>1 DEF Covered, WatermarkOf, SInv, Safe, AckSound
    <3> QED BY <3>2 DEF LearnedCommit
  <2> QED BY <1>1, <1>4, <2>1, <2>3, <2>4, <2>5, MoveSafe DEF BeginCommit, Learned
<1>5. CASE ClaimCommit(p)
  <2> USE DEF session, network, history
  <2>1. PICK record : record = [birth |-> o.meta.birth, before |-> o.meta.commits]
    OBVIOUS
  <2>2. /\ pc[p] = "commitClaim" /\ commitIntent[w] = None
        /\ commitIntent' = [commitIntent EXCEPT ![w] = record] /\ Move(p, "commitPost", o)
        /\ UNCHANGED <<intent, ack, commitAck, session, network, history>>
    BY <1>1, <1>5, <2>1 DEF ClaimCommit, MayClaimCommit
  <2>3. commitIntent'[w] = record /\ \A v \in Watermark : v # w => commitIntent'[v] = commitIntent[v]
    BY <1>2, <2>2 DEF SInv, IInv, TypeOK
  <2>4. /\ record.birth <= birth
        /\ record.birth = birth => Covered(w, Stored)
    BY <1>1, <1>2, <2>1, <2>2 DEF LearnedSession, LearnedCommit
  <2>5. Env
    <3>1. Stored' = Stored /\ SourcesOf(Stored)' = SourcesOf(Stored)
      BY <2>2 DEF Stored, SourcesOf
    <3> QED BY <1>3, <2>2, <2>3, <3>1 DEF Env, Birth
  <2>6. Learned("commitPost", o)'
    <3>1. LearnedSession("commitPost", o)' /\ LearnedAbsence("commitPost", o)'
      BY <1>2, <2>2 DEF LearnedSession, LearnedAbsence, Inspects, Stored
    <3>2. LearnedCommit("commitPost", o)'
      BY <1>2, <2>2 DEF LearnedCommit, WatermarkOf, Stored
    <3> QED BY <3>1, <3>2 DEF Learned
  <2>7. \A q \in Proc : Learned(pc[q], mem[q])'
    BY <2>2, <2>5, <2>6, OthersLearned DEF SInv, IInv
  <2>8. RecordsPast' /\ CommitClaimsSound'
    <3>1. ~ Executed(w) /\ commitAck[w] = None
      BY <1>2, <2>2 DEF Executed, SInv, IInv, CommitClaims, Safe, CommitClaimsSound
    <3> QED BY <2>2, <2>3, <2>4, <3>1
            DEF SInv, Safe, RecordsPast, CommitClaimsSound, Executed, Covered, Stored
  <2>9. /\ RequestsSound' /\ ClaimsSound' /\ NoDuplicate' /\ AckSound' /\ CommitAckJustified'
        /\ DirectoryStaysUsable'
    BY <2>2 DEF SInv, Safe, RequestsSound, ClaimsSound, NoDuplicate, AckSound, CommitAckJustified,
         Executed, DirectoryStaysUsable, DirectoryUsable, Unambiguous, Stored
  <2> QED BY <2>7, <2>8, <2>9 DEF SInv, Safe
<1>6. CASE PostCommit(p)
  <2> USE DEF directory, session
  <2>1. /\ pc[p] = "commitPost" /\ commitNet' = commitNet \union {w} /\ Move(p, "commitPosted", o)
        /\ commitPosts' = [commitPosts EXCEPT ![w] = @ + 1]
        /\ UNCHANGED <<directory, session, net, posts, stored>>
    BY <1>1, <1>6 DEF PostCommit
  <2>2. /\ commitPosts[w] = 0 /\ commitPosts'[w] # 0
        /\ \A v \in Watermark : v # w => commitPosts'[v] = commitPosts[v]
    BY <1>1, <1>2, <2>1 DEF SInv, IInv, TypeOK, CommitClaims
  <2>3. Env
    <3>1. Stored' = Stored /\ SourcesOf(Stored)' = SourcesOf(Stored)
      BY <2>1 DEF Stored, SourcesOf
    <3> QED BY <1>3, <2>1, <2>2, <3>1 DEF Env, Birth
  <2>4. Learned("commitPosted", o)'
    <3>1. LearnedSession("commitPosted", o)' /\ LearnedAbsence("commitPosted", o)'
      BY <1>2, <2>1 DEF LearnedSession, LearnedAbsence, Inspects, Stored
    <3>2. WatermarkOf(o)' = w /\ commitIntent'[w] # None
      BY <1>1, <2>1 DEF WatermarkOf, SInv, IInv, CommitClaims
    <3>3. LearnedCommit("commitPosted", o)'
      BY <2>1, <2>2, <3>2 DEF LearnedCommit
    <3> QED BY <3>1, <3>3 DEF Learned
  <2>5. \A q \in Proc : Learned(pc[q], mem[q])'
    BY <2>1, <2>3, <2>4, OthersLearned DEF SInv, IInv
  <2>6. \A v \in Watermark : Executed(v)' <=> Executed(v)
    BY <2>1, <2>2 DEF Executed, SInv, IInv, TypeOK
  <2>7. CommitClaimsSound' /\ CommitAckJustified'
    BY <2>1, <2>6 DEF SInv, Safe, CommitClaimsSound, CommitAckJustified, Covered, Stored
  <2>8. /\ RequestsSound' /\ RecordsPast' /\ ClaimsSound' /\ NoDuplicate' /\ AckSound'
        /\ DirectoryStaysUsable'
    BY <2>1 DEF SInv, Safe, RequestsSound, RecordsPast, ClaimsSound, NoDuplicate, AckSound,
         DirectoryStaysUsable, DirectoryUsable, Unambiguous, Stored
  <2> QED BY <2>5, <2>7, <2>8 DEF SInv, Safe
<1>7. CASE AckCommit(p)
  <2>1. Executed(w)
    BY <1>1, <1>2, <1>7 DEF AckCommit, LearnedCommit, Executed, SInv, IInv, TypeOK
  <2>2. LearnedSession("idle", Blank) /\ LearnedAbsence("idle", Blank)
    BY BlankLearned DEF SInv, IInv, Learned
  <2>3. "idle" \in Early
    BY DEF Early
  <2> QED BY <1>1, <1>2, <1>7, <2>1, <2>2, <2>3, PublishCommitAckSafe DEF AckCommit, Return
<1> QED BY <1>4, <1>5, <1>6, <1>7

-----------------------------------------------------------------------------
(* The server.                                                             *)

LEMMA ApplyAppendSafe ==
  ASSUME SInv, IInv', NEW r \in net, ApplyAppend(r)
  PROVE  SInv'
<1> USE DEF directory
<1>1. PICK new : new = [src |-> r.src, digest |-> r.digest,
                        copy |-> Cardinality({m \in live \union archived : m.src = r.src}) + 1]
  OBVIOUS
<1>2. /\ live' = live \union {new} /\ net' = net \ {r}
      /\ UNCHANGED <<directory, birth, commits, archived, commitNet, posts, commitPosts, pc, mem>>
  BY <1>1 DEF ApplyAppend
<1>3. Stored' = Stored \union {new} /\ SourcesOf(Stored)' = SourcesOf(Stored) \union {r.src}
      /\ new.src = r.src /\ new.digest = r.digest
  BY <1>1, <1>2 DEF Stored, SourcesOf
<1>4. /\ r.src \in Source /\ posts[r.src] # 0 /\ intent[r.src] # None
      /\ r.src \notin SourcesOf(Stored) /\ r.digest = intent[r.src].digest
  BY DEF SInv, Safe, RequestsSound, IInv, TypeOK, Request
<1>5. Env
  <2>1. birth \in Nat /\ commits \in Nat
    BY DEF SInv, IInv, TypeOK, Birth
  <2>2. \A s \in Source : s \in SourcesOf(Stored)' /\ (intent'[s] = None \/ posts[s] = 0) =>
                           s \in SourcesOf(Stored)
    BY <1>2, <1>3, <1>4
  <2>3. Stored \subseteq Stored'
    BY <1>3
  <2> QED BY <1>2, <2>1, <2>2, <2>3 DEF Env
<1>6. \A q \in Proc : Learned(pc[q], mem[q])'
  BY <1>2, <1>5, LearnedStays DEF SInv, IInv
<1>7. RequestsSound'
  BY <1>2, <1>3 DEF SInv, Safe, RequestsSound
<1>8. NoDuplicate'
  BY <1>3, <1>4 DEF SInv, Safe, NoDuplicate, Unambiguous, SourcesOf
<1>9. ClaimsSound' /\ AckSound'
  BY <1>2, <1>3, <1>4 DEF SInv, Safe, ClaimsSound, AckSound
<1>10. CommitClaimsSound' /\ CommitAckJustified'
  BY <1>2, <1>3 DEF SInv, Safe, CommitClaimsSound, CommitAckJustified, Executed, Covered
<1>11. RecordsPast' /\ DirectoryStaysUsable'
  BY <1>2 DEF SInv, Safe, RecordsPast, DirectoryStaysUsable, DirectoryUsable
<1> QED BY <1>6, <1>7, <1>8, <1>9, <1>10, <1>11 DEF SInv, Safe

\* A commit archives every message but the kept ones; the request that keeps
\* none is the one that is executed.
LEMMA ArchiveSafe ==
  ASSUME SInv, IInv', NEW kept \in SUBSET live, Archive(kept), commits' \in {commits, commits + 1},
         commitNet' = commitNet \/ (commitNet' \subseteq commitNet /\ kept = {}),
         UNCHANGED <<directory, birth, net, history, pc, mem>>
  PROVE  SInv'
<1> USE DEF directory, history
<1>1. /\ Stored' = Stored /\ archived \subseteq archived' /\ commits <= commits'
      /\ SourcesOf(Stored)' = SourcesOf(Stored) /\ commits \in Nat /\ commits' \in Nat
      /\ commitNet' # commitNet => archived' = Stored
  BY DEF Archive, Stored, SourcesOf, SInv, IInv, TypeOK
<1>2. Env
  BY <1>1 DEF Env, Birth, SInv, IInv, TypeOK
<1>3. \A q \in Proc : Learned(pc[q], mem[q])'
  BY <1>2, LearnedStays DEF SInv, IInv
<1>4. /\ RequestsSound' /\ RecordsPast' /\ ClaimsSound' /\ NoDuplicate' /\ AckSound'
      /\ DirectoryStaysUsable'
  BY <1>1 DEF SInv, Safe, RequestsSound, RecordsPast, ClaimsSound, NoDuplicate, AckSound,
       DirectoryStaysUsable, DirectoryUsable, Unambiguous
<1>5. \A w \in Watermark : commitIntent[w] # None /\ commitIntent[w].birth = birth =>
        Covered(w, Stored) /\ (Executed(w)' => Covered(w, archived'))
  <2>1. SUFFICES ASSUME NEW w \in Watermark, commitIntent[w] # None, commitIntent[w].birth = birth
                 PROVE  Covered(w, Stored) /\ (Executed(w)' => Covered(w, archived'))
    OBVIOUS
  <2>2. Covered(w, Stored) /\ (Executed(w) => Covered(w, archived))
    BY <2>1 DEF SInv, Safe, CommitClaimsSound
  <2>3. CASE commitNet' = commitNet
    BY <1>1, <2>2, <2>3, CoveredMore DEF Executed
  <2>4. CASE commitNet' # commitNet
    BY <1>1, <2>2, <2>4 DEF Covered
  <2> QED BY <2>2, <2>3, <2>4
<1>6. CommitClaimsSound'
  <2>1. \A w \in Watermark : commitAck[w] # None => commitAck[w] = commitIntent[w]
    BY DEF SInv, Safe, CommitClaimsSound
  <2> QED BY <1>1, <1>5, <2>1 DEF CommitClaimsSound, Covered
<1>7. CommitAckJustified'
  <2>1. SUFFICES ASSUME NEW w \in Watermark, commitAck[w] # None, commitAck[w].birth = birth
                 PROVE  IF Executed(w)' THEN Covered(w, archived')
                                        ELSE commits' > commitAck[w].before
    BY DEF CommitAckJustified, Covered
  <2>2. commitIntent[w] = commitAck[w] /\ commitAck[w].before \in Nat
    BY <2>1 DEF SInv, Safe, CommitClaimsSound, IInv, TypeOK, CommitRecord
  <2>3. CASE Executed(w)'
    BY <1>5, <2>1, <2>2, <2>3
  <2>4. CASE ~ Executed(w)'
    <3>1. ~ Executed(w)
      BY <2>4 DEF Executed
    <3>2. commits > commitAck[w].before
      BY <2>1, <3>1 DEF SInv, Safe, CommitAckJustified
    <3> QED BY <1>1, <2>2, <2>4, <3>2
  <2> QED BY <2>3, <2>4
<1> QED BY <1>3, <1>4, <1>6, <1>7 DEF SInv, Safe

\* A new generation holds nothing, and nothing is recorded of it.
LEMMA ReplaceSessionSafe ==
  ASSUME SInv, IInv', ReplaceSession
  PROVE  SInv'
<1> USE DEF directory, network, history
<1>1. /\ birth' = birth + 1 /\ Stored' = {} /\ SourcesOf(Stored)' = {} /\ birth \in Nat /\ birth' \in Nat
      /\ birth >= 1 /\ UNCHANGED <<directory, network, history, pc, mem>>
  BY DEF ReplaceSession, Stored, SourcesOf, SInv, IInv, TypeOK, Birth
<1>2. Env
  BY <1>1 DEF Env
<1>3. \A q \in Proc : Learned(pc[q], mem[q])'
  BY <1>1, <1>2, LearnedStays DEF SInv, IInv
<1>4. /\ \A s \in Source : /\ intent[s] # None => intent[s].birth <= birth /\ intent[s].birth \in Nat
                           /\ ack[s] # None => ack[s].birth <= birth /\ ack[s].birth \in Nat
      /\ \A w \in Watermark :
           /\ commitIntent[w] # None => commitIntent[w].birth <= birth /\ commitIntent[w].birth \in Nat
           /\ commitAck[w] # None => commitAck[w].birth <= birth /\ commitAck[w].birth \in Nat
  BY DEF SInv, Safe, RecordsPast, IInv, TypeOK, Record, CommitRecord, Birth
<1>5. RecordsPast'
  BY <1>1, <1>4 DEF RecordsPast
<1>6. AckSound' /\ CommitClaimsSound' /\ CommitAckJustified'
  <2>1. \A w \in Watermark : commitAck[w] # None => commitAck[w] = commitIntent[w]
    BY DEF SInv, Safe, CommitClaimsSound
  <2> QED BY <1>1, <1>4, <2>1 DEF AckSound, CommitClaimsSound, CommitAckJustified
<1>7. RequestsSound' /\ ClaimsSound' /\ NoDuplicate' /\ DirectoryStaysUsable'
  BY <1>1 DEF SInv, Safe, RequestsSound, ClaimsSound, NoDuplicate, Unambiguous, DirectoryStaysUsable
<1> QED BY <1>3, <1>5, <1>6, <1>7 DEF SInv, Safe

-----------------------------------------------------------------------------
(* The theorems.                                                           *)

LEMMA InitSafe == Init => SInv
<1> SUFFICES ASSUME Init PROVE SInv
  OBVIOUS
<1>1. IInv
  BY InitInv
<1>2. \A p \in Proc : Learned(pc[p], mem[p])
  BY <1>1, BlankLearned DEF IInv, Init
<1>3. NoDuplicate
  BY DEF Init, NoDuplicate, Unambiguous, Stored, SourcesOf
<1>4. RequestsSound /\ RecordsPast /\ CommitClaimsSound
  BY DEF Init, RequestsSound, RecordsPast, CommitClaimsSound
<1>5. AckSound /\ CommitAckJustified /\ DirectoryStaysUsable
  BY DEF Init, AckSound, CommitAckJustified, Executed, DirectoryStaysUsable, DirectoryUsable
<1>6. ClaimsSound
  <2>1. \A m \in Stored : m.src \in Source
    BY <1>1 DEF IInv, TypeOK, Stored, Message
  <2> QED BY <2>1 DEF Init, ClaimsSound
<1> QED BY <1>1, <1>2, <1>3, <1>4, <1>5, <1>6 DEF SInv, Safe

LEMMA NextSafe == SInv /\ [Next]_vars => SInv'
<1> SUFFICES ASSUME SInv, [Next]_vars PROVE SInv'
  OBVIOUS
<1>1. IInv'
  BY NextInv DEF SInv
<1>2. ASSUME NEW p \in Proc, Sync(p) \/ Commit(p) \/ ReconcileCommits(p) \/ Fail(p) PROVE SInv'
  <2>1. CASE SyncNothing(p) \/ CommitNothing(p) \/ Fail(p)
    BY <1>1, <2>1, ReturnSafe DEF SyncNothing, CommitNothing, Fail
  <2>2. CASE (\E b \in Batch : StartSync(p, b)) \/ StartCommit(p)
    BY <1>1, <2>2, StartSafe
  <2> QED BY <1>1, <1>2, <2>1, <2>2, ReconcileCommitsSafe, InspectSafe, AckFoundSafe, AckAppendedSafe,
             BeginAppendsSafe, ClaimSafe, PostSafe, CommitSafe DEF Sync, Commit
<1>3. CASE Server
  <2>1. ASSUME NEW w \in commitNet, ApplyCommit(w) PROVE SInv'
    BY <1>1, <2>1, ArchiveSafe DEF ApplyCommit
  <2>2. CASE ForeignCommit
    BY <1>1, <2>2, ArchiveSafe DEF ForeignCommit, network
  <2> QED BY <1>1, <1>3, <2>1, <2>2, ApplyAppendSafe, ReplaceSessionSafe DEF Server
<1>4. CASE UNCHANGED vars
  <2> USE <1>4 DEF vars, directory, session, network, history
  <2>1. \A p \in Proc : Learned(pc[p], mem[p])'
    <3>1. Env
      BY QuietEnv DEF SInv, IInv
    <3> QED BY <1>1, <3>1, LearnedStays DEF SInv, IInv
  <2>2. Globals'
    BY DEF SInv, Safe, Globals, RequestsSound, RecordsPast, ClaimsSound, CommitClaimsSound,
         NoDuplicate, AckSound, CommitAckJustified, Executed, DirectoryStaysUsable, DirectoryUsable,
         Unambiguous, Stored
  <2> QED BY <1>1, <2>1, <2>2 DEF SInv, Safe, Globals
<1> QED BY <1>2, <1>3, <1>4 DEF Next

LEMMA AlwaysSafe == Spec => []SInv
BY InitSafe, NextSafe, PTL DEF Spec

\* No source is ever stored twice in one session, whatever was mirrored before,
\* whichever processes sync, and whatever fails (syncNow).
THEOREM StoredOnce == Spec => []NoDuplicate
<1>1. SInv => NoDuplicate
  BY DEF SInv, Safe
<1> QED BY <1>1, AlwaysSafe, PTL

\* An acknowledgement of the current generation has its message on the server,
\* with the recorded digest (syncNow, inspectRemote).
THEOREM AcknowledgementsAreStored == Spec => []AckSound
<1>1. SInv => AckSound
  BY DEF SInv, Safe
<1> QED BY <1>1, AlwaysSafe, PTL

\* An acknowledged commit of this generation has archived its whole watermark, if
\* its request was executed; if the acknowledgement was only inferred, the counter
\* has advanced since the claim (commitNow, reconcileCommits).  Nothing is assumed
\* of what the commits of other clients keep.
THEOREM CommitsJustified == Spec => []CommitAckJustified
<1>1. SInv => CommitAckJustified
  BY DEF SInv, Safe
<1> QED BY <1>1, AlwaysSafe, PTL

\* Racing processes leave no directory that localState refuses, until the
\* session is replaced.
THEOREM DirectoryUsableForEver == Spec => []DirectoryStaysUsable
<1>1. SInv => DirectoryStaysUsable
  BY DEF SInv, Safe
<1> QED BY <1>1, AlwaysSafe, PTL

-----------------------------------------------------------------------------
(* One process.                                                            *)

\* What the only process of a directory knows of it.
KnowsAll(at, m) ==
  /\ at \in Early \ {"idle"} \/ (at \in Inspects /\ m.cur = None) => m.intents = Published(intent)
  /\ m.op = "commit" => m.intents \subseteq m.acks
  /\ at \in {"commitMeta", "reconcile"} => m.unacked = Published(commitIntent) \ Published(commitAck)
  /\ at \in Inspects \union {"begin", "append", "post", "posted", "commitClaim"} =>
       Published(commitIntent) \subseteq Published(commitAck)
  /\ at \in {"append", "commitClaim"} => Published(intent) \subseteq Published(ack)
  /\ at \in {"post", "posted"} \/ (at \in Inspects /\ m.cur # None) =>
       Published(intent) \subseteq Published(ack) \union {m.cur}

KnowsDirectory == \A p \in Proc : KnowsAll(pc[p], mem[p])


\* Where the process goes when the directory stays as it is.
LEMMA QuietKnows ==
  ASSUME TypeOK, NEW p \in Proc, NEW at, NEW m, Move(p, at, m), UNCHANGED directory,
         KnowsAll(at, m)
  PROVE  KnowsAll(pc[p], mem[p])'
<1>1. pc'[p] = at /\ mem'[p] = m
  BY DEF TypeOK, Move
<1>2. /\ Published(intent)' = Published(intent) /\ Published(ack)' = Published(ack)
      /\ Published(commitIntent)' = Published(commitIntent)
      /\ Published(commitAck)' = Published(commitAck)
  BY DEF directory, Published
<1> QED BY <1>1, <1>2 DEF KnowsAll

LEMMA BlankKnows == KnowsAll("idle", Blank)
BY DEF KnowsAll, Blank, Early, Inspects

LEMMA StartKnows ==
  ASSUME SInv, NEW p \in Proc, (\E b \in Batch : StartSync(p, b)) \/ StartCommit(p)
  PROVE  KnowsAll(pc[p], mem[p])'
<1> USE DEF KnowsAll, Loaded, Blank, Early, Inspects, SInv, IInv
<1>1. ASSUME NEW b \in Batch, StartSync(p, b) PROVE KnowsAll(pc[p], mem[p])'
  <2>1. KnowsAll("commits", Loaded("sync", b))
    OBVIOUS
  <2> QED BY <1>1, <2>1, QuietKnows DEF StartSync
<1>2. CASE StartCommit(p)
  <2>1. KnowsAll("commits", Loaded("commit", Blank.batch))
    BY <1>2 DEF StartCommit, NothingUnknown
  <2> QED BY <1>2, <2>1, QuietKnows DEF StartCommit
<1> QED BY <1>1, <1>2

LEMMA ReconcileKnows ==
  ASSUME SInv, NEW p \in Proc, KnowsAll(pc[p], mem[p]), ReconcileCommits(p)
  PROVE  KnowsAll(pc[p], mem[p])'
<1>0. mem[p] \in Memory /\ TypeOK
  BY DEF SInv, IInv, TypeOK
<1>1. CASE ReadCommitState(p)
  <2>1. PICK u : u = Published(commitIntent) \ Published(commitAck)
    OBVIOUS
  <2>2. PICK n : n = [mem[p] EXCEPT !.unacked = u]
    OBVIOUS
  <2>3. n.op = mem[p].op /\ n.intents = mem[p].intents /\ n.acks = mem[p].acks
        /\ n.cur = mem[p].cur /\ n.unacked = u
    BY <1>0, <2>2 DEF Memory
  <2>4. KnowsAll(IF u = {} THEN "begin" ELSE "commitMeta", n)
    BY <1>1, <2>1, <2>3 DEF ReadCommitState, KnowsAll, Early, Inspects
  <2> QED BY <1>0, <1>1, <2>1, <2>2, <2>4, QuietKnows DEF ReadCommitState
<1>2. CASE ReadCommitMeta(p)
  <2>1. PICK n : n = [mem[p] EXCEPT !.meta = Metadata]
    OBVIOUS
  <2>2. n.op = mem[p].op /\ n.intents = mem[p].intents /\ n.acks = mem[p].acks
        /\ n.cur = mem[p].cur /\ n.unacked = mem[p].unacked
    BY <1>0, <2>1 DEF Memory
  <2>3. KnowsAll("reconcile", n)
    BY <1>2, <2>2 DEF ReadCommitMeta, KnowsAll, Early, Inspects
  <2> QED BY <1>0, <1>2, <2>1, <2>3, QuietKnows DEF ReadCommitMeta
<1>3. ASSUME NEW w \in Watermark, Reconcile(p, w) PROVE KnowsAll(pc[p], mem[p])'
  <2>1. PICK n : n = [mem[p] EXCEPT !.unacked = mem[p].unacked \ {w},
                        !.meta = IF mem[p].unacked \ {w} = {} THEN NoMetadata ELSE @]
    OBVIOUS
  <2>2. n.op = mem[p].op /\ n.intents = mem[p].intents /\ n.acks = mem[p].acks
        /\ n.cur = mem[p].cur /\ n.unacked = mem[p].unacked \ {w}
    BY <1>0, <2>1 DEF Memory
  <2>3. PICK at : at = IF mem[p].unacked \ {w} = {} THEN "begin" ELSE "reconcile"
    OBVIOUS
  <2>4. pc'[p] = at /\ mem'[p] = n
    BY <1>0, <1>3, <2>1, <2>3 DEF Reconcile, Move, TypeOK
  <2>5. commitIntent[w] # None /\ w \in mem[p].unacked /\ pc[p] = "reconcile"
    BY <1>3 DEF Reconcile, SInv, IInv, MemoryOK, KnowsOnlyPublished, Published
  <2>6. Published(commitAck)' = Published(commitAck) \union {w}
    BY <1>0, <1>3, <2>5 DEF Reconcile, Published, TypeOK
  <2>7. /\ Published(intent)' = Published(intent) /\ Published(ack)' = Published(ack)
        /\ Published(commitIntent)' = Published(commitIntent)
    BY <1>3 DEF Reconcile, Published
  <2> QED BY <2>2, <2>3, <2>4, <2>5, <2>6, <2>7 DEF KnowsAll, Early, Inspects
<1> QED BY <1>1, <1>2, <1>3 DEF ReconcileCommits

LEMMA InspectKnows ==
  ASSUME SInv, NEW p \in Proc, KnowsAll(pc[p], mem[p]),
         \/ BeginInspect(p) \/ ReadContext(p) \/ ReadRaw(p) \/ ReadArchives(p)
         \/ Recheck(p) \/ BeginVerify(p)
  PROVE  KnowsAll(pc[p], mem[p])'
<1>0. mem[p] \in Memory /\ TypeOK
  BY DEF SInv, IInv, TypeOK
<1>1. CASE BeginInspect(p)
  <2>1. PICK n : n = Inspecting(mem[p], Wanted(mem[p]))
    OBVIOUS
  <2>2. n.op = mem[p].op /\ n.intents = mem[p].intents /\ n.acks = mem[p].acks /\ n.cur = mem[p].cur
    BY <1>0, <2>1 DEF Memory, Inspecting
  <2>3. mem[p].cur = None
    BY <1>1 DEF BeginInspect, SInv, IInv, MemoryOK, KnowsOnlyPublished
  <2>4. KnowsAll("context", n)
    BY <1>1, <2>2, <2>3 DEF BeginInspect, KnowsAll, Early, Inspects
  <2> QED BY <1>0, <1>1, <2>1, <2>4, QuietKnows DEF BeginInspect
<1>2. CASE BeginVerify(p)
  <2>1. PICK n : n = Inspecting(mem[p], {mem[p].cur})
    OBVIOUS
  <2>2. n.op = mem[p].op /\ n.intents = mem[p].intents /\ n.acks = mem[p].acks /\ n.cur = mem[p].cur
    BY <1>0, <2>1 DEF Memory, Inspecting
  <2>3. mem[p].cur # None
    BY <1>2 DEF BeginVerify, SInv, IInv, MemoryOK, KnowsOnlyPublished
  <2>4. KnowsAll("context", n)
    BY <1>2, <2>2, <2>3 DEF BeginVerify, KnowsAll, Early, Inspects
  <2> QED BY <1>0, <1>2, <2>1, <2>4, QuietKnows DEF BeginVerify
<1>3. ASSUME NEW m, NEW at \in Inspects, NEW next \in Inspects, pc[p] = at,
             Looked(p, m, next), m.op = mem[p].op, m.intents = mem[p].intents,
             m.acks = mem[p].acks, m.cur = mem[p].cur
      PROVE  KnowsAll(pc[p], mem[p])'
  <2>1. PICK k : k = IF Proven(m) THEN "proved" ELSE next
    OBVIOUS
  <2>2. KnowsAll(k, m)
    BY <1>3, <2>1 DEF KnowsAll, Early, Inspects
  <2> QED BY <1>0, <1>3, <2>1, <2>2, QuietKnows DEF Looked
<1>4. CASE ReadContext(p)
  <2>1. \E m : \E next \in Inspects : /\ Looked(p, m, next) /\ m.op = mem[p].op
            /\ m.intents = mem[p].intents /\ m.acks = mem[p].acks /\ m.cur = mem[p].cur
    <3>1. PICK shown \in SUBSET live :
            LET all == Cardinality(shown) >= mem[p].meta.live
            IN  Looked(p, [mem[p] EXCEPT !.found = shown, !.enough = all],
                       IF all THEN "archives" ELSE "raw")
      BY <1>4 DEF ReadContext
    <3>2. PICK m : m = [mem[p] EXCEPT !.found = shown, !.enough = Cardinality(shown) >= mem[p].meta.live]
      OBVIOUS
    <3>3. m.op = mem[p].op /\ m.intents = mem[p].intents /\ m.acks = mem[p].acks /\ m.cur = mem[p].cur
      BY <1>0, <3>2 DEF Memory
    <3>4. PICK next : next = IF Cardinality(shown) >= mem[p].meta.live THEN "archives" ELSE "raw"
      OBVIOUS
    <3>5. Looked(p, m, next) /\ next \in Inspects
      BY <3>1, <3>2, <3>4 DEF Inspects
    <3> QED BY <3>3, <3>5
  <2> QED BY <1>3, <1>4, <2>1 DEF ReadContext, Inspects
<1>5. CASE ReadRaw(p)
  <2>1. PICK m : m = [mem[p] EXCEPT !.found = @ \union live,
                                    !.enough = Cardinality(live) >= mem[p].meta.live]
    OBVIOUS
  <2>2. m.op = mem[p].op /\ m.intents = mem[p].intents /\ m.acks = mem[p].acks /\ m.cur = mem[p].cur
    BY <1>0, <2>1 DEF Memory
  <2> QED BY <1>3, <1>5, <2>1, <2>2 DEF ReadRaw, Inspects
<1>6. CASE ReadArchives(p)
  <2>1. PICK m : m = [mem[p] EXCEPT !.found = @ \union archived]
    OBVIOUS
  <2>2. m.op = mem[p].op /\ m.intents = mem[p].intents /\ m.acks = mem[p].acks /\ m.cur = mem[p].cur
    BY <1>0, <2>1 DEF Memory
  <2> QED BY <1>3, <1>6, <2>1, <2>2 DEF ReadArchives, Inspects
<1>7. CASE Recheck(p)
  <2>1. KnowsAll("proved", mem[p])
    BY <1>7 DEF Recheck, KnowsAll, Early, Inspects
  <2> QED BY <1>0, <1>7, <2>1, QuietKnows DEF Recheck
<1> QED BY <1>1, <1>2, <1>4, <1>5, <1>6, <1>7


LEMMA AppendKnows ==
  ASSUME SInv, NEW p \in Proc, KnowsAll(pc[p], mem[p]),
         \/ \E s \in Source : AckFound(p, s) \/ Claim(p, s)
         \/ BeginAppends(p) \/ Post(p) \/ AckAppended(p)
  PROVE  KnowsAll(pc[p], mem[p])'
<1>0. mem[p] \in Memory /\ TypeOK /\ KnowsOnlyPublished(pc[p], mem[p])
  BY DEF SInv, IInv, TypeOK, MemoryOK
<1>1. ASSUME NEW s \in Source, AckFound(p, s) PROVE KnowsAll(pc[p], mem[p])'
  <2>1. PICK n : n = [mem[p] EXCEPT !.acks = @ \union {s}]
    OBVIOUS
  <2>2. n.op = mem[p].op /\ n.intents = mem[p].intents /\ mem[p].acks \subseteq n.acks
        /\ n.cur = mem[p].cur
    BY <1>0, <2>1 DEF Memory
  <2>3. pc'[p] = "proved" /\ mem'[p] = n /\ pc[p] = "proved" /\ n.cur = None
    BY <1>0, <1>1, <2>1, <2>2 DEF AckFound, Move, TypeOK
  <2>4. /\ Published(intent)' = Published(intent)
        /\ Published(commitIntent)' = Published(commitIntent)
        /\ Published(commitAck)' = Published(commitAck)
    BY <1>1 DEF AckFound, Published
  <2> QED BY <2>2, <2>3, <2>4 DEF KnowsAll, Early, Inspects
<1>2. CASE BeginAppends(p)
  <2>1. CASE DOMAIN mem[p].batch \ SourcesOf(mem[p].found) = {}
    BY <1>0, <1>2, <2>1, QuietKnows, BlankKnows DEF BeginAppends, Return
  <2>2. CASE DOMAIN mem[p].batch \ SourcesOf(mem[p].found) # {}
    <3>1. PICK n : n = [mem[p] EXCEPT !.todo = DOMAIN mem[p].batch \ SourcesOf(mem[p].found),
                                      !.want = {}, !.found = {}]
      OBVIOUS
    <3>2. n.op = mem[p].op /\ n.intents = mem[p].intents /\ n.acks = mem[p].acks /\ n.cur = mem[p].cur
      BY <1>0, <3>1 DEF Memory
    <3>3. Published(intent) \subseteq Published(ack)
      BY <1>0, <1>2 DEF BeginAppends, NothingUnknown, KnowsAll, Inspects, KnowsOnlyPublished
    <3>4. KnowsAll("append", n)
      BY <1>2, <3>2, <3>3 DEF BeginAppends, KnowsAll, Early, Inspects
    <3> QED BY <1>0, <1>2, <2>2, <3>1, <3>4, QuietKnows DEF BeginAppends
  <2> QED BY <2>1, <2>2
<1>3. ASSUME NEW s \in Source, Claim(p, s) PROVE KnowsAll(pc[p], mem[p])'
  <2>1. PICK n : n = [mem[p] EXCEPT !.cur = s]
    OBVIOUS
  <2>2. n.op = mem[p].op /\ n.intents = mem[p].intents /\ n.acks = mem[p].acks /\ n.cur = s
    BY <1>0, <2>1 DEF Memory
  <2>3. pc'[p] = "post" /\ mem'[p] = n /\ pc[p] = "append"
    BY <1>0, <1>3, <2>1 DEF Claim, Move, TypeOK
  <2>4. /\ Published(intent)' \subseteq Published(intent) \union {s}
        /\ Published(ack)' = Published(ack)
        /\ Published(commitIntent)' = Published(commitIntent)
        /\ Published(commitAck)' = Published(commitAck)
    BY <1>0, <1>3 DEF Claim, Published, TypeOK
  <2> QED BY <2>2, <2>3, <2>4 DEF KnowsAll, Early, Inspects
<1>4. CASE Post(p)
  <2>1. KnowsAll("posted", mem[p])
    BY <1>4 DEF Post, KnowsAll, Early, Inspects
  <2> QED BY <1>0, <1>4, <2>1, QuietKnows DEF Post
<1>5. CASE AckAppended(p)
  <2>1. CASE mem[p].todo \ {mem[p].cur} = {}
    <3>1. pc'[p] = "idle" /\ mem'[p] = Blank
      BY <1>0, <1>5, <2>1 DEF AckAppended, Return, Move, TypeOK
    <3> QED BY <3>1 DEF KnowsAll, Blank, Early, Inspects
  <2>2. CASE mem[p].todo \ {mem[p].cur} # {}
    <3>1. PICK n : n = [mem[p] EXCEPT !.todo = mem[p].todo \ {mem[p].cur}, !.cur = None,
                                      !.want = {}, !.found = {}]
      OBVIOUS
    <3>2. n.op = mem[p].op /\ n.intents = mem[p].intents /\ n.acks = mem[p].acks /\ n.cur = None
      BY <1>0, <3>1 DEF Memory
    <3>3. pc'[p] = "append" /\ mem'[p] = n /\ pc[p] = "proved" /\ mem[p].cur # None
      BY <1>0, <1>5, <2>2, <3>1 DEF AckAppended, Move, TypeOK
    <3>4. mem[p].cur \in Source /\ intent[mem[p].cur] # None
      BY <1>0, <3>3 DEF KnowsOnlyPublished, Published, TypeOK
    <3>5. Published(ack) \union {mem[p].cur} \subseteq Published(ack)'
      BY <1>0, <1>5, <3>4 DEF AckAppended, PublishAck, Published, TypeOK
    <3>6. /\ Published(intent)' = Published(intent)
          /\ Published(commitIntent)' = Published(commitIntent)
          /\ Published(commitAck)' = Published(commitAck)
      BY <1>5 DEF AckAppended, Published
    <3> QED BY <3>2, <3>3, <3>5, <3>6 DEF KnowsAll, Early, Inspects
  <2> QED BY <2>1, <2>2
<1> QED BY <1>1, <1>2, <1>3, <1>4, <1>5

LEMMA CommitKnows ==
  ASSUME SInv, NEW p \in Proc, KnowsAll(pc[p], mem[p]),
         BeginCommit(p) \/ ClaimCommit(p) \/ PostCommit(p) \/ AckCommit(p)
  PROVE  KnowsAll(pc[p], mem[p])'
<1>0. mem[p] \in Memory /\ TypeOK /\ KnowsOnlyPublished(pc[p], mem[p])
  BY DEF SInv, IInv, TypeOK, MemoryOK
<1>1. CASE BeginCommit(p)
  <2>1. PICK n : n = [mem[p] EXCEPT !.meta = Metadata]
    OBVIOUS
  <2>2. n.op = mem[p].op /\ n.intents = mem[p].intents /\ n.acks = mem[p].acks /\ n.cur = mem[p].cur
    BY <1>0, <2>1 DEF Memory
  <2>3. KnowsAll("commitClaim", n)
    BY <1>0, <1>1, <2>2 DEF BeginCommit, KnowsAll, KnowsOnlyPublished, Early, Inspects
  <2> QED BY <1>0, <1>1, <2>1, <2>3, QuietKnows DEF BeginCommit
<1>2. CASE ClaimCommit(p) \/ PostCommit(p)
  <2>1. /\ pc'[p] \in {"commitPost", "commitPosted"} /\ mem'[p] = mem[p]
    BY <1>0, <1>2 DEF ClaimCommit, PostCommit, Move, TypeOK
  <2> QED BY <2>1 DEF KnowsAll, Early, Inspects
<1>3. CASE AckCommit(p)
  <2>1. pc'[p] = "idle" /\ mem'[p] = Blank
    BY <1>0, <1>3 DEF AckCommit, Return, Move, TypeOK
  <2> QED BY <2>1 DEF KnowsAll, Blank, Early, Inspects
<1> QED BY <1>1, <1>2, <1>3

\* With one process, nobody else changes the directory behind its back.
LEMMA NextKnows ==
  ASSUME \A p, q \in Proc : p = q, SInv, KnowsDirectory, [Next]_vars
  PROVE  KnowsDirectory'
<1> SUFFICES ASSUME NEW p \in Proc PROVE KnowsAll(pc[p], mem[p])'
  BY DEF KnowsDirectory
<1>0. KnowsAll(pc[p], mem[p]) /\ TypeOK
  BY DEF KnowsDirectory, SInv, IInv
<1>1. CASE Sync(p) \/ Commit(p) \/ ReconcileCommits(p) \/ Fail(p)
  <2>1. CASE SyncNothing(p) \/ CommitNothing(p) \/ Fail(p)
    BY <1>0, <2>1, QuietKnows, BlankKnows DEF SyncNothing, CommitNothing, Fail, Return
  <2> QED BY <1>0, <1>1, <2>1, StartKnows, ReconcileKnows, InspectKnows, AppendKnows, CommitKnows
          DEF Sync, Commit
<1>2. CASE Server \/ UNCHANGED vars
  <2>1. UNCHANGED <<directory, pc, mem>>
    BY <1>2 DEF Server, ApplyAppend, ApplyCommit, ForeignCommit, ReplaceSession, vars
  <2> QED BY <1>0, <2>1 DEF KnowsAll, Published, directory
<1> QED BY <1>1, <1>2 DEF Next

LEMMA ClaimsWait ==
  ASSUME SInv, KnowsDirectory, [Next]_vars,
         intent' # intent \/ commitIntent' # commitIntent
  PROVE  /\ Published(intent) \subseteq Published(ack)
         /\ Published(commitIntent) \subseteq Published(commitAck)
<1>1. PICK p \in Proc : (\E s \in Source : Claim(p, s)) \/ ClaimCommit(p)
  <2>1. ASSUME NEW p \in Proc, Sync(p), ~ \E s \in Source : Claim(p, s)
        PROVE  UNCHANGED <<intent, commitIntent>>
    BY <2>1 DEF Sync, StartSync, SyncNothing, BeginInspect, ReadContext, ReadRaw, ReadArchives,
       Looked, Recheck, AckFound, BeginAppends, Post, BeginVerify, AckAppended, directory
  <2>2. ASSUME NEW p \in Proc, Commit(p) \/ ReconcileCommits(p) \/ Fail(p), ~ ClaimCommit(p)
        PROVE  UNCHANGED <<intent, commitIntent>>
    BY <2>2 DEF Commit, ReconcileCommits, Fail, StartCommit, CommitNothing, BeginCommit,
       PostCommit, AckCommit, ReadCommitState, ReadCommitMeta, Reconcile, directory
  <2>3. CASE Server \/ UNCHANGED vars
    BY <2>3 DEF Server, ApplyAppend, ApplyCommit, ForeignCommit, ReplaceSession, vars, directory
  <2> QED BY <2>1, <2>2, <2>3 DEF Next
<1>2. pc[p] \in {"append", "commitClaim"}
  BY <1>1 DEF Claim, ClaimCommit
<1> QED BY <1>2 DEF KnowsDirectory, KnowsAll

\* One process, however often it restarts, claims no append and no commit while
\* an earlier append or commit has an unknown outcome (syncNow, commitNow,
\* reconcileCommits).  Several processes do: the directory is shared.
THEOREM UncertaintyIsWaitedFor ==
  ASSUME \A p, q \in Proc : p = q
  PROVE  Spec => UncertaintyStops
<1>1. Init => KnowsDirectory
  BY BlankKnows DEF Init, KnowsDirectory, KnowsAll, Blank, Early, Inspects
<1>2. SInv /\ KnowsDirectory /\ [Next]_vars => KnowsDirectory'
  BY NextKnows
<1>3. SInv /\ KnowsDirectory /\ [Next]_vars =>
        [ (intent' # intent \/ commitIntent' # commitIntent) =>
            /\ Published(intent) \subseteq Published(ack)
            /\ Published(commitIntent) \subseteq Published(commitAck) ]_vars
  BY ClaimsWait
<1> QED BY <1>1, <1>2, <1>3, AlwaysSafe, PTL DEF Spec, UncertaintyStops

=============================================================================
