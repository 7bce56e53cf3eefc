------------------------ MODULE SessionMirrorProofs ------------------------
(***************************************************************************)
(* Proofs about SessionMirror, for any processes, sources, digests and     *)
(* bounds.  The inductive invariant IInv says, besides the types, what the *)
(* memory of a process knows about the directory (KnowsOnlyPublished) and  *)
(* that whoever is about to submit a request holds its claim and is alone  *)
(* in holding it (AppendClaims, CommitClaims).                             *)
(***************************************************************************)
EXTENDS SessionMirror, FiniteSetTheorems, TLAPS

\* What a process at step `at` with memory m knows.
KnowsOnlyPublished(at, m) ==
  /\ m.intents \subseteq Published(intent)
  /\ m.acks \subseteq Published(ack)
  /\ m.unacked \subseteq Published(commitIntent)
  /\ m.todo \subseteq DOMAIN m.batch
  /\ m.cur # None => m.cur \in m.todo /\ m.cur \in Published(intent)
  /\ m.cur = None => m.want \subseteq DOMAIN m.batch \union m.intents
  /\ at \in {"post", "posted"} => m.cur # None
  /\ at \in {"commits", "commitMeta", "reconcile", "begin"} => m.cur = None

MemoryOK == \A p \in Proc : KnowsOnlyPublished(pc[p], mem[p])

\* A process about to submit an append is the only one, and the first, for
\* its source.
AppendClaims ==
  /\ \A s \in Source : intent[s] = None => posts[s] = 0
  /\ \A p \in Proc : pc[p] = "post" =>
        intent[mem[p].cur] # None /\ posts[mem[p].cur] = 0
  /\ \A p, q \in Proc : pc[p] = "post" /\ pc[q] = "post" /\ p # q =>
        mem[p].cur # mem[q].cur

\* The same for commits and watermarks.
CommitClaims ==
  /\ \A w \in Watermark : commitIntent[w] = None => commitPosts[w] = 0
  /\ \A p \in Proc : pc[p] = "commitPost" =>
        /\ commitIntent[WatermarkOf(mem[p])] # None
        /\ commitPosts[WatermarkOf(mem[p])] = 0
  /\ \A p, q \in Proc : pc[p] = "commitPost" /\ pc[q] = "commitPost" /\ p # q =>
        WatermarkOf(mem[p]) # WatermarkOf(mem[q])

FiniteSession == IsFiniteSet(live) /\ IsFiniteSet(archived)

IInv == TypeOK /\ FiniteSession /\ MemoryOK /\ AppendClaims /\ CommitClaims

-----------------------------------------------------------------------------
(* Facts about the data.                                                   *)

LEMMA EmptyBatch == [s \in {} |-> None] \in Batch
<1>1. [s \in {} |-> None] \in [{} -> Digest]
  OBVIOUS
<1> QED BY <1>1 DEF Batch

LEMMA BlankMemory == Blank \in Memory
<1>1. NoMetadata \in [birth : Birth, commits : Nat, live : Nat, total : Nat]
  BY MirrorAssumption DEF NoMetadata, Birth
<1> QED BY <1>1, EmptyBatch DEF Blank, Memory

LEMMA BatchFacts ==
  ASSUME NEW b \in Batch
  PROVE  DOMAIN b \subseteq Source /\ \A s \in DOMAIN b : b[s] \in Digest
BY DEF Batch

LEMMA MetadataType ==
  ASSUME TypeOK, FiniteSession
  PROVE  Metadata \in [birth : Birth, commits : Nat, live : Nat, total : Nat]
<1>1. IsFiniteSet(live \union archived)
  BY FS_Union DEF FiniteSession
<1>2. Cardinality(live) \in Nat /\ Cardinality(live \union archived) \in Nat
  BY <1>1, FS_CardinalityType DEF FiniteSession
<1> QED BY <1>2 DEF TypeOK, Metadata

\* The watermark of a process names only sources with an acknowledgement.
LEMMA WatermarkType ==
  ASSUME TypeOK, MemoryOK, NEW p \in Proc
  PROVE  WatermarkOf(mem[p]) \in Watermark
<1>1. \A s \in mem[p].acks : s \in Source /\ ack[s] \in Record
  BY DEF TypeOK, MemoryOK, KnowsOnlyPublished, Published
<1>2. \A s \in mem[p].acks : ack[s].digest \in Digest
  BY <1>1 DEF Record
<1> QED BY <1>1, <1>2 DEF WatermarkOf, Watermark

LEMMA ExpectedType ==
  ASSUME TypeOK, MemoryOK, NEW p \in Proc, mem[p].cur = None, NEW s \in mem[p].want
  PROVE  Expected(mem[p], s) \in Digest
<1>1. mem[p].batch \in Batch
  BY DEF TypeOK, Memory
<1>2. s \in DOMAIN mem[p].batch \union mem[p].intents
  BY DEF MemoryOK, KnowsOnlyPublished
<1>3. CASE s \in DOMAIN mem[p].batch
  BY <1>1, <1>3, BatchFacts DEF Expected
<1>4. CASE s \notin DOMAIN mem[p].batch
  <2>1. s \in Source /\ intent[s] \in Record
    BY <1>2, <1>4 DEF TypeOK, MemoryOK, KnowsOnlyPublished, Published
  <2> QED BY <2>1, <1>2, <1>4 DEF Expected, LocalDigest, Record
<1> QED BY <1>3, <1>4

-----------------------------------------------------------------------------
(* Initially.                                                              *)

LEMMA InitInv == Init => IInv
<1> SUFFICES ASSUME Init PROVE IInv
  OBVIOUS
<1> USE DEF Init
<1>1. PICK L, A \in {M \in SUBSET [src : Source, digest : Digest, copy : {1}] :
                       \A m, n \in M : m.src = n.src => m = n} :
        /\ IsFiniteSet(L) /\ IsFiniteSet(A)
        /\ live = L
        /\ archived = A
        /\ commits = IF A = {} THEN 0 ELSE 1
  OBVIOUS
<1>2. [src : Source, digest : Digest, copy : {1}] \subseteq Message
  BY DEF Message
<1>3. live \in SUBSET Message /\ archived \in SUBSET Message /\ commits \in Nat
  BY <1>1, <1>2
<1>4. birth \in Birth
  BY MirrorAssumption DEF Birth
<1>5. stored \in SUBSET (Source \X Digest \X Birth)
  <2>1. \A m \in live \union archived : m.src \in Source /\ m.digest \in Digest
    BY <1>3 DEF Message
  <2>2. 1 \in Birth
    BY <1>4
  <2> QED BY <2>1, <2>2
<1>6. mem \in [Proc -> Memory]
  BY BlankMemory
<1>7. TypeOK
  BY <1>3, <1>4, <1>5, <1>6 DEF TypeOK, Step
<1>8. FiniteSession
  BY <1>1 DEF FiniteSession
<1>9. MemoryOK
  BY DEF MemoryOK, KnowsOnlyPublished, Blank
<1>10. AppendClaims /\ CommitClaims
  BY DEF AppendClaims, CommitClaims
<1> QED BY <1>7, <1>8, <1>9, <1>10 DEF IInv

-----------------------------------------------------------------------------
(* Steps.  Most steps change only where a process stands and what it       *)
(* remembers; MoveInv treats them all.                                     *)

LEMMA MoveInv ==
  ASSUME IInv, NEW p \in Proc, NEW at \in Step, NEW m \in Memory,
         Move(p, at, m), UNCHANGED <<directory, session, network, history>>,
         KnowsOnlyPublished(at, m), at \notin {"post", "commitPost"}
  PROVE  IInv'
<1> USE DEF directory, session, network, history, Move
<1>1. pc \in [Proc -> Step] /\ mem \in [Proc -> Memory]
  BY DEF IInv, TypeOK
<1>2. pc'[p] = at /\ mem'[p] = m
  BY <1>1
<1>3. \A q \in Proc : q # p => pc'[q] = pc[q] /\ mem'[q] = mem[q]
  BY <1>1
<1>4. TypeOK'
  <2>1. pc' \in [Proc -> Step] /\ mem' \in [Proc -> Memory]
    BY <1>1
  <2> QED BY <2>1 DEF IInv, TypeOK
<1>5. FiniteSession'
  BY DEF IInv, FiniteSession
<1>6. MemoryOK'
  BY <1>2, <1>3 DEF IInv, MemoryOK, KnowsOnlyPublished, Published
<1>7. AppendClaims'
  BY <1>2, <1>3 DEF IInv, AppendClaims
<1>8. CommitClaims'
  <2>1. \A q \in Proc : pc'[q] = "commitPost" =>
           pc[q] = "commitPost" /\ WatermarkOf(mem[q])' = WatermarkOf(mem[q])
    BY <1>2, <1>3 DEF WatermarkOf
  <2> QED BY <2>1 DEF IInv, CommitClaims
<1> QED BY <1>4, <1>5, <1>6, <1>7, <1>8 DEF IInv

\* What a process may rely on before its step.
LEMMA MemoryFacts ==
  ASSUME IInv, NEW p \in Proc
  PROVE  /\ mem[p] \in Memory
         /\ KnowsOnlyPublished(pc[p], mem[p])
         /\ DOMAIN mem[p].batch \subseteq Source
BY BatchFacts DEF IInv, TypeOK, MemoryOK, Memory

LEMMA ReturnInv ==
  ASSUME IInv, NEW p \in Proc, Return(p),
         UNCHANGED <<directory, session, network, history>>
  PROVE  IInv'
<1>1. KnowsOnlyPublished("idle", Blank)
  BY DEF KnowsOnlyPublished, Blank
<1> QED BY <1>1, BlankMemory, MoveInv DEF Return, Step

LEMMA StartInv ==
  ASSUME IInv, NEW p \in Proc, NEW op \in {"sync", "commit"}, NEW b \in Batch,
         Move(p, "commits", Loaded(op, b)),
         UNCHANGED <<directory, session, network, history>>
  PROVE  IInv'
<1>1. Published(intent) \subseteq Source /\ Published(ack) \subseteq Source
  BY DEF IInv, TypeOK, Published
<1>2. Loaded(op, b) \in Memory
  BY <1>1, BlankMemory DEF Loaded, Memory, Blank
<1>3. KnowsOnlyPublished("commits", Loaded(op, b))
  BY DEF KnowsOnlyPublished, Loaded, Blank
<1> QED BY <1>2, <1>3, MoveInv DEF Step

LEMMA ReconcileCommitsInv ==
  ASSUME IInv, NEW p \in Proc, ReconcileCommits(p)
  PROVE  IInv'
<1> USE MemoryFacts
<1>1. CASE ReadCommitState(p)
  <2> DEFINE u == Published(commitIntent) \ Published(commitAck)
             m == [mem[p] EXCEPT !.unacked = u]
  <2>1. m \in Memory
    BY ZenonT(30) DEF IInv, TypeOK, Published, Memory
  <2>2. \A at \in {"begin", "commitMeta"} : at \in Step /\ KnowsOnlyPublished(at, m)
    BY <1>1 DEF ReadCommitState, KnowsOnlyPublished, Step, Memory
  <2> QED BY <1>1, <2>1, <2>2, MoveInv DEF ReadCommitState
<1>2. CASE ReadCommitMeta(p)
  <2> DEFINE m == [mem[p] EXCEPT !.meta = Metadata]
  <2>1. m \in Memory
    BY MetadataType DEF IInv, Memory
  <2>2. KnowsOnlyPublished("reconcile", m)
    BY <1>2 DEF ReadCommitMeta, KnowsOnlyPublished, Memory
  <2> QED BY <1>2, <2>1, <2>2, MoveInv DEF ReadCommitMeta, Step
<1>3. ASSUME NEW w \in Watermark, Reconcile(p, w) PROVE IInv'
  <2> USE DEF directory, session, network, history, Move
  <2> DEFINE rest == mem[p].unacked \ {w}
             at == IF rest = {} THEN "begin" ELSE "reconcile"
             m == [mem[p] EXCEPT !.unacked = rest,
                                 !.meta = IF rest = {} THEN NoMetadata ELSE @]
  <2>1. m \in Memory
    <3>1. NoMetadata \in [birth : Birth, commits : Nat, live : Nat, total : Nat]
      BY MirrorAssumption DEF NoMetadata, Birth
    <3> QED BY ZenonT(30), <3>1 DEF Memory
  <2>2. at \in Step /\ KnowsOnlyPublished(at, m)
    BY <1>3 DEF Reconcile, KnowsOnlyPublished, Step, Memory
  <2>3. pc'[p] = at /\ mem'[p] = m
    BY <1>3 DEF Reconcile, IInv, TypeOK
  <2>4. \A q \in Proc : q # p => pc'[q] = pc[q] /\ mem'[q] = mem[q]
    BY <1>3 DEF Reconcile, IInv, TypeOK
  <2>5. commitAck' \in [Watermark -> CommitRecord \union {None}]
    <3>1. commitIntent[w] \in CommitRecord
      BY <1>3 DEF Reconcile, KnowsOnlyPublished, Published, IInv, TypeOK
    <3> QED BY <1>3, <3>1 DEF Reconcile, IInv, TypeOK
  <2>6. TypeOK'
    BY <1>3, <2>1, <2>2, <2>5 DEF Reconcile, IInv, TypeOK
  <2>7. FiniteSession' /\ AppendClaims'
    BY <1>3, <2>3, <2>4 DEF Reconcile, IInv, FiniteSession, AppendClaims
  <2>8. MemoryOK'
    BY <1>3, <2>2, <2>3, <2>4
       DEF Reconcile, IInv, MemoryOK, KnowsOnlyPublished, Published
  <2>9. CommitClaims'
    BY <1>3, <2>3, <2>4 DEF Reconcile, IInv, CommitClaims, WatermarkOf
  <2> QED BY <2>6, <2>7, <2>8, <2>9 DEF IInv
<1> QED BY <1>1, <1>2, <1>3 DEF ReconcileCommits

LEMMA InspectInv ==
  ASSUME IInv, NEW p \in Proc,
         BeginInspect(p) \/ ReadContext(p) \/ ReadRaw(p) \/ ReadArchives(p)
         \/ Recheck(p) \/ BeginVerify(p)
  PROVE  IInv'
<1> USE MemoryFacts
<1>1. CASE BeginInspect(p)
  <2> DEFINE m == Inspecting(mem[p], Wanted(mem[p]))
  <2>1. m \in Memory
    BY ZenonT(30), MetadataType DEF IInv, Inspecting, Wanted, Memory
  <2>2. mem[p].cur = None
    BY <1>1 DEF BeginInspect, KnowsOnlyPublished
  <2>3. KnowsOnlyPublished("context", m)
    BY <2>2 DEF KnowsOnlyPublished, Inspecting, Wanted, Memory
  <2> QED BY <1>1, <2>1, <2>3, MoveInv DEF BeginInspect, Step
<1>2. ASSUME NEW found \in SUBSET Message, NEW all \in BOOLEAN, NEW next,
             Looked(p, [mem[p] EXCEPT !.found = found, !.enough = all], next),
             next \in {"archives", "raw", "recheck"}
      PROVE  IInv'
  <2> DEFINE m == [mem[p] EXCEPT !.found = found, !.enough = all]
             at == IF Proven(m) THEN "proved" ELSE next
  <2>1. m \in Memory
    BY ZenonT(30) DEF Memory
  <2>2. at \in Step /\ at \in {"archives", "raw", "recheck", "proved"}
    BY <1>2 DEF Step
  <2>3. KnowsOnlyPublished(at, m)
    <3>1. m.intents = mem[p].intents /\ m.acks = mem[p].acks
          /\ m.unacked = mem[p].unacked /\ m.todo = mem[p].todo
          /\ m.batch = mem[p].batch /\ m.cur = mem[p].cur /\ m.want = mem[p].want
      BY DEF Memory
    <3> QED BY <2>2, <3>1 DEF KnowsOnlyPublished
  <2> QED BY <1>2, <2>1, <2>2, <2>3, MoveInv DEF Looked
<1> DEFINE Saw(found, all) == [mem[p] EXCEPT !.found = found, !.enough = all]
<1>3. live \in SUBSET Message /\ archived \in SUBSET Message
      /\ mem[p].found \in SUBSET Message /\ mem[p].enough \in BOOLEAN
  BY DEF IInv, TypeOK, Memory
<1>4. CASE ReadContext(p)
  <2>1. PICK shown \in SUBSET live :
          LET all == Cardinality(shown) >= mem[p].meta.live
          IN  Looked(p, Saw(shown, all), IF all THEN "archives" ELSE "raw")
    BY <1>4 DEF ReadContext
  <2> DEFINE all == Cardinality(shown) >= mem[p].meta.live
             next == IF all THEN "archives" ELSE "raw"
  <2>2. all \in BOOLEAN /\ shown \in SUBSET Message
    BY <1>3
  <2>3. next \in {"archives", "raw", "recheck"}
    OBVIOUS
  <2>4. Looked(p, Saw(shown, all), next)
    BY <2>1
  <2> HIDE DEF all, next
  <2> QED BY <1>2, <2>2, <2>3, <2>4
<1>5. CASE ReadRaw(p)
  <2> DEFINE all == Cardinality(live) >= mem[p].meta.live
  <2>1. all \in BOOLEAN
    OBVIOUS
  <2>2. mem[p].found \union live \in SUBSET Message
    BY <1>3
  <2>3. Looked(p, Saw(mem[p].found \union live, all), "archives")
    BY <1>5 DEF ReadRaw
  <2> HIDE DEF all
  <2> QED BY <1>2, <2>1, <2>2, <2>3
<1>6. CASE ReadArchives(p)
  <2>1. [mem[p] EXCEPT !.found = @ \union archived]
          = Saw(mem[p].found \union archived, mem[p].enough)
    BY DEF Memory
  <2> QED BY <1>2, <1>3, <1>6, <2>1 DEF ReadArchives
<1>7. CASE Recheck(p)
  <2>1. KnowsOnlyPublished("proved", mem[p])
    BY DEF KnowsOnlyPublished
  <2> QED BY <1>7, <2>1, MoveInv DEF Recheck, Step
<1>8. CASE BeginVerify(p)
  <2> DEFINE m == Inspecting(mem[p], {mem[p].cur})
  <2>1. mem[p].cur # None /\ mem[p].cur \in Source
    BY <1>8 DEF BeginVerify, KnowsOnlyPublished, Memory
  <2>2. m \in Memory
    BY ZenonT(30), <2>1, MetadataType DEF IInv, Inspecting, Memory
  <2>3. KnowsOnlyPublished("context", m)
    BY <2>1 DEF KnowsOnlyPublished, Inspecting, Memory
  <2> QED BY <1>8, <2>2, <2>3, MoveInv DEF BeginVerify, Step
<1> QED BY <1>1, <1>4, <1>5, <1>6, <1>7, <1>8

\* Steps that publish the acknowledgement of a source.
LEMMA PublishAckInv ==
  ASSUME IInv, NEW p \in Proc, NEW at \in Step, NEW m \in Memory,
         NEW s \in Source, NEW record \in Record,
         Move(p, at, m), PublishAck(s, record),
         UNCHANGED <<intent, commitIntent, commitAck, session, network, history>>,
         KnowsOnlyPublished(at, [m EXCEPT !.acks = {}]),
         m.acks \subseteq Published(ack) \union {s},
         at \notin {"post", "commitPost"}
  PROVE  IInv'
<1> USE DEF session, network, history, Move
<1>1. /\ pc \in [Proc -> Step] /\ mem \in [Proc -> Memory]
      /\ ack \in [Source -> Record \union {None}]
  BY DEF IInv, TypeOK
<1>2. pc'[p] = at /\ mem'[p] = m
  BY <1>1
<1>3. \A q \in Proc : q # p => pc'[q] = pc[q] /\ mem'[q] = mem[q]
  BY <1>1
<1>4. ack' \in [Source -> Record \union {None}] /\ record # None
  BY <1>1, MirrorAssumption DEF PublishAck, Record, Birth
<1>5. Published(ack)' = Published(ack) \union {s}
  BY <1>1, <1>4 DEF PublishAck, Published
<1>6. \A t \in Published(ack) : ack'[t] = ack[t]
  BY <1>1, <1>4 DEF PublishAck, Published
<1>7. TypeOK'
  <2>1. pc' \in [Proc -> Step] /\ mem' \in [Proc -> Memory]
    BY <1>1
  <2> QED BY <1>4, <2>1 DEF IInv, TypeOK
<1>8. FiniteSession' /\ AppendClaims'
  BY <1>2, <1>3 DEF IInv, FiniteSession, AppendClaims
<1>9. MemoryOK'
  <2>1. (KnowsOnlyPublished(at, m))'
    <3>1. /\ m.intents \subseteq Published(intent)
          /\ m.unacked \subseteq Published(commitIntent)
          /\ m.todo \subseteq DOMAIN m.batch
          /\ m.cur # None => m.cur \in m.todo /\ m.cur \in Published(intent)
          /\ m.cur = None => m.want \subseteq DOMAIN m.batch \union m.intents
          /\ at \in {"post", "posted"} => m.cur # None
          /\ at \in {"commits", "commitMeta", "reconcile", "begin"} => m.cur = None
      BY DEF KnowsOnlyPublished, Memory
    <3>2. Published(intent)' = Published(intent)
          /\ Published(commitIntent)' = Published(commitIntent)
      BY DEF Published
    <3> QED BY <3>1, <3>2, <1>5 DEF KnowsOnlyPublished
  <2>2. ASSUME NEW q \in Proc, q # p
        PROVE  (KnowsOnlyPublished(pc[q], mem[q]))'
    BY <2>2, <1>3, <1>5 DEF IInv, MemoryOK, KnowsOnlyPublished, Published
  <2> QED BY <2>1, <2>2, <1>2 DEF MemoryOK
<1>10. CommitClaims'
  <2>1. ASSUME NEW q \in Proc, pc'[q] = "commitPost"
        PROVE  pc[q] = "commitPost" /\ WatermarkOf(mem[q])' = WatermarkOf(mem[q])
    <3>1. pc[q] = "commitPost" /\ mem'[q] = mem[q]
      BY <2>1, <1>2, <1>3
    <3>2. mem[q].acks \subseteq Published(ack)
      BY DEF IInv, MemoryOK, KnowsOnlyPublished
    <3> QED BY <3>1, <3>2, <1>6 DEF WatermarkOf
  <2> QED BY <2>1 DEF IInv, CommitClaims
<1> QED BY <1>7, <1>8, <1>9, <1>10 DEF IInv

LEMMA AppendInv ==
  ASSUME IInv, NEW p \in Proc,
         \/ \E s \in Source : AckFound(p, s) \/ Claim(p, s)
         \/ BeginAppends(p) \/ Post(p) \/ AckAppended(p)
  PROVE  IInv'
<1> USE MemoryFacts
<1> DEFINE m == mem[p]
<1>0. m.batch \in Batch /\ m.meta.birth \in Birth
  BY DEF Memory
<1>1. ASSUME NEW s \in Source, AckFound(p, s) PROVE IInv'
  <2> DEFINE n == [m EXCEPT !.acks = @ \union {s}]
             r == [digest |-> Expected(m, s), birth |-> m.meta.birth]
  <2>1. n \in Memory
    BY DEF Memory
  <2>2. m.cur = None /\ s \in m.want
    BY <1>1 DEF AckFound
  <2>3. r \in Record
    BY <1>0, <2>2, ExpectedType DEF IInv, Record
  <2>4. KnowsOnlyPublished("proved", [n EXCEPT !.acks = {}])
    BY DEF KnowsOnlyPublished, Memory
  <2>5. n.acks \subseteq Published(ack) \union {s}
    BY DEF KnowsOnlyPublished, Memory
  <2> QED BY <1>1, <2>1, <2>3, <2>4, <2>5, PublishAckInv DEF AckFound, Step
<1>2. CASE BeginAppends(p)
  <2> DEFINE todo == DOMAIN m.batch \ SourcesOf(m.found)
             n == [m EXCEPT !.todo = todo, !.want = {}, !.found = {}]
  <2>1. CASE todo = {}
    BY <1>2, <2>1, ReturnInv DEF BeginAppends
  <2>2. CASE todo # {}
    <3>1. n \in Memory
      BY ZenonT(30) DEF Memory
    <3>2. KnowsOnlyPublished("append", n)
      BY <1>2 DEF BeginAppends, KnowsOnlyPublished, Memory
    <3> QED BY <1>2, <2>2, <3>1, <3>2, MoveInv DEF BeginAppends, Step
  <2> QED BY <2>1, <2>2
<1>3. CASE AckAppended(p)
  <2> DEFINE rest == m.todo \ {m.cur}
             n == [m EXCEPT !.todo = rest, !.cur = None, !.want = {}, !.found = {}]
  <2>1. m.cur \in Source /\ intent[m.cur] \in Record
    BY <1>3 DEF AckAppended, KnowsOnlyPublished, Published, IInv, TypeOK
  <2>2. CASE rest = {}
    <3>1. KnowsOnlyPublished("idle", [Blank EXCEPT !.acks = {}])
          /\ Blank.acks \subseteq Published(ack) \union {m.cur}
      BY DEF KnowsOnlyPublished, Blank
    <3> QED BY <1>3, <2>1, <2>2, <3>1, BlankMemory, PublishAckInv
            DEF AckAppended, Return, Step
  <2>3. CASE rest # {}
    <3>1. n \in Memory
      BY DEF Memory
    <3>2. KnowsOnlyPublished("append", [n EXCEPT !.acks = {}])
          /\ n.acks \subseteq Published(ack) \union {m.cur}
      BY <1>3 DEF AckAppended, KnowsOnlyPublished, Memory
    <3> QED BY <1>3, <2>1, <2>3, <3>1, <3>2, PublishAckInv DEF AckAppended, Step
  <2> QED BY <2>2, <2>3
<1>4. ASSUME NEW s \in Source, Claim(p, s) PROVE IInv'
  <2> USE DEF session, network, history, Move
  <2> DEFINE n == [m EXCEPT !.cur = s]
             r == [digest |-> m.batch[s], birth |-> m.meta.birth]
  <2>1. s \in m.todo /\ intent[s] = None
    BY <1>4 DEF Claim, MayAppend
  <2>2. r \in Record /\ r # None
    BY <1>0, <2>1, BatchFacts, MirrorAssumption
       DEF KnowsOnlyPublished, Record, Birth
  <2>3. n \in Memory
    BY DEF Memory
  <2>4. /\ pc'[p] = "post" /\ mem'[p] = n
        /\ \A q \in Proc : q # p => pc'[q] = pc[q] /\ mem'[q] = mem[q]
        /\ pc' \in [Proc -> Step] /\ mem' \in [Proc -> Memory]
    BY <1>4, <2>3 DEF Claim, IInv, TypeOK, Step
  <2>5. /\ intent' \in [Source -> Record \union {None}]
        /\ intent'[s] = r /\ \A t \in Source : t # s => intent'[t] = intent[t]
    BY <1>4, <2>2 DEF Claim, IInv, TypeOK
  <2>6. TypeOK' /\ FiniteSession'
    BY <1>4, <2>4, <2>5 DEF Claim, IInv, TypeOK, FiniteSession
  <2>7. MemoryOK'
    <3>1. Published(intent) \subseteq Published(intent)' /\ s \in Published(intent)'
      BY <2>1, <2>2, <2>5 DEF Published, IInv, TypeOK
    <3>2. Published(ack)' = Published(ack)
          /\ Published(commitIntent)' = Published(commitIntent)
      BY <1>4 DEF Claim, Published
    <3>3. n.todo = m.todo /\ n.batch = m.batch /\ n.cur = s
          /\ n.intents = m.intents /\ n.acks = m.acks /\ n.unacked = m.unacked
      BY DEF Memory
    <3>4. (KnowsOnlyPublished(pc[p], mem[p]))'
      <4>1. /\ pc'[p] = "post" /\ mem'[p].todo = m.todo /\ mem'[p].batch = m.batch
            /\ mem'[p].cur = s /\ mem'[p].intents = m.intents
            /\ mem'[p].acks = m.acks /\ mem'[p].unacked = m.unacked
        BY <2>4, <3>3
      <4> QED BY <2>1, <3>1, <3>2, <4>1, MirrorAssumption DEF KnowsOnlyPublished
    <3>5. ASSUME NEW q \in Proc, q # p PROVE (KnowsOnlyPublished(pc[q], mem[q]))'
      BY <3>5, <2>4, <3>1, <3>2 DEF IInv, MemoryOK, KnowsOnlyPublished
    <3> QED BY <2>4, <3>4, <3>5 DEF MemoryOK
  <2>8. AppendClaims'
    <3>1. n.cur = s
      BY DEF Memory
    <3>2. \A q \in Proc : pc[q] = "post" => mem[q].cur # s /\ mem[q].cur \in Source
      BY <2>1, MemoryFacts DEF IInv, AppendClaims, KnowsOnlyPublished, Memory
    <3> QED BY <1>4, <2>1, <2>2, <2>4, <2>5, <3>1, <3>2
            DEF Claim, IInv, AppendClaims
  <2>9. CommitClaims'
    <3>1. \A q \in Proc : pc'[q] = "commitPost" =>
             pc[q] = "commitPost" /\ WatermarkOf(mem[q])' = WatermarkOf(mem[q])
      BY <1>4, <2>4 DEF Claim, WatermarkOf
    <3> QED BY <1>4, <3>1 DEF Claim, IInv, CommitClaims
  <2> QED BY <2>6, <2>7, <2>8, <2>9 DEF IInv
<1>5. CASE Post(p)
  <2> USE DEF directory, session, Move
  <2>1. /\ pc'[p] = "posted" /\ mem'[p] = m /\ mem' = mem
        /\ \A q \in Proc : q # p => pc'[q] = pc[q]
        /\ pc' \in [Proc -> Step]
    BY <1>5 DEF Post, IInv, TypeOK, Step
  <2>2. m.cur \in Source /\ m.cur \in DOMAIN m.batch
    BY <1>5 DEF Post, KnowsOnlyPublished, Memory
  <2>3. AppendRequest(m) \in Request
    BY <1>0, <2>2, BatchFacts DEF AppendRequest, Request
  <2>4. /\ posts' \in [Source -> Nat]
        /\ \A s \in Source : s # m.cur => posts'[s] = posts[s]
    BY <1>5, <2>2 DEF Post, IInv, TypeOK
  <2>5. TypeOK' /\ FiniteSession'
    BY <1>5, <2>1, <2>3, <2>4 DEF Post, IInv, TypeOK, FiniteSession
  <2>6. MemoryOK'
    BY <1>5, <2>1 DEF Post, IInv, MemoryOK, KnowsOnlyPublished, Published
  <2>7. AppendClaims'
    <3>1. intent[m.cur] # None
      BY <1>5 DEF Post, IInv, AppendClaims
    <3>2. \A q \in Proc : pc'[q] = "post" =>
             q # p /\ pc[q] = "post" /\ mem[q].cur # m.cur /\ mem[q].cur \in Source
      BY <1>5, <2>1, MemoryFacts DEF Post, IInv, AppendClaims, KnowsOnlyPublished, Memory
    <3> QED BY <1>5, <2>1, <2>4, <3>1, <3>2 DEF Post, IInv, AppendClaims
  <2>8. CommitClaims'
    <3>1. \A q \in Proc : pc'[q] = "commitPost" =>
             pc[q] = "commitPost" /\ WatermarkOf(mem[q])' = WatermarkOf(mem[q])
      BY <1>5, <2>1 DEF Post, WatermarkOf
    <3> QED BY <1>5, <3>1 DEF Post, IInv, CommitClaims
  <2> QED BY <2>5, <2>6, <2>7, <2>8 DEF IInv
<1> QED BY <1>1, <1>2, <1>3, <1>4, <1>5

LEMMA CommitInv ==
  ASSUME IInv, NEW p \in Proc,
         BeginCommit(p) \/ ClaimCommit(p) \/ PostCommit(p) \/ AckCommit(p)
  PROVE  IInv'
<1> USE MemoryFacts
<1> DEFINE m == mem[p]
           w == WatermarkOf(mem[p])
<1>0. w \in Watermark
  BY WatermarkType DEF IInv
<1>1. CASE BeginCommit(p)
  <2> DEFINE n == [m EXCEPT !.meta = Metadata]
  <2>1. n \in Memory
    BY MetadataType DEF IInv, Memory
  <2>2. KnowsOnlyPublished("commitClaim", n)
    BY DEF KnowsOnlyPublished, Memory
  <2> QED BY <1>1, <2>1, <2>2, MoveInv DEF BeginCommit, Step
<1>2. CASE ClaimCommit(p)
  <2> USE DEF session, network, history, Move
  <2> DEFINE r == [birth |-> m.meta.birth, before |-> m.meta.commits]
  <2>1. commitIntent[w] = None
    BY <1>2 DEF ClaimCommit, MayClaimCommit
  <2>2. r \in CommitRecord /\ r # None
    BY MirrorAssumption DEF Memory, CommitRecord, Birth
  <2>3. /\ pc'[p] = "commitPost" /\ mem' = mem
        /\ \A q \in Proc : q # p => pc'[q] = pc[q]
        /\ pc' \in [Proc -> Step]
    BY <1>2 DEF ClaimCommit, IInv, TypeOK, Step
  <2>4. /\ commitIntent' \in [Watermark -> CommitRecord \union {None}]
        /\ commitIntent'[w] # None
        /\ \A v \in Watermark : v # w => commitIntent'[v] = commitIntent[v]
    BY <1>0, <1>2, <2>2 DEF ClaimCommit, IInv, TypeOK
  <2>5. TypeOK' /\ FiniteSession' /\ AppendClaims'
    BY <1>2, <2>3, <2>4 DEF ClaimCommit, IInv, TypeOK, FiniteSession, AppendClaims
  <2>6. MemoryOK'
    <3>1. Published(commitIntent) \subseteq Published(commitIntent)'
      BY <1>0, <2>1, <2>4 DEF Published, IInv, TypeOK
    <3> QED BY <1>2, <2>3, <3>1
            DEF ClaimCommit, IInv, MemoryOK, KnowsOnlyPublished, Published
  <2>7. CommitClaims'
    <3>1. \A q \in Proc : WatermarkOf(mem[q])' = WatermarkOf(mem[q])
      BY <1>2, <2>3 DEF ClaimCommit, WatermarkOf
    <3>2. \A q \in Proc : pc[q] = "commitPost" =>
             WatermarkOf(mem[q]) # w /\ WatermarkOf(mem[q]) \in Watermark
      BY <2>1, WatermarkType DEF IInv, CommitClaims
    <3>3. commitPosts[w] = 0 /\ commitPosts' = commitPosts
      BY <1>0, <1>2, <2>1 DEF ClaimCommit, IInv, CommitClaims
    <3> QED BY <1>0, <2>3, <2>4, <3>1, <3>2, <3>3 DEF IInv, CommitClaims
  <2> QED BY <2>5, <2>6, <2>7 DEF IInv
<1>3. CASE PostCommit(p)
  <2> USE DEF directory, session, Move
  <2>1. /\ pc'[p] = "commitPosted" /\ mem' = mem
        /\ \A q \in Proc : q # p => pc'[q] = pc[q]
        /\ pc' \in [Proc -> Step]
    BY <1>3 DEF PostCommit, IInv, TypeOK, Step
  <2>2. /\ commitPosts' \in [Watermark -> Nat]
        /\ \A v \in Watermark : v # w => commitPosts'[v] = commitPosts[v]
    BY <1>0, <1>3 DEF PostCommit, IInv, TypeOK
  <2>3. TypeOK' /\ FiniteSession' /\ AppendClaims'
    BY <1>0, <1>3, <2>1, <2>2
       DEF PostCommit, IInv, TypeOK, FiniteSession, AppendClaims
  <2>4. MemoryOK'
    BY <1>3, <2>1 DEF PostCommit, IInv, MemoryOK, KnowsOnlyPublished, Published
  <2>5. CommitClaims'
    <3>1. \A q \in Proc : WatermarkOf(mem[q])' = WatermarkOf(mem[q])
      BY <1>3, <2>1 DEF PostCommit, WatermarkOf
    <3>2. commitIntent[w] # None /\ commitIntent' = commitIntent
      BY <1>3 DEF PostCommit, IInv, CommitClaims
    <3>3. \A q \in Proc : pc'[q] = "commitPost" =>
             /\ q # p /\ pc[q] = "commitPost"
             /\ WatermarkOf(mem[q]) # w /\ WatermarkOf(mem[q]) \in Watermark
      BY <1>3, <2>1, WatermarkType DEF PostCommit, IInv, CommitClaims
    <3> QED BY <2>2, <3>1, <3>2, <3>3 DEF IInv, CommitClaims
  <2> QED BY <2>3, <2>4, <2>5 DEF IInv
<1>4. CASE AckCommit(p)
  <2> USE DEF session, network, history, Move, Return
  <2>1. /\ pc'[p] = "idle" /\ mem'[p] = Blank
        /\ \A q \in Proc : q # p => pc'[q] = pc[q] /\ mem'[q] = mem[q]
        /\ pc' \in [Proc -> Step] /\ mem' \in [Proc -> Memory]
    BY <1>4, BlankMemory DEF AckCommit, IInv, TypeOK, Step
  <2>2. commitAck' \in [Watermark -> CommitRecord \union {None}]
    BY <1>0, <1>4 DEF AckCommit, IInv, TypeOK
  <2>3. TypeOK' /\ FiniteSession'
    BY <1>4, <2>1, <2>2 DEF AckCommit, IInv, TypeOK, FiniteSession
  <2>4. AppendClaims'
    BY <1>4, <2>1 DEF AckCommit, IInv, AppendClaims
  <2>5. MemoryOK'
    <3>1. (KnowsOnlyPublished(pc[p], mem[p]))'
      BY <2>1 DEF KnowsOnlyPublished, Blank
    <3>2. ASSUME NEW q \in Proc, q # p PROVE (KnowsOnlyPublished(pc[q], mem[q]))'
      BY <1>4, <2>1, <3>2
         DEF AckCommit, IInv, MemoryOK, KnowsOnlyPublished, Published
    <3> QED BY <3>1, <3>2 DEF MemoryOK
  <2>6. CommitClaims'
    <3>1. \A q \in Proc : pc'[q] = "commitPost" =>
             pc[q] = "commitPost" /\ WatermarkOf(mem[q])' = WatermarkOf(mem[q])
      BY <1>4, <2>1 DEF AckCommit, WatermarkOf
    <3> QED BY <1>4, <3>1 DEF AckCommit, IInv, CommitClaims
  <2> QED BY <2>3, <2>4, <2>5, <2>6 DEF IInv
<1> QED BY <1>1, <1>2, <1>3, <1>4

LEMMA ServerInv ==
  ASSUME IInv, Server
  PROVE  IInv'
<1> USE DEF directory, network, history
<1>1. pc' = pc /\ mem' = mem /\ UNCHANGED directory
      /\ posts' = posts /\ commitPosts' = commitPosts
  BY DEF Server, ApplyAppend, ApplyCommit, ForeignCommit, ReplaceSession
<1>2. MemoryOK' /\ AppendClaims'
  BY <1>1 DEF IInv, MemoryOK, KnowsOnlyPublished, Published, AppendClaims
<1>3. CommitClaims'
  <2>1. \A q \in Proc : WatermarkOf(mem[q])' = WatermarkOf(mem[q])
    BY <1>1 DEF WatermarkOf
  <2> QED BY <1>1, <2>1 DEF IInv, CommitClaims
<1>4. TypeOK' /\ FiniteSession'
  <2>1. ASSUME NEW r \in net, ApplyAppend(r) PROVE TypeOK' /\ FiniteSession'
    <3> DEFINE copies == {m \in live \union archived : m.src = r.src}
               new == [src |-> r.src, digest |-> r.digest,
                       copy |-> Cardinality(copies) + 1]
    <3>1. IsFiniteSet(copies)
      BY FS_Union, FS_Subset DEF IInv, FiniteSession
    <3>2. new \in Message
      BY <3>1, FS_CardinalityType DEF IInv, TypeOK, Request, Message
    <3>3. live' = live \union {new} /\ archived' = archived
      BY <2>1 DEF ApplyAppend
    <3>4. FiniteSession'
      BY <3>3, FS_AddElement DEF IInv, FiniteSession
    <3>5. stored' \in SUBSET (Source \X Digest \X Birth)
      BY <2>1 DEF ApplyAppend, IInv, TypeOK, Request
    <3>6. TypeOK'
      BY <1>1, <2>1, <3>2, <3>3, <3>5 DEF ApplyAppend, IInv, TypeOK
    <3> QED BY <3>4, <3>6
  <2>2. ASSUME NEW kept \in SUBSET live, Archive(kept), commits' \in {commits, commits + 1},
               birth' = birth, net' = net, stored' = stored,
               commitNet' \in SUBSET Watermark
        PROVE  TypeOK' /\ FiniteSession'
    <3>1. /\ live' \in SUBSET Message /\ archived' \in SUBSET Message
          /\ commits' \in Nat
      BY <2>2 DEF Archive, IInv, TypeOK
    <3>2. TypeOK'
      BY <1>1, <2>2, <3>1 DEF IInv, TypeOK
    <3>3. FiniteSession'
      <4>1. IsFiniteSet(kept) /\ IsFiniteSet(live \ kept)
        BY FS_Subset DEF IInv, FiniteSession
      <4> QED BY <2>2, <4>1, FS_Union DEF Archive, IInv, FiniteSession
    <3> QED BY <3>2, <3>3
  <2>3. CASE \E v \in commitNet : ApplyCommit(v)
    BY <2>2, <2>3 DEF ApplyCommit, IInv, TypeOK
  <2>4. CASE ForeignCommit
    BY <2>2, <2>4 DEF ForeignCommit, IInv, TypeOK
  <2>5. CASE ReplaceSession
    <3>1. birth' \in Birth
      BY <2>5, MirrorAssumption DEF ReplaceSession, IInv, TypeOK, Birth
    <3>2. TypeOK'
      BY <1>1, <2>5, <3>1 DEF ReplaceSession, IInv, TypeOK
    <3> QED BY <2>5, <3>2, FS_EmptySet DEF ReplaceSession, FiniteSession
  <2> QED BY <2>1, <2>3, <2>4, <2>5 DEF Server
<1> QED BY <1>2, <1>3, <1>4 DEF IInv

LEMMA NextInv == IInv /\ [Next]_vars => IInv'
<1> SUFFICES ASSUME IInv, [Next]_vars PROVE IInv'
  OBVIOUS
<1>1. ASSUME NEW p \in Proc, Sync(p) PROVE IInv'
  <2>1. ASSUME NEW b \in Batch, StartSync(p, b) PROVE IInv'
    BY <2>1, StartInv DEF StartSync
  <2>2. CASE SyncNothing(p)
    BY <2>2, ReturnInv DEF SyncNothing
  <2> QED BY <1>1, <2>1, <2>2, InspectInv, AppendInv DEF Sync
<1>2. ASSUME NEW p \in Proc, Commit(p) PROVE IInv'
  <2>1. CASE StartCommit(p)
    BY <2>1, StartInv, EmptyBatch DEF StartCommit, Blank
  <2>2. CASE CommitNothing(p)
    BY <2>2, ReturnInv DEF CommitNothing
  <2> QED BY <1>2, <2>1, <2>2, CommitInv DEF Commit
<1>3. ASSUME NEW p \in Proc, Fail(p) PROVE IInv'
  BY <1>3, ReturnInv DEF Fail
<1>4. CASE UNCHANGED vars
  <2> USE <1>4 DEF vars, directory, session, network, history
  <2>1. TypeOK' /\ FiniteSession' /\ AppendClaims'
    BY DEF IInv, TypeOK, FiniteSession, AppendClaims
  <2>2. MemoryOK'
    BY DEF IInv, MemoryOK, KnowsOnlyPublished, Published
  <2>3. \A q \in Proc : WatermarkOf(mem[q])' = WatermarkOf(mem[q])
    BY DEF WatermarkOf
  <2>4. CommitClaims'
    BY <2>3 DEF IInv, CommitClaims
  <2> QED BY <2>1, <2>2, <2>4 DEF IInv
<1> QED BY <1>1, <1>2, <1>3, <1>4, ReconcileCommitsInv, ServerInv DEF Next

\* The inductive invariant holds of every behaviour.
THEOREM Invariance == Spec => []IInv
<1> QED BY InitInv, NextInv, PTL DEF Spec

\* Type correctness of the mirror: directory, session, network and process
\* memory, for any number of processes, sources and digests.
THEOREM TypeCorrect == Spec => []TypeOK
<1>1. IInv => TypeOK
  BY DEF IInv
<1> QED BY <1>1, Invariance, PTL

-----------------------------------------------------------------------------
(* The mirror implements OneShot.                                          *)

\* Publishing an acknowledgement that is not there yet acknowledges its
\* source; publishing the one that is there changes nothing.
LEMMA PublishAckGuard ==
  ASSUME IInv, NEW s \in Source, NEW r \in Record, PublishAck(s, r),
         intent' = intent, posts' = posts
  PROVE  AppendGuard!Next \/ UNCHANGED AppendGuard!vars
<1>1. ack \in [Source -> Record \union {None}]
  BY DEF IInv, TypeOK
<1>2. ack' = [ack EXCEPT ![s] = r] /\ r # None
  BY MirrorAssumption DEF PublishAck, Record, Birth
<1>3. Published(intent)' = Published(intent)
  BY DEF Published
<1>4. CASE ack[s] = None
  <2>1. s \notin Published(ack) /\ Published(ack)' = Published(ack) \union {s}
    BY <1>1, <1>2, <1>4 DEF Published
  <2> QED BY <1>3, <2>1 DEF AppendGuard!Next, AppendGuard!Acknowledge
<1>5. CASE ack[s] = r
  <2>1. ack' = ack
    BY <1>1, <1>2, <1>5
  <2>2. Published(ack)' = Published(ack)
    BY <2>1 DEF Published
  <2> QED BY <1>3, <2>2 DEF AppendGuard!vars
<1> QED BY <1>4, <1>5 DEF PublishAck

LEMMA ClaimGuard ==
  ASSUME IInv, NEW p \in Proc, NEW s \in Source, Claim(p, s)
  PROVE  AppendGuard!Next
<1> DEFINE r == [digest |-> mem[p].batch[s], birth |-> mem[p].meta.birth]
<1>1. mem[p] \in Memory /\ intent \in [Source -> Record \union {None}]
  BY DEF IInv, TypeOK
<1>2. s \in DOMAIN mem[p].batch
  BY DEF IInv, MemoryOK, KnowsOnlyPublished, Claim
<1>3. r \in Record /\ r # None
  BY <1>1, <1>2, BatchFacts, MirrorAssumption DEF Memory, Record, Birth
<1>4. intent[s] = None /\ intent' = [intent EXCEPT ![s] = r]
      /\ ack' = ack /\ posts' = posts
  BY DEF Claim, MayAppend, history
<1>5. s \notin Published(intent) /\ Published(intent)' = Published(intent) \union {s}
  BY <1>1, <1>3, <1>4 DEF Published
<1>6. Published(ack)' = Published(ack)
  BY <1>4 DEF Published
<1> QED BY <1>4, <1>5, <1>6 DEF AppendGuard!Next, AppendGuard!Claim

LEMMA PostGuard ==
  ASSUME IInv, NEW p \in Proc, Post(p)
  PROVE  AppendGuard!Next
<1> DEFINE s == mem[p].cur
<1>1. intent[s] # None /\ posts[s] = 0 /\ posts' = [posts EXCEPT ![s] = @ + 1]
  BY DEF IInv, AppendClaims, Post
<1>2. s \in Source
  BY MirrorAssumption DEF IInv, TypeOK, MemoryOK, KnowsOnlyPublished, Memory, Post
<1>3. s \in Published(intent)
  BY <1>1, <1>2 DEF IInv, TypeOK, Published
<1>4. posts' = [posts EXCEPT ![s] = 1]
  BY <1>1, <1>2 DEF IInv, TypeOK
<1>5. Published(intent)' = Published(intent) /\ Published(ack)' = Published(ack)
  BY DEF Post, directory, Published
<1> QED BY <1>1, <1>2, <1>3, <1>4, <1>5 DEF AppendGuard!Next, AppendGuard!Submit

LEMMA AppendStep ==
  ASSUME IInv, [Next]_vars
  PROVE  [AppendGuard!Next]_(AppendGuard!vars)
<1>0. ASSUME intent' = intent, ack' = ack, posts' = posts
      PROVE  UNCHANGED AppendGuard!vars
  BY <1>0 DEF AppendGuard!vars, Published
<1>1. ASSUME NEW p \in Proc, Sync(p) PROVE [AppendGuard!Next]_(AppendGuard!vars)
  <2> USE DEF directory, history
  <2>1. ASSUME NEW b \in Batch, StartSync(p, b) PROVE UNCHANGED AppendGuard!vars
    BY <1>0, <2>1 DEF StartSync
  <2>2. ASSUME NEW s \in Source, AckFound(p, s)
        PROVE  AppendGuard!Next \/ UNCHANGED AppendGuard!vars
    <3>1. [digest |-> Expected(mem[p], s), birth |-> mem[p].meta.birth] \in Record
      BY <2>2, ExpectedType DEF AckFound, IInv, TypeOK, Memory, Record
    <3> QED BY <2>2, <3>1, PublishAckGuard DEF AckFound
  <2>3. ASSUME NEW s \in Source, Claim(p, s) PROVE AppendGuard!Next
    BY <2>3, ClaimGuard
  <2>4. CASE Post(p)
    BY <2>4, PostGuard
  <2>5. CASE AckAppended(p)
    <3>1. mem[p].cur \in Source /\ intent[mem[p].cur] \in Record
      BY <2>5, MirrorAssumption
         DEF IInv, TypeOK, MemoryOK, KnowsOnlyPublished, Memory, AckAppended, Published
    <3> QED BY <2>5, <3>1, PublishAckGuard DEF AckAppended
  <2>6. CASE \/ SyncNothing(p) \/ BeginInspect(p) \/ ReadContext(p)
             \/ ReadRaw(p) \/ ReadArchives(p) \/ Recheck(p)
             \/ BeginAppends(p) \/ BeginVerify(p)
    BY <1>0, <2>6 DEF SyncNothing, BeginInspect, ReadContext, ReadRaw, ReadArchives,
       Looked, Recheck, BeginAppends, BeginVerify
  <2> QED BY <1>1, <2>1, <2>2, <2>3, <2>4, <2>5, <2>6 DEF Sync
<1>2. ASSUME NEW p \in Proc, Commit(p) \/ ReconcileCommits(p) \/ Fail(p)
      PROVE  UNCHANGED AppendGuard!vars
  BY <1>0, <1>2 DEF Commit, ReconcileCommits, Fail, StartCommit, CommitNothing,
     BeginCommit, ClaimCommit, PostCommit, AckCommit, ReadCommitState,
     ReadCommitMeta, Reconcile, directory, history
<1>3. CASE Server
  BY <1>0, <1>3 DEF Server, ApplyAppend, ApplyCommit, ForeignCommit, ReplaceSession,
     directory, history
<1>4. CASE UNCHANGED vars
  BY <1>0, <1>4 DEF vars, directory, history
<1> QED BY <1>1, <1>2, <1>3, <1>4 DEF Next

\* Whatever processes share the directory, restart or lose responses, and
\* whatever happens to the server session, a source is claimed, submitted and
\* acknowledged at most once, and submitted only under its claim.
THEOREM AppendsOnce == Spec => AppendsImplementOneShot
<1>1. Init => AppendGuard!Init
  BY DEF Init, AppendGuard!Init, Published
<1>2. IInv /\ [Next]_vars => [AppendGuard!Next]_(AppendGuard!vars)
  BY AppendStep
<1> QED BY <1>1, <1>2, Invariance, PTL
        DEF Spec, AppendsImplementOneShot, AppendGuard!Spec

LEMMA CommitAckGuard ==
  ASSUME IInv, NEW w \in Watermark,
         commitAck' = IF commitAck[w] = None
                        THEN [commitAck EXCEPT ![w] = commitIntent[w]]
                        ELSE commitAck,
         commitIntent' = commitIntent, commitPosts' = commitPosts
  PROVE  CommitGuard!Next \/ UNCHANGED CommitGuard!vars
<1>1. commitAck \in [Watermark -> CommitRecord \union {None}]
  BY DEF IInv, TypeOK
<1>2. Published(commitIntent)' = Published(commitIntent)
  BY DEF Published
<1>3. CASE commitAck[w] = None /\ commitIntent[w] # None
  <2>1. /\ w \notin Published(commitAck)
        /\ Published(commitAck)' = Published(commitAck) \union {w}
    BY <1>1, <1>3 DEF Published
  <2> QED BY <1>2, <2>1 DEF CommitGuard!Next, CommitGuard!Acknowledge
<1>4. CASE commitAck[w] # None \/ commitIntent[w] = None
  <2>1. commitAck' = commitAck
    BY <1>1, <1>4
  <2>2. Published(commitAck)' = Published(commitAck)
    BY <2>1 DEF Published
  <2> QED BY <1>2, <2>2 DEF CommitGuard!vars
<1> QED BY <1>3, <1>4

LEMMA ClaimCommitGuard ==
  ASSUME IInv, NEW p \in Proc, ClaimCommit(p)
  PROVE  CommitGuard!Next
<1> DEFINE w == WatermarkOf(mem[p])
           r == [birth |-> mem[p].meta.birth, before |-> mem[p].meta.commits]
<1>1. w \in Watermark
  BY WatermarkType DEF IInv
<1>2. mem[p] \in Memory /\ commitIntent \in [Watermark -> CommitRecord \union {None}]
  BY DEF IInv, TypeOK
<1>3. r # None
  BY <1>2, MirrorAssumption DEF Memory, Birth
<1>4. /\ commitIntent[w] = None /\ commitIntent' = [commitIntent EXCEPT ![w] = r]
      /\ commitAck' = commitAck /\ commitPosts' = commitPosts
  BY DEF ClaimCommit, MayClaimCommit, history
<1>5. /\ w \notin Published(commitIntent)
      /\ Published(commitIntent)' = Published(commitIntent) \union {w}
  <2> HIDE DEF w, r
  <2> QED BY <1>1, <1>2, <1>3, <1>4 DEF Published
<1>6. Published(commitAck)' = Published(commitAck)
  BY <1>4 DEF Published
<1> HIDE DEF w
<1> QED BY <1>1, <1>4, <1>5, <1>6 DEF CommitGuard!Next, CommitGuard!Claim

LEMMA PostCommitGuard ==
  ASSUME IInv, NEW p \in Proc, PostCommit(p)
  PROVE  CommitGuard!Next
<1> DEFINE w == WatermarkOf(mem[p])
<1>1. w \in Watermark
  BY WatermarkType DEF IInv
<1>2. /\ commitIntent[w] # None /\ commitPosts[w] = 0
      /\ commitPosts' = [commitPosts EXCEPT ![w] = @ + 1]
  BY DEF IInv, CommitClaims, PostCommit
<1>3. Published(commitIntent)' = Published(commitIntent)
      /\ Published(commitAck)' = Published(commitAck)
  BY DEF PostCommit, directory, Published
<1> HIDE DEF w
<1>4. w \in Published(commitIntent)
  BY <1>1, <1>2 DEF IInv, TypeOK, Published
<1>5. commitPosts' = [commitPosts EXCEPT ![w] = 1]
  BY <1>1, <1>2 DEF IInv, TypeOK
<1> QED BY <1>1, <1>2, <1>3, <1>4, <1>5 DEF CommitGuard!Next, CommitGuard!Submit

LEMMA CommitStep ==
  ASSUME IInv, [Next]_vars
  PROVE  [CommitGuard!Next]_(CommitGuard!vars)
<1>0. ASSUME commitIntent' = commitIntent, commitAck' = commitAck,
             commitPosts' = commitPosts
      PROVE  UNCHANGED CommitGuard!vars
  BY <1>0 DEF CommitGuard!vars, Published
<1>1. ASSUME NEW p \in Proc, Commit(p) PROVE [CommitGuard!Next]_(CommitGuard!vars)
  <2>1. CASE ClaimCommit(p)
    BY <2>1, ClaimCommitGuard
  <2>2. CASE PostCommit(p)
    BY <2>2, PostCommitGuard
  <2>3. CASE AckCommit(p)
    <3>1. WatermarkOf(mem[p]) \in Watermark
      BY WatermarkType DEF IInv
    <3> QED BY <2>3, <3>1, CommitAckGuard DEF AckCommit, history
  <2>4. CASE StartCommit(p) \/ CommitNothing(p) \/ BeginCommit(p)
    BY <1>0, <2>4 DEF StartCommit, CommitNothing, BeginCommit, directory, history
  <2> QED BY <1>1, <2>1, <2>2, <2>3, <2>4 DEF Commit
<1>2. ASSUME NEW p \in Proc, ReconcileCommits(p)
      PROVE  [CommitGuard!Next]_(CommitGuard!vars)
  <2>1. ASSUME NEW w \in Watermark, Reconcile(p, w)
        PROVE  CommitGuard!Next \/ UNCHANGED CommitGuard!vars
    BY <2>1, CommitAckGuard DEF Reconcile, history
  <2>2. CASE ReadCommitState(p) \/ ReadCommitMeta(p)
    BY <1>0, <2>2 DEF ReadCommitState, ReadCommitMeta, directory, history
  <2> QED BY <1>2, <2>1, <2>2 DEF ReconcileCommits
<1>3. ASSUME NEW p \in Proc, Sync(p) \/ Fail(p)
      PROVE  UNCHANGED CommitGuard!vars
  BY <1>0, <1>3 DEF Sync, StartSync, SyncNothing, BeginInspect, ReadContext, ReadRaw,
     ReadArchives, Looked, Recheck, AckFound, BeginAppends, Claim, Post, BeginVerify,
     AckAppended, Fail, directory, history
<1>4. CASE Server
  BY <1>0, <1>4 DEF Server, ApplyAppend, ApplyCommit, ForeignCommit, ReplaceSession,
     directory, history
<1>5. CASE UNCHANGED vars
  BY <1>0, <1>5 DEF vars, directory, history
<1> QED BY <1>1, <1>2, <1>3, <1>4, <1>5 DEF Next

\* A commit is claimed, submitted and acknowledged at most once for one set of
\* confirmed messages: a lost response never leads to a second attempt.
THEOREM CommitsOnce == Spec => CommitsImplementOneShot
<1>1. Init => CommitGuard!Init
  BY DEF Init, CommitGuard!Init, Published
<1>2. IInv /\ [Next]_vars => [CommitGuard!Next]_(CommitGuard!vars)
  BY CommitStep
<1> QED BY <1>1, <1>2, Invariance, PTL
        DEF Spec, CommitsImplementOneShot, CommitGuard!Spec

=============================================================================
