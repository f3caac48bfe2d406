------------------------- MODULE PipelineStoreProofs -------------------------
(* Proofs about what the pipeline writes: tables, locks, blobs, documents. *)
EXTENDS ArchivePipelineProofs

tables == <<messages, dedup, refs, links, nextId>>

\* The tables change by commits only.
LEMMA CommitStep ==
  ASSUME [PipelineNext]_pipelineVars
  PROVE  \/ UNCHANGED tables
         \/ \E w \in Worker : Commit(w) \/ CommitUnanswered(w)
<1> USE DEF tables
<1>1. ASSUME UNCHANGED storeVars PROVE UNCHANGED tables
  BY <1>1 DEF storeVars
<1>2. CASE UNCHANGED pipelineVars
  BY <1>1, <1>2 DEF pipelineVars
<1>3. CASE Tick
  BY <1>3 DEF Tick
<1>4. ASSUME NEW w \in Worker, PipelineStep(w)
      PROVE  UNCHANGED tables \/ Commit(w)
  BY <1>1, <1>4
     DEF PipelineStep, ParseRaises, Precheck, PutBody, PutAttachment, Upsert,
     CommitConflict, Recheck, Index, Reindex, IndexTarget, Announce, DeadlockVictim, Rollback
<1>5. ASSUME NEW w \in Worker, PipelineFault(w)
      PROVE  UNCHANGED tables \/ CommitUnanswered(w)
  BY <1>5 DEF PipelineFault, StoreFails, DatabaseFails, Rollback
<1>6. ASSUME NEW w \in Worker, NEW c \in Copy, Begin(w, c) \/ WorkerEnds(w)
      PROVE  UNCHANGED tables
  BY <1>1, <1>6 DEF Begin, WorkerEnds, Rollback
<1>7. QED
  BY <1>1, <1>2, <1>3, <1>4, <1>5, <1>6 DEF PipelineNext, WorkerEnds, Rollback

LEMMA TablesStep ==
  ASSUME [PipelineNext]_pipelineVars
  PROVE  \/ UNCHANGED tables
         \/ \E w \in Worker : step[w] = "commit" /\ Committed(w)
BY CommitStep DEF Commit, CommitUnanswered

\* The pipeline adds to the archive and takes nothing away.
LEMMA StoresOnlyGrow ==
  ASSUME RunInv, [PipelineNext]_pipelineVars
  PROVE  /\ messages \subseteq messages'
         /\ \A h \in Hash : dedup[h] # NoRow => dedup'[h] = dedup[h]
         /\ \A h \in Hash : bodyBlob[h] # NoMail => bodyBlob'[h] # NoMail
         /\ attBlobs \subseteq attBlobs'
         /\ docs \subseteq docs'
<1> USE DEF RunInv, TypeInv, PipelineTypeOK, StoreTypeOK
<1>1. /\ messages \subseteq messages'
      /\ \A h \in Hash : dedup[h] # NoRow => dedup'[h] = dedup[h]
  BY TablesStep DEF tables, Committed
<1>2. CASE UNCHANGED <<bodyBlob, attBlobs, docs>>
  BY <1>1, <1>2
<1>3. ASSUME NEW w \in Worker, PutBody(w) \/ PutAttachment(w) \/ Index(w) \/ Reindex(w)
      PROVE  /\ \A h \in Hash : bodyBlob[h] # NoMail => bodyBlob'[h] # NoMail
             /\ attBlobs \subseteq attBlobs'
             /\ docs \subseteq docs'
  BY <1>3, SharedNullAssumption
     DEF PutBody, PutAttachment, Index, Reindex, IndexTarget, RunShape
<1>4. ASSUME NEW w \in Worker, PipelineStep(w)
      PROVE  \/ UNCHANGED <<bodyBlob, attBlobs, docs>>
             \/ PutBody(w) \/ PutAttachment(w) \/ Index(w) \/ Reindex(w)
  BY <1>4
     DEF PipelineStep, ParseRaises, Precheck, Upsert, Commit, Committed, CommitConflict,
     Recheck, Announce, DeadlockVictim, Rollback, storeVars
<1>5. ASSUME NEW w \in Worker, PipelineFault(w) \/ WorkerEnds(w)
      PROVE  UNCHANGED <<bodyBlob, attBlobs, docs>>
  BY <1>5
     DEF PipelineFault, StoreFails, DatabaseFails, CommitUnanswered, Committed, Rollback,
     WorkerEnds
<1>6. QED
  BY <1>1, <1>2, <1>3, <1>4, <1>5 DEF PipelineNext, pipelineVars, storeVars, Tick, Begin

\* A document is written of the row a call has found or committed.
LEMMA DocsStep ==
  ASSUME [PipelineNext]_pipelineVars
  PROVE  UNCHANGED docs \/ \E w \in Worker : step[w] \in Indexing /\ docs' = docs \cup {target[w]}
BY DEF pipelineVars, storeVars, PipelineNext, Tick, Begin, PipelineStep, PipelineFault,
   ParseRaises, Precheck, PutBody, PutAttachment, Upsert, Commit, Committed,
   CommitConflict, Recheck, Index, Reindex, IndexTarget, Announce, DeadlockVictim,
   StoreFails, DatabaseFails, CommitUnanswered, WorkerEnds, Rollback, Indexing

-----------------------------------------------------------------------------
(* message_dedup and messages                                              *)

LEMMA RefOfType ==
  ASSUME NEW r \in MessageRow
  PROVE  RefOf(r) \in RowRef /\ r.hash \in Hash /\ r.raw \in Mail /\ r.id \in Id
BY DEF RefOf, MessageRow, RowRef

LEMMA DedupStep ==
  ASSUME RunInv, DedupIsExact, [PipelineNext]_pipelineVars
  PROVE  DedupIsExact'
<1>1. CASE UNCHANGED tables
  BY <1>1 DEF tables, DedupIsExact
<1>2. ASSUME NEW w \in Worker, step[w] = "commit", Committed(w)
      PROVE  DedupIsExact'
  <2> DEFINE row == [id |-> nextId, day |-> signedAt[w], hash |-> hash(w), raw |-> raw[w]]
  <2>1. hash(w) \in Hash /\ dedup \in [Hash -> RowRef \cup {NoRow}]
    BY <1>2, AttsType
       DEF RunInv, TypeInv, RunShape, PipelineTypeOK, StoreTypeOK, hash
  <2>2. messages \subseteq MessageRow
    BY DEF RunInv, TypeInv, PipelineTypeOK, StoreTypeOK
  <2>3. \A r \in messages : r.hash # hash(w)
    <3>1. \A r \in messages : dedup[r.hash] \in RowRef
      BY <2>2, RefOfType DEF DedupIsExact
    <3>2. QED
      BY <1>2, <3>1, NoRowAssumption DEF Committed
  <2>4. messages' = messages \cup {row} /\ dedup' = [dedup EXCEPT ![hash(w)] = RefOf(row)]
    BY <1>2 DEF Committed
  <2>5. row.hash = hash(w) /\ row \in messages'
    BY <2>4
  <2>6. ASSUME NEW r \in messages' PROVE dedup'[r.hash] = RefOf(r)
    BY <2>1, <2>2, <2>3, <2>4, <2>5 DEF DedupIsExact, MessageRow
  <2>7. ASSUME NEW h \in Hash, dedup'[h] # NoRow
        PROVE  \E r \in messages' : r.hash = h /\ RefOf(r) = dedup'[h]
    BY <2>1, <2>4, <2>5, <2>7 DEF DedupIsExact
  <2>8. QED
    BY <2>6, <2>7 DEF DedupIsExact
<1>3. QED
  BY <1>1, <1>2, TablesStep

\* However many workers process however many copies of a mail, each archived
\* fingerprint has one row and each row its dedup entry.
THEOREM DedupCorrect == PipelineSpec => []DedupIsExact
<1>1. PipelineInit => DedupIsExact
  BY DEF PipelineInit, StoreInit, DedupIsExact
<1>2. RunInv /\ DedupIsExact /\ [PipelineNext]_pipelineVars => DedupIsExact'
  BY DedupStep
<1>3. QED
  BY <1>1, <1>2, RunInvHolds, PTL DEF PipelineSpec

-----------------------------------------------------------------------------
(* Attachment rows: who has them locked, and what a commit makes of them   *)

\* A transaction is committed after the last attachment.
CommitShape ==
  \A w \in Worker : step[w] = "commit" => nextAtt[w] = Len(atts(w)) + 1

LEMMA CommitShapeStep ==
  ASSUME RunInv, CommitShape, [PipelineNext]_pipelineVars
  PROVE  CommitShape'
<1> USE DEF RunInv, TypeInv, PipelineTypeOK, CommitShape, atts
<1>1. CASE UNCHANGED runVars
  BY <1>1 DEF runVars
<1>2. ASSUME NEW w \in Worker, ForgetRun(w) PROVE CommitShape'
  BY <1>2 DEF ForgetRun
<1>3. ASSUME NEW w \in Worker, NEW s, GoTo(w, s), s # "commit", UNCHANGED <<raw, nextAtt>>
      PROVE  CommitShape'
  BY <1>3 DEF GoTo
<1>4. ASSUME NEW w \in Worker, NEW c \in Copy, Begin(w, c) PROVE CommitShape'
  BY <1>4 DEF Begin, GoTo
<1>5. ASSUME NEW w \in Worker, PutBody(w) PROVE CommitShape'
  <2>1. nextAtt[w] = 1 /\ Len(atts(w)) \in Nat
    BY <1>5, AttsType DEF PutBody, RunShape
  <2>2. QED
    BY <1>5, <2>1 DEF PutBody, GoTo, AfterAttachments
<1>6. ASSUME NEW w \in Worker, Upsert(w) PROVE CommitShape'
  <2>1. nextAtt[w] \in 1..Len(atts(w)) /\ Len(atts(w)) \in Nat
    BY <1>6, AttsType DEF Upsert, RunShape
  <2>2. QED
    BY <1>6, <2>1 DEF Upsert, GoTo, AfterAttachments
<1>7. ASSUME NEW w \in Worker, PipelineStep(w) PROVE CommitShape'
  BY <1>2, <1>3, <1>5, <1>6, <1>7
     DEF PipelineStep, ParseRaises, Precheck, PutAttachment, Commit,
     CommitConflict, Recheck, Index, Reindex, Announce, DeadlockVictim, ProcessEnds
<1>8. ASSUME NEW w \in Worker, PipelineFault(w) \/ WorkerEnds(w) PROVE CommitShape'
  BY <1>2, <1>8
     DEF PipelineFault, StoreFails, DatabaseFails, CommitUnanswered, ProcessEnds, WorkerEnds
<1>9. QED
  BY <1>1, <1>4, <1>7, <1>8 DEF PipelineNext, pipelineVars

LEMMA ReleaseStep ==
  ASSUME NEW w \in Worker, ReleaseLocks(w), NEW v \in Worker
  PROVE  LockedBy(v)' = IF v = w THEN {} ELSE LockedBy(v)
BY SharedNullAssumption DEF ReleaseLocks, LockedBy

LEMMA LocksStep ==
  ASSUME RunInv, CommitShape, LocksBelongToTransactions, [PipelineNext]_pipelineVars
  PROVE  LocksBelongToTransactions'
<1> USE DEF RunInv, TypeInv, PipelineTypeOK, LocksBelongToTransactions, atts
<1>1. CASE UNCHANGED <<runVars, rowLock>>
  BY <1>1 DEF runVars, LockedBy
<1>2. CASE UNCHANGED runVars /\ (Tick \/ UNCHANGED storeVars)
  BY <1>1, <1>2 DEF Tick, storeVars
<1>3. ASSUME NEW w \in Worker, NEW s \in Steps, GoTo(w, s), UNCHANGED <<raw, nextAtt>>,
             ReleaseLocks(w), s \notin Storing
      PROVE  LocksBelongToTransactions'
  BY <1>3, ReleaseStep DEF GoTo, Storing
<1>4. ASSUME NEW w \in Worker, ForgetRun(w), ReleaseLocks(w)
      PROVE  LocksBelongToTransactions'
  BY <1>4, ReleaseStep DEF ForgetRun
<1>5. ASSUME NEW w \in Worker, UNCHANGED rowLock, step[w] \notin Storing
      PROVE  ReleaseLocks(w)
  <2>1. LockedBy(w) = {}
    BY <1>5 DEF Storing
  <2>2. QED
    BY <1>5, <2>1 DEF LockedBy, ReleaseLocks, StoreTypeOK
<1>6. ASSUME NEW w \in Worker, NEW c \in Copy, Begin(w, c)
      PROVE  LocksBelongToTransactions'
  BY <1>6 DEF Begin, Take, GoTo, storeVars, LockedBy, RunOfJob, QueueInv, CopiesCarryMails
<1>7. ASSUME NEW w \in Worker, PutBody(w)
      PROVE  LocksBelongToTransactions'
  <2>1. nextAtt[w] = 1 /\ LockedBy(w) = {}
    BY <1>7 DEF PutBody, RunShape
  <2>2. QED
    BY <1>7, <2>1 DEF PutBody, GoTo, LockedBy, AfterAttachments
<1>8. ASSUME NEW w \in Worker, PutAttachment(w)
      PROVE  LocksBelongToTransactions'
  BY <1>8 DEF PutAttachment, GoTo, LockedBy
<1>9. ASSUME NEW w \in Worker, Upsert(w)
      PROVE  LocksBelongToTransactions'
  <2> DEFINE n == nextAtt[w]
             a == atts(w)[n]
  <2>1. n \in Nat \ {0} /\ a \in Attachment
    BY <1>9, AttsType DEF Upsert, RunShape
  <2>2. LockedBy(w)' = LockedBy(w) \cup {a}
    BY <1>9, <2>1, SharedNullAssumption DEF Upsert, LockedBy, StoreTypeOK
  <2>3. \A v \in Worker \ {w} : LockedBy(v)' = LockedBy(v)
    BY <1>9, <2>1, SharedNullAssumption DEF Upsert, LockedBy, StoreTypeOK
  <2>4. 1..n = 1..(n - 1) \cup {n} /\ nextAtt'[w] = n + 1
    BY <1>9, <2>1 DEF Upsert
  <2>5. {atts(w)[i] : i \in 1..n} = {atts(w)[i] : i \in 1..(n - 1)} \cup {a}
    BY <2>4
  <2>6. step'[w] \in {"commit", "putAtt"}
    BY <1>9 DEF Upsert, GoTo, AfterAttachments
  <2>7. QED
    BY <1>9, <2>2, <2>3, <2>4, <2>5, <2>6 DEF Upsert, GoTo
<1>10. ASSUME NEW w \in Worker, Commit(w) \/ CommitConflict(w)
       PROVE  LocksBelongToTransactions'
  BY <1>3, <1>10 DEF Commit, Committed, CommitConflict, Steps, Storing
<1>11. ASSUME NEW w \in Worker, Precheck(w) \/ Recheck(w) \/ Index(w) \/ Reindex(w)
       PROVE  LocksBelongToTransactions'
  <2>1. ReleaseLocks(w)
    BY <1>5, <1>11 DEF Precheck, Recheck, Index, Reindex, IndexTarget, Storing, storeVars
  <2>2. QED
    BY <1>3, <1>4, <1>11, <2>1
       DEF Precheck, Recheck, Index, Reindex, Steps, Storing, ProcessEnds
<1>12. ASSUME NEW w \in Worker, ParseRaises(w) \/ Announce(w)
       PROVE  LocksBelongToTransactions'
  <2>1. ReleaseLocks(w)
    BY <1>5, <1>12 DEF ParseRaises, Announce, Storing, storeVars
  <2>2. QED
    BY <1>4, <1>12, <2>1 DEF ParseRaises, Announce, ProcessEnds
<1>13. ASSUME NEW w \in Worker,
              DeadlockVictim(w) \/ PipelineFault(w) \/ WorkerEnds(w)
       PROVE  LocksBelongToTransactions'
  BY <1>4, <1>13
     DEF DeadlockVictim, PipelineFault, StoreFails, DatabaseFails, CommitUnanswered,
     Committed, WorkerEnds, Rollback, ProcessEnds
<1>14. QED
  BY <1>2, <1>6, <1>7, <1>8, <1>9, <1>10, <1>11, <1>12, <1>13
     DEF PipelineNext, PipelineStep, pipelineVars

LocksInv == RunInv /\ CommitShape /\ LocksBelongToTransactions

LEMMA LocksInvHolds == PipelineSpec => []LocksInv
<1>1. PipelineInit => LocksInv
  BY RunInvInit, SharedNullAssumption
     DEF PipelineInit, StoreInit, LocksInv, CommitShape, LocksBelongToTransactions, LockedBy
<1>2. LocksInv /\ [PipelineNext]_pipelineVars => LocksInv'
  BY RunInvStep, CommitShapeStep, LocksStep DEF LocksInv
<1>3. QED
  BY <1>1, <1>2, PTL DEF PipelineSpec

\* No attachment row stays locked by a call of process() that is over: who
\* waits for a row gets it.
THEOREM LocksCorrect == PipelineSpec => []LocksBelongToTransactions
BY LocksInvHolds, PTL DEF LocksInv

-----------------------------------------------------------------------------
(* Links and counters                                                      *)

\* Ids are handed out once.
IdsAreFresh ==
  /\ \A row \in messages : row.id < nextId
  /\ \A l \in links : l[1] < nextId

IdsAreUnique == \A r, s \in messages : r.id = s.id => r = s

LinksOf(a) == {l \in links : l[2] = a}

CountersAreExact ==
  \A a \in Attachment : IsFiniteSet(LinksOf(a)) /\ refs[a] = Cardinality(LinksOf(a))

TablesInv == LocksInv /\ IdsAreFresh /\ CountersAreExact /\ LinksAreComplete

LEMMA IdsStep ==
  ASSUME RunInv, IdsAreFresh, [PipelineNext]_pipelineVars
  PROVE  IdsAreFresh'
<1>1. CASE UNCHANGED tables
  BY <1>1 DEF tables, IdsAreFresh
<1>2. ASSUME NEW w \in Worker, Committed(w) PROVE IdsAreFresh'
  <2>1. nextId \in Nat /\ links \subseteq Id \X Attachment /\ messages \subseteq MessageRow
    BY DEF RunInv, TypeInv, PipelineTypeOK, StoreTypeOK, Id
  <2>2. nextId' = nextId + 1
    BY <1>2 DEF Committed
  <2>3. ASSUME NEW l \in links' PROVE l[1] < nextId'
    BY <1>2, <2>1, <2>2, <2>3 DEF Committed, IdsAreFresh, Id
  <2>4. ASSUME NEW row \in messages' PROVE row.id < nextId'
    BY <1>2, <2>1, <2>2, <2>4 DEF Committed, IdsAreFresh, Id, MessageRow
  <2>5. QED
    BY <2>3, <2>4 DEF IdsAreFresh
<1>3. QED
  BY <1>1, <1>2, TablesStep

LEMMA IdsUniqueStep ==
  ASSUME RunInv, IdsAreFresh, IdsAreUnique, [PipelineNext]_pipelineVars
  PROVE  IdsAreUnique'
<1>1. CASE UNCHANGED tables
  BY <1>1 DEF tables, IdsAreUnique
<1>2. ASSUME NEW w \in Worker, Committed(w) PROVE IdsAreUnique'
  <2>1. nextId \in Nat /\ \A r \in messages : r.id # nextId
    BY DEF IdsAreFresh, RunInv, TypeInv, PipelineTypeOK, StoreTypeOK, Id, MessageRow
  <2>2. QED
    BY <1>2, <2>1 DEF Committed, IdsAreUnique
<1>3. QED
  BY <1>1, <1>2, TablesStep

LEMMA CountersStep ==
  ASSUME RunInv, IdsAreFresh, CountersAreExact, [PipelineNext]_pipelineVars
  PROVE  CountersAreExact'
<1>1. CASE UNCHANGED tables
  BY <1>1 DEF tables, CountersAreExact, LinksOf
<1>2. ASSUME NEW w \in Worker, Committed(w), NEW a \in Attachment
      PROVE  IsFiniteSet(LinksOf(a)') /\ refs'[a] = Cardinality(LinksOf(a)')
  <2>1. nextId \in Nat /\ refs \in [Attachment -> Nat]
    BY DEF RunInv, TypeInv, PipelineTypeOK, StoreTypeOK, Id
  <2>2. IsFiniteSet(LinksOf(a)) /\ refs[a] = Cardinality(LinksOf(a))
    BY DEF CountersAreExact
  <2>3. CASE rowLock[a] = w
    <3>1. LinksOf(a)' = LinksOf(a) \cup {<<nextId, a>>}
      BY <1>2, <2>3 DEF Committed, LinksOf, LockedBy
    <3>2. <<nextId, a>> \notin LinksOf(a)
      BY <2>1 DEF IdsAreFresh, LinksOf
    <3>3. refs'[a] = refs[a] + 1
      BY <1>2, <2>1, <2>3 DEF Committed
    <3>4. QED
      BY <2>2, <3>1, <3>2, <3>3, FS_AddElement
  <2>4. CASE rowLock[a] # w
    <3>1. LinksOf(a)' = LinksOf(a)
      BY <1>2, <2>4 DEF Committed, LinksOf, LockedBy
    <3>2. refs'[a] = refs[a]
      BY <1>2, <2>1, <2>4 DEF Committed
    <3>3. QED
      BY <2>2, <3>1, <3>2
  <2>5. QED
    BY <2>3, <2>4
<1>3. QED
  BY <1>1, <1>2, TablesStep DEF CountersAreExact

LEMMA LinksStep ==
  ASSUME LocksInv, IdsAreFresh, LinksAreComplete, [PipelineNext]_pipelineVars
  PROVE  LinksAreComplete'
<1> DEFINE Linked(id) == {l[2] : l \in {k \in links : k[1] = id}}
<1>1. CASE UNCHANGED tables
  BY <1>1 DEF tables, LinksAreComplete
<1>2. ASSUME NEW w \in Worker, step[w] = "commit", Committed(w), NEW row \in messages'
      PROVE  Linked(row.id)' = AttachmentSet(row.raw)
  <2>1. nextId \in Nat /\ messages \subseteq MessageRow /\ raw[w] \in Mail
    BY <1>2 DEF LocksInv, RunInv, TypeInv, RunShape, PipelineTypeOK, StoreTypeOK, Id
  <2>2. links' = links \cup {<<nextId, a>> : a \in LockedBy(w)}
    BY <1>2 DEF Committed
  <2>3. CASE row \in messages
    <3>1. row.id # nextId
      BY <2>1, <2>3 DEF IdsAreFresh
    <3>2. {k \in links' : k[1] = row.id} = {k \in links : k[1] = row.id}
      BY <2>2, <3>1
    <3>3. QED
      BY <2>3, <3>2 DEF LinksAreComplete
  <2>4. CASE row \notin messages
    <3>1. row.id = nextId /\ row.raw = raw[w]
      BY <1>2, <2>4 DEF Committed
    <3>2. {k \in links' : k[1] = row.id} = {<<nextId, a>> : a \in LockedBy(w)}
      BY <2>1, <2>2, <3>1 DEF IdsAreFresh
    <3>3. Linked(row.id)' = LockedBy(w)
      <4>1. ASSUME NEW a \in LockedBy(w) PROVE a \in Linked(row.id)'
        <5>1. <<nextId, a>> \in {k \in links' : k[1] = row.id} /\ <<nextId, a>>[2] = a
          BY <3>2
        <5>2. QED
          BY <5>1
      <4>2. ASSUME NEW k \in links', k[1] = row.id PROVE k[2] \in LockedBy(w)
        BY <3>2, <4>2
      <4>3. QED
        BY <4>1, <4>2
    <3>4. nextAtt[w] - 1 = Len(atts(w))
      BY <1>2, <2>1, AttsType DEF LocksInv, CommitShape, atts
    <3>5. LockedBy(w) = {atts(w)[i] : i \in 1..Len(atts(w))}
      BY <1>2, <3>4 DEF LocksInv, LocksBelongToTransactions
    <3>6. QED
      BY <3>1, <3>3, <3>5 DEF AttachmentSet, atts
  <2>5. QED
    BY <2>3, <2>4
<1>3. QED
  BY <1>1, <1>2, TablesStep DEF LinksAreComplete

LEMMA TablesInvHolds == PipelineSpec => []TablesInv
<1>1. PipelineInit => IdsAreFresh /\ CountersAreExact /\ LinksAreComplete
  BY FS_EmptySet
     DEF PipelineInit, StoreInit, IdsAreFresh, CountersAreExact, LinksOf, LinksAreComplete
<1>2. LocksInv /\ IdsAreFresh /\ CountersAreExact /\ LinksAreComplete
        /\ [PipelineNext]_pipelineVars
        => (IdsAreFresh /\ CountersAreExact /\ LinksAreComplete)'
  BY IdsStep, CountersStep, LinksStep DEF LocksInv
<1>3. QED
  BY <1>1, <1>2, LocksInvHolds, PTL DEF PipelineSpec, TablesInv

\* The counter that decides when the retention deletes an attachment is exact,
\* whatever transactions were rolled back, retried or made twice.
THEOREM RefCountCorrect == PipelineSpec => []RefCountIsExact
<1>1. TablesInv => RefCountIsExact
  BY DEF TablesInv, CountersAreExact, LinksOf, RefCountIsExact
<1>2. QED
  BY <1>1, TablesInvHolds, PTL

\* Every archived message links to exactly the attachments of its mail.
THEOREM LinksCorrect == PipelineSpec => []LinksAreComplete
BY TablesInvHolds, PTL DEF TablesInv
=============================================================================
