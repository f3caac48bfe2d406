------------------------ MODULE PipelinePromiseProofs ------------------------
(* Proofs that an archived mail can be exported and found, and that no     *)
(* accepted mail is forgotten, hence that the pipeline implements          *)
(* ArchiveService.                                                         *)
EXTENDS PipelineStoreProofs

-----------------------------------------------------------------------------
(* Blobs                                                                   *)

\* A transaction has put the blobs of the rows it has written.
BlobsFirst ==
  \A w \in Worker :
    /\ step[w] \in Storing =>
         /\ bodyBlob[hash(w)] # NoMail
         /\ \A i \in 1..(nextAtt[w] - 1) : atts(w)[i] \in attBlobs
    /\ step[w] = "upsert" => atts(w)[nextAtt[w]] \in attBlobs

LEMMA BlobsFirstStep ==
  ASSUME RunInv, BlobsFirst, [PipelineNext]_pipelineVars
  PROVE  BlobsFirst'
<1> USE DEF RunInv, TypeInv, PipelineTypeOK, atts, hash
<1>1. SUFFICES ASSUME NEW v \in Worker, step'[v] \in Storing
               PROVE  /\ bodyBlob'[hash(v)'] # NoMail
                      /\ \A i \in 1..(nextAtt'[v] - 1) : atts(v)'[i] \in attBlobs'
                      /\ step'[v] = "upsert" => atts(v)'[nextAtt'[v]] \in attBlobs'
  BY DEF BlobsFirst, Storing
<1>2. \A h \in Hash : bodyBlob[h] # NoMail => bodyBlob'[h] # NoMail
  BY StoresOnlyGrow
<1>3. attBlobs \subseteq attBlobs'
  BY StoresOnlyGrow
<1>4. CASE step'[v] = step[v] /\ raw'[v] = raw[v] /\ nextAtt'[v] = nextAtt[v]
  <2>1. hash(v) \in Hash
    BY <1>1, <1>4, AttsType DEF RunShape, Storing
  <2>2. QED
    BY <1>1, <1>2, <1>3, <1>4, <2>1 DEF BlobsFirst
<1>5. CASE UNCHANGED runVars
  BY <1>4, <1>5 DEF runVars
<1>6. ASSUME NEW w \in Worker, v # w, GoTo(w, step'[w]) \/ ForgetRun(w),
             \A u \in Worker \ {w} : raw'[u] = raw[u] /\ nextAtt'[u] = nextAtt[u]
      PROVE  step'[v] = step[v] /\ raw'[v] = raw[v] /\ nextAtt'[v] = nextAtt[v]
  BY <1>6 DEF GoTo, ForgetRun
<1>7. CASE PutBody(v)
  <2>1. nextAtt'[v] = 1 /\ hash(v) \in Hash /\ raw[v] \in Mail
    BY <1>7, AttsType DEF PutBody, RunShape
  <2>2. hash(v)' = hash(v) /\ bodyBlob'[hash(v)] = raw[v]
    BY <1>7, <2>1 DEF PutBody, StoreTypeOK
  <2>3. step'[v] # "upsert"
    BY <1>7 DEF PutBody, GoTo, AfterAttachments
  <2>4. QED
    BY <2>1, <2>2, <2>3, SharedNullAssumption
<1>8. CASE PutAttachment(v)
  BY <1>2, <1>3, <1>8, AttsType DEF PutAttachment, BlobsFirst, Storing, RunShape
<1>9. CASE Upsert(v)
  <2>1. nextAtt[v] \in Nat \ {0} /\ nextAtt'[v] - 1 = nextAtt[v] /\ hash(v) \in Hash
    BY <1>9, AttsType DEF Upsert, RunShape
  <2>2. \A i \in 1..nextAtt[v] : i \in 1..(nextAtt[v] - 1) \/ i = nextAtt[v]
    BY <2>1
  <2>3. step'[v] # "upsert"
    BY <1>9 DEF Upsert, GoTo, AfterAttachments
  <2>4. QED
    BY <1>2, <1>3, <1>9, <2>1, <2>2, <2>3 DEF Upsert, BlobsFirst, Storing
<1>10. ASSUME NEW w \in Worker, PutBody(w) \/ PutAttachment(w) \/ Upsert(w), v # w
       PROVE  step'[v] = step[v] /\ raw'[v] = raw[v] /\ nextAtt'[v] = nextAtt[v]
  BY <1>10 DEF PutBody, PutAttachment, Upsert, GoTo
<1>11. ASSUME NEW w \in Worker, ForgetRun(w)
       PROVE  step'[v] = step[v] /\ raw'[v] = raw[v] /\ nextAtt'[v] = nextAtt[v]
  BY <1>1, <1>11 DEF ForgetRun, Storing
<1>12. ASSUME NEW w \in Worker, NEW s, GoTo(w, s), s \notin Storing,
              UNCHANGED <<raw, nextAtt>>
       PROVE  step'[v] = step[v] /\ raw'[v] = raw[v] /\ nextAtt'[v] = nextAtt[v]
  BY <1>1, <1>12 DEF GoTo
<1>13. ASSUME NEW w \in Worker, NEW c \in Copy, Begin(w, c)
       PROVE  step'[v] = step[v] /\ raw'[v] = raw[v] /\ nextAtt'[v] = nextAtt[v]
  BY <1>1, <1>13 DEF Begin, GoTo, Storing
<1>14. ASSUME NEW w \in Worker, PipelineStep(w),
              ~PutBody(w), ~PutAttachment(w), ~Upsert(w)
       PROVE  step'[v] = step[v] /\ raw'[v] = raw[v] /\ nextAtt'[v] = nextAtt[v]
  <2>1. CASE Precheck(w) \/ Commit(w) \/ CommitConflict(w) \/ Index(w)
    BY <1>12, <2>1 DEF Precheck, Commit, CommitConflict, Index, Storing
  <2>2. CASE ParseRaises(w) \/ Reindex(w) \/ Announce(w) \/ DeadlockVictim(w)
    BY <1>11, <2>2 DEF ParseRaises, Reindex, Announce, DeadlockVictim, ProcessEnds
  <2>3. CASE Recheck(w)
    BY <1>11, <1>12, <2>3 DEF Recheck, ProcessEnds, Storing
  <2>4. QED
    BY <1>14, <2>1, <2>2, <2>3 DEF PipelineStep
<1>15. ASSUME NEW w \in Worker, PipelineFault(w) \/ WorkerEnds(w)
       PROVE  step'[v] = step[v] /\ raw'[v] = raw[v] /\ nextAtt'[v] = nextAtt[v]
  BY <1>11, <1>15
     DEF PipelineFault, StoreFails, DatabaseFails, CommitUnanswered, ProcessEnds, WorkerEnds
<1>16. QED
  BY <1>4, <1>5, <1>7, <1>8, <1>9, <1>10, <1>13, <1>14, <1>15 DEF PipelineNext, pipelineVars

LEMMA ContentStep ==
  ASSUME LocksInv, BlobsFirst, ArchivedContentIsStored, [PipelineNext]_pipelineVars
  PROVE  ArchivedContentIsStored'
<1> USE DEF LocksInv, RunInv, TypeInv, PipelineTypeOK, StoreTypeOK
<1>1. /\ \A h \in Hash : bodyBlob[h] # NoMail => bodyBlob'[h] # NoMail
      /\ attBlobs \subseteq attBlobs'
  BY StoresOnlyGrow
<1>2. CASE UNCHANGED tables
  BY <1>1, <1>2, RefOfType DEF tables, ArchivedContentIsStored
<1>3. ASSUME NEW w \in Worker, step[w] = "commit", Committed(w)
      PROVE  ArchivedContentIsStored'
  <2>1. bodyBlob[hash(w)] # NoMail /\ hash(w) \in Hash
    BY <1>3, AttsType DEF BlobsFirst, Storing, RunShape, hash
  <2>2. LockedBy(w) \subseteq attBlobs
    BY <1>3 DEF LocksBelongToTransactions, BlobsFirst, Storing
  <2>3. ASSUME NEW row \in messages' PROVE bodyBlob'[row.hash] # NoMail
    BY <1>1, <1>3, <2>1, <2>3, RefOfType DEF Committed, ArchivedContentIsStored
  <2>4. ASSUME NEW l \in links' PROVE l[2] \in attBlobs'
    BY <1>1, <1>3, <2>2, <2>4 DEF Committed, ArchivedContentIsStored
  <2>5. QED
    BY <2>3, <2>4 DEF ArchivedContentIsStored
<1>4. QED
  BY <1>2, <1>3, TablesStep

\* Every archived message can be exported: its body and its attachments were
\* in the blob store before the transaction that archived it.
THEOREM ContentCorrect == PipelineSpec => []ArchivedContentIsStored
<1>1. PipelineInit => BlobsFirst /\ ArchivedContentIsStored
  BY DEF PipelineInit, StoreInit, BlobsFirst, Storing, ArchivedContentIsStored
<1>2. LocksInv /\ BlobsFirst /\ ArchivedContentIsStored /\ [PipelineNext]_pipelineVars
        => (BlobsFirst /\ ArchivedContentIsStored)'
  BY BlobsFirstStep, ContentStep DEF LocksInv
<1>3. QED
  BY <1>1, <1>2, LocksInvHolds, PTL DEF PipelineSpec

-----------------------------------------------------------------------------
(* Bodies and variants: when ExportIsExact holds                           *)

\* Calls of process() under way at the same time do not have different mails
\* with one fingerprint.
VariantsComeApart ==
  \A v, w \in Worker :
    step[v] # "idle" /\ step[w] # "idle" /\ hash(v) = hash(w) => raw[v] = raw[w]

\* The steps before the commit of a call that has found no duplicate.
Archiving == {"putBody"} \cup Storing

BodiesAreOwn ==
  \A w \in Worker :
    /\ step[w] \in Storing => bodyBlob[hash(w)] = raw[w]
    /\ step[w] \in Archiving => \A row \in messages : row.hash = hash(w) => row.raw = raw[w]

LEMMA NewRows ==
  ASSUME [PipelineNext]_pipelineVars, NEW row \in messages', row \notin messages
  PROVE  \E w \in Worker : step[w] = "commit" /\ row.hash = hash(w) /\ row.raw = raw[w]
<1>1. PICK w \in Worker : step[w] = "commit" /\ Committed(w)
  BY TablesStep DEF tables
<1>2. row.hash = hash(w) /\ row.raw = raw[w]
  BY <1>1 DEF Committed
<1>3. QED
  BY <1>1, <1>2

LEMMA BodiesAreOwnStep ==
  ASSUME RunInv, DedupIsExact, VariantsComeApart, BodiesAreOwn, [PipelineNext]_pipelineVars
  PROVE  BodiesAreOwn'
<1> USE DEF RunInv, TypeInv, PipelineTypeOK, StoreTypeOK, hash
<1>1. SUFFICES ASSUME NEW v \in Worker, step'[v] \in Archiving
               PROVE  /\ step'[v] \in Storing => bodyBlob'[hash(v)'] = raw'[v]
                      /\ \A row \in messages' : row.hash = hash(v)' => row.raw = raw'[v]
  BY DEF BodiesAreOwn, Archiving
<1>2. \A w \in Worker : step[w] # "idle" => hash(w) \in Hash /\ raw[w] \in Mail
  BY AttsType DEF RunShape
<1>3. raw'[v] = raw[v] /\ (step[v] \in Archiving \/ Precheck(v))
  BY <1>1, RunStep
     DEF Archiving, Storing, Precheck, PutBody, PutAttachment, Upsert, Commit, CommitConflict,
     Recheck, Index, ProcessEnds, ForgetRun, GoTo
<1>4. \A row \in messages : row.hash = hash(v) => row.raw = raw[v]
  <2>1. CASE step[v] \in Archiving
    BY <2>1 DEF BodiesAreOwn
  <2>2. CASE Precheck(v)
    <3>1. dedup[hash(v)] = NoRow
      BY <1>1, <2>2 DEF Precheck, GoTo, Archiving, Storing
    <3>2. \A row \in messages : dedup[row.hash] \in RowRef
      BY RefOfType DEF DedupIsExact
    <3>3. QED
      BY <3>1, <3>2, NoRowAssumption
  <2>3. QED
    BY <1>3, <2>1, <2>2
<1>5. \A row \in messages' : row.hash = hash(v)' => row.raw = raw'[v]
  <2>1. ASSUME NEW row \in messages', row \notin messages, row.hash = hash(v)'
        PROVE  row.raw = raw'[v]
    <3>1. PICK w \in Worker : step[w] = "commit" /\ row.hash = hash(w) /\ row.raw = raw[w]
      BY <2>1, NewRows
    <3>2. raw[v] = raw[w]
      BY <1>3, <2>1, <3>1 DEF VariantsComeApart, Archiving, Storing, Precheck
    <3>3. QED
      BY <1>3, <3>1, <3>2
  <2>2. QED
    BY <1>3, <1>4, <2>1
<1>6. ASSUME step'[v] \in Storing PROVE bodyBlob'[hash(v)'] = raw'[v]
  <2>1. CASE \E w \in Worker : PutBody(w)
    <3>1. PICK w \in Worker : PutBody(w)
      BY <2>1
    <3>2. hash(w) \in Hash /\ step[w] # "idle" /\ step[v] # "idle" /\ hash(v) \in Hash
      BY <1>2, <1>3, <3>1 DEF PutBody, Archiving, Storing, Precheck
    <3>3. CASE hash(v) = hash(w)
      BY <1>3, <3>1, <3>2, <3>3 DEF PutBody, VariantsComeApart
    <3>4. CASE hash(v) # hash(w)
      <4>1. step'[v] = step[v]
        BY <3>1, <3>4 DEF PutBody, GoTo
      <4>2. QED
        BY <1>3, <1>6, <3>1, <3>2, <3>4, <4>1 DEF PutBody, BodiesAreOwn
    <3>5. QED
      BY <3>3, <3>4
  <2>2. CASE ~ \E w \in Worker : PutBody(w)
    <3>1. bodyBlob' = bodyBlob
      BY <2>2
         DEF pipelineVars, storeVars, PipelineNext, Tick, Begin, PipelineStep, PipelineFault,
         ParseRaises, Precheck, PutAttachment, Upsert, Commit, Committed, CommitConflict,
         Recheck, Index, Reindex, IndexTarget, Announce, DeadlockVictim, StoreFails,
         DatabaseFails, CommitUnanswered, WorkerEnds, Rollback
    <3>2. step[v] \in Storing
      BY <1>6, <2>2, RunStep
         DEF Storing, Precheck, PutAttachment, Upsert, Commit, CommitConflict, Recheck, Index,
         ProcessEnds, ForgetRun, GoTo
    <3>3. QED
      BY <1>3, <3>1, <3>2 DEF BodiesAreOwn
  <2>3. QED
    BY <2>1, <2>2
<1>7. QED
  BY <1>5, <1>6

LEMMA ExportStep ==
  ASSUME RunInv, BodiesAreOwn, ExportIsExact, [PipelineNext]_pipelineVars
  PROVE  ExportIsExact'
<1> USE DEF RunInv, TypeInv, PipelineTypeOK, StoreTypeOK
<1>1. CASE \E w \in Worker : PutBody(w)
  <2>1. PICK w \in Worker : PutBody(w)
    BY <1>1
  <2>2. \A row \in messages : row.hash = hash(w) => row.raw = raw[w]
    BY <2>1 DEF PutBody, BodiesAreOwn, Archiving
  <2>3. \A row \in messages : row.hash \in Hash
    BY RefOfType
  <2>4. QED
    BY <2>1, <2>2, <2>3 DEF PutBody, ExportIsExact
<1>2. CASE ~ \E w \in Worker : PutBody(w)
  <2>1. bodyBlob' = bodyBlob
    BY <1>2
       DEF pipelineVars, storeVars, PipelineNext, Tick, Begin, PipelineStep, PipelineFault,
       ParseRaises, Precheck, PutAttachment, Upsert, Commit, Committed, CommitConflict,
       Recheck, Index, Reindex, IndexTarget, Announce, DeadlockVictim, StoreFails,
       DatabaseFails, CommitUnanswered, WorkerEnds, Rollback
  <2>2. QED
    BY <2>1, NewRows DEF ExportIsExact, BodiesAreOwn, Storing
<1>3. QED
  BY <1>1, <1>2

\* What mail_access.py and storage.py rely on, and where it ends: as long as
\* variants of a mail are not processed at the same time, each message is
\* exported as the bytes that were archived, whatever fails or is retried.
THEOREM ExportWithoutRace == PipelineSpec /\ []VariantsComeApart => []ExportIsExact
<1>1. PipelineInit => DedupIsExact /\ BodiesAreOwn /\ ExportIsExact
  BY DEF PipelineInit, StoreInit, DedupIsExact, BodiesAreOwn, Archiving, Storing, ExportIsExact
<1>2. RunInv /\ DedupIsExact /\ BodiesAreOwn /\ ExportIsExact /\ VariantsComeApart
        /\ [PipelineNext]_pipelineVars
        => DedupIsExact' /\ BodiesAreOwn' /\ ExportIsExact'
  BY DedupStep, BodiesAreOwnStep, ExportStep
<1>3. QED
  BY <1>1, <1>2, RunInvHolds, PTL DEF PipelineSpec

-----------------------------------------------------------------------------
(* Search documents                                                        *)

\* What a worker indexes is what dedup knows of the mail; a conflict shows that
\* it knows it; the event comes after the document.
Targets ==
  \A w \in Worker :
    /\ step[w] \in Indexing => target[w] = dedup[hash(w)]
    /\ step[w] = "recheck" => dedup[hash(w)] # NoRow
    /\ step[w] = "event" => target[w] \in docs

LEMMA TargetsStep ==
  ASSUME RunInv, Targets, [PipelineNext]_pipelineVars
  PROVE  Targets'
<1> USE DEF RunInv, TypeInv, PipelineTypeOK, StoreTypeOK, hash
<1> DEFINE Late == {"recheck", "index", "reindex", "event"}
           Same(v) == step'[v] = step[v] /\ raw'[v] = raw[v] /\ target'[v] = target[v]
<1>1. SUFFICES ASSUME NEW v \in Worker, step'[v] \in Late
               PROVE  /\ step'[v] \in Indexing => target'[v] = dedup'[hash(v)']
                      /\ step'[v] = "recheck" => dedup'[hash(v)'] # NoRow
                      /\ step'[v] = "event" => target'[v] \in docs'
  BY DEF Targets, Indexing
<1>2. /\ \A h \in Hash : dedup[h] # NoRow => dedup'[h] = dedup[h]
      /\ docs \subseteq docs'
  BY StoresOnlyGrow
<1>3. CASE Same(v)
  <2>1. hash(v) \in Hash /\ hash(v)' = hash(v)
    BY <1>1, <1>3, AttsType DEF RunShape
  <2>2. dedup[hash(v)] # NoRow
    BY <1>1, <1>3, NoRowAssumption DEF Targets, Indexing, RunShape
  <2>3. QED
    BY <1>1, <1>2, <1>3, <2>1, <2>2 DEF Targets, Indexing
<1>4. CASE UNCHANGED runVars
  BY <1>3, <1>4 DEF runVars
<1>5. ASSUME NEW w \in Worker, ForgetRun(w)
      PROVE  Same(v)
  BY <1>1, <1>5 DEF ForgetRun
<1>6. ASSUME NEW w \in Worker, NEW s, GoTo(w, s), s \notin Late, UNCHANGED raw,
             \A u \in Worker \ {w} : target'[u] = target[u]
      PROVE  Same(v)
  BY <1>1, <1>6 DEF GoTo
<1>7. ASSUME NEW w \in Worker, NEW s, GoTo(w, s), v # w, UNCHANGED raw,
             \A u \in Worker \ {w} : target'[u] = target[u]
      PROVE  Same(v)
  BY <1>7 DEF GoTo
<1>8. CASE Precheck(v)
  <2>1. hash(v) \in Hash /\ hash(v)' = hash(v) /\ dedup' = dedup
    BY <1>8, AttsType DEF Precheck, RunShape, storeVars
  <2>2. QED
    BY <1>1, <1>8, <2>1 DEF Precheck, GoTo, Indexing
<1>9. CASE Commit(v)
  <2>1. hash(v) \in Hash /\ hash(v)' = hash(v)
    BY <1>9, AttsType DEF Commit, RunShape
  <2>2. dedup'[hash(v)] = [id |-> nextId, day |-> signedAt[v]]
    BY <1>9, <2>1 DEF Commit, Committed, RefOf
  <2>3. QED
    BY <1>9, <2>1, <2>2 DEF Commit, GoTo
<1>10. CASE CommitConflict(v)
  BY <1>1, <1>10 DEF CommitConflict, GoTo, Indexing
<1>11. CASE Recheck(v)
  <2>1. step'[v] # "idle"
    BY <1>1
  <2>2. QED
    BY <1>1, <1>11, <2>1 DEF Recheck, GoTo, ProcessEnds, ForgetRun, Indexing, storeVars
<1>12. CASE Index(v)
  BY <1>1, <1>12 DEF Index, IndexTarget, GoTo, Indexing, Targets
<1>13. ASSUME NEW w \in Worker, Precheck(w) \/ Commit(w) \/ Index(w) \/ CommitConflict(w), v # w
       PROVE  Same(v)
  BY <1>7, <1>13 DEF Precheck, Commit, Index, CommitConflict
<1>14. ASSUME NEW w \in Worker, Recheck(w), v # w
       PROVE  Same(v)
  BY <1>5, <1>7, <1>14 DEF Recheck, ProcessEnds
<1>15. ASSUME NEW w \in Worker, PutBody(w) \/ PutAttachment(w) \/ Upsert(w)
       PROVE  Same(v)
  BY <1>6, <1>15 DEF PutBody, PutAttachment, Upsert, AfterAttachments
<1>16. ASSUME NEW w \in Worker,
              ParseRaises(w) \/ Reindex(w) \/ Announce(w) \/ DeadlockVictim(w)
              \/ PipelineFault(w) \/ WorkerEnds(w)
       PROVE  Same(v)
  BY <1>5, <1>16
     DEF ParseRaises, Reindex, Announce, DeadlockVictim, PipelineFault, StoreFails,
     DatabaseFails, CommitUnanswered, ProcessEnds, WorkerEnds
<1>17. ASSUME NEW w \in Worker, NEW c \in Copy, Begin(w, c)
       PROVE  Same(v)
  BY <1>1, <1>17 DEF Begin, GoTo
<1>18. QED
  BY <1>3, <1>4, <1>8, <1>9, <1>10, <1>11, <1>12, <1>13, <1>14, <1>15, <1>16, <1>17
     DEF PipelineNext, PipelineStep, pipelineVars

\* A mail whose document is in the index.
IsIndexed(m) == dedup[Fingerprint[m]] \in docs

AckedIsFound ==
  /\ \A w \in Worker : outcome[w] = "ok" => IsIndexed(body[job[w]])
  /\ \A c \in Copy : place[c] = "acked" => IsIndexed(body[c])

LEMMA IndexedGrows ==
  ASSUME RunInv, [PipelineNext]_pipelineVars, NEW m \in Mail, IsIndexed(m)
  PROVE  dedup'[Fingerprint[m]] \in docs'
BY StoresOnlyGrow, AttsType, NoRowAssumption
   DEF IsIndexed, RunInv, TypeInv, PipelineTypeOK, StoreTypeOK

\* process() returns normally only for a mail that can be found.
LEMMA OkStep ==
  ASSUME RunInv, Targets, [PipelineNext]_pipelineVars,
         NEW w \in Worker, outcome[w] # "ok", outcome'[w] = "ok"
  PROVE  /\ job'[w] = job[w] /\ body' = body
         /\ dedup'[Fingerprint[body[job[w]]]] \in docs'
<1> USE DEF RunInv, TypeInv, PipelineTypeOK, QueueTypeOK
<1>1. CASE Reindex(w) \/ Announce(w) \/ Recheck(w)
  <2>1. step[w] # "idle" /\ raw[w] = body[job[w]] /\ dedup' = dedup
    BY <1>1 DEF Reindex, Announce, Recheck, IndexTarget, storeVars, RunOfJob
  <2>2. job'[w] = job[w] /\ body' = body
    BY <1>1 DEF Reindex, Announce, Recheck, ProcessEnds, HandlerEnds, queueVars
  <2>3. ~Recheck(w)
    BY DEF Recheck, Targets, queueVars
  <2>4. target[w] = dedup[hash(w)] /\ target[w] \in docs'
    BY <1>1, <2>3 DEF Reindex, Announce, IndexTarget, storeVars, Targets, Indexing
  <2>5. QED
    BY <2>1, <2>2, <2>4 DEF hash
<1>2. Reindex(w) \/ Announce(w) \/ Recheck(w)
  BY OkReason DEF QueueInv
<1>3. QED
  BY <1>1, <1>2

LEMMA AckedStep ==
  ASSUME RunInv, Targets, AckedIsFound, [PipelineNext]_pipelineVars
  PROVE  AckedIsFound'
<1> USE DEF RunInv, TypeInv, PipelineTypeOK, QueueTypeOK
<1>1. [QueueNext]_queueVars
  BY PipelineStepIsQueueStep
<1>2. ASSUME NEW w \in Worker, outcome'[w] = "ok"
      PROVE  IsIndexed(body[job[w]])'
  <2>1. CASE outcome[w] # "ok"
    BY <1>2, <2>1, OkStep DEF IsIndexed
  <2>2. CASE outcome[w] = "ok"
    <3>1. job[w] \in Copy /\ place[job[w]] # "unsent" /\ body[job[w]] \in Mail
      BY <2>2 DEF QueueInv, CopiesCarryMails
    <3>2. job'[w] = job[w]
      BY <1>1, <1>2, <2>2
         DEF queueVars, QueueNext, QueueStep, HandleDataAccepts, HandleDataUnconfirmed,
         ReplayGet, ReplayPublish, ReplayAck, ReplayAborts, DlqPurge, Deliver, Take,
         HandlerEnds, Ack, RejectAndRequeue, DeadLetter, ChannelLost, WorkerStops, FinishJob
    <3>3. body'[job[w]] = body[job[w]]
      BY <1>1, <3>1, BodyIsFixed
    <3>4. QED
      BY <2>2, <3>1, <3>2, <3>3, IndexedGrows DEF AckedIsFound, IsIndexed
  <2>3. QED
    BY <2>1, <2>2
<1>3. ASSUME NEW c \in Copy, place'[c] = "acked"
      PROVE  IsIndexed(body[c])'
  <2>1. place[c] = "acked" \/ \E w \in Worker : Ack(w) /\ job[w] = c
    BY <1>1, <1>3
       DEF queueVars, QueueNext, QueueStep, HandleDataAccepts, HandleDataUnconfirmed,
       Publish, ReplayGet, ReplayPublish, ReplayAck, ReplayAborts, DlqPurge, Deliver, Take,
       HandlerEnds, Ack, RejectAndRequeue, DeadLetter, ChannelLost, WorkerStops, Requeue
  <2>2. place[c] # "unsent" /\ IsIndexed(body[c])
    BY <2>1 DEF AckedIsFound, Ack, QueueInv, CopiesCarryMails
  <2>3. body[c] \in Mail /\ body'[c] = body[c]
    BY <1>1, <2>2, BodyIsFixed DEF QueueInv, CopiesCarryMails
  <2>4. QED
    BY <2>2, <2>3, IndexedGrows DEF IsIndexed
<1>4. QED
  BY <1>2, <1>3 DEF AckedIsFound

\* Every row was made of a mail that was published.
RowsArePublished ==
  \A row \in messages : \E c \in Copy :
    /\ place[c] # "unsent" /\ body[c] = row.raw
    /\ Fingerprint[row.raw] = row.hash

LEMMA RowsStep ==
  ASSUME RunInv, RowsArePublished, [PipelineNext]_pipelineVars
  PROVE  RowsArePublished'
<1> USE DEF RunInv, TypeInv, PipelineTypeOK, QueueTypeOK
<1>1. \A c \in Copy : place[c] # "unsent" => place'[c] # "unsent" /\ body'[c] = body[c]
  BY PipelineStepIsQueueStep, BodyIsFixed
<1>2. CASE UNCHANGED messages
  BY <1>1, <1>2 DEF RowsArePublished
<1>3. ASSUME NEW w \in Worker, step[w] = "commit", Committed(w)
      PROVE  RowsArePublished'
  <2>1. job[w] \in Copy /\ place[job[w]] # "unsent" /\ body[job[w]] = raw[w]
    BY <1>3 DEF RunOfJob, QueueInv, CopiesCarryMails
  <2>2. QED
    BY <1>1, <1>3, <2>1 DEF Committed, RowsArePublished, hash
<1>4. QED
  BY <1>2, <1>3, TablesStep DEF tables

LEMMA HitsStep ==
  ASSUME RunInv, DedupIsExact, Targets, SearchHitsOpen, AnnouncedIsSearchable,
         [PipelineNext]_pipelineVars
  PROVE  SearchHitsOpen' /\ AnnouncedIsSearchable'
<1> USE DEF RunInv, TypeInv, PipelineTypeOK, StoreTypeOK
<1>1. messages \subseteq messages' /\ docs \subseteq docs'
  BY StoresOnlyGrow
<1>2. UNCHANGED docs \/ \E w \in Worker : step[w] \in Indexing /\ docs' = docs \cup {target[w]}
  BY DocsStep
<1>3. \/ UNCHANGED announced
      \/ \E w \in Worker : step[w] = "event" /\ announced' = announced \cup {target[w].id}
  BY DEF pipelineVars, PipelineNext, Begin, PipelineStep, PipelineFault,
     ParseRaises, Precheck, PutBody, PutAttachment, Upsert, Commit,
     CommitConflict, Recheck, Index, Reindex, Announce, DeadlockVictim,
     StoreFails, DatabaseFails, CommitUnanswered, WorkerEnds
<1>4. SearchHitsOpen'
  <2>1. ASSUME NEW w \in Worker, step[w] \in Indexing
        PROVE  \E row \in messages : RefOf(row) = target[w]
    <3>1. hash(w) \in Hash /\ dedup[hash(w)] = target[w] /\ target[w] # NoRow
      BY <2>1, AttsType, NoRowAssumption DEF RunShape, Indexing, Targets, hash
    <3>2. QED
      BY <3>1 DEF DedupIsExact
  <2>2. QED
    BY <1>1, <1>2, <2>1 DEF SearchHitsOpen
<1>5. AnnouncedIsSearchable'
  BY <1>1, <1>3 DEF AnnouncedIsSearchable, Targets
<1>6. QED
  BY <1>4, <1>5

SearchInv ==
  /\ RunInv /\ DedupIsExact
  /\ Targets /\ AckedIsFound /\ RowsArePublished /\ PublishedIsKept
  /\ SearchHitsOpen /\ AnnouncedIsSearchable

LEMMA SearchInvInit == PipelineInit => SearchInv
<1>1. PipelineInit => RunInv
  BY RunInvInit
<1>2. PipelineInit => DedupIsExact /\ RowsArePublished /\ SearchHitsOpen /\ AnnouncedIsSearchable
  BY DEF PipelineInit, StoreInit, DedupIsExact, RowsArePublished, SearchHitsOpen,
     AnnouncedIsSearchable
<1>3. PipelineInit => Targets /\ AckedIsFound /\ PublishedIsKept
  BY DEF PipelineInit, QueueInit, Targets, Indexing, AckedIsFound, PublishedIsKept
<1>4. QED
  BY <1>1, <1>2, <1>3 DEF SearchInv

LEMMA SearchInvStep ==
  ASSUME SearchInv, [PipelineNext]_pipelineVars
  PROVE  SearchInv'
<1>1. RunInv'
  BY RunInvStep DEF SearchInv
<1>2. DedupIsExact' /\ Targets' /\ AckedIsFound' /\ RowsArePublished'
  BY DedupStep, TargetsStep, AckedStep, RowsStep DEF SearchInv
<1>3. PublishedIsKept'
  BY PipelineStepIsQueueStep, PublishedIsKeptStep DEF SearchInv, RunInv
<1>4. SearchHitsOpen' /\ AnnouncedIsSearchable'
  BY HitsStep DEF SearchInv
<1>5. QED
  BY <1>1, <1>2, <1>3, <1>4 DEF SearchInv

LEMMA SearchInvHolds == PipelineSpec => []SearchInv
BY SearchInvInit, SearchInvStep, PTL DEF PipelineSpec

\* A document always opens a message, in the daily index of the message's day.
THEOREM SearchCorrect == PipelineSpec => []SearchHitsOpen
BY SearchInvHolds, PTL DEF SearchInv

\* No real-time event comes before its message can be found.
THEOREM EventsCorrect == PipelineSpec => []AnnouncedIsSearchable
BY SearchInvHolds, PTL DEF SearchInv

-----------------------------------------------------------------------------
(* The promises to the sender                                              *)

\* A worker may stop between the commit and the indexing, a connection may be
\* lost with the commit unanswered: the mail's copy is still there until some
\* worker has written its document.
THEOREM NothingStaysUnsearchable == PipelineSpec => []ArchivedIsSearchableOrPending
<1>1. ASSUME SearchInv, NEW row \in messages
      PROVE  \/ RefOf(row) \in docs
             \/ \E c \in Copy :
                  body[c] # NoMail /\ Fingerprint[body[c]] = row.hash /\ Unfinished(c)
  <2>1. PICK c \in Copy : place[c] # "unsent" /\ body[c] = row.raw
                          /\ Fingerprint[row.raw] = row.hash
    BY <1>1 DEF SearchInv, RowsArePublished
  <2>2. PICK d \in Copy : Keeps(d, row.raw)
    BY <1>1, <2>1 DEF SearchInv, PublishedIsKept
  <2>3. row.raw \in Mail /\ row.raw # NoMail
    BY <1>1, RefOfType, SharedNullAssumption
       DEF SearchInv, RunInv, TypeInv, PipelineTypeOK, StoreTypeOK
  <2>4. CASE place[d] = "acked"
    BY <1>1, <2>1, <2>2, <2>4 DEF SearchInv, AckedIsFound, IsIndexed, DedupIsExact, Keeps
  <2>5. CASE place[d] # "acked"
    BY <2>1, <2>2, <2>3, <2>5 DEF Keeps, KeptPlaces, Unfinished
  <2>6. QED
    BY <2>4, <2>5
<1>2. SearchInv => ArchivedIsSearchableOrPending
  BY <1>1 DEF ArchivedIsSearchableOrPending
<1>3. QED
  BY <1>2, SearchInvHolds, PTL

\* A mail answered 250 is archived or a copy of it is still to be processed.
THEOREM NothingAcceptedIsForgotten == PipelineSpec => []AcceptedIsArchivedOrPending
<1>1. ASSUME SearchInv, AcceptedMailIsKept, NEW m \in accepted
      PROVE  \/ dedup[Fingerprint[m]] # NoRow
             \/ \E c \in Copy : body[c] = m /\ Unfinished(c)
  <2>1. PICK c \in Copy : Keeps(c, m)
    BY <1>1 DEF AcceptedMailIsKept, Keeps, KeptPlaces
  <2>2. docs \subseteq RowRef
    BY <1>1 DEF SearchInv, RunInv, TypeInv, PipelineTypeOK, StoreTypeOK
  <2>3. CASE place[c] = "acked"
    BY <1>1, <2>1, <2>2, <2>3, NoRowAssumption DEF SearchInv, AckedIsFound, IsIndexed, Keeps
  <2>4. CASE place[c] # "acked"
    BY <2>1, <2>4 DEF Keeps, KeptPlaces, Unfinished
  <2>5. QED
    BY <2>3, <2>4
<1>2. SearchInv /\ AcceptedMailIsKept => AcceptedIsArchivedOrPending
  BY <1>1 DEF AcceptedIsArchivedOrPending
<1>3. QED
  BY <1>2, SearchInvHolds, PipelineImplementsQueue, NoAcceptedMailVanishes, PTL

-----------------------------------------------------------------------------
(* ArchivePipeline implements ArchiveService                              *)

ServiceInv == SearchInv /\ AcceptedMailIsKept /\ IdsAreFresh /\ IdsAreUnique

LEMMA ServiceInvHolds == PipelineSpec => []ServiceInv
<1>1. PipelineInit => IdsAreFresh /\ IdsAreUnique
  BY DEF PipelineInit, StoreInit, IdsAreFresh, IdsAreUnique
<1>2. SearchInv /\ IdsAreFresh /\ IdsAreUnique /\ [PipelineNext]_pipelineVars
        => (IdsAreFresh /\ IdsAreUnique)'
  BY IdsStep, IdsUniqueStep DEF SearchInv
<1>3. QED
  BY <1>1, <1>2, SearchInvHolds, PipelineImplementsQueue, NoAcceptedMailVanishes, PTL
     DEF PipelineSpec, ServiceInv

-----------------------------------------------------------------------------
(* What the steps of the queue mean to the outside                         *)

LivePlaces == {"ready", "held", "dead", "fetched"}

\* A step that moves no copy in or out of the pending places nor purges one,
\* and leaves the stores alone, cannot be seen from the outside.
LEMMA HiddenStep ==
  ASSUME UNCHANGED <<accepted, body, announced, messages, dedup, docs>>,
         \A c \in Copy : /\ place'[c] \in LivePlaces <=> place[c] \in LivePlaces
                         /\ place'[c] = "purged" <=> place[c] = "purged"
  PROVE  UNCHANGED Service!vars
<1>1. \A m : Pending(m)' <=> Pending(m)
  BY DEF Pending, LivePlaces
<1>2. Owed' = Owed
  BY <1>1 DEF Owed
<1>3. DiscardedMails' = DiscardedMails
  BY DEF DiscardedMails
<1>4. QED
  BY <1>2, <1>3 DEF Service!vars, ArchivedHashes, SearchableHashes, AnnouncedHashes

\* An accepted mail that is neither archived nor pending has been purged.
LEMMA LostIsDiscarded ==
  ASSUME ServiceInv, NEW m \in accepted, dedup[Fingerprint[m]] = NoRow, ~Pending(m)
  PROVE  m \in DiscardedMails
<1>1. PICK c \in Copy : Keeps(c, m)
  BY DEF ServiceInv, AcceptedMailIsKept, Keeps, KeptPlaces
<1>2. place[c] # "acked"
  BY <1>1, NoRowAssumption
     DEF ServiceInv, SearchInv, AckedIsFound, IsIndexed, Keeps, RunInv, TypeInv,
     PipelineTypeOK, StoreTypeOK
<1>3. place[c] = "purged"
  BY <1>1, <1>2 DEF Keeps, KeptPlaces, Pending
<1>4. QED
  BY <1>1, <1>3 DEF DiscardedMails, Keeps

\* A copy of a mail appears among the pending ones.
LEMMA ReappearStep ==
  ASSUME ServiceInv, NEW m \in Mail, UNCHANGED <<accepted, announced, messages, dedup, docs>>,
         \A n : Pending(n)' <=> Pending(n) \/ n = m,
         DiscardedMails' = DiscardedMails
  PROVE  [Service!Next]_(Service!vars)
<1>1. /\ ArchivedHashes' = ArchivedHashes /\ SearchableHashes' = SearchableHashes
      /\ AnnouncedHashes' = AnnouncedHashes /\ accepted' = accepted
  BY DEF ArchivedHashes, SearchableHashes, AnnouncedHashes
<1>2. CASE m \in accepted /\ dedup[Fingerprint[m]] = NoRow /\ ~Pending(m)
  <2>1. m \in DiscardedMails
    BY <1>2, LostIsDiscarded
  <2>2. Fingerprint[m] \notin ArchivedHashes
    BY <1>2 DEF ArchivedHashes
  <2>3. Owed' = Owed \cup {m}
    BY <1>2 DEF Owed
  <2>4. Service!Recover(m)
    BY <1>1, <1>2, <2>1, <2>2, <2>3 DEF Service!Recover, Service!Archived
  <2>5. QED
    BY <2>4 DEF Service!Next
<1>3. CASE ~(m \in accepted /\ dedup[Fingerprint[m]] = NoRow /\ ~Pending(m))
  <2>1. Owed' = Owed
    BY <1>3 DEF Owed
  <2>2. QED
    BY <1>1, <2>1 DEF Service!vars
<1>4. QED
  BY <1>2, <1>3

LEMMA PublishIsReappearing ==
  ASSUME QueueTypeOK, NEW m \in Mail, NEW c \in Copy, Publish(c, m),
         place' = [place EXCEPT ![c] = "ready"]
  PROVE  /\ \A n : Pending(n)' <=> Pending(n) \/ n = m
         /\ DiscardedMails' = DiscardedMails
<1>1. \A n : Pending(n)' <=> Pending(n) \/ n = m
  BY DEF Publish, QueueTypeOK, Pending
<1>2. \A d \in Copy : place'[d] = "purged" <=> place[d] = "purged"
  BY DEF Publish, QueueTypeOK
<1>3. \A d \in Copy : place[d] = "purged" => body'[d] = body[d]
  BY DEF Publish, QueueTypeOK
<1>4. QED
  BY <1>1, <1>2, <1>3 DEF DiscardedMails

LEMMA QueueStepMaps ==
  ASSUME ServiceInv, QueueStep, UNCHANGED <<announced, storeVars>>
  PROVE  [Service!Next]_(Service!vars)
<1> DEFINE Goal == [Service!Next]_(Service!vars)
<1>1. QueueInv /\ QueueTypeOK /\ UNCHANGED <<announced, messages, dedup, docs>>
  BY DEF ServiceInv, SearchInv, RunInv, QueueInv, storeVars
<1>2. ASSUME NEW m \in Mail, HandleDataAccepts(m) PROVE Goal
  <2>1. PICK c \in Copy : Publish(c, m) /\ place' = [place EXCEPT ![c] = "ready"]
    BY <1>2 DEF HandleDataAccepts
  <2>2. (\A n : Pending(n)' <=> Pending(n) \/ n = m) /\ DiscardedMails' = DiscardedMails
    BY <1>1, <2>1, PublishIsReappearing
  <2>3. accepted' = accepted \cup {m}
    BY <1>2 DEF HandleDataAccepts
  <2>4. Owed' = IF Fingerprint[m] \in ArchivedHashes THEN Owed ELSE Owed \cup {m}
    <3>1. Fingerprint[m] \in ArchivedHashes <=> dedup[Fingerprint[m]] # NoRow
      BY AttsType DEF ArchivedHashes
    <3>2. QED
      BY <1>1, <2>2, <2>3, <3>1 DEF Owed
  <2>5. Service!Accept(m)
    BY <1>1, <2>2, <2>3, <2>4
       DEF Service!Accept, Service!Archived, ArchivedHashes, SearchableHashes, AnnouncedHashes
  <2>6. QED
    BY <2>5 DEF Service!Next
<1>3. ASSUME NEW m \in Mail, HandleDataUnconfirmed(m) PROVE Goal
  <2>1. PICK c \in Copy : Publish(c, m) /\ place' = [place EXCEPT ![c] = "ready"]
    BY <1>3 DEF HandleDataUnconfirmed
  <2>2. UNCHANGED accepted
    BY <1>3 DEF HandleDataUnconfirmed
  <2>3. QED
    BY <1>1, <2>1, <2>2, PublishIsReappearing, ReappearStep
<1>4. ASSUME NEW c \in Copy, ReplayGet(c) \/ ReplayAck(c) PROVE Goal
  BY <1>1, <1>4, HiddenStep DEF ReplayGet, ReplayAck, LivePlaces, QueueTypeOK
<1>5. ASSUME NEW c \in Copy, ReplayAborts(c) PROVE Goal
  <2>1. body[c] \in Mail
    BY <1>1, <1>5 DEF ReplayAborts, QueueInv, CopiesCarryMails
  <2>2. \A n : Pending(n)' <=> Pending(n) \/ n = body[c]
    BY <1>1, <1>5 DEF ReplayAborts, QueueTypeOK, Pending
  <2>3. DiscardedMails' = DiscardedMails
    <3>1. \A d \in Copy : place'[d] = "purged" <=> place[d] = "purged"
      BY <1>1, <1>5 DEF ReplayAborts, QueueTypeOK
    <3>2. QED
      BY <1>5, <3>1 DEF ReplayAborts, DiscardedMails
  <2>4. UNCHANGED accepted
    BY <1>5 DEF ReplayAborts
  <2>5. QED
    BY <1>1, <2>1, <2>2, <2>3, <2>4, ReappearStep
<1>6. ASSUME NEW c \in Copy, ReplayPublish(c) PROVE Goal
  <2>1. PICK d \in Copy : /\ Publish(d, body[c])
                          /\ place' = [place EXCEPT ![c] = "republished", ![d] = "ready"]
    BY <1>6 DEF ReplayPublish
  <2>2. body[c] \in Mail /\ place[c] = "fetched" /\ d # c
    BY <1>1, <1>6, <2>1 DEF ReplayPublish, QueueInv, CopiesCarryMails, Publish
  <2>3. \A n : Pending(n)' <=> Pending(n) \/ n = body[c]
    BY <1>1, <2>1, <2>2 DEF Publish, QueueTypeOK, Pending
  <2>4. DiscardedMails' = DiscardedMails
    <3>1. \A e \in Copy : place'[e] = "purged" <=> place[e] = "purged"
      BY <1>1, <2>1, <2>2 DEF QueueTypeOK, Publish
    <3>2. \A e \in Copy : place[e] = "purged" => body'[e] = body[e]
      BY <1>1, <2>1 DEF QueueTypeOK, Publish
    <3>3. QED
      BY <3>1, <3>2 DEF DiscardedMails
  <2>5. UNCHANGED accepted
    BY <1>6 DEF ReplayPublish
  <2>6. QED
    BY <1>1, <2>2, <2>3, <2>4, <2>5, ReappearStep
<1>7. CASE DlqPurge
  <2> DEFINE mails == {body[c] : c \in {d \in Copy : place[d] = "dead"}}
  <2>1. UNCHANGED <<accepted, body>> /\
        \A c \in Copy : place'[c] = IF place[c] = "dead" THEN "purged" ELSE place[c]
    BY <1>7 DEF DlqPurge
  <2>2. mails \in SUBSET Mail
    BY <1>1 DEF QueueInv, CopiesCarryMails
  <2>3. DiscardedMails' = DiscardedMails \cup mails
    BY <2>1 DEF DiscardedMails
  <2>4. \A n : Pending(n)' => Pending(n)
    BY <2>1 DEF Pending
  <2>5. \A n : n \notin mails => (Pending(n) => Pending(n)')
    BY <2>1 DEF Pending
  <2>6. Owed' \subseteq Owed /\ Owed \ mails \subseteq Owed'
    BY <1>1, <2>1, <2>4, <2>5 DEF Owed
  <2>7. Service!Discard(mails)
    BY <1>1, <2>1, <2>3, <2>6
       DEF Service!Discard, ArchivedHashes, SearchableHashes, AnnouncedHashes
  <2>8. QED
    BY <2>2, <2>7 DEF Service!Next
<1>8. ASSUME NEW c \in Copy, NEW w \in Worker, Deliver(c, w) PROVE Goal
  BY <1>1, <1>8, HiddenStep DEF Deliver, LivePlaces, QueueTypeOK
<1>9. ASSUME NEW w \in Worker, Ack(w) PROVE Goal
  <2>1. job[w] \in Copy /\ place[job[w]] = "held" /\ body[job[w]] \in Mail
    BY <1>1, <1>9 DEF Ack, QueueInv, SettlerOwnsCopy, HeldBy, CopiesCarryMails
  <2>2. dedup[Fingerprint[body[job[w]]]] # NoRow
    BY <1>9, NoRowAssumption
       DEF Ack, ServiceInv, SearchInv, AckedIsFound, IsIndexed, RunInv, TypeInv,
       PipelineTypeOK, StoreTypeOK
  <2>3. UNCHANGED <<accepted, body>> /\ place' = [place EXCEPT ![job[w]] = "acked"]
    BY <1>9 DEF Ack
  <2>4. \A n : n # body[job[w]] => (Pending(n)' <=> Pending(n))
    BY <1>1, <2>1, <2>3 DEF QueueTypeOK, Pending
  <2>5. Owed' = Owed
    BY <1>1, <2>2, <2>3, <2>4 DEF Owed
  <2>6. DiscardedMails' = DiscardedMails
    <3>1. \A d \in Copy : place'[d] = "purged" <=> place[d] = "purged"
      BY <1>1, <2>1, <2>3 DEF QueueTypeOK
    <3>2. QED
      BY <2>3, <3>1 DEF DiscardedMails
  <2>7. QED
    BY <1>1, <2>3, <2>5, <2>6
       DEF Service!vars, ArchivedHashes, SearchableHashes, AnnouncedHashes
<1>10. ASSUME NEW w \in Worker, RejectAndRequeue(w) \/ DeadLetter(w) PROVE Goal
  <2>1. job[w] \in Copy /\ place[job[w]] = "held"
    BY <1>1, <1>10 DEF RejectAndRequeue, DeadLetter, QueueInv, SettlerOwnsCopy, HeldBy
  <2>2. \A c \in Copy : /\ place'[c] \in LivePlaces <=> place[c] \in LivePlaces
                        /\ place'[c] = "purged" <=> place[c] = "purged"
    BY <1>1, <1>10, <2>1 DEF RejectAndRequeue, DeadLetter, Requeue, LivePlaces, QueueTypeOK
  <2>3. UNCHANGED <<accepted, body>>
    BY <1>10 DEF RejectAndRequeue, DeadLetter
  <2>4. QED
    BY <1>1, <2>2, <2>3, HiddenStep
<1>11. ASSUME NEW w \in Worker, ChannelLost(w) PROVE Goal
  BY <1>1, <1>11, HiddenStep DEF ChannelLost, Requeue, HeldBy, LivePlaces
<1>12. QED
  BY <1>2, <1>3, <1>4, <1>5, <1>6, <1>7, <1>8, <1>9, <1>10, <1>11 DEF QueueStep

-----------------------------------------------------------------------------
(* What the steps of process() mean to the outside                         *)

Standing == <<accepted, place, body>>

\* Copies keep their places, so only the stores matter.
LEMMA StandingStep ==
  ASSUME UNCHANGED Standing
  PROVE  (\A n : Pending(n)' <=> Pending(n)) /\ DiscardedMails' = DiscardedMails
BY DEF Standing, Pending, DiscardedMails

\* The row a worker indexes, and the fingerprint it stands for.
LEMMA TargetRow ==
  ASSUME ServiceInv, NEW w \in Worker, step[w] \in Indexing
  PROVE  /\ hash(w) \in Hash /\ target[w] = dedup[hash(w)] /\ dedup[hash(w)] # NoRow
         /\ \E row \in messages : row.hash = hash(w) /\ RefOf(row) = target[w]
         /\ \A row \in messages : row.id = target[w].id => row.hash = hash(w)
         /\ \A h \in Hash : dedup[h] = target[w] => h = hash(w)
<1>1. hash(w) \in Hash /\ target[w] = dedup[hash(w)] /\ dedup[hash(w)] # NoRow
  BY AttsType, NoRowAssumption
     DEF ServiceInv, SearchInv, RunInv, TypeInv, RunShape, Indexing, Targets, hash
<1>2. PICK row \in messages : row.hash = hash(w) /\ RefOf(row) = target[w]
  BY <1>1 DEF ServiceInv, SearchInv, DedupIsExact
<1>3. row.id = target[w].id
  BY <1>2 DEF RefOf
<1>4. \A r \in messages : r.id = target[w].id => r = row
  BY <1>3 DEF ServiceInv, IdsAreUnique
<1>5. ASSUME NEW h \in Hash, dedup[h] = target[w] PROVE h = hash(w)
  <2>1. PICK r \in messages : r.hash = h /\ RefOf(r) = target[w]
    BY <1>1, <1>5 DEF ServiceInv, SearchInv, DedupIsExact
  <2>2. r.id = target[w].id
    BY <2>1 DEF RefOf
  <2>3. QED
    BY <1>2, <1>4, <2>1, <2>2
<1>6. QED
  BY <1>1, <1>2, <1>4, <1>5

\* A commit archives the fingerprint, and settles what is owed for it.
LEMMA CommitMaps ==
  ASSUME ServiceInv, NEW w \in Worker, step[w] = "commit", Committed(w),
         UNCHANGED <<Standing, announced>>
  PROVE  Service!Archive(hash(w)) /\ hash(w) \in Hash
<1> USE DEF ServiceInv, SearchInv, RunInv, TypeInv, PipelineTypeOK, StoreTypeOK
<1> DEFINE row == [id |-> nextId, day |-> signedAt[w], hash |-> hash(w), raw |-> raw[w]]
<1>1. hash(w) \in Hash /\ dedup[hash(w)] = NoRow
  BY AttsType DEF RunShape, hash, Committed
<1>2. RefOf(row) \in RowRef
  BY DEF RefOf, RowRef
<1>3. dedup' = [dedup EXCEPT ![hash(w)] = RefOf(row)] /\ docs' = docs
      /\ messages' = messages \cup {row}
  BY DEF Committed
<1>4. nextId \in Nat
  BY DEF Id
<1>5. \A r \in messages : r.id # nextId
  BY <1>4 DEF IdsAreFresh
<1>6. RefOf(row) \notin docs
  BY <1>5 DEF SearchHitsOpen, RefOf
<1>7. nextId \notin announced
  <2>1. \A doc \in docs : doc.id # nextId
    BY <1>5 DEF SearchHitsOpen, RefOf
  <2>2. QED
    BY <2>1 DEF AnnouncedIsSearchable
<1>8. ArchivedHashes' = ArchivedHashes \cup {hash(w)} /\ hash(w) \notin ArchivedHashes
  BY <1>1, <1>2, <1>3, NoRowAssumption DEF ArchivedHashes
<1>9. SearchableHashes' = SearchableHashes
  <2>1. \A h \in Hash : (dedup'[h] # NoRow /\ dedup'[h] \in docs)
                        <=> (dedup[h] # NoRow /\ dedup[h] \in docs)
    BY <1>1, <1>3, <1>6
  <2>2. QED
    BY <1>3, <2>1 DEF SearchableHashes, ArchivedHashes
<1>10. AnnouncedHashes' = AnnouncedHashes
  <2>1. {r \in messages' : r.id \in announced} = {r \in messages : r.id \in announced}
    BY <1>3, <1>7
  <2>2. QED
    BY <2>1 DEF AnnouncedHashes
<1>11. Owed' = {m \in Owed : Fingerprint[m] # hash(w)}
  <2>1. \A m \in accepted : dedup'[Fingerprint[m]] = NoRow
                            <=> dedup[Fingerprint[m]] = NoRow /\ Fingerprint[m] # hash(w)
    <3>1. \A m \in accepted : Fingerprint[m] \in Hash
      BY AttsType DEF QueueTypeOK
    <3>2. QED
      BY <1>1, <1>2, <1>3, <3>1, NoRowAssumption
  <2>2. QED
    BY <2>1, StandingStep DEF Owed, Standing
<1>12. QED
  BY <1>1, <1>8, <1>9, <1>10, <1>11, StandingStep DEF Service!Archive, Standing

\* Writing a document makes its fingerprint searchable.
LEMMA IndexMaps ==
  ASSUME ServiceInv, NEW w \in Worker, step[w] \in {"index", "reindex"}, IndexTarget(w),
         UNCHANGED <<Standing, announced>>
  PROVE  Service!MakeSearchable(hash(w)) /\ hash(w) \in Hash
<1>1. UNCHANGED <<messages, dedup>> /\ docs' = docs \cup {target[w]}
  BY DEF IndexTarget
<1>2. hash(w) \in Hash /\ target[w] = dedup[hash(w)] /\ dedup[hash(w)] # NoRow
      /\ \A h \in Hash : dedup[h] = target[w] => h = hash(w)
  BY TargetRow DEF Indexing
<1>3. SearchableHashes' = SearchableHashes \cup {hash(w)}
  BY <1>1, <1>2 DEF SearchableHashes, ArchivedHashes
<1>4. Owed' = Owed /\ ArchivedHashes' = ArchivedHashes /\ AnnouncedHashes' = AnnouncedHashes
  BY <1>1, StandingStep DEF Owed, ArchivedHashes, AnnouncedHashes, Standing
<1>5. hash(w) \in ArchivedHashes
  BY <1>2 DEF ArchivedHashes
<1>6. QED
  BY <1>2, <1>3, <1>4, <1>5, StandingStep DEF Service!MakeSearchable, Standing

\* An event announces its fingerprint, if it was not announced before.
LEMMA AnnounceMaps ==
  ASSUME ServiceInv, NEW w \in Worker, step[w] = "event",
         announced' = announced \cup {target[w].id}, UNCHANGED <<Standing, storeVars>>
  PROVE  [Service!Next]_(Service!vars)
<1>1. UNCHANGED <<messages, dedup, docs>>
  BY DEF storeVars
<1>2. hash(w) \in Hash /\ target[w] = dedup[hash(w)] /\ dedup[hash(w)] # NoRow
  BY TargetRow DEF Indexing
<1>3. PICK row \in messages : row.hash = hash(w) /\ RefOf(row) = target[w]
  BY TargetRow DEF Indexing
<1>4. \A r \in messages : r.id = target[w].id => r.hash = hash(w)
  BY TargetRow DEF Indexing
<1>5. row.id = target[w].id
  BY <1>3 DEF RefOf
<1>6. AnnouncedHashes' = AnnouncedHashes \cup {hash(w)}
  BY <1>1, <1>3, <1>4, <1>5 DEF AnnouncedHashes
<1>7. /\ Owed' = Owed /\ ArchivedHashes' = ArchivedHashes
      /\ SearchableHashes' = SearchableHashes
  BY <1>1, StandingStep DEF Owed, ArchivedHashes, SearchableHashes, Standing
<1>8. hash(w) \in SearchableHashes
  BY <1>2 DEF SearchableHashes, ArchivedHashes, ServiceInv, SearchInv, Targets
<1>9. CASE hash(w) \in AnnouncedHashes
  BY <1>6, <1>7, <1>9, StandingStep DEF Service!vars, Standing
<1>10. CASE hash(w) \notin AnnouncedHashes
  <2>1. Service!Announce(hash(w))
    BY <1>6, <1>7, <1>8, <1>10, StandingStep DEF Service!Announce, Standing
  <2>2. QED
    BY <1>2, <2>1 DEF Service!Next
<1>11. QED
  BY <1>9, <1>10

LEMMA StandingHidden ==
  ASSUME UNCHANGED <<Standing, announced, messages, dedup, docs>>
  PROVE  UNCHANGED Service!vars
BY HiddenStep DEF Standing

LEMMA ServiceStep ==
  ASSUME ServiceInv, [PipelineNext]_pipelineVars
  PROVE  [Service!Next]_(Service!vars)
<1> DEFINE Goal == [Service!Next]_(Service!vars)
<1>1. CASE UNCHANGED <<queueVars, announced, messages, dedup, docs>>
  BY <1>1, StandingHidden DEF Standing, queueVars
<1>2. CASE QueueStep /\ UNCHANGED <<runVars, announced, storeVars>>
  BY <1>2, QueueStepMaps
<1>3. ASSUME NEW w \in Worker, NEW c \in Copy, Begin(w, c) PROVE Goal
  BY <1>3, StandingHidden DEF Begin, Take, storeVars, Standing
<1>4. ASSUME NEW w \in Worker, PipelineStep(w) \/ PipelineFault(w)
      PROVE  UNCHANGED Standing
  BY <1>4
     DEF PipelineStep, ParseRaises, Precheck, PutBody, PutAttachment, Upsert, Commit,
     CommitConflict, Recheck, Index, Reindex, Announce, DeadlockVictim, PipelineFault,
     StoreFails, DatabaseFails, CommitUnanswered, ProcessEnds, HandlerEnds, queueVars, Standing
<1>5. ASSUME NEW w \in Worker, Commit(w) \/ CommitUnanswered(w) PROVE Goal
  <2>1. Service!Archive(hash(w)) /\ hash(w) \in Hash
    BY <1>4, <1>5, CommitMaps DEF Commit, CommitUnanswered, PipelineStep, PipelineFault
  <2>2. QED
    BY <2>1 DEF Service!Next
<1>6. ASSUME NEW w \in Worker, Index(w) \/ Reindex(w) PROVE Goal
  <2>1. Service!MakeSearchable(hash(w)) /\ hash(w) \in Hash
    BY <1>4, <1>6, IndexMaps DEF Index, Reindex, PipelineStep
  <2>2. QED
    BY <2>1 DEF Service!Next
<1>7. ASSUME NEW w \in Worker, Announce(w) PROVE Goal
  <2>1. UNCHANGED Standing /\ UNCHANGED storeVars
    BY <1>4, <1>7 DEF Announce, PipelineStep
  <2>2. CASE announced' = announced
    BY <2>1, <2>2, StandingHidden DEF storeVars
  <2>3. CASE announced' = announced \cup {target[w].id}
    BY <1>7, <2>1, <2>3, AnnounceMaps DEF Announce
  <2>4. QED
    BY <1>7, <2>2, <2>3 DEF Announce
<1>8. ASSUME NEW w \in Worker, PipelineStep(w), ~Commit(w), ~Index(w), ~Reindex(w), ~Announce(w)
      PROVE  Goal
  <2>1. UNCHANGED <<announced, messages, dedup, docs>>
    BY <1>8 DEF PipelineStep, ParseRaises, Precheck, PutBody, PutAttachment, Upsert,
       CommitConflict, Recheck, DeadlockVictim, Rollback, storeVars
  <2>2. QED
    BY <1>4, <1>8, <2>1, StandingHidden
<1>9. ASSUME NEW w \in Worker, StoreFails(w) \/ DatabaseFails(w) PROVE Goal
  <2>1. UNCHANGED <<announced, messages, dedup, docs>>
    BY <1>9 DEF StoreFails, DatabaseFails, Rollback
  <2>2. QED
    BY <1>4, <1>9, <2>1, StandingHidden DEF PipelineFault
<1>10. ASSUME NEW w \in Worker, WorkerEnds(w) PROVE Goal
  <2>1. \A c \in Copy : /\ place'[c] \in LivePlaces <=> place[c] \in LivePlaces
                        /\ place'[c] = "purged" <=> place[c] = "purged"
    BY <1>10 DEF WorkerEnds, WorkerStops, Requeue, HeldBy, LivePlaces
  <2>2. UNCHANGED <<accepted, body, announced, messages, dedup, docs>>
    BY <1>10 DEF WorkerEnds, WorkerStops, Rollback
  <2>3. QED
    BY <2>1, <2>2, HiddenStep
<1>11. QED
  BY <1>1, <1>2, <1>3, <1>5, <1>6, <1>7, <1>8, <1>9, <1>10
     DEF PipelineNext, PipelineFault, pipelineVars, storeVars, Tick

\* The pipeline on its queue keeps the promise of ArchiveService: every step of
\* broker, replay, worker or store is a step of the service or invisible.
THEOREM PipelineImplementsService == PipelineSpec => ImplementsService
<1>1. PipelineInit => Service!Init
  BY DEF PipelineInit, QueueInit, StoreInit, Service!Init, Owed, ArchivedHashes,
     SearchableHashes, AnnouncedHashes, DiscardedMails
<1>2. ServiceInv /\ [PipelineNext]_pipelineVars => [Service!Next]_(Service!vars)
  BY ServiceStep
<1>3. QED
  BY <1>1, <1>2, ServiceInvHolds, PTL DEF PipelineSpec, ImplementsService, Service!Spec

-----------------------------------------------------------------------------
\* No promise is broken: a mail answered 250 is in charge, archived or purged.
THEOREM PromiseToTheSender == PipelineSpec => []Service!PromisesKept
<1>1. ASSUME ServiceInv, NEW m \in accepted
      PROVE  m \in Owed \/ Fingerprint[m] \in ArchivedHashes \/ m \in DiscardedMails
  <2>1. m \in Mail
    BY <1>1 DEF ServiceInv, SearchInv, RunInv, TypeInv, PipelineTypeOK, QueueTypeOK
  <2>2. CASE dedup[Fingerprint[m]] # NoRow
    BY <2>1, <2>2, AttsType DEF ArchivedHashes
  <2>3. CASE dedup[Fingerprint[m]] = NoRow /\ Pending(m)
    BY <1>1, <2>3 DEF Owed
  <2>4. CASE dedup[Fingerprint[m]] = NoRow /\ ~Pending(m)
    BY <1>1, <2>4, LostIsDiscarded
  <2>5. QED
    BY <2>2, <2>3, <2>4
<1>2. ServiceInv => Service!PromisesKept
  BY <1>1 DEF Service!PromisesKept, Service!Archived
<1>3. QED
  BY <1>2, ServiceInvHolds, PTL
=============================================================================
