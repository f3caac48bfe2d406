------------------------ MODULE ArchivePipelineProofs ------------------------
(* Proofs about ArchivePipeline, for any number of mails, attachments,      *)
(* copies and workers.                                                     *)
EXTENDS ArchivePipeline, MailQueueProofs, FiniteSetTheorems

(* The pipeline is a handler of the queue                                  *)

LEMMA PipelineStepIsQueueStep ==
  ASSUME [PipelineNext]_pipelineVars
  PROVE  [QueueNext]_queueVars
<1>1. CASE UNCHANGED pipelineVars
  BY <1>1 DEF pipelineVars
<1>2. CASE QueueStep
  BY <1>2 DEF QueueNext
<1>3. CASE Tick /\ UNCHANGED <<runVars, announced, queueVars>>
  BY <1>3
<1>4. ASSUME NEW w \in Worker, NEW c \in Copy, Begin(w, c)
      PROVE  QueueNext
  BY <1>4 DEF Begin, QueueNext
<1>5. ASSUME NEW w \in Worker, PipelineStep(w)
      PROVE  [QueueNext]_queueVars
  BY <1>5 DEF PipelineStep, ParseRaises, Precheck, PutBody, PutAttachment, Upsert,
     Commit, CommitConflict, Recheck, Index, Reindex, Announce, DeadlockVictim,
     ProcessEnds, QueueNext
<1>6. ASSUME NEW w \in Worker, PipelineFault(w)
      PROVE  [QueueNext]_queueVars
  BY <1>6 DEF PipelineFault, StoreFails, DatabaseFails, CommitUnanswered, ProcessEnds,
     QueueNext
<1>7. ASSUME NEW w \in Worker, WorkerEnds(w)
      PROVE  QueueNext
  BY <1>7 DEF WorkerEnds, QueueNext
<1>8. QED
  BY <1>1, <1>2, <1>3, <1>4, <1>5, <1>6, <1>7 DEF PipelineNext

\* Whatever MailQueue promises of any handler holds with process() as the
\* handler.
THEOREM PipelineImplementsQueue == PipelineSpec => QueueSpec
<1>1. PipelineInit => QueueInit
  BY DEF PipelineInit
<1>2. [PipelineNext]_pipelineVars => [QueueNext]_queueVars
  BY PipelineStepIsQueueStep
<1>3. QED
  BY <1>1, <1>2, PTL DEF PipelineSpec, QueueSpec

-----------------------------------------------------------------------------
(* Types, and where the local variables of process() are set               *)

Storing == {"putAtt", "upsert", "commit"}
Indexing == {"index", "reindex", "event"}

RunShape ==
  \A w \in Worker :
    /\ step[w] # "idle" => raw[w] \in Mail
    /\ step[w] \in {"idle", "precheck", "putBody"} => nextAtt[w] = 1
    /\ step[w] \in {"putAtt", "upsert"} => nextAtt[w] \in 1..Len(atts(w))
    /\ step[w] \in Indexing => target[w] \in RowRef

TypeInv == PipelineTypeOK /\ RunShape

\* process() is under way exactly while the handler call is, on the body of
\* the job.
RunOfJob ==
  \A w \in Worker :
    /\ step[w] # "idle" <=> outcome[w] = "running"
    /\ step[w] # "idle" => raw[w] = body[job[w]]

RunInv == QueueInv /\ TypeInv /\ RunOfJob

LEMMA AttsType ==
  ASSUME NEW m \in Mail
  PROVE  /\ Len(AttachmentsOf[m]) \in Nat
         /\ \A i \in 1..Len(AttachmentsOf[m]) : AttachmentsOf[m][i] \in Attachment
         /\ Fingerprint[m] \in Hash
BY PipelineAssumption

LEMMA PipelineInitType == PipelineInit => TypeInv
<1>1. SUFFICES ASSUME PipelineInit PROVE TypeInv
  OBVIOUS
<1>2. QueueTypeOK
  BY <1>1, QueueInitTypeOK DEF PipelineInit
<1>3. StoreTypeOK
  BY <1>1, LastDayAssumption DEF PipelineInit, StoreInit, StoreTypeOK, Id, Day
<1>4. QED
  BY <1>1, <1>2, <1>3, LastDayAssumption
     DEF PipelineInit, TypeInv, PipelineTypeOK, RunShape, Steps, Day, Indexing

\* A row that is committed has the type of a row.
LEMMA CommittedType ==
  ASSUME TypeInv, NEW w \in Worker, step[w] = "commit", Committed(w)
  PROVE  /\ StoreTypeOK'
         /\ [id |-> nextId, day |-> signedAt[w]] \in RowRef
<1> USE DEF TypeInv, PipelineTypeOK, StoreTypeOK
<1>1. raw[w] \in Mail /\ hash(w) \in Hash
  BY AttsType DEF RunShape, hash
<1>2. [id |-> nextId, day |-> signedAt[w]] \in RowRef
  BY DEF RowRef
<1>3. [id |-> nextId, day |-> signedAt[w], hash |-> hash(w), raw |-> raw[w]] \in MessageRow
  BY <1>1 DEF MessageRow
<1>4. nextId + 1 \in Id
  BY DEF Id
<1>5. {<<nextId, a>> : a \in LockedBy(w)} \subseteq Id \X Attachment
  BY DEF LockedBy
<1>6. /\ messages' \subseteq MessageRow /\ dedup' \in [Hash -> RowRef \cup {NoRow}]
      /\ nextId' \in Id
  BY <1>1, <1>2, <1>3, <1>4 DEF Committed, RefOf
<1>7. links' \subseteq Id \X Attachment
  BY <1>5 DEF Committed
<1>8. refs' \in [Attachment -> Nat] /\ rowLock' \in [Attachment -> Worker \cup {Purger, NoWorker}]
  BY DEF Committed, ReleaseLocks
<1>9. QED
  BY <1>2, <1>6, <1>7, <1>8 DEF Committed

LEMMA RollbackType ==
  ASSUME StoreTypeOK, NEW w, Rollback(w)
  PROVE  StoreTypeOK'
BY DEF StoreTypeOK, Rollback, ReleaseLocks

LEMMA ForgetRunType ==
  ASSUME TypeInv, NEW w \in Worker, ForgetRun(w)
  PROVE  /\ step' \in [Worker -> Steps] /\ raw' \in [Worker -> Mail \cup {NoMail}]
         /\ signedAt' \in [Worker -> Day] /\ nextAtt' \in [Worker -> Nat \ {0}]
         /\ target' \in [Worker -> RowRef \cup {NoRow}]
         /\ RunShape'
BY LastDayAssumption DEF TypeInv, PipelineTypeOK, ForgetRun, RunShape, Steps, Indexing, Day, atts

LEMMA PipelineStepType ==
  ASSUME RunInv, [PipelineNext]_pipelineVars
  PROVE  TypeInv'
<1> USE DEF RunInv, TypeInv, PipelineTypeOK
<1>0. QueueTypeOK'
  BY PipelineStepIsQueueStep, QueueStepTypeOK
<1>1. CASE UNCHANGED pipelineVars
  BY <1>0, <1>1 DEF pipelineVars, runVars, storeVars, StoreTypeOK, RunShape, atts
<1>2. CASE UNCHANGED <<runVars, announced, storeVars>>
  BY <1>0, <1>2 DEF runVars, storeVars, StoreTypeOK, RunShape, atts
<1>3. CASE Tick /\ UNCHANGED <<runVars, announced, queueVars>>
  BY <1>0, <1>3, LastDayAssumption DEF Tick, runVars, StoreTypeOK, RunShape, atts, Day
<1>4. ASSUME NEW w \in Worker, NEW c \in Copy, Begin(w, c)
      PROVE  TypeInv'
  <2>1. body[c] \in Mail
    BY <1>4 DEF Begin, Take, HeldBy, QueueInv, CopiesCarryMails
  <2>2. step[w] = "idle"
    BY <1>4, NoCopyAssumption DEF Begin, Take, QueueInv, CopiesCarryMails, RunOfJob
  <2>3. QED
    BY <1>0, <1>4, <2>1, <2>2 DEF Begin, GoTo, Steps, StoreTypeOK, storeVars, RunShape, Indexing, atts
<1>5. ASSUME NEW w \in Worker, NEW r, ProcessEnds(w, r), StoreTypeOK', announced' \subseteq Id
      PROVE  TypeInv'
  BY <1>0, <1>5, ForgetRunType DEF ProcessEnds
<1>6. ASSUME NEW w \in Worker, step[w] # "idle", Rollback(w) \/ UNCHANGED storeVars
      PROVE  StoreTypeOK'
  BY <1>6, RollbackType DEF storeVars, StoreTypeOK
<1>7. ASSUME NEW w \in Worker, ParseRaises(w)
      PROVE  TypeInv'
  BY <1>5, <1>6, <1>7 DEF ParseRaises
<1>8. ASSUME NEW w \in Worker, Precheck(w)
      PROVE  TypeInv'
  <2>1. dedup[hash(w)] \in RowRef \cup {NoRow}
    BY <1>8, AttsType DEF Precheck, RunShape, hash, StoreTypeOK
  <2>2. QED
    BY <1>0, <1>6, <1>8, <2>1 DEF Precheck, GoTo, Steps, RunShape, Indexing, atts
<1>9. ASSUME NEW w \in Worker, PutBody(w)
      PROVE  TypeInv'
  <2>1. raw[w] \in Mail /\ Len(atts(w)) \in Nat
    BY <1>9, AttsType DEF PutBody, RunShape, atts
  <2>2. StoreTypeOK'
    BY <1>9, <2>1 DEF PutBody, StoreTypeOK
  <2>3. nextAtt[w] = 1
    BY <1>9 DEF PutBody, RunShape
  <2>4. QED
    BY <1>0, <1>9, <2>1, <2>2, <2>3
       DEF PutBody, AfterAttachments, GoTo, Steps, RunShape, Indexing, atts
<1>10. ASSUME NEW w \in Worker, PutAttachment(w)
       PROVE  TypeInv'
  <2>1. atts(w)[nextAtt[w]] \in Attachment
    BY <1>10, AttsType DEF PutAttachment, RunShape, atts
  <2>2. StoreTypeOK'
    BY <1>10, <2>1 DEF PutAttachment, StoreTypeOK
  <2>3. QED
    BY <1>0, <1>10, <2>2 DEF PutAttachment, GoTo, Steps, RunShape, Indexing, atts
<1>11. ASSUME NEW w \in Worker, Upsert(w)
       PROVE  TypeInv'
  <2>1. raw[w] \in Mail /\ Len(atts(w)) \in Nat
    BY <1>11, AttsType DEF Upsert, RunShape, atts
  <2>2. StoreTypeOK'
    BY <1>11 DEF Upsert, StoreTypeOK
  <2>3. QED
    BY <1>0, <1>11, <2>1, <2>2
       DEF Upsert, AfterAttachments, GoTo, Steps, RunShape, Indexing, atts
<1>12. ASSUME NEW w \in Worker, Commit(w)
       PROVE  TypeInv'
  <2>1. StoreTypeOK' /\ [id |-> nextId, day |-> signedAt[w]] \in RowRef
    BY <1>12, CommittedType DEF Commit
  <2>2. QED
    BY <1>0, <1>12, <2>1 DEF Commit, GoTo, Steps, RunShape, Indexing, atts
<1>13. ASSUME NEW w \in Worker, CommitConflict(w)
       PROVE  TypeInv'
  <2>1. StoreTypeOK'
    BY <1>13, RollbackType DEF CommitConflict, Rollback
  <2>2. QED
    BY <1>0, <1>13, <2>1 DEF CommitConflict, GoTo, Steps, RunShape, Indexing, atts
<1>14. ASSUME NEW w \in Worker, Recheck(w)
       PROVE  TypeInv'
  <2>1. dedup[hash(w)] \in RowRef \cup {NoRow}
    BY <1>14, AttsType DEF Recheck, RunShape, hash, StoreTypeOK
  <2>2. CASE dedup[hash(w)] = NoRow
    BY <1>5, <1>6, <1>14, <2>2 DEF Recheck
  <2>3. CASE dedup[hash(w)] # NoRow
    BY <1>0, <1>6, <1>14, <2>1, <2>3 DEF Recheck, GoTo, Steps, RunShape, Indexing, atts
  <2>4. QED
    BY <2>2, <2>3
<1>15. ASSUME NEW w \in Worker, Index(w) \/ Reindex(w)
       PROVE  StoreTypeOK'
  BY <1>15 DEF Index, Reindex, IndexTarget, StoreTypeOK, RunShape, Indexing
<1>16. ASSUME NEW w \in Worker, Index(w)
       PROVE  TypeInv'
  BY <1>0, <1>15, <1>16 DEF Index, GoTo, Steps, RunShape, Indexing, atts
<1>17. ASSUME NEW w \in Worker, Reindex(w)
       PROVE  TypeInv'
  BY <1>5, <1>15, <1>17 DEF Reindex
<1>18. ASSUME NEW w \in Worker, Announce(w)
       PROVE  TypeInv'
  <2>1. announced' \subseteq Id
    BY <1>18 DEF Announce, RunShape, Indexing, RowRef
  <2>2. QED
    BY <1>5, <1>6, <1>18, <2>1 DEF Announce
<1>19. ASSUME NEW w \in Worker, StoreFails(w) \/ DatabaseFails(w)
       PROVE  TypeInv'
  BY <1>5, <1>6, <1>19 DEF StoreFails, DatabaseFails
<1>20. ASSUME NEW w \in Worker, CommitUnanswered(w)
       PROVE  TypeInv'
  BY <1>5, <1>20, CommittedType DEF CommitUnanswered
<1>21. ASSUME NEW w \in Worker, DeadlockVictim(w) \/ WorkerEnds(w)
       PROVE  TypeInv'
  BY <1>0, <1>21, RollbackType, ForgetRunType DEF DeadlockVictim, WorkerEnds, ProcessEnds
<1>22. QED
  BY <1>1, <1>2, <1>3, <1>4, <1>7, <1>8, <1>9, <1>10, <1>11, <1>12, <1>13, <1>14, <1>16,
     <1>17, <1>18, <1>19, <1>20, <1>21 DEF PipelineNext, PipelineStep, PipelineFault

\* A step of process() leaves the job alone and never goes back to "idle"
\* without ending the handler call; only Begin starts one.
LEMMA RunOfJobStep ==
  ASSUME RunInv, [PipelineNext]_pipelineVars
  PROVE  RunOfJob'
<1> USE DEF RunInv, TypeInv, PipelineTypeOK, QueueTypeOK
<1> DEFINE Over(v) == step'[v] = "idle" /\ outcome'[v] # "running"
           GoesOn(v) == /\ step[v] # "idle" /\ step'[v] # "idle" /\ outcome'[v] = "running"
                        /\ job'[v] = job[v] /\ raw'[v] = raw[v]
           Started(v) == /\ step'[v] # "idle" /\ outcome'[v] = "running"
                         /\ raw'[v] = body'[job'[v]]
<1>1. SUFFICES ASSUME NEW v \in Worker
               PROVE  Over(v) \/ GoesOn(v) \/ Started(v)
  <2>1. ASSUME NEW v \in Worker, GoesOn(v) PROVE Started(v)
    <3>1. job[v] \in Copy /\ place[job[v]] # "unsent"
      BY <2>1 DEF RunOfJob, QueueInv, CopiesCarryMails
    <3>2. body'[job[v]] = body[job[v]]
      BY <3>1, BodyIsFixed, PipelineStepIsQueueStep
    <3>3. QED
      BY <2>1, <3>2 DEF RunOfJob
  <2>2. QED
    BY <2>1 DEF RunOfJob
<1>2. CASE step[v] = "idle" /\ step'[v] = "idle" /\ outcome'[v] = outcome[v]
  BY <1>2 DEF RunOfJob
<1>3. ASSUME step'[v] = step[v], outcome'[v] = outcome[v], job'[v] = job[v], raw'[v] = raw[v]
      PROVE  Over(v) \/ GoesOn(v)
  BY <1>3 DEF RunOfJob
<1>4. CASE UNCHANGED pipelineVars
  BY <1>3, <1>4 DEF pipelineVars, queueVars, runVars
<1>5. CASE QueueStep /\ UNCHANGED <<runVars, announced, storeVars>>
  <2>1. CASE outcome'[v] = outcome[v] /\ job'[v] = job[v]
    BY <1>3, <1>5, <2>1 DEF runVars
  <2>2. CASE \E w \in Worker : Ack(w) \/ RejectAndRequeue(w) \/ DeadLetter(w)
    <3>1. PICK w \in Worker : Ack(w) \/ RejectAndRequeue(w) \/ DeadLetter(w)
      BY <2>2
    <3>2. outcome[w] # "running" /\ outcome'[w] # "running"
      BY <3>1 DEF Ack, RejectAndRequeue, DeadLetter, FinishJob
    <3>3. v # w => outcome'[v] = outcome[v] /\ job'[v] = job[v]
      BY <3>1 DEF Ack, RejectAndRequeue, DeadLetter, FinishJob
    <3>4. QED
      BY <1>3, <1>5, <3>2, <3>3 DEF runVars, RunOfJob
  <2>3. QED
    BY <1>5, <2>1, <2>2
       DEF QueueStep, HandleDataAccepts, HandleDataUnconfirmed, ReplayGet, ReplayPublish,
       ReplayAck, ReplayAborts, DlqPurge, Deliver, ChannelLost
<1>6. CASE Tick /\ UNCHANGED <<runVars, announced, queueVars>>
  BY <1>3, <1>6 DEF queueVars, runVars
<1>7. ASSUME NEW w \in Worker, NEW c \in Copy, Begin(w, c)
      PROVE  Over(v) \/ GoesOn(v) \/ Started(v)
  BY <1>3, <1>7 DEF Begin, Take, GoTo
<1>8. ASSUME NEW w \in Worker, NEW r \in {"ok", "transient", "error"}, ProcessEnds(w, r)
      PROVE  Over(v) \/ GoesOn(v)
  BY <1>3, <1>8 DEF ProcessEnds, HandlerEnds, ForgetRun
<1>9. ASSUME NEW w \in Worker, NEW s, GoTo(w, s), step[w] # "idle", s # "idle",
             UNCHANGED <<raw, queueVars>>
      PROVE  Over(v) \/ GoesOn(v)
  BY <1>3, <1>9 DEF GoTo, queueVars, RunOfJob
<1>10. ASSUME NEW w \in Worker, PipelineStep(w)
       PROVE  Over(v) \/ GoesOn(v)
  BY <1>8, <1>9, <1>10
     DEF PipelineStep, ParseRaises, Precheck, PutBody, PutAttachment, Upsert, Commit,
     CommitConflict, Recheck, Index, Reindex, Announce, DeadlockVictim, AfterAttachments
<1>11. ASSUME NEW w \in Worker, PipelineFault(w)
       PROVE  Over(v) \/ GoesOn(v)
  BY <1>8, <1>11 DEF PipelineFault, StoreFails, DatabaseFails, CommitUnanswered
<1>12. ASSUME NEW w \in Worker, WorkerEnds(w)
       PROVE  Over(v) \/ GoesOn(v)
  BY <1>3, <1>12 DEF WorkerEnds, WorkerStops, FinishJob, ForgetRun
<1>13. QED
  BY <1>4, <1>5, <1>6, <1>7, <1>10, <1>11, <1>12 DEF PipelineNext

\* What a step makes of a call of process(): it stays where it is, ends, begins,
\* or goes on by one of its own actions.
LEMMA RunStep ==
  ASSUME TypeInv, [PipelineNext]_pipelineVars, NEW v \in Worker
  PROVE  \/ UNCHANGED <<step[v], raw[v], nextAtt[v], target[v]>>
         \/ step'[v] = "idle"
         \/ step'[v] = "precheck"
         \/ Precheck(v) \/ PutBody(v) \/ PutAttachment(v) \/ Upsert(v) \/ Commit(v)
         \/ CommitConflict(v) \/ Recheck(v) \/ Index(v)
<1> USE DEF TypeInv, PipelineTypeOK
<1> DEFINE Stays == UNCHANGED <<step[v], raw[v], nextAtt[v], target[v]>>
           Ends == step'[v] = "idle"
           GoesOn(w) == \/ Precheck(w) \/ PutBody(w) \/ PutAttachment(w) \/ Upsert(w)
                        \/ Commit(w) \/ CommitConflict(w) \/ Recheck(w) \/ Index(w)
<1>1. ASSUME UNCHANGED runVars PROVE Stays
  BY <1>1 DEF runVars
<1>2. ASSUME NEW w \in Worker, ForgetRun(w) PROVE Stays \/ Ends
  BY <1>2 DEF ForgetRun
<1>3. ASSUME NEW w \in Worker, NEW c \in Copy, Begin(w, c)
      PROVE  Stays \/ step'[v] = "precheck"
  BY <1>3 DEF Begin, GoTo
<1>4. ASSUME NEW w \in Worker, w # v, GoesOn(w)
      PROVE  Stays \/ Ends
  <2>1. CASE ForgetRun(w)
    BY <1>2, <2>1
  <2>2. CASE ~ForgetRun(w)
    BY <1>4, <2>2
       DEF Precheck, PutBody, PutAttachment, Upsert, Commit, CommitConflict, Recheck, Index,
       ProcessEnds, GoTo
  <2>3. QED
    BY <2>1, <2>2
<1>5. ASSUME NEW w \in Worker,
             \/ ParseRaises(w) \/ Reindex(w) \/ Announce(w) \/ DeadlockVictim(w)
             \/ PipelineFault(w) \/ WorkerEnds(w)
      PROVE  Stays \/ Ends
  BY <1>2, <1>5
     DEF ParseRaises, Reindex, Announce, DeadlockVictim, PipelineFault, StoreFails,
     DatabaseFails, CommitUnanswered, ProcessEnds, WorkerEnds
<1>6. CASE UNCHANGED pipelineVars
  BY <1>1, <1>6 DEF pipelineVars
<1>7. CASE PipelineNext
  BY <1>1, <1>3, <1>4, <1>5, <1>7 DEF PipelineNext, PipelineStep
<1>8. QED
  BY <1>6, <1>7

\* What lets process() return normally.
LEMMA OkReason ==
  ASSUME QueueTypeOK, [PipelineNext]_pipelineVars,
         NEW w \in Worker, outcome[w] # "ok", outcome'[w] = "ok"
  PROVE  Reindex(w) \/ Announce(w) \/ (Recheck(w) /\ dedup[hash(w)] = NoRow)
<1> USE DEF QueueTypeOK
<1> DEFINE Goal == Reindex(w) \/ Announce(w) \/ (Recheck(w) /\ dedup[hash(w)] = NoRow)
<1>1. CASE UNCHANGED queueVars
  BY <1>1 DEF queueVars
<1>2. ~QueueStep
  BY DEF QueueStep, HandleDataAccepts, HandleDataUnconfirmed, ReplayGet, ReplayPublish,
     ReplayAck, ReplayAborts, DlqPurge, Deliver, ChannelLost, Ack, RejectAndRequeue,
     DeadLetter, FinishJob
<1>3. ASSUME NEW v \in Worker, (\E c \in Copy : Begin(v, c)) \/ WorkerEnds(v)
      PROVE  FALSE
  BY <1>3 DEF Begin, Take, WorkerEnds, WorkerStops, FinishJob
<1>4. ASSUME NEW v \in Worker, PipelineStep(v)
      PROVE  Goal \/ UNCHANGED queueVars
  <2>1. ASSUME NEW r, ProcessEnds(v, r) PROVE v = w /\ r = "ok"
    BY <2>1 DEF ProcessEnds, HandlerEnds
  <2>2. QED
    BY <1>4, <2>1
       DEF PipelineStep, ParseRaises, Precheck, PutBody, PutAttachment, Upsert, Commit,
       CommitConflict, Index, Reindex, Announce, Recheck, DeadlockVictim
<1>5. ASSUME NEW v \in Worker, PipelineFault(v)
      PROVE  FALSE
  BY <1>5 DEF PipelineFault, StoreFails, DatabaseFails, CommitUnanswered, ProcessEnds,
     HandlerEnds
<1>6. QED
  BY <1>1, <1>2, <1>3, <1>4, <1>5 DEF PipelineNext, pipelineVars

LEMMA RunInvInit == PipelineInit => RunInv
BY PipelineInitType, QueueInitInv DEF PipelineInit, RunInv, RunOfJob, QueueInit

LEMMA RunInvStep ==
  ASSUME RunInv, [PipelineNext]_pipelineVars
  PROVE  RunInv'
<1>1. QueueInv'
  BY PipelineStepIsQueueStep, QueueInvStep DEF RunInv
<1>2. QED
  BY <1>1, PipelineStepType, RunOfJobStep DEF RunInv

THEOREM RunInvHolds == PipelineSpec => []RunInv
BY RunInvInit, RunInvStep, PTL DEF PipelineSpec

\* Every variable of the pipeline keeps its type; above all no document and no
\* event is ever made of a row that is not known (`target` is set before).
THEOREM PipelineTypeCorrect == PipelineSpec => []PipelineTypeOK
<1>1. RunInv => PipelineTypeOK
  BY DEF RunInv, TypeInv
<1>2. QED
  BY <1>1, RunInvHolds, PTL
=============================================================================
