--------------------------- MODULE MailArchiveProofs ---------------------------
(* Proofs about MailArchive: what the nightly purge leaves true while mails *)
(* are archived.                                                           *)
EXTENDS MailArchive, PipelinePromiseProofs

(* A step is one of the pipeline or one of the purge                       *)

PurgeStepOf == /\ RetentionStep /\ CallsAreYounger
               /\ UNCHANGED <<runVars, announced, queueVars>>

LEMMA ArchiveSteps ==
  ASSUME [ArchiveNext]_archiveVars
  PROVE  \/ [PipelineNext]_pipelineVars /\ UNCHANGED retentionVars
         \/ PurgeStepOf
BY DEF ArchiveNext, archiveVars, PurgeStepOf

\* The purge leaves the queue alone: whatever MailQueue promises holds in the
\* archive as a whole.
THEOREM ArchiveImplementsQueue == ArchiveSpec => QueueSpec
<1>1. ArchiveInit => QueueInit
  BY DEF ArchiveInit, PipelineInit
<1>2. [ArchiveNext]_archiveVars => [QueueNext]_queueVars
  BY ArchiveSteps, PipelineStepIsQueueStep DEF PurgeStepOf
<1>3. QED
  BY <1>1, <1>2, PTL DEF ArchiveSpec, QueueSpec

\* The purge changes the tables when it commits, and never the calendar.
LEMMA PurgeTables ==
  ASSUME RetentionStep
  PROVE  /\ UNCHANGED <<nextId, today>>
         /\ PurgeCommits \/ UNCHANGED tables
BY DEF RetentionStep, RunStarts, DropOldIndices, SelectExpired, NextRow, CountDown,
   CollectAttachment, PurgeRow, PurgeCommits, PurgeFails, SetLegalHold, storeVars, tables

\* The pipeline leaves the calendar to midnight.
LEMMA CalendarStep ==
  ASSUME StoreTypeOK, [PipelineNext]_pipelineVars
  PROVE  today' \in Day /\ today <= today'
<1>1. CASE UNCHANGED today
  BY <1>1 DEF StoreTypeOK, Day
<1>2. CASE Tick
  BY <1>2, LastDayAssumption DEF Tick, StoreTypeOK, Day
<1>3. UNCHANGED today \/ Tick
  BY DEF pipelineVars, storeVars, PipelineNext, Begin, PipelineStep, PipelineFault,
     ParseRaises, Precheck, PutBody, PutAttachment, Upsert, Commit, Committed,
     CommitConflict, Recheck, Index, Reindex, IndexTarget, Announce, DeadlockVictim,
     StoreFails, DatabaseFails, CommitUnanswered, WorkerEnds, Rollback
<1>4. QED
  BY <1>1, <1>2, <1>3

-----------------------------------------------------------------------------
(* Types, and the rows a purge has selected                                *)

PurgeShape ==
  /\ purgeStep \in {"idle", "drop", "select"} => todo = {} /\ done = {} /\ collected = {}
  /\ purgeStep \in {"count", "blob"} => purging \in messages
  /\ purgeStep = "blob" => att \in Attachment
  /\ ranOn <= today

\* The rows of the run under way: to be purged, being purged, deleted and not
\* committed.
Selected == todo \cup done \cup (IF purgeStep \in {"count", "blob"} THEN {purging} ELSE {})

\* They are rows of the table, and past their retention.
SelectedAreExpired ==
  \A row \in Selected : row \in messages /\ row.day + RetentionDays <= ranOn

PurgeInv == RunInv /\ RetentionTypeOK /\ PurgeShape /\ SelectedAreExpired

\* Rows, entries, ids, links and counters.
ArchiveTables == IdsAreFresh /\ IdsAreUnique /\ CountersAreExact /\ DedupIsExact

TablesArchived == PurgeInv /\ ArchiveTables

\* The links of an attachment that a purge deletes with their messages, and the
\* others.
LinksGone(a) == {l \in links : l[1] \in IdsDone /\ l[2] = a}
LinksLeft(a) == {l \in links : l[1] \notin IdsDone /\ l[2] = a}

\* What the purge's COMMIT subtracts from a counter leaves the links that stay.
LEMMA LinksOfPurged ==
  ASSUME CountersAreExact, NEW a \in Attachment
  PROVE  /\ IsFiniteSet(LinksLeft(a))
         /\ Cardinality(LinksLeft(a)) \in Nat
         /\ refs[a] - Cardinality(LinksGone(a)) = Cardinality(LinksLeft(a))
<1>1. IsFiniteSet(LinksOf(a)) /\ refs[a] = Cardinality(LinksOf(a))
  BY DEF CountersAreExact
<1>2. LinksGone(a) \subseteq LinksOf(a) /\ LinksLeft(a) = LinksOf(a) \ LinksGone(a)
  BY DEF LinksOf, LinksGone, LinksLeft
<1>3. LinksOf(a) \cap LinksGone(a) = LinksGone(a)
  BY <1>2
<1>4. IsFiniteSet(LinksLeft(a))
  BY <1>1, <1>2, FS_Subset
<1>5. Cardinality(LinksLeft(a)) = Cardinality(LinksOf(a)) - Cardinality(LinksGone(a))
  <2>1. Cardinality(LinksOf(a) \ LinksGone(a))
          = Cardinality(LinksOf(a)) - Cardinality(LinksOf(a) \cap LinksGone(a))
    BY <1>1, FS_Difference
  <2>2. QED
    BY <1>2, <1>3, <2>1
<1>6. Cardinality(LinksLeft(a)) \in Nat
  BY <1>4, FS_CardinalityType
<1>7. QED
  BY <1>1, <1>4, <1>5, <1>6

\* The purge keeps all types; a counter does not become negative.
LEMMA PurgeTypes ==
  ASSUME PurgeInv, CountersAreExact, RetentionStep
  PROVE  StoreTypeOK' /\ RetentionTypeOK'
<1> USE DEF PurgeInv, RunInv, TypeInv, PipelineTypeOK, StoreTypeOK, RetentionTypeOK,
        PurgeSteps
<1>1. CASE RunStarts
  BY <1>1 DEF RunStarts, storeVars, runOfPurge
<1>2. CASE DropOldIndices
  BY <1>2 DEF DropOldIndices, runOfPurge
<1>3. CASE SelectExpired
  BY <1>3 DEF SelectExpired, storeVars
<1>4. CASE NextRow
  BY <1>4 DEF NextRow, storeVars
<1>5. ASSUME NEW a \in Attachment, CountDown(a)
      PROVE  StoreTypeOK' /\ RetentionTypeOK'
  BY <1>5 DEF CountDown
<1>6. CASE CollectAttachment
  BY <1>6 DEF CollectAttachment, PurgeShape
<1>7. CASE PurgeRow
  BY <1>7 DEF PurgeRow, PurgeShape, MessageRow
<1>8. ASSUME ForgetPurge, UNCHANGED ranOn, onHold' \subseteq onHold
      PROVE  RetentionTypeOK'
  BY <1>8 DEF ForgetPurge
<1>9. ASSUME ReleaseLocks(Purger)
      PROVE  rowLock' \in [Attachment -> Worker \cup {Purger, NoWorker}]
  BY <1>9 DEF ReleaseLocks
<1>10. CASE PurgeCommits
  <2>1. \A a \in Attachment : refs[a] - Cardinality(LinksGone(a)) \in Nat
    BY LinksOfPurged
  <2>2. refs' \in [Attachment -> Nat]
    BY <1>10, <2>1 DEF PurgeCommits, LinksGone
  <2>3. dedup' \in [Hash -> RowRef \cup {NoRow}]
    BY <1>10 DEF PurgeCommits
  <2>4. messages' \subseteq MessageRow /\ links' \subseteq Id \X Attachment
    BY <1>10 DEF PurgeCommits
  <2>5. QED
    BY <1>8, <1>9, <1>10, <2>2, <2>3, <2>4 DEF PurgeCommits
<1>11. CASE PurgeFails
  BY <1>8, <1>9, <1>11 DEF PurgeFails
<1>12. ASSUME NEW r \in messages, SetLegalHold(r)
       PROVE  StoreTypeOK' /\ RetentionTypeOK'
  <2>1. r.id \in Id
    BY <1>12, RefOfType
  <2>2. QED
    BY <1>12, <2>1 DEF SetLegalHold, storeVars, runOfPurge
<1>13. QED
  BY <1>1, <1>2, <1>3, <1>4, <1>5, <1>6, <1>7, <1>10, <1>11, <1>12 DEF RetentionStep

\* What it has selected are rows past their retention, until they go together.
LEMMA SelectedStep ==
  ASSUME PurgeInv, RetentionStep
  PROVE  PurgeShape' /\ SelectedAreExpired'
<1> USE DEF PurgeInv, PurgeShape, SelectedAreExpired, Selected
<1>1. /\ messages \subseteq MessageRow /\ today \in Nat /\ ranOn \in Nat
      /\ RetentionDays \in Nat /\ \A row \in messages : row.day \in Nat
  BY RetentionAssumption
     DEF RunInv, TypeInv, PipelineTypeOK, StoreTypeOK, RetentionTypeOK, Day, MessageRow
<1>2. CASE RunStarts
  BY <1>1, <1>2 DEF RunStarts, storeVars, runOfPurge
<1>3. CASE DropOldIndices
  BY <1>3 DEF DropOldIndices, runOfPurge
<1>4. CASE SelectExpired
  <2>1. todo' \subseteq {r \in messages : BeforeCutoffDay(r.day) \/ OnCutoffDay(r.day)}
    BY <1>4 DEF SelectExpired
  <2>2. \A r \in todo' : r \in messages /\ r.day + RetentionDays <= ranOn
    BY <1>1, <2>1 DEF BeforeCutoffDay, OnCutoffDay
  <2>3. QED
    BY <1>4, <2>2 DEF SelectExpired, storeVars
<1>5. CASE NextRow
  BY <1>5 DEF NextRow, storeVars
<1>6. ASSUME NEW a \in Attachment, CountDown(a)
      PROVE  PurgeShape' /\ SelectedAreExpired'
  BY <1>6 DEF CountDown
<1>7. CASE CollectAttachment
  BY <1>7 DEF CollectAttachment
<1>8. CASE PurgeRow
  BY <1>8 DEF PurgeRow
<1>9. CASE PurgeCommits \/ PurgeFails
  BY <1>9 DEF PurgeCommits, PurgeFails, ForgetPurge
<1>10. ASSUME NEW r \in messages, SetLegalHold(r)
       PROVE  PurgeShape' /\ SelectedAreExpired'
  BY <1>10 DEF SetLegalHold, storeVars, runOfPurge
<1>11. QED
  BY <1>2, <1>3, <1>4, <1>5, <1>6, <1>7, <1>8, <1>9, <1>10 DEF RetentionStep

LEMMA PurgeInvStep ==
  ASSUME TablesArchived, [ArchiveNext]_archiveVars
  PROVE  PurgeInv'
<1> USE DEF TablesArchived, ArchiveTables, PurgeInv
<1>1. CASE [PipelineNext]_pipelineVars /\ UNCHANGED retentionVars
  <2>1. RunInv'
    BY <1>1, RunInvStep
  <2>2. messages \subseteq messages' /\ today <= today' /\ today \in Nat /\ today' \in Nat
    BY <1>1, StoresOnlyGrow, CalendarStep
       DEF RunInv, TypeInv, PipelineTypeOK, StoreTypeOK, Day
  <2>3. RetentionTypeOK'
    BY <1>1 DEF retentionVars, runOfPurge, RetentionTypeOK
  <2>4. PurgeShape' /\ SelectedAreExpired'
    BY <1>1, <2>2
       DEF retentionVars, runOfPurge, PurgeShape, SelectedAreExpired, Selected,
       RetentionTypeOK, Day
  <2>5. QED
    BY <2>1, <2>3, <2>4
<1>2. CASE PurgeStepOf
  <2>1. StoreTypeOK' /\ RetentionTypeOK'
    BY <1>2, PurgeTypes DEF PurgeStepOf
  <2>2. RunInv'
    BY <1>2, <2>1
       DEF PurgeStepOf, RunInv, QueueInv, TypeInv, RunOfJob, PipelineTypeOK, RunShape, runVars,
       queueVars, QueueTypeOK, SettlerOwnsCopy, HeldBy, CopiesCarryMails, atts
  <2>3. PurgeShape' /\ SelectedAreExpired'
    BY <1>2, SelectedStep DEF PurgeStepOf
  <2>4. QED
    BY <2>1, <2>2, <2>3
<1>3. QED
  BY <1>1, <1>2, ArchiveSteps

LEMMA CalendarTypes ==
  ASSUME PurgeInv
  PROVE  /\ today \in Nat /\ ranOn \in Nat /\ RetentionDays \in Nat
         /\ \A row \in messages : row \in MessageRow /\ row.day \in Nat
         /\ \A ref \in RowRef : ref.day \in Nat
BY RetentionAssumption
   DEF PurgeInv, RunInv, TypeInv, PipelineTypeOK, StoreTypeOK, RetentionTypeOK, Day,
   MessageRow, RowRef

-----------------------------------------------------------------------------
(* The tables                                                              *)

\* At its COMMIT the purge is left with the rows it has deleted, each of which
\* is known by its fingerprint alone.
LEMMA DoneAtCommit ==
  ASSUME TablesArchived, PurgeCommits
  PROVE  /\ done \subseteq messages /\ messages \subseteq MessageRow
         /\ \A row \in messages : row.hash \in HashesDone => row \in done
         /\ \A row \in messages : row.id \in IdsDone => row \in done
<1> USE DEF TablesArchived, ArchiveTables, PurgeInv
<1>1. done \subseteq messages
  BY DEF SelectedAreExpired, Selected
<1>2. messages \subseteq MessageRow
  BY DEF RunInv, TypeInv, PipelineTypeOK, StoreTypeOK
<1>3. ASSUME NEW row \in messages, row.hash \in HashesDone
      PROVE  row \in done
  <2>1. PICK r \in done : r.hash = row.hash
    BY <1>3 DEF HashesDone
  <2>2. RefOf(r) = RefOf(row)
    BY <1>1, <2>1 DEF DedupIsExact
  <2>3. r.id = row.id
    BY <2>2 DEF RefOf
  <2>4. QED
    BY <1>1, <2>1, <2>3 DEF IdsAreUnique
<1>4. ASSUME NEW row \in messages, row.id \in IdsDone
      PROVE  row \in done
  BY <1>1, <1>4 DEF IdsDone, IdsAreUnique
<1>5. QED
  BY <1>1, <1>2, <1>3, <1>4

LEMMA PurgeTablesStep ==
  ASSUME TablesArchived, RetentionStep
  PROVE  ArchiveTables'
<1> USE DEF TablesArchived, ArchiveTables
<1>1. CASE UNCHANGED tables
  BY <1>1
     DEF tables, IdsAreFresh, IdsAreUnique, CountersAreExact, LinksOf, DedupIsExact
<1>2. CASE PurgeCommits
  <2>1. messages' = messages \ done /\ links' \subseteq links /\ nextId' = nextId
    BY <1>2 DEF PurgeCommits
  <2>2. IdsAreFresh' /\ IdsAreUnique'
    BY <2>1 DEF IdsAreFresh, IdsAreUnique
  <2>3. dedup' = [h \in Hash |-> IF h \in HashesDone THEN NoRow ELSE dedup[h]]
    BY <1>2 DEF PurgeCommits
  <2>4. ASSUME NEW row \in messages'
        PROVE  dedup'[row.hash] = RefOf(row)
    <3>1. row \in messages /\ row.hash \in Hash /\ row.hash \notin HashesDone
      BY <1>2, <2>1, <2>4, DoneAtCommit, RefOfType
    <3>2. QED
      BY <2>3, <3>1 DEF DedupIsExact
  <2>5. ASSUME NEW h \in Hash, dedup'[h] # NoRow
        PROVE  \E row \in messages' : row.hash = h /\ RefOf(row) = dedup'[h]
    <3>1. h \notin HashesDone /\ dedup'[h] = dedup[h]
      BY <2>3, <2>5
    <3>2. PICK row \in messages : row.hash = h /\ RefOf(row) = dedup[h]
      BY <2>5, <3>1 DEF DedupIsExact
    <3>3. row \notin done
      BY <3>1, <3>2 DEF HashesDone
    <3>4. QED
      BY <2>1, <3>1, <3>2, <3>3
  <2>6. DedupIsExact'
    BY <2>4, <2>5 DEF DedupIsExact
  <2>7. ASSUME NEW a \in Attachment
        PROVE  IsFiniteSet(LinksOf(a)') /\ refs'[a] = Cardinality(LinksOf(a)')
    <3>1. CASE a \in collected
      <4>1. LinksOf(a)' = {} /\ refs'[a] = 0
        BY <1>2, <3>1 DEF PurgeCommits, LinksOf
      <4>2. QED
        BY <4>1, FS_EmptySet
    <3>2. CASE a \notin collected
      <4>1. LinksOf(a)' = LinksLeft(a)
        BY <1>2, <3>2 DEF PurgeCommits, LinksOf, LinksLeft
      <4>2. refs'[a] = refs[a] - Cardinality(LinksGone(a))
        BY <1>2, <3>2 DEF PurgeCommits, LinksGone
      <4>3. QED
        BY <4>1, <4>2, LinksOfPurged
    <3>3. QED
      BY <3>1, <3>2
  <2>8. QED
    BY <2>2, <2>6, <2>7 DEF CountersAreExact
<1>3. QED
  BY <1>1, <1>2, PurgeTables

LEMMA TablesArchivedStep ==
  ASSUME TablesArchived, [ArchiveNext]_archiveVars
  PROVE  TablesArchived'
<1>1. PurgeInv'
  BY PurgeInvStep
<1>2. CASE [PipelineNext]_pipelineVars /\ UNCHANGED retentionVars
  <2>1. ArchiveTables'
    BY <1>2, IdsStep, IdsUniqueStep, CountersStep, DedupStep
       DEF TablesArchived, ArchiveTables, PurgeInv
  <2>2. QED
    BY <1>1, <2>1 DEF TablesArchived
<1>3. CASE PurgeStepOf
  BY <1>1, <1>3, PurgeTablesStep DEF PurgeStepOf, TablesArchived
<1>4. QED
  BY <1>2, <1>3, ArchiveSteps

LEMMA TablesArchivedHolds == ArchiveSpec => []TablesArchived
<1>1. ASSUME ArchiveInit PROVE TablesArchived
  <2>1. RunInv
    BY <1>1, RunInvInit DEF ArchiveInit
  <2>2. RetentionTypeOK
    BY <1>1, LastDayAssumption
       DEF ArchiveInit, RetentionInit, RetentionTypeOK, PurgeSteps, Day
  <2>3. PurgeShape /\ SelectedAreExpired
    BY <1>1 DEF ArchiveInit, RetentionInit, PipelineInit, StoreInit, PurgeShape,
       SelectedAreExpired, Selected
  <2>4. ArchiveTables
    BY <1>1, FS_EmptySet
       DEF ArchiveInit, PipelineInit, StoreInit, ArchiveTables, IdsAreFresh, IdsAreUnique,
       CountersAreExact, LinksOf, DedupIsExact
  <2>5. QED
    BY <2>1, <2>2, <2>3, <2>4 DEF TablesArchived, PurgeInv
<1>2. TablesArchived /\ [ArchiveNext]_archiveVars => TablesArchived'
  BY TablesArchivedStep
<1>3. QED
  BY <1>1, <1>2, PTL DEF ArchiveSpec

\* Every variable of pipeline and purge keeps its type: a counter never becomes
\* negative, and the purge never acts on a row or attachment it does not have.
THEOREM ArchiveTypeCorrect == ArchiveSpec => []ArchiveTypeOK
<1>1. TablesArchived => ArchiveTypeOK
  BY DEF TablesArchived, PurgeInv, RunInv, TypeInv, ArchiveTypeOK
<1>2. QED
  BY <1>1, TablesArchivedHolds, PTL

\* Entries go with their rows, whatever is archived during a purge and however
\* many purges fail: a purged mail can be archived again, and only then.
THEOREM DedupArchived == ArchiveSpec => []DedupIsExact
<1>1. TablesArchived => DedupIsExact
  BY DEF TablesArchived, ArchiveTables
<1>2. QED
  BY <1>1, TablesArchivedHolds, PTL

\* The counters stay exact under commits of workers and of the purge.
THEOREM RefCountArchived == ArchiveSpec => []RefCountIsExact
<1>1. TablesArchived => RefCountIsExact
  BY DEF TablesArchived, ArchiveTables, CountersAreExact, LinksOf, RefCountIsExact
<1>2. QED
  BY <1>1, TablesArchivedHolds, PTL

\* No message leaves the table before its retention has run out: not by the
\* cutoff's own day, not for a copy of the mail that is processed meanwhile.
NothingRetainedIsPurged ==
  [][\A row \in messages : Retained(row) => row \in messages']_archiveVars

THEOREM PurgeCorrect == ArchiveSpec => NothingRetainedIsPurged
<1>1. ASSUME TablesArchived, [ArchiveNext]_archiveVars, NEW row \in messages, Retained(row)
      PROVE  row \in messages'
  <2>1. CASE [PipelineNext]_pipelineVars
    BY <1>1, <2>1, StoresOnlyGrow DEF TablesArchived, PurgeInv
  <2>2. CASE PurgeStepOf
    <3>1. row \notin done
      <4>1. row.day \in Nat /\ RetentionDays \in Nat /\ ranOn \in Nat /\ today \in Nat
        BY <1>1, RetentionAssumption
           DEF TablesArchived, PurgeInv, RunInv, TypeInv, PipelineTypeOK, StoreTypeOK,
           RetentionTypeOK, Day, MessageRow
      <4>2. QED
        BY <1>1, <4>1 DEF TablesArchived, PurgeInv, SelectedAreExpired, Selected, PurgeShape,
           Retained
    <3>2. QED
      BY <2>2, <3>1, PurgeTables DEF PurgeStepOf, PurgeCommits, tables
  <2>3. QED
    BY <1>1, <2>1, <2>2, ArchiveSteps
<1>2. TablesArchived /\ [ArchiveNext]_archiveVars
        => [\A row \in messages : Retained(row) => row \in messages']_archiveVars
  BY <1>1
<1>3. QED
  BY <1>2, TablesArchivedHolds, PTL DEF ArchiveSpec, NothingRetainedIsPurged

\* What is true of HeldMessagesAreKept: a message that is on hold before the
\* purge selects it is neither selected nor deleted, whatever the purge does.
HeldInTimeIsKept ==
  [][\A row \in messages \ Selected : row.id \in onHold =>
       row \in messages' /\ row \notin Selected']_archiveVars

THEOREM HoldsAreInTime == ArchiveSpec => HeldInTimeIsKept
<1>1. ASSUME TablesArchived, [ArchiveNext]_archiveVars,
             NEW row \in messages \ Selected, row.id \in onHold
      PROVE  row \in messages' /\ row \notin Selected'
  <2>1. CASE [PipelineNext]_pipelineVars /\ UNCHANGED retentionVars
    BY <1>1, <2>1, StoresOnlyGrow
       DEF TablesArchived, PurgeInv, Selected, retentionVars, runOfPurge
  <2>2. CASE PurgeStepOf
    <3>1. row \in messages'
      BY <1>1, <2>2, PurgeTables DEF PurgeStepOf, PurgeCommits, tables, Selected
    <3>2. row \notin Selected'
      BY <1>1, <2>2
         DEF PurgeStepOf, RetentionStep, RunStarts, DropOldIndices, SelectExpired, NextRow,
         CountDown, CollectAttachment, PurgeRow, PurgeCommits, PurgeFails, SetLegalHold,
         ForgetPurge, runOfPurge, Selected, TablesArchived, PurgeInv, PurgeShape
    <3>3. QED
      BY <3>1, <3>2
  <2>3. QED
    BY <1>1, <2>1, <2>2, ArchiveSteps
<1>2. TablesArchived /\ [ArchiveNext]_archiveVars
        => [\A row \in messages \ Selected : row.id \in onHold =>
              row \in messages' /\ row \notin Selected']_archiveVars
  BY <1>1
<1>3. QED
  BY <1>2, TablesArchivedHolds, PTL DEF ArchiveSpec, HeldInTimeIsKept

-----------------------------------------------------------------------------
(* Locks                                                                   *)

\* A purge that is over, failed or not, has no attachment row locked.
PurgeLeavesNoLock ==
  purgeStep \in {"idle", "drop", "select"} => LockedBy(Purger) = {}

\* Workers neither take nor release the purge's locks.
LEMMA PurgerLocksStep ==
  ASSUME TypeInv, [PipelineNext]_pipelineVars
  PROVE  LockedBy(Purger)' = LockedBy(Purger)
<1> USE DEF TypeInv, PipelineTypeOK, StoreTypeOK, LockedBy
<1>1. CASE UNCHANGED rowLock
  BY <1>1
<1>2. ASSUME NEW w \in Worker, ReleaseLocks(w)
      PROVE  LockedBy(Purger)' = LockedBy(Purger)
  BY <1>2, SharedNullAssumption DEF ReleaseLocks
<1>3. ASSUME NEW w \in Worker, Upsert(w)
      PROVE  LockedBy(Purger)' = LockedBy(Purger)
  BY <1>3, SharedNullAssumption DEF Upsert
<1>4. ASSUME NEW w \in Worker, PipelineStep(w) \/ PipelineFault(w) \/ WorkerEnds(w)
      PROVE  UNCHANGED rowLock \/ ReleaseLocks(w) \/ Upsert(w)
  BY <1>4
     DEF PipelineStep, PipelineFault, ParseRaises, Precheck, PutBody, PutAttachment,
     Commit, Committed, CommitConflict, Recheck, Index, Reindex, IndexTarget, Announce,
     DeadlockVictim, StoreFails, DatabaseFails, CommitUnanswered, WorkerEnds, Rollback,
     storeVars
<1>5. QED
  BY <1>1, <1>2, <1>3, <1>4 DEF PipelineNext, pipelineVars, storeVars, Tick, Begin

\* The purge takes and releases its own.
LEMMA PurgeLocksStep ==
  ASSUME TypeInv, RetentionStep
  PROVE  /\ \A w \in Worker : LockedBy(w)' = LockedBy(w)
         /\ PurgeLeavesNoLock => PurgeLeavesNoLock'
<1> USE DEF TypeInv, PipelineTypeOK, StoreTypeOK, LockedBy, PurgeLeavesNoLock
<1> DEFINE Goal == /\ \A w \in Worker : LockedBy(w)' = LockedBy(w)
                   /\ PurgeLeavesNoLock => PurgeLeavesNoLock'
<1>1. ASSUME UNCHANGED rowLock, purgeStep \in {"idle", "drop", "select"} \/ UNCHANGED purgeStep
             \/ purgeStep' \in {"row", "count", "blob"}
      PROVE  Goal
  BY <1>1
<1>2. ASSUME NEW a \in Attachment, CountDown(a) PROVE Goal
  BY <1>2, SharedNullAssumption DEF CountDown
<1>3. CASE PurgeCommits \/ PurgeFails
  BY <1>3, SharedNullAssumption DEF PurgeCommits, PurgeFails, ReleaseLocks
<1>4. QED
  BY <1>1, <1>2, <1>3
     DEF RetentionStep, RunStarts, DropOldIndices, SelectExpired, NextRow, CollectAttachment,
     PurgeRow, SetLegalHold, storeVars, runOfPurge

LocksArchived == CommitShape /\ LocksBelongToTransactions /\ PurgeLeavesNoLock

LEMMA LocksArchivedStep ==
  ASSUME RunInv, LocksArchived, [ArchiveNext]_archiveVars
  PROVE  LocksArchived'
<1>1. CASE [PipelineNext]_pipelineVars /\ UNCHANGED retentionVars
  BY <1>1, CommitShapeStep, LocksStep, PurgerLocksStep
     DEF LocksArchived, RunInv, PurgeLeavesNoLock, retentionVars
<1>2. CASE PurgeStepOf
  <2>1. CommitShape' /\ (\A w \in Worker : LockedBy(w)' = LockedBy(w)) /\ PurgeLeavesNoLock'
    BY <1>2, PurgeLocksStep DEF PurgeStepOf, RunInv, LocksArchived, CommitShape, runVars, atts
  <2>2. QED
    BY <1>2, <2>1 DEF PurgeStepOf, LocksArchived, LocksBelongToTransactions, runVars, atts
<1>3. QED
  BY <1>1, <1>2, ArchiveSteps

LEMMA LocksArchivedHolds == ArchiveSpec => []LocksArchived
<1>1. ArchiveInit => LocksArchived
  BY SharedNullAssumption
     DEF ArchiveInit, PipelineInit, StoreInit, LocksArchived, CommitShape,
     LocksBelongToTransactions, PurgeLeavesNoLock, LockedBy
<1>2. TablesArchived /\ LocksArchived /\ [ArchiveNext]_archiveVars => LocksArchived'
  BY LocksArchivedStep DEF TablesArchived, PurgeInv
<1>3. QED
  BY <1>1, <1>2, TablesArchivedHolds, PTL DEF ArchiveSpec

\* Neither a call of process() nor a purge that is over leaves a row locked:
\* workers and purge wait for each other only while both are at work.
THEOREM LocksArchivedCorrect ==
  ArchiveSpec => []LocksBelongToTransactions /\ []PurgeLeavesNoLock
<1>1. LocksArchived => LocksBelongToTransactions /\ PurgeLeavesNoLock
  BY DEF LocksArchived
<1>2. QED
  BY <1>1, LocksArchivedHolds, PTL

-----------------------------------------------------------------------------
(* Counting down: when OnlyOrphansAreCollected holds                       *)

\* No mail is committed between the selection of a purge and its COMMIT.
PurgeIsAlone ==
  purgeStep \in {"row", "count", "blob"} => \A w \in Worker : step[w] # "commit"

\* The run has a row in hand, and is through with its links to this attachment.
CountedOf(a) == IF purgeStep \in {"count", "blob"} /\ a \notin attsLeft THEN {purging.id} ELSE {}

\* The links of an attachment that the run has not counted down.
Uncounted(a) == {l \in LinksOf(a) : l[1] \notin IdsDone \cup CountedOf(a)}

\* The counters in the purge's session are those of the table less what it has
\* counted down, and it takes each row once.
SessionCounts ==
  purgeStep \in {"row", "count", "blob"} =>
    /\ \A a \in Attachment : counted[a] = Cardinality(Uncounted(a))
    /\ \A a \in collected : Uncounted(a) = {}
    /\ purgeStep = "blob" => Uncounted(att) = {}
    /\ todo \cap done = {}
    /\ purgeStep # "row" =>
         /\ purging \notin todo \cup done
         /\ \A a \in attsLeft : <<purging.id, a>> \in links

SessionInv == SessionCounts /\ LinksAreComplete

\* A step that leaves links and the run's progress alone.
LEMMA SessionKept ==
  ASSUME SessionCounts,
         UNCHANGED <<links, purgeStep, todo, done, purging, attsLeft, att, counted, collected>>
  PROVE  SessionCounts'
BY DEF SessionCounts, Uncounted, LinksOf, IdsDone, CountedOf

LEMMA CountDownStep ==
  ASSUME TablesArchived, SessionCounts, NEW a \in Attachment, CountDown(a)
  PROVE  SessionCounts'
<1> USE DEF TablesArchived, PurgeInv, ArchiveTables
<1> DEFINE link == <<purging.id, a>>
<1>1. /\ purgeStep = "count" /\ purgeStep' \in {"count", "blob"} /\ a \in attsLeft
      /\ attsLeft' = attsLeft \ {a}
      /\ UNCHANGED <<links, todo, done, purging, collected>>
  BY DEF CountDown
<1>2. /\ \A b \in Attachment : counted[b] = Cardinality(Uncounted(b))
      /\ \A b \in collected : Uncounted(b) = {}
      /\ todo \cap done = {} /\ purging \notin todo \cup done
      /\ \A b \in attsLeft : <<purging.id, b>> \in links
  BY <1>1 DEF SessionCounts
<1>3. counted \in [Attachment -> Nat] /\ links \subseteq Id \X Attachment
      /\ collected \subseteq Attachment
  BY DEF RetentionTypeOK, RunInv, TypeInv, PipelineTypeOK, StoreTypeOK
<1>4. ASSUME NEW b, b # a PROVE Uncounted(b)' = Uncounted(b)
  BY <1>1, <1>4 DEF Uncounted, LinksOf, IdsDone, CountedOf
<1>5. Uncounted(a)' = Uncounted(a) \ {link}
  BY <1>1, <1>3 DEF Uncounted, LinksOf, IdsDone, CountedOf
<1>6. link \in Uncounted(a)
  <2>1. purging \in messages /\ done \subseteq messages
    BY <1>1 DEF SelectedAreExpired, Selected, PurgeShape
  <2>2. purging.id \notin IdsDone
    BY <1>2, <2>1 DEF IdsDone, IdsAreUnique
  <2>3. QED
    BY <1>1, <1>2, <2>2 DEF Uncounted, LinksOf, CountedOf
<1>7. IsFiniteSet(Uncounted(a))
  <2>1. Uncounted(a) \subseteq LinksOf(a) /\ IsFiniteSet(LinksOf(a))
    BY DEF Uncounted, CountersAreExact
  <2>2. QED
    BY <2>1, FS_Subset
<1>8. /\ IsFiniteSet(Uncounted(a)') /\ Cardinality(Uncounted(a)') \in Nat
      /\ Cardinality(Uncounted(a)') = counted[a] - 1
  <2>1. IsFiniteSet(Uncounted(a) \ {link})
        /\ Cardinality(Uncounted(a) \ {link}) = Cardinality(Uncounted(a)) - 1
    BY <1>6, <1>7, FS_RemoveElement
  <2>2. QED
    BY <1>2, <1>5, <2>1, FS_CardinalityType
<1>9. counted[a] \in Nat \ {0} /\ counted'[a] = counted[a] - 1
      /\ \A b \in Attachment : b # a => counted'[b] = counted[b]
  <2>1. counted[a] \in Nat /\ counted[a] - 1 \in Nat
    BY <1>3, <1>8
  <2>2. QED
    BY <1>3, <2>1 DEF CountDown
<1>10. purgeStep' = "blob" => att' = a /\ Uncounted(a)' = {}
  <2>1. purgeStep' = "blob" => att' = a /\ counted[a] <= 1
    BY <1>1 DEF CountDown
  <2>2. counted[a] <= 1 => Cardinality(Uncounted(a)') = 0
    BY <1>8, <1>9
  <2>3. QED
    BY <1>8, <2>1, <2>2, FS_EmptySet
<1>11. a \notin collected
  BY <1>2, <1>6
<1>12. QED
  BY <1>1, <1>2, <1>3, <1>4, <1>8, <1>9, <1>10, <1>11 DEF SessionCounts

LEMMA SessionStep ==
  ASSUME TablesArchived, SessionCounts, PurgeIsAlone, [ArchiveNext]_archiveVars
  PROVE  SessionCounts'
<1> USE DEF TablesArchived, PurgeInv, ArchiveTables
<1>1. CASE [PipelineNext]_pipelineVars /\ UNCHANGED retentionVars
  <2>1. purgeStep \in {"row", "count", "blob"} => UNCHANGED links
    BY <1>1, TablesStep DEF PurgeIsAlone, tables
  <2>2. UNCHANGED <<purgeStep, todo, done, purging, attsLeft, att, counted, collected>>
    BY <1>1 DEF retentionVars, runOfPurge
  <2>3. QED
    BY <2>1, <2>2, SessionKept DEF SessionCounts
<1>2. CASE PurgeStepOf
  <2>1. CASE SelectExpired
    <3>1. /\ purgeStep' = "row" /\ counted' = refs /\ done' = {} /\ collected' = {}
          /\ UNCHANGED links
      BY <2>1 DEF SelectExpired, storeVars, PurgeShape
    <3>2. \A a \in Attachment : Uncounted(a)' = LinksOf(a)
      BY <3>1 DEF Uncounted, LinksOf, IdsDone, CountedOf
    <3>3. QED
      BY <3>1, <3>2 DEF SessionCounts, CountersAreExact
  <2>2. CASE NextRow
    <3>1. PICK r \in todo :
            /\ todo' = todo \ {r} /\ purging' = r
            /\ attsLeft' = {l[2] : l \in {k \in links : k[1] = r.id}}
      BY <2>2 DEF NextRow
    <3>2. /\ purgeStep = "row" /\ purgeStep' = "count"
          /\ UNCHANGED <<links, done, att, counted, collected>>
      BY <2>2 DEF NextRow, storeVars
    <3>3. links \subseteq Id \X Attachment
      BY DEF RunInv, TypeInv, PipelineTypeOK, StoreTypeOK
    <3>4. \A a : Uncounted(a)' = Uncounted(a)
      <4>1. \A a : \A l \in LinksOf(a) : l[1] = r.id => a \in attsLeft'
        BY <3>1 DEF LinksOf
      <4>2. QED
        BY <3>1, <3>2, <4>1 DEF Uncounted, LinksOf, IdsDone, CountedOf
    <3>5. \A a \in attsLeft' : <<r.id, a>> \in links
      <4>1. \A k \in links : k[1] = r.id => <<r.id, k[2]>> \in links
        BY <3>3
      <4>2. QED
        BY <3>1, <4>1
    <3>6. QED
      BY <3>1, <3>2, <3>4, <3>5 DEF SessionCounts
  <2>3. ASSUME NEW a \in Attachment, CountDown(a) PROVE SessionCounts'
    BY <2>3, CountDownStep
  <2>4. CASE CollectAttachment
    <3>1. /\ purgeStep = "blob" /\ purgeStep' = "count" /\ collected' = collected \cup {att}
          /\ UNCHANGED <<links, todo, done, purging, attsLeft, counted>>
      BY <2>4 DEF CollectAttachment
    <3>2. \A a : Uncounted(a)' = Uncounted(a)
      BY <3>1 DEF Uncounted, LinksOf, IdsDone, CountedOf
    <3>3. QED
      BY <3>1, <3>2 DEF SessionCounts
  <2>5. CASE PurgeRow
    <3>1. /\ purgeStep = "count" /\ attsLeft = {} /\ purgeStep' = "row"
          /\ done' = done \cup {purging}
          /\ UNCHANGED <<links, todo, attsLeft, counted, collected>>
      BY <2>5 DEF PurgeRow
    <3>2. \A a : Uncounted(a)' = Uncounted(a)
      BY <3>1 DEF Uncounted, LinksOf, IdsDone, CountedOf
    <3>3. QED
      BY <3>1, <3>2 DEF SessionCounts
  <2>6. CASE RunStarts \/ DropOldIndices \/ PurgeCommits \/ PurgeFails
    BY <2>6 DEF RunStarts, DropOldIndices, PurgeCommits, PurgeFails, ForgetPurge, SessionCounts
  <2>7. ASSUME NEW r \in messages, SetLegalHold(r) PROVE SessionCounts'
    BY <2>7, SessionKept DEF SetLegalHold, runOfPurge, storeVars
  <2>8. QED
    BY <1>2, <2>1, <2>2, <2>3, <2>4, <2>5, <2>6, <2>7 DEF PurgeStepOf, RetentionStep
<1>3. QED
  BY <1>1, <1>2, ArchiveSteps

\* A COMMIT of the purge takes no link of a message that stays: none but the
\* links it has counted down is left of what it has collected.
LEMMA LinksArchivedStep ==
  ASSUME TablesArchived, LocksArchived, SessionInv, [ArchiveNext]_archiveVars
  PROVE  LinksAreComplete'
<1> USE DEF TablesArchived, PurgeInv, ArchiveTables
<1>1. CASE [PipelineNext]_pipelineVars
  BY <1>1, LinksStep DEF SessionInv, LocksArchived, LocksInv
<1>2. CASE PurgeStepOf /\ ~PurgeCommits
  BY <1>2, PurgeTables DEF PurgeStepOf, tables, SessionInv, LinksAreComplete
<1>3. CASE PurgeCommits
  <2>1. /\ messages' = messages \ done
        /\ links' = {l \in links : l[1] \notin IdsDone /\ l[2] \notin collected}
    BY <1>3 DEF PurgeCommits
  <2>2. \A l \in links : l[2] \in collected => l[1] \in IdsDone
    BY <1>3 DEF PurgeCommits, SessionInv, SessionCounts, Uncounted, CountedOf, LinksOf
  <2>3. SUFFICES ASSUME NEW row \in messages \ done
                 PROVE  {l[2] : l \in {k \in links' : k[1] = row.id}} = AttachmentSet(row.raw)
    BY <2>1 DEF LinksAreComplete
  <2>4. row.id \notin IdsDone
    BY <1>3, DoneAtCommit
  <2>5. {k \in links' : k[1] = row.id} = {k \in links : k[1] = row.id}
    BY <2>1, <2>2, <2>4
  <2>6. QED
    BY <2>5 DEF SessionInv, LinksAreComplete
<1>4. QED
  BY <1>1, <1>2, <1>3, ArchiveSteps

\* What the retention worker promises of attachments, and where it ends: a purge
\* during which no mail is committed collects orphans only, so that every message
\* that is left keeps the attachments of its mail.
THEOREM OrphansWithoutRace ==
  ArchiveSpec /\ []PurgeIsAlone => []LinksAreComplete /\ []OnlyOrphansAreCollected
<1>1. ArchiveInit => SessionInv
  BY DEF ArchiveInit, PipelineInit, StoreInit, RetentionInit, SessionInv, SessionCounts,
     LinksAreComplete
<1>2. TablesArchived /\ LocksArchived /\ SessionInv /\ PurgeIsAlone /\ [ArchiveNext]_archiveVars
        => SessionInv'
  BY SessionStep, LinksArchivedStep DEF SessionInv
<1>3. SessionInv => LinksAreComplete /\ OnlyOrphansAreCollected
  BY DEF SessionInv, LinksAreComplete, OnlyOrphansAreCollected
<1>4. QED
  BY <1>1, <1>2, <1>3, TablesArchivedHolds, LocksArchivedHolds, PTL DEF ArchiveSpec

\* No call stores a mail between the selection of a purge and its COMMIT: it
\* could have put a blob that the purge deletes before the row refers to it.
NoneIsStoring ==
  purgeStep \in {"row", "count", "blob"} => \A w \in Worker : step[w] \notin Storing

RetainedAttachmentsAreStored ==
  \A row \in messages : Retained(row) => AttachmentSet(row.raw) \subseteq attBlobs

LEMMA BlobsFirstArchived ==
  ASSUME TablesArchived, BlobsFirst, NoneIsStoring, [ArchiveNext]_archiveVars
  PROVE  BlobsFirst'
<1>1. CASE [PipelineNext]_pipelineVars
  BY <1>1, BlobsFirstStep DEF TablesArchived, PurgeInv
<1>2. CASE PurgeStepOf
  <2>1. UNCHANGED <<bodyBlob, attBlobs>> \/ \A w \in Worker : step[w] \notin Storing
    BY <1>2
       DEF PurgeStepOf, RetentionStep, RunStarts, DropOldIndices, SelectExpired, NextRow,
       CountDown, CollectAttachment, PurgeRow, PurgeCommits, PurgeFails, SetLegalHold,
       storeVars, NoneIsStoring
  <2>2. UNCHANGED runVars
    BY <1>2 DEF PurgeStepOf
  <2>3. QED
    BY <2>1, <2>2 DEF runVars, BlobsFirst, Storing, hash, atts
<1>3. QED
  BY <1>1, <1>2, ArchiveSteps

\* The blob of an attachment goes while no message that is still kept links to it.
LEMMA CollectedIsExpired ==
  ASSUME TablesArchived, SessionInv, CollectAttachment, NEW row \in messages, Retained(row)
  PROVE  att \notin AttachmentSet(row.raw)
<1> USE DEF TablesArchived, PurgeInv, ArchiveTables
<1>1. SUFFICES ASSUME att \in AttachmentSet(row.raw) PROVE FALSE
  OBVIOUS
<1>2. PICK l \in links : l[1] = row.id /\ l[2] = att
  BY <1>1 DEF SessionInv, LinksAreComplete
<1>3. purgeStep = "blob" /\ Uncounted(att) = {}
  BY DEF CollectAttachment, SessionInv, SessionCounts
<1>4. row.id \in IdsDone \cup {purging.id}
  BY <1>2, <1>3 DEF Uncounted, LinksOf, CountedOf
<1>5. row \in Selected
  <2>1. purging \in messages /\ done \subseteq messages
    BY <1>3 DEF SelectedAreExpired, Selected, PurgeShape
  <2>2. QED
    BY <1>3, <1>4, <2>1 DEF IdsDone, IdsAreUnique, Selected
<1>6. row.day + RetentionDays <= ranOn /\ ranOn <= today
  BY <1>5 DEF SelectedAreExpired, PurgeShape
<1>7. QED
  BY <1>6, CalendarTypes DEF Retained

LEMMA AttachmentsStep ==
  ASSUME TablesArchived, LocksArchived, SessionInv, BlobsFirst, RetainedAttachmentsAreStored,
         [ArchiveNext]_archiveVars
  PROVE  RetainedAttachmentsAreStored'
<1> USE DEF TablesArchived, PurgeInv
<1>1. SUFFICES ASSUME NEW row \in messages', row.day + RetentionDays > today'
               PROVE  AttachmentSet(row.raw) \subseteq attBlobs'
  BY DEF RetainedAttachmentsAreStored, Retained
<1>2. CASE [PipelineNext]_pipelineVars
  <2>1. attBlobs \subseteq attBlobs'
    BY <1>2, StoresOnlyGrow
  <2>2. CASE row \in messages
    <3>1. /\ today \in Nat /\ today' \in Nat /\ today <= today'
          /\ row.day \in Nat /\ RetentionDays \in Nat
      BY <1>2, <2>2, CalendarStep, CalendarTypes
         DEF RunInv, TypeInv, PipelineTypeOK, Day
    <3>2. Retained(row)
      BY <1>1, <3>1 DEF Retained
    <3>3. QED
      BY <2>1, <2>2, <3>2 DEF RetainedAttachmentsAreStored
  <2>3. CASE row \notin messages
    <3>1. PICK w \in Worker : step[w] = "commit" /\ row.hash = hash(w) /\ row.raw = raw[w]
      BY <1>2, <2>3, NewRows
    <3>2. nextAtt[w] - 1 = Len(atts(w))
      BY <3>1, AttsType DEF LocksArchived, CommitShape, RunInv, TypeInv, RunShape, atts
    <3>3. AttachmentSet(row.raw) = {atts(w)[i] : i \in 1..(nextAtt[w] - 1)}
      BY <3>1, <3>2 DEF AttachmentSet, atts
    <3>4. \A i \in 1..(nextAtt[w] - 1) : atts(w)[i] \in attBlobs
      BY <3>1 DEF BlobsFirst, Storing
    <3>5. QED
      BY <2>1, <3>3, <3>4
  <2>4. QED
    BY <2>2, <2>3
<1>3. CASE PurgeStepOf
  <2>1. row \in messages /\ Retained(row)
    BY <1>1, <1>3, PurgeTables DEF PurgeStepOf, PurgeCommits, tables, Retained
  <2>2. CASE CollectAttachment
    BY <2>1, <2>2, CollectedIsExpired DEF CollectAttachment, RetainedAttachmentsAreStored
  <2>3. CASE ~CollectAttachment
    <3>1. attBlobs' = attBlobs
      BY <1>3, <2>3
         DEF PurgeStepOf, RetentionStep, RunStarts, DropOldIndices, SelectExpired, NextRow,
         CountDown, PurgeRow, PurgeCommits, PurgeFails, SetLegalHold, storeVars
    <3>2. QED
      BY <2>1, <3>1 DEF RetainedAttachmentsAreStored
  <2>4. QED
    BY <2>2, <2>3
<1>4. QED
  BY <1>2, <1>3, ArchiveSteps

\* A purge during which no mail is stored leaves every message that is still
\* kept its attachments, link and content, though purges fail half-way.
THEOREM AttachmentsWithoutRace ==
  ArchiveSpec /\ []NoneIsStoring => []RetainedAttachmentsAreStored
<1>1. ArchiveInit => SessionInv /\ BlobsFirst /\ RetainedAttachmentsAreStored
  BY DEF ArchiveInit, PipelineInit, StoreInit, RetentionInit, SessionInv, SessionCounts,
     LinksAreComplete, BlobsFirst, Storing, RetainedAttachmentsAreStored
<1>2. TablesArchived /\ LocksArchived /\ SessionInv /\ BlobsFirst
        /\ RetainedAttachmentsAreStored /\ NoneIsStoring /\ [ArchiveNext]_archiveVars
        => SessionInv' /\ BlobsFirst' /\ RetainedAttachmentsAreStored'
  <2>1. NoneIsStoring => PurgeIsAlone
    BY DEF NoneIsStoring, PurgeIsAlone, Storing
  <2>2. QED
    BY <2>1, SessionStep, LinksArchivedStep, BlobsFirstArchived, AttachmentsStep
       DEF SessionInv
<1>3. QED
  BY <1>1, <1>2, TablesArchivedHolds, LocksArchivedHolds, PTL DEF ArchiveSpec

-----------------------------------------------------------------------------
(* Calls of process() and the rows under purge                             *)

\* The steps of a call that has not found its fingerprint.
PastPrecheck == {"putBody", "putAtt", "upsert", "commit", "recheck", "index", "event"}

\* No such call has the fingerprint of a row that the purge has selected.
NoneIsStored ==
  \A row \in Selected, w \in Worker : step[w] \in PastPrecheck => hash(w) # row.hash

\* A call that writes rows has put the body; what it indexes or publishes
\* of its own commit, or of a conflict, is what dedup says.
CallsAreCurrent ==
  \A w \in Worker :
    /\ step[w] \in Storing => bodyBlob[hash(w)] # NoMail
    /\ step[w] \in {"index", "event"} => target[w] = dedup[hash(w)]
    /\ step[w] = "recheck" => dedup[hash(w)] # NoRow

CallsInv == NoneIsStored /\ CallsAreCurrent

LEMMA HashType ==
  ASSUME TypeInv, NEW w \in Worker, step[w] # "idle"
  PROVE  hash(w) \in Hash
BY AttsType DEF TypeInv, RunShape, hash

\* A selected row has its dedup entry until the purge commits, so that a call
\* with its fingerprint goes to "reindex".
LEMMA NoneIsStoredStep ==
  ASSUME TablesArchived, NoneIsStored, [ArchiveNext]_archiveVars
  PROVE  NoneIsStored'
<1> USE DEF TablesArchived, ArchiveTables, PurgeInv, RunInv
<1>1. CASE [PipelineNext]_pipelineVars /\ UNCHANGED retentionVars
  <2>1. SUFFICES ASSUME NEW row \in Selected, NEW v \in Worker, step'[v] \in PastPrecheck
                 PROVE  hash(v)' # row.hash
    BY <1>1 DEF NoneIsStored, Selected, retentionVars, runOfPurge
  <2>2. CASE step[v] \in PastPrecheck /\ raw'[v] = raw[v]
    BY <2>2 DEF NoneIsStored, hash
  <2>3. CASE Precheck(v)
    <3>1. dedup[hash(v)] = NoRow /\ raw'[v] = raw[v]
      BY <2>1, <2>3 DEF Precheck, GoTo, PastPrecheck, TypeInv, PipelineTypeOK
    <3>2. row \in messages /\ row \in MessageRow
      BY DEF SelectedAreExpired, TypeInv, PipelineTypeOK, StoreTypeOK
    <3>3. dedup[row.hash] \in RowRef
      BY <3>2, RefOfType DEF DedupIsExact
    <3>4. QED
      BY <3>1, <3>3, NoRowAssumption DEF hash
  <2>4. QED
    BY <1>1, <2>1, <2>2, <2>3, RunStep
       DEF PastPrecheck, PutBody, PutAttachment, Upsert, Commit, CommitConflict, Recheck,
       Index, ProcessEnds, ForgetRun, GoTo, TypeInv, PipelineTypeOK
<1>2. CASE PurgeStepOf
  <2>1. SUFFICES ASSUME NEW row \in Selected', NEW v \in Worker, step[v] \in PastPrecheck
                 PROVE  hash(v) # row.hash
    BY <1>2 DEF PurgeStepOf, NoneIsStored, runVars, hash
  <2>2. row \in Selected \/ row \in todo' \ todo
    BY <1>2, <2>1
       DEF PurgeStepOf, RetentionStep, RunStarts, DropOldIndices, SelectExpired, NextRow,
       CountDown, CollectAttachment, PurgeRow, PurgeCommits, PurgeFails, SetLegalHold,
       ForgetPurge, runOfPurge, Selected, PurgeShape
  <2>3. QED
    BY <1>2, <2>1, <2>2 DEF PurgeStepOf, CallsAreYounger, NoneIsStored, PastPrecheck
<1>3. QED
  BY <1>1, <1>2, ArchiveSteps

LEMMA CallsAreCurrentStep ==
  ASSUME TablesArchived, CallsInv, [ArchiveNext]_archiveVars
  PROVE  CallsAreCurrent'
<1> USE DEF TablesArchived, PurgeInv, RunInv, CallsInv
<1>1. CASE [PipelineNext]_pipelineVars
  <2>1. SUFFICES ASSUME NEW v \in Worker
                 PROVE  /\ step'[v] \in Storing => bodyBlob'[hash(v)'] # NoMail
                        /\ step'[v] \in {"index", "event"} => target'[v] = dedup'[hash(v)']
                        /\ step'[v] = "recheck" => dedup'[hash(v)'] # NoRow
    BY DEF CallsAreCurrent
  <2> DEFINE Goal == /\ step'[v] \in Storing => bodyBlob'[hash(v)'] # NoMail
                     /\ step'[v] \in {"index", "event"} => target'[v] = dedup'[hash(v)']
                     /\ step'[v] = "recheck" => dedup'[hash(v)'] # NoRow
  <2>2. /\ \A h \in Hash : dedup[h] # NoRow => dedup'[h] = dedup[h]
        /\ \A h \in Hash : bodyBlob[h] # NoMail => bodyBlob'[h] # NoMail
    BY <1>1, StoresOnlyGrow
  <2>3. step[v] # "idle" => hash(v) \in Hash
    BY HashType
  <2>4. step[v] \in {"index", "event"} => dedup[hash(v)] # NoRow
    BY NoRowAssumption DEF CallsAreCurrent, TypeInv, RunShape, Indexing
  <2>5. CASE UNCHANGED <<step[v], raw[v], target[v]>>
    BY <2>2, <2>3, <2>4, <2>5 DEF CallsAreCurrent, hash, Storing
  <2>6. CASE step'[v] \in {"idle", "precheck", "putBody", "reindex"}
    BY <2>6 DEF Storing
  <2>7. CASE PutBody(v)
    <3>1. hash(v) \in Hash /\ raw[v] \in Mail /\ raw' = raw
      BY <2>3, <2>7 DEF PutBody, TypeInv, RunShape
    <3>2. bodyBlob'[hash(v)'] = raw[v]
      BY <2>7, <3>1 DEF PutBody, hash, TypeInv, PipelineTypeOK, StoreTypeOK
    <3>3. step'[v] \in Storing
      BY <2>7 DEF PutBody, GoTo, AfterAttachments, Storing, TypeInv, PipelineTypeOK
    <3>4. QED
      BY <3>1, <3>2, <3>3, SharedNullAssumption DEF Storing
  <2>8. CASE PutAttachment(v) \/ Upsert(v)
    <3>1. step[v] \in Storing /\ step'[v] \in Storing /\ raw' = raw
      BY <2>8 DEF PutAttachment, Upsert, GoTo, AfterAttachments, Storing, TypeInv,
         PipelineTypeOK
    <3>2. QED
      BY <2>2, <2>3, <3>1 DEF CallsAreCurrent, hash, Storing
  <2>9. CASE Commit(v)
    <3>1. step'[v] = "index" /\ raw' = raw /\ hash(v) \in Hash
      BY <2>3, <2>9 DEF Commit, GoTo, TypeInv, PipelineTypeOK
    <3>2. target'[v] = [id |-> nextId, day |-> signedAt[v]]
      BY <2>9 DEF Commit, TypeInv, PipelineTypeOK
    <3>3. dedup'[hash(v)] = [id |-> nextId, day |-> signedAt[v]]
      BY <2>9, <3>1 DEF Commit, Committed, RefOf, TypeInv, PipelineTypeOK, StoreTypeOK
    <3>4. QED
      BY <3>1, <3>2, <3>3 DEF hash, Storing
  <2>10. CASE CommitConflict(v)
    BY <2>10 DEF CommitConflict, GoTo, hash, Storing, TypeInv, PipelineTypeOK
  <2>11. CASE Index(v)
    BY <2>11 DEF Index, IndexTarget, GoTo, hash, Storing, CallsAreCurrent, TypeInv,
       PipelineTypeOK
  <2>12. CASE Precheck(v) \/ Recheck(v)
    <3>1. step'[v] \in {"idle", "precheck", "putBody", "reindex"}
      BY <2>12 DEF Precheck, Recheck, ProcessEnds, ForgetRun, GoTo, TypeInv, PipelineTypeOK
    <3>2. QED
      BY <2>6, <3>1
  <2>13. QED
    BY <1>1, <2>5, <2>6, <2>7, <2>8, <2>9, <2>10, <2>11, <2>12, RunStep
<1>2. CASE PurgeStepOf
  <2>1. SUFFICES ASSUME NEW v \in Worker, step[v] \in PastPrecheck
                 PROVE  bodyBlob'[hash(v)] = bodyBlob[hash(v)] /\ dedup'[hash(v)] = dedup[hash(v)]
    BY <1>2 DEF CallsAreCurrent, PurgeStepOf, runVars, hash, PastPrecheck, Storing
  <2>2. hash(v) \in Hash /\ \A row \in Selected : hash(v) # row.hash
    BY <2>1, HashType DEF NoneIsStored, PastPrecheck
  <2>3. CASE PurgeRow
    <3>1. purging \in Selected
      BY <2>3 DEF PurgeRow, Selected
    <3>2. QED
      BY <2>2, <2>3, <3>1 DEF PurgeRow, TypeInv, PipelineTypeOK, StoreTypeOK
  <2>4. CASE PurgeCommits
    <3>1. hash(v) \notin HashesDone
      BY <2>2 DEF HashesDone, Selected
    <3>2. QED
      BY <2>2, <2>4, <3>1 DEF PurgeCommits
  <2>5. QED
    BY <1>2, <2>3, <2>4
       DEF PurgeStepOf, RetentionStep, RunStarts, DropOldIndices, SelectExpired, NextRow,
       CountDown, CollectAttachment, PurgeFails, SetLegalHold, storeVars
<1>3. QED
  BY <1>1, <1>2, ArchiveSteps

LEMMA CallsInvHolds == ArchiveSpec => []CallsInv
<1>1. ArchiveInit => CallsInv
  BY DEF ArchiveInit, PipelineInit, RetentionInit, CallsInv, NoneIsStored, Selected,
     CallsAreCurrent, Storing
<1>2. TablesArchived /\ CallsInv /\ [ArchiveNext]_archiveVars => CallsInv'
  BY NoneIsStoredStep, CallsAreCurrentStep DEF CallsInv
<1>3. QED
  BY <1>1, <1>2, TablesArchivedHolds, PTL DEF ArchiveSpec

\* The INSERT of a dedup key never meets an entry that the purge has deleted and
\* not committed, for which it would wait.
THEOREM NoInsertWaitsForPurge ==
  ArchiveSpec => [](\A w \in Worker : step[w] = "commit" => hash(w) \notin HashesDone)
<1>1. CallsInv => \A w \in Worker : step[w] = "commit" => hash(w) \notin HashesDone
  BY DEF CallsInv, NoneIsStored, PastPrecheck, Selected, HashesDone
<1>2. QED
  BY <1>1, CallsInvHolds, PTL

\* A call that lost the race for its dedup key finds the winner's entry when it
\* looks it up: no purge takes it in between, and the mail is indexed again.
THEOREM ConflictFindsDuplicate ==
  ArchiveSpec => [](\A w \in Worker : step[w] = "recheck" => dedup[hash(w)] # NoRow)
<1>1. CallsInv => \A w \in Worker : step[w] = "recheck" => dedup[hash(w)] # NoRow
  BY DEF CallsInv, CallsAreCurrent
<1>2. QED
  BY <1>1, CallsInvHolds, PTL

-----------------------------------------------------------------------------
(* Bodies                                                                  *)

LEMMA BodiesStep ==
  ASSUME TablesArchived, CallsInv, RetainedBodyIsStored, [ArchiveNext]_archiveVars
  PROVE  RetainedBodyIsStored'
<1> USE DEF TablesArchived, PurgeInv
<1>1. CASE [PipelineNext]_pipelineVars
  <2>1. SUFFICES ASSUME NEW row \in messages', row.day + RetentionDays > today'
                 PROVE  bodyBlob'[row.hash] # NoMail
    BY DEF RetainedBodyIsStored, Retained
  <2>2. \A h \in Hash : bodyBlob[h] # NoMail => bodyBlob'[h] # NoMail
    BY <1>1, StoresOnlyGrow
  <2>3. CASE row \in messages
    <3>1. today <= today' /\ row.hash \in Hash
      BY <1>1, <2>3, CalendarStep, CalendarTypes, RefOfType
         DEF RunInv, TypeInv, PipelineTypeOK
    <3>2. row.day + RetentionDays > today
      <4>1. today \in Nat /\ today' \in Nat /\ row.day \in Nat /\ RetentionDays \in Nat
        BY <1>1, <2>3, CalendarStep, CalendarTypes
           DEF RunInv, TypeInv, PipelineTypeOK, Day
      <4>2. QED
        BY <2>1, <3>1, <4>1
    <3>3. QED
      BY <2>2, <2>3, <3>1, <3>2 DEF RetainedBodyIsStored, Retained
  <2>4. CASE row \notin messages
    <3>1. PICK w \in Worker : step[w] = "commit" /\ Committed(w)
      BY <1>1, <2>1, <2>4, TablesStep DEF tables
    <3>2. row.hash = hash(w) /\ hash(w) \in Hash
      BY <2>1, <2>4, <3>1, HashType DEF Committed, RunInv
    <3>3. bodyBlob[hash(w)] # NoMail
      BY <3>1 DEF CallsInv, CallsAreCurrent, Storing
    <3>4. QED
      BY <2>2, <3>2, <3>3
  <2>5. QED
    BY <2>3, <2>4
<1>2. CASE PurgeStepOf
  <2>1. messages' \subseteq messages /\ today' = today
    BY <1>2, PurgeTables DEF PurgeStepOf, PurgeCommits, tables
  <2>2. CASE PurgeRow
    <3>1. purging \in messages /\ ~Retained(purging)
      <4>1. purging \in messages /\ purging.day + RetentionDays <= ranOn /\ ranOn <= today
        BY <2>2 DEF PurgeRow, SelectedAreExpired, Selected, PurgeShape
      <4>2. QED
        BY <4>1, CalendarTypes DEF Retained
    <3>2. \A row \in messages : row.hash = purging.hash => row = purging
      <4>1. \A row \in messages : row.hash = purging.hash => RefOf(row) = RefOf(purging)
        BY <3>1 DEF ArchiveTables, DedupIsExact
      <4>2. QED
        BY <3>1, <4>1 DEF ArchiveTables, IdsAreUnique, RefOf
    <3>3. \A row \in messages : row.hash # purging.hash =>
            bodyBlob'[row.hash] = bodyBlob[row.hash]
      BY <2>2, CalendarTypes, RefOfType
         DEF PurgeRow, RunInv, TypeInv, PipelineTypeOK, StoreTypeOK
    <3>4. QED
      BY <2>1, <3>1, <3>2, <3>3 DEF RetainedBodyIsStored, Retained
  <2>3. CASE ~PurgeRow
    <3>1. bodyBlob' = bodyBlob
      BY <1>2, <2>3
         DEF PurgeStepOf, RetentionStep, RunStarts, DropOldIndices, SelectExpired, NextRow,
         CountDown, CollectAttachment, PurgeCommits, PurgeFails, SetLegalHold, storeVars
    <3>2. QED
      BY <2>1, <3>1 DEF RetainedBodyIsStored, Retained
  <2>4. QED
    BY <2>2, <2>3
<1>3. QED
  BY <1>1, <1>2, ArchiveSteps

\* The body of a message that is still to be kept is in the store, though the
\* purge may have deleted the same key for an expired message before it.
THEOREM RetainedBodiesCorrect == ArchiveSpec => []RetainedBodyIsStored
<1>1. ArchiveInit => RetainedBodyIsStored
  BY DEF ArchiveInit, PipelineInit, StoreInit, RetainedBodyIsStored
<1>2. TablesArchived /\ CallsInv /\ RetainedBodyIsStored /\ [ArchiveNext]_archiveVars
        => RetainedBodyIsStored'
  BY BodiesStep
<1>3. QED
  BY <1>1, <1>2, TablesArchivedHolds, CallsInvHolds, PTL DEF ArchiveSpec

-----------------------------------------------------------------------------
(* Search documents                                                        *)

\* What a document or a call refers to is a message, or one that has expired.
Known(ref) ==
  \/ \E row \in messages : RefOf(row) = ref
  \/ ref.day + RetentionDays <= today

\* It is the message of this fingerprint, unless its retention has run out.
KnownAs(ref, h) ==
  \/ \E row \in messages : row.hash = h /\ RefOf(row) = ref
  \/ ref.day + RetentionDays <= today

\* What a call is going to index is the message of its mail.
TargetsAreKnown ==
  \A w \in Worker : step[w] \in Indexing => KnownAs(target[w], hash(w))

\* What has expired stays so, and only what has expired goes.
LEMMA ExpiryStep ==
  ASSUME TablesArchived, [ArchiveNext]_archiveVars, NEW ref \in RowRef
  PROVE  /\ ref.day + RetentionDays <= today => ref.day + RetentionDays <= today'
         /\ \A row \in messages \ messages' :
              RefOf(row) = ref => ref.day + RetentionDays <= today'
<1> USE DEF TablesArchived, PurgeInv
<1>1. CASE [PipelineNext]_pipelineVars
  <2>1. messages \subseteq messages' /\ today <= today'
    BY <1>1, StoresOnlyGrow, CalendarStep DEF RunInv, TypeInv, PipelineTypeOK
  <2>2. today \in Nat /\ today' \in Nat /\ ref.day \in Nat /\ RetentionDays \in Nat
    BY <1>1, CalendarStep, CalendarTypes DEF RunInv, TypeInv, PipelineTypeOK, Day
  <2>3. QED
    BY <2>1, <2>2
<1>2. CASE PurgeStepOf
  <2>1. today' = today /\ (messages' = messages \/ messages' = messages \ done)
    BY <1>2, PurgeTables DEF PurgeStepOf, PurgeCommits, tables
  <2>2. ASSUME NEW row \in messages, RefOf(row) = ref, row \in done
        PROVE  ref.day + RetentionDays <= today
    <3>1. row.day + RetentionDays <= ranOn /\ ranOn <= today /\ ref.day = row.day
      BY <2>2 DEF SelectedAreExpired, Selected, PurgeShape, RefOf
    <3>2. QED
      BY <3>1, CalendarTypes
  <2>3. QED
    BY <2>1, <2>2
<1>3. QED
  BY <1>1, <1>2, ArchiveSteps

LEMMA KnownStep ==
  ASSUME TablesArchived, [ArchiveNext]_archiveVars, NEW ref \in RowRef
  PROVE  /\ Known(ref) => Known(ref)'
         /\ \A h \in Hash : KnownAs(ref, h) => KnownAs(ref, h)'
BY ExpiryStep DEF Known, KnownAs

LEMMA TargetsAreKnownStep ==
  ASSUME TablesArchived, TargetsAreKnown, [ArchiveNext]_archiveVars
  PROVE  TargetsAreKnown'
<1> USE DEF TablesArchived, PurgeInv, RunInv
<1>1. TablesArchived'
  BY TablesArchivedStep
<1>2. SUFFICES ASSUME NEW v \in Worker, step'[v] \in Indexing
               PROVE  KnownAs(target[v], hash(v))'
  BY DEF TargetsAreKnown
<1>3. CASE step[v] \in Indexing /\ target'[v] = target[v] /\ raw'[v] = raw[v]
  <2>1. target[v] \in RowRef /\ hash(v) \in Hash /\ KnownAs(target[v], hash(v))
    BY <1>3, HashType DEF TargetsAreKnown, TypeInv, RunShape, Indexing
  <2>2. KnownAs(target[v], hash(v))'
    BY <1>3, <2>1, KnownStep DEF KnownAs, hash
  <2>3. QED
    BY <2>2
<1>4. ASSUME dedup'[hash(v)] = target'[v], dedup'[hash(v)] # NoRow, step[v] # "idle",
             raw'[v] = raw[v]
      PROVE  KnownAs(target[v], hash(v))'
  <2>1. hash(v) \in Hash
    BY <1>4, HashType
  <2>2. QED
    BY <1>1, <1>4, <2>1 DEF ArchiveTables, DedupIsExact, KnownAs, hash
<1>5. CASE [PipelineNext]_pipelineVars
  <2>1. CASE Precheck(v) \/ Recheck(v)
    <3>1. step'[v] = "reindex" /\ dedup' = dedup /\ target'[v] = dedup[hash(v)]
          /\ dedup[hash(v)] # NoRow /\ step[v] # "idle" /\ raw'[v] = raw[v]
      BY <1>2, <2>1
         DEF Precheck, Recheck, ProcessEnds, ForgetRun, GoTo, storeVars, Indexing, TypeInv,
         PipelineTypeOK
    <3>2. QED
      BY <1>4, <3>1
  <2>2. CASE Commit(v)
    <3>1. hash(v) \in Hash
      BY <2>2, HashType DEF Commit
    <3>2. target'[v] = [id |-> nextId, day |-> signedAt[v]] /\ target'[v] \in RowRef
      BY <2>2, CommittedType DEF Commit, TypeInv, PipelineTypeOK
    <3>3. dedup'[hash(v)] = [id |-> nextId, day |-> signedAt[v]]
      BY <2>2, <3>1 DEF Commit, Committed, RefOf, TypeInv, PipelineTypeOK, StoreTypeOK
    <3>4. step[v] # "idle" /\ raw'[v] = raw[v]
      BY <2>2 DEF Commit
    <3>5. QED
      BY <1>4, <3>2, <3>3, <3>4, NoRowAssumption
  <2>3. CASE Index(v)
    BY <1>3, <2>3 DEF Index, Indexing
  <2>4. CASE UNCHANGED <<step[v], raw[v], nextAtt[v], target[v]>>
    BY <1>2, <1>3, <2>4
  <2>5. QED
    BY <1>2, <1>5, <2>1, <2>2, <2>3, <2>4, RunStep
       DEF Indexing, PutBody, PutAttachment, Upsert, CommitConflict, GoTo,
       AfterAttachments, TypeInv, PipelineTypeOK
<1>6. CASE PurgeStepOf
  BY <1>2, <1>3, <1>6 DEF PurgeStepOf, runVars
<1>7. QED
  BY <1>5, <1>6, ArchiveSteps

LEMMA DeadHitsStep ==
  ASSUME TablesArchived, TargetsAreKnown, DeadHitsAreExpired, [ArchiveNext]_archiveVars
  PROVE  DeadHitsAreExpired'
<1> USE DEF TablesArchived, PurgeInv, RunInv, TypeInv
<1>1. docs \subseteq RowRef /\ \A doc \in docs : Known(doc)
  BY DEF PipelineTypeOK, StoreTypeOK, DeadHitsAreExpired, Known
<1>2. \A doc \in docs' : doc \in RowRef /\ Known(doc)
  <2>1. CASE [PipelineNext]_pipelineVars
    BY <1>1, <2>1, DocsStep DEF TargetsAreKnown, Known, KnownAs, RunShape
  <2>2. CASE PurgeStepOf
    <3>1. docs' \subseteq docs
      BY <2>2
         DEF PurgeStepOf, RetentionStep, RunStarts, DropOldIndices, SelectExpired, NextRow,
         CountDown, CollectAttachment, PurgeRow, PurgeCommits, PurgeFails, SetLegalHold,
         storeVars
    <3>2. QED
      BY <1>1, <3>1
  <2>3. QED
    BY <2>1, <2>2, ArchiveSteps
<1>3. ASSUME NEW doc \in docs'
      PROVE  (\E row \in messages' : RefOf(row) = doc) \/ doc.day + RetentionDays <= today'
  <2>1. doc \in RowRef /\ Known(doc)
    BY <1>2
  <2>2. Known(doc)'
    BY <2>1, KnownStep
  <2>3. QED
    BY <2>2 DEF Known
<1>4. QED
  BY <1>3 DEF DeadHitsAreExpired

LEMMA DocumentsHold == ArchiveSpec => [](TargetsAreKnown /\ DeadHitsAreExpired)
<1>1. ArchiveInit => TargetsAreKnown /\ DeadHitsAreExpired
  BY DEF ArchiveInit, PipelineInit, StoreInit, TargetsAreKnown, Indexing, DeadHitsAreExpired
<1>2. TablesArchived /\ TargetsAreKnown /\ DeadHitsAreExpired /\ [ArchiveNext]_archiveVars
        => TargetsAreKnown' /\ DeadHitsAreExpired'
  BY TargetsAreKnownStep, DeadHitsStep
<1>3. QED
  BY <1>1, <1>2, TablesArchivedHolds, PTL DEF ArchiveSpec

\* Purges, failed purges and late re-indexing of duplicates leave no search hit
\* behind that the next night's index drop would not remove.
THEOREM DeadHitsCorrect == ArchiveSpec => []DeadHitsAreExpired
BY DocumentsHold, PTL

\* A call that publishes its event has indexed the message; only the index of a
\* day before the cutoff's goes.
EventsAreFound ==
  \A w \in Worker : step[w] = "event" =>
    target[w] \in docs \/ target[w].day + RetentionDays <= today

LEMMA EventsAreFoundStep ==
  ASSUME TablesArchived, EventsAreFound, [ArchiveNext]_archiveVars
  PROVE  EventsAreFound'
<1> USE DEF TablesArchived, PurgeInv, RunInv
<1>1. SUFFICES ASSUME NEW v \in Worker, step'[v] = "event"
               PROVE  target'[v] \in docs' \/ target'[v].day + RetentionDays <= today'
  BY DEF EventsAreFound
<1>2. CASE [PipelineNext]_pipelineVars
  <2>1. CASE Index(v)
    BY <2>1 DEF Index, IndexTarget
  <2>2. CASE UNCHANGED <<step[v], target[v]>>
    <3>1. target[v] \in RowRef /\ docs \subseteq docs'
      BY <1>1, <1>2, <2>2, StoresOnlyGrow DEF TypeInv, RunShape, Indexing
    <3>2. QED
      BY <1>1, <2>2, <3>1, ExpiryStep DEF EventsAreFound
  <2>3. QED
    BY <1>1, <1>2, <2>1, <2>2, RunStep
       DEF Precheck, PutBody, PutAttachment, Upsert, Commit, CommitConflict, Recheck, GoTo,
       ProcessEnds, ForgetRun, AfterAttachments, TypeInv, PipelineTypeOK
<1>3. CASE PurgeStepOf
  <2>1. /\ target' = target /\ today' = today
        /\ target[v] \in docs \/ target[v].day + RetentionDays <= today
    BY <1>1, <1>3, PurgeTables DEF PurgeStepOf, runVars, EventsAreFound
  <2>2. CASE DropOldIndices /\ target[v] \in docs \ docs'
    <3>1. target[v].day + RetentionDays < ranOn /\ ranOn <= today /\ target[v] \in RowRef
      BY <2>2 DEF DropOldIndices, BeforeCutoffDay, PurgeShape, TypeInv, PipelineTypeOK,
         StoreTypeOK
    <3>2. QED
      BY <2>1, <3>1, CalendarTypes
  <2>3. CASE ~DropOldIndices
    BY <1>3, <2>1, <2>3
       DEF PurgeStepOf, RetentionStep, RunStarts, SelectExpired, NextRow, CountDown,
       CollectAttachment, PurgeRow, PurgeCommits, PurgeFails, SetLegalHold, storeVars
  <2>4. QED
    BY <2>1, <2>2, <2>3
<1>4. QED
  BY <1>2, <1>3, ArchiveSteps

\* process() returns, so that its mail is acknowledged, with the message of the
\* mail's fingerprint in the table and its document in the index, or as the
\* duplicate of a message whose retention has run out: no purge makes it return
\* empty-handed.
DoneIsArchived ==
  [][\A w \in Worker : outcome[w] = "running" /\ outcome'[w] = "ok" =>
       \/ /\ \E row \in messages : row.hash = hash(w) /\ RefOf(row) = target[w]
          /\ target[w] \in docs'
       \/ target[w].day + RetentionDays <= today]_archiveVars

THEOREM CallsReturnArchived == ArchiveSpec => DoneIsArchived
<1>1. ASSUME TablesArchived, CallsInv, TargetsAreKnown, EventsAreFound,
             [ArchiveNext]_archiveVars,
             NEW w \in Worker, outcome[w] = "running", outcome'[w] = "ok"
      PROVE  \/ /\ \E row \in messages : row.hash = hash(w) /\ RefOf(row) = target[w]
                /\ target[w] \in docs'
             \/ target[w].day + RetentionDays <= today
  <2>1. [PipelineNext]_pipelineVars
    BY <1>1, ArchiveSteps DEF PurgeStepOf, queueVars
  <2>2. Reindex(w) \/ Announce(w) \/ (Recheck(w) /\ dedup[hash(w)] = NoRow)
    BY <1>1, <2>1, OkReason DEF TablesArchived, PurgeInv, RunInv, QueueInv
  <2>3. Reindex(w) \/ Announce(w)
    BY <1>1, <2>2 DEF CallsInv, CallsAreCurrent, Recheck
  <2>4. KnownAs(target[w], hash(w))
    BY <1>1, <2>3 DEF TargetsAreKnown, Reindex, Announce, Indexing
  <2>5. target[w] \in docs' \/ target[w].day + RetentionDays <= today
    BY <1>1, <2>3 DEF EventsAreFound, Reindex, IndexTarget, Announce, storeVars
  <2>6. QED
    BY <2>4, <2>5 DEF KnownAs
<1>2. ArchiveInit => EventsAreFound
  BY DEF ArchiveInit, PipelineInit, EventsAreFound
<1>3. TablesArchived /\ EventsAreFound /\ [ArchiveNext]_archiveVars => EventsAreFound'
  BY EventsAreFoundStep
<1>4. TablesArchived /\ CallsInv /\ TargetsAreKnown /\ EventsAreFound
        /\ [ArchiveNext]_archiveVars
        => \A w \in Worker : outcome[w] = "running" /\ outcome'[w] = "ok" =>
             \/ /\ \E row \in messages : row.hash = hash(w) /\ RefOf(row) = target[w]
                /\ target[w] \in docs'
             \/ target[w].day + RetentionDays <= today
  BY <1>1
<1>5. QED
  BY <1>2, <1>3, <1>4, TablesArchivedHolds, CallsInvHolds, DocumentsHold, PTL
     DEF ArchiveSpec, DoneIsArchived

-----------------------------------------------------------------------------
(* Nothing that is kept stays unsearchable                                 *)

\* The copy is still to be processed, and whoever is at it either has not got
\* to the row or is going to index it: if they all stop, the copy comes again.
MakesSearchable(c, row) ==
  /\ body[c] # NoMail /\ Fingerprint[body[c]] = row.hash /\ Unfinished(c)
  /\ \A w \in Worker : job[w] = c =>
       /\ outcome[w] = "ok" => ~attached[w]
       /\ step[w] # "event"
       /\ step[w] \in {"index", "reindex"} => target[w] = RefOf(row)

SearchableOrPending ==
  \A row \in messages : row.day + RetentionDays >= today =>
    RefOf(row) \in docs \/ \E c \in Copy : MakesSearchable(c, row)

\* A copy that nobody acknowledges stays unfinished, or its mail has just been
\* published again.
LEMMA StillPending ==
  ASSUME QueueInv, [QueueNext]_queueVars, NEW c \in Copy, Unfinished(c),
         \A w \in Worker : Ack(w) => job[w] # c
  PROVE  \/ body'[c] = body[c] /\ Unfinished(c)'
         \/ \E d \in Copy : /\ body'[d] = body[c] /\ place'[d] = "ready"
                            /\ \A w \in Worker : job'[w] # d
<1> USE DEF QueueInv, QueueTypeOK, Unfinished
<1>1. body'[c] = body[c]
  BY BodyIsFixed
<1>2. CASE \E d \in Copy : ReplayPublish(d)
  <2>1. PICK d \in Copy, e \in Copy :
          /\ place[d] = "fetched" /\ Publish(e, body[d]) /\ UNCHANGED job
          /\ place' = [place EXCEPT ![d] = "republished", ![e] = "ready"]
    BY <1>2 DEF ReplayPublish
  <2>2. CASE c = d
    <3>1. body'[e] = body[c] /\ place'[e] = "ready"
      BY <2>1, <2>2 DEF Publish
    <3>2. \A w \in Worker : job'[w] # e
      BY <2>1, NoCopyAssumption DEF Publish, CopiesCarryMails
    <3>3. QED
      BY <3>1, <3>2
  <2>3. CASE c # d
    BY <1>1, <2>1, <2>3 DEF Publish
  <2>4. QED
    BY <2>2, <2>3
<1>3. CASE ~ \E d \in Copy : ReplayPublish(d)
  <2>1. Unfinished(c)'
    BY <1>3
       DEF queueVars, QueueNext, QueueStep, HandleDataAccepts, HandleDataUnconfirmed, Publish,
       ReplayGet, ReplayAck, ReplayAborts, DlqPurge, Deliver, Take, HandlerEnds, Ack,
       RejectAndRequeue, DeadLetter, ChannelLost, WorkerStops, Requeue
  <2>2. QED
    BY <1>1, <2>1
<1>4. QED
  BY <1>2, <1>3

\* A worker keeps its delivery until it is through with it.
LEMMA JobStep ==
  ASSUME QueueInv, [QueueNext]_queueVars, NEW w \in Worker,
         outcome[w] # "idle", job'[w] \in Copy
  PROVE  /\ job'[w] = job[w]
         /\ outcome[w] = "ok" => outcome'[w] = "ok" /\ (attached'[w] => attached[w])
BY NoCopyAssumption
   DEF QueueInv, QueueTypeOK, CopiesCarryMails, queueVars, QueueNext, QueueStep,
   HandleDataAccepts, HandleDataUnconfirmed, ReplayGet, ReplayPublish, ReplayAck,
   ReplayAborts, DlqPurge, Deliver, Take, HandlerEnds, Ack, RejectAndRequeue, DeadLetter,
   ChannelLost, WorkerStops, FinishJob

\* Whoever works on a copy of an archived mail finds the mail's row.
LEMMA CopyFindsRow ==
  ASSUME TablesArchived, NEW row \in messages, NEW w \in Worker, step[w] # "idle",
         Fingerprint[body[job[w]]] = row.hash
  PROVE  hash(w) = row.hash /\ dedup[hash(w)] = RefOf(row) /\ RefOf(row) # NoRow
<1> USE DEF TablesArchived, PurgeInv, RunInv
<1>1. hash(w) = row.hash
  BY DEF RunOfJob, hash
<1>2. RefOf(row) \in RowRef
  BY RefOfType DEF TypeInv, PipelineTypeOK, StoreTypeOK
<1>3. QED
  BY <1>1, <1>2, NoRowAssumption DEF ArchiveTables, DedupIsExact

\* A copy that is to make its row searchable has done so, or still is.
LEMMA PendingStep ==
  ASSUME TablesArchived, [PipelineNext]_pipelineVars, NEW row \in messages,
         NEW c \in Copy, MakesSearchable(c, row), RefOf(row) \notin docs'
  PROVE  \E d \in Copy : MakesSearchable(d, row)'
<1> USE DEF TablesArchived, PurgeInv, RunInv
<1>1. [QueueNext]_queueVars /\ TypeInv'
  BY PipelineStepIsQueueStep, RunInvStep
<1>2. \A w \in Worker : Ack(w) => job[w] # c
  BY DEF MakesSearchable, Ack
<1>3. \/ body'[c] = body[c] /\ Unfinished(c)'
      \/ \E d \in Copy : /\ body'[d] = body[c] /\ place'[d] = "ready"
                         /\ \A w \in Worker : job'[w] # d
  BY <1>1, <1>2, StillPending DEF MakesSearchable
<1>4. CASE \E d \in Copy : /\ body'[d] = body[c] /\ place'[d] = "ready"
                          /\ \A w \in Worker : job'[w] # d
  BY <1>4 DEF MakesSearchable, Unfinished
<1>5. CASE body'[c] = body[c] /\ Unfinished(c)'
  <2> DEFINE Goal(w) == /\ outcome'[w] = "ok" => ~attached'[w]
                        /\ step'[w] # "event"
                        /\ step'[w] \in {"index", "reindex"} => target'[w] = RefOf(row)
  <2>1. SUFFICES ASSUME NEW w \in Worker, job'[w] = c
                 PROVE  Goal(w)
    BY <1>5 DEF MakesSearchable
  <2>2. outcome[w] # "idle" => job[w] = c
    BY <1>1, <2>1, JobStep
  <2>3. step[w] # "idle" => job[w] = c /\ hash(w) = row.hash
                            /\ dedup[hash(w)] = RefOf(row) /\ RefOf(row) # NoRow
    BY <2>2, CopyFindsRow DEF RunOfJob, MakesSearchable
  <2>4. ~Index(w) /\ ~Reindex(w)
    BY <2>3 DEF Index, Reindex, IndexTarget, MakesSearchable, TypeInv, PipelineTypeOK, StoreTypeOK
  <2>5. outcome'[w] = "ok" => ~attached'[w]
    <3>1. CASE outcome[w] = "ok"
      BY <1>1, <2>1, <2>2, <3>1, JobStep DEF MakesSearchable
    <3>2. CASE outcome[w] # "ok"
      BY <2>3, <2>4, <3>2, OkReason DEF Announce, Recheck, MakesSearchable, TypeInv, PipelineTypeOK
    <3>3. QED
      BY <3>1, <3>2
  <2>6. step'[w] # "event" /\ (step'[w] \in {"index", "reindex"} => target'[w] = RefOf(row))
    <3>1. CASE UNCHANGED <<step[w], target[w]>>
      BY <2>3, <3>1 DEF MakesSearchable
    <3>2. CASE Precheck(w) \/ Recheck(w)
      BY <2>3, <3>2
         DEF Precheck, Recheck, GoTo, ProcessEnds, ForgetRun, TypeInv, PipelineTypeOK
    <3>3. CASE PutBody(w) \/ PutAttachment(w) \/ Upsert(w) \/ CommitConflict(w)
      BY <3>3
         DEF PutBody, PutAttachment, Upsert, CommitConflict, GoTo, AfterAttachments, TypeInv,
         PipelineTypeOK
    <3>4. ~Commit(w)
      BY <2>3 DEF Commit, Committed
    <3>5. QED
      BY <2>4, <3>1, <3>2, <3>3, <3>4, RunStep
  <2>7. QED
    BY <2>5, <2>6
<1>6. QED
  BY <1>3, <1>4, <1>5

\* The copy of a call under way is neither settled nor about to be by another
\* worker.
CallsAreAlone ==
  \A v \in Worker : outcome[v] = "running" =>
    /\ place[job[v]] \in {"ready", "held"}
    /\ \A w \in Worker : w # v /\ job[w] = job[v] => ~attached[w]

LEMMA CallsAreAloneStep ==
  ASSUME QueueInv, CallsAreAlone, OneCallPerCopy', [QueueNext]_queueVars
  PROVE  CallsAreAlone'
<1> USE DEF QueueInv, QueueTypeOK
<1>1. SUFFICES ASSUME NEW v \in Worker, outcome'[v] = "running"
               PROVE  /\ place'[job'[v]] \in {"ready", "held"}
                      /\ \A w \in Worker : w # v /\ job'[w] = job'[v] => ~attached'[w]
  BY DEF CallsAreAlone
<1>2. ASSUME NEW w \in Worker, NEW c \in Copy, Take(w, c)
      PROVE  /\ place'[job'[v]] \in {"ready", "held"}
             /\ \A u \in Worker : u # v /\ job'[u] = job'[v] => ~attached'[u]
  <2>1. place' = place /\ job'[w] = c /\ outcome'[w] = "running" /\ place[c] = "held"
        /\ holder[c] = w
    BY <1>2 DEF Take, HeldBy
  <2>2. \A u \in Worker : u # w => job'[u] = job[u] /\ attached'[u] = attached[u]
                                   /\ outcome'[u] = outcome[u]
    BY <1>2 DEF Take
  <2>3. CASE v = w
    <3>1. \A u \in Worker : u # w /\ job[u] = c => ~attached[u]
      BY <2>1 DEF SettlerOwnsCopy, HeldBy
    <3>2. QED
      BY <2>1, <2>2, <2>3, <3>1
  <2>4. CASE v # w
    <3>1. job'[v] # job'[w]
      BY <1>1, <2>1, <2>4 DEF OneCallPerCopy
    <3>2. QED
      BY <1>1, <2>1, <2>2, <2>4, <3>1 DEF CallsAreAlone
  <2>5. QED
    BY <2>3, <2>4
<1>3. CASE ~ \E w \in Worker, c \in Copy : Take(w, c)
  <2>1. /\ outcome[v] = "running" /\ job'[v] = job[v] /\ job[v] \in Copy
        /\ \A w \in Worker : \/ job'[w] = job[w] /\ (attached'[w] => attached[w])
                             \/ job'[w] = NoCopy
    BY <1>1, <1>3, NoCopyAssumption
       DEF CopiesCarryMails, queueVars, QueueNext, QueueStep, HandleDataAccepts,
       HandleDataUnconfirmed, ReplayGet, ReplayPublish, ReplayAck, ReplayAborts, DlqPurge,
       Deliver, HandlerEnds, Ack, RejectAndRequeue, DeadLetter, ChannelLost, WorkerStops,
       FinishJob
  <2>2. /\ place[job[v]] \in {"ready", "held"}
        /\ \A w \in Worker : w # v /\ job[w] = job[v] => ~attached[w]
    BY <2>1 DEF CallsAreAlone
  <2>3. \A w \in Worker : Ack(w) \/ RejectAndRequeue(w) \/ DeadLetter(w) => job[w] # job[v]
    BY <2>1, <2>2 DEF Ack, RejectAndRequeue, DeadLetter
  <2>4. place'[job[v]] \in {"ready", "held"}
    BY <1>3, <2>1, <2>2, <2>3
       DEF queueVars, QueueNext, QueueStep, HandleDataAccepts, HandleDataUnconfirmed, Publish,
       ReplayGet, ReplayPublish, ReplayAck, ReplayAborts, DlqPurge, Deliver, HandlerEnds, Ack,
       RejectAndRequeue, DeadLetter, ChannelLost, WorkerStops, Requeue
  <2>5. QED
    BY <2>1, <2>2, <2>4, NoCopyAssumption
<1>4. QED
  BY <1>2, <1>3

\* A row is committed by the only call on its copy, which nobody else settles.
LEMMA CommitPending ==
  ASSUME TablesArchived, CallsAreAlone, OneCallPerCopy, [PipelineNext]_pipelineVars,
         NEW row \in messages', row \notin messages
  PROVE  \E c \in Copy : MakesSearchable(c, row)'
<1> USE DEF TablesArchived, PurgeInv, RunInv, TypeInv, PipelineTypeOK
<1>1. PICK v \in Worker : Commit(v) \/ CommitUnanswered(v)
  BY CommitStep DEF tables
<1>2. step[v] = "commit" /\ Committed(v) /\ outcome[v] = "running"
  BY <1>1 DEF Commit, CommitUnanswered, RunOfJob
<1>3. /\ row = [id |-> nextId, day |-> signedAt[v], hash |-> hash(v), raw |-> raw[v]]
      /\ RefOf(row) = [id |-> nextId, day |-> signedAt[v]]
  BY <1>2 DEF Committed, RefOf
<1>4. PICK c \in Copy :
        job[v] = c /\ place[c] \in {"ready", "held"} /\ raw[v] = body[c] /\ raw[v] \in Mail
  BY <1>2, NoCopyAssumption
     DEF CallsAreAlone, QueueInv, QueueTypeOK, CopiesCarryMails, RunOfJob, RunShape
<1>5. UNCHANGED <<place, body, job>>
  BY <1>1 DEF Commit, CommitUnanswered, ProcessEnds, HandlerEnds, queueVars
<1>6. /\ step'[v] \in {"index", "idle"} /\ outcome'[v] # "ok"
      /\ step'[v] = "index" => target'[v] = RefOf(row)
  BY <1>1, <1>2, <1>3
     DEF Commit, CommitUnanswered, ProcessEnds, HandlerEnds, GoTo, ForgetRun, queueVars,
     QueueInv, QueueTypeOK
<1>7. ASSUME NEW w \in Worker, w # v, job[w] = c
      PROVE  step'[w] = "idle" /\ ~attached'[w]
  <2>1. ~attached[w]
    BY <1>2, <1>4, <1>7 DEF CallsAreAlone
  <2>2. step[w] = "idle"
    BY <1>2, <1>4, <1>7 DEF OneCallPerCopy, RunOfJob
  <2>3. QED
    BY <1>1, <1>7, <2>1, <2>2
       DEF Commit, CommitUnanswered, ProcessEnds, HandlerEnds, GoTo, ForgetRun, queueVars
<1>8. MakesSearchable(c, row)'
  <2>1. body'[c] # NoMail /\ Fingerprint[body'[c]] = row.hash
    BY <1>3, <1>4, <1>5, SharedNullAssumption DEF hash
  <2>2. QED
    BY <1>4, <1>5, <1>6, <1>7, <2>1 DEF MakesSearchable, Unfinished
<1>9. QED
  BY <1>8

LEMMA SearchableStep ==
  ASSUME TablesArchived, CallsAreAlone, OneCallPerCopy, SearchableOrPending,
         [ArchiveNext]_archiveVars
  PROVE  SearchableOrPending'
<1> USE DEF TablesArchived, PurgeInv
<1>1. SUFFICES ASSUME NEW row \in messages', row.day + RetentionDays >= today'
               PROVE  RefOf(row) \in docs' \/ \E c \in Copy : MakesSearchable(c, row)'
  BY DEF SearchableOrPending, RefOf
<1>2. CASE [PipelineNext]_pipelineVars
  <2>1. CASE row \notin messages
    BY <1>2, <2>1, CommitPending
  <2>2. CASE row \in messages
    <3>1. docs \subseteq docs'
      BY <1>2, StoresOnlyGrow
    <3>2. row.day + RetentionDays >= today
      <4>1. /\ today \in Nat /\ today' \in Nat /\ today <= today'
            /\ row.day \in Nat /\ RetentionDays \in Nat
        BY <1>2, <2>2, CalendarStep, CalendarTypes
           DEF RunInv, TypeInv, PipelineTypeOK, Day
      <4>2. QED
        BY <1>1, <4>1
    <3>3. RefOf(row) \in docs \/ \E c \in Copy : MakesSearchable(c, row)
      BY <2>2, <3>2 DEF SearchableOrPending
    <3>4. QED
      BY <1>2, <2>2, <3>1, <3>3, PendingStep
  <2>3. QED
    BY <2>1, <2>2
<1>3. CASE PurgeStepOf
  <2>1. row \in messages /\ today' = today
    BY <1>3, PurgeTables DEF PurgeStepOf, PurgeCommits, tables
  <2>2. RefOf(row) \in docs \/ \E c \in Copy : MakesSearchable(c, row)
    BY <1>1, <2>1 DEF SearchableOrPending
  <2>3. ASSUME NEW c \in Copy, MakesSearchable(c, row) PROVE MakesSearchable(c, row)'
    BY <1>3, <2>3 DEF PurgeStepOf, MakesSearchable, Unfinished, runVars, queueVars
  <2>4. ASSUME RefOf(row) \in docs PROVE RefOf(row) \in docs'
    <3>1. CASE DropOldIndices
      <4>1. ~BeforeCutoffDay(row.day)
        <5>1. /\ today \in Nat /\ ranOn \in Nat /\ RetentionDays \in Nat /\ row.day \in Nat
              /\ ranOn <= today
          BY <2>1, CalendarTypes DEF PurgeShape
        <5>2. QED
          BY <1>1, <2>1, <5>1 DEF BeforeCutoffDay
      <4>2. QED
        BY <2>4, <3>1, <4>1 DEF DropOldIndices, RefOf
    <3>2. CASE ~DropOldIndices
      BY <1>3, <2>4, <3>2
         DEF PurgeStepOf, RetentionStep, RunStarts, SelectExpired, NextRow, CountDown,
         CollectAttachment, PurgeRow, PurgeCommits, PurgeFails, SetLegalHold, storeVars
    <3>3. QED
      BY <3>1, <3>2
  <2>5. QED
    BY <2>2, <2>3, <2>4
<1>4. QED
  BY <1>2, <1>3, ArchiveSteps

\* While no copy is in two calls, a message that is still kept has its search
\* document or a copy that will bring it: the index of a day is never dropped
\* while a message of that day is kept, and no acknowledgement comes before the
\* document of the row that is in the table then.
THEOREM SearchableCorrect ==
  ArchiveSpec /\ []OneCallPerCopy => []RetainedIsSearchableOrPending
<1>1. ArchiveInit => SearchableOrPending /\ CallsAreAlone
  BY DEF ArchiveInit, PipelineInit, QueueInit, StoreInit, SearchableOrPending, CallsAreAlone
<1>2. TablesArchived /\ CallsAreAlone /\ OneCallPerCopy' /\ [ArchiveNext]_archiveVars
        => CallsAreAlone'
  <2>1. [ArchiveNext]_archiveVars => [QueueNext]_queueVars
    BY ArchiveSteps, PipelineStepIsQueueStep DEF PurgeStepOf
  <2>2. QED
    BY <2>1, CallsAreAloneStep DEF TablesArchived, PurgeInv, RunInv
<1>3. TablesArchived /\ CallsAreAlone /\ OneCallPerCopy /\ SearchableOrPending
        /\ [ArchiveNext]_archiveVars => SearchableOrPending'
  BY SearchableStep
<1>4. SearchableOrPending => RetainedIsSearchableOrPending
  BY DEF SearchableOrPending, RetainedIsSearchableOrPending, MakesSearchable
<1>5. QED
  BY <1>1, <1>2, <1>3, <1>4, TablesArchivedHolds, PTL DEF ArchiveSpec

\* Where that is so: no worker goes on with a delivery whose channel it has lost.
THEOREM SearchableWithoutLoss ==
  ArchiveSpec /\ [](\A w \in Worker : outcome[w] = "running" => attached[w])
    => []RetainedIsSearchableOrPending
<1>1. RunInv /\ (\A w \in Worker : outcome[w] = "running" => attached[w]) => OneCallPerCopy
  BY DEF RunInv, QueueInv, SettlerOwnsCopy, HeldBy, OneCallPerCopy
<1>2. TablesArchived => RunInv
  BY DEF TablesArchived, PurgeInv
<1>3. QED
  BY <1>1, <1>2, TablesArchivedHolds, SearchableCorrect, PTL

-----------------------------------------------------------------------------
(* What the archive promises of a message                                  *)

\* Documents, and what calls are going to index, have ids that are given away,
\* and a call was signed today or before.
RefsAreUsed ==
  /\ \A doc \in docs : doc.id < nextId
  /\ \A w \in Worker : step[w] \in Indexing => target[w].id < nextId

SignedByNow == \A w \in Worker : signedAt[w] <= today

RefsAndDates == RefsAreUsed /\ SignedByNow

\* What dedup knows has an id below the next one.
LEMMA DedupIsUsed ==
  ASSUME TablesArchived, NEW h \in Hash, dedup[h] # NoRow
  PROVE  dedup[h].id < nextId
<1>1. PICK row \in messages : RefOf(row) = dedup[h]
  BY DEF TablesArchived, ArchiveTables, DedupIsExact
<1>2. dedup[h].id = row.id
  BY <1>1 DEF RefOf
<1>3. QED
  BY <1>2 DEF TablesArchived, ArchiveTables, IdsAreFresh

LEMMA RefsAreUsedStep ==
  ASSUME TablesArchived, RefsAreUsed, [ArchiveNext]_archiveVars
  PROVE  RefsAreUsed'
<1> USE DEF TablesArchived, PurgeInv, RunInv
<1>1. nextId \in Nat /\ nextId' \in Nat /\ nextId <= nextId'
  <2>1. nextId \in Nat
    BY DEF TypeInv, PipelineTypeOK, StoreTypeOK, Id
  <2>2. nextId' = nextId \/ nextId' = nextId + 1
    BY TablesStep, PurgeTables, ArchiveSteps DEF tables, Committed, PurgeStepOf
  <2>3. QED
    BY <2>1, <2>2
<1>2. \A ref \in RowRef : ref.id < nextId => ref.id < nextId'
  BY <1>1 DEF RowRef, Id
<1>3. /\ \A doc \in docs : doc \in RowRef /\ doc.id < nextId
      /\ \A w \in Worker : step[w] \in Indexing => target[w] \in RowRef /\ target[w].id < nextId
  BY DEF RefsAreUsed, TypeInv, PipelineTypeOK, StoreTypeOK, RunShape
<1>4. CASE [PipelineNext]_pipelineVars
  <2>1. \A doc \in docs' : doc.id < nextId'
    BY <1>2, <1>3, <1>4, DocsStep
  <2>2. SUFFICES ASSUME NEW v \in Worker, step'[v] \in Indexing
                 PROVE  target'[v].id < nextId'
    BY <2>1 DEF RefsAreUsed
  <2>3. CASE step[v] \in Indexing /\ target'[v] = target[v]
    BY <1>2, <1>3, <2>3
  <2>4. CASE Precheck(v) \/ Recheck(v)
    <3>1. target'[v] = dedup[hash(v)] /\ dedup[hash(v)] # NoRow /\ step[v] # "idle"
      BY <2>2, <2>4
         DEF Precheck, Recheck, ProcessEnds, ForgetRun, GoTo, Indexing, TypeInv, PipelineTypeOK
    <3>2. target'[v].id < nextId /\ target'[v] \in RowRef
      BY <3>1, HashType, DedupIsUsed DEF TypeInv, PipelineTypeOK, StoreTypeOK
    <3>3. QED
      BY <1>2, <3>2
  <2>5. CASE Commit(v)
    <3>1. target'[v].id = nextId /\ nextId' = nextId + 1
      BY <2>5 DEF Commit, Committed, TypeInv, PipelineTypeOK
    <3>2. QED
      BY <1>1, <3>1
  <2>6. QED
    BY <1>4, <2>2, <2>3, <2>4, <2>5, RunStep
       DEF Indexing, PutBody, PutAttachment, Upsert, CommitConflict, Index, GoTo,
       AfterAttachments, TypeInv, PipelineTypeOK
<1>5. CASE PurgeStepOf
  <2>1. docs' \subseteq docs
    BY <1>5
       DEF PurgeStepOf, RetentionStep, RunStarts, DropOldIndices, SelectExpired, NextRow,
       CountDown, CollectAttachment, PurgeRow, PurgeCommits, PurgeFails, SetLegalHold,
       storeVars
  <2>2. QED
    BY <1>2, <1>3, <1>5, <2>1 DEF PurgeStepOf, runVars, RefsAreUsed
<1>6. QED
  BY <1>4, <1>5, ArchiveSteps

LEMMA SignedByNowStep ==
  ASSUME TablesArchived, SignedByNow, [ArchiveNext]_archiveVars
  PROVE  SignedByNow'
<1> USE DEF TablesArchived, PurgeInv, RunInv, TypeInv
<1>1. signedAt \in [Worker -> Day] /\ today \in Day
  BY DEF PipelineTypeOK, StoreTypeOK
<1>2. CASE [PipelineNext]_pipelineVars
  <2>1. today' \in Day /\ today <= today'
    BY <1>2, CalendarStep DEF PipelineTypeOK
  <2>2. \A w \in Worker : signedAt'[w] \in {signedAt[w], 0, today}
    BY <1>1, <1>2
       DEF pipelineVars, runVars, PipelineNext, Tick, Begin, PipelineStep, PipelineFault,
       ParseRaises, Precheck, PutBody, PutAttachment, Upsert, Commit, CommitConflict, Recheck,
       Index, Reindex, Announce, DeadlockVictim, StoreFails, DatabaseFails, CommitUnanswered,
       WorkerEnds, ProcessEnds, ForgetRun
  <2>3. QED
    BY <1>1, <2>1, <2>2 DEF SignedByNow, Day
<1>3. CASE PurgeStepOf
  BY <1>3, PurgeTables DEF PurgeStepOf, runVars, SignedByNow
<1>4. QED
  BY <1>2, <1>3, ArchiveSteps

LEMMA RefsAndDatesHold == ArchiveSpec => []RefsAndDates
<1>1. ArchiveInit => RefsAndDates
  BY DEF ArchiveInit, PipelineInit, StoreInit, RefsAndDates, RefsAreUsed, SignedByNow, Indexing
<1>2. TablesArchived /\ RefsAndDates /\ [ArchiveNext]_archiveVars => RefsAndDates'
  BY RefsAreUsedStep, SignedByNowStep DEF RefsAndDates
<1>3. QED
  BY <1>1, <1>2, TablesArchivedHolds, PTL DEF ArchiveSpec

\* Rows that share their fingerprint or their reference are one row.
LEMMA OneRowEach ==
  ASSUME TablesArchived, NEW r \in messages, NEW q \in messages,
         r.hash = q.hash \/ RefOf(r) = RefOf(q)
  PROVE  r = q
<1>1. RefOf(r) = RefOf(q)
  BY DEF TablesArchived, ArchiveTables, DedupIsExact
<1>2. QED
  BY <1>1 DEF TablesArchived, ArchiveTables, IdsAreUnique, RefOf

\* Locks, links, counters, attachments and the queue are no part of the promise.
LEMMA RetainedHidden ==
  ASSUME UNCHANGED <<messages, bodyBlob, docs, today>>
  PROVE  UNCHANGED Retaining!vars
BY DEF Retaining!vars, Kept, Readable, Found

LEMMA MidnightMaps ==
  ASSUME Tick
  PROVE  Retaining!Midnight
BY DEF Tick, Retaining!Midnight, Kept, Readable, Found

LEMMA PutBodyMaps ==
  ASSUME RunInv, NEW w \in Worker, PutBody(w)
  PROVE  Retaining!Store(hash(w)) /\ hash(w) \in Hash
<1> USE DEF RunInv, TypeInv, PipelineTypeOK, StoreTypeOK
<1>1. hash(w) \in Hash /\ raw[w] \in Mail
  BY HashType DEF PutBody, RunShape
<1>2. Readable' = Readable \cup {hash(w)}
  BY <1>1, SharedNullAssumption DEF PutBody, Readable
<1>3. UNCHANGED <<messages, docs, today>>
  BY DEF PutBody
<1>4. QED
  BY <1>1, <1>2, <1>3 DEF Retaining!Store, Kept, Found

\* The row of a commit is the first of its fingerprint, and no document has its
\* id yet.
LEMMA KeepMaps ==
  ASSUME TablesArchived, CallsInv, RefsAndDates, NEW w \in Worker,
         step[w] = "commit", Committed(w)
  PROVE  Retaining!Keep(hash(w), signedAt[w]) /\ hash(w) \in Hash /\ signedAt[w] \in 0..today
<1> USE DEF TablesArchived, PurgeInv, RunInv, TypeInv, PipelineTypeOK, StoreTypeOK
<1> DEFINE row == [id |-> nextId, day |-> signedAt[w], hash |-> hash(w), raw |-> raw[w]]
<1>1. /\ messages' = messages \cup {row} /\ dedup[hash(w)] = NoRow
      /\ UNCHANGED <<bodyBlob, docs, today>>
  BY DEF Committed
<1>2. hash(w) \in Hash
  BY HashType
<1>3. signedAt[w] \in 0..today
  BY DEF RefsAndDates, SignedByNow, Day
<1>4. hash(w) \in Readable
  BY <1>2 DEF CallsInv, CallsAreCurrent, Storing, Readable
<1>5. \A m \in Kept : m.hash # hash(w)
  <2>1. \A r \in messages : dedup[r.hash] \in RowRef
    BY RefOfType DEF ArchiveTables, DedupIsExact
  <2>2. \A r \in messages : r.hash # hash(w)
    BY <1>1, <2>1, NoRowAssumption
  <2>3. QED
    BY <2>2 DEF Kept, EntryOf
<1>6. Kept' = Kept \cup {[hash |-> hash(w), day |-> signedAt[w]]}
  <2>1. EntryOf(row) = [hash |-> hash(w), day |-> signedAt[w]]
    BY DEF EntryOf
  <2>2. QED
    BY <1>1, <2>1 DEF Kept
<1>7. Found' = Found
  <2>1. RefOf(row) \notin docs
    BY DEF RefsAndDates, RefsAreUsed, RefOf, Id
  <2>2. {r \in messages' : RefOf(r) \in docs'} = {r \in messages : RefOf(r) \in docs}
    BY <1>1, <2>1
  <2>3. QED
    BY <2>2 DEF Found
<1>8. Readable' = Readable
  BY <1>1 DEF Readable
<1>9. QED
  BY <1>1, <1>2, <1>3, <1>4, <1>5, <1>6, <1>7, <1>8 DEF Retaining!Keep

\* Indexing adds the row's entry, or a document of a row that has been purged.
LEMMA FoundMaps ==
  ASSUME TablesArchived, NEW w \in Worker, step[w] \in Indexing, IndexTarget(w)
  PROVE  UNCHANGED Retaining!vars \/ \E m \in Kept : Retaining!Index(m)
<1>1. docs' = docs \cup {target[w]} /\ UNCHANGED <<messages, bodyBlob, today>>
  BY DEF IndexTarget
<1>2. Kept' = Kept /\ Readable' = Readable /\ today' = today
  BY <1>1 DEF Kept, Readable
<1>3. CASE \E row \in messages : RefOf(row) = target[w]
  <2>1. PICK row \in messages : RefOf(row) = target[w]
    BY <1>3
  <2>2. {r \in messages' : RefOf(r) \in docs'} = {r \in messages : RefOf(r) \in docs} \cup {row}
    BY <1>1, <2>1, OneRowEach
  <2>3. Found' = Found \cup {EntryOf(row)}
    BY <2>2 DEF Found
  <2>4. EntryOf(row) \in Kept
    BY DEF Kept
  <2>5. QED
    BY <1>2, <2>3, <2>4 DEF Retaining!Index
<1>4. CASE ~ \E row \in messages : RefOf(row) = target[w]
  <2>1. {r \in messages' : RefOf(r) \in docs'} = {r \in messages : RefOf(r) \in docs}
    BY <1>1, <1>4
  <2>2. Found' = Found
    BY <2>1 DEF Found
  <2>3. QED
    BY <1>2, <2>2 DEF Retaining!vars
<1>5. QED
  BY <1>3, <1>4

\* A row the purge has selected is over for the promise, too.
LEMMA SelectedIsOver ==
  ASSUME TablesArchived, NEW row \in Selected
  PROVE  row \in messages /\ EntryOf(row) \in Kept /\ Retaining!Over(EntryOf(row))
<1>1. row \in messages /\ row.day + RetentionDays <= ranOn /\ ranOn <= today
  BY DEF TablesArchived, PurgeInv, SelectedAreExpired, PurgeShape
<1>2. row.day + RetentionDays <= today
  BY <1>1, CalendarTypes DEF TablesArchived
<1>3. QED
  BY <1>1, <1>2 DEF EntryOf, Kept, Retaining!Over

LEMMA PurgeRowMaps ==
  ASSUME TablesArchived, PurgeRow
  PROVE  \E m \in Kept : Retaining!Erase(m)
<1>1. EntryOf(purging) \in Kept /\ Retaining!Over(EntryOf(purging))
  BY SelectedIsOver DEF PurgeRow, Selected
<1>2. bodyBlob \in [Hash -> Mail \cup {NoMail}]
  BY DEF TablesArchived, PurgeInv, RunInv, TypeInv, PipelineTypeOK, StoreTypeOK
<1>3. Readable' = Readable \ {EntryOf(purging).hash}
  BY <1>2 DEF PurgeRow, Readable, EntryOf
<1>4. UNCHANGED <<today, Kept, Found>>
  BY DEF PurgeRow, Kept, Found
<1>5. QED
  BY <1>1, <1>3, <1>4 DEF Retaining!Erase

LEMMA DropMaps ==
  ASSUME TablesArchived, DropOldIndices
  PROVE  Retaining!DropIndices
<1>1. /\ UNCHANGED <<messages, bodyBlob, today>>
      /\ \A doc \in docs \ docs' : BeforeCutoffDay(doc.day)
      /\ docs' \subseteq docs
  BY DEF DropOldIndices
<1>2. UNCHANGED <<today, Kept, Readable>>
  BY <1>1 DEF Kept, Readable
<1>3. Found' \subseteq Found
  BY <1>1 DEF Found
<1>4. ASSUME NEW m \in Found \ Found'
      PROVE  Retaining!Over(m) /\ m.day + RetentionDays # today
  <2>1. PICK row \in messages : RefOf(row) \in docs \ docs' /\ m = EntryOf(row)
    BY <1>1, <1>4 DEF Found
  <2>2. m.day = row.day /\ row.day + RetentionDays < ranOn /\ ranOn <= today
    BY <1>1, <2>1 DEF BeforeCutoffDay, RefOf, EntryOf, TablesArchived, PurgeInv, PurgeShape
  <2>3. QED
    BY <2>2, CalendarTypes DEF TablesArchived, Retaining!Over
<1>5. QED
  BY <1>2, <1>3, <1>4 DEF Retaining!DropIndices

LEMMA PurgeCommitMaps ==
  ASSUME TablesArchived, PurgeCommits
  PROVE  \E gone \in SUBSET Kept : Retaining!Remove(gone)
<1> DEFINE gone == {EntryOf(row) : row \in done}
<1>1. gone \subseteq Kept /\ \A m \in gone : Retaining!Over(m)
  BY SelectedIsOver DEF Selected
<1>2. messages' = messages \ done /\ UNCHANGED <<today, bodyBlob, docs>>
  BY DEF PurgeCommits
<1>3. \A row \in messages : EntryOf(row) \in gone <=> row \in done
  <2>1. done \subseteq messages
    BY DoneAtCommit
  <2>2. \A r, q \in messages : EntryOf(r) = EntryOf(q) => r = q
    BY OneRowEach DEF EntryOf
  <2>3. QED
    BY <2>1, <2>2
<1>4. Kept' = Kept \ gone
  BY <1>2, <1>3 DEF Kept
<1>5. Found' = Found \ gone
  BY <1>2, <1>3 DEF Found
<1>6. Readable' = Readable
  BY <1>2 DEF Readable
<1>7. QED
  BY <1>1, <1>2, <1>4, <1>5, <1>6 DEF Retaining!Remove

LEMMA RetainedStep ==
  ASSUME TablesArchived, CallsInv, RefsAndDates, [ArchiveNext]_archiveVars
  PROVE  [Retaining!Next]_(Retaining!vars)
<1> DEFINE Goal == [Retaining!Next]_(Retaining!vars)
<1>1. ASSUME UNCHANGED <<messages, bodyBlob, docs, today>> PROVE Goal
  BY <1>1, RetainedHidden
<1>2. CASE [PipelineNext]_pipelineVars
  <2>1. CASE Tick
    BY <2>1, MidnightMaps DEF Retaining!Next
  <2>2. ASSUME NEW w \in Worker, PutBody(w) PROVE Goal
    BY <2>2, PutBodyMaps DEF Retaining!Next, TablesArchived, PurgeInv
  <2>3. ASSUME NEW w \in Worker, Commit(w) \/ CommitUnanswered(w) PROVE Goal
    <3>1. step[w] = "commit" /\ Committed(w)
      BY <2>3 DEF Commit, CommitUnanswered
    <3>2. QED
      BY <3>1, KeepMaps DEF Retaining!Next
  <2>4. ASSUME NEW w \in Worker, Index(w) \/ Reindex(w) PROVE Goal
    <3>1. step[w] \in Indexing /\ IndexTarget(w)
      BY <2>4 DEF Index, Reindex, Indexing
    <3>2. QED
      BY <3>1, FoundMaps DEF Retaining!Next
  <2>5. \/ UNCHANGED <<messages, bodyBlob, docs, today>>
        \/ Tick
        \/ \E w \in Worker : \/ PutBody(w) \/ Commit(w) \/ CommitUnanswered(w)
                             \/ Index(w) \/ Reindex(w)
    BY <1>2
       DEF pipelineVars, storeVars, PipelineNext, Begin, PipelineStep, PipelineFault,
       ParseRaises, Precheck, PutAttachment, Upsert, CommitConflict, Recheck, Announce,
       DeadlockVictim, StoreFails, DatabaseFails, WorkerEnds, Rollback
  <2>6. QED
    BY <1>1, <2>1, <2>2, <2>3, <2>4, <2>5
<1>3. CASE PurgeStepOf
  <2>1. CASE PurgeRow
    BY <2>1, PurgeRowMaps DEF Retaining!Next
  <2>2. CASE DropOldIndices
    BY <2>2, DropMaps DEF Retaining!Next
  <2>3. CASE PurgeCommits
    BY <2>3, PurgeCommitMaps DEF Retaining!Next
  <2>4. CASE ~PurgeRow /\ ~DropOldIndices /\ ~PurgeCommits
    BY <1>1, <1>3, <2>4
       DEF PurgeStepOf, RetentionStep, RunStarts, SelectExpired, NextRow, CountDown,
       CollectAttachment, PurgeFails, SetLegalHold, storeVars
  <2>5. QED
    BY <2>1, <2>2, <2>3, <2>4
<1>4. QED
  BY <1>2, <1>3, ArchiveSteps

\* Ingestion and purge together implement RetainedArchive: every step of a
\* worker, of the purge or of an administrator is one that the promise allows
\* or none at all, whatever fails and however often.
THEOREM ArchiveImplementsRetained == ArchiveSpec => ImplementsRetainedArchive
<1>1. ArchiveInit => Retaining!Init
  BY DEF ArchiveInit, PipelineInit, StoreInit, Retaining!Init, Kept, Readable, Found
<1>2. TablesArchived /\ CallsInv /\ RefsAndDates /\ [ArchiveNext]_archiveVars
        => [Retaining!Next]_(Retaining!vars)
  BY RetainedStep
<1>3. QED
  BY <1>1, <1>2, TablesArchivedHolds, CallsInvHolds, RefsAndDatesHold, PTL
     DEF ArchiveSpec, ImplementsRetainedArchive, Retaining!Spec

-----------------------------------------------------------------------------
\* What the promise amounts to, from RetainedArchive's own steps.
PromiseInv ==
  /\ Retaining!RetentionKept
  /\ today \in Nat /\ \A m \in Kept : m.day \in Nat

LEMMA PromiseStep ==
  ASSUME PromiseInv, [Retaining!Next]_(Retaining!vars)
  PROVE  PromiseInv'
<1> USE RetentionAssumption DEF PromiseInv, Retaining!RetentionKept, Retaining!Over
<1>1. CASE UNCHANGED Retaining!vars
  BY <1>1 DEF Retaining!vars
<1>2. CASE Retaining!Midnight
  BY <1>2 DEF Retaining!Midnight
<1>3. ASSUME NEW h \in Hash, Retaining!Store(h) PROVE PromiseInv'
  BY <1>3 DEF Retaining!Store
<1>4. ASSUME NEW h \in Hash, NEW day \in 0..today, Retaining!Keep(h, day) PROVE PromiseInv'
  <2>1. \A m \in Kept' : m \in Kept \/ m = [hash |-> h, day |-> day]
    BY <1>4 DEF Retaining!Keep
  <2>2. \A m \in Kept : m.hash # h
    BY <1>4 DEF Retaining!Keep
  <2>3. UNCHANGED <<today, Readable, Found>> /\ Kept \subseteq Kept' /\ h \in Readable
    BY <1>4 DEF Retaining!Keep
  <2>4. QED
    BY <2>1, <2>2, <2>3
<1>5. ASSUME NEW m \in Kept, Retaining!Index(m) PROVE PromiseInv'
  BY <1>5 DEF Retaining!Index
<1>6. ASSUME NEW m \in Kept, Retaining!Erase(m) PROVE PromiseInv'
  BY <1>6 DEF Retaining!Erase
<1>7. CASE Retaining!DropIndices
  BY <1>7 DEF Retaining!DropIndices
<1>8. ASSUME NEW gone \in SUBSET Kept, Retaining!Remove(gone) PROVE PromiseInv'
  BY <1>8 DEF Retaining!Remove
<1>9. QED
  BY <1>1, <1>2, <1>3, <1>4, <1>5, <1>6, <1>7, <1>8 DEF Retaining!Next

\* Shown of RetainedArchive, and so of what implements it: a fingerprint is kept
\* once, its body can be read until the retention has run out, and no search
\* finds what is not kept.
THEOREM RetentionPromise == ArchiveSpec => []Retaining!RetentionKept
<1>1. Retaining!Init => PromiseInv
  BY DEF Retaining!Init, Retaining!RetentionKept, PromiseInv
<1>2. PromiseInv /\ [Retaining!Next]_(Retaining!vars) => PromiseInv'
  BY PromiseStep
<1>3. PromiseInv => Retaining!RetentionKept
  BY DEF PromiseInv
<1>4. QED
  BY <1>1, <1>2, <1>3, ArchiveImplementsRetained, PTL
     DEF ImplementsRetainedArchive, Retaining!Spec
=============================================================================
