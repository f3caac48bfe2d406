--------------------------- MODULE RetentionWorker ---------------------------
(***************************************************************************)
(* run_retention (retention_worker/main.py), the nightly purge, and the    *)
(* API's set_legal_hold, on the stores of ArchiveStores.  One purge is one *)
(* transaction; blobs and search indices are deleted outside of it, as the *)
(* purge goes along.                                                       *)
(***************************************************************************)
EXTENDS ArchiveStores

CONSTANTS
  RetentionDays,  \* the setting retention_days; 0 would disable the purge
  BatchLimit      \* .limit(5000)

ASSUME RetentionAssumption ==
  RetentionDays \in Nat \ {0} /\ BatchLimit \in Nat \ {0}

VARIABLES
  onHold,     \* ids of the messages with legal_hold
  purgeStep,  \* where run_retention is
  ranOn,      \* the date of `now` in the last run
  todo,       \* rows the run has selected and not begun
  purging,    \* the row it is at
  attsLeft,   \* attachments of that row it has not counted down yet
  att,        \* the attachment whose counter it found at 0
  counted,    \* ref_count of the Attachment objects in its session
  collected,  \* attachments it has deleted
  done        \* rows it has deleted, not committed

runOfPurge == <<todo, purging, attsLeft, att, counted, collected, done>>
retentionVars == <<onHold, purgeStep, ranOn, runOfPurge>>

PurgeSteps == {"idle", "drop", "select", "row", "count", "blob"}

RetentionTypeOK ==
  /\ onHold \subseteq Id
  /\ purgeStep \in PurgeSteps
  /\ ranOn \in Day
  /\ todo \subseteq MessageRow
  /\ purging \in MessageRow \cup {NoRow}
  /\ attsLeft \subseteq Attachment
  /\ att \in Attachment \cup {NoRow}
  /\ counted \in [Attachment -> Nat]
  /\ collected \subseteq Attachment
  /\ done \subseteq MessageRow

RetentionInit ==
  /\ onHold = {}
  /\ purgeStep = "idle"
  /\ ranOn = 0
  /\ todo = {} /\ purging = NoRow /\ attsLeft = {} /\ att = NoRow
  /\ counted = [a \in Attachment |-> 0] /\ collected = {} /\ done = {}

\* The local variables and the session of a call of run_retention are gone.
ForgetPurge ==
  /\ purgeStep' = "idle"
  /\ todo' = {} /\ purging' = NoRow /\ attsLeft' = {} /\ att' = NoRow
  /\ counted' = [a \in Attachment |-> 0] /\ collected' = {} /\ done' = {}

\* Mutant: the cutoff is a day too late.
OnCutoffDayLate(day) == day + RetentionDays = ranOn + 1

\* How the date of a row or an index compares with the cutoff of the run.
BeforeCutoffDay(day) == day + RetentionDays < ranOn
OnCutoffDay(day)     == day + RetentionDays = ranOn

-----------------------------------------------------------------------------
\* The scheduler starts the job once a night, never twice at a time.
RunStarts ==
  /\ purgeStep = "idle" /\ ranOn < today
  /\ ranOn' = today
  /\ purgeStep' = "drop"
  /\ UNCHANGED <<onHold, runOfPurge, storeVars>>

\* Mutant: idx_day <= cutoff_day.
DropCutoffDayToo ==
  /\ purgeStep = "drop"
  /\ docs' = {doc \in docs : ~BeforeCutoffDay(doc.day) /\ ~OnCutoffDay(doc.day)}
  /\ purgeStep' = "select"
  /\ UNCHANGED <<onHold, ranOn, runOfPurge, messages, dedup, refs, links, rowLock, nextId,
                 bodyBlob, attBlobs, today>>

\* _drop_old_indices: whole daily indices before the cutoff's day.  An index
\* that cannot be dropped, or listed, is left for the next night.
DropOldIndices ==
  /\ purgeStep = "drop"
  /\ \E dropped \in SUBSET {d \in Day : BeforeCutoffDay(d)} :
       docs' = {doc \in docs : doc.day \notin dropped}
  /\ purgeStep' = "select"
  /\ UNCHANGED <<onHold, ranOn, runOfPurge, messages, dedup, refs, links, rowLock, nextId,
                 bodyBlob, attBlobs, today>>

\* Mutant: the cutoff is not applied.
SelectAll ==
  /\ purgeStep = "select"
  /\ todo' = {r \in messages : r.id \notin onHold}
  /\ counted' = refs
  /\ purgeStep' = "row"
  /\ UNCHANGED <<onHold, ranOn, purging, attsLeft, att, collected, done, storeVars>>

\* The batch: rows signed before the cutoff, which lies within a day (some rows
\* of that day are older, some are not), without legal hold; any `limit` of
\* them.  Their attachments are loaded with the counters of this moment.
SelectExpired ==
  /\ purgeStep = "select"
  /\ \E early \in SUBSET {r \in messages : OnCutoffDay(r.day)} :
       LET expired == {r \in messages : /\ BeforeCutoffDay(r.day) \/ r \in early
                                        /\ r.id \notin onHold}
       IN  /\ todo' \in SUBSET expired
           /\ \/ Cardinality(todo') = BatchLimit
              \/ Cardinality(expired) < BatchLimit /\ todo' = expired
  /\ counted' = refs
  /\ purgeStep' = "row"
  /\ UNCHANGED <<onHold, ranOn, purging, attsLeft, att, collected, done, storeVars>>

NextRow ==
  /\ purgeStep = "row"
  /\ \E r \in todo :
       /\ todo' = todo \ {r}
       /\ purging' = r
       /\ attsLeft' = {l[2] : l \in {k \in links : k[1] = r.id}}
  /\ purgeStep' = "count"
  /\ UNCHANGED <<onHold, ranOn, att, counted, collected, done, storeVars>>

\* UPDATE ... ref_count - 1 locks the row, then session.get: it returns the
\* object already in the session, whose counter the ORM has decremented from
\* the value it had loaded, not from the value in the table.
CountDown(a) ==
  /\ purgeStep = "count" /\ a \in attsLeft
  /\ rowLock[a] \in {NoWorker, Purger}
  /\ rowLock' = [rowLock EXCEPT ![a] = Purger]
  /\ attsLeft' = attsLeft \ {a}
  /\ counted' = [counted EXCEPT ![a] = IF @ = 0 THEN 0 ELSE @ - 1]
  /\ IF counted[a] <= 1 THEN att' = a /\ purgeStep' = "blob"
                        ELSE UNCHANGED <<att, purgeStep>>
  /\ UNCHANGED <<onHold, ranOn, todo, purging, collected, done, messages, dedup, refs,
                 links, nextId, bodyBlob, attBlobs, docs, today>>

\* The counter is at 0: blob and row go.
CollectAttachment ==
  /\ purgeStep = "blob"
  /\ attBlobs' = attBlobs \ {att}
  /\ collected' = collected \cup {att}
  /\ att' = NoRow
  /\ purgeStep' = "count"
  /\ UNCHANGED <<onHold, ranOn, todo, purging, attsLeft, counted, done, messages, dedup,
                 refs, links, rowLock, nextId, bodyBlob, docs, today>>

\* The body's blob, the dedup entry and the row go.
PurgeRow ==
  /\ purgeStep = "count" /\ attsLeft = {}
  /\ bodyBlob' = [bodyBlob EXCEPT ![purging.hash] = NoMail]
  /\ done' = done \cup {purging}
  /\ purging' = NoRow
  /\ purgeStep' = "row"
  /\ UNCHANGED <<onHold, ranOn, todo, attsLeft, att, counted, collected, messages, dedup,
                 refs, links, rowLock, nextId, attBlobs, docs, today>>

IdsDone == {r.id : r \in done}
HashesDone == {r.hash : r \in done}

\* Mutant: the dedup entries are not deleted.
PurgeCommitsKeepsDedup ==
  /\ purgeStep = "row" /\ todo = {}
  /\ messages' = messages \ done
  /\ refs' = [a \in Attachment |-> IF a \in collected THEN 0 ELSE
                refs[a] - Cardinality({l \in links : l[1] \in IdsDone /\ l[2] = a})]
  /\ links' = {l \in links : l[1] \notin IdsDone /\ l[2] \notin collected}
  /\ onHold' = onHold \ IdsDone
  /\ ReleaseLocks(Purger)
  /\ ForgetPurge
  /\ UNCHANGED <<ranOn, dedup, nextId, bodyBlob, attBlobs, docs, today>>

\* Mutant: the counter is only decremented in the session's object.
PurgeCommitsKeepsCounters ==
  /\ purgeStep = "row" /\ todo = {}
  /\ messages' = messages \ done
  /\ dedup' = [h \in Hash |-> IF h \in HashesDone THEN NoRow ELSE dedup[h]]
  /\ refs' = [a \in Attachment |-> IF a \in collected THEN 0 ELSE refs[a]]
  /\ links' = {l \in links : l[1] \notin IdsDone /\ l[2] \notin collected}
  /\ onHold' = onHold \ IdsDone
  /\ ReleaseLocks(Purger)
  /\ ForgetPurge
  /\ UNCHANGED <<ranOn, nextId, bodyBlob, attBlobs, docs, today>>

\* session.commit().  Deleting an Attachment deletes every link to it, those
\* of other messages included.
PurgeCommits ==
  /\ purgeStep = "row" /\ todo = {}
  /\ messages' = messages \ done
  /\ dedup' = [h \in Hash |-> IF h \in HashesDone THEN NoRow ELSE dedup[h]]
  /\ refs' = [a \in Attachment |-> IF a \in collected THEN 0 ELSE
                refs[a] - Cardinality({l \in links : l[1] \in IdsDone /\ l[2] = a})]
  /\ links' = {l \in links : l[1] \notin IdsDone /\ l[2] \notin collected}
  /\ onHold' = onHold \ IdsDone
  /\ ReleaseLocks(Purger)
  /\ ForgetPurge
  /\ UNCHANGED <<ranOn, nextId, bodyBlob, attBlobs, docs, today>>

\* A store raises, a deadlock with a worker is broken at the purge's expense,
\* or the container stops: the transaction is rolled back, the blobs and the
\* indices deleted so far stay deleted.
PurgeFails ==
  /\ purgeStep # "idle"
  /\ ReleaseLocks(Purger)
  /\ ForgetPurge
  /\ UNCHANGED <<onHold, ranOn, messages, dedup, refs, links, nextId, bodyBlob, attBlobs,
                 docs, today>>

\* The API's set_legal_hold.  The UPDATE of a row the purge has deleted waits
\* for it to commit, and then finds no row.
SetLegalHold(r) ==
  /\ r \in messages \ done
  /\ \E hold \in BOOLEAN :
       onHold' = IF hold THEN onHold \cup {r.id} ELSE onHold \ {r.id}
  /\ UNCHANGED <<purgeStep, ranOn, runOfPurge, storeVars>>

RetentionStep ==
  \/ RunStarts \/ DropOldIndices \/ SelectExpired \/ NextRow
  \/ \E a \in Attachment : CountDown(a)
  \/ CollectAttachment \/ PurgeRow \/ PurgeCommits \/ PurgeFails
  \/ \E r \in messages : SetLegalHold(r)
=============================================================================
