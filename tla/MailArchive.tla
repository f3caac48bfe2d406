----------------------------- MODULE MailArchive -----------------------------
(***************************************************************************)
(* The archive as a whole: the ingestion pipeline and the nightly purge on *)
(* the same tables, blobs and indices, with the administrators' legal      *)
(* holds.                                                                  *)
(***************************************************************************)
EXTENDS ArchivePipeline, RetentionWorker

archiveVars == <<pipelineVars, retentionVars>>

ArchiveTypeOK == PipelineTypeOK /\ RetentionTypeOK

ArchiveInit == PipelineInit /\ RetentionInit

\* A row is selected a day or more after it was signed, and process() lasts
\* seconds: a call under way began when the row had long been committed, so
\* it has found the row's dedup entry, or not looked for it yet.
CallsAreYounger ==
  \A row \in todo' \ todo, w \in Worker :
    step[w] \notin {"idle", "precheck", "reindex"} => hash(w) # row.hash

ArchiveNext ==
  \/ PipelineNext /\ UNCHANGED retentionVars
  \/ /\ RetentionStep /\ CallsAreYounger
     /\ UNCHANGED <<runVars, announced, queueVars>>

ArchiveSpec == ArchiveInit /\ [][ArchiveNext]_archiveVars

-----------------------------------------------------------------------------
(* Properties                                                              *)

\* Messages whose retention has not run out today.
Retained(row) == row.day + RetentionDays > today

\* No purge, complete or not, takes the body of a message that is still to be
\* kept, though the blob's key may be that of an expired message before it.
RetainedBodyIsStored ==
  \A row \in messages : Retained(row) => bodyBlob[row.hash] # NoMail

\* A copy that came again after a lost channel is not taken while the call that
\* had it goes on.  Otherwise, with a purge between them, one call may archive
\* the mail anew and stop, while the other indexes the row it had found before
\* the purge and acknowledges.
OneCallPerCopy ==
  \A v, w \in Worker :
    outcome[v] = "running" /\ outcome[w] = "running" /\ job[v] = job[w] => v = w

\* Indices are dropped by the day, rows are purged by the second: the index of
\* the cutoff's own day must survive the night for the rows that do.  This needs
\* OneCallPerCopy.
RetainedIsSearchableOrPending ==
  \A row \in messages : row.day + RetentionDays >= today =>
    \/ RefOf(row) \in docs
    \/ \E c \in Copy :
         body[c] # NoMail /\ Fingerprint[body[c]] = row.hash /\ Unfinished(c)

\* A search hit that cannot be opened any more is that of a message whose
\* retention has run out, so that the next night drops its index: purges,
\* failed purges and late re-indexing of duplicates leave no other.
DeadHitsAreExpired ==
  \A doc \in docs :
    \/ \E row \in messages : RefOf(row) = doc
    \/ doc.day + RetentionDays <= today

\* The refinement mapping: what the stores amount to for who looks for a message.
EntryOf(row) == [hash |-> row.hash, day |-> row.day]
Kept == {EntryOf(row) : row \in messages}
Readable == {h \in Hash : bodyBlob[h] # NoMail}
Found == {EntryOf(row) : row \in {r \in messages : RefOf(r) \in docs}}

\* Ingestion and purge together keep what they promise of a message: rows, bodies
\* and documents go at different times, in part when a purge fails, but none of
\* them before the retention has run out.
Retaining == INSTANCE RetainedArchive WITH
  kept <- Kept, readable <- Readable, found <- Found

ImplementsRetainedArchive == Retaining!Spec

\* api/main.py:713: legal hold excludes a message from the purge.  (Not so: the
\* purge reads legal_hold once, before it deletes the rows of its batch.)
HeldMessagesAreKept ==
  [][\A row \in messages : row.id \in onHold => row \in messages']_archiveVars

\* retention_worker/main.py:7: the purge collects orphan attachment blobs.
\* (Not so: the counter it decides by is the one it loaded with the batch.)
OnlyOrphansAreCollected ==
  \A row \in messages : Retained(row) =>
    {l[2] : l \in {k \in links : k[1] = row.id}} = AttachmentSet(row.raw)
=============================================================================
