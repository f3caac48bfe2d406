--------------------------- MODULE ArchivePipeline ---------------------------
(***************************************************************************)
(* ArchivePipeline.process (archiver_worker/pipeline.py), run by every     *)
(* worker as the handler of consume_raw_mail: MailQueue's HandlerEnds is   *)
(* replaced here by the steps of the pipeline.  Between two `await`s of    *)
(* process() other workers, the broker and the calendar move.              *)
(***************************************************************************)
EXTENDS MailQueue, ArchiveStores, Sequences

CONSTANTS
  Fingerprint,    \* archive_fingerprint of each mail
  AttachmentsOf,  \* the attachments of each mail, in their order
  Malformed       \* mails that parse() raises on

ASSUME PipelineAssumption ==
  /\ Fingerprint \in [Mail -> Hash]
  /\ AttachmentsOf \in [Mail -> Seq(Attachment)]
  /\ Malformed \subseteq Mail

\* A mail does not carry the same attachment twice; the fingerprint covers the
\* set of attachments, not their order.
ASSUME AttachmentsAssumption ==
  /\ \A m \in Mail : \A i, j \in 1..Len(AttachmentsOf[m]) :
       AttachmentsOf[m][i] = AttachmentsOf[m][j] => i = j
  /\ \A m, n \in Mail : Fingerprint[m] = Fingerprint[n] =>
       {AttachmentsOf[m][i] : i \in 1..Len(AttachmentsOf[m])} =
       {AttachmentsOf[n][i] : i \in 1..Len(AttachmentsOf[n])}

VARIABLES
  step,      \* where process() of each worker is
  raw,       \* its argument
  signedAt,  \* the signed_at it computed
  nextAtt,   \* the position of the attachment _store_attachments is at
  target,    \* the row it is going to index: its own, or that of the duplicate
  announced  \* ids published on mail_events

runVars == <<step, raw, signedAt, nextAtt, target>>
pipelineVars == <<runVars, announced, queueVars, storeVars>>

Steps == {"idle", "precheck", "putBody", "putAtt", "upsert",
          "commit", "recheck", "index", "reindex", "event"}

PipelineTypeOK ==
  /\ QueueTypeOK
  /\ StoreTypeOK
  /\ step \in [Worker -> Steps]
  /\ raw \in [Worker -> Mail \cup {NoMail}]
  /\ signedAt \in [Worker -> Day]
  /\ nextAtt \in [Worker -> Nat \ {0}]
  /\ target \in [Worker -> RowRef \cup {NoRow}]
  /\ announced \subseteq Id

PipelineInit ==
  /\ QueueInit
  /\ StoreInit
  /\ step = [w \in Worker |-> "idle"]
  /\ raw = [w \in Worker |-> NoMail]
  /\ signedAt = [w \in Worker |-> 0]
  /\ nextAtt = [w \in Worker |-> 1]
  /\ target = [w \in Worker |-> NoRow]
  /\ announced = {}

hash(w) == Fingerprint[raw[w]]
atts(w) == AttachmentsOf[raw[w]]

GoTo(w, s) == step' = [step EXCEPT ![w] = s]

\* The local variables of a call of process() are gone.
ForgetRun(w) ==
  /\ step' = [step EXCEPT ![w] = "idle"]
  /\ raw' = [raw EXCEPT ![w] = NoMail]
  /\ signedAt' = [signedAt EXCEPT ![w] = 0]
  /\ nextAtt' = [nextAtt EXCEPT ![w] = 1]
  /\ target' = [target EXCEPT ![w] = NoRow]

\* process() returns or raises; leaving the session's block rolls back what it
\* has not committed.
ProcessEnds(w, result) ==
  /\ HandlerEnds(w, result)
  /\ ForgetRun(w)

-----------------------------------------------------------------------------
(* The steps of process()                                                  *)

\* consume_raw_mail calls process(message.body), which runs to its first await:
\* it parses, fingerprints and signs; signed_at is the time of this step.
Begin(w, c) ==
  /\ Take(w, c)
  /\ GoTo(w, "precheck")
  /\ raw' = [raw EXCEPT ![w] = body[c]]
  /\ signedAt' = [signedAt EXCEPT ![w] = today]
  /\ UNCHANGED <<nextAtt, target, announced, storeVars>>

ParseRaises(w) ==
  /\ step[w] = "precheck" /\ raw[w] \in Malformed
  /\ ProcessEnds(w, "error")
  /\ UNCHANGED <<announced, storeVars>>

\* Mutant: a duplicate is skipped without indexing it again.
PrecheckSkips(w) ==
  /\ step[w] = "precheck" /\ raw[w] \notin Malformed
  /\ IF dedup[hash(w)] = NoRow
       THEN GoTo(w, "putBody") /\ UNCHANGED <<raw, signedAt, nextAtt, target, queueVars>>
       ELSE ProcessEnds(w, "ok")
  /\ UNCHANGED <<announced, storeVars>>

\* The fast path: is this fingerprint archived already?
Precheck(w) ==
  /\ step[w] = "precheck" /\ raw[w] \notin Malformed
  /\ target' = [target EXCEPT ![w] = dedup[hash(w)]]
  /\ GoTo(w, IF dedup[hash(w)] = NoRow THEN "putBody" ELSE "reindex")
  /\ UNCHANGED <<raw, signedAt, nextAtt, announced, queueVars, storeVars>>

\* Mutant: the loop ends before the last attachment.
AfterAttachmentsShort(w, n) == IF n >= Len(atts(w)) THEN "commit" ELSE "putAtt"

\* The step after `n - 1` attachments are stored.
AfterAttachments(w, n) == IF n > Len(atts(w)) THEN "commit" ELSE "putAtt"

PutBody(w) ==
  /\ step[w] = "putBody"
  /\ bodyBlob' = [bodyBlob EXCEPT ![hash(w)] = raw[w]]
  /\ GoTo(w, AfterAttachments(w, 1))
  /\ UNCHANGED <<raw, signedAt, nextAtt, target, announced, queueVars,
                 messages, dedup, refs, links, rowLock, nextId, attBlobs, docs, today>>

\* _store_attachments: the blob first ...
PutAttachment(w) ==
  /\ step[w] = "putAtt"
  /\ attBlobs' = attBlobs \cup {atts(w)[nextAtt[w]]}
  /\ GoTo(w, "upsert")
  /\ UNCHANGED <<raw, signedAt, nextAtt, target, announced, queueVars,
                 messages, dedup, refs, links, rowLock, nextId, bodyBlob, docs, today>>

\* ... then its row, locked until the transaction ends.  Another transaction
\* that has the row makes the statement wait.
Upsert(w) ==
  /\ step[w] = "upsert"
  /\ rowLock[atts(w)[nextAtt[w]]] = NoWorker
  /\ rowLock' = [rowLock EXCEPT ![atts(w)[nextAtt[w]]] = w]
  /\ nextAtt' = [nextAtt EXCEPT ![w] = @ + 1]
  /\ GoTo(w, AfterAttachments(w, nextAtt[w] + 1))
  /\ UNCHANGED <<raw, signedAt, target, announced, queueVars,
                 messages, dedup, refs, links, nextId, bodyBlob, attBlobs, docs, today>>

\* Mutant: no unique key on archive_hash.
CommittedTwice(w) ==
  LET row == [id |-> nextId, day |-> signedAt[w], hash |-> hash(w), raw |-> raw[w]]
  IN  /\ messages' = messages \cup {row}
      /\ dedup' = [dedup EXCEPT ![hash(w)] = RefOf(row)]
      /\ refs' = [a \in Attachment |-> IF rowLock[a] = w THEN refs[a] + 1 ELSE refs[a]]
      /\ links' = links \cup {<<nextId, a>> : a \in LockedBy(w)}
      /\ nextId' = nextId + 1
      /\ ReleaseLocks(w)
      /\ UNCHANGED <<bodyBlob, attBlobs, docs, today>>

\* Mutant: the upsert does not increment the counter of an existing row.
CommittedUncounted(w) ==
  LET row == [id |-> nextId, day |-> signedAt[w], hash |-> hash(w), raw |-> raw[w]]
  IN  /\ dedup[hash(w)] = NoRow
      /\ messages' = messages \cup {row}
      /\ dedup' = [dedup EXCEPT ![hash(w)] = RefOf(row)]
      /\ refs' = [a \in Attachment |-> IF rowLock[a] = w THEN 1 ELSE refs[a]]
      /\ links' = links \cup {<<nextId, a>> : a \in LockedBy(w)}
      /\ nextId' = nextId + 1
      /\ ReleaseLocks(w)
      /\ UNCHANGED <<bodyBlob, attBlobs, docs, today>>

\* The effect of the COMMIT: the message, its links, the counters of the rows
\* the transaction upserted, and the dedup entry.
Committed(w) ==
  LET row == [id |-> nextId, day |-> signedAt[w], hash |-> hash(w), raw |-> raw[w]]
  IN  /\ dedup[hash(w)] = NoRow
      /\ messages' = messages \cup {row}
      /\ dedup' = [dedup EXCEPT ![hash(w)] = RefOf(row)]
      /\ refs' = [a \in Attachment |-> IF rowLock[a] = w THEN refs[a] + 1 ELSE refs[a]]
      /\ links' = links \cup {<<nextId, a>> : a \in LockedBy(w)}
      /\ nextId' = nextId + 1
      /\ ReleaseLocks(w)
      /\ UNCHANGED <<bodyBlob, attBlobs, docs, today>>

\* Mutant: the event is published before the message is indexed.
CommitAnnounces(w) ==
  /\ step[w] = "commit"
  /\ Committed(w)
  /\ target' = [target EXCEPT ![w] = [id |-> nextId, day |-> signedAt[w]]]
  /\ GoTo(w, "index")
  /\ announced' = announced \cup {nextId}
  /\ UNCHANGED <<raw, signedAt, nextAtt, queueVars>>

\* Mutant: the id is not read back after the commit.
CommitForgetsId(w) ==
  /\ step[w] = "commit"
  /\ Committed(w)
  /\ GoTo(w, "index")
  /\ UNCHANGED <<raw, signedAt, nextAtt, target, announced, queueVars>>

Commit(w) ==
  /\ step[w] = "commit"
  /\ Committed(w)
  /\ target' = [target EXCEPT ![w] = [id |-> nextId, day |-> signedAt[w]]]
  /\ GoTo(w, "index")
  /\ UNCHANGED <<raw, signedAt, nextAtt, announced, queueVars>>

\* IntegrityError on message_dedup: another worker archived the same mail
\* since the precheck.  The whole transaction is rolled back.
CommitConflict(w) ==
  /\ step[w] = "commit"
  /\ dedup[hash(w)] # NoRow
  /\ ReleaseLocks(w)
  /\ GoTo(w, "recheck")
  /\ UNCHANGED <<raw, signedAt, nextAtt, target, announced, queueVars,
                 messages, dedup, refs, links, nextId, bodyBlob, attBlobs, docs, today>>

\* The duplicate is looked up again; if its entry has gone meanwhile (a purge)
\* process() returns all the same.
Recheck(w) ==
  /\ step[w] = "recheck"
  /\ IF dedup[hash(w)] = NoRow
       THEN ProcessEnds(w, "ok")
       ELSE /\ target' = [target EXCEPT ![w] = dedup[hash(w)]]
            /\ GoTo(w, "reindex")
            /\ UNCHANGED <<raw, signedAt, nextAtt, queueVars>>
  /\ UNCHANGED <<announced, storeVars>>

\* Mutant: a duplicate goes to the daily index of its own processing day.
IndexTargetToday(w) ==
  /\ docs' = docs \cup {[target[w] EXCEPT !.day = signedAt[w]]}
  /\ UNCHANGED <<messages, dedup, refs, links, rowLock, nextId, bodyBlob, attBlobs, today>>

\* index_message: the document goes to the daily index of its archiving date.
IndexTarget(w) ==
  /\ docs' = docs \cup {target[w]}
  /\ UNCHANGED <<messages, dedup, refs, links, rowLock, nextId, bodyBlob, attBlobs, today>>

Index(w) ==
  /\ step[w] = "index"
  /\ IndexTarget(w)
  /\ GoTo(w, "event")
  /\ UNCHANGED <<raw, signedAt, nextAtt, target, announced, queueVars>>

\* _reindex_existing, then the duplicate is done.
Reindex(w) ==
  /\ step[w] = "reindex"
  /\ IndexTarget(w)
  /\ ProcessEnds(w, "ok")
  /\ UNCHANGED announced

\* The event is best-effort: it is published or it is not, the mail is done.
Announce(w) ==
  /\ step[w] = "event"
  /\ announced' \in {announced, announced \cup {target[w].id}}
  /\ ProcessEnds(w, "ok")
  /\ UNCHANGED storeVars

-----------------------------------------------------------------------------
(* What fails in it                                                        *)

\* Mutant: the session is not closed on an exception.
RollbackKeepsLocks(w) ==
  UNCHANGED <<rowLock, messages, dedup, refs, links, nextId, bodyBlob, attBlobs, docs, today>>

Rollback(w) ==
  /\ ReleaseLocks(w)
  /\ UNCHANGED <<messages, dedup, refs, links, nextId, bodyBlob, attBlobs, docs, today>>

\* Mutant: a failed put of an attachment is only logged.
StoreFailureIgnored(w) ==
  /\ step[w] = "putAtt"
  /\ GoTo(w, "upsert")
  /\ UNCHANGED <<raw, signedAt, nextAtt, target, announced, queueVars, storeVars>>

\* The blob store or OpenSearch raises: an exception that consume_raw_mail
\* does not take for transient.
StoreFails(w) ==
  /\ step[w] \in {"putBody", "putAtt", "index", "reindex"}
  /\ ProcessEnds(w, "error")
  /\ Rollback(w)
  /\ UNCHANGED announced

\* Mutant: a database error is only logged.
DatabaseFailureIgnored(w) ==
  /\ step[w] \in {"precheck", "upsert", "commit", "recheck"}
  /\ ProcessEnds(w, "ok")
  /\ Rollback(w)
  /\ UNCHANGED announced

\* The database raises.  SQLAlchemy wraps most losses of a connection in
\* OperationalError or InterfaceError, but not a refused connection or what
\* asyncpg raises elsewhere.
DatabaseFails(w) ==
  /\ step[w] \in {"precheck", "upsert", "commit", "recheck"}
  /\ raw[w] \notin Malformed
  /\ \E result \in {"transient", "error"} : ProcessEnds(w, result)
  /\ Rollback(w)
  /\ UNCHANGED announced

\* The connection is lost after the server has committed.
CommitUnanswered(w) ==
  /\ step[w] = "commit"
  /\ Committed(w)
  /\ \E result \in {"transient", "error"} : ProcessEnds(w, result)
  /\ UNCHANGED announced

\* Workers that wait for each other's rows: PostgreSQL ends one of the
\* statements.  The exception is no OperationalError.
Deadlocked(workers) ==
  \A w \in workers : step[w] = "upsert" /\ rowLock[atts(w)[nextAtt[w]]] \in workers \ {w}

DeadlockVictim(w) ==
  /\ \E workers \in SUBSET Worker : w \in workers /\ Deadlocked(workers)
  /\ ProcessEnds(w, "error")
  /\ Rollback(w)
  /\ UNCHANGED announced

\* The worker ends, by accident or by settling on a lost channel.
WorkerEnds(w) ==
  /\ WorkerStops(w)
  /\ ForgetRun(w)
  /\ Rollback(w)
  /\ UNCHANGED announced

-----------------------------------------------------------------------------
PipelineStep(w) ==
  \/ ParseRaises(w) \/ Precheck(w) \/ PutBody(w)
  \/ PutAttachment(w) \/ Upsert(w) \/ Commit(w) \/ CommitConflict(w)
  \/ Recheck(w) \/ Index(w) \/ Reindex(w) \/ Announce(w)
  \/ DeadlockVictim(w)

PipelineFault(w) == StoreFails(w) \/ DatabaseFails(w) \/ CommitUnanswered(w)

PipelineNext ==
  \/ QueueStep /\ UNCHANGED <<runVars, announced, storeVars>>
  \/ Tick /\ UNCHANGED <<runVars, announced, queueVars>>
  \/ \E w \in Worker, c \in Copy : Begin(w, c)
  \/ \E w \in Worker : PipelineStep(w) \/ PipelineFault(w) \/ WorkerEnds(w)

PipelineSpec == PipelineInit /\ [][PipelineNext]_pipelineVars

\* A step that only an outage explains: as a change of state, a deadlock's
\* victim is a failure of the database, and a worker that ends may be one that
\* rejects its only delivery.
Outage(w) ==
  \/ PipelineFault(w) /\ ~DeadlockVictim(w)
  \/ ChannelLost(w)
  \/ WorkerEnds(w) /\ ~SettleOnLostChannel(w) /\ ~RejectAndRequeue(w)

\* Outages end, the event loop runs what can run.
PipelineFairness ==
  /\ \A c \in Copy : WF_pipelineVars(
       (\E w \in Worker : Deliver(c, w)) /\ UNCHANGED <<runVars, announced, storeVars>>)
  /\ \A w \in Worker :
       /\ WF_pipelineVars(\E c \in Copy : Begin(w, c))
       /\ WF_pipelineVars(PipelineStep(w))
       /\ WF_pipelineVars(
            \/ /\ Ack(w) \/ RejectAndRequeue(w) \/ DeadLetter(w)
               /\ UNCHANGED <<runVars, announced, storeVars>>
            \/ SettleOnLostChannel(w) /\ WorkerEnds(w))
  /\ <>[][\A w \in Worker : ~Outage(w)]_pipelineVars

FairPipelineSpec == PipelineSpec /\ PipelineFairness

-----------------------------------------------------------------------------
(* Properties                                                              *)

AttachmentSet(m) == {AttachmentsOf[m][i] : i \in 1..Len(AttachmentsOf[m])}

\* A copy that the archive has still to deal with, or that an administrator
\* has thrown away knowingly.
Unfinished(c) == place[c] \in {"ready", "held", "dead", "fetched", "purged"}

\* An accepted mail is archived, or a copy of it is still to be processed: no
\* acknowledgement, crash or lost channel comes before the commit.
AcceptedIsArchivedOrPending ==
  \A m \in accepted :
    \/ dedup[Fingerprint[m]] # NoRow
    \/ \E c \in Copy : body[c] = m /\ Unfinished(c)

\* An archived message has its search document, or a copy of the mail is still
\* there to make a worker index it again (process() indexes after the commit,
\* the duplicate path repairs).
ArchivedIsSearchableOrPending ==
  \A row \in messages :
    \/ RefOf(row) \in docs
    \/ \E c \in Copy :
         body[c] # NoMail /\ Fingerprint[body[c]] = row.hash /\ Unfinished(c)

\* A message links to all attachments of its mail and to no other, whatever
\* transaction rolled back before.
LinksAreComplete ==
  \A row \in messages :
    {l[2] : l \in {k \in links : k[1] = row.id}} = AttachmentSet(row.raw)

\* A real-time event is about a message a client can find.
AnnouncedIsSearchable ==
  \A id \in announced : \E doc \in docs : doc.id = id

\* A worker holds locked exactly the attachment rows its open transaction has
\* upserted: nothing stays locked behind a call of process() that ended, so
\* whoever waits for a row gets it.
LocksBelongToTransactions ==
  \A w \in Worker :
    LockedBy(w) = IF step[w] \in {"putAtt", "upsert", "commit"}
                    THEN {atts(w)[i] : i \in 1..(nextAtt[w] - 1)} ELSE {}

\* A published mail does not get stuck: once outages end its copy is
\* acknowledged or dead-lettered, and an acknowledged mail can be searched.
EveryMailIsResolved ==
  \A c \in Copy : place[c] = "ready" ~>
    \/ place[c] \in {"dead", "fetched", "republished", "replayed", "purged"}
    \/ place[c] = "acked" /\ dedup[Fingerprint[body[c]]] \in docs

\* The refinement mapping: what queue and stores amount to for the outside.
Pending(m) == \E c \in Copy :
  body[c] = m /\ place[c] \in {"ready", "held", "dead", "fetched"}
Owed == {m \in accepted : dedup[Fingerprint[m]] = NoRow /\ Pending(m)}
ArchivedHashes == {h \in Hash : dedup[h] # NoRow}
SearchableHashes == {h \in ArchivedHashes : dedup[h] \in docs}
AnnouncedHashes == {row.hash : row \in {r \in messages : r.id \in announced}}
DiscardedMails == {body[c] : c \in {d \in Copy : place[d] = "purged"}}

\* The pipeline on its queue keeps the promise of ArchiveService: copies,
\* transactions, blobs and retries are how a mail in charge gets archived.
Service == INSTANCE ArchiveService WITH
  promised <- accepted, owed <- Owed, archived <- ArchivedHashes,
  searchable <- SearchableHashes, announced <- AnnouncedHashes,
  discarded <- DiscardedMails

ImplementsService == Service!Spec

\* mail_access.py:3 and storage.py:105: the body a message is exported with is
\* the mail that was archived, and writing a blob again writes the same
\* content.  (Not so: two mails that differ outside the fingerprint share the
\* key, and the loser of the race has overwritten the winner's body.)
ExportIsExact ==
  \A row \in messages : bodyBlob[row.hash] = row.raw
=============================================================================
