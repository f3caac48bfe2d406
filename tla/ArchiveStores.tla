---------------------------- MODULE ArchiveStores ----------------------------
(***************************************************************************)
(* What the archive keeps: the PostgreSQL tables of models.py, the blobs   *)
(* of storage.py and the OpenSearch documents of indexer.py.  The actions  *)
(* on them belong to the services: ArchivePipeline adds mails.             *)
(*                                                                         *)
(* Committed table contents are state; what a transaction has done but not *)
(* committed is the set of attachment rows it holds locked.                *)
(***************************************************************************)
EXTENDS ArchiveConstants, Naturals, FiniteSets

CONSTANTS
  Hash,        \* archive_hash values
  Attachment,  \* sha256 of attachment contents
  LastDay,     \* bound: the last day of the model's calendar
  NoRow

ASSUME LastDayAssumption == LastDay \in Nat

VARIABLES
  messages,   \* rows of `messages`
  dedup,      \* `message_dedup`: what each archive_hash refers to
  refs,       \* attachments.ref_count; 0 stands for no row
  links,      \* rows of `message_attachments`
  rowLock,    \* the session with an uncommitted upsert of an attachment row
  nextId,     \* the sequence behind messages.id
  bodyBlob,   \* the blob under each archive_hash: the raw mail sealed in it
  attBlobs,   \* the attachment contents present in the blob store
  docs,       \* search documents: their _id, and the day of their daily index
  today       \* the date

storeVars == <<messages, dedup, refs, links, rowLock, nextId,
               bodyBlob, attBlobs, docs, today>>

Day == 0..LastDay
Id == Nat \ {0}
RowRef == [id : Id, day : Day]   \* what dedup and the index know of a row
MessageRow == [id : Id, day : Day, hash : Hash, raw : Mail]

ASSUME NoRowAssumption == NoRow \notin RowRef

RefOf(row) == [id |-> row.id, day |-> row.day]

StoreTypeOK ==
  /\ messages \subseteq MessageRow
  /\ dedup \in [Hash -> RowRef \cup {NoRow}]
  /\ refs \in [Attachment -> Nat]
  /\ links \subseteq Id \X Attachment
  /\ rowLock \in [Attachment -> Worker \cup {Purger, NoWorker}]
  /\ nextId \in Id
  /\ bodyBlob \in [Hash -> Mail \cup {NoMail}]
  /\ attBlobs \subseteq Attachment
  /\ docs \subseteq RowRef
  /\ today \in Day

StoreInit ==
  /\ messages = {}
  /\ dedup = [h \in Hash |-> NoRow]
  /\ refs = [a \in Attachment |-> 0]
  /\ links = {}
  /\ rowLock = [a \in Attachment |-> NoWorker]
  /\ nextId = 1
  /\ bodyBlob = [h \in Hash |-> NoMail]
  /\ attBlobs = {}
  /\ docs = {}
  /\ today = 0

LockedBy(s) == {a \in Attachment : rowLock[a] = s}

\* The rows a transaction locked are free again, committed or rolled back.
ReleaseLocks(s) ==
  rowLock' = [a \in Attachment |-> IF rowLock[a] = s THEN NoWorker ELSE rowLock[a]]

\* Midnight: the archiving date, hence the daily index of new documents, changes.
Tick ==
  /\ today < LastDay
  /\ today' = today + 1
  /\ UNCHANGED <<messages, dedup, refs, links, rowLock, nextId,
                 bodyBlob, attBlobs, docs>>

-----------------------------------------------------------------------------
(* Consistency of the tables with each other and with the other stores.    *)

\* message_dedup is an exact index of messages: each row has its entry and
\* each entry its row.  No foreign key says so (`messages` is partitioned);
\* it rests on the transaction of process().
DedupIsExact ==
  /\ \A row \in messages : dedup[row.hash] = RefOf(row)
  /\ \A h \in Hash : dedup[h] # NoRow =>
       \E row \in messages : row.hash = h /\ RefOf(row) = dedup[h]

\* The reference counter of an attachment is the number of messages that link
\* to it.
RefCountIsExact ==
  \A a \in Attachment : refs[a] = Cardinality({l \in links : l[2] = a})

\* Every archived message can be exported: the blob of its body and those of
\* its attachments are in the store.
ArchivedContentIsStored ==
  /\ \A row \in messages : bodyBlob[row.hash] # NoMail
  /\ \A l \in links : l[2] \in attBlobs

\* A search hit opens: each document is that of a message, in the daily index
\* of the day the message was archived, hence a message has one document.
SearchHitsOpen ==
  \A doc \in docs : \E row \in messages : RefOf(row) = doc
=============================================================================
