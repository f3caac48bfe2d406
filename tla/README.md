# mailarchiver-ng in TLA+

A verification development for mailarchiver-ng, a mail archive built from small
Python services around RabbitMQ, PostgreSQL, an S3 blob store and OpenSearch.
It models how mails are taken in charge, collected from mailboxes, archived,
found again, sent back and purged, and the accounts, settings and partitions
around that; checks all of it on small instances with TLC; and proves the
invariants, and that the pipeline and the archive as a whole implement abstract
specifications, with TLAPS.

Paths are relative to the repository; `common/` stands for
`libs/mailarchiver_common/mailarchiver_common/`.

## 1. Inventory

| Component | State | Operations | Talks to | Modelled in |
|---|---|---|---|---|
| smtp-gateway (`handler.py`, `main.py`) | configuration read at start | `handle_DATA`: 552 above the limit, 250 once the broker has confirmed, 451 otherwise; `_load_config`, `_tls_context` | publishes to `raw_mail` | MailQueue, Settings |
| fetch-worker (`common/fetch.py`) | `fetch_sources` rows, flags on the remote mailbox | `_scan` every minute, a manual run, `run_and_publish` | publishes to `raw_mail` | Collection |
| `raw_mail`, `raw_mail_dead` (`common/queue.py`) | durable quorum queues, `redelivered` flags, prefetch windows | publish, deliver, ack, reject, dead-letter, replay, purge | gateway, fetch-worker, API → archiver-workers | MailQueue, MailQueueRetries |
| archiver-worker (`pipeline.py`, 4 to 8 replicas) | one delivery at a time per replica, 16 prefetched | `process`: parse, fingerprint, precheck, blobs, attachment rows, message, commit, index, event | PostgreSQL, S3, OpenSearch, `mail_events` | ArchivePipeline |
| tables (`common/models.py`) | `messages`, `attachments` (with `ref_count`), `message_attachments`, `message_dedup`; monthly partitions | transactions of the services; `ensure_schema` | all services | ArchiveStores, Partitions |
| blobs (`common/storage.py`) | sealed bodies under `archive_hash`, sealed attachments under `sha256` | put, get, delete | pipeline, retention, API | ArchiveStores |
| search documents (`indexer.py`) | daily indices `messages-YYYY.MM.DD` | index, drop | pipeline, retention, API | ArchiveStores |
| retention-worker (`main.py`, one instance) | one run a night | drop old indices, select a batch, count attachments down, delete blobs and rows, commit | PostgreSQL, S3, OpenSearch | RetentionWorker |
| API: quarantine, legal hold, import | – | `dlq_replay`, `dlq_purge`, `set_legal_hold`, `import_eml` | queues, tables | MailQueue, RetentionWorker |
| API: accounts (`users.py`, `auth.py`, `tokens.py`) | `users` (role, active, lockout), JWTs | login, create, change, deactivate, delete | tables, LDAP | Accounts |
| API: access (`search.py`, `mail_access.py`, `main.py`) | – | search with a restriction, direct access, event stream | OpenSearch, tables, blobs | AccessScope |
| API: restore jobs (`transfer_jobs.py`) | `restore_jobs` queue, `transfer_jobs` rows | create, run page by page, finish | queue, OpenSearch, blobs, IMAP/SMTP | RestoreJobs |
| API: settings (`settings_store.py`) | `app_settings` rows | read, update | tables; read by the gateway at its start | Settings |
| cryptography (`common/crypto.py`) | keys on disk | seal, unseal, sign, verify, fingerprint | – | – |
| web client, migrations, deployment, load tests | – | – | – | – |

What is hard in it:

* several workers take copies of the same mail; nothing but the unique key of
  `message_dedup`, checked at the commit, tells them apart;
* four stores are written one after the other (blobs, tables, index, event) and
  a worker can stop, or a store refuse, between any two of them;
* RabbitMQ gives deliveries of a lost channel to somebody else while the handler
  that has them goes on; its `redelivered` flag does not count failures;
* attachment rows stay locked until the commit and are locked in the order of
  the mail, so transactions can wait for each other;
* the purge works on objects it loaded at its beginning, deletes blobs outside of
  its transaction, drops indices by the day and rows by the second;
* the fetch code flags or removes mails on the server before it publishes the
  first of them, and a manual run may meet the scheduled one in a mailbox;
* `imaplib` does not raise when a server answers NO, and neither the fetch nor the
  restore looks at what was answered;
* a restore job pages through an index that changes, may be executed by two APIs
  at a time, and its consumer task ends with the first exception it lets out;
* requests of the API read rows, await, and write what they computed from them;
* partitions are only made when a service starts, settings only read then.

What makes each component correct: the queue never loses an accepted mail and
lets one worker settle a copy; the pipeline archives each fingerprint once, with
all its attachments counted and stored, makes it searchable at last and
announces it only then; the purge takes expired messages only, with all that
belongs to them and nothing else; a run loses a mail only where it fails with it
in hand or takes another answer of the server for it, and publishes it once
unless another run is in the same mailbox; a
restore job ends, sends each mail once per execution and is not done before the
destination has answered for them all (an IMAP mailbox may have refused some);
accounts keep their main administrator and a lockout that
counts logins which do not overlap; access paths agree on who sees what, and
access ends; with a start every two months no service is kept from starting by
the partitions; settings that were saved take effect when the gateway is started again.
`PROJECT.json` lists the hazards with their lines.

## 2. Modules

```
ArchiveConstants          names shared by the modules of the archive
  MailQueue               raw_mail, its publishers and consumers
    MailQueueRetries      + how often the handler failed on each copy
  ArchiveStores           tables, blobs, search documents, the date
ArchivePipeline           MailQueue + ArchiveStores: process() in every worker
  ArchiveService          what this promises (abstract; refined by the pipeline)
  RetentionWorker         run_retention and legal holds on ArchiveStores
MailArchive               ArchivePipeline + RetentionWorker
  RetainedArchive         what this promises of a message (abstract; refined by it)
Collection                IMAP and POP3 mailboxes and the runs that empty them
AccessScope               who sees which mail (operators)
  Accounts                users, sessions, concurrent requests
  RestoreJobs             restore_jobs, its consumers, paging through the search
Settings                  app_settings and the gateway's configuration
Partitions                ensure_schema and messages_default
MC_*                      instances for TLC
*Proofs                   theorems
```

**MailQueue.** A *copy* is one publication of a mail. It moves through the places
`unsent → ready → held → acked | dead`, and from `dead` to `fetched →
republished → replayed` or `purged`. `holder` and `redelivered` are the broker's;
`job`, `outcome` and `attached` say which delivery a worker's handler is in, how
it ended, and whether the channel it came by is still open. `Take`,
`HandlerEnds`, `Ack`, `RejectAndRequeue`, `DeadLetter` are one iteration of
`consume_raw_mail`; `ChannelLost` returns all deliveries of a worker to the queue
and leaves the handler running; settling on a lost channel raises out of the
loop, which is one way for `WorkerStops` to happen, a crash at any point is the
other. `ReplayGet`, `ReplayPublish`, `ReplayAck` are the three steps of
`dlq_replay`, each of which may be the last (`ReplayAborts`). Deliveries may
happen in any order. A 451 after the broker stored the mail is
`HandleDataUnconfirmed`; it also stands for publishers that promise nothing to a
sender (fetched and imported mails).

**ArchiveStores.** Committed rows are state. What an open transaction has done is
represented by the attachment rows it has locked; its effects appear at the
commit. `refs[a] = 0` stands for no row. A body blob remembers which raw mail was
sealed in it. `docs` holds the `_id` and daily index of each search document.

**ArchivePipeline.** `step[w]` is where `process()` is between two of its awaits;
each action runs from one await to the next. `HandlerEnds` of the queue is
conjoined with the step in which `process()` returns or raises. Failures:
`StoreFails` (blob store, OpenSearch), `DatabaseFails` (wrapped by SQLAlchemy as
"transient", or not), `CommitUnanswered`, `DeadlockVictim`, `WorkerEnds`.
The mails of an instance are values; `Fingerprint` and `AttachmentsOf` are
constants, `Malformed` the mails on which `parse()` raises. `AttachmentsAssumption` leaves
out mails that carry the same attachment twice: the code would count it twice and insert its link
twice, which the key of `message_attachments` refuses (listed as a hazard).

**ArchiveService.** Mails in charge, archived, searchable, announced, discarded,
with no queue or transaction. `ArchivePipeline!Service` instantiates it: `Owed`
are accepted mails with a copy somewhere and no dedup entry, and so on.

**RetentionWorker.** `purgeStep` is where `run_retention` is. `counted` is the
`ref_count` of the objects loaded with the batch, which is what `session.get`
returns after the UPDATE; the table's own counters change at the commit. Blobs
and indices go at once. The cutoff lies within a day: of the rows of that day any
subset is older. `PurgeFails` is an exception or a stop at any point.

**MailArchive.** Both, interleaved. One assumption of the composition is part of the
specification, `CallsAreYounger`: when the purge selects a row, no call of `process()` is past its
precheck with that fingerprint without having found the row. A row is selected a day or more after
it was committed, and a call lasts seconds. Two calls of one copy may still be on either side of a
purge, when a worker goes on with a delivery whose channel it has lost; `OneCallPerCopy` says that
this does not happen, and is a hypothesis of the one property that needs it
(`RetainedIsSearchableOrPending`), not a part of the specification.

**RetainedArchive.** Messages as pairs of fingerprint and day, bodies that can be read, messages a search
finds; no queue, worker, table, lock or transaction. A body, a document or a message goes only when
the retention has run out. `MailArchive` maps its rows to `kept`, its body blobs to `readable`, and the
rows whose document is in an index to `found`; that a commit is a `Keep` needs the body to be
there and the fingerprint to be free, that a purge's COMMIT is a `Remove` needs its rows to be expired still.

**Collection.** `phase[r]` is where a run is, the scan's or a manual one's: it lists
a mailbox, fetches mail by mail (and flags each if the source has `delete_after`), closes
the session, publishes, records. Fetching a mail is one of `Fetch`, `FetchNothing` (expunged by another session) and
`FetchMisread`: the server answers NO, which `imaplib` does not raise, or sends a line of flags
before the mail; `d[0][1]` is then a byte of text, which goes on in its place, while the mail is flagged
all the same. STORE and EXPUNGE may be answered NO, too, and change nothing then. `box` is what the server says of a mail: FETCH sets
`\Seen`, EXPUNGE takes whatever is flagged in the folder, by whichever session; a POP3 session
deletes its marks at `quit`, which `fetch_pop3` calls even after an error. `Fails` is an exception
at any point of that, caught by the loop over the sources; `RecordFails` and `Stops` end the scan.
`dropped`, `misread` and `overlapped` are histories: the mails a failing run had in hand, those in whose
place a run took another answer, the sources two runs were on at a time. The byte that is published
instead is not followed: it is no mail. From `Publish` on, the mail is MailQueue's.

**AccessScope.** Operators for the three places that decide who sees a mail. A mail is the set of
addresses in it as they are written; `LowerOf` is `str.lower()`. The search compares
exactly, the two others in lower case.

**Accounts.** A request is a coroutine: `LoginReads`/`LoginWrites`, `CreateBegins`/
`CreateCommits`, `ChangeBegins`/`CountAdmins`/`ChangeWrites` are cut where the code awaits,
and keep what was read in `request[r]`. Endpoints that write what they read in one
statement are one action. A session is the claims of its token: nothing else is looked at
until it expires. The clock counts in units in which the lock and the token's life are constants.
Two assumptions: a request is answered within a tick (`RequestsAreShort`), and an API answers
requests once its start has found or seeded an account.

**Settings.** A PATCH reads the rows it is to change and writes those that differ; the gateway reads
all rows when it starts, or none when the database does not answer, goes by its environment
for the rest, and puts that in force (`Enforced`), except that it does not demand STARTTLS when
`_tls_context` finds no certificate. `saved` and `crossed` are histories: what the last request that
succeeded had asked for, and the keys of a request that another one had at the same time. The page
that shows the settings (`get_all`) has defaults of its own for keys that were never stored, where the
gateway goes by its environment; it is not modelled.

**Partitions.** Months are numbered. A start takes the transaction's `now()` before it waits for
the advisory lock; rows of a month without partition go to `messages_default`, and then
`CREATE TABLE … PARTITION OF` refuses that month. Assumption: no start waits for the lock for
more than a month.

**RestoreJobs.** `step[a]` is where the execution in API `a` is; documents are numbered in the order
of the search, so that the cursor is a number and the page after it the first `PageSize` hits
above it. `DeliveryLost` gives the job to somebody else while the execution goes on. Failures the
code catches end the job with an error; those it does not (`HandlerRaises`) and an
ack on a lost channel end the consumer task, which only a restart of the API brings back
(`ApiStarts`). `SendOne` delivers a mail, or, in a job of `ToMailbox`, has it refused: the server answers
APPEND with NO, which neither `imaplib` nor `imap_append` notices, and the mail counts as sent. (A
relay's refusal raises: `RunFails`.) `refused` is a history of that. `kept` is a history: the documents that were found throughout an execution.

Definitions whose comment begins with *Mutant* are not used: each changes one
definition as a plausible bug would, and shows which property notices.

## 3. Runs

| Run | Instance | Shows |
|---|---|---|
| `mail_queue` | 2 workers, 1 mail + 1 too large, 3 copies, prefetch 2 | accepted mails are kept, copies have one settler and stay settled, dead letters are deserved |
| `mail_queue_retry` | 1 worker, 1 copy | **violated**: a prefetched copy is dead-lettered at its first failure |
| `pipeline_duplicates` | 2 workers, 2 copies of a mail or of a malformed one, 2 days | dedup, search, event and promise invariants; refinement of `ArchiveService` |
| `pipeline_attachments` | 2 workers, two mails with two shared attachments in opposite order | counters, links, contents, locks |
| `pipeline_live` | 2 workers, two mails with two shared attachments in opposite order and a malformed one: one copy with failures that end, or two and none | every mail is resolved, waiting transactions get on |
| `pipeline_export` | 2 mails with one fingerprint | **violated**: the exported body is the other mail's |
| `archive` | 1 worker, 2 mails with one attachment, 3 days, retention of 1 day, batches of 1 | tables stay consistent, retained mails stay complete and searchable, dead hits are expired; refinement of `RetainedArchive` |
| `archive_hold` | 1 mail, 2 days | **violated**: a message put on hold during a purge is deleted |
| `archive_orphans` | 2 mails, 2 days | **violated**: the purge takes an attachment a new mail refers to |
| `administration` | 2 requests on 3 accounts over 3 ticks; 2 settings, 2 updates; 2 services over 6 months | the main administrator stays, failures are counted, access ends and is consistent; settings that were saved take effect, updates hold; no start is refused |
| `restore` | 1 job into a mailbox, 2 APIs, 3 documents, pages of 2, 1 failure | a job that is done has put every mail before the destination, sends once per execution, shows no progress without an answer, and ends |
| `collection` | an IMAP source with 2 mails and a POP3 source, the scan and a manual run | mails are lost only by runs that fail or misread them, published once, and reliable sources are collected whatever the others do |

*Bounds.* `Copy` bounds the publications of a behaviour, `LastDay` the calendar,
`Prefetch` the window (2 is enough to have a copy delivered while another one is processed), `QuietQueue` the disturbances in the `archive`
runs, where the queue's own are switched off because the pipeline's runs have
them; with one worker and no channel lost, `OneCallPerCopy` holds there. Two workers and two or three copies give every race the code speaks of: two workers on
one mail, a worker with a lost channel and its successor, two transactions that
wait for each other. Three days with one day of retention give an index dropped,
a cutoff day with rows on both sides and a second purge after a failed one.

Three more runs have a state constraint. `administration`: the three components share no state, so the
instance lets only one of them leave its start at a time (their sum and not their product); of the
accounts, addresses are varied where their role needs them, and failing or overlapping logins are
those of the second account. Two requests and three accounts are what the races need: two
administrators who take each other away beside the main one, two creations of one name. Six months
are a start, two months without, a start late or on time, and two months after. `restore`: the destination changes
while no job is executed, one document at a time is missing or half purged, one failure; three
documents and pages of two give a full page, a last page and an empty one, with a document that
comes or goes in between; the second document, the last of a full page, may be refused, while the index does not change
(the job goes to a mailbox: one that goes through the relay has the same behaviours without the
refusals, and the theorem of section 5 is about both). `collection`: one mailbox has mails (two in IMAP or one in POP3) and the other source
only fails, requests and deletion are of the former; the first mail may be misread, in a behaviour
in which no run fails with a mail in hand and no source is deleted. The settings are a host, which may be
blank, and STARTTLS, with an environment that differs from what may be saved. A constraint hides what happens beyond it
from the liveness properties as well; the bounds concern what the environment does (mailboxes,
requests, the index), not steps of the code.

`CHECK_DEADLOCK FALSE` is set because a behaviour ends when its copies and days
are used up and everything is settled.

*Symmetry* is used in safety runs only, over copies, workers, requests and updates (and mails where
they differ in nothing).

*Fairness* (`PipelineFairness`): a ready copy is delivered when a window has
room, a worker takes what it was delivered, `process()` goes on, an outcome is
settled: the event loop and the broker do all that without help, and containers
restart (`restart: unless-stopped`). And outages end: after some point there is no
`Outage` step, that is, stores do not fail, channels are not lost and workers stop only because of
an earlier loss. `Outage` excludes the steps that look like one as a change of state and are
something else: a deadlock's victim, the rejection of a worker's only delivery.
`FairRestoreSpec`: an API goes on with its execution and takes jobs
while its consumer task runs, which says that mailboxes and relays answer
(`imap_append` sets no time limit, `fetch.py:25`). Nothing brings a dead task back, so `PublishedJobsEnd` says: if
some consumer is listening from some point on. `FairCollectionSpec`: the scheduler calls `_scan`, a run goes
on, which says that servers answer (the code sets no time limit of its own), and the interval of a
reliable source elapses; reliable sources fail or misread finitely often, and so do the database and the processes fail.
Nothing is said of the other sources: they may fail for ever.
No fairness is assumed of senders, administrators, midnight or the choice of a
deadlock's victim among several (PostgreSQL picks one; the victim's step is one
of its worker's steps).

## 4. What the code does otherwise than it says

Four runs are violated by design; each states a sentence of the repository.

* `queue.py:110` promises one retry before the dead letter. The flag it tests is
  set on every delivery of a lost channel, begun or not.
* `mail_access.py:3` promises the exact `.eml`, `storage.py:105` that writing a blob
  again is safe because the content is the same. The key is a fingerprint of some
  headers, the text and the attachments, so two different mails can share it; the
  loser of a race overwrites the winner's body before it finds out.
* `api/main.py:713`: legal hold excludes a message from the purge; not from one that
  has already selected its batch.
* retention `main.py:7` (collection of orphan blobs): the counter tested is the one
  loaded with the batch; a mail archived since then loses its attachment.

Three more sentences hold only up to what the properties of `collection`, `restore` and
`administration` name beside what they promise:

* `fetch.py:112`: the run publishes each mail (« publie chaque mail dans la file »). One that the server
  answers with NO is flagged or deleted and a byte of the answer is published: `misread` in
  `LossNeedsAFailure` and `ReliableSourcesAreCollected`. The run is recorded as ok.
* `api/main.py:608`: the job restores each mail (« restaure chaque mail »), and `fetch.py:22` says that
  `imap_append` returns the number of mails it has put down. Mails that the mailbox refuses are counted
  and missing: `refused` in `DoneMeansComplete`, and in `AnsweredFor`, which bounds the progress.
* `web/src/i18n.js:191`: the settings take effect when the gateway is started again. Without a
  certificate the one that demands STARTTLS does not (`smtp_gateway/main.py:89`; a warning is logged), and without
  the database none does: `SavedTakesEffect` says so.

## 5. Proofs

All theorems hold for every value of the constants that satisfies the named
assumptions of the component's module (`PrefetchAssumption`, `PipelineAssumption`,
`AttachmentsAssumption`, `CollectionAssumption`, `RestoreAssumption`, `LowerAssumption`,
`AccountsAssumption`, `SettingsAssumption`, `PartitionsAssumption` and the ones about
null values); TLC evaluates these in its runs.

* **MailQueueProofs**: types; `SettlerOwnsCopy` is inductive with the types. `AcceptedMailIsKept`
  is not: it needs that a copy whose body was republished has a sibling with the same body, hence
  an invariant about *bodies*: every body ever published has a copy that is neither unsent nor
  merely republished or replayed.
* **MailQueueRetriesProofs**: `DeadLetterIsDeserved`, from an invariant that links a handler's
  outcome to the failure counter (`RetriesInv`).
* **ArchivePipelineProofs**: each step of the pipeline is a step of `MailQueue` or leaves it
  alone, so the queue's theorems carry over (`PipelineImplementsQueue`); types; and `RunInv`,
  which ties a worker's `raw`, `step` and `outcome` to its job.
* **PipelineStoreProofs**: `DedupIsExact`, `LocksBelongToTransactions`, then with both
  `RefCountIsExact` and `LinksAreComplete`. The strengthening says that ids in tables are below
  `nextId`, and that a transaction about to commit holds all rows of its mail.
* **PipelinePromiseProofs**: content is stored before the commit; hits, events; and
  `ArchivedIsSearchableOrPending` and `AcceptedIsArchivedOrPending`, from an invariant about what
  `ok` and `acked` imply: the fingerprint has a dedup entry whose document is there. Then
  `PipelineSpec => ImplementsService` with the mapping above, one lemma
  per kind of step, and the service's promise as a corollary.
* **MailArchiveProofs**: a step is one of the pipeline or one of the purge, for any number of workers, copies,
  attachments and days. Lemmas about the pipeline's steps are the ones of the modules above, so that only
  what the purge does is new. In the order in which they rest on each other:
  - `PurgeInv` (with `RunInv` of the pipeline): types; the rows a purge has selected were expired when it
    did, and stay so. From it the action property `NothingRetainedIsPurged`, and `HeldInTimeIsKept`.
  - `TablesArchived` adds `ArchiveTables`: ids are unique and below `nextId`, and counters and dedup
    are exact, for which the COMMIT of the purge must take from each counter the links it deletes.
    `DedupIsExact` and `RefCountIsExact` are its corollaries.
  - `LocksArchived`: a worker about to commit holds the rows of its mail, and a purge that is over holds none.
  - `CallsInv`: no call has looked for a fingerprint in vain that a purge then selects (`NoneIsStored`), and a
    call that has found its duplicate still does (`CallsAreCurrent`). So no INSERT waits for a
    purge, and a call that met a conflict finds what it lost to. `RetainedBodyIsStored` follows: the
    blob a purge deletes is not that of a message stored anew under the same key.
  - `TargetsAreKnown`: what a call is about to index is the message of its fingerprint, or one that has expired; hence
    `DeadHitsAreExpired`. With `EventsAreFound` it gives the action property `DoneIsArchived`: `process()` returns, and its mail is
    acknowledged, with the message in the table and its document in the index, unless the message it duplicated has expired.
  - `SearchableOrPending`, with `OneCallPerCopy` as hypothesis and `CallsAreAlone`, its consequence for a copy that is
    given to somebody else: a message whose document is missing has a copy that is not
    acknowledged, whose call, if there is one, has not passed the indexing of this very row.
    Without the hypothesis it is false: two workers have one copy, a purge takes the expired
    message between their prechecks, one archives the mail anew and stops, the other indexes the old row and acknowledges.
    `SearchableWithoutLoss` traces the hypothesis to its cause: it holds as long as no worker goes on with a delivery whose channel it has lost.
  - `RefsAndDates` and the above give `ImplementsRetainedArchive`, one lemma per kind of step, and `RetentionKept` of the archive.

Four properties are violated by a run (section 4). For each there is a theorem that says under which
condition on the schedule it holds, and so what kind of overlap it takes to break it:

| Violated | Holds when | Theorem |
|---|---|---|
| `DeadLetteredAfterOneRetry` | copies go back to the queue for failures of the mail only, neither with a lost channel or worker nor for a transient error (`RequeuedForErrorsOnly`) | `RetriedBeforeDead` |
| `ExportIsExact` | no two calls have variants of a mail at the same time (`VariantsComeApart`) | `ExportWithoutRace` |
| `HeldMessagesAreKept` | the hold is set before the purge selects its batch | `HoldsAreInTime` |
| `OnlyOrphansAreCollected` | no mail is committed during a purge (`PurgeIsAlone`) | `OrphansWithoutRace` |

`OrphansWithoutRace` rests on `SessionCounts`: the object's counter is the number of links whose messages the run
has not counted down yet. The stronger `NoneIsStoring` (no mail is being stored during a purge at
all) also gives every retained message the contents of its attachments (`AttachmentsWithoutRace`): the
purge deletes blobs at once, so it may delete one that a worker has put for a row it has yet to insert.

* **AdministrationProofs**: three independent parts. Partitions: `PartitionsInv` says that the last
  start that succeeded has left three months of partitions and that the calendar is within them
  unless no service was started, and that no row is in the way of a start under way; then
  `NoStartIsRefused`. Settings: two requests that have a key at the same time both know it
(`CrossingsAreSeen`), so that a request alone with its key has read the row as it still is
(`AloneIsUpToDate`), and what it then saves, or need not write, is what is stored (`SavedIsStored`);
a start of the gateway puts this in force (`SavedIsApplied`). Accounts:
  `AccountsInv` adds to the types what a request under way may do (nothing to the main
  administrator; the first creation makes it) and that there is no session before there is an account; `TimesInv`
  relates `lastActive`, the clock and what a login has read, which bounds a session's life;
  `CountersInv` says that a login alone on its account has read the counter as it still is.
* **TransferProofs**: Collection: `HandledOnce` follows a mail of an IMAP mailbox without overlapping
  runs from *new* over *listed* and *in hand* to *published*; `LossNeedsAFailure` is inductive with
  the types and with what a POP3 session has marked being in hand; what FETCH, STORE and EXPUNGE do or
  do not do after a NO is covered by it. RestoreJobs: `RestoreInv` has,
  per execution, that a document still to be sent is in the page or after it (and the page is
  a full one then: `CoveredBy`, which gives `DoneMeansComplete`), that its counter is at most the number of documents up to its cursor
  that the destination has answered for (`CountedBy`), and, over all executions of a job, that one which still has a document
  before it has not used its share of `runs` (`SentOnce`). Refusals are in the types: only jobs into a
  mailbox have any, so that a job through the relay that says done has delivered everything. The lemmas on pages say that the page is a
  beginning of the hits after the cursor, no longer than `PageSize`, and full if it leaves any out.

The type invariants of Accounts, Settings and Partitions are proved and not in a run.

The action properties `NothingRetainedIsPurged`, `HeldInTimeIsKept` and `DoneIsArchived` are proved and not in a run either.

Only model-checked: liveness (`EveryMailIsResolved`, `PublishedJobsEnd`,
`ReliableSourcesAreCollected`; fairness is outside of the prover's fragment). Each safety property of
a passing run is the subject of a theorem.

## 6. Not modelled, and the plan

Not modelled, with the reason:

* contents: headers, the MIME walk, encryption, signatures, hashes. They are computations on
  data without control the properties could tell apart; a mail has a fingerprint, attachments
  and addresses, and parses or does not;
* queries, highlights, offset pages and statistics of the search, forwarding, the audit trail and
  translations: they read and format;
* `import_eml`: one more publisher, after the one of MailQueue, without a protocol of its own;
* the Object Lock of the blob store (`set_legal_hold` on a blob): it depends on the bucket's
  configuration, which the code does not decide;
* TLS, the SMTP dialogue before DATA, the SSE connection, the LDAP bind: external protocols;
* the web client, migrations, container files, load tests, logging, configuration.

Left to do, in this order:

1. Mails that carry an attachment twice, which `AttachmentsAssumption` leaves out: the flush
   refuses the second link, so that the transaction needs a way to fail there.
2. An abstract service for RestoreJobs (a set of documents to send, a status) refined by it.
3. Collection composed with MailQueue: `Publish` with the broker's refusal in place of `Fails`.
