----------------------------- MODULE RestoreJobs -----------------------------
(***************************************************************************)
(* Restoring the perimeter of an account: transfer_perimeter creates a row *)
(* of transfer_jobs and publishes a job; a consumer in each API            *)
(* (consume_restore_jobs, _handle_restore_command, _run_perimeter_transfer) *)
(* pages through the search and sends every mail to the account's IMAP     *)
(* folder or address.  An IMAP server that answers APPEND with NO refuses   *)
(* the mail without anybody noticing: imaplib does not raise, imap_append   *)
(* does not look, and the mail counts as sent.  A relay's refusal raises.   *)
(*                                                                         *)
(* Documents are numbered in the order of the search (date, doc_id, both   *)
(* descending), so that the cursor of search_after is a number.            *)
(***************************************************************************)
EXTENDS AccessScope

CONSTANTS
  Doc,         \* documents, numbered in the order of the search
  PartiesOf,   \* the addresses in each document
  Target,      \* the account whose perimeter is restored
  Job,
  ToMailbox,   \* jobs whose method is imap; the others go through the relay
  Api,         \* API instances, each with one consumer of restore_jobs
  PageSize,    \* 200
  MaxOutages,  \* bound on failures in a behaviour
  NoJob

ASSUME RestoreAssumption ==
  /\ Doc \subseteq Nat \ {0} /\ IsFiniteSet(Doc)
  /\ PartiesOf \in [Doc -> SUBSET Address]
  /\ Target \in [role : {"user", "auditor"}, email : Address, audited : SUBSET Address]
  /\ PageSize \in Nat \ {0} /\ MaxOutages \in Nat
  /\ NoJob \notin Job /\ ToMailbox \subseteq Job /\ IsFiniteSet(Api)

VARIABLES
  status,     \* transfer_jobs.status of each job, "none" before its row is there
  sent,       \* transfer_jobs.sent
  queued,     \* where the job's message is
  reachable,  \* the destination can be derived: for imap the account's mailbox,
              \* for smtp the relay and the account's address
  indexed,    \* documents a search finds
  stored,     \* documents whose message can be read
  listening,  \* APIs whose consumer task is running
  job,        \* the job an API is executing
  attached,   \* its delivery is still its own
  step,       \* where the execution is
  cursor,     \* its search_after
  page,       \* results of the page it has not sent yet
  pageLen,    \* how many results the page had
  count,      \* its local variable sent
  outages,    \* failures so far
  delivered,  \* history: how often a job delivered each document
  refused,    \* history: documents of a job that the mailbox has refused
  runs,       \* history: how often a job was begun
  kept        \* history: documents that were there for all of the execution

jobVars == <<status, sent, queued>>
indexVars == <<reachable, indexed, stored>>
runVars == <<job, attached, step, cursor, page, pageLen, count>>
historyVars == <<delivered, refused, runs, kept>>
restoreVars == <<jobVars, indexVars, listening, runVars, outages, historyVars>>

Places == {"none", "ready", "held", "gone"}
Steps == {"idle", "begin", "search", "read", "send", "progress", "done", "error", "settle"}

RestoreTypeOK ==
  /\ status \in [Job -> {"none", "running", "done", "error"}]
  /\ sent \in [Job -> 0..Cardinality(Doc)]
  /\ queued \in [Job -> Places]
  /\ reachable \in BOOLEAN
  /\ indexed \subseteq Doc /\ stored \subseteq Doc
  /\ listening \subseteq Api
  /\ job \in [Api -> Job \cup {NoJob}] /\ attached \in [Api -> BOOLEAN]
  /\ step \in [Api -> Steps] /\ cursor \in [Api -> Doc \cup {0}]
  /\ page \in [Api -> SUBSET Doc] /\ pageLen \in [Api -> 0..PageSize]
  /\ count \in [Api -> Nat] /\ outages \in 0..MaxOutages
  /\ delivered \in [Job -> [Doc -> Nat]] /\ runs \in [Job -> Nat]
  /\ refused \in [Job -> SUBSET Doc] /\ \A j \in Job \ ToMailbox : refused[j] = {}
  /\ kept \in [Api -> SUBSET Doc]

RestoreInit ==
  /\ status = [j \in Job |-> "none"] /\ sent = [j \in Job |-> 0]
  /\ queued = [j \in Job |-> "none"]
  /\ reachable \in BOOLEAN
  /\ indexed \in SUBSET Doc /\ stored = indexed
  /\ listening = Api
  /\ job = [a \in Api |-> NoJob] /\ attached = [a \in Api |-> FALSE]
  /\ step = [a \in Api |-> "idle"] /\ cursor = [a \in Api |-> 0]
  /\ page = [a \in Api |-> {}] /\ pageLen = [a \in Api |-> 0] /\ count = [a \in Api |-> 0]
  /\ outages = 0
  /\ delivered = [j \in Job |-> [d \in Doc |-> 0]] /\ refused = [j \in Job |-> {}]
  /\ runs = [j \in Job |-> 0]
  /\ kept = [a \in Api |-> {}]

Lowest(docs) == CHOOSE d \in docs : \A e \in docs : d <= e

\* restrict: what the search of the job is limited to.
Perimeter == {d \in Doc : SearchMatches(PartiesOf[d], ScopeAddresses(Target))}

\* Mutant: the page starts with the document the cursor names.
PageFromCursor(after) ==
  LET hits == {d \in indexed \cap Perimeter : d >= after}
  IN  {d \in hits : Cardinality({e \in hits : e < d}) < PageSize}

\* _search: the first PageSize hits after the cursor.
PageAfter(after) ==
  LET hits == {d \in indexed \cap Perimeter : d > after}
  IN  {d \in hits : Cardinality({e \in hits : e < d}) < PageSize}

-----------------------------------------------------------------------------
\* transfer_perimeter, up to the row: the destination must be there then.
CreateJob(j) ==
  /\ status[j] = "none" /\ reachable
  /\ status' = [status EXCEPT ![j] = "running"]
  /\ UNCHANGED <<sent, queued, indexVars, listening, runVars, outages, historyVars>>

\* transfer_perimeter, publish_restore_job with confirm.
PublishJob(j) ==
  /\ status[j] = "running" /\ queued[j] = "none"
  /\ queued' = [queued EXCEPT ![j] = "ready"]
  /\ UNCHANGED <<status, sent, indexVars, listening, runVars, outages, historyVars>>

\* The broker refuses, or the API stops before: the row stays as it is.
PublishFails(j) ==
  /\ status[j] = "running" /\ queued[j] = "none"
  /\ queued' = [queued EXCEPT ![j] = "gone"]
  /\ UNCHANGED <<status, sent, indexVars, listening, runVars, outages, historyVars>>

\* consume_restore_jobs: the iterator yields a job; prefetch is 1.
TakeFrom(a, j, already) ==
  /\ a \in listening /\ job[a] = NoJob /\ queued[j] = "ready"
  /\ queued' = [queued EXCEPT ![j] = "held"]
  /\ job' = [job EXCEPT ![a] = j] /\ attached' = [attached EXCEPT ![a] = TRUE]
  /\ step' = [step EXCEPT ![a] = "begin"]
  /\ cursor' = [cursor EXCEPT ![a] = 0] /\ count' = [count EXCEPT ![a] = already]
  /\ runs' = [runs EXCEPT ![j] = @ + 1]
  /\ kept' = [kept EXCEPT ![a] = indexed]
  /\ UNCHANGED <<status, sent, indexVars, listening, page, pageLen, outages, delivered,
                 refused>>

\* Mutant: an execution goes on counting where the row says the last one was.
TakeCounting(a, j) == TakeFrom(a, j, sent[j])

\* _run_perimeter_transfer: sent = 0, cursor = None.
Take(a, j) == TakeFrom(a, j, 0)

\* The execution goes on at another step, nothing else changes.
GoTo(a, next) ==
  /\ step' = [step EXCEPT ![a] = next]
  /\ UNCHANGED <<jobVars, indexVars, listening, job, attached, cursor, page, pageLen, count,
                 historyVars>>

\* _handle_restore_command derives the destination again.
Derive(a) ==
  /\ step[a] = "begin"
  /\ GoTo(a, IF reachable THEN "search" ELSE "error")
  /\ UNCHANGED outages

\* _run_perimeter_transfer: the next page.
SearchPage(a) ==
  /\ step[a] = "search"
  /\ LET hits == PageAfter(cursor[a]) IN
       /\ page' = [page EXCEPT ![a] = hits]
       /\ pageLen' = [pageLen EXCEPT ![a] = Cardinality(hits)]
       /\ step' = [step EXCEPT ![a] = IF hits = {} THEN "done" ELSE "read"]
  /\ UNCHANGED <<jobVars, indexVars, listening, job, attached, cursor, count, outages, historyVars>>

\* get_eml for every result: one that has been purged ends the job.
ReadPage(a) ==
  /\ step[a] = "read"
  /\ GoTo(a, IF page[a] \subseteq stored THEN "send" ELSE "error")
  /\ UNCHANGED outages

\* imap_append and send_raw send one mail after the other; APPEND may answer NO.
SendOne(a) ==
  /\ step[a] = "send"
  /\ LET d == Lowest(page[a]) IN
       /\ \/ /\ delivered' = [delivered EXCEPT ![job[a]][d] = @ + 1] /\ UNCHANGED refused
          \/ /\ job[a] \in ToMailbox
             /\ refused' = [refused EXCEPT ![job[a]] = @ \cup {d}] /\ UNCHANGED delivered
       /\ page' = [page EXCEPT ![a] = @ \ {d}]
       /\ cursor' = [cursor EXCEPT ![a] = d]
       /\ step' = [step EXCEPT ![a] = IF page[a] = {d} THEN "progress" ELSE @]
  /\ UNCHANGED <<jobVars, indexVars, listening, job, attached, pageLen, count, outages, runs, kept>>

\* Mutant: any page but an empty one may be the last.
LastPageAnyLength(a) == TRUE

\* len(results) < page
LastPage(a) == pageLen[a] < PageSize

\* Mutant: every page counts as a full one.
SentByPage(a) == count[a] + PageSize

\* sent += len(raws)
Sent(a) == count[a] + pageLen[a]

\* set_progress, and the cursor of the next page (the last result's).
Progress(a) ==
  /\ step[a] = "progress"
  /\ count' = [count EXCEPT ![a] = Sent(a)]
  /\ sent' = [sent EXCEPT ![job[a]] = Sent(a)]
  /\ step' = [step EXCEPT ![a] = IF LastPage(a) THEN "done" ELSE "search"]
  /\ UNCHANGED <<status, queued, indexVars, listening, job, attached, cursor, page, pageLen,
                 outages, historyVars>>

\* finish
Finish(a) ==
  /\ step[a] \in {"done", "error"}
  /\ status' = [status EXCEPT ![job[a]] = step[a]]
  /\ step' = [step EXCEPT ![a] = "settle"]
  /\ UNCHANGED <<sent, queued, indexVars, listening, job, attached, cursor, page, pageLen,
                 count, outages, historyVars>>

\* The execution is over; lost says whether the consumer task is, too.
Leave(a, place, lost) ==
  /\ queued' = IF attached[a] THEN [queued EXCEPT ![job[a]] = place] ELSE queued
  /\ listening' = IF lost THEN listening \ {a} ELSE listening
  /\ job' = [job EXCEPT ![a] = NoJob] /\ attached' = [attached EXCEPT ![a] = FALSE]
  /\ step' = [step EXCEPT ![a] = "idle"]
  /\ cursor' = [cursor EXCEPT ![a] = 0] /\ count' = [count EXCEPT ![a] = 0]
  /\ page' = [page EXCEPT ![a] = {}] /\ pageLen' = [pageLen EXCEPT ![a] = 0]
  /\ kept' = [kept EXCEPT ![a] = {}]
  /\ UNCHANGED <<status, sent, indexVars, delivered, refused, runs>>

\* message.process() acknowledges.  On a lost channel that raises, out of the
\* loop: the task ends, and nothing starts it again but a restart.
Settle(a) ==
  /\ step[a] = "settle"
  /\ Leave(a, "gone", ~attached[a])
  /\ UNCHANGED outages

-----------------------------------------------------------------------------
Outage == outages < MaxOutages /\ outages' = outages + 1

\* Search, blob store, mailbox, relay or database fails where
\* _run_perimeter_transfer catches it.
RunFails(a) ==
  /\ Outage /\ step[a] \in {"search", "read", "send", "progress", "done"}
  /\ GoTo(a, "error")

\* Mutant: the consumer acknowledges a job it could not execute.
HandlerRaisesAcked(a) ==
  /\ Outage /\ step[a] \in {"begin", "error"}
  /\ Leave(a, "gone", TRUE)

\* The database fails where nothing catches it: message.process() requeues the
\* job and passes the exception on, which ends the consumer task.
HandlerRaises(a) ==
  /\ Outage /\ step[a] \in {"begin", "error"}
  /\ Leave(a, "ready", TRUE)

\* The channel or the broker's patience ends: the job goes to somebody else,
\* and the execution goes on.
DeliveryLost(a) ==
  /\ Outage /\ job[a] # NoJob /\ attached[a]
  /\ attached' = [attached EXCEPT ![a] = FALSE]
  /\ queued' = [queued EXCEPT ![job[a]] = "ready"]
  /\ UNCHANGED <<status, sent, indexVars, listening, job, step, cursor, page, pageLen, count,
                 historyVars>>

ApiStops(a) ==
  /\ Outage /\ job[a] # NoJob
  /\ Leave(a, "ready", TRUE)

ApiStarts(a) ==
  /\ a \notin listening /\ job[a] = NoJob
  /\ listening' = listening \cup {a}
  /\ UNCHANGED <<jobVars, indexVars, runVars, outages, historyVars>>

-----------------------------------------------------------------------------
\* set_restore_imap, and the settings of the relay or the account's address.
Configure ==
  /\ reachable' = ~reachable
  /\ UNCHANGED <<jobVars, indexed, stored, listening, runVars, outages, historyVars>>

\* A mail is archived; one is purged, first from the index or first the row.
ArchiveDoc(d) ==
  /\ d \notin indexed \cup stored
  /\ indexed' = indexed \cup {d} /\ stored' = stored \cup {d}
  /\ UNCHANGED <<jobVars, reachable, listening, runVars, outages, historyVars>>

DropDoc(d) ==
  /\ d \in indexed
  /\ indexed' = indexed \ {d} /\ kept' = [a \in Api |-> kept[a] \ {d}]
  /\ UNCHANGED <<jobVars, reachable, stored, listening, runVars, outages, delivered, refused, runs>>

PurgeRow(d) ==
  /\ d \in stored /\ stored' = stored \ {d}
  /\ UNCHANGED <<jobVars, reachable, indexed, listening, runVars, outages, historyVars>>

GoesOn(a) ==
  \/ \E j \in Job : Take(a, j)
  \/ Derive(a) \/ SearchPage(a) \/ ReadPage(a) \/ SendOne(a) \/ Progress(a) \/ Finish(a) \/ Settle(a)

RestoreNext ==
  \/ \E j \in Job : CreateJob(j) \/ PublishJob(j) \/ PublishFails(j)
  \/ \E a \in Api :
       \/ GoesOn(a)
       \/ RunFails(a) \/ HandlerRaises(a) \/ DeliveryLost(a) \/ ApiStops(a) \/ ApiStarts(a)
  \/ Configure
  \/ \E d \in Doc : ArchiveDoc(d) \/ DropDoc(d) \/ PurgeRow(d)

RestoreSpec == RestoreInit /\ [][RestoreNext]_restoreVars

\* The event loop and the broker go on by themselves, and the mailbox and the
\* relay answer (imap_append sets no time limit); nobody is obliged to restart an
\* API, to configure a destination or to archive anything.
FairRestoreSpec == RestoreSpec /\ \A a \in Api : WF_restoreVars(GoesOn(a))

-----------------------------------------------------------------------------
\* A job that says done has put every mail that the search could find from its
\* beginning to its end before the destination, whatever was archived or purged
\* between its pages: each was delivered, but for those an IMAP mailbox refused.
DoneMeansComplete ==
  \A a \in Api : step[a] = "done" =>
    \A d \in kept[a] \cap Perimeter :
      delivered[job[a]][d] > 0 \/ (job[a] \in ToMailbox /\ d \in refused[job[a]])

\* A mail is sent once by each execution of the job, and again only when the
\* job is executed again.
OncePerExecution == \A j \in Job : \A d \in Doc : delivered[j][d] <= runs[j]

\* The mails a destination has answered for, whatever it said.
AnsweredFor(j) == {d \in Doc : delivered[j][d] > 0} \cup refused[j]

\* The progress shown never exceeds the mails that a destination was sent and has
\* answered for, with two APIs executing the same job among other things.  (Those
\* that a mailbox has refused count.)
ProgressIsAnswered == \A j \in Job : sent[j] <= Cardinality(AnsweredFor(j))

\* A published job ends, done or in error, provided that some consumer is left
\* in the end (a consumer task that has died is not started again by itself).
PublishedJobsEnd ==
  <>[](listening # {}) => \A j \in Job : queued[j] = "ready" ~> status[j] \in {"done", "error"}
=============================================================================
