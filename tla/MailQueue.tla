------------------------------ MODULE MailQueue ------------------------------
(***************************************************************************)
(* The `raw_mail` queue: RabbitMQ as the services use it                   *)
(* (mailarchiver_common/queue.py), its publishers (the SMTP gateway's      *)
(* handle_DATA and the API's dlq_replay) and its consumers (the            *)
(* archiver-workers in consume_raw_mail).                                  *)
(*                                                                         *)
(* Every publication of a mail occupies one member of Copy, and never      *)
(* gives it back: the size of Copy bounds the number of publications of a  *)
(* behaviour.  The two queues are sets of copies: a worker may be handed   *)
(* any ready copy, which includes the broker's order and every reordering  *)
(* that requeues cause.                                                    *)
(***************************************************************************)
EXTENDS ArchiveConstants, Naturals, FiniteSets

CONSTANTS
  Oversized,   \* the mails above smtpd_max_message_bytes
  Copy,        \* publications of a mail in raw_mail
  Prefetch,    \* prefetch_count of a worker's channel
  NoCopy

ASSUME OversizedAssumption == Oversized \subseteq Mail
ASSUME PrefetchAssumption  == Prefetch \in Nat \ {0}
ASSUME NoCopyAssumption    == NoCopy \notin Copy

VARIABLES
  accepted,     \* ghost: mails whose sender was answered 250
  place,        \* where each copy is
  body,         \* the mail each copy carries
  redelivered,  \* the broker's redelivered flag of each copy
  holder,       \* the worker a copy in "held" has been delivered to
  job,          \* the copy whose `await handler(message.body)` a worker is in
  outcome,      \* how far that call is
  attached      \* the channel that delivered the job is still open

queueVars == <<accepted, place, body, redelivered, holder,
               job, outcome, attached>>

\* A copy is not published yet, waits in raw_mail, is delivered and not
\* settled, is acknowledged, waits in raw_mail_dead, is taken out of it by a
\* replay that has not published it again (fetched) or has (republished),
\* was acknowledged to raw_mail_dead by a replay, or was purged from there.
Places == {"unsent", "ready", "held", "acked",
           "dead", "fetched", "republished", "replayed", "purged"}

\* "transient" is an OperationalError or an InterfaceError, "error" any other
\* exception that leaves the handler.
Outcomes == {"idle", "running", "ok", "transient", "error"}

QueueTypeOK ==
  /\ accepted \subseteq Mail
  /\ place \in [Copy -> Places]
  /\ body \in [Copy -> Mail \cup {NoMail}]
  /\ redelivered \in [Copy -> BOOLEAN]
  /\ holder \in [Copy -> Worker \cup {NoWorker}]
  /\ job \in [Worker -> Copy \cup {NoCopy}]
  /\ outcome \in [Worker -> Outcomes]
  /\ attached \in [Worker -> BOOLEAN]

QueueInit ==
  /\ accepted = {}
  /\ place = [c \in Copy |-> "unsent"]
  /\ body = [c \in Copy |-> NoMail]
  /\ redelivered = [c \in Copy |-> FALSE]
  /\ holder = [c \in Copy |-> NoWorker]
  /\ job = [w \in Worker |-> NoCopy]
  /\ outcome = [w \in Worker |-> "idle"]
  /\ attached = [w \in Worker |-> FALSE]

HeldBy(w) == {c \in Copy : place[c] = "held" /\ holder[c] = w}

-----------------------------------------------------------------------------
(* Publishers                                                              *)

\* publish_raw_mail: a fresh copy enters the durable queue.
Publish(c, m) ==
  /\ place[c] = "unsent"
  /\ body' = [body EXCEPT ![c] = m]

\* handle_DATA answers 250: the mail is within the size limit and the broker
\* confirmed the publication.
HandleDataAccepts(m) ==
  /\ m \notin Oversized
  /\ \E c \in Copy :
       /\ Publish(c, m)
       /\ place' = [place EXCEPT ![c] = "ready"]
  /\ accepted' = accepted \cup {m}
  /\ UNCHANGED <<redelivered, holder, job, outcome, attached>>

\* handle_DATA answers 451 although the broker stored the mail: the confirm
\* was lost.  The sender keeps the mail and may send it again.
HandleDataUnconfirmed(m) ==
  /\ m \notin Oversized
  /\ \E c \in Copy :
       /\ Publish(c, m)
       /\ place' = [place EXCEPT ![c] = "ready"]
  /\ UNCHANGED <<accepted, redelivered, holder, job, outcome, attached>>

\* Mutant: the replay reads raw_mail_dead with no_ack=True.
ReplayGetNoAck(c) ==
  /\ place[c] = "dead"
  /\ place' = [place EXCEPT ![c] = "nowhere"]
  /\ UNCHANGED <<accepted, body, redelivered, holder, job, outcome, attached>>

\* dlq_replay takes a dead copy without acknowledging it, publishes its body,
\* then acknowledges.  Any number of replay requests may be under way.
ReplayGet(c) ==
  /\ place[c] = "dead"
  /\ place' = [place EXCEPT ![c] = "fetched"]
  /\ UNCHANGED <<accepted, body, redelivered, holder, job, outcome, attached>>

ReplayPublish(c) ==
  /\ place[c] = "fetched"
  /\ \E d \in Copy :
       /\ Publish(d, body[c])
       /\ place' = [place EXCEPT ![c] = "republished", ![d] = "ready"]
  /\ UNCHANGED <<accepted, redelivered, holder, job, outcome, attached>>

\* Mutant: the replay acknowledges before it publishes.
ReplayAckFirst(c) ==
  /\ place[c] \in {"fetched", "republished"}
  /\ place' = [place EXCEPT ![c] = "replayed"]
  /\ UNCHANGED <<accepted, body, redelivered, holder, job, outcome, attached>>

ReplayAck(c) ==
  /\ place[c] = "republished"
  /\ place' = [place EXCEPT ![c] = "replayed"]
  /\ UNCHANGED <<accepted, body, redelivered, holder, job, outcome, attached>>

\* The request fails or the API stops: its channel closes and the broker puts
\* the copy back, whether or not the body was published again.
ReplayAborts(c) ==
  /\ place[c] \in {"fetched", "republished"}
  /\ place' = [place EXCEPT ![c] = "dead"]
  /\ UNCHANGED <<accepted, body, redelivered, holder, job, outcome, attached>>

\* dlq_purge empties raw_mail_dead; copies a replay holds are not in it.
DlqPurge ==
  /\ \E c \in Copy : place[c] = "dead"
  /\ place' = [c \in Copy |-> IF place[c] = "dead" THEN "purged" ELSE place[c]]
  /\ UNCHANGED <<accepted, body, redelivered, holder, job, outcome, attached>>

-----------------------------------------------------------------------------
(* Consumers: one iteration of the loop of consume_raw_mail                *)

\* The broker pushes a copy into the worker's prefetch window.
Deliver(c, w) ==
  /\ place[c] = "ready"
  /\ Cardinality(HeldBy(w)) < Prefetch
  /\ place' = [place EXCEPT ![c] = "held"]
  /\ holder' = [holder EXCEPT ![c] = w]
  /\ UNCHANGED <<accepted, body, redelivered, job, outcome, attached>>

\* The worker takes its next delivery and calls the handler.
Take(w, c) ==
  /\ job[w] = NoCopy
  /\ c \in HeldBy(w)
  /\ job' = [job EXCEPT ![w] = c]
  /\ outcome' = [outcome EXCEPT ![w] = "running"]
  /\ attached' = [attached EXCEPT ![w] = TRUE]
  /\ UNCHANGED <<accepted, place, body, redelivered, holder>>

\* The handler returns or raises.
HandlerEnds(w, result) ==
  /\ outcome[w] = "running"
  /\ outcome' = [outcome EXCEPT ![w] = result]
  /\ UNCHANGED <<accepted, place, body, redelivered, holder, job, attached>>

\* The worker leaves the loop body and is ready for its next delivery.
FinishJob(w) ==
  /\ job' = [job EXCEPT ![w] = NoCopy]
  /\ outcome' = [outcome EXCEPT ![w] = "idle"]
  /\ attached' = [attached EXCEPT ![w] = FALSE]

\* message.ack()
Ack(w) ==
  /\ outcome[w] = "ok" /\ attached[w]
  /\ place' = [place EXCEPT ![job[w]] = "acked"]
  /\ holder' = [holder EXCEPT ![job[w]] = NoWorker]
  /\ FinishJob(w)
  /\ UNCHANGED <<accepted, body, redelivered>>

\* A copy goes back to raw_mail, flagged.
Requeue(copies) ==
  /\ place' = [c \in Copy |-> IF c \in copies THEN "ready" ELSE place[c]]
  /\ redelivered' = [c \in Copy |-> redelivered[c] \/ c \in copies]
  /\ holder' = [c \in Copy |-> IF c \in copies THEN NoWorker ELSE holder[c]]

\* Mutant: every failure is requeued, delivered before or not.
RejectAlwaysRequeues(w) ==
  /\ attached[w]
  /\ outcome[w] \in {"transient", "error"}
  /\ Requeue({job[w]})
  /\ FinishJob(w)
  /\ UNCHANGED <<accepted, body>>

\* message.reject(requeue=True): after a transient error always, after any
\* other error only for a copy that was not delivered before.
RejectAndRequeue(w) ==
  /\ attached[w]
  /\ \/ outcome[w] = "transient"
     \/ outcome[w] = "error" /\ ~redelivered[job[w]]
  /\ Requeue({job[w]})
  /\ FinishJob(w)
  /\ UNCHANGED <<accepted, body>>

\* Mutant: a transient error of a redelivered copy is dead-lettered too.
DeadLetterAnyFailure(w) ==
  /\ attached[w]
  /\ outcome[w] \in {"transient", "error"} /\ redelivered[job[w]]
  /\ place' = [place EXCEPT ![job[w]] = "dead"]
  /\ holder' = [holder EXCEPT ![job[w]] = NoWorker]
  /\ FinishJob(w)
  /\ UNCHANGED <<accepted, body, redelivered>>

\* message.reject(requeue=False): the broker moves the copy to raw_mail_dead.
DeadLetter(w) ==
  /\ attached[w]
  /\ outcome[w] = "error" /\ redelivered[job[w]]
  /\ place' = [place EXCEPT ![job[w]] = "dead"]
  /\ holder' = [holder EXCEPT ![job[w]] = NoWorker]
  /\ FinishJob(w)
  /\ UNCHANGED <<accepted, body, redelivered>>

\* Mutant: a delivery of the lost channel is settled on the new one.
ChannelLostUnnoticed(w) ==
  /\ HeldBy(w) # {}
  /\ Requeue(HeldBy(w))
  /\ UNCHANGED <<accepted, body, job, outcome, attached>>

\* The connection drops.  The broker requeues every unsettled delivery of the
\* channel; the handler under way knows nothing of it.
ChannelLost(w) ==
  /\ HeldBy(w) # {}
  /\ Requeue(HeldBy(w))
  /\ attached' = [attached EXCEPT ![w] = FALSE]
  /\ UNCHANGED <<accepted, body, job, outcome>>

\* Mutant: the ending worker returns its job to the queue, whoever has it now.
WorkerStopsRequeuesJob(w) ==
  /\ job[w] # NoCopy
  /\ Requeue(HeldBy(w) \cup {job[w]})
  /\ FinishJob(w)
  /\ UNCHANGED <<accepted, body>>

\* Mutant: automatic acknowledgement, deliveries die with the worker.
WorkerStopsAutoAck(w) ==
  /\ job[w] # NoCopy
  /\ place' = [c \in Copy |-> IF c \in HeldBy(w) THEN "acked" ELSE place[c]]
  /\ FinishJob(w)
  /\ UNCHANGED <<accepted, body, redelivered, holder>>

\* The worker ends at any point: killed, or because settling a delivery of a
\* lost channel raises out of consume_raw_mail.  The container starts again.
WorkerStops(w) ==
  /\ job[w] # NoCopy
  /\ Requeue(HeldBy(w))
  /\ FinishJob(w)
  /\ UNCHANGED <<accepted, body>>

\* The part of WorkerStops that is no accident: ack or reject on a lost channel.
SettleOnLostChannel(w) ==
  /\ outcome[w] \in {"ok", "transient", "error"} /\ ~attached[w]
  /\ WorkerStops(w)

-----------------------------------------------------------------------------
\* The steps of the environment and of the broker that do not depend on what
\* the handler does.
QueueStep ==
  \/ \E m \in Mail : HandleDataAccepts(m) \/ HandleDataUnconfirmed(m)
  \/ \E c \in Copy : ReplayGet(c) \/ ReplayPublish(c) \/ ReplayAck(c) \/ ReplayAborts(c)
  \/ DlqPurge
  \/ \E c \in Copy, w \in Worker : Deliver(c, w)
  \/ \E w \in Worker : Ack(w) \/ RejectAndRequeue(w) \/ DeadLetter(w) \/ ChannelLost(w)

QueueNext ==
  \/ QueueStep
  \/ \E w \in Worker, c \in Copy : Take(w, c)
  \/ \E w \in Worker, r \in {"ok", "transient", "error"} : HandlerEnds(w, r)
  \/ \E w \in Worker : WorkerStops(w)

QueueSpec == QueueInit /\ [][QueueNext]_queueVars

-----------------------------------------------------------------------------
(* Properties                                                              *)

\* A mail answered 250 stays somewhere: waiting, delivered, acknowledged,
\* dead, or thrown away by an administrator.  A copy whose body a replay has
\* published again no longer counts: dlq_replay must publish before it
\* acknowledges, whatever fails in between.
AcceptedMailIsKept ==
  \A m \in accepted : \E c \in Copy :
    /\ body[c] = m
    /\ place[c] \in {"ready", "held", "acked", "dead", "fetched", "purged"}

\* A worker about to settle a delivery on an open channel is the only one the
\* broker has delivered that copy to: a second worker may process the copy at
\* the same time, but only one of the two can acknowledge or reject it.
SettlerOwnsCopy ==
  \A w \in Worker : attached[w] => job[w] \in HeldBy(w)

\* An acknowledged, replayed or purged copy never comes back, not even by the
\* late settling of a worker whose channel was lost.
SettledForGood ==
  [][\A c \in Copy : place[c] \in {"acked", "replayed", "purged"} =>
       place'[c] = place[c]]_queueVars
=============================================================================
