----------------------- MODULE MailQueueRetriesProofs -----------------------
(* Proofs about MailQueueRetries, over those about MailQueue.              *)
EXTENDS MailQueueRetries, MailQueueProofs

\* A worker about to reject a copy because of an "error" has counted it.
RaisedIsCounted ==
  \A w \in Worker : attached[w] /\ outcome[w] = "error" => failures[job[w]] > 0

FailuresTypeOK == failures \in [Copy -> 0..2]

RetriesInv ==
  QueueTypeOK /\ SettlerOwnsCopy /\ FailuresTypeOK /\ RaisedIsCounted /\ DeadLetterIsDeserved

LEMMA FailuresGrow ==
  ASSUME FailuresTypeOK, RetriesNext
  PROVE  FailuresTypeOK' /\ \A c \in Copy : failures[c] <= failures'[c]
BY DEF FailuresTypeOK, RetriesNext

LEMMA StillCounted ==
  ASSUME FailuresTypeOK, RetriesNext, NEW c \in Copy, NEW n \in Nat, failures[c] > n
  PROVE  failures'[c] > n
BY FailuresGrow DEF FailuresTypeOK

\* A handler call that ends with an error on an open channel was under way, or
\* had ended so already.
LEMMA ErrorComesFromRun ==
  ASSUME QueueTypeOK, QueueNext, NEW w \in Worker, attached'[w], outcome'[w] = "error"
  PROVE  /\ attached[w] /\ job'[w] = job[w]
         /\ outcome[w] \in {"running", "error"}
<1> DEFINE Goal == /\ attached[w] /\ job'[w] = job[w]
                   /\ outcome[w] \in {"running", "error"}
<1> USE DEF QueueTypeOK
<1>1. ASSUME UNCHANGED <<job, outcome, attached>> PROVE Goal
  BY <1>1
<1>2. ASSUME NEW v \in Worker, FinishJob(v) PROVE Goal
  BY <1>2 DEF FinishJob
<1>3. ASSUME NEW v \in Worker, ChannelLost(v) PROVE Goal
  BY <1>3 DEF ChannelLost
<1>4. ASSUME NEW v \in Worker, NEW c \in Copy, Take(v, c) PROVE Goal
  BY <1>4 DEF Take
<1>5. ASSUME NEW v \in Worker, NEW r \in {"ok", "transient", "error"}, HandlerEnds(v, r)
      PROVE  Goal
  BY <1>5 DEF HandlerEnds
<1>6. QED
  BY <1>1, <1>2, <1>3, <1>4, <1>5 DEF QueueNext, QueueStep, HandleDataAccepts,
     HandleDataUnconfirmed, ReplayGet, ReplayPublish, ReplayAck, ReplayAborts,
     DlqPurge, Deliver, Ack, RejectAndRequeue, DeadLetter, WorkerStops

LEMMA RaisedIsCountedStep ==
  ASSUME RetriesInv, RetriesNext, NEW w \in Worker, attached'[w], outcome'[w] = "error"
  PROVE  failures'[job'[w]] > 0
<1>1. /\ attached[w] /\ job'[w] = job[w]
      /\ outcome[w] \in {"running", "error"}
  BY ErrorComesFromRun DEF RetriesInv, RetriesNext
<1>2. job[w] \in Copy
  BY <1>1 DEF RetriesInv, SettlerOwnsCopy, HeldBy
<1>3. CASE outcome[w] = "running"
  <2>1. FailsNow(job[w])
    BY <1>3 DEF FailsNow
  <2>2. QED
    BY <1>1, <1>2, <2>1 DEF RetriesInv, RetriesNext, FailuresTypeOK
<1>4. CASE outcome[w] = "error"
  <2>1. failures[job[w]] > 0
    BY <1>1, <1>4 DEF RetriesInv, RaisedIsCounted
  <2>2. QED
    BY <1>1, <1>2, <2>1, StillCounted DEF RetriesInv
<1>5. QED
  BY <1>1, <1>3, <1>4

\* Only a rejection without requeue brings a copy into raw_mail_dead.
LEMMA DeadLettered ==
  ASSUME RetriesInv, RetriesNext, NEW c \in Copy, InDeadQueue(c)', ~InDeadQueue(c)
  PROVE  \E w \in Worker : DeadLetter(w) /\ job[w] = c
BY DEF RetriesInv, QueueTypeOK, InDeadQueue, RetriesNext, QueueNext, QueueStep,
   HandleDataAccepts, HandleDataUnconfirmed, Publish, ReplayGet, ReplayPublish, ReplayAck,
   ReplayAborts, DlqPurge, Deliver, Take, HandlerEnds, Ack, RejectAndRequeue, DeadLetter,
   ChannelLost, WorkerStops, Requeue

LEMMA DeadStep ==
  ASSUME RetriesInv, RetriesNext, NEW c \in Copy, InDeadQueue(c)'
  PROVE  failures'[c] > 0 /\ redelivered'[c]
<1> USE DEF RetriesInv, QueueTypeOK, InDeadQueue
<1>1. CASE InDeadQueue(c)
  <2>1. failures[c] > 0 /\ redelivered[c]
    BY <1>1 DEF DeadLetterIsDeserved
  <2>2. redelivered'[c]
    BY <2>1 DEF RetriesNext, QueueNext, QueueStep, HandleDataAccepts,
       HandleDataUnconfirmed, ReplayGet, ReplayPublish, ReplayAck, ReplayAborts,
       DlqPurge, Deliver, Take, HandlerEnds, Ack, RejectAndRequeue, DeadLetter,
       ChannelLost, WorkerStops, Requeue
  <2>3. QED
    BY <2>1, <2>2, StillCounted
<1>2. CASE ~InDeadQueue(c)
  <2>1. PICK w \in Worker : DeadLetter(w) /\ job[w] = c
    BY <1>2, DeadLettered
  <2>2. failures[c] > 0 /\ redelivered'[c]
    BY <2>1 DEF DeadLetter, RaisedIsCounted
  <2>3. QED
    BY <2>2, StillCounted
<1>3. QED
  BY <1>1, <1>2

LEMMA RetriesInvStep ==
  ASSUME RetriesInv, [RetriesNext]_<<queueVars, failures>>
  PROVE  RetriesInv'
<1>1. CASE UNCHANGED <<queueVars, failures>>
  BY <1>1 DEF queueVars, RetriesInv, QueueTypeOK, SettlerOwnsCopy, HeldBy,
     FailuresTypeOK, RaisedIsCounted, DeadLetterIsDeserved, InDeadQueue
<1>2. CASE RetriesNext
  <2>1. QueueTypeOK' /\ SettlerOwnsCopy'
    BY <1>2, QueueStepTypeOK, SettlerStep DEF RetriesInv, RetriesNext
  <2>2. FailuresTypeOK'
    BY <1>2, FailuresGrow DEF RetriesInv
  <2>3. RaisedIsCounted'
    BY <1>2, RaisedIsCountedStep DEF RaisedIsCounted
  <2>4. DeadLetterIsDeserved'
    BY <1>2, DeadStep DEF DeadLetterIsDeserved
  <2>5. QED
    BY <2>1, <2>2, <2>3, <2>4 DEF RetriesInv
<1>3. QED
  BY <1>1, <1>2

LEMMA RetriesInvHolds == RetriesSpec => []RetriesInv
<1>1. RetriesInit => RetriesInv
  <2>1. SUFFICES ASSUME RetriesInit PROVE RetriesInv
    OBVIOUS
  <2>2. QueueTypeOK
    BY <2>1, QueueInitTypeOK DEF RetriesInit
  <2>3. QED
    BY <2>1, <2>2 DEF RetriesInit, RetriesInv, QueueInit, SettlerOwnsCopy,
       FailuresTypeOK, RaisedIsCounted, DeadLetterIsDeserved, InDeadQueue
<1>2. RetriesInv /\ [RetriesNext]_<<queueVars, failures>> => RetriesInv'
  BY RetriesInvStep
<1>3. QED
  BY <1>1, <1>2, PTL DEF RetriesSpec

\* No copy is dead-lettered on its first delivery, or unless the handler has
\* raised something else than a transient error on it.
THEOREM DeadLettersAreDeserved == RetriesSpec => []DeadLetterIsDeserved
<1>1. RetriesInv => DeadLetterIsDeserved
  BY DEF RetriesInv
<1>2. QED
  BY <1>1, RetriesInvHolds, PTL

-----------------------------------------------------------------------------
(* When DeadLetteredAfterOneRetry holds                                    *)

\* A copy goes back to raw_mail only for an error of the handler: no channel is
\* lost and no worker stops before, and no error is transient.
RequeuedForErrorsOnly ==
  [][\A c \in Copy : place[c] = "held" /\ place'[c] = "ready" =>
       \E w \in Worker : job[w] = c /\ attached[w] /\ outcome[w] = "error"
    ]_<<queueVars, failures>>

\* A copy that comes again has failed, a failure of such a copy is its second.
RetriedFirst ==
  /\ \A c \in Copy : redelivered[c] => failures[c] > 0
  /\ \A w \in Worker :
       attached[w] /\ outcome[w] = "error" /\ redelivered[job[w]] => failures[job[w]] > 1
  /\ \A c \in Copy : InDeadQueue(c) => failures[c] > 1

LEMMA RequeueStep ==
  ASSUME RetriesInv, RetriesNext, NEW c \in Copy, redelivered'[c], ~redelivered[c]
  PROVE  place[c] = "held" /\ place'[c] = "ready"
<1> USE DEF RetriesInv, QueueTypeOK
<1>1. \A w \in Worker : RejectAndRequeue(w) => place[job[w]] = "held"
  BY DEF RejectAndRequeue, SettlerOwnsCopy, HeldBy
<1>2. QED
  BY <1>1
     DEF RetriesNext, QueueNext, QueueStep, HandleDataAccepts, HandleDataUnconfirmed,
     ReplayGet, ReplayPublish, ReplayAck, ReplayAborts, DlqPurge, Deliver, Take, HandlerEnds,
     Ack, RejectAndRequeue, DeadLetter, ChannelLost, WorkerStops, Requeue, HeldBy

LEMMA RetriedFirstStep ==
  ASSUME RetriesInv, RetriesInv', RetriedFirst, RetriesNext,
         \A c \in Copy : place[c] = "held" /\ place'[c] = "ready" =>
           \E w \in Worker : job[w] = c /\ attached[w] /\ outcome[w] = "error"
  PROVE  RetriedFirst'
<1> USE DEF RetriesInv
<1>1. ASSUME NEW c \in Copy, redelivered'[c] PROVE failures'[c] > 0
  <2>1. failures[c] > 0
    BY <1>1, RequeueStep DEF RetriedFirst, RaisedIsCounted
  <2>2. QED
    BY <2>1, StillCounted
<1>2. ASSUME NEW w \in Worker, attached'[w], outcome'[w] = "error", redelivered'[job'[w]]
      PROVE  failures'[job'[w]] > 1
  <2>1. /\ attached[w] /\ job'[w] = job[w] /\ job[w] \in Copy
        /\ outcome[w] \in {"running", "error"}
    BY <1>2, ErrorComesFromRun DEF SettlerOwnsCopy, HeldBy, RetriesNext
  <2>2. redelivered[job[w]]
    <3>1. place'[job[w]] = "held"
      BY <1>2, <2>1 DEF SettlerOwnsCopy, HeldBy
    <3>2. QED
      BY <1>2, <2>1, <3>1, RequeueStep
  <2>3. CASE outcome[w] = "error"
    BY <2>1, <2>2, <2>3, StillCounted DEF RetriedFirst
  <2>4. CASE outcome[w] = "running"
    <3>1. FailsNow(job[w])
      BY <1>2, <2>4 DEF FailsNow
    <3>2. failures[job[w]] > 0
      BY <2>1, <2>2 DEF RetriedFirst
    <3>3. QED
      BY <2>1, <3>1, <3>2 DEF RetriesNext, FailuresTypeOK
  <2>5. QED
    BY <2>1, <2>3, <2>4
<1>3. ASSUME NEW c \in Copy, InDeadQueue(c)' PROVE failures'[c] > 1
  <2>1. CASE InDeadQueue(c)
    BY <2>1, StillCounted DEF RetriedFirst
  <2>2. CASE ~InDeadQueue(c)
    <3>1. PICK w \in Worker : DeadLetter(w) /\ job[w] = c
      BY <1>3, <2>2, DeadLettered
    <3>2. failures[c] > 1
      BY <3>1 DEF DeadLetter, RetriedFirst
    <3>3. QED
      BY <3>2, StillCounted
  <2>3. QED
    BY <2>1, <2>2
<1>4. QED
  BY <1>1, <1>2, <1>3 DEF RetriedFirst

\* The retry that queue.py promises is given as long as the redelivered flag
\* stands for a failure of the handler.
THEOREM RetriedBeforeDead ==
  RetriesSpec /\ RequeuedForErrorsOnly => []DeadLetteredAfterOneRetry
<1>1. RetriesInit => RetriedFirst
  BY DEF RetriesInit, QueueInit, RetriedFirst, InDeadQueue
<1>2. RetriesInv /\ RetriesInv' /\ RetriedFirst /\ [RetriesNext]_<<queueVars, failures>>
        /\ [\A c \in Copy : place[c] = "held" /\ place'[c] = "ready" =>
              \E w \in Worker : job[w] = c /\ attached[w] /\ outcome[w] = "error"
           ]_<<queueVars, failures>>
        => RetriedFirst'
  <2>1. UNCHANGED <<queueVars, failures>> /\ RetriedFirst => RetriedFirst'
    BY DEF queueVars, RetriedFirst, InDeadQueue
  <2>2. QED
    BY <2>1, RetriedFirstStep
<1>3. RetriedFirst => DeadLetteredAfterOneRetry
  BY DEF RetriedFirst, DeadLetteredAfterOneRetry, InDeadQueue
<1>4. QED
  BY <1>1, <1>2, <1>3, RetriesInvHolds, PTL DEF RetriesSpec, RequeuedForErrorsOnly
=============================================================================
