--------------------------- MODULE MailQueueProofs ---------------------------
(* Proofs about MailQueue, for any number of mails, copies and workers.    *)
EXTENDS MailQueue, TLAPS

LEMMA QueueInitTypeOK == QueueInit => QueueTypeOK
BY PrefetchAssumption DEF QueueInit, QueueTypeOK, Places, Outcomes

LEMMA QueueStepTypeOK ==
  ASSUME QueueTypeOK, [QueueNext]_queueVars
  PROVE  QueueTypeOK'
<1> USE DEF QueueTypeOK
<1>1. CASE UNCHANGED queueVars
  BY <1>1 DEF queueVars
<1>2. ASSUME NEW m \in Mail, HandleDataAccepts(m)
      PROVE  QueueTypeOK'
  BY <1>2 DEF HandleDataAccepts, Publish, Places
<1>3. ASSUME NEW m \in Mail, HandleDataUnconfirmed(m)
      PROVE  QueueTypeOK'
  BY <1>3 DEF HandleDataUnconfirmed, Publish, Places
<1>4. ASSUME NEW c \in Copy, ReplayGet(c) \/ ReplayAck(c) \/ ReplayAborts(c)
      PROVE  QueueTypeOK'
  BY <1>4 DEF ReplayGet, ReplayAck, ReplayAborts, Places
<1>5. ASSUME NEW c \in Copy, ReplayPublish(c)
      PROVE  QueueTypeOK'
  BY <1>5 DEF ReplayPublish, Publish, Places
<1>6. CASE DlqPurge
  BY <1>6 DEF DlqPurge, Places
<1>7. ASSUME NEW c \in Copy, NEW w \in Worker, Deliver(c, w)
      PROVE  QueueTypeOK'
  BY <1>7 DEF Deliver, Places
<1>8. ASSUME NEW w \in Worker, Ack(w)
      PROVE  QueueTypeOK'
  BY <1>8 DEF Ack, FinishJob, Places, Outcomes
<1>9. ASSUME NEW w \in Worker, RejectAndRequeue(w)
      PROVE  QueueTypeOK'
  BY <1>9 DEF RejectAndRequeue, Requeue, FinishJob, Places, Outcomes
<1>10. ASSUME NEW w \in Worker, DeadLetter(w)
       PROVE  QueueTypeOK'
  BY <1>10 DEF DeadLetter, FinishJob, Places, Outcomes
<1>11. ASSUME NEW w \in Worker, ChannelLost(w)
       PROVE  QueueTypeOK'
  BY <1>11 DEF ChannelLost, Requeue, Places
<1>12. ASSUME NEW w \in Worker, NEW c \in Copy, Take(w, c)
       PROVE  QueueTypeOK'
  BY <1>12 DEF Take, Outcomes
<1>13. ASSUME NEW w \in Worker, NEW r \in {"ok", "transient", "error"}, HandlerEnds(w, r)
       PROVE  QueueTypeOK'
  BY <1>13 DEF HandlerEnds, Outcomes
<1>14. ASSUME NEW w \in Worker, WorkerStops(w)
       PROVE  QueueTypeOK'
  BY <1>14 DEF WorkerStops, Requeue, FinishJob, Places, Outcomes
<1>15. QED
  BY <1>1, <1>2, <1>3, <1>4, <1>5, <1>6, <1>7, <1>8, <1>9, <1>10, <1>11, <1>12,
     <1>13, <1>14 DEF QueueNext, QueueStep

\* Every variable of the queue keeps its type.
THEOREM QueueTypeCorrect == QueueSpec => []QueueTypeOK
<1>1. QueueInit => QueueTypeOK
  BY QueueInitTypeOK
<1>2. QueueTypeOK /\ [QueueNext]_queueVars => QueueTypeOK'
  BY QueueStepTypeOK
<1>3. QED
  BY <1>1, <1>2, PTL DEF QueueSpec

-----------------------------------------------------------------------------
(* Who may settle a copy                                                   *)

LEMMA SettlerStep ==
  ASSUME QueueTypeOK, SettlerOwnsCopy, [QueueNext]_queueVars
  PROVE  SettlerOwnsCopy'
<1> USE DEF QueueTypeOK, SettlerOwnsCopy, HeldBy
<1>1. CASE UNCHANGED queueVars
  BY <1>1 DEF queueVars
<1>2. ASSUME NEW m \in Mail, HandleDataAccepts(m) \/ HandleDataUnconfirmed(m)
      PROVE  SettlerOwnsCopy'
  BY <1>2 DEF HandleDataAccepts, HandleDataUnconfirmed, Publish
<1>3. ASSUME NEW c \in Copy,
             ReplayGet(c) \/ ReplayPublish(c) \/ ReplayAck(c) \/ ReplayAborts(c)
      PROVE  SettlerOwnsCopy'
  BY <1>3 DEF ReplayGet, ReplayPublish, ReplayAck, ReplayAborts, Publish
<1>4. CASE DlqPurge
  BY <1>4 DEF DlqPurge
<1>5. ASSUME NEW c \in Copy, NEW w \in Worker, Deliver(c, w)
      PROVE  SettlerOwnsCopy'
  BY <1>5 DEF Deliver
<1>6. ASSUME NEW w \in Worker, Ack(w) \/ DeadLetter(w)
      PROVE  SettlerOwnsCopy'
  BY <1>6 DEF Ack, DeadLetter, FinishJob
<1>7. ASSUME NEW w \in Worker, RejectAndRequeue(w)
      PROVE  SettlerOwnsCopy'
  BY <1>7 DEF RejectAndRequeue, Requeue, FinishJob
<1>8. ASSUME NEW w \in Worker, ChannelLost(w)
      PROVE  SettlerOwnsCopy'
  BY <1>8 DEF ChannelLost, Requeue
<1>9. ASSUME NEW w \in Worker, NEW c \in Copy, Take(w, c)
      PROVE  SettlerOwnsCopy'
  BY <1>9 DEF Take
<1>10. ASSUME NEW w \in Worker, NEW r \in {"ok", "transient", "error"}, HandlerEnds(w, r)
       PROVE  SettlerOwnsCopy'
  BY <1>10 DEF HandlerEnds
<1>11. ASSUME NEW w \in Worker, WorkerStops(w)
       PROVE  SettlerOwnsCopy'
  BY <1>11 DEF WorkerStops, Requeue, FinishJob
<1>12. QED
  BY <1>1, <1>2, <1>3, <1>4, <1>5, <1>6, <1>7, <1>8, <1>9, <1>10, <1>11
     DEF QueueNext, QueueStep

\* Of all workers that process a copy at the same time, only the one the broker
\* has delivered it to can acknowledge or reject it.
THEOREM OnlyTheOwnerSettles == QueueSpec => []SettlerOwnsCopy
<1>1. QueueInit => SettlerOwnsCopy
  BY DEF QueueInit, SettlerOwnsCopy
<1>2. QueueTypeOK /\ SettlerOwnsCopy /\ [QueueNext]_queueVars => SettlerOwnsCopy'
  BY SettlerStep
<1>3. QED
  BY <1>1, <1>2, QueueTypeCorrect, PTL DEF QueueSpec

-----------------------------------------------------------------------------
(* Nothing settled comes back                                              *)

LEMMA SettledStep ==
  ASSUME QueueTypeOK, SettlerOwnsCopy, QueueNext, NEW c \in Copy,
         place[c] \in {"acked", "replayed", "purged"}
  PROVE  place'[c] = place[c]
<1> USE DEF QueueTypeOK, HeldBy
<1>1. ASSUME NEW m \in Mail, HandleDataAccepts(m) \/ HandleDataUnconfirmed(m)
      PROVE  place'[c] = place[c]
  BY <1>1 DEF HandleDataAccepts, HandleDataUnconfirmed, Publish
<1>2. ASSUME NEW d \in Copy,
             ReplayGet(d) \/ ReplayPublish(d) \/ ReplayAck(d) \/ ReplayAborts(d)
      PROVE  place'[c] = place[c]
  BY <1>2 DEF ReplayGet, ReplayPublish, ReplayAck, ReplayAborts, Publish
<1>3. CASE DlqPurge
  BY <1>3 DEF DlqPurge
<1>4. ASSUME NEW d \in Copy, NEW w \in Worker, Deliver(d, w)
      PROVE  place'[c] = place[c]
  BY <1>4 DEF Deliver
<1>5. ASSUME NEW w \in Worker, Ack(w) \/ DeadLetter(w) \/ RejectAndRequeue(w)
      PROVE  place'[c] = place[c]
  <2>1. place[job[w]] = "held"
    BY <1>5 DEF SettlerOwnsCopy, Ack, DeadLetter, RejectAndRequeue
  <2>2. QED
    BY <1>5, <2>1 DEF Ack, DeadLetter, RejectAndRequeue, Requeue
<1>6. ASSUME NEW w \in Worker, ChannelLost(w) \/ WorkerStops(w)
      PROVE  place'[c] = place[c]
  BY <1>6 DEF ChannelLost, WorkerStops, Requeue
<1>7. ASSUME NEW w \in Worker, NEW d \in Copy, Take(w, d)
      PROVE  place'[c] = place[c]
  BY <1>7 DEF Take
<1>8. ASSUME NEW w \in Worker, NEW r \in {"ok", "transient", "error"}, HandlerEnds(w, r)
      PROVE  place'[c] = place[c]
  BY <1>8 DEF HandlerEnds
<1>9. QED
  BY <1>1, <1>2, <1>3, <1>4, <1>5, <1>6, <1>7, <1>8 DEF QueueNext, QueueStep

\* An acknowledged, replayed or purged copy is never queued again.
THEOREM SettledCopiesStaySettled == QueueSpec => SettledForGood
<1>1. QueueTypeOK /\ SettlerOwnsCopy /\ [QueueNext]_queueVars =>
        [\A c \in Copy : place[c] \in {"acked", "replayed", "purged"} =>
           place'[c] = place[c]]_queueVars
  BY SettledStep
<1>2. QED
  BY <1>1, QueueTypeCorrect, OnlyTheOwnerSettles, PTL DEF QueueSpec, SettledForGood

-----------------------------------------------------------------------------
(* No accepted mail disappears                                             *)

\* A copy that stands for its mail.
KeptPlaces == {"ready", "held", "acked", "dead", "fetched", "purged"}
Keeps(c, m) == body[c] = m /\ place[c] \in KeptPlaces

\* A copy that stands for a mail goes on doing so, or its body has just been
\* published again.
LEMMA KeptStep ==
  ASSUME QueueTypeOK, QueueNext, NEW m \in Mail, NEW c \in Copy, Keeps(c, m)
  PROVE  \E d \in Copy : Keeps(d, m)'
<1> USE DEF QueueTypeOK, Keeps, KeptPlaces
<1>1. ASSUME NEW n \in Mail, HandleDataAccepts(n) \/ HandleDataUnconfirmed(n)
      PROVE  Keeps(c, m)'
  BY <1>1 DEF HandleDataAccepts, HandleDataUnconfirmed, Publish
<1>2. ASSUME NEW d \in Copy, ReplayGet(d) \/ ReplayAck(d) \/ ReplayAborts(d)
      PROVE  Keeps(c, m)'
  BY <1>2 DEF ReplayGet, ReplayAck, ReplayAborts
<1>3. ASSUME NEW d \in Copy, ReplayPublish(d)
      PROVE  \E e \in Copy : Keeps(e, m)'
  <2>1. PICK e \in Copy : /\ Publish(e, body[d])
                          /\ place' = [place EXCEPT ![d] = "republished", ![e] = "ready"]
    BY <1>3 DEF ReplayPublish
  <2>2. CASE d = c
    BY <2>1, <2>2 DEF Publish
  <2>3. CASE d # c
    BY <2>1, <2>3 DEF Publish
  <2>4. QED
    BY <2>2, <2>3
<1>4. CASE DlqPurge
  BY <1>4 DEF DlqPurge
<1>5. ASSUME NEW d \in Copy, NEW w \in Worker, Deliver(d, w) \/ Take(w, d)
      PROVE  Keeps(c, m)'
  BY <1>5 DEF Deliver, Take
<1>6. ASSUME NEW w \in Worker,
             Ack(w) \/ RejectAndRequeue(w) \/ DeadLetter(w) \/ ChannelLost(w) \/ WorkerStops(w)
      PROVE  Keeps(c, m)'
  BY <1>6 DEF Ack, RejectAndRequeue, DeadLetter, ChannelLost, WorkerStops, Requeue
<1>7. ASSUME NEW w \in Worker, NEW r \in {"ok", "transient", "error"}, HandlerEnds(w, r)
      PROVE  Keeps(c, m)'
  BY <1>7 DEF HandlerEnds
<1>8. QED
  BY <1>1, <1>2, <1>3, <1>4, <1>5, <1>6, <1>7 DEF QueueNext, QueueStep

\* Only handle_DATA's 250 adds to the accepted mails, with a copy to show for it.
LEMMA AcceptedStep ==
  ASSUME QueueTypeOK, QueueNext, NEW m \in Mail, m \notin accepted, m \in accepted'
  PROVE  \E c \in Copy : Keeps(c, m)'
<1>1. HandleDataAccepts(m)
  BY DEF QueueNext, QueueStep, HandleDataAccepts, HandleDataUnconfirmed, ReplayGet,
         ReplayPublish, ReplayAck, ReplayAborts, DlqPurge, Deliver, Take, HandlerEnds,
         Ack, RejectAndRequeue, DeadLetter, ChannelLost, WorkerStops
<1>2. PICK c \in Copy : Publish(c, m) /\ place' = [place EXCEPT ![c] = "ready"]
  BY <1>1 DEF HandleDataAccepts
<1>3. Keeps(c, m)'
  BY <1>2 DEF Publish, Keeps, KeptPlaces, QueueTypeOK
<1>4. QED
  BY <1>3

LEMMA AcceptedIsKeptStep ==
  ASSUME QueueTypeOK, AcceptedMailIsKept, [QueueNext]_queueVars
  PROVE  AcceptedMailIsKept'
<1>1. CASE UNCHANGED queueVars
  BY <1>1 DEF queueVars, AcceptedMailIsKept
<1>2. CASE QueueNext
  <2>1. SUFFICES ASSUME NEW m \in accepted' PROVE \E c \in Copy : Keeps(c, m)'
    BY DEF AcceptedMailIsKept, Keeps, KeptPlaces
  <2>2. m \in Mail
    BY <1>2, QueueStepTypeOK DEF QueueTypeOK
  <2>3. CASE m \in accepted
    <3>1. PICK c \in Copy : Keeps(c, m)
      BY <2>3 DEF AcceptedMailIsKept, Keeps, KeptPlaces
    <3>2. QED
      BY <1>2, <2>2, <3>1, KeptStep
  <2>4. CASE m \notin accepted
    BY <1>2, <2>1, <2>2, <2>4, AcceptedStep
  <2>5. QED
    BY <2>3, <2>4
<1>3. QED
  BY <1>1, <1>2

\* A mail answered 250 never vanishes from the broker, whatever workers,
\* channels and replays do.
THEOREM NoAcceptedMailVanishes == QueueSpec => []AcceptedMailIsKept
<1>1. QueueInit => AcceptedMailIsKept
  BY DEF QueueInit, AcceptedMailIsKept
<1>2. QueueTypeOK /\ AcceptedMailIsKept /\ [QueueNext]_queueVars => AcceptedMailIsKept'
  BY AcceptedIsKeptStep
<1>3. QED
  BY <1>1, <1>2, QueueTypeCorrect, PTL DEF QueueSpec
-----------------------------------------------------------------------------
(* Facts about copies that the proofs about the pipeline rest on           *)

\* A published copy carries a mail, and only published copies are processed.
CopiesCarryMails ==
  /\ \A c \in Copy : place[c] # "unsent" => body[c] \in Mail
  /\ \A w \in Worker : job[w] # NoCopy => place[job[w]] # "unsent"
  /\ \A w \in Worker : outcome[w] # "idle" => job[w] # NoCopy

\* A published copy never changes its body, nor becomes unpublished.
LEMMA BodyIsFixed ==
  ASSUME QueueTypeOK, [QueueNext]_queueVars, NEW c \in Copy, place[c] # "unsent"
  PROVE  place'[c] # "unsent" /\ body'[c] = body[c]
BY DEF QueueTypeOK, queueVars, QueueNext, QueueStep, HandleDataAccepts,
   HandleDataUnconfirmed, Publish, ReplayGet, ReplayPublish, ReplayAck, ReplayAborts,
   DlqPurge, Deliver, Take, HandlerEnds, Ack, RejectAndRequeue, DeadLetter,
   ChannelLost, WorkerStops, Requeue

\* A copy gets published with a mail, into raw_mail.
LEMMA PublishStep ==
  ASSUME QueueTypeOK, CopiesCarryMails, QueueNext,
         NEW c \in Copy, place[c] = "unsent", place'[c] # "unsent"
  PROVE  place'[c] = "ready" /\ body'[c] \in Mail
<1> DEFINE Goal == place'[c] = "ready" /\ body'[c] \in Mail
<1> USE DEF QueueTypeOK, CopiesCarryMails
<1>1. ASSUME NEW m \in Mail, HandleDataAccepts(m) \/ HandleDataUnconfirmed(m)
      PROVE  Goal
  BY <1>1 DEF HandleDataAccepts, HandleDataUnconfirmed, Publish
<1>2. ASSUME NEW d \in Copy, ReplayPublish(d)
      PROVE  Goal
  <2>1. body[d] \in Mail /\ d # c
    BY <1>2 DEF ReplayPublish
  <2>2. QED
    BY <1>2, <2>1 DEF ReplayPublish, Publish
<1>3. ASSUME NEW d \in Copy, ReplayGet(d) \/ ReplayAck(d) \/ ReplayAborts(d)
      PROVE  Goal
  BY <1>3 DEF ReplayGet, ReplayAck, ReplayAborts
<1>4. CASE DlqPurge
  BY <1>4 DEF DlqPurge
<1>5. ASSUME NEW d \in Copy, NEW w \in Worker, Deliver(d, w) \/ Take(w, d)
      PROVE  Goal
  BY <1>5 DEF Deliver, Take
<1>6. ASSUME NEW w \in Worker, Ack(w) \/ RejectAndRequeue(w) \/ DeadLetter(w)
      PROVE  Goal
  <2>1. job[w] # c
    BY <1>6 DEF Ack, RejectAndRequeue, DeadLetter
  <2>2. QED
    BY <1>6, <2>1 DEF Ack, RejectAndRequeue, DeadLetter, Requeue
<1>7. ASSUME NEW w \in Worker, ChannelLost(w) \/ WorkerStops(w)
      PROVE  Goal
  BY <1>7 DEF ChannelLost, WorkerStops, Requeue, HeldBy
<1>8. ASSUME NEW w \in Worker, NEW r \in {"ok", "transient", "error"}, HandlerEnds(w, r)
      PROVE  Goal
  BY <1>8 DEF HandlerEnds
<1>9. QED
  BY <1>1, <1>2, <1>3, <1>4, <1>5, <1>6, <1>7, <1>8 DEF QueueNext, QueueStep

LEMMA CopiesStep ==
  ASSUME QueueTypeOK, CopiesCarryMails, [QueueNext]_queueVars
  PROVE  CopiesCarryMails'
<1> USE DEF QueueTypeOK, CopiesCarryMails
<1>1. ASSUME NEW c \in Copy, place'[c] # "unsent" PROVE body'[c] \in Mail
  <2>1. CASE place[c] # "unsent"
    BY <2>1, BodyIsFixed
  <2>2. CASE place[c] = "unsent"
    BY <1>1, <2>2, PublishStep DEF queueVars
  <2>3. QED
    BY <2>1, <2>2
<1>2. ASSUME NEW w \in Worker, job'[w] # NoCopy PROVE place'[job'[w]] # "unsent"
  <2>1. CASE job'[w] = job[w]
    BY <1>2, <2>1, BodyIsFixed
  <2>2. CASE job'[w] # job[w]
    <3>1. PICK c \in Copy : Take(w, c)
      BY <1>2, <2>2
         DEF queueVars, QueueNext, QueueStep, HandleDataAccepts, HandleDataUnconfirmed,
         ReplayGet, ReplayPublish, ReplayAck, ReplayAborts, DlqPurge, Deliver, Take,
         HandlerEnds, Ack, RejectAndRequeue, DeadLetter, ChannelLost, WorkerStops, FinishJob
    <3>2. QED
      BY <3>1 DEF Take, HeldBy
  <2>3. QED
    BY <2>1, <2>2
<1>3. ASSUME NEW w \in Worker, outcome'[w] # "idle" PROVE job'[w] # NoCopy
  BY <1>3, NoCopyAssumption
     DEF queueVars, QueueNext, QueueStep, HandleDataAccepts, HandleDataUnconfirmed,
     ReplayGet, ReplayPublish, ReplayAck, ReplayAborts, DlqPurge, Deliver, Take,
     HandlerEnds, Ack, RejectAndRequeue, DeadLetter, ChannelLost, WorkerStops, FinishJob
<1>4. QED
  BY <1>1, <1>2, <1>3

QueueInv == QueueTypeOK /\ SettlerOwnsCopy /\ CopiesCarryMails

LEMMA QueueInitInv == QueueInit => QueueInv
BY QueueInitTypeOK DEF QueueInit, QueueInv, SettlerOwnsCopy, CopiesCarryMails

LEMMA QueueInvStep ==
  ASSUME QueueInv, [QueueNext]_queueVars
  PROVE  QueueInv'
BY QueueStepTypeOK, SettlerStep, CopiesStep DEF QueueInv

\* Every mail that was ever published still has a copy that stands for it.
PublishedIsKept ==
  \A c \in Copy : place[c] # "unsent" => \E d \in Copy : Keeps(d, body[c])

LEMMA PublishedIsKeptStep ==
  ASSUME QueueInv, PublishedIsKept, [QueueNext]_queueVars
  PROVE  PublishedIsKept'
<1>1. CASE UNCHANGED queueVars
  BY <1>1 DEF queueVars, PublishedIsKept, Keeps
<1>2. CASE QueueNext
  <2>1. SUFFICES ASSUME NEW c \in Copy, place'[c] # "unsent"
                 PROVE  \E d \in Copy : body'[d] = body'[c] /\ place'[d] \in KeptPlaces
    BY DEF PublishedIsKept, Keeps, KeptPlaces
  <2>2. CASE place[c] # "unsent"
    <3>1. body'[c] = body[c] /\ body[c] \in Mail
      BY <1>2, <2>2, BodyIsFixed DEF QueueInv, CopiesCarryMails
    <3>2. PICK d \in Copy : Keeps(d, body[c])
      BY <2>2 DEF PublishedIsKept
    <3>3. \E e \in Copy : body'[e] = body[c] /\ place'[e] \in KeptPlaces
      BY <1>2, <3>1, <3>2, KeptStep DEF Keeps, KeptPlaces, QueueInv
    <3>4. QED
      BY <3>1, <3>3
  <2>3. CASE place[c] = "unsent"
    <3>1. place'[c] = "ready"
      BY <1>2, <2>1, <2>3, PublishStep DEF QueueInv
    <3>2. QED
      BY <3>1 DEF KeptPlaces
  <2>4. QED
    BY <2>2, <2>3
<1>3. QED
  BY <1>1, <1>2
=============================================================================
