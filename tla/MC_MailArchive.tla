--------------------------- MODULE MC_MailArchive ---------------------------
(* MailArchive on small instances.                                         *)
EXTENDS MailArchive, TLC

CONSTANTS first, second,  \* two mails that carry the same attachment
          h1, h2, a1

Fingerprints == [m \in Mail |-> IF m = first THEN h1 ELSE h2]
Attachments == [m \in Mail |-> IF a1 \in Attachment THEN <<a1>> ELSE << >>]

\* Bound: the queue loses neither channels nor confirms, nothing is dead-lettered
\* (MC_ArchivePipeline explores all this), and of the disturbances that remain
\* a behaviour has one: a copy that is requeued after a failure or a restart,
\* or messages on legal hold.
QuietQueue ==
  /\ \A c \in Copy :
       /\ place[c] \in {"unsent", "ready", "held", "acked"}
       /\ place[c] = "unsent" \/ body[c] \in accepted
       /\ redelivered[c] => onHold = {} /\ \A d \in Copy : redelivered[d] => c = d
  /\ \A w \in Worker : job[w] # NoCopy => attached[w]

Interchangeable == Permutations(Copy)
=============================================================================
