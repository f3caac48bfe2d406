-------------------------- MODULE MailQueueRetries --------------------------
(***************************************************************************)
(* MailQueue with the history that queue.py's promise about retries is     *)
(* about: how often the handler has failed on each copy.                   *)
(***************************************************************************)
EXTENDS MailQueue

VARIABLE failures   \* handler runs of each copy that raised "error": 0, 1 or more

RetriesInit ==
  /\ QueueInit
  /\ failures = [c \in Copy |-> 0]

FailsNow(c) == \E w \in Worker :
  job[w] = c /\ outcome[w] = "running" /\ outcome'[w] = "error"

RetriesNext ==
  /\ QueueNext
  /\ failures' = [c \in Copy |->
       IF FailsNow(c) /\ failures[c] < 2 THEN failures[c] + 1 ELSE failures[c]]

RetriesSpec == RetriesInit /\ [][RetriesNext]_<<queueVars, failures>>

-----------------------------------------------------------------------------
InDeadQueue(c) == place[c] \in {"dead", "fetched", "republished", "replayed", "purged"}

\* Only a mail that made the handler raise something else than a transient
\* error gets to raw_mail_dead (consume_raw_mail's two except clauses), and
\* never on its first delivery.
DeadLetterIsDeserved ==
  \A c \in Copy : InDeadQueue(c) => failures[c] > 0 /\ redelivered[c]

\* queue.py:8 and :110-111: a processing failure is retried once before the
\* mail is dead-lettered.  (Not so: the flag the code reads is also set on a
\* delivery that was requeued before its handler was ever called.)
DeadLetteredAfterOneRetry ==
  \A c \in Copy : place[c] = "dead" => failures[c] > 1
=============================================================================
