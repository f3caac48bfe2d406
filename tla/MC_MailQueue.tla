---------------------------- MODULE MC_MailQueue ----------------------------
(* MailQueue and the history of its retries on a small instance.           *)
EXTENDS MailQueueRetries, TLC

\* Copies, workers and mails within the limit are interchangeable.
Interchangeable ==
  Permutations(Copy) \cup Permutations(Worker) \cup Permutations(Mail \ Oversized)
=============================================================================
