-------------------------- MODULE ArchiveConstants --------------------------
(* The names that the modules of the queue, the stores and the services    *)
(* share.                                                                  *)
CONSTANTS
  Mail,    \* raw mails (the bytes of one .eml)
  Worker,  \* replicas of archiver-worker, each with one channel
  Purger,  \* the retention-worker's database session
  NoMail, NoWorker

ASSUME SharedNullAssumption ==
  /\ NoMail \notin Mail
  /\ NoWorker \notin Worker \cup {Purger}
  /\ Purger \notin Worker
=============================================================================
