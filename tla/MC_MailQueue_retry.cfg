\* The retry queue.py promises before a mail is dead-lettered.
SPECIFICATION RetriesSpec
CONSTANTS
  Mail = {m1}
  Purger = Purger
  Oversized = {}
  Copy = {c1}
  Worker = {w1}
  Prefetch = 1
  NoMail = NoMail
  NoWorker = NoWorker
  NoCopy = NoCopy
CHECK_DEADLOCK FALSE
INVARIANTS
  DeadLetteredAfterOneRetry
