\* A mail and an oversized one, three publications, two workers with two deliveries each.
SPECIFICATION RetriesSpec
CONSTANTS
  Mail = {m1, big}
  Purger = Purger
  Oversized = {big}
  Copy = {c1, c2, c3}
  Worker = {w1, w2}
  Prefetch = 2
  NoMail = NoMail
  NoWorker = NoWorker
  NoCopy = NoCopy
SYMMETRY Interchangeable
CHECK_DEADLOCK FALSE
INVARIANTS
  QueueTypeOK
  AcceptedMailIsKept
  SettlerOwnsCopy
  DeadLetterIsDeserved
PROPERTIES
  SettledForGood
