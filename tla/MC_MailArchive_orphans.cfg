\* A mail archived while the purge deletes an older one with the same attachment.
SPECIFICATION ArchiveSpec
CONSTANTS
  first = first
  second = second
  h1 = h1
  h2 = h2
  a1 = a1
  Mail = {first, second}
  Oversized = {}
  Malformed = {}
  Hash = {h1, h2}
  Attachment = {a1}
  Fingerprint <- Fingerprints
  AttachmentsOf <- Attachments
  Copy = {c1, c2}
  Worker = {w1}
  Purger = Purger
  Prefetch = 1
  LastDay = 1
  RetentionDays = 1
  BatchLimit = 1
  NoMail = NoMail
  NoWorker = NoWorker
  NoCopy = NoCopy
  NoRow = NoRow
CONSTRAINT QuietQueue
SYMMETRY Interchangeable
CHECK_DEADLOCK FALSE
INVARIANTS
  OnlyOrphansAreCollected
