\* A legal hold set while the purge is under way.
SPECIFICATION ArchiveSpec
CONSTANTS
  first = first
  second = second
  h1 = h1
  h2 = h2
  a1 = a1
  Mail = {first}
  Oversized = {}
  Malformed = {}
  Hash = {h1}
  Attachment = {a1}
  Fingerprint <- Fingerprints
  AttachmentsOf <- Attachments
  Copy = {c1, c2}
  Worker = {w1}
  Purger = Purger
  Prefetch = 1
  LastDay = 1
  RetentionDays = 1
  BatchLimit = 1
  NoMail = NoMail
  NoWorker = NoWorker
  NoCopy = NoCopy
  NoRow = NoRow
CONSTRAINT QuietQueue
SYMMETRY Interchangeable
CHECK_DEADLOCK FALSE
PROPERTIES
  HeldMessagesAreKept
