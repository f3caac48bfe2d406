\* Two mails with one fingerprint, and the body each message is exported with.
SPECIFICATION PipelineSpec
CONSTANTS
  plain = plain
  variant = variant
  ab = ab
  ba = ba
  bad = bad
  h1 = h1
  h2 = h2
  h3 = h3
  a1 = a1
  a2 = a2
  Mail = {plain, variant}
  Oversized = {}
  Malformed <- MalformedMails
  Hash = {h1}
  Attachment = {}
  Fingerprint <- Fingerprints
  AttachmentsOf <- Attachments
  Copy = {c1, c2}
  Worker = {w1, w2}
  Purger = Purger
  Prefetch = 1
  LastDay = 0
  NoMail = NoMail
  NoWorker = NoWorker
  NoCopy = NoCopy
  NoRow = NoRow
SYMMETRY Interchangeable
CHECK_DEADLOCK FALSE
INVARIANTS
  ExportIsExact
