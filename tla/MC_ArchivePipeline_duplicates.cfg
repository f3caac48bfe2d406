\* A mail published twice and a malformed one: duplicates, redeliveries and
\* re-indexing across midnight, and the promise of ArchiveService.
SPECIFICATION PipelineSpec
CONSTANTS
  plain = plain
  variant = variant
  ab = ab
  ba = ba
  bad = bad
  h1 = h1
  h2 = h2
  h3 = h3
  a1 = a1
  a2 = a2
  Mail = {plain, bad}
  Oversized = {}
  Malformed <- MalformedMails
  Hash = {h1, h2}
  Attachment = {}
  Fingerprint <- Fingerprints
  AttachmentsOf <- Attachments
  Copy = {c1, c2}
  Worker = {w1, w2}
  Purger = Purger
  Prefetch = 1
  LastDay = 1
  NoMail = NoMail
  NoWorker = NoWorker
  NoCopy = NoCopy
  NoRow = NoRow
SYMMETRY Interchangeable
CHECK_DEADLOCK FALSE
INVARIANTS
  DedupIsExact
  SearchHitsOpen
  ArchivedIsSearchableOrPending
  AnnouncedIsSearchable
  AcceptedIsArchivedOrPending
PROPERTIES
  ImplementsService
