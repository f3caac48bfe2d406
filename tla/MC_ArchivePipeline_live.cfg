\* Liveness, no symmetry: outages that end, for one mail; transactions that lock
\* the same rows in either order, for two.
SPECIFICATION LiveSpec
CONSTANTS
  plain = plain
  variant = variant
  ab = ab
  ba = ba
  bad = bad
  h1 = h1
  h2 = h2
  h3 = h3
  a1 = a1
  a2 = a2
  Mail = {ab, ba, bad}
  Oversized = {}
  Malformed <- MalformedMails
  Hash = {h1, h2, h3}
  Attachment = {a1, a2}
  Fingerprint <- Fingerprints
  AttachmentsOf <- Attachments
  Copy = {c1, c2}
  Worker = {w1, w2}
  Purger = Purger
  Prefetch = 1
  LastDay = 0
  NoMail = NoMail
  NoWorker = NoWorker
  NoCopy = NoCopy
  NoRow = NoRow
CHECK_DEADLOCK FALSE
PROPERTIES
  EveryMailIsResolved
