\* An IMAP source with two mails, a POP3 source that may fail for ever, the scan
\* and one request at a time.
SPECIFICATION FairCollectionSpec
CONSTANTS
  imap = imap
  pop = pop
  m1 = m1
  m2 = m2
  m3 = m3
  Source = {imap, pop}
  Mail = {m1, m2, m3}
  SourceOf <- Boxes
  Protocol <- Protocols
  Scan = scan
  Manual = {manual}
  Reliable = {imap}
  NoSource = NoSource
  NoMail = NoMail
CONSTRAINT OneMailbox
CHECK_DEADLOCK FALSE
INVARIANTS
  CollectionTypeOK
  LossNeedsAFailure
  CollectedOnce
PROPERTY ReliableSourcesAreCollected
