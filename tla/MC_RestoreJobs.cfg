\* One job, two APIs, pages of one and a half.
SPECIFICATION FairRestoreSpec
CONSTANTS
  upper = upper
  lower = lower
  Address = {upper, lower}
  LowerOf <- Lowered
  NoAddress = NoAddress
  Everything = Everything
  Doc = {1, 2, 3}
  PartiesOf <- Parties
  Target <- User
  Job = {j1}
  ToMailbox = {j1}
  Api = {api1, api2}
  PageSize = 2
  MaxOutages = 1
  NoJob = NoJob
CONSTRAINT Small
CHECK_DEADLOCK FALSE
INVARIANTS
  RestoreTypeOK
  DoneMeansComplete
  OncePerExecution
  ProgressIsAnswered
PROPERTY PublishedJobsEnd
