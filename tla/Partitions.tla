----------------------------- MODULE Partitions -----------------------------
(***************************************************************************)
(* The monthly partitions of the table messages (ensure_schema,            *)
(* ensure_message_partition).  Nothing makes a partition but the start of a *)
(* service: the month it begins in and the two after it, in a transaction  *)
(* that the services take in turns by an advisory lock.  A row whose month *)
(* has no partition goes to messages_default, and PostgreSQL refuses to    *)
(* create a partition whose rows are there.                                *)
(***************************************************************************)
EXTENDS Integers, FiniteSets

CONSTANTS
  Service,    \* the API and archiver-worker processes: both ensure the schema
  LastMonth,  \* bound on the calendar
  NoService

ASSUME PartitionsAssumption == LastMonth \in Nat \ {0} /\ NoService \notin Service

VARIABLES
  month,     \* the month of now()
  made,      \* months that have a partition
  spilled,   \* months with rows in messages_default
  start,     \* where each service is in its start
  beganIn,   \* the month its transaction began in: now() of the transaction
  pending,   \* partitions its transaction has created
  lock,      \* holder of the advisory lock
  ensured,   \* history: the last month a start that succeeded began in
  lapsed,    \* history: no service was started for more than two months
  refused    \* history: a start failed in the schema's DDL

startVars == <<start, beganIn, pending, lock>>
partitionVars == <<month, made, spilled, startVars, ensured, lapsed, refused>>

PartitionsTypeOK ==
  /\ month \in 1..LastMonth
  /\ made \subseteq 1..(LastMonth + 2) /\ spilled \subseteq 1..LastMonth
  /\ start \in [Service -> {"down", "waiting", "creating", "up"}]
  /\ beganIn \in [Service -> 0..LastMonth] /\ lock \in Service \cup {NoService}
  /\ pending \in [Service -> SUBSET (1..(LastMonth + 2))]
  /\ ensured \in 0..LastMonth /\ lapsed \in BOOLEAN /\ refused \in BOOLEAN
  \* one transaction at a time creates partitions; a month's rows are in its
  \* partition or in messages_default
  /\ \A s \in Service : start[s] = "creating" <=> lock = s
  /\ \A s \in Service : pending[s] # {} => start[s] = "creating"
  /\ made \cap spilled = {}

PartitionsInit ==
  /\ month = 1 /\ made = {} /\ spilled = {}
  /\ start = [s \in Service |-> "down"] /\ beganIn = [s \in Service |-> 0]
  /\ pending = [s \in Service |-> {}] /\ lock = NoService
  /\ ensured = 0 /\ lapsed = FALSE /\ refused = FALSE

-----------------------------------------------------------------------------
\* engine.begin(): the transaction's now() is taken before the lock is.
BeginsStart(s) ==
  /\ start[s] = "down"
  /\ start' = [start EXCEPT ![s] = "waiting"] /\ beganIn' = [beganIn EXCEPT ![s] = month]
  /\ UNCHANGED <<month, made, spilled, pending, lock, ensured, lapsed, refused>>

\* pg_advisory_xact_lock
MayEnsure(s) == lock = NoService

\* Mutant: one month in advance.
WantedOneAhead(s) == beganIn[s] .. beganIn[s] + 1

\* ensure_message_partition for offsets 0, 1 and 2.
Wanted(s) == beganIn[s] .. beganIn[s] + 2

\* The transaction is rolled back, and the process ends with the exception.
RollsBack(s) ==
  /\ start' = [start EXCEPT ![s] = "down"] /\ beganIn' = [beganIn EXCEPT ![s] = 0]
  /\ pending' = [pending EXCEPT ![s] = {}]
  /\ lock' = IF lock = s THEN NoService ELSE lock
  /\ UNCHANGED <<month, made, spilled, ensured, lapsed>>

\* CREATE TABLE IF NOT EXISTS ... PARTITION OF, for each month that has none:
\* a row of that month in messages_default makes it fail.
CreatesPartitions(s) ==
  /\ start[s] = "waiting" /\ MayEnsure(s)
  /\ (Wanted(s) \ made) \cap spilled = {}
  /\ start' = [start EXCEPT ![s] = "creating"] /\ lock' = s
  /\ pending' = [pending EXCEPT ![s] = Wanted(s) \ made]
  /\ UNCHANGED <<month, made, spilled, beganIn, ensured, lapsed, refused>>

IsRefused(s) ==
  /\ start[s] = "waiting" /\ MayEnsure(s)
  /\ (Wanted(s) \ made) \cap spilled # {}
  /\ RollsBack(s) /\ refused' = TRUE

\* The end of engine.begin().
CommitsSchema(s) ==
  /\ start[s] = "creating"
  /\ start' = [start EXCEPT ![s] = "up"] /\ beganIn' = [beganIn EXCEPT ![s] = 0]
  /\ made' = made \cup pending[s] /\ pending' = [pending EXCEPT ![s] = {}]
  /\ lock' = IF lock = s THEN NoService ELSE lock
  /\ ensured' = IF beganIn[s] > ensured THEN beganIn[s] ELSE ensured
  /\ UNCHANGED <<month, spilled, lapsed, refused>>

\* The database or the process fails during the start.
StartFails(s) == start[s] \in {"waiting", "creating"} /\ RollsBack(s) /\ UNCHANGED refused

ServiceStops(s) == start[s] = "up" /\ RollsBack(s) /\ UNCHANGED refused

\* A mail is archived in a month without partition.  Creating a partition locks
\* messages_default, so the INSERT waits for that.
RowSpills ==
  /\ \E s \in Service : start[s] = "up"
  /\ month \notin made /\ \A s \in Service : pending[s] = {}
  /\ spilled' = spilled \cup {month}
  /\ UNCHANGED <<month, made, startVars, ensured, lapsed, refused>>

\* Assumption: a start does not wait for the lock for more than a month.
MonthPasses ==
  /\ month < LastMonth /\ month' = month + 1
  /\ \A s \in Service : start[s] \in {"waiting", "creating"} => beganIn[s] = month
  /\ lapsed' = (lapsed \/ month' > ensured + 2)
  /\ UNCHANGED <<made, spilled, startVars, ensured, refused>>

PartitionsNext ==
  \/ \E s \in Service :
       \/ BeginsStart(s) \/ CreatesPartitions(s) \/ IsRefused(s) \/ CommitsSchema(s)
       \/ StartFails(s) \/ ServiceStops(s)
  \/ RowSpills \/ MonthPasses

PartitionsSpec == PartitionsInit /\ [][PartitionsNext]_partitionVars

-----------------------------------------------------------------------------
\* As long as some service is started every two months, no start is refused and
\* messages_default stays empty, whatever starts run together and however they
\* fail.  (Services that run longer without a start fill messages_default, and
\* then none of them starts any more.)
SchemaCanBeEnsured == ~lapsed => ~refused /\ spilled = {}
=============================================================================
