------------------------- MODULE AdministrationProofs -------------------------
(***************************************************************************)
(* Theorems about the partitions, the settings and the accounts.  The three *)
(* components share no state; each part has its own inductive invariant.   *)
(***************************************************************************)
EXTENDS Accounts, Settings, Partitions, TLAPS

-----------------------------------------------------------------------------
(* Partitions                                                              *)

\* What a start has done and will do: it began no later than now, it is about to
\* create all the partitions it wants, and no row is in their way.
StartsAreSound ==
  \A s \in Service :
    /\ start[s] \in {"waiting", "creating"} => beganIn[s] \in 1..month
    /\ start[s] = "creating" => Wanted(s) \subseteq made \cup pending[s]
    /\ start[s] = "up" => ensured > 0
    /\ pending[s] \cap spilled = {}

\* The last start that succeeded has left three months of partitions, and the
\* calendar has not gone beyond them unless no service was started.
MonthsAreCovered ==
  /\ ensured <= month
  /\ ensured > 0 => ensured .. ensured + 2 \subseteq made
  /\ ~lapsed => month <= ensured + 2

PartitionsInv == PartitionsTypeOK /\ StartsAreSound /\ MonthsAreCovered /\ SchemaCanBeEnsured

LEMMA PartitionsInitially == PartitionsInit => PartitionsInv
<1> SUFFICES ASSUME PartitionsInit PROVE PartitionsInv
    OBVIOUS
<1> USE PartitionsAssumption DEF PartitionsInit
<1>1. PartitionsTypeOK
  <2>1. 1 \in 1..LastMonth /\ 0 \in 0..LastMonth
        OBVIOUS
  <2>2. pending \in [Service -> SUBSET (1..(LastMonth + 2))]
        OBVIOUS
  <2> QED BY <2>1, <2>2 DEF PartitionsTypeOK
<1>2. StartsAreSound
      BY DEF StartsAreSound
<1>3. MonthsAreCovered /\ SchemaCanBeEnsured
      BY DEF MonthsAreCovered, SchemaCanBeEnsured
<1> QED BY <1>1, <1>2, <1>3 DEF PartitionsInv

LEMMA PartitionsKept == PartitionsInv /\ [PartitionsNext]_partitionVars => PartitionsInv'
<1> SUFFICES ASSUME PartitionsInv, [PartitionsNext]_partitionVars PROVE PartitionsInv'
    OBVIOUS
<1> USE PartitionsAssumption
    DEF PartitionsInv, PartitionsTypeOK, StartsAreSound, MonthsAreCovered, SchemaCanBeEnsured,
        Wanted, startVars
<1>1. ASSUME NEW s \in Service, BeginsStart(s) PROVE PartitionsInv'
      BY <1>1 DEF BeginsStart
<1>2. ASSUME NEW s \in Service, CreatesPartitions(s) PROVE PartitionsInv'
      BY <1>2 DEF CreatesPartitions, MayEnsure
<1>3. ASSUME NEW s \in Service, IsRefused(s) PROVE PartitionsInv'
      BY <1>3 DEF IsRefused, RollsBack
<1>4. ASSUME NEW s \in Service, CommitsSchema(s) PROVE PartitionsInv'
  <2> USE <1>4 DEF CommitsSchema
  <2>1. beganIn[s] \in 1..month /\ Wanted(s) \subseteq made \cup pending[s]
        OBVIOUS
  <2>2. PartitionsTypeOK'
    <3>1. made' \subseteq 1..(LastMonth + 2) /\ made' \cap spilled' = {}
          OBVIOUS
    <3>2. ensured' \in 0..LastMonth /\ beganIn' \in [Service -> 0..LastMonth]
          OBVIOUS
    <3>3. pending' \in [Service -> SUBSET (1..(LastMonth + 2))]
          OBVIOUS
    <3>4. \A t \in Service : start'[t] = "creating" <=> lock' = t
          OBVIOUS
    <3> QED BY <3>1, <3>2, <3>3, <3>4
  <2>3. StartsAreSound'
        BY <2>1
  <2>4. MonthsAreCovered' /\ SchemaCanBeEnsured'
        BY <2>1
  <2> QED BY <2>2, <2>3, <2>4
<1>5. ASSUME NEW s \in Service, StartFails(s) PROVE PartitionsInv'
      BY <1>5 DEF StartFails, RollsBack
<1>6. ASSUME NEW s \in Service, ServiceStops(s) PROVE PartitionsInv'
      BY <1>6 DEF ServiceStops, RollsBack
<1>7. CASE RowSpills
  <2> USE <1>7 DEF RowSpills
  <2>1. lapsed
    <3>1. PICK s \in Service : start[s] = "up"
          OBVIOUS
    <3>2. ensured > 0
          BY <3>1
    <3> QED BY <3>2
  <2>2. PartitionsTypeOK'
    <3>1. spilled' \subseteq 1..LastMonth /\ made' \cap spilled' = {}
          OBVIOUS
    <3> QED BY <3>1
  <2>3. StartsAreSound'
        OBVIOUS
  <2> QED BY <2>1, <2>2, <2>3
<1>8. CASE MonthPasses
  <2> USE <1>8 DEF MonthPasses
  <2>1. month' \in 1..LastMonth /\ lapsed' \in BOOLEAN /\ month < month'
        OBVIOUS
  <2>2. PartitionsTypeOK'
        BY <2>1
  <2>3. StartsAreSound'
        BY <2>1
  <2>4. MonthsAreCovered' /\ SchemaCanBeEnsured'
    <3>1. ensured <= month'
          BY <2>1
    <3>2. ~lapsed' => ~lapsed /\ ~(month' > ensured + 2)
          BY Zenon
    <3>3. ~lapsed' => month' <= ensured' + 2
          BY <2>1, <3>2
    <3> QED BY <3>1, <3>2, <3>3
  <2> QED BY <2>2, <2>3, <2>4
<1>9. CASE UNCHANGED partitionVars
      BY <1>9 DEF partitionVars
<1> QED BY <1>1, <1>2, <1>3, <1>4, <1>5, <1>6, <1>7, <1>8, <1>9 DEF PartitionsNext

LEMMA PartitionsInvariant == PartitionsSpec => []PartitionsInv
  BY PartitionsInitially, PartitionsKept, PTL DEF PartitionsSpec

\* One start at a time creates partitions, and a month's rows are in its partition
\* or in messages_default, never in both.
THEOREM PartitionsTypeCorrect == PartitionsSpec => []PartitionsTypeOK
  BY PartitionsInvariant, PTL DEF PartitionsInv

\* Services started every two months find no row in the way of their partitions,
\* for any number of services and whatever fails.
THEOREM NoStartIsRefused == PartitionsSpec => []SchemaCanBeEnsured
  BY PartitionsInvariant, PTL DEF PartitionsInv

-----------------------------------------------------------------------------
(* Settings                                                                *)

\* Requests store a blank only where one may be stored.
RequestsAreValid ==
  \A u \in Update, k \in Key : asked[u][k] = Blank => k \in Blankable

\* Two requests that have a key at the same time know it: it is crossed.
CrossingsAreSeen ==
  \A u, v \in Update : u # v => Touched(u) \cap Touched(v) \subseteq crossed[u]

\* Nobody has written a key behind the back of a request that has it alone.
AloneIsUpToDate ==
  \A u \in Update : \A k \in Touched(u) \ crossed[u] : read[u][k] = stored[k]

\* What a request alone with its key has saved is still there.
SavedIsStored == \A k \in Key : saved[k] # NoValue => stored[k] = saved[k]

SettingsInv ==
  /\ SettingsTypeOK /\ RequestsAreValid
  /\ CrossingsAreSeen /\ AloneIsUpToDate /\ SavedIsStored

LEMMA SettingsInitially == SettingsInit => SettingsInv
<1> SUFFICES ASSUME SettingsInit PROVE SettingsInv
    OBVIOUS
<1> USE SettingsAssumption DEF SettingsInit, NoSettings
<1>1. NoSettings \in SettingRows
      BY DEF SettingRows
<1>2. SettingsTypeOK
      BY <1>1 DEF SettingsTypeOK
<1>3. \A u \in Update : Touched(u) = {}
      BY DEF Touched
<1> QED BY <1>2, <1>3
        DEF SettingsInv, RequestsAreValid, CrossingsAreSeen, AloneIsUpToDate, SavedIsStored

\* A request that is answered, well or not, has no key any more.
LEMMA AnsweredTouchesNothing ==
  ASSUME SettingsInv, NEW u \in Update, Answered(u)
  PROVE  /\ Touched(u)' = {} /\ crossed'[u] = {}
         /\ \A v \in Update \ {u} : /\ Touched(v)' = Touched(v) /\ crossed'[v] = crossed[v]
                                    /\ asked'[v] = asked[v] /\ read'[v] = read[v]
<1>1. /\ asked' = [asked EXCEPT ![u] = NoSettings] /\ read' = [read EXCEPT ![u] = NoSettings]
      /\ crossed' = [crossed EXCEPT ![u] = {}]
      BY DEF Answered
<1>2. /\ asked \in [Update -> SettingRows] /\ read \in [Update -> SettingRows]
      /\ crossed \in [Update -> SUBSET Key]
      BY DEF SettingsInv, SettingsTypeOK
<1>3. Touched(u)' = {}
      BY <1>1, <1>2 DEF Touched, NoSettings
<1>4. ASSUME NEW v \in Update \ {u}
      PROVE  asked'[v] = asked[v] /\ read'[v] = read[v] /\ crossed'[v] = crossed[v]
      BY <1>1, <1>2
<1>5. ASSUME NEW v \in Update \ {u} PROVE Touched(v)' = Touched(v)
      BY <1>4 DEF Touched
<1> QED BY <1>1, <1>2, <1>3, <1>4, <1>5

LEMMA SettingsKept == SettingsInv /\ [SettingsNext]_settingsVars => SettingsInv'
<1> SUFFICES ASSUME SettingsInv, [SettingsNext]_settingsVars PROVE SettingsInv'
    OBVIOUS
<1>0. /\ SettingsTypeOK /\ RequestsAreValid
      /\ CrossingsAreSeen /\ AloneIsUpToDate /\ SavedIsStored
      BY DEF SettingsInv
<1> USE SettingsAssumption
<1>1. ASSUME NEW u \in Update, UpdateReads(u) PROVE SettingsInv'
  <2> USE DEF UpdateReads
  <2>1. PICK values \in SettingRows \ {NoSettings} :
          /\ \A k \in Key : values[k] = Blank => k \in Blankable
          /\ asked' = [asked EXCEPT ![u] = values]
        BY <1>1
  <2>2. /\ read' = [read EXCEPT ![u] =
                      [k \in Key |-> IF asked'[u][k] = NoValue THEN NoValue ELSE stored[k]]]
        /\ asked[u] = NoSettings /\ UNCHANGED <<stored, config, saved>>
        BY <1>1
  <2>3. SettingsTypeOK'
        BY <1>0, <1>1, <2>1, <2>2 DEF SettingsTypeOK, SettingRows, Touched
  <2>4. RequestsAreValid'
        BY <1>0, <2>1 DEF RequestsAreValid, SettingsTypeOK
  <2>5. \A v \in Update \ {u} : Touched(v)' = Touched(v) /\ read'[v] = read[v]
        BY <1>0, <2>1, <2>2 DEF SettingsTypeOK, Touched
  <2>6. /\ crossed'[u] = Touched(u)' \cap UNION {Touched(w) : w \in Update \ {u}}
        /\ \A v \in Update \ {u} : crossed'[v] = crossed[v] \cup (Touched(v) \cap Touched(u)')
        BY <1>1
  <2>7. CrossingsAreSeen'
    <3> SUFFICES ASSUME NEW v \in Update, NEW w \in Update, v # w
                 PROVE  Touched(v)' \cap Touched(w)' \subseteq crossed'[v]
        BY DEF CrossingsAreSeen
    <3>1. CASE v = u
          BY <2>5, <2>6, <3>1
    <3>2. CASE v # u /\ w = u
          BY <2>5, <2>6, <3>2
    <3>3. CASE v # u /\ w # u
          BY <1>0, <2>5, <2>6, <3>3 DEF CrossingsAreSeen
    <3> QED BY <3>1, <3>2, <3>3
  <2>8. AloneIsUpToDate'
    <3> SUFFICES ASSUME NEW v \in Update, NEW k \in Touched(v)', k \notin crossed'[v]
                 PROVE  read'[v][k] = stored[k]
        BY <2>2 DEF AloneIsUpToDate
    <3>1. CASE v = u
          BY <1>0, <2>2, <3>1 DEF SettingsTypeOK, SettingRows, Touched
    <3>2. CASE v # u
          BY <1>0, <2>5, <2>6, <3>2 DEF AloneIsUpToDate
    <3> QED BY <3>1, <3>2
  <2> QED BY <1>0, <2>2, <2>3, <2>4, <2>7, <2>8 DEF SettingsInv, SavedIsStored
<1>2. ASSUME NEW u \in Update, UpdateCommits(u) PROVE SettingsInv'
  <2>1. /\ stored' = [k \in Key |-> IF k \in Writes(u) THEN asked[u][k] ELSE stored[k]]
        /\ saved' = [k \in Key |-> IF k \notin Touched(u) THEN saved[k]
                                   ELSE IF k \in crossed[u] THEN NoValue ELSE asked[u][k]]
        /\ Answered(u) /\ UNCHANGED config
        BY <1>2 DEF UpdateCommits
  <2>2. /\ Touched(u)' = {} /\ crossed'[u] = {}
        /\ \A v \in Update \ {u} : /\ Touched(v)' = Touched(v) /\ crossed'[v] = crossed[v]
                                   /\ asked'[v] = asked[v] /\ read'[v] = read[v]
        BY <2>1, AnsweredTouchesNothing
  <2>3. Writes(u) \subseteq Touched(u) /\ Touched(u) \subseteq Key
        BY DEF Writes, Touched
  <2>4. /\ stored' \in SettingRows /\ saved' \in SettingRows
        /\ \A k \in Key : stored'[k] = Blank => k \in Blankable
        BY <1>0, <2>1, <2>3 DEF SettingsTypeOK, SettingRows, RequestsAreValid
  <2>5. \A k \in Key : stored[k] # NoValue => stored'[k] # NoValue
        BY <2>1 DEF Writes, Touched
  <2>6. /\ asked' \in [Update -> SettingRows] /\ read' \in [Update -> SettingRows]
        /\ crossed' \in [Update -> SUBSET Key]
        BY <1>0, <2>1 DEF SettingsTypeOK, Answered, NoSettings, SettingRows
  <2>7. \A v \in Update, k \in Key : read'[v][k] # NoValue => stored'[k] # NoValue
        BY <1>0, <2>1, <2>5 DEF SettingsTypeOK, Answered, NoSettings
  <2>8. SettingsTypeOK'
        BY <1>0, <2>1, <2>4, <2>6, <2>7 DEF SettingsTypeOK
  <2>9. RequestsAreValid'
        BY <1>0, <2>1 DEF RequestsAreValid, Answered, NoSettings, SettingsTypeOK
  <2>10. CrossingsAreSeen'
    <3> SUFFICES ASSUME NEW v \in Update, NEW w \in Update, v # w
                 PROVE  Touched(v)' \cap Touched(w)' \subseteq crossed'[v]
        BY DEF CrossingsAreSeen
    <3> QED BY <1>0, <2>2 DEF CrossingsAreSeen
  <2>11. AloneIsUpToDate'
    <3> SUFFICES ASSUME NEW v \in Update, NEW k \in Touched(v)', k \notin crossed'[v]
                 PROVE  read'[v][k] = stored'[k]
        BY DEF AloneIsUpToDate
    <3>0. v # u /\ k \in Touched(v) /\ k \notin crossed[v] /\ read'[v] = read[v]
          BY <2>2
    <3>1. k \notin Touched(u) /\ k \in Key
          BY <1>0, <3>0 DEF CrossingsAreSeen, Touched
    <3> QED BY <1>0, <2>1, <2>3, <3>0, <3>1 DEF AloneIsUpToDate
  <2>12. SavedIsStored'
    <3> SUFFICES ASSUME NEW k \in Key, saved'[k] # NoValue PROVE stored'[k] = saved'[k]
        BY DEF SavedIsStored
    <3>1. CASE k \notin Touched(u)
          BY <1>0, <2>1, <2>3, <3>1 DEF SavedIsStored
    <3>2. CASE k \in Touched(u)
      <4>1. k \notin crossed[u] /\ saved'[k] = asked[u][k]
            BY <2>1, <3>2
      <4>2. read[u][k] = stored[k]
            BY <1>0, <3>2, <4>1 DEF AloneIsUpToDate
      <4> QED BY <2>1, <3>2, <4>1, <4>2 DEF Writes
    <3> QED BY <3>1, <3>2
  <2> QED BY <2>8, <2>9, <2>10, <2>11, <2>12 DEF SettingsInv
<1>3. ASSUME NEW u \in Update, UpdateFails(u) PROVE SettingsInv'
  <2>1. Answered(u) /\ UNCHANGED <<stored, config, saved>>
        BY <1>3 DEF UpdateFails
  <2>2. /\ Touched(u)' = {} /\ crossed'[u] = {}
        /\ \A v \in Update \ {u} : /\ Touched(v)' = Touched(v) /\ crossed'[v] = crossed[v]
                                   /\ asked'[v] = asked[v] /\ read'[v] = read[v]
        BY <2>1, AnsweredTouchesNothing
  <2>3. SettingsTypeOK'
        BY <1>0, <2>1 DEF SettingsTypeOK, Answered, NoSettings, SettingRows
  <2>4. RequestsAreValid'
        BY <1>0, <2>1 DEF RequestsAreValid, Answered, NoSettings, SettingsTypeOK
  <2>5. CrossingsAreSeen'
    <3> SUFFICES ASSUME NEW v \in Update, NEW w \in Update, v # w
                 PROVE  Touched(v)' \cap Touched(w)' \subseteq crossed'[v]
        BY DEF CrossingsAreSeen
    <3> QED BY <1>0, <2>2 DEF CrossingsAreSeen
  <2>6. AloneIsUpToDate'
    <3> SUFFICES ASSUME NEW v \in Update, NEW k \in Touched(v)', k \notin crossed'[v]
                 PROVE  read'[v][k] = stored'[k]
        BY DEF AloneIsUpToDate
    <3> QED BY <1>0, <2>1, <2>2 DEF AloneIsUpToDate
  <2> QED BY <1>0, <2>1, <2>3, <2>4, <2>5, <2>6 DEF SettingsInv, SavedIsStored
<1>4. ASSUME NEW answers \in BOOLEAN, NEW certificate \in BOOLEAN, GatewayStarts(answers, certificate)
      PROVE  SettingsInv'
  <2>1. UNCHANGED <<stored, asked, read, crossed, saved>>
        BY <1>4 DEF GatewayStarts
  <2>2. ASSUME NEW k \in Key PROVE Enforced(k, answers, certificate) \in Value
        BY <1>0 DEF Enforced, Configured, Loaded, SettingsTypeOK, SettingRows
  <2>3. config' \in [Key -> Value]
        BY <1>4, <2>2 DEF GatewayStarts
  <2> QED BY <1>0, <2>1, <2>3
          DEF SettingsInv, SettingsTypeOK, RequestsAreValid, CrossingsAreSeen, AloneIsUpToDate,
              SavedIsStored, Touched
<1>5. CASE GatewayStops
      BY <1>0, <1>5
      DEF GatewayStops, SettingsInv, SettingsTypeOK, RequestsAreValid, CrossingsAreSeen,
          AloneIsUpToDate, SavedIsStored, Touched
<1>6. CASE UNCHANGED settingsVars
      BY <1>0, <1>6
      DEF settingsVars, SettingsInv, SettingsTypeOK, RequestsAreValid, CrossingsAreSeen,
          AloneIsUpToDate, SavedIsStored, Touched
<1> QED BY <1>1, <1>2, <1>3, <1>4, <1>5, <1>6 DEF SettingsNext

LEMMA SettingsInvariant == SettingsSpec => []SettingsInv
  BY SettingsInitially, SettingsKept, PTL DEF SettingsSpec

\* Rows of app_settings stay, keep their types, and are blank only for a host.
THEOREM SettingsTypeCorrect == SettingsSpec => []SettingsTypeOK
  BY SettingsInvariant, PTL DEF SettingsInv

\* A setting that was saved while no other request had its key is in force when
\* the gateway is started again, for any number of requests and of settings.
THEOREM SavedIsApplied == SettingsSpec => SavedTakesEffect
<1>1. ASSUME SettingsInv, NEW certificate \in BOOLEAN, GatewayStarts(TRUE, certificate),
             NEW k \in Key, saved[k] \notin {NoValue, Blank}
      PROVE  config'[k] = saved[k] \/ (k = Starttls /\ ~certificate /\ config'[k] = Off)
  <2>1. stored[k] = saved[k]
        BY <1>1 DEF SettingsInv, SavedIsStored
  <2>2. Loaded(k) = saved[k]
        BY <1>1, <2>1 DEF Loaded
  <2> QED BY <1>1, <2>2 DEF GatewayStarts, Enforced, Configured
<1>2. SettingsInv /\ [SettingsNext]_settingsVars =>
        [\A certificate \in BOOLEAN : GatewayStarts(TRUE, certificate) =>
           \A k \in Key : saved[k] \notin {NoValue, Blank} =>
             config'[k] = saved[k] \/ (k = Starttls /\ ~certificate /\ config'[k] = Off)]_settingsVars
      BY <1>1
<1> QED BY <1>2, SettingsInvariant, PTL DEF SettingsSpec, SavedTakesEffect

\* A successful request has stored its values, but where another one came between.
THEOREM UpdatesHold == SettingsSpec => SuccessfulUpdatesHold
<1>1. SettingsTypeOK /\ [SettingsNext]_settingsVars =>
        [\A u \in Update : UpdateCommits(u) =>
           \A k \in Touched(u) : stored[k] = read[u][k] => stored'[k] = asked[u][k]]_settingsVars
      BY DEF UpdateCommits, Touched, Writes
<1> QED BY <1>1, SettingsTypeCorrect, PTL DEF SettingsSpec, SuccessfulUpdatesHold

-----------------------------------------------------------------------------
(* Accounts: types                                                         *)

LEMMA LoweredAreAddresses ==
  ASSUME NEW addrs \in SUBSET Address
  PROVE  /\ LowerAll(addrs) \in SUBSET Address
         /\ addrs # {} => LowerAll(addrs) # {}
  BY LowerAssumption DEF LowerAll

\* What a request is follows from its operation.
LEMMA RequestKinds ==
  ASSUME AccountsTypeOK, NEW r \in Request, request[r] # NoRequest
  PROVE  /\ request[r].op = "login" => request[r] \in Login
         /\ request[r].op = "create" => request[r] \in Create
         /\ request[r].op \in {"activate", "deactivate", "delete"} => request[r] \in Change
  BY DEF AccountsTypeOK, Login, Create, Change

\* A new session is one.
LEMMA IssueKeepsTypes ==
  ASSUME AccountsTypeOK, NEW i \in Id \cup {0}, NEW row, Issue(i, row),
         row.username \in Username, row.role \in Role,
         row.email \in Address \cup {NoAddress}, row.audited \in SUBSET Address
  PROVE  sessions' \in SUBSET Session
  BY AccountsAssumption DEF AccountsTypeOK, Issue, Session

LEMMA LdapKeepsTypes ==
  ASSUME AccountsTypeOK, NEW name \in Username, LdapAnswers(name)
  PROVE  sessions' \in SUBSET Session
<1>1. CASE UNCHANGED sessions
      BY <1>1 DEF AccountsTypeOK
<1>2. CASE ~UNCHANGED sessions
  <2>1. name \in Directory
        BY <1>2 DEF LdapAnswers
  <2>2. PICK e \in Address \cup {NoAddress} :
          Issue(0, [username |-> name, role |-> DirectoryRole[name], email |-> e, audited |-> {}])
        BY <1>2 DEF LdapAnswers
  <2>3. DirectoryRole[name] \in Role
        BY <2>1, AccountsAssumption DEF Role
  <2> QED BY <2>2, <2>3, IssueKeepsTypes
<1> QED BY <1>1, <1>2

\* Either answer of a login writes counters only.
LEMMA CountersKeepTypes ==
  ASSUME AccountsTypeOK, NEW i \in Rows, NEW row \in Account, NEW since \in Nat,
         Wrong(i, row, since) \/ Right(i, row)
  PROVE  /\ users' \in [Id -> Account \cup {NoRow}]
         /\ \A j \in Id : users'[j] = NoRow <=> users[j] = NoRow
         /\ streak' \in [Id -> Nat]
<1> USE AccountsAssumption, NoAccountAssumption
<1>1. i \in Id /\ users[i] \in Account
      BY DEF AccountsTypeOK, Rows
<1>2. row.failed \in 0..(MaxAttempts - 1) /\ row.lockedUntil \in Nat
      BY DEF Account
<1>3. users[i].failed \in 0..(MaxAttempts - 1) /\ users[i].lockedUntil \in Nat
      BY <1>1 DEF Account
<1>4. users' = [users EXCEPT ![i] = users'[i]] /\ users'[i] \in Account
  <2>1. CASE Right(i, row)
    <3> DEFINE f == IF row.failed # 0 THEN 0 ELSE users[i].failed
               l == IF row.lockedUntil # 0 THEN 0 ELSE users[i].lockedUntil
    <3>1. f \in 0..(MaxAttempts - 1) /\ l \in Nat
          BY <1>3
    <3>2. users' = [users EXCEPT ![i].failed = f, ![i].lockedUntil = l]
          BY <2>1, <1>1 DEF Right, AccountsTypeOK
    <3> HIDE DEF f, l
    <3> QED BY <3>1, <3>2, <1>1 DEF AccountsTypeOK, Account
  <2>2. CASE Wrong(i, row, since) /\ row.failed + 1 >= MaxAttempts
    <3>1. since + Lockout \in Nat /\ 0 \in 0..(MaxAttempts - 1)
          OBVIOUS
    <3>2. users' = [users EXCEPT ![i].lockedUntil = since + Lockout, ![i].failed = 0]
          BY <2>2 DEF Wrong
    <3> QED BY <3>1, <3>2, <1>1 DEF AccountsTypeOK, Account
  <2>3. CASE Wrong(i, row, since) /\ ~(row.failed + 1 >= MaxAttempts)
    <3>1. row.failed + 1 \in 0..(MaxAttempts - 1)
          BY <2>3, <1>2
    <3>2. users' = [users EXCEPT ![i].failed = row.failed + 1]
          BY <2>3 DEF Wrong
    <3> QED BY <3>1, <3>2, <1>1 DEF AccountsTypeOK, Account
  <2> QED BY <2>1, <2>2, <2>3
<1>5. \A j \in Id : users'[j] \in Account \cup {NoRow} /\ (users'[j] = NoRow <=> users[j] = NoRow)
      BY <1>1, <1>4 DEF AccountsTypeOK
<1>6. streak' \in [Id -> Nat]
      BY <1>1 DEF Wrong, Right, AccountsTypeOK
<1> QED BY <1>1, <1>4, <1>5, <1>6 DEF AccountsTypeOK

LEMMA AccountsTypesInitially == AccountsInit => AccountsTypeOK
  BY AccountsAssumption DEF AccountsInit, AccountsTypeOK

LEMMA AccountsTypesKept == AccountsTypeOK /\ [AccountsNext]_accountVars => AccountsTypeOK'
<1> SUFFICES ASSUME AccountsTypeOK, [AccountsNext]_accountVars PROVE AccountsTypeOK'
    OBVIOUS
<1> USE AccountsAssumption, NoAccountAssumption, NoRequestAssumption
<1>1. ASSUME NEW name \in Username, LoginUnknown(name) PROVE AccountsTypeOK'
      BY <1>1, LdapKeepsTypes DEF LoginUnknown, AccountsTypeOK, historyVars
<1>2. ASSUME NEW r \in Request, NEW name \in Username, NEW p \in Password \cup {WrongPassword},
             LoginReads(r, name, p)
      PROVE AccountsTypeOK'
  <2>1. PICK i \in SelectAccount(name) :
          /\ overlapped' = [overlapped EXCEPT ![i] = @ \/ LoginsOn(i) # {}]
          /\ IF p = users[i].password /\ users[i].failed = 0 /\ users[i].lockedUntil = 0
             THEN Issue(i, users[i]) /\ UNCHANGED request
             ELSE /\ request' = [request EXCEPT ![r] =
                       [op |-> "login", id |-> i, row |-> users[i], ok |-> p = users[i].password,
                        since |-> now]]
                  /\ UNCHANGED sessions
        BY <1>2 DEF LoginReads
  <2>2. i \in Id /\ users[i] \in Account
        BY DEF SelectAccount, Named, Rows, AccountsTypeOK
  <2>3. sessions' \in SUBSET Session
        BY <2>1, <2>2, IssueKeepsTypes DEF AccountsTypeOK, Account
  <2>4. request' \in [Request -> Login \cup Create \cup Change \cup {NoRequest}]
    <3> DEFINE ok == p = users[i].password
    <3>1. ok \in BOOLEAN
          OBVIOUS
    <3> HIDE DEF ok
    <3>2. [op |-> "login", id |-> i, row |-> users[i], ok |-> ok, since |-> now] \in Login
          BY <2>2, <3>1 DEF Login, AccountsTypeOK
    <3> QED BY <2>1, <3>2 DEF AccountsTypeOK, ok
  <2>5. overlapped' \in [Id -> BOOLEAN]
        BY <2>1, <2>2 DEF AccountsTypeOK
  <2> QED BY <2>3, <2>4, <2>5, <1>2 DEF LoginReads, AccountsTypeOK
<1>3. ASSUME NEW r \in Request, LoginWrites(r) PROVE AccountsTypeOK'
  <2> DEFINE q == request[r]
  <2>1. q \in Login /\ q.row \in Account /\ q.id \in Id /\ q.since \in Nat
        BY <1>3, RequestKinds DEF LoginWrites, Login
  <2>2. request' \in [Request -> Login \cup Create \cup Change \cup {NoRequest}]
        BY <1>3 DEF LoginWrites, End, AccountsTypeOK
  <2>3. CASE users[q.id] = NoRow
        BY <2>2, <2>3, <1>3 DEF LoginWrites, AccountsTypeOK
  <2>4. CASE users[q.id] # NoRow
    <3>1. q.id \in Rows
          BY <2>1, <2>4 DEF Rows
    <3>2. /\ users' \in [Id -> Account \cup {NoRow}] /\ streak' \in [Id -> Nat]
          /\ \A j \in Id : users'[j] = NoRow <=> users[j] = NoRow
          BY <3>1, <2>1, <2>4, <1>3, CountersKeepTypes DEF LoginWrites
    <3>3. sessions' \in SUBSET Session
          BY <2>1, <2>4, <1>3, IssueKeepsTypes, LdapKeepsTypes DEF LoginWrites, Account
    <3> QED BY <3>2, <3>3, <2>2, <1>3 DEF LoginWrites, AccountsTypeOK
  <2> QED BY <2>3, <2>4
<1>4. ASSUME NEW r \in Request, SeedBegins(r) PROVE AccountsTypeOK'
  <2>1. PICK p \in Password :
          request' = [request EXCEPT ![r] =
            [op |-> "create", since |-> now,
             row |-> [username |-> Protected, role |-> "admin", active |-> TRUE, password |-> p,
                      email |-> NoAddress, audited |-> {}, failed |-> 0, lockedUntil |-> 0]]]
        BY <1>4 DEF SeedBegins
  <2>2. [username |-> Protected, role |-> "admin", active |-> TRUE, password |-> p,
         email |-> NoAddress, audited |-> {}, failed |-> 0, lockedUntil |-> 0] \in NewAccount
        BY DEF Account, NewAccount, Role
  <2>3. request' \in [Request -> Login \cup Create \cup Change \cup {NoRequest}]
        BY <2>1, <2>2 DEF AccountsTypeOK, Create
  <2> QED BY <2>3, <1>4 DEF SeedBegins, AccountsTypeOK, historyVars
<1>5. ASSUME NEW r \in Request, NEW name \in Username, NEW role \in Role,
             NEW e \in Address \cup {NoAddress}, NEW audited \in SUBSET Address,
             CreateBegins(r, name, role, e, audited)
      PROVE AccountsTypeOK'
  <2>1. PICK p \in Password :
          request' = [request EXCEPT ![r] =
            [op |-> "create", since |-> now,
             row |-> [username |-> name, role |-> role, active |-> TRUE, password |-> p,
                      email |-> e, audited |-> LowerAll(audited), failed |-> 0,
                      lockedUntil |-> 0]]]
        BY <1>5 DEF CreateBegins
  <2>2. [username |-> name, role |-> role, active |-> TRUE, password |-> p, email |-> e,
         audited |-> LowerAll(audited), failed |-> 0, lockedUntil |-> 0] \in NewAccount
        BY LoweredAreAddresses DEF Account, NewAccount
  <2>3. request' \in [Request -> Login \cup Create \cup Change \cup {NoRequest}]
        BY <2>1, <2>2 DEF AccountsTypeOK, Create
  <2> QED BY <2>3, <1>5 DEF CreateBegins, AccountsTypeOK, historyVars
<1>6. ASSUME NEW r \in Request, CreateCommits(r) PROVE AccountsTypeOK'
  <2>1. request[r] \in Create /\ request[r].row \in Account
        BY <1>6, RequestKinds DEF CreateCommits, Create, NewAccount
  <2>2. users' \in [Id -> Account \cup {NoRow}] /\ lastActive' \in [Id -> Nat]
        BY <2>1, <1>6 DEF CreateCommits, Insert, AccountsTypeOK
  <2>3. nextId' \in Nat /\ \A i \in Id : i >= nextId' => users'[i] = NoRow
        BY <1>6 DEF CreateCommits, Insert, AccountsTypeOK
  <2> QED BY <2>2, <2>3, <1>6 DEF CreateCommits, End, AccountsTypeOK
<1>7. ASSUME NEW r \in Request, NEW op \in {"activate", "deactivate", "delete"}, NEW i \in Id,
             ChangeBegins(r, op, i)
      PROVE AccountsTypeOK'
      BY <1>7 DEF ChangeBegins, AccountsTypeOK, Change, historyVars
<1>8. ASSUME NEW r \in Request, CountAdmins(r) PROVE AccountsTypeOK'
  <2>1. request[r] \in Change
        BY <1>8, RequestKinds DEF CountAdmins
  <2>2. [request[r] EXCEPT !.check = FALSE] \in Change
        BY <2>1 DEF Change
  <2>3. request' = [request EXCEPT ![r] = NoRequest]
          \/ request' = [request EXCEPT ![r] = [request[r] EXCEPT !.check = FALSE]]
        BY <1>8 DEF CountAdmins, AccountsTypeOK
  <2>4. request' \in [Request -> Login \cup Create \cup Change \cup {NoRequest}]
        BY <2>2, <2>3 DEF AccountsTypeOK
  <2> QED BY <2>4, <1>8 DEF CountAdmins, AccountsTypeOK, historyVars
<1>9. ASSUME NEW r \in Request, ChangeWrites(r) PROVE AccountsTypeOK'
  <2>1. request[r] \in Change /\ request[r].id \in Id
        BY <1>9, RequestKinds DEF ChangeWrites, Change
  <2>2. users' \in [Id -> Account \cup {NoRow}] /\ \A i \in Id : i >= nextId => users'[i] = NoRow
    <3> DEFINE i == request[r].id
               active == request[r].op = "activate"
    <3>1. active \in BOOLEAN
          OBVIOUS
    <3>2. \/ users' = users
          \/ users' = [users EXCEPT ![i] = NoRow]
          \/ users[i] # NoRow /\ users' = [users EXCEPT ![i].active = active]
          BY <1>9 DEF ChangeWrites
    <3> HIDE DEF i, active
    <3>3. i \in Id
          BY <2>1 DEF i
    <3>4. ASSUME users[i] # NoRow
          PROVE  [users[i] EXCEPT !.active = active] \in Account
          BY <3>1, <3>3, <3>4 DEF AccountsTypeOK, Account
    <3> QED BY <3>2, <3>3, <3>4 DEF AccountsTypeOK
  <2>3. lastActive' \in [Id -> Nat]
        BY <1>9 DEF ChangeWrites, AccountsTypeOK
  <2> QED BY <2>2, <2>3, <1>9 DEF ChangeWrites, End, AccountsTypeOK
<1>10. ASSUME NEW i \in Rows, NEW row \in Account, Edit(i, row) PROVE AccountsTypeOK'
      BY <1>10 DEF Edit, Rows, AccountsTypeOK, historyVars
<1>11. ASSUME NEW i \in Id, NEW p \in Password, SetPassword(i, p) PROVE AccountsTypeOK'
      BY <1>10, <1>11 DEF SetPassword, Rows, Account, AccountsTypeOK
<1>12. ASSUME NEW i \in Id, NEW old \in Password, NEW new \in Password,
              ChangeOwnPassword(i, old, new)
       PROVE AccountsTypeOK'
      BY <1>10, <1>12 DEF ChangeOwnPassword, Rows, Account, AccountsTypeOK
<1>13. ASSUME NEW i \in Id, NEW e \in Address \cup {NoAddress}, SetEmail(i, e)
       PROVE AccountsTypeOK'
      BY <1>10, <1>13 DEF SetEmail, Rows, Account, AccountsTypeOK
<1>14. ASSUME NEW i \in Id, NEW audited \in SUBSET Address, SetAuditedEmails(i, audited)
       PROVE AccountsTypeOK'
  <2>1. LowerAll(audited) \in SUBSET Address
        BY LoweredAreAddresses
  <2>2. [users[i] EXCEPT !.audited = LowerAll(audited)] \in Account
        BY <2>1, <1>14 DEF SetAuditedEmails, Rows, Account, AccountsTypeOK
  <2> QED BY <2>2, <1>10, <1>14 DEF SetAuditedEmails
<1>15. CASE ClockTicks
      BY <1>15 DEF ClockTicks, AccountsTypeOK
<1>16. CASE UNCHANGED accountVars
      BY <1>16 DEF accountVars, historyVars, AccountsTypeOK
<1> QED BY <1>1, <1>2, <1>3, <1>4, <1>5, <1>6, <1>7, <1>8, <1>9, <1>11, <1>12, <1>13, <1>14,
           <1>15, <1>16 DEF AccountsNext

-----------------------------------------------------------------------------
(* Accounts: who can log in                                                *)

\* What a request will write: a creation keeps to the rules of its role, and the
\* first one makes the main administrator; ids are known; nothing is about to be
\* done to the main administrator.
RequestsAreSound ==
  \A r \in Request : request[r] # NoRequest =>
    /\ request[r].op = "create" =>
         LET row == request[r].row
         IN  /\ AuditorRules(row.role, row.email, row.audited)
             /\ Rows = {} => row.username = Protected /\ row.role = "admin" /\ row.active
    /\ request[r].op # "create" => request[r].id < nextId
    /\ request[r].op \in {"deactivate", "delete"} => request[r].id \notin Named(Protected)

\* Nobody has a session before there is an account.
NobodyComesFirst == Rows = {} => sessions = {}

AccountsInv ==
  /\ AccountsTypeOK /\ RequestsAreSound /\ NobodyComesFirst
  /\ SystemIsNotLockedOut /\ AccountsAreWellFormed

\* A step that leaves names, roles and activity alone.
SameAccounts ==
  /\ Rows' = Rows /\ nextId' = nextId
  /\ \A i \in Rows : /\ users'[i].username = users[i].username
                     /\ users'[i].role = users[i].role /\ users'[i].active = users[i].active

LEMMA SameAccountsAreSafe ==
  ASSUME AccountsInv, SameAccounts,
         \A i \in Rows : users[i].role = "auditor" =>
           users'[i].email # NoAddress /\ users'[i].audited # {}
  PROVE  SystemIsNotLockedOut' /\ AccountsAreWellFormed' /\ Named(Protected)' = Named(Protected)
<1>1. ActiveAdmins' = ActiveAdmins /\ Named(Protected)' = Named(Protected)
      BY DEF SameAccounts, ActiveAdmins, Named
<1>2. SystemIsNotLockedOut'
      BY <1>1 DEF AccountsInv, SameAccounts, SystemIsNotLockedOut, ActiveAdmins
<1>3. AccountsAreWellFormed'
      BY DEF AccountsInv, SameAccounts, AccountsAreWellFormed
<1> QED BY <1>1, <1>2, <1>3

\* A step that changes no row.
LEMMA UnchangedAccountsAreSafe ==
  ASSUME AccountsInv, UNCHANGED <<users, nextId>>
  PROVE  /\ SameAccounts /\ SystemIsNotLockedOut' /\ AccountsAreWellFormed'
         /\ Named(Protected)' = Named(Protected)
<1>1. SameAccounts
      BY DEF SameAccounts, Rows
<1>2. \A i \in Rows : users[i].role = "auditor" =>
        users'[i].email # NoAddress /\ users'[i].audited # {}
      BY DEF AccountsInv, AccountsAreWellFormed
<1> QED BY <1>1, <1>2, SameAccountsAreSafe

\* ... and in which one request changes, to a sound one or to none.
LEMMA OneRequestChanges ==
  ASSUME AccountsInv, SameAccounts, Named(Protected)' = Named(Protected), NEW r \in Request,
         \A t \in Request \ {r} : request'[t] = request[t],
         request'[r] # NoRequest =>
           /\ request'[r].op = "create" =>
                LET row == request'[r].row
                IN  /\ AuditorRules(row.role, row.email, row.audited)
                    /\ Rows = {} => row.username = Protected /\ row.role = "admin" /\ row.active
           /\ request'[r].op # "create" => request'[r].id < nextId
           /\ request'[r].op \in {"deactivate", "delete"} => request'[r].id \notin Named(Protected)
  PROVE  RequestsAreSound'
  BY DEF AccountsInv, SameAccounts, RequestsAreSound, AuditorRules

\* Either answer of a login changes counters only.
LEMMA CountersOnly ==
  ASSUME AccountsTypeOK, NEW i \in Rows, NEW row \in Account, NEW since \in Nat,
         Wrong(i, row, since) \/ Right(i, row)
  PROVE  \A j \in Rows :
           /\ users'[j].username = users[j].username /\ users'[j].role = users[j].role
           /\ users'[j].active = users[j].active /\ users'[j].email = users[j].email
           /\ users'[j].audited = users[j].audited
<1>1. i \in Id /\ users[i] \in Account /\ \A j \in Rows : j \in Id /\ users[j] \in Account
      BY DEF AccountsTypeOK, Rows
<1>2. PICK f, l : users' = [users EXCEPT ![i].failed = f, ![i].lockedUntil = l]
             \/ users' = [users EXCEPT ![i].lockedUntil = l, ![i].failed = f]
             \/ users' = [users EXCEPT ![i].failed = f]
      BY <1>1 DEF Wrong, Right, AccountsTypeOK
<1> QED BY <1>1, <1>2 DEF AccountsTypeOK, Account

LEMMA AccountsInitially == AccountsInit => AccountsInv
  BY AccountsTypesInitially
  DEF AccountsInit, AccountsInv, RequestsAreSound, NobodyComesFirst, SystemIsNotLockedOut,
      AccountsAreWellFormed, Rows

LEMMA AccountsKept == AccountsInv /\ [AccountsNext]_accountVars => AccountsInv'
<1> SUFFICES ASSUME AccountsInv, [AccountsNext]_accountVars PROVE AccountsInv'
    OBVIOUS
<1>0. AccountsTypeOK /\ AccountsTypeOK'
      BY AccountsTypesKept DEF AccountsInv
<1>1. ASSUME NEW name \in Username, LoginUnknown(name) PROVE AccountsInv'
  <2>1. UNCHANGED <<users, nextId, request>>
        BY <1>1 DEF LoginUnknown
  <2>2. RequestsAreSound' /\ NobodyComesFirst'
        BY <1>1, <2>1
        DEF LoginUnknown, AccountsInv, RequestsAreSound, NobodyComesFirst, Rows, Named, AuditorRules
  <2> QED BY <1>0, <2>1, <2>2, UnchangedAccountsAreSafe DEF AccountsInv
<1>2. ASSUME NEW r \in Request, NEW name \in Username, NEW p \in Password \cup {WrongPassword},
             LoginReads(r, name, p)
      PROVE AccountsInv'
  <2>1. /\ UNCHANGED <<users, nextId>>
        /\ \E i \in SelectAccount(name) :
             \/ UNCHANGED request
             \/ request' = [request EXCEPT ![r] =
                  [op |-> "login", id |-> i, row |-> users[i], ok |-> p = users[i].password,
                   since |-> now]]
        BY <1>2 DEF LoginReads
  <2>2. PICK i \in SelectAccount(name) :
             \/ UNCHANGED request
             \/ request' = [request EXCEPT ![r] =
                  [op |-> "login", id |-> i, row |-> users[i], ok |-> p = users[i].password,
                   since |-> now]]
        BY <2>1
  <2>3. i \in Rows /\ i < nextId /\ Rows' = Rows
    <3>1. i \in Rows /\ i \in Id
          BY DEF SelectAccount, Named, Rows
    <3>2. nextId \in Nat /\ \A k \in Id : k >= nextId => users[k] = NoRow
          BY <1>0 DEF AccountsTypeOK
    <3>3. i \in Nat /\ users[i] # NoRow
          BY <3>1, AccountsAssumption DEF Rows
    <3>4. i < nextId
          BY <3>1, <3>2, <3>3
    <3>5. Rows' = Rows
          BY <2>1 DEF Rows
    <3> QED BY <3>1, <3>4, <3>5
  <2>4. request'[r] # request[r] => request'[r].op = "login" /\ request'[r].id = i
        BY <1>0, <2>2 DEF AccountsTypeOK
  <2>5. \A t \in Request \ {r} : request'[t] = request[t]
        BY <1>0, <2>2 DEF AccountsTypeOK
  <2>6. RequestsAreSound'
        BY <2>1, <2>3, <2>4, <2>5, UnchangedAccountsAreSafe, OneRequestChanges
        DEF AccountsInv, RequestsAreSound
  <2> QED BY <1>0, <2>1, <2>3, <2>6, UnchangedAccountsAreSafe DEF AccountsInv, NobodyComesFirst
<1>3. ASSUME NEW r \in Request, LoginWrites(r) PROVE AccountsInv'
  <2> DEFINE q == request[r]
  <2>1. q \in Login /\ q.row \in Account /\ q.id \in Id /\ q.since \in Nat
        BY <1>0, <1>3, RequestKinds DEF LoginWrites, Login
  <2>2. request'[r] = NoRequest /\ \A t \in Request \ {r} : request'[t] = request[t]
        BY <1>0, <1>3 DEF LoginWrites, End, AccountsTypeOK
  <2>3. CASE users[q.id] = NoRow
    <3>1. UNCHANGED <<users, nextId, sessions>>
          BY <2>3, <1>3 DEF LoginWrites
    <3>2. RequestsAreSound'
          BY <2>2, <3>1, UnchangedAccountsAreSafe, OneRequestChanges
    <3> QED BY <1>0, <3>1, <3>2, UnchangedAccountsAreSafe DEF AccountsInv, NobodyComesFirst, Rows
  <2>4. CASE users[q.id] # NoRow
    <3>1. q.id \in Rows
          BY <2>1, <2>4 DEF Rows
    <3>2. Wrong(q.id, q.row, q.since) \/ Right(q.id, q.row)
          BY <2>4, <1>3 DEF LoginWrites
    <3>3. \A j \in Rows :
            /\ users'[j].username = users[j].username /\ users'[j].role = users[j].role
            /\ users'[j].active = users[j].active /\ users'[j].email = users[j].email
            /\ users'[j].audited = users[j].audited
          BY <1>0, <2>1, <3>1, <3>2, CountersOnly
    <3>4. Rows' = Rows
          BY <1>0, <2>1, <3>1, <3>2, CountersKeepTypes DEF Rows
    <3>5. SameAccounts
          BY <3>3, <3>4, <1>3 DEF SameAccounts, LoginWrites
    <3>6. \A i \in Rows : users[i].role = "auditor" =>
            users'[i].email # NoAddress /\ users'[i].audited # {}
          BY <3>3 DEF AccountsInv, AccountsAreWellFormed
    <3>7. RequestsAreSound'
          BY <2>2, <3>5, <3>6, SameAccountsAreSafe, OneRequestChanges
    <3>8. NobodyComesFirst'
          BY <3>1, <3>4 DEF NobodyComesFirst
    <3> QED BY <1>0, <3>5, <3>6, <3>7, <3>8, SameAccountsAreSafe DEF AccountsInv
  <2> QED BY <2>3, <2>4
<1>4. ASSUME NEW r \in Request, SeedBegins(r) PROVE AccountsInv'
  <2>1. UNCHANGED <<users, nextId, sessions>>
        BY <1>4 DEF SeedBegins
  <2>2. /\ request'[r].op = "create" /\ request'[r].row.username = Protected
        /\ request'[r].row.role = "admin" /\ request'[r].row.active
        /\ \A t \in Request \ {r} : request'[t] = request[t]
        BY <1>0, <1>4 DEF SeedBegins, AccountsTypeOK
  <2>3. RequestsAreSound'
        BY <2>1, <2>2, UnchangedAccountsAreSafe, OneRequestChanges DEF AuditorRules
  <2> QED BY <1>0, <2>1, <2>3, UnchangedAccountsAreSafe DEF AccountsInv, NobodyComesFirst, Rows
<1>5. ASSUME NEW r \in Request, NEW name \in Username, NEW role \in Role,
             NEW e \in Address \cup {NoAddress}, NEW audited \in SUBSET Address,
             CreateBegins(r, name, role, e, audited)
      PROVE AccountsInv'
  <2>1. UNCHANGED <<users, nextId, sessions>>
        BY <1>5 DEF CreateBegins
  <2>2. Rows # {}
        BY <1>5 DEF CreateBegins, AdminAsks, AccountsInv, NobodyComesFirst
  <2>3. /\ request'[r].op = "create" /\ request'[r].row.role = role
        /\ request'[r].row.email = e /\ request'[r].row.audited = LowerAll(audited)
        /\ \A t \in Request \ {r} : request'[t] = request[t]
        BY <1>0, <1>5 DEF CreateBegins, AccountsTypeOK
  <2>4. AuditorRules(role, e, LowerAll(audited))
        BY <1>5, LoweredAreAddresses DEF CreateBegins, AuditorRules
  <2>5. RequestsAreSound'
        BY <2>1, <2>2, <2>3, <2>4, UnchangedAccountsAreSafe, OneRequestChanges
  <2> QED BY <1>0, <2>1, <2>5, UnchangedAccountsAreSafe DEF AccountsInv, NobodyComesFirst, Rows
<1>6. ASSUME NEW r \in Request, CreateCommits(r) PROVE AccountsInv'
  <2> DEFINE row == request[r].row
  <2>1. /\ nextId' = nextId + 1 /\ nextId \in Id /\ nextId \in Nat
        /\ sessions' = sessions /\ users[nextId] = NoRow /\ row \in Account
        BY <1>0, <1>6, RequestKinds DEF CreateCommits, AccountsTypeOK, Create, NewAccount
  <2>2. request'[r] = NoRequest /\ \A t \in Request \ {r} : request'[t] = request[t]
        BY <1>0, <1>6 DEF CreateCommits, End, AccountsTypeOK
  <2>3. /\ AuditorRules(row.role, row.email, row.audited)
        /\ Rows = {} => row.username = Protected /\ row.role = "admin" /\ row.active
        BY <1>6 DEF CreateCommits, AccountsInv, RequestsAreSound
  <2>4. \A t \in Request : request[t] # NoRequest /\ request[t].op # "create" =>
          request[t].id < nextId
        BY DEF AccountsInv, RequestsAreSound
  <2>5. CASE Named(row.username) # {}
    <3>1. users' = users /\ Rows' = Rows /\ Rows # {} /\ Named(Protected)' = Named(Protected)
          BY <2>5, <1>6 DEF CreateCommits, Insert, Named, Rows
    <3>2. SystemIsNotLockedOut' /\ AccountsAreWellFormed' /\ NobodyComesFirst'
          BY <3>1, <2>1
          DEF AccountsInv, SystemIsNotLockedOut, AccountsAreWellFormed, NobodyComesFirst, ActiveAdmins
    <3>3. RequestsAreSound'
      <4> SUFFICES ASSUME NEW t \in Request, request'[t] # NoRequest
                   PROVE /\ request'[t].op = "create" =>
                              LET new == request'[t].row
                              IN  /\ AuditorRules(new.role, new.email, new.audited)
                                  /\ Rows' = {} => new.username = Protected /\ new.role = "admin"
                                                   /\ new.active
                         /\ request'[t].op # "create" => request'[t].id < nextId'
                         /\ request'[t].op \in {"deactivate", "delete"} =>
                              request'[t].id \notin Named(Protected)'
          BY DEF RequestsAreSound, AuditorRules
      <4>1. request'[t] = request[t]
            BY <2>2
      <4>2. request[t].op # "create" => request[t].id < nextId + 1
            <5>1. request[t].op # "create" => request[t] \in Login \cup Change
                  BY <1>0, <4>1 DEF AccountsTypeOK, Create
            <5>2. request[t].op # "create" => request[t].id \in Nat
                  BY <5>1, AccountsAssumption DEF Login, Change
            <5> QED BY <2>1, <2>4, <4>1, <5>2
      <4> QED BY <2>1, <3>1, <4>1, <4>2 DEF AccountsInv, RequestsAreSound
    <3> QED BY <1>0, <3>2, <3>3 DEF AccountsInv
  <2>6. CASE Named(row.username) = {}
    <3>1. users' = [users EXCEPT ![nextId] = row]
          BY <2>6, <1>6 DEF CreateCommits, Insert
    <3>2. /\ Rows' = Rows \cup {nextId} /\ nextId \notin Rows /\ users'[nextId] = row
          /\ \A i \in Rows : i \in Id /\ i < nextId /\ users'[i] = users[i]
          BY <1>0, <2>1, <3>1, NoAccountAssumption, AccountsAssumption DEF Rows, AccountsTypeOK
    <3>3. SystemIsNotLockedOut'
          BY <2>3, <3>2 DEF AccountsInv, SystemIsNotLockedOut, ActiveAdmins
    <3>4. AccountsAreWellFormed'
      <4>1. \A i \in Rows : users[i].username # row.username
            BY <2>6 DEF Named
      <4>2. \A i, j \in Rows' : users'[i].username = users'[j].username => i = j
            BY <3>2, <4>1 DEF AccountsInv, AccountsAreWellFormed
      <4>3. \A i \in Rows' : users'[i].role = "auditor" =>
              users'[i].email # NoAddress /\ users'[i].audited # {}
            BY <3>2, <2>3 DEF AccountsInv, AccountsAreWellFormed, AuditorRules
      <4> QED BY <4>2, <4>3 DEF AccountsAreWellFormed
    <3>5. RequestsAreSound'
      <4> SUFFICES ASSUME NEW t \in Request, request'[t] # NoRequest
                   PROVE /\ request'[t].op = "create" =>
                              LET new == request'[t].row
                              IN  /\ AuditorRules(new.role, new.email, new.audited)
                                  /\ Rows' = {} => new.username = Protected /\ new.role = "admin"
                                                   /\ new.active
                         /\ request'[t].op # "create" => request'[t].id < nextId'
                         /\ request'[t].op \in {"deactivate", "delete"} =>
                              request'[t].id \notin Named(Protected)'
          BY DEF RequestsAreSound, AuditorRules
      <4>1. request'[t] = request[t] /\ Rows' # {}
            BY <2>2, <3>2
      <4>2. request[t].op # "create" => request[t].id \in Nat
            <5>1. request[t].op # "create" => request[t] \in Login \cup Change
                  BY <1>0, <4>1 DEF AccountsTypeOK, Create
            <5> QED BY <5>1, AccountsAssumption DEF Login, Change
      <4>3. request[t].op # "create" => request[t].id < nextId + 1 /\ request[t].id # nextId
            BY <2>1, <2>4, <4>1, <4>2
      <4>4. request[t].op # "create" => (request[t].id \in Named(Protected)' => request[t].id \in Named(Protected))
            BY <3>2, <4>3 DEF Named
      <4> QED BY <2>1, <4>1, <4>3, <4>4 DEF AccountsInv, RequestsAreSound
    <3>6. NobodyComesFirst'
          BY <3>2 DEF NobodyComesFirst
    <3> QED BY <1>0, <3>3, <3>4, <3>5, <3>6 DEF AccountsInv
  <2> QED BY <2>5, <2>6
<1>7. ASSUME NEW r \in Request, NEW op \in {"activate", "deactivate", "delete"}, NEW i \in Id,
             ChangeBegins(r, op, i)
      PROVE AccountsInv'
  <2>1. UNCHANGED <<users, nextId, sessions>>
        BY <1>7 DEF ChangeBegins
  <2>2. i < nextId /\ (op # "activate" => i \notin Named(Protected))
        BY <1>0, <1>7, AccountsAssumption DEF ChangeBegins, MayChange, Named, Rows, AccountsTypeOK
  <2>3. /\ request'[r].op = op /\ request'[r].id = i
        /\ \A t \in Request \ {r} : request'[t] = request[t]
        BY <1>0, <1>7 DEF ChangeBegins, AccountsTypeOK
  <2>4. RequestsAreSound'
        BY <2>1, <2>2, <2>3, UnchangedAccountsAreSafe, OneRequestChanges
  <2> QED BY <1>0, <2>1, <2>4, UnchangedAccountsAreSafe DEF AccountsInv, NobodyComesFirst, Rows
<1>8. ASSUME NEW r \in Request, CountAdmins(r) PROVE AccountsInv'
  <2>1. UNCHANGED <<users, nextId, sessions>>
        BY <1>8 DEF CountAdmins
  <2>2. request[r] \in Change
        BY <1>0, <1>8, RequestKinds DEF CountAdmins
  <2>3. /\ \A t \in Request \ {r} : request'[t] = request[t]
        /\ request'[r] # NoRequest => request'[r].op = request[r].op /\ request'[r].id = request[r].id
        BY <1>0, <1>8, <2>2 DEF CountAdmins, AccountsTypeOK, Change
  <2>4. /\ request[r] # NoRequest /\ request[r].op # "create"
        /\ request[r].id < nextId /\ request[r].id \notin Named(Protected)
        BY <1>8 DEF CountAdmins, AccountsInv, RequestsAreSound
  <2>5. RequestsAreSound'
        BY <2>1, <2>3, <2>4, UnchangedAccountsAreSafe, OneRequestChanges
  <2> QED BY <1>0, <2>1, <2>5, UnchangedAccountsAreSafe DEF AccountsInv, NobodyComesFirst, Rows
<1>9. ASSUME NEW r \in Request, ChangeWrites(r) PROVE AccountsInv'
  <2> DEFINE c == request[r].id
  <2>1. request[r] \in Change /\ c \in Id
        BY <1>0, <1>9, RequestKinds DEF ChangeWrites, Change
  <2>2. /\ request'[r] = NoRequest /\ UNCHANGED <<nextId, sessions>>
        /\ \A t \in Request \ {r} : request'[t] = request[t]
        BY <1>0, <1>9 DEF ChangeWrites, End, AccountsTypeOK
  <2>3. /\ Rows' \subseteq Rows
        /\ \A i \in Rows \ {c} : i \in Rows' /\ users'[i] = users[i]
        /\ \A i \in Rows' : /\ users'[i].username = users[i].username
                            /\ users'[i].role = users[i].role /\ users'[i].email = users[i].email
                            /\ users'[i].audited = users[i].audited
        BY <1>0, <2>1, <1>9, NoAccountAssumption DEF ChangeWrites, AccountsTypeOK, Rows, Account
  <2>4. \A i \in Named(Protected) \cap ActiveAdmins : i \in Named(Protected)' \cap ActiveAdmins'
    <3>1. CASE request[r].op = "activate"
      <4>1. \/ users' = users
            \/ users[c] # NoRow /\ users' = [users EXCEPT ![c].active = TRUE]
            BY <3>1, <1>9 DEF ChangeWrites
      <4>2. users[c] # NoRow => users[c] \in Account
            BY <1>0, <2>1 DEF AccountsTypeOK
      <4>3. [users EXCEPT ![c].active = TRUE] = [users EXCEPT ![c] = [users[c] EXCEPT !.active = TRUE]]
            OBVIOUS
      <4>4. users[c] # NoRow => [users[c] EXCEPT !.active = TRUE] \in Account
            BY <4>2 DEF Account
      <4>5. \A i \in Rows : /\ i \in Rows' /\ users'[i].username = users[i].username
                            /\ users'[i].role = users[i].role
                            /\ users[i].active => users'[i].active
            BY <1>0, <4>1, <4>2, <4>3, <4>4, <2>1, NoAccountAssumption
            DEF AccountsTypeOK, Rows, Account
      <4> QED BY <4>5 DEF Named, ActiveAdmins
    <3>2. CASE request[r].op # "activate"
      <4>1. c \notin Named(Protected)
            BY <3>2, <1>9 DEF ChangeWrites, AccountsInv, RequestsAreSound
      <4> QED BY <2>3, <4>1 DEF Named, ActiveAdmins
    <3> QED BY <3>1, <3>2
  <2>5. SystemIsNotLockedOut' /\ (Rows # {} => Rows' # {})
        BY <2>3, <2>4 DEF AccountsInv, SystemIsNotLockedOut, ActiveAdmins, Named
  <2>6. AccountsAreWellFormed' /\ Named(Protected)' \subseteq Named(Protected)
        BY <2>3 DEF AccountsInv, AccountsAreWellFormed, Named
  <2>7. RequestsAreSound'
    <3>1. Rows' = {} <=> Rows = {}
          BY <2>3, <2>5
    <3> SUFFICES ASSUME NEW t \in Request, request'[t] # NoRequest
                 PROVE /\ request'[t].op = "create" =>
                            LET new == request'[t].row
                            IN  /\ AuditorRules(new.role, new.email, new.audited)
                                /\ Rows' = {} => new.username = Protected /\ new.role = "admin"
                                                 /\ new.active
                       /\ request'[t].op # "create" => request'[t].id < nextId'
                       /\ request'[t].op \in {"deactivate", "delete"} =>
                            request'[t].id \notin Named(Protected)'
        BY DEF RequestsAreSound, AuditorRules
    <3>2. request'[t] = request[t]
          BY <2>2
    <3> QED BY <2>2, <2>6, <3>1, <3>2 DEF AccountsInv, RequestsAreSound
  <2>8. NobodyComesFirst'
        BY <2>2, <2>5 DEF AccountsInv, NobodyComesFirst
  <2> QED BY <1>0, <2>5, <2>6, <2>7, <2>8 DEF AccountsInv
<1>10. ASSUME NEW i \in Rows, NEW row \in Account, Edit(i, row),
              row.username = users[i].username, row.role = users[i].role,
              row.active = users[i].active,
              row.role = "auditor" => row.email # NoAddress /\ row.audited # {}
       PROVE AccountsInv'
  <2>1. users' = [users EXCEPT ![i] = row] /\ UNCHANGED <<nextId, sessions, request>>
        BY <1>10 DEF Edit
  <2>2. row # NoRow
        BY NoAccountAssumption
  <2>3. SameAccounts
        BY <1>0, <1>10, <2>1, <2>2 DEF SameAccounts, AccountsTypeOK, Rows
  <2>4. \A j \in Rows : users[j].role = "auditor" =>
          users'[j].email # NoAddress /\ users'[j].audited # {}
        BY <1>0, <1>10, <2>1 DEF AccountsInv, AccountsAreWellFormed, AccountsTypeOK, Rows
  <2>5. RequestsAreSound' /\ NobodyComesFirst'
        BY <2>1, <2>3, <2>4, SameAccountsAreSafe
        DEF SameAccounts, AccountsInv, RequestsAreSound, NobodyComesFirst, AuditorRules
  <2> QED BY <1>0, <2>3, <2>4, <2>5, SameAccountsAreSafe DEF AccountsInv
<1>11. \A i \in Rows : users[i] \in Account
       BY <1>0 DEF AccountsTypeOK, Rows
<1>12. \A i \in Rows : users[i].role = "auditor" => users[i].email # NoAddress /\ users[i].audited # {}
       BY DEF AccountsInv, AccountsAreWellFormed
<1>13. ASSUME NEW i \in Id, NEW p \in Password, SetPassword(i, p) PROVE AccountsInv'
       BY <1>10, <1>11, <1>12, <1>13 DEF SetPassword, Account
<1>14. ASSUME NEW i \in Id, NEW old \in Password, NEW new \in Password,
              ChangeOwnPassword(i, old, new)
       PROVE AccountsInv'
       BY <1>10, <1>11, <1>12, <1>14 DEF ChangeOwnPassword, Account
<1>15. ASSUME NEW i \in Id, NEW e \in Address \cup {NoAddress}, SetEmail(i, e)
       PROVE AccountsInv'
  <2> DEFINE row == [users[i] EXCEPT !.email = e]
  <2>1. i \in Rows /\ Edit(i, row) /\ users[i] \in Account
        BY <1>11, <1>15 DEF SetEmail
  <2>2. /\ row \in Account /\ row.username = users[i].username /\ row.role = users[i].role
        /\ row.active = users[i].active /\ row.email = e /\ row.audited = users[i].audited
        BY <2>1 DEF Account
  <2>3. row.role = "auditor" => row.email # NoAddress /\ row.audited # {}
        BY <2>1, <2>2, <1>12, <1>15 DEF SetEmail
  <2> HIDE DEF row
  <2> QED BY <2>1, <2>2, <2>3, <1>10
<1>16. ASSUME NEW i \in Id, NEW audited \in SUBSET Address, SetAuditedEmails(i, audited)
       PROVE AccountsInv'
  <2> DEFINE row == [users[i] EXCEPT !.audited = LowerAll(audited)]
  <2>1. i \in Rows /\ Edit(i, row) /\ users[i] \in Account
        BY <1>11, <1>16 DEF SetAuditedEmails
  <2>2. LowerAll(audited) # {} /\ LowerAll(audited) \in SUBSET Address
        BY <1>16, LoweredAreAddresses DEF SetAuditedEmails
  <2>3. /\ row \in Account /\ row.username = users[i].username /\ row.role = users[i].role
        /\ row.active = users[i].active /\ row.email = users[i].email
        /\ row.audited = LowerAll(audited)
        BY <2>1, <2>2 DEF Account
  <2>4. row.role = "auditor" => row.email # NoAddress /\ row.audited # {}
        BY <2>1, <2>2, <2>3, <1>12
  <2> HIDE DEF row
  <2> QED BY <2>1, <2>3, <2>4, <1>10
<1>17. CASE ClockTicks
  <2>1. UNCHANGED <<users, nextId, request>> /\ sessions' \subseteq sessions
        BY <1>17 DEF ClockTicks
  <2>2. RequestsAreSound' /\ NobodyComesFirst'
        BY <2>1 DEF AccountsInv, RequestsAreSound, NobodyComesFirst, Rows, Named, AuditorRules
  <2> QED BY <1>0, <2>1, <2>2, UnchangedAccountsAreSafe DEF AccountsInv
<1>18. CASE UNCHANGED accountVars
  <2>1. UNCHANGED <<users, nextId, request, sessions>>
        BY <1>18 DEF accountVars
  <2>2. RequestsAreSound' /\ NobodyComesFirst'
        BY <2>1 DEF AccountsInv, RequestsAreSound, NobodyComesFirst, Rows, Named, AuditorRules
  <2> QED BY <1>0, <2>1, <2>2, UnchangedAccountsAreSafe DEF AccountsInv
<1> QED BY <1>1, <1>2, <1>3, <1>4, <1>5, <1>6, <1>7, <1>8, <1>9, <1>13, <1>14, <1>15, <1>16,
           <1>17, <1>18 DEF AccountsNext

LEMMA AccountsInvariant == AccountsSpec => []AccountsInv
  BY AccountsInitially, AccountsKept, PTL DEF AccountsSpec

\* The table, the tokens and the requests under way keep their types.
THEOREM AccountsTypeCorrect == AccountsSpec => []AccountsTypeOK
  BY AccountsInvariant, PTL DEF AccountsInv

\* There is always an active administrator, for any number of concurrent requests
\* and of administrators, local or of the directory.
THEOREM NobodyIsLockedOut == AccountsSpec => []SystemIsNotLockedOut
  BY AccountsInvariant, PTL DEF AccountsInv

\* Names are unique and auditors have their addresses.
THEOREM AccountsStayWellFormed == AccountsSpec => []AccountsAreWellFormed
  BY AccountsInvariant, PTL DEF AccountsInv

\* The three places that decide who sees a mail agree, whatever str.lower does.
THEOREM AccessIsConsistent == AccountsSpec => []AccessPathsAgree
<1>1. ASSUME NEW s \in Session, NEW parties \in SUBSET Address
      PROVE  LET scope == ScopeAddresses(s) IN
               /\ EventVisible(parties, s) <=> CanAccess(parties, scope)
               /\ SearchMatches(parties, scope) => CanAccess(parties, scope)
  <2> DEFINE scope == ScopeAddresses(s)
  <2>1. s.role \in Role /\ s.audited \in SUBSET Address /\ {s.email} \cap Address \in SUBSET Address
        BY DEF Session
  <2>2. scope = Everything \/ \E addrs \in SUBSET Address : scope = LowerAll(addrs)
        BY <2>1 DEF ScopeAddresses, Role
  <2>3. CASE scope = Everything
        BY <2>3 DEF EventVisible, CanAccess, SearchMatches
  <2>4. ASSUME NEW addrs \in SUBSET Address, scope = LowerAll(addrs)
        PROVE  /\ EventVisible(parties, s) <=> CanAccess(parties, scope)
               /\ SearchMatches(parties, scope) => CanAccess(parties, scope)
    <3>1. LowerAll(scope) = scope
          BY <2>4, LowerAssumption DEF LowerAll
    <3>2. scope \cap parties \subseteq scope \cap LowerAll(parties)
          BY <2>4, LowerAssumption DEF LowerAll
    <3> QED BY <3>1, <3>2 DEF EventVisible, CanAccess, SearchMatches
  <2> QED BY <2>2, <2>3, <2>4
<1>2. AccountsTypeOK => AccessPathsAgree
      BY <1>1 DEF AccountsTypeOK, AccessPathsAgree
<1> QED BY <1>2, AccountsTypeCorrect, PTL

-----------------------------------------------------------------------------
(* Accounts: how long access lasts                                         *)

\* Of an active account now is the last time it was active; a login under way
\* has seen its account active at most a tick ago.
TimesInv ==
  /\ \A i \in Id : /\ lastActive[i] <= now
                   /\ i \in Rows /\ users[i].active => lastActive[i] = now
  /\ \A r \in Request : request[r] # NoRequest /\ request[r].op = "login" =>
       now <= request[r].since + 1 /\ request[r].since <= lastActive[request[r].id]
  /\ AccessEndsInTime

\* What a step may do between two ticks.
LEMMA TimesFrame ==
  ASSUME AccountsTypeOK, AccountsTypeOK', TimesInv, now' = now,
         \A i \in Id : /\ lastActive'[i] \in {now, lastActive[i]}
                       /\ i \in Rows' /\ users'[i].active => lastActive'[i] = now,
         \A r \in Request : \/ request'[r] \in {request[r], NoRequest} \/ request'[r].op # "login"
                            \/ request'[r].since = now /\ lastActive[request'[r].id] = now,
         \A t \in sessions' \ sessions : t.id # 0 => t.exp <= lastActive[t.id] + 1 + SessionTTL
  PROVE  TimesInv'
<1> USE AccountsAssumption
<1>1. \A i \in Id : lastActive[i] \in Nat /\ lastActive'[i] \in Nat /\ lastActive[i] <= lastActive'[i]
                    /\ lastActive'[i] <= now
      BY DEF AccountsTypeOK, TimesInv
<1>2. ASSUME NEW r \in Request, request'[r] # NoRequest, request'[r].op = "login"
      PROVE  now <= request'[r].since + 1 /\ request'[r].since <= lastActive'[request'[r].id]
  <2>1. request'[r] \in Login
        BY <1>2 DEF AccountsTypeOK, Login, Create, Change
  <2>2. request'[r].since \in Nat /\ request'[r].id \in Id
        BY <2>1 DEF Login
  <2>3. CASE request'[r] = request[r]
    <3> DEFINE i == request'[r].id
               since == request'[r].since
    <3>1. now <= since + 1 /\ since <= lastActive[i]
          BY <1>2, <2>3 DEF TimesInv
    <3>2. lastActive[i] <= lastActive'[i] /\ lastActive[i] \in Nat /\ lastActive'[i] \in Nat
          BY <1>1, <2>2
    <3>3. since \in Nat
          BY <2>2
    <3> HIDE DEF i, since
    <3>4. since <= lastActive'[i]
          BY <3>1, <3>2, <3>3
    <3> QED BY <3>1, <3>4 DEF i, since
  <2>4. CASE request'[r].since = now /\ lastActive[request'[r].id] = now
    <3> DEFINE i == request'[r].id
    <3>1. lastActive[i] <= lastActive'[i] /\ now \in Nat
          BY <1>1, <2>2 DEF AccountsTypeOK
    <3> QED BY <2>4, <3>1
  <2> QED BY <1>2, <2>3, <2>4
<1>3. ASSUME NEW t \in sessions', t.id # 0
      PROVE  t.exp <= lastActive'[t.id] + 1 + SessionTTL
  <2>1. t.id \in Id /\ t.exp \in Nat
        BY <1>3 DEF AccountsTypeOK, Session
  <2>2. t.exp <= lastActive[t.id] + 1 + SessionTTL
        BY <1>3 DEF TimesInv, AccessEndsInTime
  <2>3. /\ lastActive[t.id] \in Nat /\ lastActive'[t.id] \in Nat /\ SessionTTL \in Nat
        /\ lastActive[t.id] <= lastActive'[t.id]
        BY <1>1, <2>1
  <2> QED BY <2>1, <2>2, <2>3
<1> QED BY <1>1, <1>2, <1>3 DEF TimesInv, AccessEndsInTime

LEMMA TimesInitially == AccountsInit => TimesInv
  BY AccountsAssumption DEF AccountsInit, TimesInv, AccessEndsInTime, Rows

\* A session opened by a login on an account that was active a tick ago.
LEMMA IssuedInTime ==
  ASSUME AccountsTypeOK, NEW i \in Id, NEW row, Issue(i, row), now <= lastActive[i] + 1
  PROVE  \A t \in sessions' \ sessions : t.id # 0 => t.exp <= lastActive[t.id] + 1 + SessionTTL
  BY AccountsAssumption DEF AccountsTypeOK, Issue

LEMMA DirectoryIssues ==
  ASSUME NEW name, LdapAnswers(name)
  PROVE  \A t \in sessions' \ sessions : t.id # 0 => t.exp <= lastActive[t.id] + 1 + SessionTTL
  BY DEF LdapAnswers, Issue

LEMMA TimesKept ==
  AccountsInv /\ AccountsInv' /\ TimesInv /\ [AccountsNext]_accountVars => TimesInv'
<1> SUFFICES ASSUME AccountsInv, AccountsInv', TimesInv, [AccountsNext]_accountVars
             PROVE  TimesInv'
    OBVIOUS
<1> USE AccountsAssumption, NoAccountAssumption
<1>0. AccountsTypeOK /\ AccountsTypeOK'
      BY DEF AccountsInv
<1>a. \A i \in Id : i \in Rows /\ users[i].active => lastActive[i] = now
      BY DEF TimesInv
<1>1. ASSUME NEW name \in Username, LoginUnknown(name) PROVE TimesInv'
  <2>1. UNCHANGED <<users, request, now, lastActive>>
        BY <1>1 DEF LoginUnknown, historyVars
  <2> QED BY <1>0, <1>a, <1>1, <2>1, DirectoryIssues, TimesFrame DEF LoginUnknown, Rows
<1>2. ASSUME NEW r \in Request, NEW name \in Username, NEW p \in Password \cup {WrongPassword},
             LoginReads(r, name, p)
      PROVE TimesInv'
  <2>1. UNCHANGED <<users, now, lastActive>>
        BY <1>2 DEF LoginReads
  <2>2. PICK i \in SelectAccount(name) :
             \/ Issue(i, users[i]) /\ UNCHANGED request
             \/ /\ request' = [request EXCEPT ![r] =
                     [op |-> "login", id |-> i, row |-> users[i], ok |-> p = users[i].password,
                      since |-> now]]
                /\ UNCHANGED sessions
        BY <1>2 DEF LoginReads
  <2>3. i \in Id /\ lastActive[i] = now /\ now \in Nat
        BY <1>0, <1>a DEF SelectAccount, Named, Rows, AccountsTypeOK
  <2>4. \A t \in Request : \/ request'[t] = request[t]
                           \/ request'[t].since = now /\ lastActive[request'[t].id] = now
        BY <1>0, <2>2, <2>3 DEF AccountsTypeOK
  <2>5. \A t \in sessions' \ sessions : t.id # 0 => t.exp <= lastActive[t.id] + 1 + SessionTTL
    <3>1. CASE UNCHANGED sessions
          BY <3>1
    <3>2. CASE Issue(i, users[i])
      <4>1. now <= lastActive[i] + 1
            BY <2>3
      <4> QED BY <1>0, <2>3, <3>2, <4>1, IssuedInTime
    <3> QED BY <2>2, <3>1, <3>2
  <2> QED BY <1>0, <1>a, <2>1, <2>4, <2>5, TimesFrame DEF Rows
<1>3. ASSUME NEW r \in Request, LoginWrites(r) PROVE TimesInv'
  <2> DEFINE q == request[r]
  <2>1. q \in Login /\ q.row \in Account /\ q.id \in Id /\ q.since \in Nat
        BY <1>0, <1>3, RequestKinds DEF LoginWrites, Login
  <2>2. /\ UNCHANGED <<now, lastActive>>
        /\ \A t \in Request : request'[t] \in {request[t], NoRequest}
        BY <1>0, <1>3 DEF LoginWrites, End, AccountsTypeOK
  <2>3. now <= lastActive[q.id] + 1
    <3>1. now <= q.since + 1 /\ q.since <= lastActive[q.id]
          BY <1>3 DEF LoginWrites, TimesInv
    <3>2. now \in Nat /\ lastActive[q.id] \in Nat
          BY <1>0, <2>1 DEF AccountsTypeOK
    <3> HIDE DEF q
    <3> QED BY <2>1, <3>1, <3>2
  <2>4. \A t \in sessions' \ sessions : t.id # 0 => t.exp <= lastActive[t.id] + 1 + SessionTTL
        BY <1>0, <1>3, <2>1, <2>3, IssuedInTime, DirectoryIssues DEF LoginWrites
  <2>5. \A i \in Id : i \in Rows' /\ users'[i].active => i \in Rows /\ users[i].active
    <3>1. CASE users[q.id] = NoRow
          BY <3>1, <1>3 DEF LoginWrites, Rows
    <3>2. CASE users[q.id] # NoRow
      <4>1. q.id \in Rows /\ (Wrong(q.id, q.row, q.since) \/ Right(q.id, q.row))
            BY <2>1, <3>2, <1>3 DEF LoginWrites, Rows
      <4>2. Rows' = Rows
            BY <1>0, <2>1, <4>1, CountersKeepTypes DEF Rows
      <4> QED BY <1>0, <2>1, <4>1, <4>2, CountersOnly
    <3> QED BY <3>1, <3>2
  <2> QED BY <1>0, <1>a, <2>2, <2>4, <2>5, TimesFrame
<1>4. ASSUME NEW r \in Request, UNCHANGED <<users, sessions, now, lastActive>>,
             \A t \in Request \ {r} : request'[t] = request[t],
             request'[r] = NoRequest \/ request'[r].op # "login"
      PROVE TimesInv'
      BY <1>0, <1>a, <1>4, TimesFrame DEF Rows
<1>5. ASSUME NEW r \in Request, SeedBegins(r) PROVE TimesInv'
      BY <1>0, <1>4, <1>5 DEF SeedBegins, historyVars, AccountsTypeOK
<1>6. ASSUME NEW r \in Request, NEW name \in Username, NEW role \in Role,
             NEW e \in Address \cup {NoAddress}, NEW audited \in SUBSET Address,
             CreateBegins(r, name, role, e, audited)
      PROVE TimesInv'
      BY <1>0, <1>4, <1>6 DEF CreateBegins, historyVars, AccountsTypeOK
<1>7. ASSUME NEW r \in Request, NEW op \in {"activate", "deactivate", "delete"}, NEW i \in Id,
             ChangeBegins(r, op, i)
      PROVE TimesInv'
      BY <1>0, <1>4, <1>7 DEF ChangeBegins, historyVars, AccountsTypeOK
<1>8. ASSUME NEW r \in Request, CountAdmins(r) PROVE TimesInv'
  <2>1. request[r] \in Change
        BY <1>0, <1>8, RequestKinds DEF CountAdmins
  <2>2. request'[r] = NoRequest \/ request'[r].op # "login"
        BY <1>0, <1>8, <2>1 DEF CountAdmins, Change, AccountsTypeOK
  <2> QED BY <1>0, <1>4, <1>8, <2>2 DEF CountAdmins, historyVars, AccountsTypeOK
<1>9. ASSUME NEW r \in Request, CreateCommits(r) PROVE TimesInv'
  <2>1. /\ now' = now /\ sessions' = sessions
        /\ \A t \in Request : request'[t] \in {request[t], NoRequest}
        BY <1>0, <1>9 DEF CreateCommits, End, AccountsTypeOK
  <2>2. \A i \in Id : /\ lastActive'[i] \in {now, lastActive[i]}
                      /\ i \in Rows' /\ users'[i].active => lastActive'[i] = now
        BY <1>0, <1>a, <1>9 DEF CreateCommits, Insert, AccountsTypeOK, Rows
  <2> QED BY <1>0, <2>1, <2>2, TimesFrame
<1>10. ASSUME NEW r \in Request, ChangeWrites(r) PROVE TimesInv'
  <2>1. /\ now' = now /\ sessions' = sessions
        /\ \A t \in Request : request'[t] \in {request[t], NoRequest}
        BY <1>0, <1>10 DEF ChangeWrites, End, AccountsTypeOK
  <2>2. \A i \in Id : /\ lastActive'[i] \in {now, lastActive[i]}
                      /\ i \in Rows' /\ users'[i].active => lastActive'[i] = now
        BY <1>0, <1>10 DEF ChangeWrites, AccountsTypeOK, Rows
  <2> QED BY <1>0, <2>1, <2>2, TimesFrame
<1>11. ASSUME NEW i \in Rows, NEW row, Edit(i, row), row.active = users[i].active PROVE TimesInv'
  <2>1. \A j \in Id : j \in Rows' /\ users'[j].active => j \in Rows /\ users[j].active
        BY <1>0, <1>11 DEF Edit, Rows, AccountsTypeOK
  <2> QED BY <1>0, <1>a, <1>11, <2>1, TimesFrame DEF Edit, historyVars
<1>12. \A i \in Rows : users[i] \in Account
       BY <1>0 DEF AccountsTypeOK, Rows
<1>13. ASSUME NEW i \in Id, NEW p \in Password, SetPassword(i, p) PROVE TimesInv'
       BY <1>11, <1>12, <1>13 DEF SetPassword, Account
<1>14. ASSUME NEW i \in Id, NEW old \in Password, NEW new \in Password,
              ChangeOwnPassword(i, old, new)
       PROVE TimesInv'
       BY <1>11, <1>12, <1>14 DEF ChangeOwnPassword, Account
<1>15. ASSUME NEW i \in Id, NEW e \in Address \cup {NoAddress}, SetEmail(i, e) PROVE TimesInv'
       BY <1>11, <1>12, <1>15 DEF SetEmail, Account
<1>16. ASSUME NEW i \in Id, NEW audited \in SUBSET Address, SetAuditedEmails(i, audited)
       PROVE TimesInv'
       BY <1>11, <1>12, <1>16 DEF SetAuditedEmails, Account
<1>17. CASE ClockTicks
  <2> USE <1>17 DEF ClockTicks
  <2>1. now' = now + 1 /\ now \in Nat /\ UNCHANGED <<users, request>> /\ sessions' \subseteq sessions
        BY <1>0 DEF AccountsTypeOK
  <2>2. \A i \in Id : /\ lastActive[i] \in Nat /\ lastActive[i] <= lastActive'[i]
                      /\ lastActive'[i] <= now' /\ lastActive'[i] \in Nat
                      /\ i \in Rows' /\ users'[i].active => lastActive'[i] = now'
        BY <1>0, <2>1 DEF AccountsTypeOK, TimesInv, Rows
  <2>3. ASSUME NEW r \in Request, request[r] # NoRequest, request[r].op = "login"
        PROVE  now' <= request[r].since + 1 /\ request[r].since <= lastActive'[request[r].id]
    <3>1. request[r] \in Login /\ request[r].since = now
          BY <1>0, <2>3, RequestKinds DEF RequestsAreShort
    <3>2. request[r].id \in Id /\ request[r].since <= lastActive[request[r].id]
          BY <2>3, <3>1 DEF Login, TimesInv
    <3> QED BY <2>1, <2>2, <3>1, <3>2
  <2>4. ASSUME NEW t \in sessions', t.id # 0
        PROVE  t.exp <= lastActive'[t.id] + 1 + SessionTTL
    <3>1. t.id \in Id /\ t.exp \in Nat /\ t \in sessions
          BY <1>0, <2>1, <2>4 DEF AccountsTypeOK, Session
    <3>2. t.exp <= lastActive[t.id] + 1 + SessionTTL
          BY <2>4, <3>1 DEF TimesInv, AccessEndsInTime
    <3>3. lastActive[t.id] <= lastActive'[t.id] /\ lastActive[t.id] \in Nat /\ lastActive'[t.id] \in Nat
          BY <2>2, <3>1
    <3> DEFINE before == lastActive[t.id]
               after == lastActive'[t.id]
    <3> HIDE DEF before, after
    <3>4. before \in Nat /\ after \in Nat /\ before <= after /\ t.exp <= before + 1 + SessionTTL
          BY <3>2, <3>3 DEF before, after
    <3>5. t.exp <= after + 1 + SessionTTL
          BY <3>1, <3>4
    <3> QED BY <3>5 DEF after
  <2> QED BY <2>1, <2>2, <2>3, <2>4 DEF TimesInv, AccessEndsInTime
<1>18. CASE UNCHANGED accountVars
       BY <1>18 DEF accountVars, historyVars, TimesInv, AccessEndsInTime, Rows
<1> QED BY <1>1, <1>2, <1>3, <1>5, <1>6, <1>7, <1>8, <1>9, <1>10, <1>13, <1>14, <1>15, <1>16,
           <1>17, <1>18 DEF AccountsNext

\* A session of an account that was taken away ends within the lifetime of a token.
THEOREM AccessEnds == AccountsSpec => []AccessEndsInTime
<1>1. TimesInv => AccessEndsInTime
      BY DEF TimesInv
<1> QED BY <1>1, AccountsInvariant, TimesInitially, TimesKept, PTL DEF AccountsSpec

-----------------------------------------------------------------------------
(* Accounts: the failures that are counted                                 *)

IsLogin(r, i) == request[r] # NoRequest /\ request[r].op = "login" /\ request[r].id = i

\* A login that is alone on its account has read the counter as it still is.
CountersInv ==
  /\ SequentialFailuresCount
  /\ \A i \in Id : i >= nextId => streak[i] = 0
  /\ \A r \in Request, i \in Rows :
       IsLogin(r, i) /\ ~overlapped[i] => request[r].row.failed = users[i].failed
  /\ \A r, t \in Request, i \in Id : IsLogin(r, i) /\ IsLogin(t, i) /\ r # t => overlapped[i]

LEMMA IdsAreOrdered == \A i \in Id : i >= i
<1>1. Id \subseteq Nat
      BY AccountsAssumption
<1>2. \A n \in Nat : n >= n
      OBVIOUS
<1> QED BY <1>1, <1>2, Zenon

LEMMA CountersInitially == AccountsInit => CountersInv
  BY DEF AccountsInit, CountersInv, SequentialFailuresCount, IsLogin, Rows

\* A step that starts no login and counts nothing.
LEMMA CountersFrame ==
  ASSUME AccountsTypeOK, CountersInv, UNCHANGED <<nextId, streak, overlapped>>,
         \A i \in Rows' : i \in Rows /\ users'[i].failed = users[i].failed,
         \A r \in Request : request'[r] \in {request[r], NoRequest} \/ request'[r].op # "login"
  PROVE  CountersInv'
<1>1. SequentialFailuresCount'
      BY DEF CountersInv, SequentialFailuresCount
<1>2. \A r \in Request, i \in Id : IsLogin(r, i)' => IsLogin(r, i) /\ request'[r] = request[r]
      BY DEF IsLogin
<1>3. \A r \in Request, i \in Rows' :
        IsLogin(r, i)' /\ ~overlapped'[i] => request'[r].row.failed = users'[i].failed
      BY <1>2 DEF CountersInv, Rows
<1>4. \A r, t \in Request, i \in Id : IsLogin(r, i)' /\ IsLogin(t, i)' /\ r # t => overlapped'[i]
      BY <1>2 DEF CountersInv
<1> QED BY <1>1, <1>3, <1>4 DEF CountersInv

\* A wrong answer on an account whose counter is exact.
LEMMA WrongCounts ==
  ASSUME AccountsTypeOK, NEW i \in Rows, NEW row \in Account, NEW since \in Nat,
         Wrong(i, row, since), row.failed = users[i].failed, users[i].failed = streak[i]
  PROVE  users'[i].failed = streak'[i] /\ streak'[i] < MaxAttempts
<1> USE AccountsAssumption
<1>1. i \in Id /\ users[i] \in Account /\ streak[i] \in Nat /\ row.failed \in Nat
      BY DEF AccountsTypeOK, Rows, Account
<1>2. CASE row.failed + 1 >= MaxAttempts
  <2>1. users' = [users EXCEPT ![i].lockedUntil = since + Lockout, ![i].failed = 0]
        BY <1>2 DEF Wrong
  <2>2. streak' = [streak EXCEPT ![i] = 0]
        BY <1>2 DEF Wrong
  <2> QED BY <2>1, <2>2, <1>1 DEF AccountsTypeOK, Account
<1>3. CASE ~(row.failed + 1 >= MaxAttempts)
  <2>1. users' = [users EXCEPT ![i].failed = row.failed + 1]
        BY <1>3 DEF Wrong
  <2>2. streak' = [streak EXCEPT ![i] = streak[i] + 1]
        BY <1>3 DEF Wrong
  <2>3. users'[i].failed = row.failed + 1
        BY <2>1, <1>1 DEF AccountsTypeOK, Account
  <2>4. streak'[i] = streak[i] + 1
        BY <2>2, <1>1 DEF AccountsTypeOK
  <2> QED BY <2>3, <2>4, <1>1, <1>3
<1> QED BY <1>2, <1>3

LEMMA RightResets ==
  ASSUME AccountsTypeOK, NEW i \in Rows, NEW row \in Account,
         Right(i, row), row.failed = users[i].failed
  PROVE  users'[i].failed = 0 /\ streak'[i] = 0
<1>1. i \in Id /\ users[i] \in Account
      BY DEF AccountsTypeOK, Rows
<1>2. PICK f, l : /\ users' = [users EXCEPT ![i].failed = f, ![i].lockedUntil = l]
                  /\ f = IF row.failed # 0 THEN 0 ELSE users[i].failed
      BY <1>1 DEF Right, AccountsTypeOK
<1>3. f = 0
      BY <1>2
<1> QED BY <1>1, <1>2, <1>3 DEF Right, AccountsTypeOK, Account

LEMMA OthersNotCounted ==
  ASSUME AccountsTypeOK, NEW i \in Rows, NEW row \in Account, NEW since \in Nat,
         Wrong(i, row, since) \/ Right(i, row)
  PROVE  \A j \in Id \ {i} : users'[j] = users[j] /\ streak'[j] = streak[j]
  BY DEF Wrong, Right, AccountsTypeOK

LEMMA CountersKept ==
  AccountsInv /\ AccountsInv' /\ CountersInv /\ [AccountsNext]_accountVars => CountersInv'
<1> SUFFICES ASSUME AccountsInv, AccountsInv', CountersInv, [AccountsNext]_accountVars
             PROVE  CountersInv'
    OBVIOUS
<1> USE AccountsAssumption, NoAccountAssumption
<1>0. AccountsTypeOK /\ AccountsTypeOK'
      BY DEF AccountsInv
<1>1. ASSUME NEW name \in Username, LoginUnknown(name) PROVE CountersInv'
      BY <1>0, <1>1, CountersFrame DEF LoginUnknown, historyVars, Rows
<1>2. ASSUME NEW r \in Request, NEW name \in Username, NEW p \in Password \cup {WrongPassword},
             LoginReads(r, name, p)
      PROVE CountersInv'
  <2>1. UNCHANGED <<users, nextId, streak>> /\ request[r] = NoRequest /\ Rows' = Rows
        BY <1>2 DEF LoginReads, Rows
  <2>2. PICK i \in SelectAccount(name) :
          /\ overlapped' = [overlapped EXCEPT ![i] = @ \/ LoginsOn(i) # {}]
          /\ \/ UNCHANGED request
             \/ request' = [request EXCEPT ![r] =
                     [op |-> "login", id |-> i, row |-> users[i], ok |-> p = users[i].password,
                      since |-> now]]
        BY <1>2 DEF LoginReads
  <2>3. i \in Rows /\ i \in Id
        BY DEF SelectAccount, Named, Rows
  <2>4. /\ \A j \in Id : overlapped[j] => overlapped'[j]
        /\ LoginsOn(i) # {} => overlapped'[i]
        BY <1>0, <2>2, <2>3, Zenon DEF AccountsTypeOK
  <2>5. \A t \in Request, j \in Id : IsLogin(t, j)' =>
           \/ IsLogin(t, j) /\ request'[t] = request[t]
           \/ t = r /\ j = i /\ request'[t].row = users[i]
        BY <1>0, <2>2 DEF IsLogin, AccountsTypeOK
  <2>6. SequentialFailuresCount'
        BY <2>1, <2>4 DEF CountersInv, SequentialFailuresCount, Rows
  <2>7. \A t \in Request, j \in Rows' :
          IsLogin(t, j)' /\ ~overlapped'[j] => request'[t].row.failed = users'[j].failed
        BY <2>1, <2>4, <2>5 DEF CountersInv, Rows
  <2>8. \A t, u \in Request, j \in Id : IsLogin(t, j)' /\ IsLogin(u, j)' /\ t # u => overlapped'[j]
    <3> SUFFICES ASSUME NEW t \in Request, NEW u \in Request, NEW j \in Id,
                        IsLogin(t, j)', IsLogin(u, j)', t # u
                 PROVE  overlapped'[j]
        OBVIOUS
    <3>1. CASE IsLogin(t, j) /\ IsLogin(u, j)
          BY <2>4, <3>1 DEF CountersInv
    <3>2. CASE ~(IsLogin(t, j) /\ IsLogin(u, j))
      <4>1. j = i /\ \E v \in Request : IsLogin(v, i)
            BY <2>5, <3>2
      <4> QED BY <2>4, <4>1 DEF LoginsOn, IsLogin
    <3> QED BY <3>1, <3>2
  <2> QED BY <2>1, <2>6, <2>7, <2>8 DEF CountersInv
<1>3. ASSUME NEW r \in Request, LoginWrites(r) PROVE CountersInv'
  <2> DEFINE q == request[r]
             i == q.id
  <2>1. q \in Login /\ q.row \in Account /\ i \in Id /\ q.since \in Nat
        BY <1>0, <1>3, RequestKinds DEF LoginWrites, Login
  <2>2. /\ UNCHANGED <<nextId, overlapped>> /\ request'[r] = NoRequest
        /\ \A t \in Request \ {r} : request'[t] = request[t]
        BY <1>0, <1>3 DEF LoginWrites, End, AccountsTypeOK
  <2>3. CASE users[i] = NoRow
        BY <1>0, <1>3, <2>2, <2>3, CountersFrame DEF LoginWrites, Rows
  <2>4. CASE users[i] # NoRow
    <3>1. i \in Rows /\ (Wrong(i, q.row, q.since) \/ Right(i, q.row))
          BY <2>1, <2>4, <1>3 DEF LoginWrites, Rows
    <3>2. Rows' = Rows
          BY <1>0, <2>1, <3>1, CountersKeepTypes DEF Rows
    <3>3. \A j \in Id \ {i} : users'[j] = users[j] /\ streak'[j] = streak[j]
          BY <1>0, <2>1, <3>1, OthersNotCounted
    <3>4. ~overlapped[i] =>
            /\ users'[i].failed = streak'[i] /\ streak'[i] < MaxAttempts
            /\ \A t \in Request \ {r} : ~IsLogin(t, i)
      <4> SUFFICES ASSUME ~overlapped[i]
                   PROVE  /\ users'[i].failed = streak'[i] /\ streak'[i] < MaxAttempts
                          /\ \A t \in Request \ {r} : ~IsLogin(t, i)
          OBVIOUS
      <4>1. IsLogin(r, i)
            BY <1>3 DEF LoginWrites, IsLogin
      <4>2. q.row.failed = users[i].failed /\ users[i].failed = streak[i]
            BY <3>1, <4>1 DEF CountersInv, SequentialFailuresCount
      <4>3. users'[i].failed = streak'[i] /\ streak'[i] < MaxAttempts
            BY <1>0, <2>1, <3>1, <4>2, WrongCounts, RightResets
      <4>4. \A t \in Request \ {r} : ~IsLogin(t, i)
            BY <2>1, <4>1 DEF CountersInv
      <4> QED BY <4>3, <4>4
    <3>5. \A t \in Request, j \in Id : IsLogin(t, j)' =>
             t # r /\ IsLogin(t, j) /\ request'[t] = request[t]
          BY <2>2 DEF IsLogin
    <3>6. SequentialFailuresCount'
          BY <2>2, <3>2, <3>3, <3>4 DEF CountersInv, SequentialFailuresCount, Rows
    <3>7. \A j \in Id : j >= nextId' => streak'[j] = 0
      <4> HIDE DEF i
      <4>1. i < nextId
        <5>1. i \in Nat /\ nextId \in Nat /\ ~(i >= nextId)
              BY <1>0, <2>4, <2>1 DEF AccountsTypeOK
        <5> QED BY <5>1
      <4>2. \A j \in Id : j >= nextId' => j # i
            BY <1>0, <2>1, <2>2, <4>1 DEF AccountsTypeOK
      <4> QED BY <2>2, <3>3, <4>2 DEF CountersInv
    <3>8. \A t \in Request, j \in Rows' :
            IsLogin(t, j)' /\ ~overlapped'[j] => request'[t].row.failed = users'[j].failed
          BY <2>2, <3>2, <3>3, <3>4, <3>5 DEF CountersInv, Rows
    <3>9. \A t, u \in Request, j \in Id : IsLogin(t, j)' /\ IsLogin(u, j)' /\ t # u => overlapped'[j]
          BY <2>2, <3>5 DEF CountersInv
    <3> QED BY <3>6, <3>7, <3>8, <3>9 DEF CountersInv
  <2> QED BY <2>3, <2>4
<1>4. ASSUME NEW r \in Request, UNCHANGED <<users, nextId, streak, overlapped>>,
             \A t \in Request \ {r} : request'[t] = request[t],
             request'[r] = NoRequest \/ request'[r].op # "login"
      PROVE CountersInv'
      BY <1>0, <1>4, CountersFrame DEF Rows
<1>5. ASSUME NEW r \in Request, SeedBegins(r) PROVE CountersInv'
      BY <1>0, <1>4, <1>5 DEF SeedBegins, historyVars, AccountsTypeOK
<1>6. ASSUME NEW r \in Request, NEW name \in Username, NEW role \in Role,
             NEW e \in Address \cup {NoAddress}, NEW audited \in SUBSET Address,
             CreateBegins(r, name, role, e, audited)
      PROVE CountersInv'
      BY <1>0, <1>4, <1>6 DEF CreateBegins, historyVars, AccountsTypeOK
<1>7. ASSUME NEW r \in Request, NEW op \in {"activate", "deactivate", "delete"}, NEW i \in Id,
             ChangeBegins(r, op, i)
      PROVE CountersInv'
      BY <1>0, <1>4, <1>7 DEF ChangeBegins, historyVars, AccountsTypeOK
<1>8. ASSUME NEW r \in Request, CountAdmins(r) PROVE CountersInv'
  <2>1. request[r] \in Change
        BY <1>0, <1>8, RequestKinds DEF CountAdmins
  <2>2. request'[r] = NoRequest \/ request'[r].op # "login"
        BY <1>0, <1>8, <2>1 DEF CountAdmins, Change, AccountsTypeOK
  <2> QED BY <1>0, <1>4, <1>8, <2>2 DEF CountAdmins, historyVars, AccountsTypeOK
<1>9. ASSUME NEW r \in Request, CreateCommits(r) PROVE CountersInv'
  <2> DEFINE row == request[r].row
  <2>1. /\ UNCHANGED <<streak, overlapped>> /\ nextId \in Id /\ nextId' = nextId + 1
        /\ \A t \in Request : request'[t] \in {request[t], NoRequest}
        BY <1>0, <1>9 DEF CreateCommits, End, AccountsTypeOK
  <2>2. row.failed = 0 /\ row \in Account
        BY <1>0, <1>9, RequestKinds DEF CreateCommits, Create, NewAccount
  <2>3. /\ \A i \in Rows' : i \in Rows \cup {nextId}
        /\ \A i \in Rows : users'[i] = users[i] /\ i # nextId
        /\ nextId \in Rows' => users'[nextId] = row
        BY <1>0, <1>9 DEF CreateCommits, Insert, AccountsTypeOK, Rows
  <2>4. streak[nextId] = 0
    <3>1. nextId \in Id /\ \A i \in Id : i >= nextId => streak[i] = 0
          BY <2>1 DEF CountersInv
    <3>2. nextId >= nextId
          BY <3>1, IdsAreOrdered
    <3> QED BY <3>1, <3>2, Zenon
  <2>5. SequentialFailuresCount'
        BY <2>1, <2>2, <2>3, <2>4 DEF CountersInv, SequentialFailuresCount
  <2>6. \A i \in Id : i >= nextId' => streak'[i] = 0
        BY <1>0, <2>1 DEF CountersInv, AccountsTypeOK
  <2>7. \A t \in Request, i \in Id : IsLogin(t, i)' =>
          IsLogin(t, i) /\ request'[t] = request[t] /\ i # nextId
        BY <2>1 DEF IsLogin, AccountsInv, RequestsAreSound
  <2>8. \A t \in Request, i \in Rows' :
          IsLogin(t, i)' /\ ~overlapped'[i] => request'[t].row.failed = users'[i].failed
        BY <2>1, <2>3, <2>7 DEF CountersInv, Rows
  <2>9. \A t, u \in Request, i \in Id : IsLogin(t, i)' /\ IsLogin(u, i)' /\ t # u => overlapped'[i]
        BY <2>1, <2>7 DEF CountersInv
  <2> QED BY <2>5, <2>6, <2>8, <2>9 DEF CountersInv
<1>10. \A i \in Rows : users[i] \in Account /\ i \in Id
       BY <1>0 DEF AccountsTypeOK, Rows
<1>11. ASSUME NEW r \in Request, ChangeWrites(r) PROVE CountersInv'
  <2>1. \A t \in Request : request'[t] \in {request[t], NoRequest}
        BY <1>0, <1>11 DEF ChangeWrites, End, AccountsTypeOK
  <2>2. \A i \in Rows' : i \in Rows /\ users'[i].failed = users[i].failed
        BY <1>0, <1>10, <1>11 DEF ChangeWrites, AccountsTypeOK, Rows, Account
  <2> QED BY <1>0, <1>11, <2>1, <2>2, CountersFrame DEF ChangeWrites
<1>12. ASSUME NEW i \in Rows, NEW row, Edit(i, row), row.failed = users[i].failed
       PROVE CountersInv'
  <2>1. \A j \in Rows' : j \in Rows /\ users'[j].failed = users[j].failed
        BY <1>0, <1>10, <1>12 DEF Edit, Rows, AccountsTypeOK
  <2> QED BY <1>0, <1>12, <2>1, CountersFrame DEF Edit, historyVars
<1>13. ASSUME NEW i \in Id, NEW p \in Password, SetPassword(i, p) PROVE CountersInv'
       BY <1>10, <1>12, <1>13 DEF SetPassword, Account
<1>14. ASSUME NEW i \in Id, NEW old \in Password, NEW new \in Password,
              ChangeOwnPassword(i, old, new)
       PROVE CountersInv'
       BY <1>10, <1>12, <1>14 DEF ChangeOwnPassword, Account
<1>15. ASSUME NEW i \in Id, NEW e \in Address \cup {NoAddress}, SetEmail(i, e) PROVE CountersInv'
       BY <1>10, <1>12, <1>15 DEF SetEmail, Account
<1>16. ASSUME NEW i \in Id, NEW audited \in SUBSET Address, SetAuditedEmails(i, audited)
       PROVE CountersInv'
       BY <1>10, <1>12, <1>16 DEF SetAuditedEmails, Account
<1>17. CASE ClockTicks
       BY <1>0, <1>17, CountersFrame DEF ClockTicks, Rows
<1>18. CASE UNCHANGED accountVars
       BY <1>0, <1>18, CountersFrame DEF accountVars, historyVars, Rows
<1> QED BY <1>1, <1>2, <1>3, <1>5, <1>6, <1>7, <1>8, <1>9, <1>11, <1>13, <1>14, <1>15, <1>16,
           <1>17, <1>18 DEF AccountsNext

\* The counter of an account is the number of wrong answers since the last success
\* or lock, as long as no two logins on it overlap.
THEOREM FailuresAreCounted == AccountsSpec => []SequentialFailuresCount
<1>1. CountersInv => SequentialFailuresCount
      BY DEF CountersInv
<1> QED BY <1>1, AccountsInvariant, CountersInitially, CountersKept, PTL DEF AccountsSpec
=============================================================================
