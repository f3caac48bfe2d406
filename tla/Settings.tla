------------------------------ MODULE Settings ------------------------------
(***************************************************************************)
(* The settings of the inbound SMTP server: administrators change rows of  *)
(* app_settings (SettingsStore), and smtp-gateway reads them when it starts, *)
(* over its environment (_load_config), and puts them in force (main): all   *)
(* but STARTTLS, which it demands only if it has a certificate.             *)
(***************************************************************************)
EXTENDS Naturals

CONSTANTS
  Key,       \* smtpd_host, smtpd_port, ...
  Value,     \* values, as both sides read them
  Blank,     \* the empty string, which an administrator may store for a host
  Blankable, \* the keys that may be blank
  Starttls,  \* smtpd_require_starttls
  Off,       \* its value "false"
  Env,       \* the gateway's environment
  Update,    \* concurrent PATCH /settings requests
  NoValue

ASSUME SettingsAssumption ==
  /\ Blank \notin Value /\ NoValue \notin Value \cup {Blank}
  /\ Env \in [Key -> Value] /\ Blankable \subseteq Key
  /\ Starttls \in Key \ Blankable /\ Off \in Value

VARIABLES
  stored,    \* app_settings
  asked,     \* the values a request is to store; NoValue leaves a key alone
  read,      \* the rows it has read
  config,    \* what the gateway has put in force; NoValue while it is down
  crossed,   \* history: keys of a request that another one under way had, too
  saved      \* history: what the last request that succeeded had asked for,
             \* NoValue if its key was crossed

settingsVars == <<stored, asked, read, config, crossed, saved>>

SettingRows == [Key -> Value \cup {Blank, NoValue}]
NoSettings == [k \in Key |-> NoValue]

SettingsTypeOK ==
  /\ stored \in SettingRows /\ asked \in [Update -> SettingRows] /\ read \in [Update -> SettingRows]
  /\ config \in [Key -> Value] \cup {NoSettings}
  /\ crossed \in [Update -> SUBSET Key] /\ saved \in SettingRows
  \* only a host is ever blank, and no row is removed
  /\ \A k \in Key : stored[k] = Blank => k \in Blankable
  /\ \A u \in Update, k \in Key : read[u][k] # NoValue => stored[k] # NoValue

SettingsInit ==
  /\ stored = NoSettings /\ config = NoSettings
  /\ asked = [u \in Update |-> NoSettings] /\ read = [u \in Update |-> NoSettings]
  /\ crossed = [u \in Update |-> {}] /\ saved = NoSettings

\* The keys a request is to store.
Touched(u) == {k \in Key : asked[u][k] # NoValue}

\* update_app_settings, and SettingsStore.update up to the rows it reads (one
\* after the other; no key depends on when another one is read).
UpdateReads(u) ==
  /\ asked[u] = NoSettings
  /\ \E values \in SettingRows \ {NoSettings} :
       /\ \A k \in Key : values[k] = Blank => k \in Blankable
       /\ asked' = [asked EXCEPT ![u] = values]
  /\ read' = [read EXCEPT ![u] = [k \in Key |-> IF asked'[u][k] = NoValue THEN NoValue ELSE stored[k]]]
  /\ crossed' = [v \in Update |->
       IF v = u THEN Touched(u)' \cap UNION {Touched(w) : w \in Update \ {u}}
                ELSE crossed[v] \cup (Touched(v) \cap Touched(u)')]
  /\ UNCHANGED <<stored, config, saved>>

\* Two requests insert the same row: the later one fails as a whole.
Conflicts(u) == \E k \in Touched(u) : read[u][k] = NoValue /\ stored[k] # NoValue

\* Mutant: a key that is there is not written again.
WritesNew(u) == {k \in Touched(u) : read[u][k] = NoValue}

\* _set: the session writes the rows that differ from what it has read.
Writes(u) == {k \in Touched(u) : read[u][k] # asked[u][k]}

Answered(u) ==
  /\ asked' = [asked EXCEPT ![u] = NoSettings] /\ read' = [read EXCEPT ![u] = NoSettings]
  /\ crossed' = [crossed EXCEPT ![u] = {}]

UpdateCommits(u) ==
  /\ Touched(u) # {} /\ ~Conflicts(u) /\ Answered(u)
  /\ stored' = [k \in Key |-> IF k \in Writes(u) THEN asked[u][k] ELSE stored[k]]
  /\ saved' = [k \in Key |-> IF k \notin Touched(u) THEN saved[k]
                            ELSE IF k \in crossed[u] THEN NoValue ELSE asked[u][k]]
  /\ UNCHANGED config

UpdateFails(u) ==
  /\ Touched(u) # {} /\ Answered(u)
  /\ UNCHANGED <<stored, config, saved>>

\* Mutant: the environment goes over what is stored.
LoadedFromEnv(k) == Env[k]

\* _load_config, the database answering.
Loaded(k) == IF stored[k] \in {NoValue, Blank} THEN Env[k] ELSE stored[k]

\* The environment alone, when the database does not answer.
Configured(k, answers) == IF answers THEN Loaded(k) ELSE Env[k]

\* main: require_starttls=require_tls and tls is not None
Enforced(k, answers, certificate) ==
  IF k = Starttls /\ ~certificate THEN Off ELSE Configured(k, answers)

\* main of smtp-gateway: the database answers or not, _tls_context finds a
\* certificate and its key or not.
GatewayStarts(answers, certificate) ==
  /\ config = NoSettings
  /\ config' = [k \in Key |-> Enforced(k, answers, certificate)]
  /\ UNCHANGED <<stored, asked, read, crossed, saved>>

GatewayStops ==
  /\ config # NoSettings /\ config' = NoSettings
  /\ UNCHANGED <<stored, asked, read, crossed, saved>>

SettingsNext ==
  \/ \E u \in Update : UpdateReads(u) \/ UpdateCommits(u) \/ UpdateFails(u)
  \/ \E answers, certificate \in BOOLEAN : GatewayStarts(answers, certificate)
  \/ GatewayStops

SettingsSpec == SettingsInit /\ [][SettingsNext]_settingsVars

-----------------------------------------------------------------------------
\* What an administrator has saved takes effect when the gateway is started
\* again (the settings page says so): whatever other requests did to other keys or
\* failed to do to this one, and however often the gateway was started before, a
\* start that reaches the database puts it in force.  A blank host leaves the
\* environment's, STARTTLS is not demanded without a certificate, and of two
\* requests that save one key at the same time either may have been the last.
SavedTakesEffect ==
  [][\A certificate \in BOOLEAN : GatewayStarts(TRUE, certificate) =>
       \A k \in Key : saved[k] \notin {NoValue, Blank} =>
         config'[k] = saved[k] \/ (k = Starttls /\ ~certificate /\ config'[k] = Off)]_settingsVars

\* A request that succeeds has stored each of its values, but for the keys that
\* another request has changed while it was under way: those may be the other's,
\* so that two requests can leave a mixture of both.
SuccessfulUpdatesHold ==
  [][\A u \in Update : UpdateCommits(u) =>
       \A k \in Touched(u) : stored[k] = read[u][k] => stored'[k] = asked[u][k]]_settingsVars
=============================================================================
