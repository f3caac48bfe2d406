------------------------------ MODULE Accounts ------------------------------
(***************************************************************************)
(* The local accounts (users.py), the requests of the API that use them    *)
(* (main.py) and the sessions they open (tokens.py).                       *)
(*                                                                         *)
(* A request is a coroutine: what it reads before an await may have changed *)
(* when it writes.  A login reads the row, verifies, then writes counters; *)
(* deactivation and deletion list the accounts, count administrators, then *)
(* write; a creation looks the name up, then inserts.                      *)
(***************************************************************************)
EXTENDS AccessScope

CONSTANTS
  Id,            \* users.id, never given twice
  Username,
  Protected,     \* ADMIN_USERNAME
  Password,
  WrongPassword, \* what somebody types who does not know the password
  Directory,     \* names the LDAP directory knows
  DirectoryRole, \* the role it gives them
  Request,       \* concurrent requests
  MaxAttempts,   \* LOGIN_MAX_ATTEMPTS
  Lockout,       \* LOGIN_LOCKOUT_MINUTES, in ticks of the model's clock
  SessionTTL,    \* SESSION_TTL_HOURS, in ticks
  LastTick,      \* bound on the clock
  NoRow,
  NoRequest

ASSUME AccountsAssumption ==
  /\ Id \subseteq Nat \ {0}
  /\ Protected \in Username
  /\ WrongPassword \notin Password
  /\ Directory \subseteq Username /\ DirectoryRole \in [Directory -> {"admin", "user"}]
  /\ MaxAttempts \in Nat \ {0} /\ Lockout \in Nat \ {0} /\ SessionTTL \in Nat \ {0}
  /\ LastTick \in Nat \ {0}

\* A row of users.  lockedUntil = 0 stands for NULL.
Account == [username : Username, role : Role, active : BOOLEAN, password : Password,
            email : Address \cup {NoAddress}, audited : SUBSET Address,
            failed : 0..(MaxAttempts - 1), lockedUntil : Nat]

ASSUME NoAccountAssumption == NoRow \notin Account

\* A row as create makes it.
NewAccount == {row \in Account : row.active /\ row.failed = 0 /\ row.lockedUntil = 0}

\* The claims of a token; id = 0 for an account of the directory.
Session == [id : Id \cup {0}, username : Username, role : Role,
            email : Address \cup {NoAddress}, audited : SUBSET Address, exp : Nat]

\* A request between two of its awaits.
Login  == [op : {"login"}, id : Id, row : Account, ok : BOOLEAN, since : Nat]
Create == [op : {"create"}, row : NewAccount, since : Nat]
Change == [op : {"activate", "deactivate", "delete"}, id : Id, check : BOOLEAN, since : Nat]

ASSUME NoRequestAssumption == NoRequest \notin Login \cup Create \cup Change

VARIABLES
  users,       \* the table, by id
  nextId,
  sessions,    \* tokens that have not expired
  request,
  now,         \* the clock
  streak,      \* history: wrong answers since the last success or lock
  overlapped,  \* history: two logins on the account were under way together
  lastActive   \* history: when the account was last there and active

historyVars == <<streak, overlapped, lastActive>>
accountVars == <<users, nextId, sessions, request, now, historyVars>>

AccountsTypeOK ==
  /\ users \in [Id -> Account \cup {NoRow}]
  /\ nextId \in Nat /\ \A i \in Id : i >= nextId => users[i] = NoRow
  /\ sessions \in SUBSET Session
  /\ request \in [Request -> Login \cup Create \cup Change \cup {NoRequest}]
  /\ now \in Nat
  /\ streak \in [Id -> Nat] /\ overlapped \in [Id -> BOOLEAN] /\ lastActive \in [Id -> Nat]

Rows == {i \in Id : users[i] # NoRow}
Named(name) == {i \in Rows : users[i].username = name}
ActiveAdmins == {i \in Rows : users[i].role = "admin" /\ users[i].active}
LoginsOn(i) == {r \in Request : request[r] # NoRequest /\ request[r].op = "login" /\ request[r].id = i}

AccountsInit ==
  /\ users = [i \in Id |-> NoRow] /\ nextId = 1
  /\ sessions = {} /\ request = [r \in Request |-> NoRequest] /\ now = 1
  /\ streak = [i \in Id |-> 0] /\ overlapped = [i \in Id |-> FALSE]
  /\ lastActive = [i \in Id |-> 0]

\* require_admin: the token is all that is looked at.
AdminAsks == \E s \in sessions : s.role = "admin"

End(r) == request' = [request EXCEPT ![r] = NoRequest]

\* create_token, at the end of a login.
Issue(i, row) ==
  sessions' = sessions \cup
    {[id |-> i, username |-> row.username, role |-> row.role, email |-> row.email,
      audited |-> row.audited, exp |-> now + SessionTTL]}

-----------------------------------------------------------------------------
\* Mutant: the row is selected whether it is active or not.
SelectAnyAccount(name) == Named(name)

\* select(User).where(username, is_active)
SelectAccount(name) == {i \in Named(name) : users[i].active}

\* LdapAuthenticator.authenticate, tried when the local answer is "bad".
LdapAnswers(name) ==
  \/ UNCHANGED sessions
  \/ /\ name \in Directory
     /\ \E e \in Address \cup {NoAddress} :
          Issue(0, [username |-> name, role |-> DirectoryRole[name], email |-> e, audited |-> {}])

\* login, no active local account of that name.  An API answers requests once
\* its start has found or seeded an account.
LoginUnknown(name) ==
  /\ Rows # {} /\ SelectAccount(name) = {}
  /\ LdapAnswers(name)
  /\ UNCHANGED <<users, nextId, request, now, historyVars>>

\* login, up to the answer of the SELECT.  A locked account is answered 423
\* and nothing changes.  A right password with nothing to reset opens the
\* session at once.
LoginReads(r, name, password) ==
  /\ request[r] = NoRequest
  /\ \E i \in SelectAccount(name) :
       LET row == users[i]
           ok  == password = row.password
       IN /\ row.lockedUntil <= now
          /\ overlapped' = [overlapped EXCEPT ![i] = @ \/ LoginsOn(i) # {}]
          /\ IF ok /\ row.failed = 0 /\ row.lockedUntil = 0
             THEN Issue(i, row) /\ UNCHANGED request
             ELSE /\ request' = [request EXCEPT ![r] =
                       [op |-> "login", id |-> i, row |-> row, ok |-> ok, since |-> now]]
                  /\ UNCHANGED sessions
  /\ UNCHANGED <<users, nextId, now, streak, lastActive>>

\* authenticate_with_lockout, a wrong password: row is what was read at since.
Wrong(i, row, since) ==
  IF row.failed + 1 >= MaxAttempts
  THEN /\ users' = [users EXCEPT ![i].lockedUntil = since + Lockout, ![i].failed = 0]
       /\ streak' = [streak EXCEPT ![i] = 0]
  ELSE /\ users' = [users EXCEPT ![i].failed = row.failed + 1]
       /\ streak' = [streak EXCEPT ![i] = @ + 1]

\* Mutant: the counter is reset only together with a lock.
RightResetsLocked(i, row) ==
  /\ users' = [users EXCEPT
       ![i].failed = IF row.lockedUntil # 0 THEN 0 ELSE @,
       ![i].lockedUntil = IF row.lockedUntil # 0 THEN 0 ELSE @]
  /\ streak' = [streak EXCEPT ![i] = 0]

\* authenticate_with_lockout, the right password: the session writes the
\* columns that differ from what it has read.
Right(i, row) ==
  /\ users' = [users EXCEPT
       ![i].failed = IF row.failed # 0 THEN 0 ELSE @,
       ![i].lockedUntil = IF row.lockedUntil # 0 THEN 0 ELSE @]
  /\ streak' = [streak EXCEPT ![i] = 0]

\* login, the UPDATE and what follows.  It finds no row when the account has
\* been deleted in between, and the request fails.
LoginWrites(r) ==
  /\ request[r] # NoRequest /\ request[r].op = "login"
  /\ End(r)
  /\ LET q == request[r] IN
       IF users[q.id] = NoRow THEN UNCHANGED <<users, sessions, streak>>
       ELSE IF q.ok THEN Right(q.id, q.row) /\ Issue(q.id, q.row)
       ELSE Wrong(q.id, q.row, q.since) /\ LdapAnswers(q.row.username)
  /\ UNCHANGED <<nextId, now, overlapped, lastActive>>

-----------------------------------------------------------------------------
\* _seed_default_admin, when an API starts on an empty table.
SeedBegins(r) ==
  /\ request[r] = NoRequest /\ Rows = {}
  /\ \E p \in Password :
       request' = [request EXCEPT ![r] =
         [op |-> "create", since |-> now,
          row |-> [username |-> Protected, role |-> "admin", active |-> TRUE, password |-> p,
                   email |-> NoAddress, audited |-> {}, failed |-> 0, lockedUntil |-> 0]]]
  /\ UNCHANGED <<users, nextId, sessions, now, historyVars>>

\* What create, set_email and set_audited_emails ask of an auditor's account.
AuditorRules(role, email, audited) ==
  role = "auditor" => email # NoAddress /\ audited # {}

\* create_user, up to the look-up of the name.
CreateBegins(r, name, role, email, audited) ==
  /\ request[r] = NoRequest /\ AdminAsks
  /\ AuditorRules(role, email, audited)
  /\ Named(name) = {}
  /\ \E p \in Password :
       request' = [request EXCEPT ![r] =
         [op |-> "create", since |-> now,
          row |-> [username |-> name, role |-> role, active |-> TRUE, password |-> p,
                   email |-> email, audited |-> LowerAll(audited), failed |-> 0,
                   lockedUntil |-> 0]]]
  /\ UNCHANGED <<users, nextId, sessions, now, historyVars>>

\* Mutant: users.username is not unique in the database.
InsertUnchecked(row) ==
  /\ users' = [users EXCEPT ![nextId] = row]
  /\ lastActive' = [lastActive EXCEPT ![nextId] = now]

\* The INSERT.  The unique key of username refuses a name inserted meanwhile.
Insert(row) ==
  IF Named(row.username) # {} THEN UNCHANGED <<users, lastActive>>
  ELSE /\ users' = [users EXCEPT ![nextId] = row]
       /\ lastActive' = [lastActive EXCEPT ![nextId] = now]

\* create, the commit; the id is used up in either case.
CreateCommits(r) ==
  /\ request[r] # NoRequest /\ request[r].op = "create"
  /\ nextId \in Id /\ nextId' = nextId + 1
  /\ Insert(request[r].row)
  /\ End(r)
  /\ UNCHANGED <<sessions, now, streak, overlapped>>

-----------------------------------------------------------------------------
\* Mutant: the main account may be deactivated while there is another administrator.
MayChangeUnlessLast(op, i) == TRUE

\* set_user_active, delete_user: what is refused at once.
MayChange(op, i) == op = "activate" \/ users[i].username # Protected

\* set_user_active and delete_user, up to the answer of list().
ChangeBegins(r, op, i) ==
  /\ request[r] = NoRequest /\ AdminAsks
  /\ i \in Rows /\ MayChange(op, i)
  /\ request' = [request EXCEPT ![r] =
       [op |-> op, id |-> i, check |-> op # "activate" /\ users[i].role = "admin", since |-> now]]
  /\ UNCHANGED <<users, nextId, sessions, now, historyVars>>

\* count_admins: the last active administrator is not taken away.
CountAdmins(r) ==
  /\ request[r] # NoRequest /\ request[r].op \in {"deactivate", "delete"} /\ request[r].check
  /\ request' = [request EXCEPT ![r] =
       IF Cardinality(ActiveAdmins) <= 1 THEN NoRequest ELSE [@ EXCEPT !.check = FALSE]]
  /\ UNCHANGED <<users, nextId, sessions, now, historyVars>>

\* set_active and delete; the row may have gone since list().
ChangeWrites(r) ==
  /\ request[r] # NoRequest /\ request[r].op \in {"activate", "deactivate", "delete"}
  /\ ~request[r].check
  /\ LET op == request[r].op
         i  == request[r].id
     IN users' = IF users[i] = NoRow THEN users
                 ELSE IF op = "delete" THEN [users EXCEPT ![i] = NoRow]
                 ELSE [users EXCEPT ![i].active = (op = "activate")]
  /\ lastActive' = [i \in Id |-> IF users'[i] # NoRow /\ users'[i].active THEN now
                                 ELSE lastActive[i]]
  /\ End(r)
  /\ UNCHANGED <<nextId, sessions, now, streak, overlapped>>

-----------------------------------------------------------------------------
\* The endpoints that change one column of a row they have just read.
Edit(i, row) ==
  /\ users' = [users EXCEPT ![i] = row]
  /\ UNCHANGED <<nextId, sessions, request, now, historyVars>>

\* change_password, by an administrator: a lock stays.
SetPassword(i, password) ==
  AdminAsks /\ i \in Rows /\ Edit(i, [users[i] EXCEPT !.password = password])

\* change_own_password: whoever has a session of that name and the password.
ChangeOwnPassword(i, old, new) ==
  /\ i \in Rows /\ users[i].active /\ users[i].password = old
  /\ \E s \in sessions : s.username = users[i].username
  /\ Edit(i, [users[i] EXCEPT !.password = new])

SetEmail(i, email) ==
  /\ AdminAsks /\ i \in Rows
  /\ users[i].role = "auditor" => email # NoAddress
  /\ Edit(i, [users[i] EXCEPT !.email = email])

SetAuditedEmails(i, audited) ==
  /\ AdminAsks /\ i \in Rows
  /\ users[i].role = "auditor" /\ audited # {}
  /\ Edit(i, [users[i] EXCEPT !.audited = LowerAll(audited)])

\* Assumption: a request is answered within a tick of the clock.
RequestsAreShort == \A r \in Request : request[r] # NoRequest => request[r].since = now

\* decode_token: an expired token is none.
ClockTicks ==
  /\ now < LastTick /\ RequestsAreShort
  /\ now' = now + 1
  /\ sessions' = {s \in sessions : s.exp > now'}
  /\ lastActive' = [i \in Id |-> IF users[i] # NoRow /\ users[i].active THEN now'
                                 ELSE lastActive[i]]
  /\ UNCHANGED <<users, nextId, request, streak, overlapped>>

AccountsNext ==
  \/ \E name \in Username : LoginUnknown(name)
  \/ \E r \in Request :
       \/ \E name \in Username, p \in Password \cup {WrongPassword} : LoginReads(r, name, p)
       \/ LoginWrites(r)
       \/ SeedBegins(r)
       \/ \E name \in Username, role \in Role, e \in Address \cup {NoAddress},
             audited \in SUBSET Address : CreateBegins(r, name, role, e, audited)
       \/ CreateCommits(r)
       \/ \E op \in {"activate", "deactivate", "delete"}, i \in Id : ChangeBegins(r, op, i)
       \/ CountAdmins(r)
       \/ ChangeWrites(r)
  \/ \E i \in Id :
       \/ \E p \in Password : SetPassword(i, p)
       \/ \E old, new \in Password : ChangeOwnPassword(i, old, new)
       \/ \E e \in Address \cup {NoAddress} : SetEmail(i, e)
       \/ \E audited \in SUBSET Address : SetAuditedEmails(i, audited)
  \/ ClockTicks

AccountsSpec == AccountsInit /\ [][AccountsNext]_accountVars

-----------------------------------------------------------------------------
\* The system cannot be locked: once the main administrator's account has been
\* made it stays, active and an administrator, whatever requests run together.
\* The count of administrators alone would not do it: two requests may both
\* count two and each take one away.
SystemIsNotLockedOut ==
  Rows # {} => \E i \in ActiveAdmins : users[i].username = Protected

\* Names stay unique although creations look them up before they insert, and
\* every account keeps the addresses its role needs, whoever edits it.
AccountsAreWellFormed ==
  /\ \A i, j \in Rows : users[i].username = users[j].username => i = j
  /\ \A i \in Rows : users[i].role = "auditor" => users[i].email # NoAddress /\ users[i].audited # {}

\* Logins on an account that do not overlap are counted exactly: the counter is
\* the number of wrong answers since the last success or lock.  (Overlapping
\* ones read the same counter and are counted once.)
SequentialFailuresCount ==
  \A i \in Rows : ~overlapped[i] => users[i].failed = streak[i] /\ streak[i] < MaxAttempts

\* Tokens outlive the account they were made for, but not for long: a session
\* of a local account that is deactivated or gone ends within the lifetime of
\* a token, even if the login was under way when the account was taken away.
AccessEndsInTime ==
  \A s \in sessions : s.id # 0 => s.exp <= lastActive[s.id] + 1 + SessionTTL

\* What a session may receive as an event it may open, and the other way
\* round; and what its searches find it may open.  (The converse of the last
\* fails: a search compares addresses exactly.)
AccessPathsAgree ==
  \A s \in sessions, parties \in SUBSET Address :
    LET scope == ScopeAddresses(s) IN
    /\ EventVisible(parties, s) <=> CanAccess(parties, scope)
    /\ SearchMatches(parties, scope) => CanAccess(parties, scope)
=============================================================================
