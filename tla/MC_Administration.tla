-------------------------- MODULE MC_Administration --------------------------
(* Accounts, Settings and Partitions on small instances: components that    *)
(* share no state.  Only one of them is away from its start at a time, so   *)
(* that the instance is their sum and not their product.                    *)
EXTENDS Accounts, Settings, Partitions, TLC

CONSTANTS admin, bob, upper, lower, host, tls, v1, v2

Init == AccountsInit /\ SettingsInit /\ PartitionsInit

Next ==
  \/ SettingsInit /\ PartitionsInit /\ AccountsNext /\ UNCHANGED <<settingsVars, partitionVars>>
  \/ AccountsInit /\ PartitionsInit /\ SettingsNext /\ UNCHANGED <<accountVars, partitionVars>>
  \/ AccountsInit /\ SettingsInit /\ PartitionsNext /\ UNCHANGED <<accountVars, settingsVars>>

Spec == Init /\ [][Next]_<<accountVars, settingsVars, partitionVars>>

Environment == [k \in Key |-> IF k = host THEN v2 ELSE v1]

Lowered == [a \in Address |-> IF a = upper THEN lower ELSE a]
DirectoryRoles == [name \in Directory |-> "user"]

\* Bounds on what is looked at together: addresses on accounts that need them,
\* logins that fail or overlap on the second account.
AddressesWhereNeeded(row) ==
  /\ row.role = "admin" => row.email = NoAddress
  /\ row.role # "auditor" => row.audited = {}
  /\ row.email # lower

Untroubled(i) ==
  /\ users[i].failed = 0 /\ users[i].lockedUntil = 0 /\ ~overlapped[i]
  /\ \A r \in LoginsOn(i) : request[r].ok

Small ==
  /\ Cardinality(sessions) <= 2
  /\ \A s \in sessions : s.id = 0 => s.email = upper
  /\ \A i \in Rows : AddressesWhereNeeded(users[i])
  /\ \A i \in Rows : Untroubled(i) \/ (i = 2 /\ users[i].role = "user")
  /\ users[3] # NoRow => users[3].role = "user" /\ \A s \in sessions : s.role = "admin"
  /\ now = LastTick => \A i \in Rows : users[i].role # "auditor" /\ Untroubled(i)
  /\ \A r \in Request : request[r] # NoRequest /\ request[r].op = "create" =>
       AddressesWhereNeeded(request[r].row)

Interchangeable == Permutations(Request) \cup Permutations(Update)
=============================================================================
