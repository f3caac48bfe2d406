---------------------------- MODULE MC_RestoreJobs ----------------------------
(* RestoreJobs on a small instance.                                        *)
EXTENDS RestoreJobs, TLC

CONSTANTS upper, lower

Lowered == [a \in Address |-> IF a = upper THEN lower ELSE a]
User == [role |-> "user", email |-> upper, audited |-> {}]

\* The account's address is entered in upper case, the mails have it in lower case.
Parties == [d \in Doc |-> {lower}]

\* Bounds: the destination changes while no job is executed; at most one document
\* is missing or half purged at a time; the mailbox may refuse the second document,
\* and then none is missing.
Small ==
  /\ \A a \in Api : step[a] \notin {"idle", "begin"} => reachable
  /\ Cardinality(Doc \ (indexed \cap stored)) <= 1
  /\ \A j \in Job : refused[j] \subseteq {2} /\ (refused[j] # {} => Doc \subseteq indexed \cap stored)
=============================================================================
