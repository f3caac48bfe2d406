--------------------------- MODULE ArchiveService ---------------------------
(***************************************************************************)
(* What the ingestion side of the archive promises, without queue, worker, *)
(* table or blob: a mail the archive has taken charge of is archived once, *)
(* then can be searched, then may be announced; it is given up only when   *)
(* an administrator purges the quarantine.                                 *)
(***************************************************************************)
EXTENDS FiniteSets

CONSTANTS Mail, Hash, Fingerprint

VARIABLES
  promised,    \* mails whose sender was told that they are accepted
  owed,        \* mails in charge, not archived yet
  archived,    \* fingerprints archived
  searchable,  \* fingerprints found by a search
  announced,   \* fingerprints published as events
  discarded    \* mails an administrator has purged

vars == <<promised, owed, archived, searchable, announced, discarded>>

Init ==
  /\ promised = {} /\ owed = {} /\ archived = {}
  /\ searchable = {} /\ announced = {} /\ discarded = {}

Archived(m) == Fingerprint[m] \in archived

\* The archive takes charge of a mail, unless it has it.
Accept(m) ==
  /\ promised' = promised \cup {m}
  /\ owed' = IF Archived(m) THEN owed ELSE owed \cup {m}
  /\ UNCHANGED <<archived, searchable, announced, discarded>>

\* A promised mail that was purged comes back: sent again without a promise,
\* or saved from the purge by a replay that did not complete.
Recover(m) ==
  /\ m \in promised \cap discarded /\ ~Archived(m)
  /\ owed' = owed \cup {m}
  /\ UNCHANGED <<promised, archived, searchable, announced, discarded>>

\* Archiving a fingerprint settles what is owed to every mail that has it.
Archive(h) ==
  /\ h \notin archived
  /\ archived' = archived \cup {h}
  /\ owed' = {m \in owed : Fingerprint[m] # h}
  /\ UNCHANGED <<promised, searchable, announced, discarded>>

MakeSearchable(h) ==
  /\ h \in archived
  /\ searchable' = searchable \cup {h}
  /\ UNCHANGED <<promised, owed, archived, announced, discarded>>

Announce(h) ==
  /\ h \in searchable \ announced
  /\ announced' = announced \cup {h}
  /\ UNCHANGED <<promised, owed, archived, searchable, discarded>>

\* A purge of the quarantine; mails with another copy elsewhere stay owed.
Discard(mails) ==
  /\ discarded' = discarded \cup mails
  /\ owed' \subseteq owed /\ owed \ mails \subseteq owed'
  /\ UNCHANGED <<promised, archived, searchable, announced>>

Next ==
  \/ \E m \in Mail : Accept(m) \/ Recover(m)
  \/ \E h \in Hash : Archive(h) \/ MakeSearchable(h) \/ Announce(h)
  \/ \E mails \in SUBSET Mail : Discard(mails)

Spec == Init /\ [][Next]_vars

-----------------------------------------------------------------------------
\* No promise is broken: a mail the sender was told is accepted is still in
\* charge, archived, or was purged by an administrator.
PromisesKept == \A m \in promised : m \in owed \/ Archived(m) \/ m \in discarded
=============================================================================
