----------------------------- MODULE AccessScope -----------------------------
(***************************************************************************)
(* Who sees which mail.  The API decides it in three places: the filter of *)
(* a search (search.py), the check before a mail is opened, exported or    *)
(* forwarded (mail_access.py), and the filter of the event stream          *)
(* (main.py).  A mail is what these three look at: the set of addresses in *)
(* its From, To and Cc, written as the mail writes them.                   *)
(***************************************************************************)
EXTENDS Integers, FiniteSets

CONSTANTS
  Address,    \* addresses as somebody wrote them
  LowerOf,    \* str.lower()
  NoAddress,  \* email = None
  Everything  \* the scope None: no restriction

ASSUME LowerAssumption ==
  /\ LowerOf \in [Address -> Address]
  /\ \A a \in Address : LowerOf[LowerOf[a]] = LowerOf[a]

ASSUME NoAddressAssumption ==
  NoAddress \notin Address /\ \A s \in SUBSET Address : s # Everything

Role == {"admin", "user", "auditor"}
Scope == SUBSET Address \cup {Everything}

LowerAll(addrs) == {LowerOf[a] : a \in addrs}

\* _scope_addresses: the addresses an account may read the mails of.
ScopeAddresses(account) ==
  CASE account.role = "admin"   -> Everything
    [] account.role = "auditor" -> LowerAll(account.audited)
    [] account.role = "user"    -> LowerAll({account.email} \cap Address)

\* _restriction_filter: a term query on keyword fields compares exactly.
SearchMatches(parties, scope) ==
  scope = Everything \/ LowerAll(scope) \cap parties # {}

\* _can_access
CanAccess(parties, scope) ==
  scope = Everything \/ LowerAll(scope) \cap LowerAll(parties) # {}

\* Mutant: the addresses of the event are compared as they are written.
EventVisibleExactly(parties, account) ==
  LET scope == ScopeAddresses(account)
  IN  scope = Everything \/ scope \cap parties # {}

\* _event_visible
EventVisible(parties, account) ==
  LET scope == ScopeAddresses(account)
  IN  scope = Everything \/ scope \cap LowerAll(parties) # {}
=============================================================================
