--------------------------- MODULE RetainedArchive ---------------------------
(***************************************************************************)
(* What the archive promises of a message from the commit to the end of    *)
(* its retention, without queue, workers, tables, locks or transactions: a *)
(* fingerprint is kept once, with a body that can be read; a message stays *)
(* until its retention has run out; then body, index and row may go, at    *)
(* different times.                                                        *)
(***************************************************************************)
EXTENDS Naturals

CONSTANTS Hash, RetentionDays

VARIABLES
  today,
  kept,      \* the messages: fingerprint and day
  readable,  \* fingerprints with a body in the store
  found      \* messages a search finds

vars == <<today, kept, readable, found>>

Init == today = 0 /\ kept = {} /\ readable = {} /\ found = {}

Over(m) == m.day + RetentionDays <= today

Midnight ==
  /\ today' = today + 1
  /\ UNCHANGED <<kept, readable, found>>

Store(h) ==
  /\ readable' = readable \cup {h}
  /\ UNCHANGED <<today, kept, found>>

\* A message is kept from the day its mail was taken in hand, which may be over.
Keep(h, day) ==
  /\ h \in readable /\ day <= today
  /\ \A m \in kept : m.hash # h
  /\ kept' = kept \cup {[hash |-> h, day |-> day]}
  /\ UNCHANGED <<today, readable, found>>

Index(m) ==
  /\ m \in kept
  /\ found' = found \cup {m}
  /\ UNCHANGED <<today, kept, readable>>

\* Only messages whose retention has run out lose their body, ...
Erase(m) ==
  /\ m \in kept /\ Over(m)
  /\ readable' = readable \ {m.hash}
  /\ UNCHANGED <<today, kept, found>>

\* ... their search document, at the earliest a day later ...
DropIndices ==
  /\ found' \subseteq found
  /\ \A m \in found \ found' : Over(m) /\ m.day + RetentionDays # today
  /\ UNCHANGED <<today, kept, readable>>

\* ... and their place.
Remove(gone) ==
  /\ \A m \in gone : Over(m)
  /\ kept' = kept \ gone /\ found' = found \ gone
  /\ UNCHANGED <<today, readable>>

Next ==
  \/ Midnight
  \/ \E h \in Hash : Store(h) \/ \E day \in 0..today : Keep(h, day)
  \/ \E m \in kept : Index(m) \/ Erase(m)
  \/ DropIndices
  \/ \E gone \in SUBSET kept : Remove(gone)

Spec == Init /\ [][Next]_vars

-----------------------------------------------------------------------------
\* One message of each fingerprint, readable until its retention has run out,
\* and nothing found that is not there.
RetentionKept ==
  /\ \A m, n \in kept : m.hash = n.hash => m = n
  /\ \A m \in kept : ~Over(m) => m.hash \in readable
  /\ found \subseteq kept
=============================================================================
