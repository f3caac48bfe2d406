---------------------------- MODULE MC_Collection ----------------------------
(* Collection on a small instance.                                         *)
EXTENDS Collection, TLC

CONSTANTS imap, pop, m1, m2, m3

Boxes == [m \in Mail |-> IF m = m3 THEN pop ELSE imap]
Protocols == [s \in Source |-> IF s = imap THEN "imap" ELSE "pop3"]

Filled == {SourceOf[m] : m \in {n \in Mail : box[n] # "absent"}}

\* Bounds: one mailbox has mails (m1 before m2), the other one does not answer;
\* requests, delete_after and deletion are of the former; both sources are there
\* first; if a mail is misread, it is m1, no source is deleted and no run fails
\* with a mail in hand.
OneMailbox ==
  /\ Cardinality(Filled) <= 1 /\ (box[m2] # "absent" => box[m1] # "absent")
  /\ Filled # {} => removing \subseteq Filled
  /\ \A r \in Runner : src[r] \in Filled \/ phase[r] \in {"idle", "list", "record"}
  /\ \A r \in Manual : src[r] \in Filled \cup {NoSource}
  /\ \A s \in Source : row[s] = "deleted" => s \in Filled
  /\ misread \subseteq {m1}
  /\ misread # {} => dropped = {} /\ \A s \in Source : row[s] # "deleted"
  /\ ((\E r \in Runner : phase[r] # "idle") \/ Filled # {}) => \A s \in Source : row[s] # "none"
=============================================================================
