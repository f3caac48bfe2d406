------------------------- MODULE MC_ArchivePipeline -------------------------
(* ArchivePipeline on small instances: the mails of a .cfg are a subset of  *)
(* the five below.                                                         *)
EXTENDS ArchivePipeline, TLC

CONSTANTS plain,    \* no attachment
          variant,  \* differs from plain only outside the fingerprint
          ab, ba,   \* two mails with the same two attachments, in either order
          bad,      \* makes parse() raise
          h1, h2, h3, a1, a2

Fingerprints ==
  [m \in Mail |-> CASE m \in {plain, variant, bad} -> h1
                    [] m = ab -> h2
                    [] m = ba -> h3]

Attachments ==
  [m \in Mail |-> CASE m = ab -> <<a1, a2>>
                    [] m = ba -> <<a2, a1>>
                    [] OTHER -> << >>]

MalformedMails == Mail \cap {bad}

\* Outages happen to a mail that stays alone; transactions that wait for each
\* other, when two are published before any is delivered.  Both at once would be
\* too many states.
OutagesAlone ==
  /\ PipelineNext
  /\ (\E w \in Worker : Outage(w)) => \E c \in Copy : place[c] = "unsent"
  /\ (\E c \in Copy : place[c] # place'[c] /\ place[c] = "unsent") =>
       \A c \in Copy : place[c] \in {"unsent", "ready"} /\ ~redelivered[c]
LiveSpec == PipelineInit /\ [][OutagesAlone]_pipelineVars /\ PipelineFairness

Interchangeable == Permutations(Copy) \cup Permutations(Worker)
=============================================================================
