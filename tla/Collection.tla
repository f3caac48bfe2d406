----------------------------- MODULE Collection -----------------------------
(***************************************************************************)
(* Collecting mails from IMAP and POP3 mailboxes: the scan of fetch-worker *)
(* (_scan) and an administrator's run of one source (run_fetch_source)     *)
(* fetch the mails (fetch_imap, fetch_pop3), publish them                  *)
(* (run_and_publish) and record how it went.                               *)
(*                                                                         *)
(* All mails of a run are fetched, and flagged or removed on the server,   *)
(* before the first of them is published.  What an IMAP server answers is  *)
(* not looked at: imaplib raises if it says BAD, and not if it says NO.    *)
(***************************************************************************)
EXTENDS FiniteSets, Naturals

CONSTANTS
  Source, Mail,
  SourceOf,      \* the mailbox each mail arrives in
  Protocol,      \* "imap" or "pop3"
  Scan,          \* the scheduler's job: one instance at a time
  Manual,        \* requests that run one source
  Reliable,      \* sources whose server and password are in order
  NoSource, NoMail

ASSUME CollectionAssumption ==
  /\ SourceOf \in [Mail -> Source] /\ Protocol \in [Source -> {"imap", "pop3"}]
  /\ Reliable \subseteq Source
  /\ Scan \notin Manual /\ NoSource \notin Source /\ NoMail \notin Mail

Runner == Manual \cup {Scan}

VARIABLES
  row,        \* the row of each source: not yet there, there, deleted
  removing,   \* sources with delete_after
  due,        \* sources that never ran or whose interval has elapsed
  box,        \* what the server says of each mail
  agenda,     \* sources the scan has read and not collected yet
  phase,      \* where each run is
  src,        \* its source
  todo,       \* mails it has listed and not fetched
  got,        \* mails it has fetched and not published
  flagging,   \* the mail it has fetched and not flagged
  marked,     \* mails its POP3 session will delete
  published,  \* how often each mail was published: never, once, more than once
  dropped,    \* history: mails a failing run had in hand
  misread,    \* history: mails in whose place a run took another answer
  overlapped  \* history: sources that two runs have collected at a time

serverVars == <<row, removing, due, box>>
sessionVars == <<phase, src, todo, got, flagging, marked>>
histories == <<published, dropped, misread, overlapped>>
collectionVars == <<serverVars, agenda, sessionVars, histories>>

MailsOf(s) == {m \in Mail : SourceOf[m] = s}

Phases == {"idle", "list", "fetch", "flag", "publish", "record"}

CollectionTypeOK ==
  /\ row \in [Source -> {"none", "there", "deleted"}]
  /\ removing \subseteq Source /\ due \subseteq Source
  /\ box \in [Mail -> {"absent", "new", "seen", "deleted", "gone"}]
  /\ agenda \subseteq Source
  /\ phase \in [Runner -> Phases]
  /\ src \in [Runner -> Source \cup {NoSource}]
  /\ todo \in [Runner -> SUBSET Mail] /\ got \in [Runner -> SUBSET Mail]
  /\ flagging \in [Runner -> Mail \cup {NoMail}] /\ marked \in [Runner -> SUBSET Mail]
  /\ published \in [Mail -> 0..2]
  /\ dropped \subseteq Mail /\ misread \subseteq Mail /\ overlapped \subseteq Source
  \* only a run of a source has anything in hand, and only of that source
  /\ \A r \in Runner :
       /\ phase[r] = "idle" <=> src[r] = NoSource
       /\ \A m \in todo[r] \cup got[r] \cup marked[r] : SourceOf[m] = src[r]
       /\ phase[r] = "flag" <=> flagging[r] # NoMail
       /\ flagging[r] # NoMail => flagging[r] \in (got[r] \cup misread) \cap MailsOf(src[r])

CollectionInit ==
  /\ row = [s \in Source |-> "none"] /\ removing = {} /\ due = {}
  /\ box = [m \in Mail |-> "absent"] /\ agenda = {}
  /\ phase = [r \in Runner |-> "idle"] /\ src = [r \in Runner |-> NoSource]
  /\ todo = [r \in Runner |-> {}] /\ got = [r \in Runner |-> {}]
  /\ flagging = [r \in Runner |-> NoMail] /\ marked = [r \in Runner |-> {}]
  /\ published = [m \in Mail |-> 0] /\ dropped = {} /\ misread = {} /\ overlapped = {}

Imap(r) == Protocol[src[r]] = "imap"
Removes(r) == src[r] \in removing

-----------------------------------------------------------------------------
(* Mailboxes, time, and the administration of the sources                  *)

Arrive(m) ==
  /\ box[m] = "absent" /\ box' = [box EXCEPT ![m] = "new"]
  /\ UNCHANGED <<row, removing, due, agenda, sessionVars, histories>>

\* last_run is None, or interval_minutes have passed.
Elapse(s) ==
  /\ row[s] = "there" /\ s \notin due /\ due' = due \cup {s}
  /\ UNCHANGED <<row, removing, box, agenda, sessionVars, histories>>

\* FetchSourceRepo.create
CreateSource(s) ==
  /\ row[s] = "none" /\ row' = [row EXCEPT ![s] = "there"] /\ due' = due \cup {s}
  /\ removing' \in {removing, removing \cup {s}}
  /\ UNCHANGED <<box, agenda, sessionVars, histories>>

\* FetchSourceRepo.delete; a run of the source goes on.
DeleteSource(s) ==
  /\ row[s] = "there" /\ row' = [row EXCEPT ![s] = "deleted"] /\ due' = due \ {s}
  /\ UNCHANGED <<removing, box, agenda, sessionVars, histories>>

-----------------------------------------------------------------------------
(* A run                                                                   *)

Start(r, s) ==
  /\ phase[r] = "idle"
  /\ phase' = [phase EXCEPT ![r] = "list"] /\ src' = [src EXCEPT ![r] = s]
  /\ overlapped' = IF \E other \in Runner \ {r} : src[other] = s
                     THEN overlapped \cup {s} ELSE overlapped
  /\ UNCHANGED <<serverVars, todo, got, flagging, marked, published, dropped,
                 misread>>

\* _scan reads the sources that are due.
ScanBegins ==
  /\ phase[Scan] = "idle" /\ agenda = {} /\ due # {} /\ agenda' = due
  /\ UNCHANGED <<serverVars, sessionVars, histories>>

\* _scan, the loop over them.
ScanNext(s) == s \in agenda /\ agenda' = agenda \ {s} /\ Start(Scan, s)

\* run_fetch_source
ManualBegins(r, s) == r \in Manual /\ row[s] = "there" /\ Start(r, s) /\ UNCHANGED agenda

\* Mutant: the search is not limited to UNSEEN.
ListedAll(r) == {m \in MailsOf(src[r]) : box[m] \notin {"absent", "gone"}}

\* Mutant: the mails of every folder are listed.
ListedAnywhere(r) == {m \in Mail : box[m] = "new"}

\* search(None, "UNSEEN"); list()
Listed(r) ==
  {m \in MailsOf(src[r]) : IF Imap(r) THEN box[m] = "new" ELSE box[m] \notin {"absent", "gone"}}

\* A POP3 server lets one session at a time have a mailbox.
MailboxLocked(r) ==
  ~Imap(r) /\ \E other \in Runner \ {r} : src[other] = src[r] /\ phase[other] \in {"fetch", "flag"}

\* login, select and search; user, pass_ and list.  (A SELECT or SEARCH answered NO
\* makes the next command illegal, which raises: Fails.)
List(r) ==
  /\ phase[r] = "list"
  /\ IF MailboxLocked(r)
       THEN phase' = [phase EXCEPT ![r] = "record"] /\ UNCHANGED todo
       ELSE phase' = [phase EXCEPT ![r] = "fetch"] /\ todo' = [todo EXCEPT ![r] = Listed(r)]
  /\ UNCHANGED <<serverVars, agenda, src, got, flagging, marked, histories>>

\* What FETCH (RFC822) and RETR leave on the server: the former sets \Seen.
Fetched(r, m) == IF Imap(r) /\ box[m] = "new" THEN "seen" ELSE box[m]

\* The next mail of the list is asked for.
Asks(r, m) ==
  /\ phase[r] = "fetch" /\ m \in todo[r]
  /\ todo' = [todo EXCEPT ![r] = @ \ {m}]
  /\ UNCHANGED <<row, removing, due, agenda, src, marked, published, dropped, overlapped>>

ThenFlags(r, m) == phase' = [phase EXCEPT ![r] = "flag"] /\ flagging' = [flagging EXCEPT ![r] = m]

\* It is fetched.  (A store(+FLAGS \Seen) that follows a FETCH has nothing to do.)
Fetch(r, m) ==
  /\ Asks(r, m) /\ box[m] # "gone"
  /\ box' = [box EXCEPT ![m] = Fetched(r, m)] /\ got' = [got EXCEPT ![r] = @ \cup {m}]
  /\ IF Removes(r) THEN ThenFlags(r, m) ELSE UNCHANGED <<phase, flagging>>
  /\ UNCHANGED misread

\* A NO, or flags that another session has set, where the mail should be: d[0]
\* is a line of text, and d[0][1], a byte of it, goes on to be published (or makes
\* the publication fail).  The mail is flagged all the same.
FetchMisread(r, m) ==
  /\ Asks(r, m) /\ Imap(r)
  /\ box' \in {box, [box EXCEPT ![m] = Fetched(r, m)]} /\ misread' = misread \cup {m}
  /\ ThenFlags(r, m)
  /\ UNCHANGED got

\* Nothing comes back: a mail that another session has expunged.
FetchNothing(r, m) ==
  /\ Asks(r, m) /\ Imap(r) /\ box[m] = "gone"
  /\ UNCHANGED <<box, phase, got, flagging, misread>>

\* What STORE sets: \Deleted, or \Seen.
Stored(r, m) ==
  IF box[m] = "gone" THEN "gone" ELSE IF Removes(r) THEN "deleted" ELSE Fetched(r, m)

\* store(+FLAGS), which may be answered NO, or dele
Flag(r) ==
  /\ phase[r] = "flag"
  /\ phase' = [phase EXCEPT ![r] = "fetch"] /\ flagging' = [flagging EXCEPT ![r] = NoMail]
  /\ LET m == flagging[r] IN
       IF Imap(r)
         THEN /\ box' \in {box, [box EXCEPT ![m] = Stored(r, m)]}
              /\ UNCHANGED marked
         ELSE marked' = [marked EXCEPT ![r] = @ \cup {m}] /\ UNCHANGED box
  /\ UNCHANGED <<row, removing, due, agenda, src, todo, got, histories>>

\* Mutant: every mail of the folder is removed, not only those fetched.
ExpungedAll(r) == {m \in MailsOf(src[r]) : Imap(r) /\ Removes(r) /\ box[m] # "absent"}

\* EXPUNGE takes every mail of the folder that is flagged, whoever flagged it.
Expunged(r) == {m \in MailsOf(src[r]) : Imap(r) /\ Removes(r) /\ box[m] = "deleted"}

Without(mails) == [m \in Mail |-> IF m \in mails THEN "gone" ELSE box[m]]

\* expunge, which may be answered NO, and logout; or quit, whose error is ignored.
Close(r) ==
  /\ phase[r] = "fetch" /\ todo[r] = {}
  /\ phase' = [phase EXCEPT ![r] = "publish"] /\ marked' = [marked EXCEPT ![r] = {}]
  /\ box' \in {box, Without(Expunged(r) \cup marked[r])}
  /\ UNCHANGED <<row, removing, due, agenda, src, todo, got, flagging, histories>>

\* publish_raw_mail, one mail after the other
Publish(r, m) ==
  /\ phase[r] = "publish" /\ m \in got[r]
  /\ got' = [got EXCEPT ![r] = @ \ {m}]
  /\ published' = [published EXCEPT ![m] = IF @ = 2 THEN 2 ELSE @ + 1]
  /\ UNCHANGED <<serverVars, agenda, phase, src, todo, flagging, marked, dropped, misread,
                 overlapped>>

Published(r) ==
  /\ phase[r] = "publish" /\ got[r] = {} /\ phase' = [phase EXCEPT ![r] = "record"]
  /\ UNCHANGED <<serverVars, agenda, src, todo, got, flagging, marked, histories>>

\* The run is over and has nothing in hand.
Over(r) ==
  /\ phase' = [phase EXCEPT ![r] = "idle"] /\ src' = [src EXCEPT ![r] = NoSource]
  /\ todo' = [todo EXCEPT ![r] = {}] /\ got' = [got EXCEPT ![r] = {}]
  /\ flagging' = [flagging EXCEPT ![r] = NoMail] /\ marked' = [marked EXCEPT ![r] = {}]
  /\ dropped' = dropped \cup got[r]
  /\ UNCHANGED <<row, removing, published, misread, overlapped>>

\* last_run of a source that is still there
Record(r) ==
  /\ phase[r] = "record" /\ due' = due \ {src[r]} /\ Over(r)
  /\ UNCHANGED <<box, agenda>>

-----------------------------------------------------------------------------
(* Failures                                                                *)

Working(r) == phase[r] \in {"list", "fetch", "flag", "publish"}

\* The server, the connection or the broker fails: the mails in hand are
\* forgotten.  The mail being fetched may be marked \Seen already, and quit(),
\* called all the same, may delete what the POP3 session has marked.
Fail(r) ==
  /\ Working(r)
  /\ phase' = [phase EXCEPT ![r] = "record"]
  /\ todo' = [todo EXCEPT ![r] = {}] /\ got' = [got EXCEPT ![r] = {}]
  /\ flagging' = [flagging EXCEPT ![r] = NoMail] /\ marked' = [marked EXCEPT ![r] = {}]
  /\ \E quits \in BOOLEAN, asked \in SUBSET todo[r] :
       /\ Cardinality(asked) <= 1
       /\ box' = [m \in Mail |-> IF quits /\ m \in marked[r] THEN "gone"
                                 ELSE IF m \in asked THEN Fetched(r, m) ELSE box[m]]
       /\ dropped' = dropped \cup got[r] \cup asked
  /\ UNCHANGED <<row, removing, due, src, published, misread, overlapped>>

\* Mutant: the scan ends with the source that failed.
FailsScan(r) == Fail(r) /\ agenda' = IF r = Scan THEN {} ELSE agenda

\* _scan and run_fetch_source catch it; the scan goes on with the next source.
Fails(r) == Fail(r) /\ UNCHANGED agenda

\* The database fails where the run is recorded: the scan is given up.
RecordFails(r) ==
  /\ phase[r] = "record" /\ Over(r)
  /\ agenda' = IF r = Scan THEN {} ELSE agenda
  /\ UNCHANGED <<due, box>>

\* fetch-worker or the API stops; nothing says quit.
Stops(r) ==
  /\ phase[r] # "idle" /\ Over(r)
  /\ agenda' = IF r = Scan THEN {} ELSE agenda
  /\ UNCHANGED <<due, box>>

-----------------------------------------------------------------------------
RunStep(r) ==
  \/ List(r) \/ Close(r) \/ Published(r) \/ Record(r) \/ Flag(r)
  \/ \E m \in Mail :
       Fetch(r, m) \/ FetchMisread(r, m) \/ FetchNothing(r, m) \/ Publish(r, m)

ScanStep == ScanBegins \/ \E s \in Source : ScanNext(s)

CollectionNext ==
  \/ \E m \in Mail : Arrive(m)
  \/ \E s \in Source : Elapse(s) \/ CreateSource(s) \/ DeleteSource(s)
  \/ ScanStep
  \/ \E r \in Runner :
       \/ \E s \in Source : ManualBegins(r, s)
       \/ RunStep(r) \/ Fails(r) \/ RecordFails(r) \/ Stops(r)

CollectionSpec == CollectionInit /\ [][CollectionNext]_collectionVars

\* Servers answer (the code sets no time limit of its own), the clock and the
\* scheduler go on, reliable sources fail or answer something else finitely
\* often, and the database and the processes fail finitely often.  Nothing is
\* said of the other sources.
FairCollectionSpec ==
  /\ CollectionSpec
  /\ WF_collectionVars(ScanStep)
  /\ \A r \in Runner : WF_collectionVars(RunStep(r))
  /\ \A s \in Reliable : WF_collectionVars(Elapse(s))
  /\ <>[][\A r \in Runner :
              /\ src[r] \in Reliable => ~Fails(r) /\ \A m \in Mail : ~FetchMisread(r, m)
              /\ ~RecordFails(r) /\ ~Stops(r)]_collectionVars

-----------------------------------------------------------------------------
\* Nothing will collect the mail again, no run has it in hand, and it was not
\* published.
Lost(m) ==
  /\ published[m] = 0 /\ \A r \in Runner : m \notin got[r]
  /\ box[m] \in IF Protocol[SourceOf[m]] = "imap" THEN {"seen", "deleted", "gone"} ELSE {"gone"}

\* A mail is lost only if a run failed with it in hand, or took another answer of
\* the server for it: two sessions in one mailbox, one of which expunges what the
\* other has flagged, lose nothing, nor do a STORE and an EXPUNGE answered NO.
LossNeedsAFailure == \A m \in Mail : Lost(m) => m \in dropped \cup misread

\* A mail of an IMAP mailbox is published once, but for two runs of the source
\* at a time.
CollectedOnce ==
  \A m \in Mail :
    published[m] = 2 /\ Protocol[SourceOf[m]] = "imap" => SourceOf[m] \in overlapped

\* Sources are independent: the mails of a reliable one are published, or were in
\* the hands of a run that failed or misread, whatever the other sources do.
ReliableSourcesAreCollected ==
  \A m \in Mail : SourceOf[m] \in Reliable =>
    (box[m] = "new" /\ row[SourceOf[m]] = "there" ~>
       published[m] > 0 \/ m \in dropped \cup misread \/ row[SourceOf[m]] = "deleted")
=============================================================================
