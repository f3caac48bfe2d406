---------------------------- MODULE TransferProofs ----------------------------
(***************************************************************************)
(* Theorems about the mails that come from mailboxes (Collection) and those *)
(* that are sent back to one (RestoreJobs).                                *)
(***************************************************************************)
EXTENDS Collection, RestoreJobs, FiniteSetTheorems, WellFoundedInduction, TLAPS

-----------------------------------------------------------------------------
(* Collection                                                              *)

\* What a POP3 session will delete is in hand; an IMAP session marks nothing.
\* The mail that is to be flagged has been asked for.
MarksAreHeld ==
  \A r \in Runner :
    /\ marked[r] \subseteq got[r]
    /\ marked[r] # {} => ~Imap(r) /\ phase[r] \in {"fetch", "flag"}
    /\ flagging[r] # NoMail => flagging[r] \notin todo[r] /\ (Imap(r) \/ flagging[r] \in got[r])

\* A mail of an IMAP mailbox that has had one run at a time: what is listed is
\* new, what is in hand was not published, what is new is neither.
HandledOnce(m) ==
  Protocol[SourceOf[m]] = "imap" /\ SourceOf[m] \notin overlapped =>
    /\ \A r, t \in Runner : src[r] = SourceOf[m] /\ src[t] = SourceOf[m] => r = t
    /\ box[m] \in {"absent", "new"} => published[m] = 0 /\ \A r \in Runner : m \notin got[r]
    /\ \A r \in Runner : /\ m \in todo[r] => box[m] = "new"
                         /\ m \in got[r] => published[m] = 0
    /\ published[m] # 2

CollectionInv ==
  CollectionTypeOK /\ MarksAreHeld /\ LossNeedsAFailure /\ \A m \in Mail : HandledOnce(m)

LEMMA CollectionInitially == CollectionInit => CollectionInv
<1> SUFFICES ASSUME CollectionInit PROVE CollectionInv
    OBVIOUS
<1> USE CollectionAssumption DEF CollectionInit
<1>1. CollectionTypeOK
      BY DEF CollectionTypeOK, Phases
<1>2. MarksAreHeld /\ \A m \in Mail : HandledOnce(m)
      BY DEF MarksAreHeld, HandledOnce
<1>3. LossNeedsAFailure
      BY DEF LossNeedsAFailure, Lost
<1> QED BY <1>1, <1>2, <1>3 DEF CollectionInv

\* Types.
LEMMA CollectionTypesKept ==
  CollectionTypeOK /\ [CollectionNext]_collectionVars => CollectionTypeOK'
<1> SUFFICES ASSUME CollectionTypeOK, [CollectionNext]_collectionVars PROVE CollectionTypeOK'
    OBVIOUS
<1> USE CollectionAssumption DEF CollectionTypeOK, Phases, serverVars, sessionVars, histories
<1>1. ASSUME NEW m \in Mail, Arrive(m) PROVE CollectionTypeOK'
      BY <1>1 DEF Arrive
<1>2. ASSUME NEW s \in Source, Elapse(s) \/ CreateSource(s) \/ DeleteSource(s)
      PROVE CollectionTypeOK'
      BY <1>2 DEF Elapse, CreateSource, DeleteSource
<1>3. ASSUME NEW r \in Runner, NEW s \in Source, Start(r, s), agenda' \subseteq Source
      PROVE CollectionTypeOK'
      BY <1>3 DEF Start
<1>4. CASE ScanStep
      BY <1>3, <1>4 DEF ScanStep, ScanBegins, ScanNext, Runner
<1>5. ASSUME NEW r \in Runner, NEW s \in Source, ManualBegins(r, s) PROVE CollectionTypeOK'
      BY <1>3, <1>5 DEF ManualBegins
<1>6. ASSUME NEW r \in Runner, List(r) PROVE CollectionTypeOK'
      BY <1>6 DEF List, Listed, MailsOf
<1>7. ASSUME NEW r \in Runner, NEW m \in Mail, Fetch(r, m) \/ FetchMisread(r, m) \/ FetchNothing(r, m)
      PROVE  CollectionTypeOK'
  <2> USE DEF Asks, ThenFlags, Fetched, Imap, MailsOf
  <2>1. CASE Fetch(r, m)
        BY <2>1 DEF Fetch
  <2>2. CASE FetchMisread(r, m)
        BY <2>2 DEF FetchMisread
  <2>3. CASE FetchNothing(r, m)
        BY <2>3 DEF FetchNothing
  <2> QED BY <1>7, <2>1, <2>2, <2>3
<1>8. ASSUME NEW r \in Runner, Flag(r) PROVE CollectionTypeOK'
  <2>1. flagging[r] \in Mail /\ UNCHANGED misread
        BY <1>8 DEF Flag
  <2>2. Stored(r, flagging[r]) \in {"absent", "new", "seen", "deleted", "gone"}
        BY <2>1 DEF Stored, Fetched
  <2>3. box' \in [Mail -> {"absent", "new", "seen", "deleted", "gone"}]
        BY <1>8, <2>1, <2>2 DEF Flag
  <2>4. marked' \in [Runner -> SUBSET Mail] /\ marked'[r] \subseteq marked[r] \cup {flagging[r]}
        BY <1>8, <2>1 DEF Flag
  <2>5. SourceOf[flagging[r]] = src[r]
        BY <1>8 DEF Flag, MailsOf
  <2> HIDE DEF Phases
  <2>6. phase' \in [Runner -> Phases]
        BY <1>8 DEF Flag, Phases
  <2>7. UNCHANGED <<row, removing, due, agenda, src, todo, got, published, dropped, misread, overlapped>>
        BY <1>8 DEF Flag
  <2>8. flagging' = [flagging EXCEPT ![r] = NoMail] /\ phase' = [phase EXCEPT ![r] = "fetch"]
        BY <1>8 DEF Flag
  <2>9. \A t \in Runner : t # r => marked'[t] = marked[t]
        BY <1>8, <2>1 DEF Flag
  <2>10. phase[r] = "flag"
        BY <1>8 DEF Flag
  <2> QED BY <2>1, <2>3, <2>4, <2>5, <2>6, <2>7, <2>8, <2>9, <2>10
<1>9. ASSUME NEW r \in Runner, Close(r) PROVE CollectionTypeOK'
      BY <1>9 DEF Close, Without
<1>10. ASSUME NEW r \in Runner, NEW m \in Mail, Publish(r, m) PROVE CollectionTypeOK'
      BY <1>10 DEF Publish
<1>11. ASSUME NEW r \in Runner, Published(r) PROVE CollectionTypeOK'
      BY <1>11 DEF Published
<1>12. ASSUME NEW r \in Runner, Over(r), agenda' \subseteq Source, due' \subseteq Source, box' = box
       PROVE CollectionTypeOK'
      BY <1>12 DEF Over
<1>13. ASSUME NEW r \in Runner, Record(r) \/ RecordFails(r) \/ Stops(r) PROVE CollectionTypeOK'
      BY <1>12, <1>13 DEF Record, RecordFails, Stops
<1>14. ASSUME NEW r \in Runner, Fails(r) PROVE CollectionTypeOK'
      BY <1>14 DEF Fails, Fail, Fetched, Working
<1>15. CASE UNCHANGED collectionVars
      BY <1>15 DEF collectionVars
<1> QED BY <1>1, <1>2, <1>4, <1>5, <1>6, <1>7, <1>8, <1>9, <1>10, <1>11, <1>13, <1>14, <1>15
        DEF CollectionNext, RunStep

\* Steps between a run's beginnings and ends.
LEMMA MarksKept ==
  CollectionTypeOK /\ MarksAreHeld /\ [CollectionNext]_collectionVars => MarksAreHeld'
<1> SUFFICES ASSUME CollectionTypeOK, MarksAreHeld, [CollectionNext]_collectionVars
             PROVE  MarksAreHeld'
    OBVIOUS
<1> USE DEF CollectionTypeOK, MarksAreHeld, Imap, serverVars, sessionVars, histories
<1>1. ASSUME UNCHANGED sessionVars PROVE MarksAreHeld'
      BY <1>1
<1>2. ASSUME NEW r \in Runner, NEW s \in Source, Start(r, s) PROVE MarksAreHeld'
      BY <1>2 DEF Start
<1>3. ASSUME NEW r \in Runner, List(r) PROVE MarksAreHeld'
      BY <1>3 DEF List
<1>4. ASSUME NEW r \in Runner, NEW m \in Mail, Fetch(r, m) \/ FetchMisread(r, m) \/ FetchNothing(r, m)
      PROVE  MarksAreHeld'
      BY <1>4 DEF Fetch, FetchMisread, FetchNothing, Asks, ThenFlags
<1>5. ASSUME NEW r \in Runner, Flag(r) PROVE MarksAreHeld'
      BY <1>5 DEF Flag
<1>6. ASSUME NEW r \in Runner, Close(r) PROVE MarksAreHeld'
      BY <1>6 DEF Close
<1>7. ASSUME NEW r \in Runner, NEW m \in Mail, Publish(r, m) PROVE MarksAreHeld'
      BY <1>7 DEF Publish
<1>8. ASSUME NEW r \in Runner, Published(r) PROVE MarksAreHeld'
      BY <1>8 DEF Published
<1>9. ASSUME NEW r \in Runner, Over(r) PROVE MarksAreHeld'
      BY <1>9 DEF Over
<1>10. ASSUME NEW r \in Runner, Fail(r) PROVE MarksAreHeld'
      BY <1>10 DEF Fail
<1> QED BY <1>1, <1>2, <1>3, <1>4, <1>5, <1>6, <1>7, <1>8, <1>9, <1>10
        DEF CollectionNext, ScanStep, ScanBegins, ScanNext, ManualBegins, RunStep, Record,
            RecordFails, Stops, Fails, Arrive, Elapse, CreateSource, DeleteSource, collectionVars,
            Runner

\* What a failure does to the mailbox is done to mails the run had in hand.
LEMMA FailsInHand ==
  ASSUME NEW r \in Runner, Fail(r)
  PROVE  \E asked \in SUBSET todo[r] :
           /\ dropped' = dropped \cup got[r] \cup asked
           /\ \A m \in Mail : box'[m] = box[m] \/ m \in marked[r] \/ m \in asked
<1>1. PICK quits \in BOOLEAN, asked \in SUBSET todo[r] :
        /\ box' = [m \in Mail |-> IF quits /\ m \in marked[r] THEN "gone"
                                  ELSE IF m \in asked THEN Fetched(r, m) ELSE box[m]]
        /\ dropped' = dropped \cup got[r] \cup asked
      BY Zenon DEF Fail
<1>2. ASSUME NEW m \in Mail PROVE box'[m] = box[m] \/ m \in marked[r] \/ m \in asked
      BY <1>1
<1> QED BY <1>1, <1>2

\* Nothing is lost without a failure or a misread answer.
LEMMA LossesKept ==
  CollectionTypeOK /\ MarksAreHeld /\ LossNeedsAFailure /\ [CollectionNext]_collectionVars
    => LossNeedsAFailure'
<1> SUFFICES ASSUME CollectionTypeOK, MarksAreHeld, LossNeedsAFailure,
                    [CollectionNext]_collectionVars
             PROVE  LossNeedsAFailure'
    OBVIOUS
<1> USE CollectionAssumption
    DEF CollectionTypeOK, MarksAreHeld, LossNeedsAFailure, Lost, Imap, serverVars, sessionVars,
        histories
<1>1. ASSUME UNCHANGED <<box, got, published, dropped, misread>> PROVE LossNeedsAFailure'
      BY <1>1
<1>2. ASSUME NEW m \in Mail, Arrive(m) PROVE LossNeedsAFailure'
      BY <1>2 DEF Arrive
<1>3. ASSUME NEW r \in Runner, NEW m \in Mail, Fetch(r, m) \/ FetchMisread(r, m) \/ FetchNothing(r, m)
      PROVE  LossNeedsAFailure'
  <2>1. UNCHANGED <<published, dropped>> /\ misread \subseteq misread'
        BY <1>3 DEF Fetch, FetchMisread, FetchNothing, Asks
  <2>2. \A n \in Mail : n # m => box'[n] = box[n]
        BY <1>3 DEF Fetch, FetchMisread, FetchNothing
  <2>3. got' = got \/ got' = [got EXCEPT ![r] = @ \cup {m}]
        BY <1>3 DEF Fetch, FetchMisread, FetchNothing
  <2>4. m \in got'[r] \cup misread' \/ box' = box
        BY <1>3 DEF Fetch, FetchMisread, FetchNothing
  <2>5. \A t \in Runner, n \in Mail : n \in got[t] => n \in got'[t]
        BY <2>3
  <2> QED BY <2>1, <2>2, <2>4, <2>5
<1>4. ASSUME NEW r \in Runner, Flag(r) PROVE LossNeedsAFailure'
  <2>1. flagging[r] \in got[r] \cup misread /\ flagging[r] \in Mail
        BY <1>4 DEF Flag
  <2>2. \A m \in Mail : m # flagging[r] => box'[m] = box[m]
        BY <1>4 DEF Flag
  <2>3. UNCHANGED <<got, published, dropped, misread>>
        BY <1>4 DEF Flag
  <2> QED BY <2>1, <2>2, <2>3
<1>5. ASSUME NEW r \in Runner, Close(r) PROVE LossNeedsAFailure'
  <2>1. \A m \in Mail : \/ box'[m] = box[m] \/ m \in marked[r]
                        \/ box[m] = "deleted" /\ Protocol[SourceOf[m]] = "imap"
        BY <1>5 DEF Close, Without, Expunged, MailsOf
  <2> QED BY <1>5, <2>1 DEF Close
<1>6. ASSUME NEW r \in Runner, NEW m \in Mail, Publish(r, m) PROVE LossNeedsAFailure'
  <2>1. \A n \in Mail : published[n] # 0 => published'[n] # 0
        BY <1>6 DEF Publish
  <2>2. published'[m] # 0
        BY <1>6 DEF Publish
  <2>3. \A n \in Mail : Lost(n)' => n # m /\ Lost(n)
        BY <1>6, <2>1, <2>2 DEF Publish
  <2> QED BY <1>6, <2>3 DEF Publish
<1>7. ASSUME NEW r \in Runner, Over(r), UNCHANGED box PROVE LossNeedsAFailure'
      BY <1>7 DEF Over
<1>8. ASSUME NEW r \in Runner, Fail(r) PROVE LossNeedsAFailure'
  <2>1. PICK asked \in SUBSET todo[r] :
          /\ dropped' = dropped \cup got[r] \cup asked
          /\ \A m \in Mail : box'[m] = box[m] \/ m \in marked[r] \/ m \in asked
        BY <1>8, FailsInHand
  <2>2. \A m \in Mail : box'[m] = box[m] \/ m \in dropped'
        BY <2>1
  <2>3. dropped \cup got[r] \subseteq dropped'
        BY <2>1
  <2> QED BY <1>8, <2>2, <2>3 DEF Fail
<1> QED BY <1>1, <1>2, <1>3, <1>4, <1>5, <1>6, <1>7, <1>8
        DEF CollectionNext, ScanStep, ScanBegins, ScanNext, ManualBegins, Start, RunStep, List,
            Published, Record, RecordFails, Stops, Fails, Elapse, CreateSource, DeleteSource,
            collectionVars, Runner

\* A mail is handled once by runs that do not overlap.
LEMMA HandlingKept ==
  ASSUME CollectionTypeOK, MarksAreHeld, [CollectionNext]_collectionVars,
         NEW n \in Mail, HandledOnce(n)
  PROVE  HandledOnce(n)'
<1> USE CollectionAssumption
    DEF CollectionTypeOK, MarksAreHeld, HandledOnce, Imap, serverVars, sessionVars, histories
<1>1. ASSUME UNCHANGED <<box, todo, got, src, published, overlapped>> PROVE HandledOnce(n)'
      BY <1>1
<1>2. ASSUME NEW m \in Mail, Arrive(m) PROVE HandledOnce(n)'
      BY <1>2 DEF Arrive
<1>3. ASSUME NEW r \in Runner, NEW s \in Source, Start(r, s) PROVE HandledOnce(n)'
      BY <1>3 DEF Start
<1>4. ASSUME NEW r \in Runner, List(r) PROVE HandledOnce(n)'
      BY <1>4 DEF List, Listed, MailsOf
<1>5. ASSUME NEW r \in Runner, NEW m \in Mail, Fetch(r, m) \/ FetchMisread(r, m) \/ FetchNothing(r, m)
      PROVE  HandledOnce(n)'
      BY <1>5 DEF Fetch, FetchMisread, FetchNothing, Asks, Fetched
<1>6. ASSUME NEW r \in Runner, Flag(r) PROVE HandledOnce(n)'
  <2>1. UNCHANGED <<todo, got, src, published, overlapped>>
        BY <1>6 DEF Flag
  <2>2. flagging[r] \in Mail /\ SourceOf[flagging[r]] = src[r] /\ flagging[r] \notin todo[r]
        BY <1>6 DEF Flag, MailsOf
  <2>3. n # flagging[r] => box'[n] = box[n]
        BY <1>6 DEF Flag
  <2>4. box'[n] = box[n] \/ box'[n] \notin {"absent", "new"} \/ box[n] = "absent"
        BY <1>6, <2>2 DEF Flag, Stored, Fetched
  <2>5. n = flagging[r] => \A t \in Runner : src[t] = src[r] /\ n \in todo[t] => t # r
        BY <2>2
  <2>6. box[n] = "absent" => box'[n] \in {"absent", "deleted"}
        BY <1>6, <2>2 DEF Flag, Stored, Fetched
  <2> QED BY <2>1, <2>2, <2>3, <2>4, <2>5, <2>6
<1>7. ASSUME NEW r \in Runner, Close(r) PROVE HandledOnce(n)'
  <2>1. UNCHANGED <<todo, got, src, published, overlapped>>
        BY <1>7 DEF Close
  <2>2. Protocol[SourceOf[n]] = "imap" => n \notin marked[r]
        OBVIOUS
  <2>3. n \in marked[r] \/ box'[n] = box[n] \/ (box[n] = "deleted" /\ box'[n] = "gone")
        BY <1>7 DEF Close, Without, Expunged
  <2> QED BY <2>1, <2>2, <2>3
<1>8. ASSUME NEW r \in Runner, NEW m \in Mail, Publish(r, m) PROVE HandledOnce(n)'
  <2>1. m = n => published'[n] = IF published[n] = 2 THEN 2 ELSE published[n] + 1
        BY <1>8 DEF Publish
  <2>2. m # n => published'[n] = published[n]
        BY <1>8 DEF Publish
  <2>3. got' = [got EXCEPT ![r] = got[r] \ {m}] /\ m \in got[r] /\ SourceOf[m] = src[r]
        BY <1>8 DEF Publish
  <2> QED BY <1>8, <2>1, <2>2, <2>3 DEF Publish
<1>9. ASSUME NEW r \in Runner, Over(r), UNCHANGED box PROVE HandledOnce(n)'
      BY <1>9 DEF Over
<1>10. ASSUME NEW r \in Runner, Fail(r) PROVE HandledOnce(n)'
  <2>1. box'[n] = box[n] \/ n \in marked[r] \/ n \in todo[r]
        BY <1>10, FailsInHand
  <2> QED BY <1>10, <2>1 DEF Fail
<1> QED BY <1>1, <1>2, <1>3, <1>4, <1>5, <1>6, <1>7, <1>8, <1>9, <1>10
        DEF CollectionNext, ScanStep, ScanBegins, ScanNext, ManualBegins, RunStep,
            Published, Record, RecordFails, Stops, Fails, Elapse, CreateSource, DeleteSource,
            collectionVars, Runner

LEMMA CollectionInvariant == CollectionSpec => []CollectionInv
<1>1. CollectionInv /\ [CollectionNext]_collectionVars => CollectionInv'
      BY CollectionTypesKept, MarksKept, LossesKept, HandlingKept DEF CollectionInv
<1> QED BY <1>1, CollectionInitially, PTL DEF CollectionSpec

\* The state of sources, mailboxes and runs keeps its types.
THEOREM CollectionTypeCorrect == CollectionSpec => []CollectionTypeOK
  BY CollectionInvariant, PTL DEF CollectionInv

\* Any number of runs, scheduled or not, lose a mail only where one of them fails
\* or takes another answer of the server for it.
THEOREM CollectionLosesNothing == CollectionSpec => []LossNeedsAFailure
  BY CollectionInvariant, PTL DEF CollectionInv

\* Runs that do not overlap publish a mail of an IMAP mailbox once.
THEOREM CollectionIsOnce == CollectionSpec => []CollectedOnce
<1>1. CollectionInv => CollectedOnce
      BY DEF CollectionInv, HandledOnce, CollectedOnce
<1> QED BY <1>1, CollectionInvariant, PTL

-----------------------------------------------------------------------------
(* RestoreJobs: pages                                                      *)

LEMMA NaturalsHaveLeast ==
  ASSUME NEW S \in SUBSET Nat, S # {}
  PROVE  \E m \in S : \A n \in S : m <= n
<1>1. \E x \in S : \A y \in S : <<y, x>> \notin OpToRel(<, Nat)
      BY WFMin, NatLessThanWellFounded
<1>2. \A x, y \in Nat : y < x => <<y, x>> \in OpToRel(<, Nat)
      BY DEF OpToRel
<1>3. PICK m \in S : \A y \in S : <<y, m>> \notin OpToRel(<, Nat)
      BY <1>1
<1>4. ASSUME NEW n \in S PROVE m <= n
  <2>1. ~(n < m)
        BY <1>2, <1>3
  <2> QED BY <2>1
<1> QED BY <1>4

LEMMA LowestIsLeast ==
  ASSUME NEW S \in SUBSET Doc, S # {}
  PROVE  Lowest(S) \in S /\ \A e \in S : Lowest(S) <= e
<1>1. \E m \in S : \A n \in S : m <= n
      BY NaturalsHaveLeast, RestoreAssumption
<1> QED BY <1>1 DEF Lowest

\* PageAfter is the beginning of the hits after the cursor.
Below(d, hits) == {e \in hits : e < d}
Beginning(hits) == {d \in hits : Cardinality(Below(d, hits)) < PageSize}
HitsAfter(after) == {d \in indexed \cap Perimeter : d > after}

LEMMA PageIsBeginning == \A after : PageAfter(after) = Beginning(HitsAfter(after))
  BY DEF PageAfter, Beginning, HitsAfter, Below

LEMMA DocSets ==
  ASSUME NEW S \in SUBSET Doc
  PROVE  IsFiniteSet(S) /\ Cardinality(S) \in Nat /\ Cardinality(S) <= Cardinality(Doc)
  BY FS_Subset, FS_CardinalityType, RestoreAssumption

LEMMA RanksGrow ==
  ASSUME NEW hits \in SUBSET Doc, NEW d \in hits, NEW e \in hits, d < e
  PROVE  Cardinality(Below(d, hits)) < Cardinality(Below(e, hits))
<1>1. Below(d, hits) \in SUBSET Doc /\ Below(e, hits) \in SUBSET Doc
      BY DEF Below
<1>2. d \notin Below(d, hits)
      BY RestoreAssumption DEF Below
<1>3. Below(d, hits) \cup {d} \in SUBSET Below(e, hits)
  <2> SUFFICES ASSUME NEW c \in Below(d, hits) PROVE c \in hits /\ c < e
      BY DEF Below
  <2>1. hits \subseteq Nat
        BY RestoreAssumption
  <2> QED BY <2>1 DEF Below
<1>4. Cardinality(Below(d, hits) \cup {d}) = Cardinality(Below(d, hits)) + 1
      BY <1>1, <1>2, DocSets, FS_AddElement
<1>5. Cardinality(Below(d, hits) \cup {d}) <= Cardinality(Below(e, hits))
      BY <1>1, <1>3, DocSets, FS_Subset
<1> QED BY <1>1, <1>4, <1>5, DocSets

LEMMA PagesAreBounded ==
  ASSUME NEW hits \in SUBSET Doc
  PROVE  Cardinality(Beginning(hits)) <= PageSize
<1> DEFINE rank == [d \in Beginning(hits) |-> Cardinality(Below(d, hits))]
<1>1. \A d \in hits : Cardinality(Below(d, hits)) \in Nat
  <2>1. \A d \in hits : Below(d, hits) \in SUBSET Doc
        BY DEF Below
  <2> QED BY <2>1, DocSets
<1>2. PageSize \in Nat \ {0} /\ Doc \subseteq Nat
      BY RestoreAssumption
<1>3. rank \in [Beginning(hits) -> 0..(PageSize - 1)]
  <2> SUFFICES ASSUME NEW d \in Beginning(hits)
               PROVE  Cardinality(Below(d, hits)) \in 0..(PageSize - 1)
      OBVIOUS
  <2> QED BY <1>1, <1>2 DEF Beginning
<1>4. \A d, e \in Beginning(hits) : d # e => rank[d] # rank[e]
  <2> SUFFICES ASSUME NEW d \in Beginning(hits), NEW e \in Beginning(hits), d < e
               PROVE  rank[d] # rank[e]
      BY <1>2 DEF Beginning
  <2>1. Cardinality(Below(d, hits)) < Cardinality(Below(e, hits))
        BY RanksGrow DEF Beginning
  <2> QED BY <1>1, <2>1 DEF Beginning
<1>5. rank \in Injection(Beginning(hits), 0..(PageSize - 1))
      BY <1>3, <1>4 DEF Injection, IsInjective
<1>6. IsFiniteSet(0..(PageSize - 1)) /\ Cardinality(0..(PageSize - 1)) = PageSize
      BY <1>2, FS_Interval
<1> HIDE DEF rank
<1> QED BY <1>5, <1>6, FS_Injection

\* What a page leaves out comes after it, and the page is a full one then.
LEMMA RestComesLater ==
  ASSUME NEW hits \in SUBSET Doc, NEW d \in hits, d \notin Beginning(hits)
  PROVE  Cardinality(Beginning(hits)) = PageSize /\ \A e \in Beginning(hits) : e < d
<1>1. PageSize \in Nat \ {0} /\ Doc \subseteq Nat
      BY RestoreAssumption
<1>2. \A e \in hits : Below(e, hits) \in SUBSET Doc
      BY DEF Below
<1>3. \A e \in hits : Cardinality(Below(e, hits)) \in Nat
      BY <1>2, DocSets
<1>4. \A e \in Beginning(hits) : e < d
  <2> SUFFICES ASSUME NEW e \in Beginning(hits), d < e PROVE FALSE
      BY <1>1 DEF Beginning
  <2>1. Cardinality(Below(d, hits)) < Cardinality(Below(e, hits))
        BY RanksGrow DEF Beginning
  <2> QED BY <1>1, <1>3, <2>1 DEF Beginning
<1>5. PICK m \in hits \ Beginning(hits) : \A n \in hits \ Beginning(hits) : m <= n
      BY <1>1, NaturalsHaveLeast
<1>6. Below(m, hits) \in SUBSET Beginning(hits)
  <2> SUFFICES ASSUME NEW c \in hits, c < m, c \notin Beginning(hits) PROVE FALSE
      BY DEF Below
  <2>1. m <= c /\ hits \subseteq Nat
        BY <1>1, <1>5
  <2> QED BY <2>1
<1>7. Cardinality(Below(m, hits)) >= PageSize
      BY <1>1, <1>3 DEF Beginning
<1>8. Beginning(hits) \in SUBSET Doc
      BY DEF Beginning
<1>9. Cardinality(Below(m, hits)) <= Cardinality(Beginning(hits))
      BY <1>6, <1>8, DocSets, FS_Subset
<1> QED BY <1>1, <1>3, <1>4, <1>7, <1>8, <1>9, PagesAreBounded, DocSets

-----------------------------------------------------------------------------
(* RestoreJobs: executions                                                 *)

\* Types, without the bounds that rest on other parts of the invariant.
RestoreShape ==
  /\ status \in [Job -> {"none", "running", "done", "error"}]
  /\ sent \in [Job -> Nat] /\ queued \in [Job -> Places]
  /\ reachable \in BOOLEAN /\ indexed \subseteq Doc /\ stored \subseteq Doc
  /\ listening \subseteq Api
  /\ job \in [Api -> Job \cup {NoJob}] /\ attached \in [Api -> BOOLEAN]
  /\ step \in [Api -> Steps] /\ cursor \in [Api -> Doc \cup {0}]
  /\ page \in [Api -> SUBSET Doc] /\ pageLen \in [Api -> 0..PageSize]
  /\ count \in [Api -> Nat] /\ outages \in 0..MaxOutages
  /\ delivered \in [Job -> [Doc -> Nat]] /\ runs \in [Job -> Nat]
  /\ refused \in [Job -> SUBSET Doc] /\ \A j \in Job \ ToMailbox : refused[j] = {}
  /\ kept \in [Api -> SUBSET Doc]

\* What an execution has in hand at each of its steps.
InHand(a) ==
  /\ step[a] = "idle" <=> job[a] = NoJob
  /\ step[a] \in {"idle", "begin"} => cursor[a] = 0
  /\ page[a] # {} => step[a] \in {"read", "send", "error", "settle"}
  /\ step[a] \in {"read", "send"} => page[a] # {}
  /\ \A d \in page[a] : d > cursor[a]
  /\ kept[a] \subseteq indexed

Executions == RestoreShape /\ \A a \in Api : InHand(a)

LEMMA ExecutionsInitially == RestoreInit => Executions
  BY RestoreAssumption DEF RestoreInit, Executions, RestoreShape, InHand, Places, Steps

LEMMA ShapeKept == Executions /\ [RestoreNext]_restoreVars => RestoreShape'
<1> SUFFICES ASSUME Executions, [RestoreNext]_restoreVars PROVE RestoreShape'
    OBVIOUS
<1> USE DEF RestoreShape, Steps, Places, jobVars, indexVars, runVars, historyVars
<1>1. RestoreShape /\ \A a \in Api : InHand(a)
      BY DEF Executions
<1>0. PageSize \in Nat \ {0} /\ (Outage => outages' \in 0..MaxOutages)
      BY <1>1, RestoreAssumption DEF Outage
<1>2. ASSUME NEW j \in Job, CreateJob(j) \/ PublishJob(j) \/ PublishFails(j) PROVE RestoreShape'
      BY <1>1, <1>2 DEF CreateJob, PublishJob, PublishFails
<1>3. ASSUME NEW a \in Api, NEW j \in Job, Take(a, j) PROVE RestoreShape'
      BY <1>1, <1>3 DEF Take, TakeFrom
<1>4. ASSUME NEW a \in Api, Derive(a) \/ ReadPage(a) PROVE RestoreShape'
      BY <1>1, <1>4 DEF Derive, ReadPage, GoTo
<1>5. ASSUME NEW a \in Api, RunFails(a) PROVE RestoreShape'
      BY <1>0, <1>1, <1>5 DEF RunFails, GoTo
<1>6. ASSUME NEW a \in Api, SearchPage(a) PROVE RestoreShape'
  <2> DEFINE hits == PageAfter(cursor[a])
  <2>1. hits \in SUBSET Doc /\ Cardinality(hits) \in 0..PageSize
    <3>1. HitsAfter(cursor[a]) \in SUBSET Doc
          BY <1>1 DEF HitsAfter
    <3>2. hits = Beginning(HitsAfter(cursor[a])) /\ hits \in SUBSET Doc
          BY <3>1, PageIsBeginning DEF Beginning
    <3> QED BY <3>1, <3>2, PagesAreBounded, DocSets, RestoreAssumption
  <2> HIDE DEF hits
  <2>2. /\ page' = [page EXCEPT ![a] = hits]
        /\ pageLen' = [pageLen EXCEPT ![a] = Cardinality(hits)]
        /\ step' = [step EXCEPT ![a] = IF hits = {} THEN "done" ELSE "read"]
        /\ UNCHANGED <<jobVars, indexVars, listening, job, attached, cursor, count, outages,
                       historyVars>>
        BY <1>6 DEF SearchPage, hits
  <2> QED BY <1>1, <2>1, <2>2
<1>7. ASSUME NEW a \in Api, SendOne(a) PROVE RestoreShape'
  <2> DEFINE d == Lowest(page[a])
  <2>1. d \in Doc /\ job[a] \in Job
        BY <1>1, <1>7, LowestIsLeast DEF SendOne, InHand
  <2> HIDE DEF d
  <2>2. /\ \/ delivered' = [delivered EXCEPT ![job[a]][d] = @ + 1] /\ UNCHANGED refused
           \/ /\ job[a] \in ToMailbox /\ UNCHANGED delivered
              /\ refused' = [refused EXCEPT ![job[a]] = @ \cup {d}]
        /\ page' = [page EXCEPT ![a] = @ \ {d}]
        /\ cursor' = [cursor EXCEPT ![a] = d]
        /\ step' = [step EXCEPT ![a] = IF page[a] = {d} THEN "progress" ELSE @]
        /\ UNCHANGED <<jobVars, indexVars, listening, job, attached, pageLen, count, outages,
                       runs, kept>>
        BY <1>7 DEF SendOne, d
  <2>3. /\ delivered' \in [Job -> [Doc -> Nat]]
        /\ refused' \in [Job -> SUBSET Doc] /\ \A j \in Job \ ToMailbox : refused'[j] = {}
    <3>1. CASE delivered' = [delivered EXCEPT ![job[a]][d] = @ + 1] /\ UNCHANGED refused
          BY <1>1, <2>1, <3>1
    <3>2. CASE /\ job[a] \in ToMailbox /\ UNCHANGED delivered
               /\ refused' = [refused EXCEPT ![job[a]] = @ \cup {d}]
      <4>1. refused' \in [Job -> SUBSET Doc]
            BY <1>1, <2>1, <3>2
      <4>2. \A j \in Job \ ToMailbox : refused'[j] = {}
            BY <1>1, <3>2
      <4> QED BY <1>1, <3>2, <4>1, <4>2
    <3> QED BY <2>2, <3>1, <3>2
  <2> QED BY <1>1, <2>1, <2>2, <2>3
<1>8. ASSUME NEW a \in Api, Progress(a) PROVE RestoreShape'
  <2>1. Sent(a) \in Nat
        BY <1>0, <1>1 DEF Sent
  <2> QED BY <1>1, <1>8, <2>1 DEF Progress
<1>9. ASSUME NEW a \in Api, Finish(a) PROVE RestoreShape'
      BY <1>1, <1>9 DEF Finish
<1>10. ASSUME NEW a \in Api, NEW place \in Places, NEW lost \in BOOLEAN, Leave(a, place, lost),
              outages' \in 0..MaxOutages
       PROVE  RestoreShape'
  <2>1. /\ UNCHANGED <<status, sent, indexVars, delivered, refused, runs>>
        /\ queued' \in [Job -> Places] /\ listening' \subseteq Api
        BY <1>1, <1>10 DEF Leave
  <2>2. /\ job' \in [Api -> Job \cup {NoJob}] /\ attached' \in [Api -> BOOLEAN]
        /\ step' \in [Api -> Steps]
        BY <1>1, <1>10 DEF Leave
  <2>3. 0 \in 0..PageSize /\ 0 \in Nat
        BY <1>0
  <2>4. /\ cursor' \in [Api -> Doc \cup {0}] /\ count' \in [Api -> Nat]
        /\ page' \in [Api -> SUBSET Doc] /\ pageLen' \in [Api -> 0..PageSize]
        /\ kept' \in [Api -> SUBSET Doc]
        BY <1>1, <1>10, <2>3 DEF Leave
  <2> QED BY <1>1, <1>10, <2>1, <2>2, <2>4
<1>11. ASSUME NEW a \in Api, Settle(a) PROVE RestoreShape'
      BY <1>1, <1>10, <1>11 DEF Settle
<1>12. ASSUME NEW a \in Api, HandlerRaises(a) \/ ApiStops(a) PROVE RestoreShape'
  <2>1. outages' \in 0..MaxOutages
        BY <1>0, <1>12 DEF HandlerRaises, ApiStops
  <2> QED BY <1>10, <1>12, <2>1 DEF HandlerRaises, ApiStops
<1>13. ASSUME NEW a \in Api, DeliveryLost(a) \/ ApiStarts(a) PROVE RestoreShape'
      BY <1>0, <1>1, <1>13 DEF DeliveryLost, ApiStarts
<1>14. CASE Configure
      BY <1>1, <1>14 DEF Configure
<1>15. ASSUME NEW d \in Doc, ArchiveDoc(d) \/ DropDoc(d) \/ PurgeRow(d) PROVE RestoreShape'
      BY <1>1, <1>15 DEF ArchiveDoc, DropDoc, PurgeRow
<1>16. CASE UNCHANGED restoreVars
      BY <1>1, <1>16 DEF restoreVars
<1> QED BY <1>2, <1>3, <1>4, <1>5, <1>6, <1>7, <1>8, <1>9, <1>11, <1>12, <1>13, <1>14, <1>15, <1>16
        DEF RestoreNext, GoesOn

\* A step of one execution leaves the others what they have in hand.
LEMMA InHandKept == Executions /\ [RestoreNext]_restoreVars => \A a \in Api : InHand(a)'
<1> SUFFICES ASSUME Executions, [RestoreNext]_restoreVars, NEW b \in Api PROVE InHand(b)'
    OBVIOUS
<1> USE DEF InHand, jobVars, indexVars, runVars, historyVars
<1>1. RestoreShape /\ InHand(b)
      BY DEF Executions
<1>2. /\ NoJob \notin Job /\ Doc \subseteq Nat \ {0}
      BY RestoreAssumption
<1>3. ASSUME UNCHANGED <<job, step, cursor, page, kept>>, indexed \subseteq indexed' PROVE InHand(b)'
      BY <1>1, <1>3
<1>4. ASSUME NEW a \in Api, NEW j \in Job, Take(a, j) PROVE InHand(b)'
      BY <1>1, <1>2, <1>4 DEF Take, TakeFrom, RestoreShape
<1>5. ASSUME NEW a \in Api, Derive(a) \/ ReadPage(a) \/ RunFails(a) PROVE InHand(b)'
      BY <1>1, <1>5 DEF Derive, ReadPage, RunFails, GoTo, RestoreShape
<1>6. ASSUME NEW a \in Api, SearchPage(a) PROVE InHand(b)'
  <2>1. \A d \in PageAfter(cursor[a]) : d > cursor[a]
        BY DEF PageAfter
  <2> QED BY <1>1, <1>6, <2>1 DEF SearchPage, RestoreShape
<1>7. ASSUME NEW a \in Api, SendOne(a) PROVE InHand(b)'
  <2> DEFINE d == Lowest(page[a])
  <2>1. page[a] \in SUBSET Doc /\ page[a] # {}
        BY <1>7 DEF Executions, RestoreShape, SendOne
  <2>2. d \in page[a] /\ \A e \in page[a] : d <= e
        BY <2>1, LowestIsLeast
  <2>3. ASSUME NEW e \in page[a] \ {d} PROVE e > d
    <3>1. e \in Nat /\ d \in Nat /\ d <= e /\ e # d
          BY <1>2, <2>1, <2>2
    <3> HIDE DEF d
    <3> QED BY <3>1
  <2> HIDE DEF d
  <2>4. /\ page' = [page EXCEPT ![a] = @ \ {d}]
        /\ cursor' = [cursor EXCEPT ![a] = d]
        /\ step' = [step EXCEPT ![a] = IF page[a] = {d} THEN "progress" ELSE @]
        /\ UNCHANGED <<indexVars, job, kept>> /\ step[a] = "send"
        BY <1>7 DEF SendOne, d
  <2>5. CASE b # a
        BY <1>1, <2>4, <2>5 DEF RestoreShape
  <2>6. CASE b = a
    <3>1. page'[a] = page[a] \ {d} /\ cursor'[a] = d
          BY <1>1, <2>4 DEF RestoreShape
    <3>2. step'[a] = IF page[a] = {d} THEN "progress" ELSE "send"
          BY <1>1, <2>4 DEF RestoreShape
    <3> QED BY <1>1, <2>2, <2>3, <2>4, <2>6, <3>1, <3>2
  <2> QED BY <2>5, <2>6
<1>8. ASSUME NEW a \in Api, Progress(a) PROVE InHand(b)'
      BY <1>1, <1>8 DEF Progress, RestoreShape
<1>9. ASSUME NEW a \in Api, Finish(a) PROVE InHand(b)'
      BY <1>1, <1>9 DEF Finish, RestoreShape
<1>10. ASSUME NEW a \in Api, NEW place, NEW lost, Leave(a, place, lost) PROVE InHand(b)'
      BY <1>1, <1>10 DEF Leave, RestoreShape
<1>11. ASSUME NEW d \in Doc, DropDoc(d) PROVE InHand(b)'
      BY <1>1, <1>11 DEF DropDoc
<1> QED BY <1>3, <1>4, <1>5, <1>6, <1>7, <1>8, <1>9, <1>10, <1>11
        DEF RestoreNext, GoesOn, CreateJob, PublishJob, PublishFails, Settle, HandlerRaises, ApiStops,
            DeliveryLost, ApiStarts, Configure, ArchiveDoc, PurgeRow, restoreVars

\* A mail that is sent is answered for, and what was answered for remains so.
LEMMA SendAnswers ==
  ASSUME Executions, NEW a \in Api, SendOne(a)
  PROVE  /\ Lowest(page[a]) \in page[a] /\ Lowest(page[a]) \in Doc
         /\ page[a] \in SUBSET Doc /\ page[a] # {} /\ job[a] \in Job /\ step[a] = "send"
         /\ \/ Lowest(page[a]) \in refused'[job[a]]
            \/ delivered'[job[a]][Lowest(page[a])] > 0
         /\ \A j \in Job : AnsweredFor(j) \subseteq AnsweredFor(j)'
<1> DEFINE d == Lowest(page[a])
<1>1. page[a] \in SUBSET Doc /\ page[a] # {} /\ job[a] \in Job /\ step[a] = "send"
      BY DEF Executions, RestoreShape, SendOne, InHand
<1>2. d \in page[a] /\ d \in Doc
      BY <1>1, LowestIsLeast
<1> HIDE DEF d
<1>3. \/ delivered' = [delivered EXCEPT ![job[a]][d] = @ + 1] /\ UNCHANGED refused
      \/ refused' = [refused EXCEPT ![job[a]] = @ \cup {d}] /\ UNCHANGED delivered
      BY DEF SendOne, d
<1>4. delivered \in [Job -> [Doc -> Nat]] /\ refused \in [Job -> SUBSET Doc]
      BY DEF Executions, RestoreShape
<1>5. d \in refused'[job[a]] \/ delivered'[job[a]][d] > 0
      BY <1>1, <1>2, <1>3, <1>4
<1>6. ASSUME NEW j \in Job PROVE AnsweredFor(j) \subseteq AnsweredFor(j)'
  <2>1. ASSUME NEW e \in Doc, delivered[j][e] > 0 PROVE delivered'[j][e] > 0
        BY <1>1, <1>2, <1>3, <1>4, <2>1
  <2>2. refused[j] \subseteq refused'[j]
        BY <1>1, <1>3, <1>4
  <2> QED BY <2>1, <2>2 DEF AnsweredFor
<1> QED BY <1>1, <1>2, <1>5, <1>6 DEF d

-----------------------------------------------------------------------------
(* RestoreJobs: nothing is left out                                        *)

\* A document that is still to come: it is after the page, which is a full one.
Ahead(a, d) ==
  /\ step[a] # "done" /\ d > cursor[a] /\ \A e \in page[a] : e < d
  /\ step[a] \in {"read", "send", "progress"} => pageLen[a] = PageSize

CoveredBy(a) ==
  step[a] \in {"begin", "search", "read", "send", "progress", "done"} =>
    \A d \in kept[a] \cap Perimeter :
      d \in AnsweredFor(job[a]) \/ d \in page[a] \/ Ahead(a, d)

LEMMA CoverageKept ==
  Executions /\ (\A a \in Api : CoveredBy(a)) /\ [RestoreNext]_restoreVars
    => \A a \in Api : CoveredBy(a)'
<1> SUFFICES ASSUME Executions, \A a \in Api : CoveredBy(a), [RestoreNext]_restoreVars, NEW b \in Api
             PROVE  CoveredBy(b)'
    OBVIOUS
<1> USE DEF CoveredBy, Ahead, AnsweredFor, jobVars, indexVars, runVars, historyVars
<1>1. RestoreShape /\ InHand(b) /\ CoveredBy(b)
      BY DEF Executions
<1>2. NoJob \notin Job /\ Doc \subseteq Nat \ {0} /\ PageSize \in Nat \ {0}
      BY RestoreAssumption
<1>3. Perimeter' = Perimeter /\ Perimeter \subseteq Doc
      BY DEF Perimeter, SearchMatches, ScopeAddresses, LowerAll
<1>4. ASSUME UNCHANGED <<job, step, cursor, page, pageLen, delivered, refused>>, kept'[b] \subseteq kept[b]
      PROVE CoveredBy(b)'
      BY <1>1, <1>3, <1>4
<1>5. ASSUME NEW a \in Api, NEW j \in Job, Take(a, j) PROVE CoveredBy(b)'
  <2>1. CASE b # a
        BY <1>1, <1>3, <1>5, <2>1 DEF Take, TakeFrom, RestoreShape
  <2>2. CASE b = a
    <3>1. step'[a] = "begin" /\ cursor'[a] = 0 /\ page'[a] = page[a] /\ page[a] = {}
          BY <1>1, <1>5, <2>2 DEF Take, TakeFrom, RestoreShape, InHand
    <3>2. ASSUME NEW d \in Perimeter PROVE d > 0
      <4>1. d \in Nat /\ d # 0
            BY <1>2, <1>3
      <4> QED BY <4>1
    <3> QED BY <1>3, <2>2, <3>1, <3>2
  <2> QED BY <2>1, <2>2
<1>6. ASSUME NEW a \in Api, Derive(a) \/ ReadPage(a) \/ RunFails(a) PROVE CoveredBy(b)'
      BY <1>1, <1>3, <1>6 DEF Derive, ReadPage, RunFails, GoTo, RestoreShape
<1>7. ASSUME NEW a \in Api, SearchPage(a) PROVE CoveredBy(b)'
  <2> DEFINE hits == PageAfter(cursor[a])
  <2>1. /\ step[a] = "search" /\ page' = [page EXCEPT ![a] = hits]
        /\ pageLen' = [pageLen EXCEPT ![a] = Cardinality(hits)]
        /\ step' = [step EXCEPT ![a] = IF hits = {} THEN "done" ELSE "read"]
        /\ UNCHANGED <<job, cursor, kept, delivered, refused>>
        BY <1>7 DEF SearchPage
  <2>2. HitsAfter(cursor[a]) \in SUBSET Doc /\ hits = Beginning(HitsAfter(cursor[a]))
        BY <1>1, PageIsBeginning DEF HitsAfter, RestoreShape
  <2>3. ASSUME NEW d \in HitsAfter(cursor[a]), d \notin hits
        PROVE  Cardinality(hits) = PageSize /\ hits # {} /\ \A e \in hits : e < d
    <3>1. Cardinality(hits) = PageSize /\ \A e \in hits : e < d
          BY <2>2, <2>3, RestComesLater
    <3> QED BY <1>2, <3>1, FS_EmptySet
  <2>4. kept[a] \cap Perimeter \subseteq indexed \cap Perimeter
        BY DEF Executions, InHand
  <2>5. page[a] = {}
        BY <2>1 DEF Executions, InHand
  <2> HIDE DEF hits
  <2>6. CASE b # a
        BY <1>1, <1>3, <2>1, <2>6 DEF RestoreShape
  <2>7. ASSUME b = a, NEW d \in kept[a] \cap Perimeter, d \notin AnsweredFor(job[a]), d \notin hits
        PROVE  d > cursor[a] /\ Cardinality(hits) = PageSize /\ hits # {} /\ \A e \in hits : e < d
    <3>1. d > cursor[a]
          BY <1>1, <2>1, <2>5, <2>7
    <3>2. d \in HitsAfter(cursor[a])
          BY <2>4, <2>7, <3>1 DEF HitsAfter
    <3> QED BY <2>3, <2>7, <3>1, <3>2
  <2>8. CASE b = a
    <3>1. /\ page'[a] = hits /\ pageLen'[a] = Cardinality(hits) /\ cursor'[a] = cursor[a]
          /\ kept'[a] = kept[a] /\ UNCHANGED <<delivered, refused>> /\ job'[a] = job[a]
          /\ step'[a] = IF hits = {} THEN "done" ELSE "read"
          BY <1>1, <2>1 DEF RestoreShape
    <3> QED BY <1>3, <2>7, <2>8, <3>1
  <2> QED BY <2>6, <2>8
<1>8. ASSUME NEW a \in Api, SendOne(a) PROVE CoveredBy(b)'
  <2> DEFINE d0 == Lowest(page[a])
  <2>1. page[a] \in SUBSET Doc /\ page[a] # {} /\ job[a] \in Job /\ step[a] = "send"
        BY <1>8, SendAnswers
  <2>2. d0 \in page[a] /\ d0 \in Doc
        BY <1>8, SendAnswers
  <2>4. \A j \in Job : AnsweredFor(j) \subseteq AnsweredFor(j)'
        BY <1>8, SendAnswers
  <2>5. d0 \in refused'[job[a]] \/ delivered'[job[a]][d0] > 0
        BY <1>8, SendAnswers
  <2> HIDE DEF d0
  <2>3. /\ page' = [page EXCEPT ![a] = @ \ {d0}]
        /\ cursor' = [cursor EXCEPT ![a] = d0]
        /\ step' = [step EXCEPT ![a] = IF page[a] = {d0} THEN "progress" ELSE @]
        /\ UNCHANGED <<indexVars, job, kept, pageLen>>
        BY <1>8 DEF SendOne, d0
  <2>6. step[b] # "idle" => job[b] \in Job
        BY <1>1 DEF InHand, RestoreShape
  <2>7. kept'[b] \cap Perimeter \subseteq Doc
        BY <1>3
  <2>8. CASE b # a
    <3>1. step'[b] = step[b] /\ page'[b] = page[b] /\ cursor'[b] = cursor[b]
          BY <1>1, <2>3, <2>8 DEF RestoreShape
    <3> QED BY <1>1, <1>3, <2>3, <2>4, <2>6, <2>7, <3>1
  <2>9. CASE b = a
    <3>1. /\ page'[a] = page[a] \ {d0} /\ cursor'[a] = d0
          /\ step'[a] = IF page[a] = {d0} THEN "progress" ELSE "send"
          BY <1>1, <2>1, <2>3 DEF RestoreShape
    <3> SUFFICES ASSUME NEW d \in kept[a] \cap Perimeter, d \notin refused'[job[a]],
                        ~(delivered'[job[a]][d] > 0), d \notin page'[a]
                 PROVE  Ahead(a, d)'
        BY <1>3, <2>3, <2>9
    <3>2. d \in Doc /\ d \notin AnsweredFor(job[a]) /\ d # d0
          BY <1>3, <2>1, <2>4, <2>5
    <3>3. d \notin page[a]
          BY <3>1, <3>2
    <3>4. Ahead(a, d)
          BY <1>1, <2>1, <2>9, <3>2, <3>3
    <3> QED BY <2>1, <2>2, <2>3, <3>1, <3>4
  <2> QED BY <2>8, <2>9
<1>9. ASSUME NEW a \in Api, Progress(a) PROVE CoveredBy(b)'
  <2>1. CASE b # a
        BY <1>1, <1>3, <1>9, <2>1 DEF Progress, RestoreShape
  <2>2. CASE b = a
    <3>1. /\ step[a] = "progress" /\ step'[a] = IF LastPage(a) THEN "done" ELSE "search"
          /\ UNCHANGED <<job, cursor, page, pageLen, delivered, refused, kept>>
          BY <1>1, <1>9 DEF Progress, RestoreShape
    <3>2. page[a] = {}
          BY <1>1, <2>2, <3>1 DEF InHand
    <3>3. LastPage(a) => pageLen[a] # PageSize
          BY <1>1, <1>2 DEF LastPage, RestoreShape
    <3> QED BY <1>1, <1>3, <2>2, <3>1, <3>2, <3>3
  <2> QED BY <2>1, <2>2
<1>10. ASSUME NEW a \in Api, Finish(a) PROVE CoveredBy(b)'
      BY <1>1, <1>3, <1>10 DEF Finish, RestoreShape
<1>11. ASSUME NEW a \in Api, NEW place, NEW lost, Leave(a, place, lost) PROVE CoveredBy(b)'
      BY <1>1, <1>3, <1>11 DEF Leave, RestoreShape
<1>12. ASSUME NEW d \in Doc, DropDoc(d) PROVE CoveredBy(b)'
      BY <1>4, <1>12 DEF DropDoc
<1> QED BY <1>4, <1>5, <1>6, <1>7, <1>8, <1>9, <1>10, <1>11, <1>12
        DEF RestoreNext, GoesOn, CreateJob, PublishJob, PublishFails, Settle, HandlerRaises, ApiStops,
            DeliveryLost, ApiStarts, Configure, ArchiveDoc, PurgeRow, restoreVars

-----------------------------------------------------------------------------
(* RestoreJobs: nothing is sent twice                                      *)

\* The executions of a job that have not come to a document yet.
Before(j, d) == {a \in Api : job[a] = j /\ cursor[a] < d}

SentOnce == \A j \in Job : \A d \in Doc : delivered[j][d] + Cardinality(Before(j, d)) <= runs[j]

LEMMA Executing ==
  ASSUME NEW S \in SUBSET Api
  PROVE  IsFiniteSet(S) /\ Cardinality(S) \in Nat
  BY FS_Subset, FS_CardinalityType, RestoreAssumption

LEMMA SentOnceKept ==
  Executions /\ SentOnce /\ [RestoreNext]_restoreVars => SentOnce'
<1> SUFFICES ASSUME Executions, SentOnce, [RestoreNext]_restoreVars, NEW j \in Job, NEW d \in Doc
             PROVE  delivered'[j][d] + Cardinality(Before(j, d)') <= runs'[j]
    BY DEF SentOnce
<1> USE DEF jobVars, indexVars, runVars, historyVars
<1>1. RestoreShape /\ delivered[j][d] + Cardinality(Before(j, d)) <= runs[j]
      BY DEF Executions, SentOnce
<1>2. /\ Before(j, d) \in SUBSET Api /\ Before(j, d)' \in SUBSET Api
      /\ delivered[j][d] \in Nat /\ runs[j] \in Nat /\ d \in Nat \ {0} /\ NoJob \notin Job
      BY <1>1, RestoreAssumption DEF Before, RestoreShape
<1>3. Cardinality(Before(j, d)) \in Nat /\ Cardinality(Before(j, d)') \in Nat
      BY <1>2, Executing
<1>4. ASSUME Before(j, d)' \subseteq Before(j, d), UNCHANGED <<delivered, runs>>
      PROVE  delivered'[j][d] + Cardinality(Before(j, d)') <= runs'[j]
  <2>1. Cardinality(Before(j, d)') <= Cardinality(Before(j, d))
        BY <1>2, <1>4, Executing, FS_Subset
  <2> QED BY <1>1, <1>2, <1>3, <1>4, <2>1
<1>5. ASSUME UNCHANGED <<job, cursor, delivered, runs>>
      PROVE  delivered'[j][d] + Cardinality(Before(j, d)') <= runs'[j]
      BY <1>4, <1>5 DEF Before
<1>6. ASSUME NEW a \in Api, NEW i \in Job, Take(a, i)
      PROVE  delivered'[j][d] + Cardinality(Before(j, d)') <= runs'[j]
  <2>1. /\ job[a] = NoJob /\ job' = [job EXCEPT ![a] = i] /\ cursor' = [cursor EXCEPT ![a] = 0]
        /\ runs' = [runs EXCEPT ![i] = @ + 1] /\ UNCHANGED delivered
        BY <1>6 DEF Take, TakeFrom
  <2>2. CASE i = j
    <3>1. Before(j, d)' \subseteq Before(j, d) \cup {a}
          BY <1>1, <2>1 DEF Before, RestoreShape
    <3>2. IsFiniteSet(Before(j, d) \cup {a}) /\ Cardinality(Before(j, d) \cup {a}) <= Cardinality(Before(j, d)) + 1
          BY <1>2, <1>3, Executing, FS_AddElement
    <3>3. Cardinality(Before(j, d)') <= Cardinality(Before(j, d) \cup {a}) /\ Cardinality(Before(j, d) \cup {a}) \in Nat
          BY <3>1, <3>2, FS_Subset, FS_CardinalityType
    <3>4. runs'[j] = runs[j] + 1 /\ delivered'[j][d] = delivered[j][d]
          BY <1>1, <2>1, <2>2 DEF RestoreShape
    <3> QED BY <1>1, <1>2, <1>3, <3>2, <3>3, <3>4
  <2>3. CASE i # j
    <3>1. Before(j, d)' \subseteq Before(j, d)
          BY <1>1, <2>1, <2>3 DEF Before, RestoreShape
    <3>2. Cardinality(Before(j, d)') <= Cardinality(Before(j, d))
          BY <1>2, <3>1, Executing, FS_Subset
    <3>3. runs'[j] = runs[j] /\ delivered'[j][d] = delivered[j][d]
          BY <1>1, <2>1, <2>3 DEF RestoreShape
    <3> QED BY <1>1, <1>2, <1>3, <3>2, <3>3
  <2> QED BY <2>2, <2>3
<1>7. ASSUME NEW a \in Api, SendOne(a)
      PROVE  delivered'[j][d] + Cardinality(Before(j, d)') <= runs'[j]
  <2> DEFINE d0 == Lowest(page[a])
  <2>1. page[a] \in SUBSET Doc /\ page[a] # {} /\ job[a] \in Job /\ cursor[a] \in Doc \cup {0}
        BY <1>7 DEF Executions, RestoreShape, SendOne, InHand
  <2>2. d0 \in page[a] /\ d0 \in Doc
        BY <2>1, LowestIsLeast
  <2>3. cursor[a] < d0
        BY <2>2 DEF Executions, InHand
  <2> HIDE DEF d0
  <2>4. /\ delivered' = [delivered EXCEPT ![job[a]][d0] = @ + 1] \/ UNCHANGED delivered
        /\ cursor' = [cursor EXCEPT ![a] = d0] /\ UNCHANGED <<job, runs>>
        BY <1>7 DEF SendOne, d0
  <2>5. cursor[a] \in Nat /\ d0 \in Nat
    <3>1. Doc \subseteq Nat /\ 0 \in Nat
          BY RestoreAssumption
    <3> QED BY <2>1, <2>2, <3>1
  <2>6. Before(j, d)' \subseteq Before(j, d)
    <3> SUFFICES ASSUME NEW b \in Api, job[b] = j, cursor'[b] < d PROVE cursor[b] < d
        BY <2>4 DEF Before
    <3>1. CASE b = a
      <4>1. cursor'[a] = d0
            BY <1>1, <2>4 DEF RestoreShape
      <4> QED BY <1>2, <2>3, <2>5, <3>1, <4>1
    <3>2. CASE b # a
          BY <1>1, <2>4, <3>2 DEF RestoreShape
    <3> QED BY <3>1, <3>2
  <2>7. CASE job[a] = j /\ d = d0
    <3>1. Before(j, d)' \subseteq Before(j, d) \ {a}
      <4>1. cursor'[a] = d0
            BY <1>1, <2>4 DEF RestoreShape
      <4>2. a \notin Before(j, d)'
            BY <2>5, <2>7, <4>1 DEF Before
      <4> QED BY <2>6, <4>2
    <3>2. a \in Before(j, d)
          BY <2>3, <2>7 DEF Before
    <3>3. /\ IsFiniteSet(Before(j, d) \ {a})
          /\ Cardinality(Before(j, d) \ {a}) = Cardinality(Before(j, d)) - 1
          BY <1>2, <3>2, Executing, FS_RemoveElement
    <3>4. Cardinality(Before(j, d)') <= Cardinality(Before(j, d) \ {a})
          BY <3>1, <3>3, FS_Subset
    <3>5. delivered'[j][d] \in {delivered[j][d], delivered[j][d] + 1} /\ runs'[j] = runs[j]
          BY <1>1, <2>4, <2>7 DEF RestoreShape
    <3> QED BY <1>1, <1>2, <1>3, <3>3, <3>4, <3>5
  <2>8. CASE ~(job[a] = j /\ d = d0)
    <3>1. delivered'[j][d] = delivered[j][d] /\ runs'[j] = runs[j]
      <4>1. delivered \in [Job -> [Doc -> Nat]]
            BY <1>1 DEF RestoreShape
      <4>2. CASE delivered' = [delivered EXCEPT ![job[a]][d0] = @ + 1]
            BY <2>1, <2>2, <2>4, <2>8, <4>1, <4>2
      <4> QED BY <2>4, <4>2
    <3>2. Cardinality(Before(j, d)') <= Cardinality(Before(j, d))
          BY <1>2, <2>6, Executing, FS_Subset
    <3> QED BY <1>1, <1>2, <1>3, <3>1, <3>2
  <2> QED BY <2>7, <2>8
<1>8. ASSUME NEW a \in Api, NEW place, NEW lost, Leave(a, place, lost)
      PROVE  delivered'[j][d] + Cardinality(Before(j, d)') <= runs'[j]
  <2>1. Before(j, d)' \subseteq Before(j, d)
        BY <1>1, <1>2, <1>8 DEF Leave, Before, RestoreShape
  <2> QED BY <1>4, <1>8, <2>1 DEF Leave
<1> QED BY <1>5, <1>6, <1>7, <1>8
        DEF RestoreNext, GoesOn, CreateJob, PublishJob, PublishFails, Settle, HandlerRaises, ApiStops,
            DeliveryLost, ApiStarts, Configure, ArchiveDoc, DropDoc, PurgeRow, restoreVars,
            Derive, ReadPage, RunFails, GoTo, SearchPage, Progress, Finish

-----------------------------------------------------------------------------
(* RestoreJobs: what is counted                                            *)

\* The documents up to the cursor that the job's destination has answered for.
DoneSoFar(a) == {d \in Doc : d <= cursor[a] /\ d \in AnsweredFor(job[a])}

\* Results of the page that are sent already.
SentOfPage(a) ==
  IF step[a] \in {"read", "send", "progress"} THEN pageLen[a] - Cardinality(page[a]) ELSE 0

CountedBy(a) ==
  /\ step[a] \in {"search", "read", "send", "progress"} =>
       count[a] + SentOfPage(a) <= Cardinality(DoneSoFar(a))
  /\ step[a] \in {"idle", "begin"} => count[a] = 0

LEMMA CountsKept ==
  Executions /\ (\A a \in Api : CountedBy(a)) /\ [RestoreNext]_restoreVars
    => \A a \in Api : CountedBy(a)'
<1> SUFFICES ASSUME Executions, \A a \in Api : CountedBy(a), [RestoreNext]_restoreVars, NEW b \in Api
             PROVE  CountedBy(b)'
    OBVIOUS
<1> USE DEF AnsweredFor, jobVars, indexVars, runVars, historyVars
<1>1. RestoreShape /\ InHand(b) /\ CountedBy(b) /\ RestoreShape'
      BY ShapeKept DEF Executions
<1>2. NoJob \notin Job /\ Doc \subseteq Nat \ {0} /\ PageSize \in Nat \ {0}
      BY RestoreAssumption
<1>3. /\ DoneSoFar(b) \in SUBSET Doc /\ DoneSoFar(b)' \in SUBSET Doc
      /\ count[b] \in Nat /\ pageLen[b] \in Nat /\ page[b] \in SUBSET Doc
      BY <1>1, <1>2 DEF DoneSoFar, RestoreShape
<1>4. Cardinality(DoneSoFar(b)) \in Nat /\ Cardinality(DoneSoFar(b)') \in Nat /\ Cardinality(page[b]) \in Nat
      BY <1>3, DocSets
<1>5. ASSUME UNCHANGED <<job, step, cursor, page, pageLen, count, delivered, refused>> PROVE CountedBy(b)'
      BY <1>1, <1>5 DEF CountedBy, DoneSoFar, SentOfPage
<1>6. ASSUME NEW a \in Api, NEW j \in Job, Take(a, j) PROVE CountedBy(b)'
      BY <1>1, <1>6 DEF Take, TakeFrom, RestoreShape, CountedBy, DoneSoFar, SentOfPage
<1>7. ASSUME NEW a \in Api, Derive(a) PROVE CountedBy(b)'
  <2>1. CASE b # a
        BY <1>1, <1>7, <2>1 DEF Derive, GoTo, RestoreShape, CountedBy, DoneSoFar, SentOfPage
  <2>2. CASE b = a
    <3>1. count[b] = 0 /\ count' = count /\ step'[b] \in {"search", "error"}
          BY <1>1, <1>7, <2>2 DEF Derive, GoTo, RestoreShape, CountedBy
    <3> QED BY <1>4, <3>1 DEF CountedBy, SentOfPage
  <2> QED BY <2>1, <2>2
<1>8. ASSUME NEW a \in Api, ReadPage(a) \/ RunFails(a) PROVE CountedBy(b)'
      BY <1>1, <1>8 DEF ReadPage, RunFails, GoTo, RestoreShape, CountedBy, DoneSoFar, SentOfPage
<1>9. ASSUME NEW a \in Api, SearchPage(a) PROVE CountedBy(b)'
  <2> DEFINE hits == PageAfter(cursor[a])
  <2>1. /\ step[a] = "search" /\ page' = [page EXCEPT ![a] = hits]
        /\ pageLen' = [pageLen EXCEPT ![a] = Cardinality(hits)]
        /\ step' = [step EXCEPT ![a] = IF hits = {} THEN "done" ELSE "read"]
        /\ UNCHANGED <<job, cursor, count, delivered, refused>>
        BY <1>9 DEF SearchPage
  <2>2. DoneSoFar(b)' = DoneSoFar(b)
        BY <2>1 DEF DoneSoFar
  <2>3. hits \in SUBSET Doc
        BY <1>1 DEF PageAfter, RestoreShape
  <2> HIDE DEF hits
  <2>4. CASE b # a
        BY <1>1, <2>1, <2>2, <2>4 DEF RestoreShape, CountedBy, SentOfPage
  <2>5. CASE b = a
    <3>1. /\ page'[b] = hits /\ pageLen'[b] = Cardinality(hits) /\ count'[b] = count[b]
          /\ step'[b] \in {"done", "read"} /\ Cardinality(hits) \in Nat
          BY <1>1, <2>1, <2>3, <2>5, DocSets DEF RestoreShape
    <3>2. count[b] <= Cardinality(DoneSoFar(b))
          BY <1>1, <1>3, <2>1, <2>5 DEF CountedBy, SentOfPage
    <3>3. SentOfPage(b)' \in {0, Cardinality(hits) - Cardinality(hits)}
          BY <3>1 DEF SentOfPage
    <3> QED BY <1>3, <1>4, <2>2, <3>1, <3>2, <3>3 DEF CountedBy
  <2> QED BY <2>4, <2>5
<1>10. ASSUME NEW a \in Api, SendOne(a) PROVE CountedBy(b)'
  <2> DEFINE d0 == Lowest(page[a])
  <2>1. page[a] \in SUBSET Doc /\ page[a] # {} /\ job[a] \in Job /\ step[a] = "send"
        BY <1>10, SendAnswers
  <2>2. d0 \in page[a] /\ d0 \in Doc
        BY <1>10, SendAnswers
  <2>3. cursor[a] < d0
        BY <2>2 DEF Executions, InHand
  <2>5. \A j \in Job : AnsweredFor(j) \subseteq AnsweredFor(j)'
        BY <1>10, SendAnswers
  <2>8. d0 \in refused'[job[a]] \/ delivered'[job[a]][d0] > 0
        BY <1>10, SendAnswers
  <2> HIDE DEF d0
  <2>4. /\ page' = [page EXCEPT ![a] = @ \ {d0}]
        /\ cursor' = [cursor EXCEPT ![a] = d0]
        /\ step' = [step EXCEPT ![a] = IF page[a] = {d0} THEN "progress" ELSE @]
        /\ UNCHANGED <<indexVars, job, pageLen, count>>
        BY <1>10 DEF SendOne, d0
  <2>6. CASE b # a
    <3>1. step'[b] = step[b] /\ page'[b] = page[b] /\ cursor'[b] = cursor[b]
          BY <1>1, <2>4, <2>6 DEF RestoreShape
    <3>2. step[b] # "idle" => DoneSoFar(b) \subseteq DoneSoFar(b)'
      <4>1. step[b] # "idle" => job[b] \in Job
            BY <1>1 DEF InHand, RestoreShape
      <4> QED BY <2>4, <2>5, <3>1, <4>1 DEF DoneSoFar
    <3>3. step[b] # "idle" => Cardinality(DoneSoFar(b)) <= Cardinality(DoneSoFar(b)')
          BY <1>3, <3>2, DocSets, FS_Subset
    <3>4. SentOfPage(b)' = SentOfPage(b) /\ SentOfPage(b) \in Int
          BY <1>3, <1>4, <2>4, <3>1 DEF SentOfPage
    <3>5. count'[b] = count[b]
          BY <2>4
    <3> QED BY <1>1, <1>3, <1>4, <3>1, <3>3, <3>4, <3>5 DEF CountedBy
  <2>7. CASE b = a
    <3>1. /\ page'[b] = page[b] \ {d0} /\ cursor'[b] = d0 /\ count'[b] = count[b]
          /\ step'[b] \in {"send", "progress"} /\ pageLen'[b] = pageLen[b]
          BY <1>1, <2>1, <2>4, <2>7 DEF RestoreShape
    <3>2. cursor[b] \in Nat /\ d0 \in Nat
      <4>1. cursor[b] \in Doc \cup {0}
            BY <1>1 DEF RestoreShape
      <4>2. Doc \subseteq Nat /\ 0 \in Nat
            BY <1>2
      <4> QED BY <2>2, <4>1, <4>2
    <3>3. DoneSoFar(b) \cup {d0} \subseteq DoneSoFar(b)'
      <4>1. d0 \in refused'[job[b]] \/ delivered'[job[b]][d0] > 0
            BY <2>7, <2>8
      <4>2. d0 \in DoneSoFar(b)'
            BY <2>2, <2>4, <3>1, <3>2, <4>1 DEF DoneSoFar
      <4>3. ASSUME NEW d \in DoneSoFar(b) PROVE d \in DoneSoFar(b)'
        <5>1. d \in Doc /\ d \in Nat /\ d <= cursor[b] /\ d \in AnsweredFor(job[b])
              BY <1>2, <4>3 DEF DoneSoFar
        <5>2. d <= d0
              BY <2>3, <2>7, <3>2, <5>1
        <5> QED BY <2>1, <2>4, <2>5, <2>7, <3>1, <5>1, <5>2 DEF DoneSoFar
      <4> QED BY <4>2, <4>3
    <3>4. d0 \notin DoneSoFar(b)
          BY <2>3, <2>7, <3>2 DEF DoneSoFar
    <3>5. /\ Cardinality(DoneSoFar(b) \cup {d0}) = Cardinality(DoneSoFar(b)) + 1
          /\ Cardinality(DoneSoFar(b) \cup {d0}) <= Cardinality(DoneSoFar(b)')
          BY <1>3, <3>3, <3>4, DocSets, FS_AddElement, FS_Subset
    <3>6. Cardinality(page[b] \ {d0}) = Cardinality(page[b]) - 1
          BY <1>3, <2>2, <2>7, DocSets, FS_RemoveElement
    <3>7. /\ count[b] + (pageLen[b] - Cardinality(page[b])) <= Cardinality(DoneSoFar(b))
          /\ SentOfPage(b)' = pageLen[b] - Cardinality(page[b] \ {d0})
          BY <1>1, <2>1, <2>7, <3>1 DEF CountedBy, SentOfPage
    <3>8. count'[b] + SentOfPage(b)' <= Cardinality(DoneSoFar(b)')
          BY <1>3, <1>4, <3>1, <3>5, <3>6, <3>7
    <3> QED BY <3>1, <3>8 DEF CountedBy
  <2> QED BY <2>6, <2>7
<1>11. ASSUME NEW a \in Api, Progress(a) PROVE CountedBy(b)'
  <2>1. CASE b # a
        BY <1>1, <1>11, <2>1 DEF Progress, RestoreShape, CountedBy, DoneSoFar, SentOfPage
  <2>2. CASE b = a
    <3>1. /\ step[b] = "progress" /\ step'[b] \in {"done", "search"}
          /\ count'[b] = count[b] + pageLen[b]
          /\ UNCHANGED <<job, cursor, page, pageLen, delivered, refused>>
          BY <1>1, <1>11, <2>2 DEF Progress, Sent, RestoreShape
    <3>2. page[b] = {}
          BY <1>1, <3>1 DEF InHand
    <3>3. count[b] + (pageLen[b] - 0) <= Cardinality(DoneSoFar(b))
          BY <1>1, <3>1, <3>2, FS_EmptySet DEF CountedBy, SentOfPage
    <3>4. DoneSoFar(b)' = DoneSoFar(b)
          BY <3>1 DEF DoneSoFar
    <3> QED BY <1>3, <1>4, <3>1, <3>3, <3>4 DEF CountedBy, SentOfPage
  <2> QED BY <2>1, <2>2
<1>12. ASSUME NEW a \in Api, Finish(a) PROVE CountedBy(b)'
      BY <1>1, <1>12 DEF Finish, RestoreShape, CountedBy, DoneSoFar, SentOfPage
<1>13. ASSUME NEW a \in Api, NEW place, NEW lost, Leave(a, place, lost) PROVE CountedBy(b)'
      BY <1>1, <1>13 DEF Leave, RestoreShape, CountedBy, DoneSoFar, SentOfPage
<1> QED BY <1>5, <1>6, <1>7, <1>8, <1>9, <1>10, <1>11, <1>12, <1>13
        DEF RestoreNext, GoesOn, CreateJob, PublishJob, PublishFails, Settle, HandlerRaises, ApiStops,
            DeliveryLost, ApiStarts, Configure, ArchiveDoc, DropDoc, PurgeRow, restoreVars

LEMMA ProgressKept ==
  Executions /\ (\A a \in Api : CountedBy(a)) /\ ProgressIsAnswered /\ [RestoreNext]_restoreVars
    => ProgressIsAnswered'
<1> SUFFICES ASSUME Executions, \A a \in Api : CountedBy(a), ProgressIsAnswered,
                    [RestoreNext]_restoreVars, NEW j \in Job
             PROVE  sent'[j] <= Cardinality(AnsweredFor(j)')
    BY DEF ProgressIsAnswered
<1> USE DEF jobVars, indexVars, runVars, historyVars
<1>1. RestoreShape /\ RestoreShape' /\ sent[j] <= Cardinality(AnsweredFor(j))
      BY ShapeKept DEF Executions, ProgressIsAnswered
<1>2. /\ AnsweredFor(j) \in SUBSET Doc /\ AnsweredFor(j)' \in SUBSET Doc
      /\ sent[j] \in Nat /\ sent'[j] \in Nat
      BY <1>1 DEF AnsweredFor, RestoreShape
<1>3. Cardinality(AnsweredFor(j)) \in Nat /\ Cardinality(AnsweredFor(j)') \in Nat
      BY <1>2, DocSets
<1>4. ASSUME UNCHANGED <<sent, delivered, refused>> PROVE sent'[j] <= Cardinality(AnsweredFor(j)')
      BY <1>1, <1>4 DEF AnsweredFor
<1>5. ASSUME NEW a \in Api, SendOne(a) PROVE sent'[j] <= Cardinality(AnsweredFor(j)')
  <2>3. UNCHANGED sent
        BY <1>5 DEF SendOne
  <2>4. AnsweredFor(j) \subseteq AnsweredFor(j)'
        BY <1>5, SendAnswers
  <2>5. Cardinality(AnsweredFor(j)) <= Cardinality(AnsweredFor(j)')
        BY <1>2, <2>4, DocSets, FS_Subset
  <2> QED BY <1>1, <1>2, <1>3, <2>3, <2>5
<1>6. ASSUME NEW a \in Api, Progress(a) PROVE sent'[j] <= Cardinality(AnsweredFor(j)')
  <2>1. CASE job[a] # j
        BY <1>1, <1>6, <2>1 DEF Progress, RestoreShape, AnsweredFor
  <2>2. CASE job[a] = j
    <3>1. /\ step[a] = "progress" /\ UNCHANGED <<delivered, refused>>
          /\ sent' = [sent EXCEPT ![j] = Sent(a)]
          BY <1>6, <2>2 DEF Progress
    <3>2. sent'[j] = count[a] + pageLen[a]
          BY <1>1, <3>1 DEF RestoreShape, Sent
    <3>3. page[a] = {} /\ count[a] \in Nat /\ pageLen[a] \in 0..PageSize
          BY <3>1 DEF Executions, InHand, RestoreShape
    <3>4. SentOfPage(a) = pageLen[a] - 0
          BY <3>1, <3>3, FS_EmptySet DEF SentOfPage
    <3>5. count[a] + SentOfPage(a) <= Cardinality(DoneSoFar(a))
          BY <3>1 DEF CountedBy
    <3>6. DoneSoFar(a) \in SUBSET AnsweredFor(j)
          BY <2>2 DEF DoneSoFar, AnsweredFor
    <3>7. Cardinality(DoneSoFar(a)) <= Cardinality(AnsweredFor(j)) /\ Cardinality(DoneSoFar(a)) \in Nat
          BY <1>2, <3>6, DocSets, FS_Subset
    <3>8. AnsweredFor(j)' = AnsweredFor(j)
          BY <3>1 DEF AnsweredFor
    <3>9. pageLen[a] \in Nat
          BY <3>3, RestoreAssumption
    <3> QED BY <1>3, <3>2, <3>3, <3>4, <3>5, <3>7, <3>8, <3>9
  <2> QED BY <2>1, <2>2
<1> QED BY <1>4, <1>5, <1>6
        DEF RestoreNext, GoesOn, CreateJob, PublishJob, PublishFails, Settle, HandlerRaises, ApiStops,
            DeliveryLost, ApiStarts, Configure, ArchiveDoc, DropDoc, PurgeRow, restoreVars, Leave,
            Derive, ReadPage, RunFails, GoTo, SearchPage, Finish, Take, TakeFrom

-----------------------------------------------------------------------------
RestoreInv ==
  /\ Executions
  /\ \A a \in Api : CoveredBy(a) /\ CountedBy(a)
  /\ SentOnce
  /\ ProgressIsAnswered

LEMMA RestoreInvariantInitially == RestoreInit => RestoreInv
<1> SUFFICES ASSUME RestoreInit PROVE RestoreInv
    OBVIOUS
<1>1. \A a \in Api : CoveredBy(a) /\ CountedBy(a)
      BY DEF RestoreInit, CoveredBy, CountedBy
<1>2. SentOnce
  <2> SUFFICES ASSUME NEW j \in Job, NEW d \in Doc
               PROVE  delivered[j][d] + Cardinality(Before(j, d)) <= runs[j]
      BY DEF SentOnce
  <2>1. Before(j, d) = {}
        BY RestoreAssumption DEF RestoreInit, Before
  <2>2. delivered[j][d] = 0 /\ runs[j] = 0
        BY DEF RestoreInit
  <2> QED BY <2>1, <2>2, FS_EmptySet
<1>3. ProgressIsAnswered
  <2> SUFFICES ASSUME NEW j \in Job PROVE sent[j] <= Cardinality(AnsweredFor(j))
      BY DEF ProgressIsAnswered
  <2>1. AnsweredFor(j) \in SUBSET Doc
        BY DEF AnsweredFor, RestoreInit
  <2>2. sent[j] = 0
        BY DEF RestoreInit
  <2> QED BY <2>1, <2>2, DocSets
<1> QED BY <1>1, <1>2, <1>3, ExecutionsInitially DEF RestoreInv

LEMMA RestoreInvariant == RestoreSpec => []RestoreInv
<1>1. RestoreInv /\ [RestoreNext]_restoreVars => RestoreInv'
      BY ShapeKept, InHandKept, CoverageKept, SentOnceKept, CountsKept, ProgressKept
      DEF RestoreInv, Executions
<1> QED BY <1>1, RestoreInvariantInitially, PTL DEF RestoreSpec

\* The state of jobs and their executions keeps its types: the progress shown
\* is never more than there are documents, a page never longer than it may be.
THEOREM RestoreTypeCorrect == RestoreSpec => []RestoreTypeOK
<1>1. RestoreInv => RestoreTypeOK
  <2> SUFFICES ASSUME RestoreInv PROVE RestoreTypeOK
      OBVIOUS
  <2>1. RestoreShape /\ \A j \in Job : sent[j] <= Cardinality(AnsweredFor(j))
        BY DEF RestoreInv, Executions, ProgressIsAnswered
  <2>2. ASSUME NEW j \in Job PROVE sent[j] \in 0..Cardinality(Doc)
    <3>1. AnsweredFor(j) \in SUBSET Doc /\ Doc \in SUBSET Doc
          BY <2>1 DEF AnsweredFor, RestoreShape
    <3>2. /\ Cardinality(AnsweredFor(j)) \in Nat /\ Cardinality(Doc) \in Nat
          /\ Cardinality(AnsweredFor(j)) <= Cardinality(Doc)
          BY <3>1, DocSets
    <3>3. sent[j] \in Nat /\ sent[j] <= Cardinality(AnsweredFor(j))
          BY <2>1 DEF RestoreShape
    <3> QED BY <3>2, <3>3
  <2>3. sent \in [Job -> 0..Cardinality(Doc)]
        BY <2>1, <2>2 DEF RestoreShape
  <2> QED BY <2>1, <2>3 DEF RestoreShape, RestoreTypeOK
<1> QED BY <1>1, RestoreInvariant, PTL

\* However many APIs execute a job and whatever is archived or purged between
\* its pages, one that says done has put all that was there from its beginning
\* before the destination: what it has not delivered an IMAP mailbox refused, and
\* a job that goes through the relay has delivered everything.
THEOREM RestoreIsComplete == RestoreSpec => []DoneMeansComplete
<1>1. RestoreInv => DoneMeansComplete
  <2> SUFFICES ASSUME RestoreInv, NEW a \in Api, step[a] = "done", NEW d \in kept[a] \cap Perimeter
               PROVE  \/ delivered[job[a]][d] > 0
                      \/ job[a] \in ToMailbox /\ d \in refused[job[a]]
      BY DEF DoneMeansComplete
  <2>1. page[a] = {}
        BY DEF RestoreInv, Executions, InHand
  <2>2. d \in AnsweredFor(job[a])
        BY <2>1 DEF RestoreInv, CoveredBy, Ahead
  <2>3. job[a] \in Job /\ \A j \in Job \ ToMailbox : refused[j] = {}
        BY DEF RestoreInv, Executions, RestoreShape, InHand
  <2> QED BY <2>2, <2>3 DEF AnsweredFor
<1> QED BY <1>1, RestoreInvariant, PTL

\* An execution sends a document at most once.
THEOREM RestoreSendsOnce == RestoreSpec => []OncePerExecution
<1>1. RestoreInv => OncePerExecution
  <2> SUFFICES ASSUME RestoreInv, NEW j \in Job, NEW d \in Doc PROVE delivered[j][d] <= runs[j]
      BY DEF OncePerExecution
  <2>1. delivered[j][d] \in Nat /\ runs[j] \in Nat
        BY DEF RestoreInv, Executions, RestoreShape
  <2>2. Before(j, d) \in SUBSET Api
        BY DEF Before
  <2>3. Cardinality(Before(j, d)) \in Nat
        BY <2>2, Executing
  <2>4. delivered[j][d] + Cardinality(Before(j, d)) <= runs[j]
        BY DEF RestoreInv, SentOnce
  <2> QED BY <2>1, <2>3, <2>4
<1> QED BY <1>1, RestoreInvariant, PTL

\* The progress of a job is never ahead of the mails its destination has answered
\* for, refusals included.
THEOREM RestoreProgressIsTrue == RestoreSpec => []ProgressIsAnswered
  BY RestoreInvariant, PTL DEF RestoreInv
=============================================================================
