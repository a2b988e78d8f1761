------------------------ MODULE LocalMapsDeskProofs ------------------------
(***************************************************************************)
(* Theorems about the desk around the Local Maps runtime for any requests  *)
(* under any keys and any number of transactions that are open together.   *)
(***************************************************************************)
EXTENDS LocalMapsDesk, FiniteSetTheorems, SequenceTheorems, TLAPS

PilotRow == [status : PilotStatus, lock : {"canary", "new"},
             points : {"none", "all", "some", "holes"}]
Latest == {"none", "ACCEPT_PARTIAL", "APPROVED", "REJECTED"}
VersionRow == [pilot : Nat, status : {"DRAFT", "PUBLISHED"}, latest : Latest,
               decided : Nat]
DeliveryRow == [version : Nat, status : {"SENT", "ACKNOWLEDGED"}]

\* TypeOK, with the references between the tables apart.
TablesTyped ==
    /\ reviews \in Seq({"ACCEPTED", "REJECTED"})
    /\ pilots \in Seq(PilotRow) /\ versions \in Seq(VersionRow)
    /\ deliveries \in Seq(DeliveryRow)
    /\ receipts \subseteq Requests /\ IsFiniteSet(receipts)
OpenTyped ==
    /\ doing \in [Handlers -> Requests \cup {NoRequest}]
    /\ ahead \in [Handlers -> SUBSET {g \in Handlers : doing[g] # NoRequest}]
    /\ saw \in [Handlers -> BOOLEAN]
    /\ overtaken \in [Handlers -> SUBSET DOMAIN versions]
References ==
    /\ \A v \in DOMAIN versions : versions[v].pilot \in DOMAIN pilots
    /\ \A d \in DOMAIN deliveries : deliveries[d].version \in DOMAIN versions

\* No pilot without an acceptance, and every pilot but the last was replaced.
LastLives ==
    /\ ~Accepted => pilots = <<>>
    /\ \A p \in DOMAIN pilots : p # Len(pilots) => pilots[p].status = "STOPPED"

\* An approval names the last pilot, which waits no longer.
ApprovedIsLast ==
    \A r \in Done("pilot-approve") :
        /\ r.pilot = Len(pilots) /\ pilots # <<>>
        /\ pilots[r.pilot].status # "CREATED"

\* A draft is made of a pilot whose points are all terminal, and such a pilot is
\* not stopped any more.
Measured(p) ==
    /\ pilots[p].points \in {"all", "some"}
    /\ pilots[p].status \in {"PARTIAL_FAILURE", "QC_REQUIRED", "READY", "COMPLETED",
                             "FAILED"}
DraftsAreMeasured == \A v \in DOMAIN versions : Measured(versions[v].pilot)

\* A decision is about a version; a rejection fails the pilot for good.
RejectedFails ==
    \A r \in Done("qc") :
        /\ r.item \in DOMAIN versions
        /\ r.decision = "REJECTED" => pilots[versions[r.item].pilot].status = "FAILED"

\* Beyond QC an invalid point was accepted.
PartialIsAccepted ==
    \A p \in DOMAIN pilots :
        pilots[p].points = "some" /\ pilots[p].status \in {"QC_REQUIRED", "READY", "COMPLETED"}
        => \E r \in Done("qc") : r.decision = "ACCEPT_PARTIAL"

\* What is published left QC, and only what is published is delivered.
PublishedLeftQc ==
    \A v \in DOMAIN versions :
        Published(v) => pilots[versions[v].pilot].status \in {"READY", "COMPLETED", "FAILED"}
DeliveredIsPublished == \A d \in DOMAIN deliveries : Published(deliveries[d].version)

\* What StatusTellsTheDesk says of the states it leads to.
Tells(p) ==
    pilots[p].status \in {"READY", "COMPLETED"} =>
      \E v \in DOMAIN versions :
          /\ versions[v].pilot = p /\ versions[v].status = "PUBLISHED"
          /\ pilots[p].status = "COMPLETED" <=>
               \E i \in DOMAIN deliveries :
                   deliveries[i].version = v /\ deliveries[i].status = "ACKNOWLEDGED"
AllTell == \A p \in DOMAIN pilots : Tells(p)

\* What became of the pilots and of their reports.
Story ==
    /\ References /\ ApprovedIsLast /\ DraftsAreMeasured
    /\ RejectedFails /\ PartialIsAccepted
    /\ PublishedLeftQc /\ DeliveredIsPublished /\ PublishedWasApproved /\ AllTell

\* ReceiptsMatchRows, with names for what it counts.
Acceptances == {r \in Done("canary-review") : r.decision = "ACCEPTED"}
Decisions(v) == {r \in Done("qc") : r.item = v}

RowsCounted ==
    /\ Len(reviews) = Cardinality(Done("canary-review"))
    /\ Len(pilots) = Cardinality(Done("pilot-reschedule")) + Cardinality(Acceptances)
    /\ Len(versions) = Cardinality(Done("report-create"))
    /\ Len(deliveries) = Cardinality(Done("deliver"))
    /\ \A v \in DOMAIN versions : versions[v].decided = Cardinality(Decisions(v))

\* What the tables say, whoever is at work on them.
TablesTrue == TablesTyped /\ RowsCounted /\ LastLives /\ Story

IInv == TablesTrue /\ OpenTyped

-----------------------------------------------------------------------------
(* Sequences, point by point.                                               *)

Added(s, t, e) ==
    /\ Len(t) = Len(s) + 1 /\ DOMAIN t = DOMAIN s \cup {Len(s) + 1}
    /\ Len(s) + 1 \notin DOMAIN s
    /\ \A i \in DOMAIN s : t[i] = s[i]
    /\ t[Len(s) + 1] = e

Replaced(s, t, i, e) ==
    /\ Len(t) = Len(s) /\ DOMAIN t = DOMAIN s
    /\ \A j \in DOMAIN s \ {i} : t[j] = s[j]
    /\ t[i] = e

LEMMA AppendAdds ==
    ASSUME NEW S, NEW s \in Seq(S), NEW e \in S
    PROVE  Append(s, e) \in Seq(S) /\ Added(s, Append(s, e), e)
BY DEF Added

LEMMA ExceptReplaces ==
    ASSUME NEW S, NEW s \in Seq(S), NEW i \in DOMAIN s, NEW e \in S
    PROVE  [s EXCEPT ![i] = e] \in Seq(S) /\ Replaced(s, [s EXCEPT ![i] = e], i, e)
BY ExceptSeq DEF Replaced

LEMMA SeqOf ==
    ASSUME NEW S, NEW T, NEW s \in Seq(S), \A i \in DOMAIN s : s[i] \in T
    PROVE  s \in Seq(T)
OBVIOUS

LEMMA MoveReplaces ==
    ASSUME TablesTyped, NEW r, HasPilot(r), NEW status \in PilotStatus
    PROVE  /\ Moved(r, status) \in Seq(PilotRow)
           /\ Replaced(pilots, Moved(r, status), r.pilot,
                       [pilots[r.pilot] EXCEPT !.status = status])
<1> DEFINE row == [pilots[r.pilot] EXCEPT !.status = status]
<1>1. pilots \in Seq(PilotRow) /\ r.pilot \in DOMAIN pilots
  BY DEF TablesTyped, HasPilot
<1>2. pilots[r.pilot] \in PilotRow
  BY <1>1
<1>3. row \in PilotRow
  BY <1>2 DEF PilotRow
<1>4. Moved(r, status) = [pilots EXCEPT ![r.pilot] = row]
  BY DEF Moved
<1> HIDE DEF row
<1>5. Moved(r, status) \in Seq(PilotRow) /\ Replaced(pilots, Moved(r, status), r.pilot, row)
  <2>1. /\ [pilots EXCEPT ![r.pilot] = row] \in Seq(PilotRow)
        /\ Replaced(pilots, [pilots EXCEPT ![r.pilot] = row], r.pilot, row)
    BY <1>1, <1>3, ExceptReplaces
  <2>2. QED
    BY <1>4, <2>1
<1>6. QED
  BY <1>5 DEF row

-----------------------------------------------------------------------------
(* Receipts.                                                                *)

LEMMA RowsSay == ReceiptsMatchRows <=> RowsCounted
BY DEF ReceiptsMatchRows, RowsCounted, Acceptances, Decisions

LEMMA CountsAreNumbers ==
    ASSUME TablesTyped
    PROVE  /\ \A op : Cardinality(Done(op)) \in Nat
           /\ Cardinality(Acceptances) \in Nat
           /\ \A v : Cardinality(Decisions(v)) \in Nat
<1>1. \A S \in SUBSET receipts : Cardinality(S) \in Nat
  BY FS_Subset, FS_CardinalityType DEF TablesTyped
<1>2. QED
  BY <1>1 DEF Done, Acceptances, Decisions

LEMMA OneMoreReceipt ==
    ASSUME TablesTyped, NEW r, r \notin receipts, receipts' = receipts \cup {r}
    PROVE  /\ IsFiniteSet(receipts')
           /\ \A op : Done(op)' = IF r.op = op THEN Done(op) \cup {r} ELSE Done(op)
           /\ \A op : Cardinality(Done(op)') =
                        IF r.op = op THEN Cardinality(Done(op)) + 1
                        ELSE Cardinality(Done(op))
           /\ Cardinality(Acceptances') =
                IF r.op = "canary-review" /\ r.decision = "ACCEPTED"
                THEN Cardinality(Acceptances) + 1 ELSE Cardinality(Acceptances)
           /\ \A v : Cardinality(Decisions(v)') =
                       IF r.op = "qc" /\ r.item = v THEN Cardinality(Decisions(v)) + 1
                       ELSE Cardinality(Decisions(v))
<1>0. IsFiniteSet(receipts)
  BY DEF TablesTyped
<1>1. ASSUME NEW S, S \subseteq receipts
      PROVE  IsFiniteSet(S) /\ Cardinality(S \cup {r}) = Cardinality(S) + 1
  BY <1>0, <1>1, FS_Subset, FS_AddElement
<1>2. \A op : Done(op)' = IF r.op = op THEN Done(op) \cup {r} ELSE Done(op)
  BY DEF Done
<1>3. Acceptances' = IF r.op = "canary-review" /\ r.decision = "ACCEPTED"
                     THEN Acceptances \cup {r} ELSE Acceptances
  BY DEF Acceptances, Done
<1>4. \A v : Decisions(v)' = IF r.op = "qc" /\ r.item = v THEN Decisions(v) \cup {r}
                             ELSE Decisions(v)
  BY DEF Decisions, Done
<1>5. /\ \A op : Done(op) \subseteq receipts
      /\ Acceptances \subseteq receipts
      /\ \A v : Decisions(v) \subseteq receipts
  BY DEF Done, Acceptances, Decisions
<1>6. IsFiniteSet(receipts')
  BY <1>0, FS_AddElement
<1>7. QED
  BY <1>1, <1>2, <1>3, <1>4, <1>5, <1>6

LEMMA ReceiptIsNew ==
    ASSUME OpenTyped, NEW h \in Handlers, NEW op, Receipted(h, op)
    PROVE  /\ doing[h] \in Requests /\ doing[h] \notin receipts /\ doing[h].op = op
           /\ receipts' = receipts \cup {doing[h]}
BY DEF OpenTyped, Receipted, Fresh

LEMMA NewReceipt ==
    ASSUME TablesTyped, OpenTyped, NEW h \in Handlers, NEW op, Receipted(h, op)
    PROVE  /\ doing[h] \in Requests /\ doing[h].op = op
           /\ receipts' \subseteq Requests /\ IsFiniteSet(receipts')
           /\ Done(op)' = Done(op) \cup {doing[h]}
           /\ Cardinality(Done(op)') = Cardinality(Done(op)) + 1
           /\ \A o : o # op => /\ Done(o)' = Done(o)
                               /\ Cardinality(Done(o)') = Cardinality(Done(o))
           /\ op # "canary-review" => Cardinality(Acceptances') = Cardinality(Acceptances)
           /\ \A v : Cardinality(Decisions(v)') =
                       IF op = "qc" /\ doing[h].item = v
                       THEN Cardinality(Decisions(v)) + 1 ELSE Cardinality(Decisions(v))
<1> DEFINE r == doing[h]
<1>1. /\ r \in Requests /\ r \notin receipts /\ r.op = op
      /\ receipts' = receipts \cup {r}
  BY ReceiptIsNew
<1>2. receipts' \subseteq Requests
  BY <1>1 DEF TablesTyped
<1> HIDE DEF r
<1>3. /\ IsFiniteSet(receipts')
      /\ \A o : Done(o)' = IF r.op = o THEN Done(o) \cup {r} ELSE Done(o)
      /\ \A o : Cardinality(Done(o)') = IF r.op = o THEN Cardinality(Done(o)) + 1
                                        ELSE Cardinality(Done(o))
      /\ Cardinality(Acceptances') =
           IF r.op = "canary-review" /\ r.decision = "ACCEPTED"
           THEN Cardinality(Acceptances) + 1 ELSE Cardinality(Acceptances)
      /\ \A v : Cardinality(Decisions(v)') =
                  IF r.op = "qc" /\ r.item = v THEN Cardinality(Decisions(v)) + 1
                  ELSE Cardinality(Decisions(v))
  BY <1>1, OneMoreReceipt
<1>4. QED
  BY <1>1, <1>2, <1>3 DEF r

-----------------------------------------------------------------------------
(* What a step does to the rows of the pilots and of the versions.          *)

MovedTo(p, status) ==
    /\ pilots' \in Seq(PilotRow) /\ Len(pilots') = Len(pilots)
    /\ DOMAIN pilots' = DOMAIN pilots
    /\ \A q \in DOMAIN pilots :
           /\ pilots'[q].points = pilots[q].points /\ pilots'[q].lock = pilots[q].lock
           /\ pilots'[q].status = IF q = p THEN status ELSE pilots[q].status

LEMMA PilotMoves ==
    ASSUME TablesTyped, NEW r, HasPilot(r), NEW status \in PilotStatus,
           pilots' = Moved(r, status)
    PROVE  MovedTo(r.pilot, status)
<1> DEFINE row == [pilots[r.pilot] EXCEPT !.status = status]
<1>1. pilots[r.pilot] \in PilotRow
  BY DEF TablesTyped, HasPilot
<1>2. /\ row.status = status /\ row.points = pilots[r.pilot].points
      /\ row.lock = pilots[r.pilot].lock
  BY <1>1 DEF PilotRow
<1>3. pilots' \in Seq(PilotRow) /\ Replaced(pilots, pilots', r.pilot, row)
  BY MoveReplaces
<1> HIDE DEF row
<1>4. QED
  BY <1>2, <1>3 DEF Replaced, MovedTo

LEMMA NewPilotType ==
    ASSUME NEW lock \in {"canary", "new"}
    PROVE  /\ NewPilot(lock) \in PilotRow
           /\ NewPilot(lock).status = "CREATED" /\ NewPilot(lock).points = "none"
BY DEF NewPilot, PilotRow, PilotStatus

\* A step that leaves the rows alone leaves their story as it is.
LEMMA StoryStands ==
    ASSUME Story, UNCHANGED <<pilots, versions, deliveries>>,
           Done("qc")' = Done("qc"), Done("pilot-approve")' = Done("pilot-approve")
    PROVE  Story'
BY DEF Story, References, ApprovedIsLast, DraftsAreMeasured, Measured, RejectedFails,
       PartialIsAccepted, PublishedLeftQc, DeliveredIsPublished, PublishedWasApproved,
       Published, AllTell, Tells

LEMMA TablesStand ==
    ASSUME TablesTrue, UNCHANGED tables PROVE TablesTrue'
<1>0. TablesTyped /\ RowsCounted /\ LastLives /\ Story
  BY DEF TablesTrue
<1>1. TablesTyped'
  BY <1>0 DEF TablesTyped, tables
<1>2. /\ \A op : Done(op)' = Done(op)
      /\ Acceptances' = Acceptances
      /\ \A v : Decisions(v)' = Decisions(v)
  BY DEF tables, Done, Acceptances, Decisions
<1>3. RowsCounted'
  BY <1>0, <1>2 DEF RowsCounted, tables
<1>4. LastLives'
  BY <1>0 DEF LastLives, Accepted, tables
<1>5. Story'
  BY <1>0, <1>2, StoryStands DEF tables
<1>6. QED
  BY <1>1, <1>3, <1>4, <1>5 DEF TablesTrue

-----------------------------------------------------------------------------
(* The canary's review and the pilots.                                      *)

LEMMA ReviewStep ==
    ASSUME TablesTrue, OpenTyped, NEW h \in Handlers, ReviewCanary(h) PROVE TablesTrue'
<1> DEFINE r == doing[h]
<1>0. TablesTyped /\ RowsCounted /\ LastLives /\ Story
  BY DEF TablesTrue
<1>1. /\ r \in Requests /\ r \notin receipts /\ r.op = "canary-review"
      /\ receipts' = receipts \cup {r} /\ receipts' \subseteq Requests
  BY <1>0, ReceiptIsNew DEF ReviewCanary, TablesTyped
<1>2. /\ IsFiniteSet(receipts')
      /\ \A op : op # "canary-review" =>
            Done(op)' = Done(op) /\ Cardinality(Done(op)') = Cardinality(Done(op))
      /\ Cardinality(Done("canary-review")') = Cardinality(Done("canary-review")) + 1
      /\ Cardinality(Acceptances') = IF r.decision = "ACCEPTED"
                                     THEN Cardinality(Acceptances) + 1
                                     ELSE Cardinality(Acceptances)
      /\ \A v : Cardinality(Decisions(v)') = Cardinality(Decisions(v))
  BY <1>0, <1>1, OneMoreReceipt
<1>3. /\ r.decision \in {"ACCEPTED", "REJECTED"}
      /\ reviews' = Append(reviews, r.decision)
      /\ UNCHANGED <<versions, deliveries>>
  BY DEF ReviewCanary
<1>4. reviews' \in Seq({"ACCEPTED", "REJECTED"}) /\ Added(reviews, reviews', r.decision)
  BY <1>0, <1>3, AppendAdds DEF TablesTyped
<1>5. Accepted' <=> Accepted \/ r.decision = "ACCEPTED"
  BY <1>4 DEF Accepted, Added
<1>6. CASE r.decision = "REJECTED"
  <2>1. UNCHANGED pilots
    BY <1>6 DEF ReviewCanary
  <2>2. TablesTyped'
    BY <1>0, <1>1, <1>2, <1>3, <1>4, <2>1 DEF TablesTyped
  <2>3. RowsCounted'
    BY <1>0, <1>2, <1>3, <1>4, <1>6, <2>1
       DEF RowsCounted, Added
  <2>4. LastLives'
    BY <1>0, <1>5, <1>6, <2>1 DEF LastLives
  <2>5. Story'
    BY <1>0, <1>2, <1>3, <2>1, StoryStands
  <2>6. QED
    BY <2>2, <2>3, <2>4, <2>5 DEF TablesTrue
<1>7. CASE r.decision = "ACCEPTED"
  <2>1. pilots = <<>> /\ pilots' = Append(pilots, NewPilot("canary"))
    BY <1>0, <1>7 DEF ReviewCanary, LastLives
  <2>2. pilots' \in Seq(PilotRow) /\ Added(pilots, pilots', NewPilot("canary"))
    BY <1>0, <2>1, AppendAdds, NewPilotType DEF TablesTyped
  <2>3. /\ Len(pilots) = 0 /\ Len(pilots') = 1 /\ DOMAIN pilots' = {1}
        /\ pilots'[1].status = "CREATED" /\ pilots'[1].points = "none"
    BY <2>1, <2>2, NewPilotType DEF Added
  <2>4. /\ DOMAIN versions = {} /\ DOMAIN deliveries = {}
        /\ Done("qc") = {} /\ Done("pilot-approve") = {}
    <3>1. DOMAIN pilots = {}
      BY <1>0, <2>3 DEF TablesTyped
    <3>2. DOMAIN versions = {} /\ Done("pilot-approve") = {}
      BY <1>0, <2>1, <3>1 DEF Story, References, ApprovedIsLast
    <3>3. QED
      BY <1>0, <3>2 DEF Story, References, RejectedFails
  <2>5. TablesTyped'
    BY <1>0, <1>1, <1>2, <1>3, <1>4, <2>2 DEF TablesTyped
  <2>6. RowsCounted'
    BY <1>0, <1>2, <1>3, <1>4, <1>7, <2>3, CountsAreNumbers
       DEF RowsCounted, Added
  <2>7. LastLives'
    BY <1>5, <1>7, <2>3 DEF LastLives
  <2>8. Story'
    <3>1. /\ DOMAIN versions' = {} /\ DOMAIN deliveries' = {}
          /\ Done("qc")' = {} /\ Done("pilot-approve")' = {}
      BY <1>2, <1>3, <2>4
    <3>2. QED
      BY <2>3, <3>1 DEF Story, References, ApprovedIsLast, DraftsAreMeasured,
         RejectedFails, PartialIsAccepted, PublishedLeftQc, DeliveredIsPublished,
         PublishedWasApproved, AllTell, Tells
  <2>9. QED
    BY <2>5, <2>6, <2>7, <2>8 DEF TablesTrue
<1>8. QED
  BY <1>3, <1>6, <1>7

-----------------------------------------------------------------------------
(* Pilots that are not reported on yet.                                     *)

\* No draft is made of a pilot that waits or is measured.
LEMMA StoryElsewhere ==
    ASSUME Story, NEW p \in DOMAIN pilots, pilots[p].status \in {"CREATED", "QUEUED"},
           DOMAIN pilots \subseteq DOMAIN pilots',
           \A q \in DOMAIN pilots : q # p => /\ pilots'[q].status = pilots[q].status
                                             /\ pilots'[q].points = pilots[q].points,
           \A q \in DOMAIN pilots' : q = p \/ q \notin DOMAIN pilots =>
               /\ pilots'[q].status \notin {"READY", "COMPLETED"}
               /\ pilots'[q].status = "QC_REQUIRED" => pilots'[q].points # "some",
           UNCHANGED <<versions, deliveries>>, Done("qc")' = Done("qc"), ApprovedIsLast'
    PROVE  Story'
<1>1. \A v \in DOMAIN versions : versions[v].pilot \in DOMAIN pilots /\ versions[v].pilot # p
  BY DEF Story, References, DraftsAreMeasured, Measured
<1>2. \A v \in DOMAIN versions :
          /\ pilots'[versions[v].pilot].status = pilots[versions[v].pilot].status
          /\ pilots'[versions[v].pilot].points = pilots[versions[v].pilot].points
  BY <1>1
<1>3. References' /\ DraftsAreMeasured'
  BY <1>1, <1>2 DEF Story, References, DraftsAreMeasured, Measured
<1>4. RejectedFails' /\ PublishedLeftQc' /\ DeliveredIsPublished'
  BY <1>2 DEF Story, RejectedFails, PublishedLeftQc, DeliveredIsPublished, Published
<1>5. PublishedWasApproved'
  BY <1>2 DEF Story, PublishedWasApproved, Published
<1>6. PartialIsAccepted'
  BY DEF Story, PartialIsAccepted
<1>7. AllTell'
  BY DEF Story, AllTell, Tells
<1>8. QED
  BY <1>3, <1>4, <1>5, <1>6, <1>7 DEF Story

LEMMA RescheduleStep ==
    ASSUME TablesTrue, OpenTyped, NEW h \in Handlers, ReschedulePilot(h) PROVE TablesTrue'
<1> DEFINE p == doing[h].pilot
           moved == Moved(doing[h], "STOPPED")
<1>0. TablesTyped /\ RowsCounted /\ LastLives /\ Story
  BY DEF TablesTrue
<1>1. /\ Receipted(h, "pilot-reschedule") /\ HasPilot(doing[h])
      /\ pilots[p].status = "CREATED" /\ p \in DOMAIN pilots
      /\ pilots' = Append(moved, NewPilot("new"))
      /\ UNCHANGED <<reviews, versions, deliveries>>
  BY DEF ReschedulePilot, Pilot, HasPilot
<1>2. /\ moved \in Seq(PilotRow)
      /\ Replaced(pilots, moved, p, [pilots[p] EXCEPT !.status = "STOPPED"])
  BY <1>0, <1>1, MoveReplaces DEF PilotStatus
<1>3. moved[p].status = "STOPPED"
  <2>1. pilots[p] \in PilotRow
    BY <1>0, <1>1 DEF TablesTyped
  <2>2. QED
    BY <1>2, <2>1 DEF Replaced, PilotRow
<1> HIDE DEF moved
<1>4. pilots' \in Seq(PilotRow) /\ Added(moved, pilots', NewPilot("new"))
  BY <1>1, <1>2, AppendAdds, NewPilotType
<1>5. /\ Len(pilots') = Len(pilots) + 1 /\ Len(pilots) \in Nat
      /\ DOMAIN pilots' = DOMAIN pilots \cup {Len(pilots) + 1}
      /\ \A q \in DOMAIN pilots : q # p => pilots'[q] = pilots[q]
      /\ pilots'[p].status = "STOPPED"
      /\ pilots'[Len(pilots) + 1].status = "CREATED"
      /\ Len(pilots) + 1 \notin DOMAIN pilots
  <2>1. /\ Len(moved) = Len(pilots) /\ DOMAIN moved = DOMAIN pilots
        /\ \A q \in DOMAIN pilots : q # p => moved[q] = pilots[q]
    BY <1>2 DEF Replaced
  <2>2. /\ Len(pilots') = Len(pilots) + 1
        /\ DOMAIN pilots' = DOMAIN pilots \cup {Len(pilots) + 1}
        /\ Len(pilots) + 1 \notin DOMAIN pilots
        /\ \A q \in DOMAIN pilots : pilots'[q] = moved[q]
        /\ pilots'[Len(pilots) + 1] = NewPilot("new")
    BY <1>4, <2>1 DEF Added
  <2>3. Len(pilots) \in Nat
    BY <1>0 DEF TablesTyped
  <2>4. NewPilot("new").status = "CREATED"
    BY NewPilotType
  <2>5. QED
    BY <1>1, <1>3, <2>1, <2>2, <2>3, <2>4
<1>6. p = Len(pilots)
  BY <1>0, <1>1 DEF LastLives
<1>7. TablesTyped' /\ RowsCounted'
  <2>1. TablesTyped'
    BY <1>0, <1>1, <1>4, NewReceipt DEF TablesTyped
  <2>2. QED
    BY <1>0, <1>1, <1>5, <2>1, NewReceipt, CountsAreNumbers DEF RowsCounted
<1>8. LastLives'
  <2>1. Accepted' <=> Accepted
    BY <1>1 DEF Accepted
  <2>2. pilots # <<>>
    BY <1>1
  <2>3. QED
    BY <1>0, <1>5, <1>6, <2>1, <2>2 DEF LastLives
<1>9. Story'
  <2>1. Done("pilot-approve") = {}
    BY <1>0, <1>1, <1>6 DEF Story, ApprovedIsLast
  <2>2. Done("pilot-approve")' = {} /\ Done("qc")' = Done("qc")
    BY <1>0, <1>1, <2>1, NewReceipt
  <2>3. ApprovedIsLast'
    BY <2>2 DEF ApprovedIsLast
  <2>4. QED
    BY <1>0, <1>1, <1>5, <2>2, <2>3, StoryElsewhere
<1>10. QED
  BY <1>7, <1>8, <1>9 DEF TablesTrue

LEMMA ApproveStep ==
    ASSUME TablesTrue, OpenTyped, NEW h \in Handlers, ApprovePilot(h) PROVE TablesTrue'
<1> DEFINE p == doing[h].pilot
<1>0. TablesTyped /\ RowsCounted /\ LastLives /\ Story
  BY DEF TablesTrue
<1>1. /\ Receipted(h, "pilot-approve") /\ HasPilot(doing[h])
      /\ pilots[p].status = "CREATED" /\ p \in DOMAIN pilots
      /\ pilots' = Moved(doing[h], "QUEUED")
      /\ UNCHANGED <<reviews, versions, deliveries>>
  BY DEF ApprovePilot, Pilot, HasPilot
<1>2. MovedTo(p, "QUEUED")
  BY <1>0, <1>1, PilotMoves DEF PilotStatus
<1>3. p = Len(pilots)
  BY <1>0, <1>1 DEF LastLives
<1>4. TablesTyped'
  BY <1>0, <1>1, <1>2, NewReceipt DEF TablesTyped, MovedTo
<1>5. RowsCounted'
  BY <1>0, <1>1, <1>2, NewReceipt, CountsAreNumbers DEF RowsCounted, MovedTo
<1>6. LastLives'
  <2>1. Accepted' <=> Accepted
    BY <1>1 DEF Accepted
  <2>2. pilots # <<>>
    BY <1>1
  <2>3. QED
    BY <1>0, <1>2, <1>3, <2>1, <2>2 DEF LastLives, MovedTo
<1>7. ApprovedIsLast'
  <2>1. /\ Done("pilot-approve")' = Done("pilot-approve") \cup {doing[h]}
        /\ \A r \in Done("pilot-approve") : r.pilot = p
    BY <1>0, <1>1, <1>3, NewReceipt DEF Story, ApprovedIsLast
  <2>2. pilots' # <<>> /\ Len(pilots') = p /\ pilots'[p].status = "QUEUED"
    BY <1>1, <1>2, <1>3 DEF MovedTo
  <2>3. QED
    BY <2>1, <2>2 DEF ApprovedIsLast
<1>8. Story'
  <2>1. Done("qc")' = Done("qc")
    BY <1>0, <1>1, NewReceipt
  <2>2. QED
    BY <1>0, <1>1, <1>2, <1>7, <2>1, StoryElsewhere DEF MovedTo
<1>9. QED
  BY <1>4, <1>5, <1>6, <1>8 DEF TablesTrue

LEMMA MeasureStep ==
    ASSUME TablesTrue, NEW p \in DOMAIN pilots, Measure(p) PROVE TablesTrue'
<1>0. TablesTyped /\ RowsCounted /\ LastLives /\ Story
  BY DEF TablesTrue
<1>1. PICK v \in Verdict :
        pilots' = [pilots EXCEPT ![p].status = v[1], ![p].points = v[2]]
  BY DEF Measure
<1> DEFINE row == [pilots[p] EXCEPT !.status = v[1], !.points = v[2]]
<1>2. pilots[p] \in PilotRow /\ v[1] \in PilotStatus /\ v[2] \in {"all", "some", "holes"}
  BY <1>0 DEF TablesTyped, Verdict, PilotStatus
<1>3. row \in PilotRow /\ row.status = v[1] /\ row.points = v[2]
  BY <1>2 DEF PilotRow
<1>4. pilots' = [pilots EXCEPT ![p] = row]
  BY <1>1
<1> HIDE DEF row
<1>5. pilots' \in Seq(PilotRow) /\ Replaced(pilots, pilots', p, row)
  <2>1. /\ [pilots EXCEPT ![p] = row] \in Seq(PilotRow)
        /\ Replaced(pilots, [pilots EXCEPT ![p] = row], p, row)
    BY <1>0, <1>3, ExceptReplaces DEF TablesTyped
  <2>2. QED
    BY <1>4, <2>1
<1>6. pilots[p].status = "QUEUED" /\ UNCHANGED <<reviews, versions, deliveries, receipts>>
  BY DEF Measure
<1>7. p = Len(pilots)
  BY <1>0, <1>6 DEF LastLives
<1>8. TablesTyped'
  BY <1>0, <1>5, <1>6 DEF TablesTyped
<1>9. RowsCounted'
  BY <1>0, <1>5, <1>6 DEF RowsCounted, Replaced, Acceptances, Decisions, Done
<1>10. LastLives'
  <2>1. Accepted' <=> Accepted
    BY <1>6 DEF Accepted
  <2>2. QED
    BY <1>0, <1>5, <1>7, <2>1 DEF LastLives, Replaced
<1>11. Done("qc")' = Done("qc") /\ Done("pilot-approve")' = Done("pilot-approve")
  BY <1>6 DEF Done
<1>12. ApprovedIsLast'
  <2>1. pilots' # <<>> /\ pilots'[p].status # "CREATED" /\ Len(pilots') = Len(pilots)
    BY <1>3, <1>5 DEF Replaced, Verdict
  <2>2. QED
    BY <1>0, <1>7, <1>11, <2>1 DEF Story, ApprovedIsLast
<1>13. pilots'[p].status \notin {"READY", "COMPLETED"}
       /\ (pilots'[p].status = "QC_REQUIRED" => pilots'[p].points # "some")
  BY <1>3, <1>5 DEF Replaced, Verdict
<1>14. Story'
  BY <1>0, <1>5, <1>6, <1>11, <1>12, <1>13, StoryElsewhere DEF Replaced
<1>15. QED
  BY <1>8, <1>9, <1>10, <1>14 DEF TablesTrue

-----------------------------------------------------------------------------
(* Reports.                                                                 *)

\* All drafts are of the last pilot, which was measured.
LEMMA DraftsOfLast ==
    ASSUME LastLives, Story, NEW v \in DOMAIN versions
    PROVE  /\ versions[v].pilot = Len(pilots) /\ Len(pilots) \in DOMAIN pilots
           /\ Measured(Len(pilots))
BY DEF LastLives, Story, References, DraftsAreMeasured, Measured

\* What LastLives and ApprovedIsLast ask of a step that moves a measured pilot.
LEMMA LastMoves ==
    ASSUME LastLives, Story, NEW status, status # "CREATED", MovedTo(Len(pilots), status),
           UNCHANGED reviews, Done("pilot-approve")' = Done("pilot-approve"), pilots # <<>>
    PROVE  LastLives' /\ ApprovedIsLast'
<1>1. Accepted' <=> Accepted
  BY DEF Accepted
<1>2. LastLives'
  BY <1>1 DEF LastLives, MovedTo
<1>3. ASSUME pilots' = <<>> PROVE FALSE
  BY <1>3 DEF MovedTo, LastLives
<1>4. ASSUME NEW r \in Done("pilot-approve")
      PROVE  /\ r.pilot = Len(pilots') /\ pilots'[r.pilot].status # "CREATED"
  <2>1. r.pilot = Len(pilots) /\ pilots[r.pilot].status # "CREATED"
    BY DEF Story, ApprovedIsLast
  <2>2. QED
    BY <2>1 DEF MovedTo
<1>5. QED
  BY <1>2, <1>3, <1>4 DEF ApprovedIsLast

LEMMA CreateStep ==
    ASSUME TablesTrue, OpenTyped, NEW h \in Handlers, CreateReport(h) PROVE TablesTrue'
<1> DEFINE p == doing[h].pilot
           n == Len(versions) + 1
<1>0. TablesTyped /\ RowsCounted /\ LastLives /\ Story
  BY DEF TablesTrue
<1>1. /\ Receipted(h, "report-create") /\ p \in DOMAIN pilots /\ Measured(p)
      /\ versions' = Append(versions, NewVersion(p))
      /\ UNCHANGED <<reviews, pilots, deliveries>>
  BY DEF CreateReport, Pilot, HasPilot, Measured
<1>2. /\ NewVersion(p) \in VersionRow
      /\ NewVersion(p).pilot = p /\ NewVersion(p).status = "DRAFT"
      /\ NewVersion(p).decided = 0
  BY <1>0, <1>1 DEF NewVersion, VersionRow, Latest, TablesTyped
<1>3. versions' \in Seq(VersionRow) /\ Added(versions, versions', NewVersion(p))
  BY <1>0, <1>1, <1>2, AppendAdds DEF TablesTyped
<1>4. /\ Len(versions') = Len(versions) + 1 /\ Len(versions) \in Nat
      /\ DOMAIN versions' = DOMAIN versions \cup {n} /\ n \notin DOMAIN versions
      /\ \A v \in DOMAIN versions : versions'[v] = versions[v]
      /\ versions'[n].pilot = p /\ versions'[n].status = "DRAFT"
      /\ versions'[n].decided = 0
  BY <1>0, <1>2, <1>3 DEF Added, TablesTyped
<1> HIDE DEF n
<1>5. /\ TablesTyped'
      /\ Done("qc")' = Done("qc") /\ Done("pilot-approve")' = Done("pilot-approve")
  BY <1>0, <1>1, <1>3, NewReceipt DEF TablesTyped
<1>6. RowsCounted'
  <2>1. Decisions(n) = {}
    BY <1>0, <1>4 DEF Decisions, Story, RejectedFails
  <2>2. Cardinality(Decisions(n)) = 0
    BY <2>1, FS_EmptySet
  <2>3. \A v \in DOMAIN versions' : versions'[v].decided = Cardinality(Decisions(v)')
    BY <1>0, <1>1, <1>4, <2>2, NewReceipt DEF RowsCounted
  <2>4. QED
    BY <1>0, <1>1, <1>4, <2>3, NewReceipt, CountsAreNumbers DEF RowsCounted
<1>7. LastLives'
  BY <1>0, <1>1 DEF LastLives, Accepted
<1>8. Story'
  <2>1. References' /\ ApprovedIsLast' /\ DraftsAreMeasured'
    BY <1>0, <1>1, <1>4, <1>5
       DEF Story, References, ApprovedIsLast, DraftsAreMeasured, Measured
  <2>2. RejectedFails' /\ PartialIsAccepted'
    BY <1>0, <1>1, <1>4, <1>5 DEF Story, RejectedFails, PartialIsAccepted
  <2>3. PublishedLeftQc' /\ DeliveredIsPublished'
    BY <1>0, <1>1, <1>4
       DEF Story, References, PublishedLeftQc, DeliveredIsPublished, Published
  <2>4. PublishedWasApproved'
    BY <1>0, <1>1, <1>4, <1>5 DEF Story, PublishedWasApproved, Published
  <2>5. AllTell'
    BY <1>0, <1>1, <1>4 DEF Story, AllTell, Tells
  <2>6. QED
    BY <2>1, <2>2, <2>3, <2>4, <2>5 DEF Story
<1>9. QED
  BY <1>5, <1>6, <1>7, <1>8 DEF TablesTrue

LEMMA DecidedRow ==
    ASSUME NEW old \in VersionRow, NEW x \in Latest
    PROVE  /\ [old EXCEPT !.latest = x, !.decided = @ + 1] \in VersionRow
           /\ [old EXCEPT !.latest = x, !.decided = @ + 1].pilot = old.pilot
           /\ [old EXCEPT !.latest = x, !.decided = @ + 1].status = old.status
           /\ [old EXCEPT !.latest = x, !.decided = @ + 1].decided = old.decided + 1
<1>1. [old EXCEPT !.latest = x] \in VersionRow
  BY DEF VersionRow
<1>2. \A e \in VersionRow : [e EXCEPT !.decided = @ + 1] \in VersionRow
  BY DEF VersionRow
<1>3. [old EXCEPT !.latest = x, !.decided = @ + 1] =
        [[old EXCEPT !.latest = x] EXCEPT !.decided = @ + 1]
  OBVIOUS
<1>4. [old EXCEPT !.latest = x, !.decided = @ + 1] \in VersionRow
  BY <1>1, <1>2, <1>3
<1>5. [old EXCEPT !.latest = x, !.decided = @ + 1].decided = old.decided + 1
  BY DEF VersionRow
<1>6. /\ [old EXCEPT !.latest = x, !.decided = @ + 1].pilot = old.pilot
      /\ [old EXCEPT !.latest = x, !.decided = @ + 1].status = old.status
  BY DEF VersionRow
<1>7. QED
  BY <1>4, <1>5, <1>6

LEMMA DecideStep ==
    ASSUME TablesTrue, OpenTyped, NEW h \in Handlers, DecideQc(h) PROVE TablesTrue'
<1> DEFINE r == doing[h]
           v == r.item
           p == Len(pilots)
           status == DecidedStatus(pilots[p].status, r.decision)
           latest == IF v \in overtaken[h] THEN versions[v].latest ELSE r.decision
           row == [versions[v] EXCEPT !.latest = latest, !.decided = @ + 1]
<1>0. TablesTyped /\ RowsCounted /\ LastLives /\ Story
  BY DEF TablesTrue
<1>1. /\ Receipted(h, "qc") /\ v \in DOMAIN versions /\ versions[v].pilot = r.pilot
      /\ versions[v].status = "DRAFT" /\ Decides(pilots[r.pilot].status, r.decision)
      /\ versions' = [versions EXCEPT ![v].latest = IF v \in overtaken[h] THEN @
                                                    ELSE r.decision,
                                      ![v].decided = @ + 1]
      /\ pilots' = Moved(r, DecidedStatus(pilots[r.pilot].status, r.decision))
      /\ UNCHANGED <<reviews, deliveries>>
  BY DEF DecideQc, HasVersion, Version, Pilot
<1>2. /\ r \in Requests /\ r.op = "qc"
      /\ r.decision \in {"ACCEPT_PARTIAL", "APPROVED", "REJECTED"}
  BY <1>0, <1>1, NewReceipt, RequestsAssumption
<1>3. r.pilot = p /\ p \in DOMAIN pilots /\ Measured(p) /\ Decides(pilots[p].status, r.decision)
  BY <1>0, <1>1, DraftsOfLast
<1>4. /\ status \in PilotStatus
      /\ status \in {"PARTIAL_FAILURE", "QC_REQUIRED", "FAILED"}
      /\ pilots[p].status = "FAILED" => r.decision = "REJECTED"
      /\ pilots[p].status \in {"READY", "COMPLETED"} => r.decision = "REJECTED"
      /\ r.decision = "REJECTED" => status = "FAILED"
      /\ r.decision = "APPROVED" => status = pilots[p].status
  BY <1>2, <1>3 DEF DecidedStatus, Decides, PilotStatus
<1>5. MovedTo(p, status)
  BY <1>0, <1>1, <1>3, <1>4, PilotMoves DEF HasPilot
<1> HIDE DEF status
<1>6. versions[v] \in VersionRow
  BY <1>0, <1>1 DEF TablesTyped
<1>7. latest \in Latest
  BY <1>2, <1>6 DEF VersionRow, Latest
<1> HIDE DEF latest
<1>8. /\ row \in VersionRow /\ row.pilot = versions[v].pilot
      /\ row.status = "DRAFT" /\ row.decided = versions[v].decided + 1
  <2>1. versions[v].status = "DRAFT"
    BY <1>1
  <2>2. QED
    BY <1>6, <1>7, <2>1, DecidedRow
<1>9. versions' = [versions EXCEPT ![v] = row]
  BY <1>1, <1>6 DEF latest, VersionRow
<1> HIDE DEF row
<1>10. versions' \in Seq(VersionRow) /\ Replaced(versions, versions', v, row)
  <2>1. /\ [versions EXCEPT ![v] = row] \in Seq(VersionRow)
        /\ Replaced(versions, [versions EXCEPT ![v] = row], v, row)
    BY <1>0, <1>1, <1>8, ExceptReplaces DEF TablesTyped
  <2>2. QED
    BY <1>9, <2>1
<1>11. /\ DOMAIN versions' = DOMAIN versions /\ Len(versions') = Len(versions)
       /\ \A w \in DOMAIN versions : /\ w # v => versions'[w] = versions[w]
                                     /\ versions'[w].pilot = versions[w].pilot
                                     /\ versions'[w].status = versions[w].status
       /\ versions'[v].decided = versions[v].decided + 1
  BY <1>1, <1>8, <1>10 DEF Replaced
<1>12. /\ Done("qc")' = Done("qc") \cup {r}
       /\ Done("pilot-approve")' = Done("pilot-approve")
  BY <1>0, <1>1, NewReceipt
<1>13. TablesTyped'
  BY <1>0, <1>1, <1>5, <1>10, NewReceipt DEF TablesTyped, MovedTo
<1>14. RowsCounted'
  <2>1. \A w \in DOMAIN versions' : versions'[w].decided = Cardinality(Decisions(w)')
    BY <1>0, <1>1, <1>11, NewReceipt DEF RowsCounted
  <2>2. QED
    <3>1. /\ Len(pilots') = Len(pilots) /\ Len(versions') = Len(versions)
          /\ UNCHANGED <<reviews, deliveries>>
      BY <1>1, <1>5, <1>11 DEF MovedTo
    <3>2. /\ Cardinality(Done("canary-review")') = Cardinality(Done("canary-review"))
          /\ Cardinality(Done("pilot-reschedule")') = Cardinality(Done("pilot-reschedule"))
          /\ Cardinality(Done("report-create")') = Cardinality(Done("report-create"))
          /\ Cardinality(Done("deliver")') = Cardinality(Done("deliver"))
          /\ Cardinality(Acceptances') = Cardinality(Acceptances)
      BY <1>0, <1>1, NewReceipt
    <3>3. QED
      BY <1>0, <2>1, <3>1, <3>2 DEF RowsCounted
<1>15. LastLives' /\ ApprovedIsLast'
  <2>1. pilots # <<>> /\ status # "CREATED"
    BY <1>3, <1>4
  <2>2. QED
    BY <1>0, <1>1, <1>5, <1>12, <2>1, LastMoves
<1>16. \A w \in DOMAIN versions : versions[w].pilot = p
  BY <1>0, DraftsOfLast
<1>17. Story'
  <2>0. /\ \A w \in DOMAIN versions' : versions'[w].pilot = p
        /\ pilots'[p].status = status /\ pilots'[p].points = pilots[p].points
    BY <1>3, <1>5, <1>11, <1>16 DEF MovedTo
  <2>1. References'
    BY <1>0, <1>1, <1>5, <1>11 DEF Story, References, MovedTo
  <2>9. DraftsAreMeasured'
    BY <1>3, <1>4, <2>0 DEF DraftsAreMeasured, Measured
  <2>2. RejectedFails'
    <3>1. \A q \in Done("qc") : /\ q.item \in DOMAIN versions
                                /\ q.decision = "REJECTED" => pilots[p].status = "FAILED"
      BY <1>0, <1>16 DEF Story, RejectedFails
    <3>2. pilots'[p].status = status
      BY <1>3, <1>5 DEF MovedTo
    <3>3. QED
      BY <1>1, <1>4, <1>11, <1>12, <1>16, <3>1, <3>2 DEF RejectedFails
  <2>3. PartialIsAccepted'
    <3> SUFFICES ASSUME NEW q \in DOMAIN pilots, pilots'[q].points = "some",
                        pilots'[q].status \in {"QC_REQUIRED", "READY", "COMPLETED"}
                 PROVE  \E d \in Done("qc")' : d.decision = "ACCEPT_PARTIAL"
      BY <1>5 DEF PartialIsAccepted, MovedTo
    <3>1. CASE r.decision = "ACCEPT_PARTIAL"
      BY <1>12, <3>1
    <3>2. CASE q # p \/ r.decision = "APPROVED"
      <4>1. pilots[q].points = "some" /\ pilots[q].status = pilots'[q].status
        BY <1>4, <1>5, <3>2 DEF MovedTo
      <4>2. QED
        BY <1>0, <1>12, <4>1 DEF Story, PartialIsAccepted
    <3>3. CASE q = p /\ r.decision = "REJECTED"
      BY <1>4, <1>5, <3>3 DEF MovedTo
    <3>4. QED
      BY <1>2, <3>1, <3>2, <3>3
  <2>4. PublishedLeftQc'
    BY <1>0, <1>3, <1>4, <1>5, <1>11, <1>16
       DEF Story, PublishedLeftQc, Published, MovedTo
  <2>5. DeliveredIsPublished'
    BY <1>0, <1>1, <1>11 DEF Story, References, DeliveredIsPublished, Published
  <2>6. PublishedWasApproved'
    <3> SUFFICES ASSUME NEW w \in DOMAIN versions, versions'[w].status = "PUBLISHED"
                 PROVE  /\ \A u \in DOMAIN versions' :
                               versions'[u].status = "PUBLISHED" => w = u
                        /\ versions'[w].latest = "APPROVED"
                        /\ \A d \in Done("qc")' : d.item = w => d.decision # "REJECTED"
                        /\ pilots'[versions'[w].pilot].points \in {"all", "some"}
                        /\ pilots'[versions'[w].pilot].points = "some" =>
                               \E d \in Done("qc")' : d.decision = "ACCEPT_PARTIAL"
      BY <1>11 DEF PublishedWasApproved, Published
    <3>1. versions[w].status = "PUBLISHED" /\ w # v /\ versions'[w] = versions[w]
      BY <1>1, <1>11
    <3>2. pilots'[versions[w].pilot].points = pilots[versions[w].pilot].points
      BY <1>3, <1>5, <1>16 DEF MovedTo
    <3>3. QED
      BY <1>0, <1>11, <1>12, <3>1, <3>2 DEF Story, PublishedWasApproved, Published
  <2>7. AllTell'
    <3>1. ASSUME NEW q \in DOMAIN pilots, pilots'[q].status \in {"READY", "COMPLETED"}
          PROVE  pilots'[q].status = pilots[q].status
      BY <1>4, <1>5, <3>1 DEF MovedTo
    <3>2. DOMAIN pilots' = DOMAIN pilots /\ deliveries' = deliveries
      BY <1>1, <1>5 DEF MovedTo
    <3>3. QED
      BY <1>0, <1>11, <3>1, <3>2 DEF Story, AllTell, Tells
  <2>8. QED
    BY <1>15, <2>1, <2>9, <2>2, <2>3, <2>4, <2>5, <2>6, <2>7 DEF Story
<1>18. QED
  BY <1>13, <1>14, <1>15, <1>17 DEF TablesTrue

-----------------------------------------------------------------------------
(* What the customer sees.                                                  *)

LEMMA PublishStep ==
    ASSUME TablesTrue, OpenTyped, NEW h \in Handlers, Publish(h) PROVE TablesTrue'
<1> DEFINE r == doing[h]
           v == r.item
           p == Len(pilots)
           row == [versions[v] EXCEPT !.status = "PUBLISHED"]
<1>0. TablesTyped /\ RowsCounted /\ LastLives /\ Story
  BY DEF TablesTrue
<1>1. /\ Receipted(h, "publish") /\ v \in DOMAIN versions /\ versions[v].pilot = r.pilot
      /\ versions[v].status = "DRAFT" /\ versions[v].latest = "APPROVED"
      /\ pilots[r.pilot].status = "QC_REQUIRED"
      /\ versions' = [versions EXCEPT ![v].status = "PUBLISHED"]
      /\ pilots' = Moved(r, "READY")
      /\ UNCHANGED <<reviews, deliveries>>
  BY DEF Publish, HasVersion, Version, Pilot
<1>2. r.pilot = p /\ p \in DOMAIN pilots /\ Measured(p) /\ pilots[p].status = "QC_REQUIRED"
  BY <1>0, <1>1, DraftsOfLast
<1>3. MovedTo(p, "READY")
  BY <1>0, <1>1, <1>2, PilotMoves DEF HasPilot, PilotStatus
<1>4. versions[v] \in VersionRow
  BY <1>0, <1>1 DEF TablesTyped
<1>5. /\ row \in VersionRow /\ row.pilot = versions[v].pilot /\ row.status = "PUBLISHED"
      /\ row.latest = versions[v].latest /\ row.decided = versions[v].decided
  BY <1>4 DEF VersionRow
<1>6. versions' = [versions EXCEPT ![v] = row]
  BY <1>1
<1> HIDE DEF row
<1>7. versions' \in Seq(VersionRow) /\ Replaced(versions, versions', v, row)
  <2>1. /\ [versions EXCEPT ![v] = row] \in Seq(VersionRow)
        /\ Replaced(versions, [versions EXCEPT ![v] = row], v, row)
    BY <1>0, <1>1, <1>5, ExceptReplaces DEF TablesTyped
  <2>2. QED
    BY <1>6, <2>1
<1>8. /\ DOMAIN versions' = DOMAIN versions /\ Len(versions') = Len(versions)
      /\ \A w \in DOMAIN versions : /\ versions'[w].pilot = versions[w].pilot
                                    /\ versions'[w].latest = versions[w].latest
                                    /\ versions'[w].decided = versions[w].decided
                                    /\ w # v => versions'[w].status = versions[w].status
      /\ versions'[v].status = "PUBLISHED"
  BY <1>1, <1>5, <1>7 DEF Replaced
<1>9. /\ Done("qc")' = Done("qc") /\ Done("pilot-approve")' = Done("pilot-approve")
      /\ TablesTyped'
  BY <1>0, <1>1, <1>3, <1>7, NewReceipt DEF TablesTyped, MovedTo
<1>10. RowsCounted'
  <2>1. \A w \in DOMAIN versions' : versions'[w].decided = Cardinality(Decisions(w)')
    BY <1>0, <1>1, <1>8, NewReceipt DEF RowsCounted
  <2>2. /\ Len(pilots') = Len(pilots) /\ Len(versions') = Len(versions)
        /\ UNCHANGED <<reviews, deliveries>>
    BY <1>1, <1>3, <1>8 DEF MovedTo
  <2>3. QED
    BY <1>0, <1>1, <2>1, <2>2, NewReceipt DEF RowsCounted
<1>11. LastLives' /\ ApprovedIsLast'
  <2>1. pilots # <<>>
    BY <1>2
  <2>2. QED
    BY <1>0, <1>1, <1>3, <1>9, <2>1, LastMoves
<1>12. \A w \in DOMAIN versions : versions[w].pilot = p
  BY <1>0, DraftsOfLast
<1>13. pilots'[p].status = "READY" /\ pilots'[p].points = pilots[p].points
  BY <1>2, <1>3 DEF MovedTo
<1>14. References' /\ DraftsAreMeasured'
  <2>1. References'
    BY <1>0, <1>1, <1>3, <1>8 DEF Story, References, MovedTo
  <2>2. DraftsAreMeasured'
    BY <1>2, <1>8, <1>12, <1>13 DEF DraftsAreMeasured, Measured
  <2>3. QED
    BY <2>1, <2>2
<1>15. \A d \in Done("qc") : d.item \in DOMAIN versions /\ d.decision # "REJECTED"
  BY <1>0, <1>2, <1>12 DEF Story, RejectedFails
<1>16. RejectedFails'
  BY <1>8, <1>9, <1>15 DEF RejectedFails
<1>17. PartialIsAccepted'
  <2>1. ASSUME NEW q \in DOMAIN pilots, pilots'[q].status \in {"QC_REQUIRED", "READY", "COMPLETED"}
        PROVE  /\ pilots[q].status \in {"QC_REQUIRED", "READY", "COMPLETED"}
               /\ pilots'[q].points = pilots[q].points
    BY <1>2, <1>3, <2>1 DEF MovedTo
  <2>2. DOMAIN pilots' = DOMAIN pilots
    BY <1>3 DEF MovedTo
  <2>3. QED
    BY <1>0, <1>9, <2>1, <2>2 DEF Story, PartialIsAccepted
<1>18. \A w \in DOMAIN versions : versions[w].status # "PUBLISHED"
  BY <1>0, <1>2, <1>12 DEF Story, PublishedLeftQc, Published
<1>19. PublishedLeftQc' /\ DeliveredIsPublished'
  <2>1. PublishedLeftQc'
    BY <1>8, <1>12, <1>13 DEF PublishedLeftQc
  <2>2. DOMAIN deliveries = {}
    BY <1>0, <1>18 DEF Story, References, DeliveredIsPublished, Published
  <2>3. QED
    BY <1>1, <2>1, <2>2 DEF DeliveredIsPublished
<1>20. PublishedWasApproved'
  <2>1. \A w \in DOMAIN versions' : versions'[w].status = "PUBLISHED" <=> w = v
    BY <1>1, <1>8, <1>18
  <2>2. versions'[v].latest = "APPROVED" /\ versions'[v].pilot = p
    BY <1>1, <1>2, <1>8
  <2>3. pilots[p].points = "some" => \E d \in Done("qc") : d.decision = "ACCEPT_PARTIAL"
    BY <1>0, <1>2 DEF Story, PartialIsAccepted
  <2>4. pilots[p].points \in {"all", "some"}
    BY <1>2 DEF Measured
  <2>5. QED
    BY <1>9, <1>13, <1>15, <2>1, <2>2, <2>3, <2>4 DEF PublishedWasApproved, Published
<1>21. AllTell'
  <2>1. ASSUME NEW q \in DOMAIN pilots, q # p
        PROVE  pilots'[q].status \notin {"READY", "COMPLETED"}
    BY <1>0, <1>3, <2>1 DEF LastLives, MovedTo
  <2>2. DOMAIN deliveries' = {}
    BY <1>0, <1>1, <1>18 DEF Story, References, DeliveredIsPublished, Published
  <2>3. Tells(p)'
    BY <1>1, <1>2, <1>3, <1>8, <1>13, <2>2 DEF Tells, MovedTo
  <2>4. DOMAIN pilots' = DOMAIN pilots /\ Len(pilots') = Len(pilots)
    BY <1>3 DEF MovedTo
  <2>5. QED
    BY <2>1, <2>3, <2>4 DEF AllTell, Tells
<1>22. Story'
  BY <1>11, <1>14, <1>16, <1>17, <1>19, <1>20, <1>21 DEF Story
<1>23. QED
  BY <1>9, <1>10, <1>11, <1>22 DEF TablesTrue

LEMMA DeliverStep ==
    ASSUME TablesTrue, OpenTyped, NEW h \in Handlers, Deliver(h) PROVE TablesTrue'
<1> DEFINE v == doing[h].item
           row == [version |-> v, status |-> "SENT"]
           n == Len(deliveries) + 1
<1>0. TablesTyped /\ RowsCounted /\ LastLives /\ Story
  BY DEF TablesTrue
<1>1. /\ Receipted(h, "deliver") /\ v \in DOMAIN versions
      /\ versions[v].status = "PUBLISHED"
      /\ deliveries' = Append(deliveries, row)
      /\ UNCHANGED <<reviews, pilots, versions>>
  BY DEF Deliver, HasVersion, Version
<1>2. row \in DeliveryRow
  BY <1>0, <1>1 DEF DeliveryRow, TablesTyped
<1>3. deliveries' \in Seq(DeliveryRow) /\ Added(deliveries, deliveries', row)
  BY <1>0, <1>1, <1>2, AppendAdds DEF TablesTyped
<1>4. /\ Len(deliveries') = Len(deliveries) + 1 /\ Len(deliveries) \in Nat
      /\ DOMAIN deliveries' = DOMAIN deliveries \cup {n}
      /\ \A i \in DOMAIN deliveries : deliveries'[i] = deliveries[i]
      /\ deliveries'[n].version = v /\ deliveries'[n].status = "SENT"
  BY <1>0, <1>3 DEF Added, TablesTyped
<1> HIDE DEF n
<1>5. /\ TablesTyped'
      /\ Done("qc")' = Done("qc") /\ Done("pilot-approve")' = Done("pilot-approve")
  BY <1>0, <1>1, <1>3, NewReceipt DEF TablesTyped
<1>6. RowsCounted'
  <2>1. \A w \in DOMAIN versions' : versions'[w].decided = Cardinality(Decisions(w)')
    BY <1>0, <1>1, NewReceipt DEF RowsCounted
  <2>2. QED
    BY <1>0, <1>1, <1>4, <2>1, NewReceipt DEF RowsCounted
<1>7. LastLives'
  BY <1>0, <1>1 DEF LastLives, Accepted
<1>8. Story'
  <2>1. References' /\ DeliveredIsPublished'
    BY <1>0, <1>1, <1>4 DEF Story, References, DeliveredIsPublished, Published
  <2>2. AllTell'
    <3>1. ASSUME NEW q \in DOMAIN pilots, NEW w \in DOMAIN versions
          PROVE  (\E i \in DOMAIN deliveries' :
                    deliveries'[i].version = w /\ deliveries'[i].status = "ACKNOWLEDGED")
                 <=> \E i \in DOMAIN deliveries :
                       deliveries[i].version = w /\ deliveries[i].status = "ACKNOWLEDGED"
      BY <1>4
    <3>2. QED
      BY <1>0, <1>1, <3>1 DEF Story, AllTell, Tells
  <2>3. ApprovedIsLast' /\ DraftsAreMeasured' /\ RejectedFails'
    BY <1>0, <1>1, <1>5 DEF Story, ApprovedIsLast, DraftsAreMeasured, Measured, RejectedFails
  <2>4. PartialIsAccepted' /\ PublishedLeftQc' /\ PublishedWasApproved'
    BY <1>0, <1>1, <1>5
       DEF Story, PartialIsAccepted, PublishedLeftQc, PublishedWasApproved, Published
  <2>5. QED
    BY <2>1, <2>2, <2>3, <2>4 DEF Story
<1>9. QED
  BY <1>5, <1>6, <1>7, <1>8 DEF TablesTrue

LEMMA AcknowledgeStep ==
    ASSUME TablesTrue, OpenTyped, NEW h \in Handlers, Acknowledge(h) PROVE TablesTrue'
<1> DEFINE r == doing[h]
           n == r.item
           v == deliveries[n].version
           p == Len(pilots)
           row == [deliveries[n] EXCEPT !.status = "ACKNOWLEDGED"]
<1>0. TablesTyped /\ RowsCounted /\ LastLives /\ Story
  BY DEF TablesTrue
<1>1. /\ Receipted(h, "acknowledge") /\ n \in DOMAIN deliveries
      /\ versions[v].pilot = r.pilot /\ pilots[r.pilot].status \in {"READY", "COMPLETED"}
      /\ pilots' = IF deliveries[n].status = "SENT" THEN Moved(r, "COMPLETED") ELSE pilots
      /\ deliveries' = [deliveries EXCEPT ![n].status = "ACKNOWLEDGED"]
      /\ UNCHANGED <<reviews, versions>>
  BY DEF Acknowledge, Pilot
<1>2. /\ v \in DOMAIN versions /\ versions[v].status = "PUBLISHED"
      /\ r.pilot = p /\ p \in DOMAIN pilots
  <2>1. v \in DOMAIN versions /\ versions[v].status = "PUBLISHED"
    BY <1>0, <1>1 DEF Story, References, DeliveredIsPublished, Published
  <2>2. QED
    BY <1>0, <1>1, <2>1, DraftsOfLast
<1>3. deliveries[n] \in DeliveryRow
  BY <1>0, <1>1 DEF TablesTyped
<1>4. row \in DeliveryRow /\ row.version = v /\ row.status = "ACKNOWLEDGED"
  BY <1>3 DEF DeliveryRow
<1>5. deliveries' = [deliveries EXCEPT ![n] = row]
  BY <1>1
<1> HIDE DEF row
<1>6. deliveries' \in Seq(DeliveryRow) /\ Replaced(deliveries, deliveries', n, row)
  <2>1. /\ [deliveries EXCEPT ![n] = row] \in Seq(DeliveryRow)
        /\ Replaced(deliveries, [deliveries EXCEPT ![n] = row], n, row)
    BY <1>0, <1>1, <1>4, ExceptReplaces DEF TablesTyped
  <2>2. QED
    BY <1>5, <2>1
<1>7. /\ DOMAIN deliveries' = DOMAIN deliveries /\ Len(deliveries') = Len(deliveries)
      /\ \A i \in DOMAIN deliveries :
             /\ deliveries'[i].version = deliveries[i].version
             /\ i # n => deliveries'[i].status = deliveries[i].status
      /\ deliveries'[n].status = "ACKNOWLEDGED"
  BY <1>1, <1>4, <1>6 DEF Replaced
<1>8. /\ Done("qc")' = Done("qc") /\ Done("pilot-approve")' = Done("pilot-approve")
      /\ receipts' \subseteq Requests /\ IsFiniteSet(receipts')
  BY <1>0, <1>1, NewReceipt
<1>9. ASSUME pilots' \in Seq(PilotRow), Len(pilots') = Len(pilots)
      PROVE  TablesTyped' /\ RowsCounted'
  <2>1. \A w \in DOMAIN versions' : versions'[w].decided = Cardinality(Decisions(w)')
    BY <1>0, <1>1, NewReceipt DEF RowsCounted
  <2>2. RowsCounted'
    BY <1>0, <1>1, <1>7, <1>9, <2>1, NewReceipt DEF RowsCounted
  <2>3. QED
    BY <1>0, <1>1, <1>6, <1>8, <1>9, <2>2 DEF TablesTyped
<1>10. CASE deliveries[n].status = "SENT"
  <2>1. MovedTo(p, "COMPLETED")
    BY <1>0, <1>1, <1>2, <1>10, PilotMoves DEF HasPilot, PilotStatus
  <2>2. LastLives' /\ ApprovedIsLast'
    <3>1. pilots # <<>>
      BY <1>2
    <3>2. QED
      BY <1>0, <1>1, <1>8, <2>1, <3>1, LastMoves
  <2>3. pilots'[p].status = "COMPLETED" /\ pilots'[p].points = pilots[p].points
    BY <1>2, <2>1 DEF MovedTo
  <2>4. pilots[p].status \in {"READY", "COMPLETED"}
    BY <1>1, <1>2
  <2>5. \A w \in DOMAIN versions : versions[w].pilot = p
    BY <1>0, DraftsOfLast
  <2>6. References'
    BY <1>0, <1>1, <1>7, <2>1 DEF Story, References, MovedTo
  <2>7. DraftsAreMeasured' /\ PublishedLeftQc'
    BY <1>0, <1>1, <2>3, <2>5
       DEF Story, DraftsAreMeasured, Measured, PublishedLeftQc
  <2>8. RejectedFails'
    BY <1>0, <1>1, <1>8, <2>4, <2>5 DEF Story, RejectedFails
  <2>9. PartialIsAccepted'
    <3>1. ASSUME NEW q \in DOMAIN pilots,
                 pilots'[q].status \in {"QC_REQUIRED", "READY", "COMPLETED"}
          PROVE  /\ pilots[q].status \in {"QC_REQUIRED", "READY", "COMPLETED"}
                 /\ pilots'[q].points = pilots[q].points
      BY <2>1, <2>4, <3>1 DEF MovedTo
    <3>2. DOMAIN pilots' = DOMAIN pilots
      BY <2>1 DEF MovedTo
    <3>3. QED
      BY <1>0, <1>8, <3>1, <3>2 DEF Story, PartialIsAccepted
  <2>10. DeliveredIsPublished'
    BY <1>0, <1>1, <1>7 DEF Story, DeliveredIsPublished, Published
  <2>11. PublishedWasApproved'
    BY <1>0, <1>1, <1>8, <2>3, <2>5 DEF Story, PublishedWasApproved, Published
  <2>12. AllTell'
    <3>1. ASSUME NEW q \in DOMAIN pilots, q # p
          PROVE  pilots'[q].status \notin {"READY", "COMPLETED"}
      BY <1>0, <2>1, <3>1 DEF LastLives, MovedTo
    <3>2. Tells(p)'
      <4>1. /\ v \in DOMAIN versions' /\ versions'[v].pilot = Len(pilots')
            /\ versions'[v].status = "PUBLISHED" /\ Len(pilots') = p
        BY <1>1, <1>2, <2>1 DEF MovedTo
      <4>2. n \in DOMAIN deliveries' /\ deliveries'[n].version = v
            /\ deliveries'[n].status = "ACKNOWLEDGED"
        BY <1>1, <1>7
      <4>3. pilots'[Len(pilots')].status = "COMPLETED"
        BY <2>3, <4>1
      <4>4. QED
        BY <4>1, <4>2, <4>3 DEF Tells
    <3>3. DOMAIN pilots' = DOMAIN pilots /\ Len(pilots') = Len(pilots)
      BY <2>1 DEF MovedTo
    <3>4. QED
      BY <3>1, <3>2, <3>3 DEF AllTell, Tells
  <2>13. Story'
    BY <2>2, <2>6, <2>7, <2>8, <2>9, <2>10, <2>11, <2>12 DEF Story
  <2>14. QED
    BY <1>9, <2>1, <2>2, <2>13 DEF TablesTrue, MovedTo
<1>11. CASE deliveries[n].status # "SENT"
  <2>1. pilots' = pilots
    BY <1>1, <1>11
  <2>2. deliveries' = deliveries
    <3>1. deliveries[n].status = "ACKNOWLEDGED"
      BY <1>3, <1>11 DEF DeliveryRow
    <3>2. row = deliveries[n]
      BY <1>3, <3>1 DEF row, DeliveryRow
    <3>3. QED
      BY <1>0, <1>5, <3>2 DEF TablesTyped
  <2>3. TablesTyped' /\ RowsCounted'
    BY <1>0, <1>9, <2>1 DEF TablesTyped
  <2>4. LastLives'
    BY <1>0, <1>1, <2>1 DEF LastLives, Accepted
  <2>5. Story'
    BY <1>0, <1>1, <1>8, <2>1, <2>2, StoryStands
  <2>6. QED
    BY <2>3, <2>4, <2>5 DEF TablesTrue
<1>12. QED
  BY <1>10, <1>11

-----------------------------------------------------------------------------
(* The invariant.                                                           *)

LEMMA FinishTyped ==
    ASSUME OpenTyped, NEW h \in Handlers, Finish(h)
    PROVE  /\ doing' \in [Handlers -> Requests \cup {NoRequest}]
           /\ saw' \in [Handlers -> BOOLEAN]
           /\ ahead' \in [Handlers -> SUBSET {g \in Handlers : doing'[g] # NoRequest}]
<1>1. \A g \in Handlers : doing'[g] = IF g = h THEN NoRequest ELSE doing[g]
  BY DEF OpenTyped, Finish
<1>2. ahead' \in [Handlers -> SUBSET {g \in Handlers : doing'[g] # NoRequest}]
  BY <1>1 DEF OpenTyped, Finish
<1>3. QED
  BY <1>2 DEF OpenTyped, Finish

LEMMA CloseTyped ==
    ASSUME OpenTyped, NEW h \in Handlers, Close(h), DOMAIN versions \subseteq DOMAIN versions'
    PROVE  OpenTyped'
<1>1. overtaken' \in [Handlers -> SUBSET DOMAIN versions']
  BY DEF OpenTyped, Close
<1>2. QED
  BY <1>1, FinishTyped DEF OpenTyped, Close

LEMMA HandleStep ==
    ASSUME IInv, NEW h \in Handlers, Handle(h) PROVE IInv'
<1>0. TablesTrue /\ OpenTyped /\ TablesTyped
  BY DEF IInv, TablesTrue
<1>1. CASE ReviewCanary(h)
  BY <1>0, <1>1, ReviewStep, CloseTyped DEF IInv, ReviewCanary
<1>2. CASE ReschedulePilot(h)
  BY <1>0, <1>2, RescheduleStep, CloseTyped DEF IInv, ReschedulePilot
<1>3. CASE ApprovePilot(h)
  BY <1>0, <1>3, ApproveStep, CloseTyped DEF IInv, ApprovePilot
<1>4. CASE CreateReport(h)
  <2>1. DOMAIN versions \subseteq DOMAIN versions'
    BY <1>0, <1>4 DEF CreateReport, TablesTyped
  <2>2. QED
    BY <1>0, <1>4, <2>1, CreateStep, CloseTyped DEF IInv, CreateReport
<1>5. CASE DecideQc(h)
  <2>1. DOMAIN versions' = DOMAIN versions /\ doing[h].item \in DOMAIN versions
    BY <1>5 DEF DecideQc, HasVersion
  <2>2. overtaken' \in [Handlers -> SUBSET DOMAIN versions']
    BY <1>0, <1>5, <2>1 DEF DecideQc, OpenTyped
  <2>3. QED
    BY <1>0, <1>5, <2>2, DecideStep, FinishTyped DEF IInv, DecideQc, OpenTyped
<1>6. CASE Publish(h)
  BY <1>0, <1>6, PublishStep, CloseTyped DEF IInv, Publish
<1>7. CASE Deliver(h)
  BY <1>0, <1>7, DeliverStep, CloseTyped DEF IInv, Deliver
<1>8. CASE Acknowledge(h)
  BY <1>0, <1>8, AcknowledgeStep, CloseTyped DEF IInv, Acknowledge
<1>9. CASE Withdrawn(h)
  <2>1. UNCHANGED tables
    BY <1>9 DEF Withdrawn
  <2>2. TablesTrue'
    BY <1>0, <2>1, TablesStand
  <2>3. QED
    BY <1>0, <1>9, <2>1, <2>2, CloseTyped DEF IInv, Withdrawn, tables
<1>10. QED
  BY <1>1, <1>2, <1>3, <1>4, <1>5, <1>6, <1>7, <1>8, <1>9 DEF Handle

LEMMA InvariantStep == IInv /\ [Next]_vars => IInv'
<1> SUFFICES ASSUME IInv, [Next]_vars PROVE IInv'
  OBVIOUS
<1>0. TablesTrue /\ OpenTyped
  BY DEF IInv
<1>1. ASSUME NEW h \in Handlers, NEW r \in Requests, Begin(h, r) PROVE IInv'
  <2>1. UNCHANGED tables
    BY <1>1 DEF Begin
  <2>2. OpenTyped'
    <3>1. ahead' \in [Handlers -> SUBSET {g \in Handlers : doing'[g] # NoRequest}]
      BY <1>0, <1>1, NoRequestAssumption DEF Begin, OpenTyped
    <3>2. QED
      BY <1>0, <1>1, <2>1, <3>1 DEF Begin, OpenTyped, Accepted, tables
  <2>3. QED
    BY <1>0, <2>1, <2>2, TablesStand DEF IInv
<1>2. ASSUME NEW p \in DOMAIN pilots, Measure(p) PROVE IInv'
  BY <1>0, <1>2, MeasureStep DEF IInv, Measure, OpenTyped, open
<1>3. CASE UNCHANGED vars
  BY <1>0, <1>3, TablesStand DEF IInv, OpenTyped, vars, tables, open
<1>4. QED
  BY <1>1, <1>2, <1>3, HandleStep DEF Next

LEMMA InitHolds == Init => IInv
<1> SUFFICES ASSUME Init PROVE IInv
  OBVIOUS
<1>1. /\ Len(reviews) = 0 /\ Len(pilots) = 0 /\ Len(versions) = 0 /\ Len(deliveries) = 0
      /\ DOMAIN reviews = {} /\ DOMAIN pilots = {} /\ DOMAIN versions = {}
      /\ DOMAIN deliveries = {}
  BY DEF Init
<1>2. /\ \A op : Done(op) = {} /\ Acceptances = {}
  BY DEF Init, Done, Acceptances
<1>3. TablesTyped /\ OpenTyped
  BY FS_EmptySet DEF Init, TablesTyped, OpenTyped
<1>4. RowsCounted
  <2>1. Cardinality({}) = 0
    BY FS_EmptySet
  <2>2. /\ \A op : Cardinality(Done(op)) = 0
        /\ Cardinality(Acceptances) = 0
    BY <1>2, <2>1
  <2>3. QED
    BY <1>1, <2>2 DEF RowsCounted
<1>5. LastLives /\ Story
  BY <1>1, <1>2 DEF Init, LastLives, Story, References, ApprovedIsLast, DraftsAreMeasured,
     RejectedFails, PartialIsAccepted, PublishedLeftQc, DeliveredIsPublished,
     PublishedWasApproved, AllTell
<1>6. QED
  BY <1>3, <1>4, <1>5 DEF IInv, TablesTrue

LEMMA Invariant == Spec => []IInv
BY InitHolds, InvariantStep, PTL DEF Spec

\* Every row keeps its type and refers to rows that are there.
THEOREM TypeCorrect == Spec => []TypeOK
<1>1. IInv => TypeOK
  <2> SUFFICES ASSUME IInv PROVE TypeOK
    OBVIOUS
  <2>0. TablesTyped /\ OpenTyped /\ References
    BY DEF IInv, TablesTrue, Story
  <2>1. \A v \in DOMAIN versions :
            versions[v] \in [pilot : DOMAIN pilots, status : {"DRAFT", "PUBLISHED"},
                             latest : Latest, decided : Nat]
    <3>1. \A v \in DOMAIN versions : versions[v] \in VersionRow
      BY <2>0 DEF TablesTyped
    <3>2. QED
      BY <2>0, <3>1 DEF References, VersionRow
  <2>2. \A d \in DOMAIN deliveries :
            deliveries[d] \in [version : DOMAIN versions, status : {"SENT", "ACKNOWLEDGED"}]
    <3>1. \A d \in DOMAIN deliveries : deliveries[d] \in DeliveryRow
      BY <2>0 DEF TablesTyped
    <3>2. QED
      BY <2>0, <3>1 DEF References, DeliveryRow
  <2>3. /\ versions \in Seq([pilot : DOMAIN pilots, status : {"DRAFT", "PUBLISHED"},
                             latest : Latest, decided : Nat])
        /\ deliveries \in Seq([version : DOMAIN versions,
                               status : {"SENT", "ACKNOWLEDGED"}])
    BY <2>0, <2>1, <2>2, SeqOf DEF TablesTyped
  <2>4. QED
    BY <2>0, <2>3 DEF TablesTyped, OpenTyped, TypeOK, PilotRow, Latest
<1>2. QED
  BY <1>1, Invariant, PTL

\* A request repeated under its key, in parallel or after a lost answer, has its
\* effect once: every row of the desk has its receipt and every receipt its row.
THEOREM ReceiptsMatchRowsThm == Spec => []ReceiptsMatchRows
<1>1. IInv => ReceiptsMatchRows
  BY RowsSay DEF IInv, TablesTrue
<1>2. QED
  BY <1>1, Invariant, PTL

\* However reviews, reschedules and approvals interleave, at most one pilot is not
\* stopped, and an approved one is the last that was made.
THEOREM OneLivePilotThm == Spec => []OneLivePilot
<1>1. IInv => OneLivePilot
  BY DEF IInv, TablesTrue, LastLives, Story, ApprovedIsLast, OneLivePilot
<1>2. QED
  BY <1>1, Invariant, PTL

\* The customer sees one version, whose own approval is the latest word on it and
\* which nobody ever rejected.
THEOREM PublishedWasApprovedThm == Spec => []PublishedWasApproved
<1>1. IInv => PublishedWasApproved
  BY DEF IInv, TablesTrue, Story
<1>2. QED
  BY <1>1, Invariant, PTL

-----------------------------------------------------------------------------
(* How the status of a pilot moves.                                         *)

\* A failed pilot stays failed, a completed one is at most failed.
Keeps(p) ==
    /\ p \in DOMAIN pilots'
    /\ pilots[p].status = "FAILED" => pilots'[p].status = "FAILED"
    /\ pilots[p].status = "COMPLETED" => pilots'[p].status \in {"COMPLETED", "FAILED"}

LEMMA MoveKeeps ==
    ASSUME NEW m, m \in DOMAIN pilots, NEW status, MovedTo(m, status),
           pilots[m].status = "FAILED" => status = "FAILED",
           pilots[m].status = "COMPLETED" => status \in {"COMPLETED", "FAILED"},
           NEW p \in DOMAIN pilots
    PROVE  Keeps(p)
BY DEF MovedTo, Keeps

LEMMA AppendKeeps ==
    ASSUME TablesTyped, NEW lock \in {"canary", "new"},
           pilots' = Append(pilots, NewPilot(lock)), NEW p \in DOMAIN pilots
    PROVE  Keeps(p)
<1>1. Added(pilots, pilots', NewPilot(lock))
  BY AppendAdds, NewPilotType DEF TablesTyped
<1>2. QED
  BY <1>1 DEF Added, Keeps

LEMMA StatusMoves ==
    ASSUME IInv, Next, NEW p \in DOMAIN pilots PROVE Keeps(p)
<1>0. TablesTyped /\ LastLives /\ Story /\ OpenTyped
  BY DEF IInv, TablesTrue
<1>1. CASE UNCHANGED pilots
  BY <1>1 DEF Keeps
<1>2. ASSUME NEW h \in Handlers, ReviewCanary(h) PROVE Keeps(p)
  <2>1. CASE pilots' = Append(pilots, NewPilot("canary"))
    BY <1>0, <2>1, AppendKeeps
  <2>2. QED
    BY <1>1, <1>2, <2>1 DEF ReviewCanary
<1>3. ASSUME NEW h \in Handlers, ReschedulePilot(h) PROVE Keeps(p)
  <2> DEFINE m == doing[h].pilot
             moved == Moved(doing[h], "STOPPED")
             row == [pilots[m] EXCEPT !.status = "STOPPED"]
  <2>1. /\ HasPilot(doing[h]) /\ pilots[m].status = "CREATED"
        /\ pilots' = Append(moved, NewPilot("new"))
    BY <1>3 DEF ReschedulePilot, Pilot
  <2>2. moved \in Seq(PilotRow) /\ Replaced(pilots, moved, m, row)
    BY <1>0, <2>1, MoveReplaces DEF PilotStatus
  <2> HIDE DEF moved
  <2>3. Added(moved, pilots', NewPilot("new"))
    BY <2>1, <2>2, AppendAdds, NewPilotType
  <2>4. p \in DOMAIN pilots' /\ (p # m => pilots'[p] = pilots[p])
    BY <2>2, <2>3 DEF Added, Replaced
  <2>5. QED
    BY <2>1, <2>4 DEF Keeps
<1>4. ASSUME NEW h \in Handlers, ApprovePilot(h) PROVE Keeps(p)
  <2>1. /\ HasPilot(doing[h]) /\ pilots[doing[h].pilot].status = "CREATED"
        /\ pilots' = Moved(doing[h], "QUEUED")
    BY <1>4 DEF ApprovePilot, Pilot
  <2>2. MovedTo(doing[h].pilot, "QUEUED")
    BY <1>0, <2>1, PilotMoves DEF PilotStatus
  <2>3. QED
    BY <2>1, <2>2, MoveKeeps DEF HasPilot
<1>5. ASSUME NEW h \in Handlers, DecideQc(h) PROVE Keeps(p)
  <2> DEFINE r == doing[h]
             status == DecidedStatus(pilots[r.pilot].status, r.decision)
  <2>1. /\ Receipted(h, "qc") /\ r.item \in DOMAIN versions
        /\ versions[r.item].pilot = r.pilot
        /\ Decides(pilots[r.pilot].status, r.decision) /\ pilots' = Moved(r, status)
    BY <1>5 DEF DecideQc, HasVersion, Version, Pilot
  <2>2. r \in Requests /\ r.decision \in {"ACCEPT_PARTIAL", "APPROVED", "REJECTED"}
    BY <1>0, <2>1, NewReceipt, RequestsAssumption
  <2>3. r.pilot \in DOMAIN pilots
    BY <1>0, <2>1 DEF Story, References
  <2>4. /\ status \in PilotStatus
        /\ pilots[r.pilot].status \in {"FAILED", "COMPLETED"} => status = "FAILED"
    BY <2>1, <2>2 DEF DecidedStatus, Decides, PilotStatus
  <2> HIDE DEF status
  <2>5. MovedTo(r.pilot, status)
    BY <1>0, <2>1, <2>3, <2>4, PilotMoves DEF HasPilot
  <2>6. QED
    BY <2>3, <2>4, <2>5, MoveKeeps
<1>6. ASSUME NEW h \in Handlers, Publish(h) PROVE Keeps(p)
  <2>1. /\ doing[h].item \in DOMAIN versions
        /\ versions[doing[h].item].pilot = doing[h].pilot
        /\ pilots[doing[h].pilot].status = "QC_REQUIRED"
        /\ pilots' = Moved(doing[h], "READY")
    BY <1>6 DEF Publish, HasVersion, Version, Pilot
  <2>2. doing[h].pilot \in DOMAIN pilots
    BY <1>0, <2>1 DEF Story, References
  <2>3. MovedTo(doing[h].pilot, "READY")
    BY <1>0, <2>1, <2>2, PilotMoves DEF PilotStatus, HasPilot
  <2>4. QED
    BY <2>1, <2>2, <2>3, MoveKeeps
<1>7. ASSUME NEW h \in Handlers, Acknowledge(h) PROVE Keeps(p)
  <2>1. /\ doing[h].item \in DOMAIN deliveries
        /\ versions[deliveries[doing[h].item].version].pilot = doing[h].pilot
        /\ pilots[doing[h].pilot].status \in {"READY", "COMPLETED"}
        /\ pilots' = pilots \/ pilots' = Moved(doing[h], "COMPLETED")
    BY <1>7 DEF Acknowledge, Pilot
  <2>2. doing[h].pilot \in DOMAIN pilots
    BY <1>0, <2>1 DEF Story, References
  <2>3. CASE pilots' = Moved(doing[h], "COMPLETED")
    <3>1. MovedTo(doing[h].pilot, "COMPLETED")
      BY <1>0, <2>2, <2>3, PilotMoves DEF PilotStatus, HasPilot
    <3>2. QED
      BY <2>1, <2>2, <3>1, MoveKeeps
  <2>4. QED
    BY <1>1, <2>1, <2>3
<1>8. ASSUME NEW m \in DOMAIN pilots, Measure(m) PROVE Keeps(p)
  <2>1. /\ p # m => pilots'[p] = pilots[p]
        /\ DOMAIN pilots' = DOMAIN pilots /\ pilots[m].status = "QUEUED"
    BY <1>0, <1>8 DEF Measure, TablesTyped
  <2>2. QED
    BY <2>1 DEF Keeps
<1>9. ASSUME NEW h \in Handlers,
             CreateReport(h) \/ Deliver(h) \/ Withdrawn(h) \/ \E r \in Requests : Begin(h, r)
      PROVE  Keeps(p)
  BY <1>1, <1>9 DEF CreateReport, Deliver, Withdrawn, Begin, tables
<1>10. QED
  BY <1>2, <1>3, <1>4, <1>5, <1>6, <1>7, <1>8, <1>9 DEF Next, Handle

\* READY and COMPLETED always have the published version, and the acknowledgement,
\* that they stand for; a failed cycle stays failed whoever reads or publishes.
THEOREM StatusTellsTheDeskThm == Spec => StatusTellsTheDesk
<1> DEFINE Step == \A p \in DOMAIN pilots :
         /\ pilots[p].status = "FAILED" => pilots'[p].status = "FAILED"
         /\ pilots[p].status = "COMPLETED" => pilots'[p].status \in {"COMPLETED", "FAILED"}
         /\ pilots'[p].status \in {"READY", "COMPLETED"} =>
              \E v \in DOMAIN versions' :
                  /\ versions'[v].pilot = p /\ versions'[v].status = "PUBLISHED"
                  /\ pilots'[p].status = "COMPLETED" <=>
                       \E i \in DOMAIN deliveries' :
                           /\ deliveries'[i].version = v
                           /\ deliveries'[i].status = "ACKNOWLEDGED"
<1>1. IInv /\ IInv' /\ [Next]_vars => [Step]_vars
  <2> SUFFICES ASSUME IInv, IInv', Next PROVE Step
    OBVIOUS
  <2>1. \A p \in DOMAIN pilots : Keeps(p)
    BY StatusMoves
  <2>2. AllTell'
    BY DEF IInv, TablesTrue, Story
  <2>3. QED
    BY <2>1, <2>2 DEF Keeps, AllTell, Tells
<1>2. Spec => [][Step]_vars
  BY <1>1, Invariant, PTL DEF Spec
<1>3. QED
  BY <1>2 DEF StatusTellsTheDesk
=============================================================================
