-------------------------- MODULE SDTCensus_proofs --------------------------
(* What the census says of itself, for any finite library and any number   *)
(* of changes and pauses: its counters are those of the observed map, a    *)
(* snapshot is one generation, a document submitted is given its verdict,  *)
(* none is submitted twice for nothing, and the figures shown add up.      *)
EXTENDS SDTScheduler_proofs, SDTCoverage

-----------------------------------------------------------------------------
(* Counting.                                                               *)

Views == [Ids -> Infos \cup {NoInfo}]
Having(view, s) == {x \in Ids : view[x].status = s}

(* A set of ids is finite, and so is what is counted of it.                *)
LEMMA HavingFinite ==
  ASSUME NEW view, NEW s
  PROVE  IsFiniteSet(Having(view, s)) /\ Cardinality(Having(view, s)) \in Nat
<1>1. IsFiniteSet(Having(view, s))
  BY IdsFinite, FS_Subset DEF Having
<1> QED BY <1>1, FS_CardinalityType

(* The counters of a view are one number for each status.                  *)
LEMMA TallyType == ASSUME NEW view PROVE Tally(view) \in [Statuses -> Int]
<1>1. ASSUME NEW s \in Statuses PROVE Cardinality({x \in Ids : view[x].status = s}) \in Int
  <2>1. Cardinality(Having(view, s)) \in Nat
    BY HavingFinite
  <2> QED BY <2>1 DEF Having
<1> QED BY <1>1 DEF Tally

(* Two functions that agree everywhere are one.                            *)
LEMMA SameFunction ==
  ASSUME NEW S, NEW T, NEW f \in [S -> T], NEW g \in [S -> T], \A s \in S : f[s] = g[s]
  PROVE  f = g
OBVIOUS

(* A generation in which nothing was seen counts nothing.                  *)
LEMMA TallyOfNone ==
  ASSUME NEW view, view = [x \in Ids |-> NoInfo]
  PROVE  Tally(view) = Zero /\ Seen(view) = {} /\ Cardinality(Seen(view)) = 0
<1>1. ASSUME NEW s \in Statuses PROVE {x \in Ids : view[x].status = s} = {}
  BY <1>1 DEF NoInfo, Statuses, Indexed, Unindexed, Failed, Queued, OutOfScope
<1>2. Tally(view) = Zero
  BY <1>1, FS_EmptySet DEF Tally, Zero
<1>3. Seen(view) = {}
  BY DEF Seen
<1> QED BY <1>2, <1>3, FS_EmptySet

(* Putting one entry in a view counts its old status down and its new one  *)
(* up: what Bump() does twice in record().                                 *)
LEMMA TallyOfEntry ==
  ASSUME NEW view \in Views, NEW x \in Ids, NEW entry \in Infos \cup {NoInfo}
  PROVE  Tally([view EXCEPT ![x] = entry])
           = Bump(Bump(Tally(view), view[x].status, -1), entry.status, 1)
<1> DEFINE new == [view EXCEPT ![x] = entry]
           old == view[x].status
           bumped == Bump(Bump(Tally(view), old, -1), entry.status, 1)
<1>1. new \in Views
  BY DEF Views
<1>2. ASSUME NEW s \in Statuses
      PROVE  Tally(new)[s] = Tally(view)[s] - (IF old = s THEN 1 ELSE 0) + (IF entry.status = s THEN 1 ELSE 0)
  <2>1. /\ Tally(new)[s] = Cardinality(Having(new, s)) /\ Tally(view)[s] = Cardinality(Having(view, s))
        /\ IsFiniteSet(Having(view, s)) /\ Cardinality(Having(view, s)) \in Nat
    BY HavingFinite DEF Tally, Having
  <2>2. CASE old = s /\ entry.status = s
    <3>1. Having(new, s) = Having(view, s)
      BY <2>2 DEF Having, Views
    <3> QED BY <2>1, <2>2, <3>1
  <2>3. CASE old # s /\ entry.status # s
    <3>1. Having(new, s) = Having(view, s)
      BY <2>3 DEF Having, Views
    <3> QED BY <2>1, <2>3, <3>1
  <2>4. CASE old = s /\ entry.status # s
    <3>1. Having(new, s) = Having(view, s) \ {x} /\ x \in Having(view, s)
      BY <2>4 DEF Having, Views
    <3>2. Cardinality(Having(new, s)) = Cardinality(Having(view, s)) - 1
      BY <2>1, <3>1, FS_RemoveElement, ZenonT(60)
    <3> QED BY <2>1, <2>4, <3>2
  <2>5. CASE old # s /\ entry.status = s
    <3>1. Having(new, s) = Having(view, s) \cup {x} /\ x \notin Having(view, s)
      BY <2>5 DEF Having, Views
    <3>2. Cardinality(Having(new, s)) = Cardinality(Having(view, s)) + 1
      BY <2>1, <3>1, FS_AddElement
    <3> QED BY <2>1, <2>5, <3>2
  <2> QED BY <2>2, <2>3, <2>4, <2>5
<1>3. Tally(view) \in [Statuses -> Int] /\ Tally(new) \in [Statuses -> Int]
  BY TallyType
<1>4. bumped \in [Statuses -> Int]
  BY <1>3, BumpType
<1>5. ASSUME NEW s \in Statuses
      PROVE  bumped[s] = Tally(view)[s] - (IF old = s THEN 1 ELSE 0) + (IF entry.status = s THEN 1 ELSE 0)
  BY <1>3, <1>5 DEF Bump
<1>6. \A s \in Statuses : Tally(new)[s] = bumped[s]
  BY <1>2, <1>5
<1> HIDE DEF new, old, bumped
<1>7. Tally(new) = bumped
  BY <1>3, <1>4, <1>6, SameFunction
<1> QED BY <1>7 DEF new, old, bumped

(* Putting an entry where there was none makes one more seen.              *)
LEMMA SeenOfEntry ==
  ASSUME NEW view \in Views, NEW x \in Ids, NEW entry \in Infos, x \notin Seen(view)
  PROVE  /\ view[x] = NoInfo
         /\ Seen([view EXCEPT ![x] = entry]) = Seen(view) \cup {x}
         /\ Cardinality(Seen([view EXCEPT ![x] = entry])) = Cardinality(Seen(view)) + 1
<1>1. entry # NoInfo
  BY DEF Infos, NoInfo, Statuses, Indexed, Unindexed, Failed, Queued, OutOfScope
<1>2. Seen([view EXCEPT ![x] = entry]) = Seen(view) \cup {x}
  BY <1>1 DEF Seen, Views
<1>3. IsFiniteSet(Seen(view)) /\ Cardinality(Seen(view)) \in Nat
  BY SeenFinite
<1> QED BY <1>2, <1>3, FS_AddElement DEF Seen

(* What is not seen is of no class, so counting it down changes nothing.   *)
LEMMA BumpNothing ==
  ASSUME NEW c, NEW n PROVE Bump(c, NoInfo.status, n) = c
BY DEF Bump, NoInfo, Statuses, Indexed, Unindexed, Failed, Queued, OutOfScope

(* record() keeps the counters those of the map, if they were.             *)
LEMMA RecordTallies ==
  ASSUME TypeOK, NEW x \in Ids, NEW info \in Infos, NEW held, Record(x, info, held),
         counts = Tally(observed)
  PROVE  counts' = Tally(observed') /\ scanned' = Cardinality(Seen(observed')) /\ total' = scanned'
<1> DEFINE entry == Classify(x, info, held)
<1>1. entry \in Infos /\ observed \in Views
  BY ClassifyType DEF TypeOK, ViewOK, Views
<1>2. CASE info.absent
  <2>1. Tally([observed EXCEPT ![x] = NoInfo]) = Bump(Bump(Tally(observed), observed[x].status, -1), NoInfo.status, 1)
    BY <1>1, TallyOfEntry
  <2> QED BY <1>2, <2>1, BumpNothing DEF Record
<1>3. CASE ~info.absent
  <2>1. Tally([observed EXCEPT ![x] = entry]) = Bump(Bump(Tally(observed), observed[x].status, -1), entry.status, 1)
    BY <1>1, TallyOfEntry
  <2> QED BY <1>3, <2>1 DEF Record
<1> QED BY <1>2, <1>3

-----------------------------------------------------------------------------
(* Where the counters can be trusted.                                      *)

(* A census keeps its points to itself: it rebuilds the counters there,    *)
(* and one that is cut off leaves another asked for, which begins before   *)
(* anything is recorded.                                                   *)
CensusPoints == {"list", "listed", "walk", "walked", "close"}
StaleAsks == Busy /\ enabled /\ token # epoch => reconciliationPending
RebuildMarked ==
  /\ pc \in CensusPoints => censusBuilding
  /\ censusBuilding => \/ pc \in CensusPoints \cup {"catch"}
                       \/ pc \in {"idle", "exit", "top"} /\ (reconciliationPending \/ ~enabled)
  /\ pc = "walked" => doc \in todo
  /\ pc = "close" => todo = {}
CutInv == StaleAsks /\ RebuildMarked

(* No step leaves a rebuild unmarked or a cut without its census.          *)
LEMMA CutInvStep ==
  ASSUME TypeOK, CutInv, [Next]_vars PROVE CutInv'
<1> USE DEF CutInv, StaleAsks, RebuildMarked, CensusPoints, Busy, Current, Go, Abandon, OnStack,
      switch, deadline, tryVars, walkVars, census, readVars, Pump_unchanged
<1>1. enabled \in BOOLEAN /\ censusBuilding \in BOOLEAN /\ reconciliationPending \in BOOLEAN
  BY DEF TypeOK, SwitchOK, ViewOK
<1>2. CASE UNCHANGED vars
  BY <1>2 DEF vars
<1>3. CASE PumpStart
  BY <1>1, <1>3 DEF PumpStart
<1>4. CASE BeginCensus
  BY <1>1, <1>4 DEF BeginCensus
<1>5. CASE LoopTop
  BY <1>1, <1>5 DEF LoopTop, CensusDue
<1>6. CASE ListRead
  BY <1>1, <1>6 DEF ListRead
<1>7. CASE Listed
  BY <1>1, <1>7 DEF Listed
<1>8. CASE WalkRead
  BY <1>1, <1>8 DEF WalkRead, Look
<1>9. CASE WalkRecord
  BY <1>1, <1>9 DEF WalkRecord
<1>10. CASE CensusClose
  BY <1>1, <1>10 DEF CensusClose
<1>11. CASE DrainBegin
  BY <1>1, <1>11 DEF DrainBegin
<1>12. CASE DrainTake
  BY <1>1, <1>12 DEF DrainTake
<1>13. CASE DrainEnd
  BY <1>1, <1>13 DEF DrainEnd
<1>14. CASE DrainExpand
  BY <1>1, <1>14 DEF DrainExpand
<1>15. CASE DrainLook
  BY <1>1, <1>15 DEF DrainLook, Look, Requeue
<1>16. CASE DrainRecord
  BY <1>1, <1>16 DEF DrainRecord, Requeue, Record
<1>17. CASE DrainRetire
  BY <1>1, <1>17 DEF DrainRetire, Requeue
<1>18. CASE ChooseCandidate
  BY <1>1, <1>18 DEF ChooseCandidate
<1>19. CASE NoCandidate
  BY <1>1, <1>19 DEF NoCandidate
<1>20. CASE AdmitAbandon
  BY <1>1, <1>20 DEF AdmitAbandon
<1>21. CASE GateOpen
  BY <1>1, <1>21 DEF GateOpen
<1>22. CASE GateShut
  BY <1>1, <1>22 DEF GateShut
<1>23. CASE AdmitLook
  BY <1>1, <1>23 DEF AdmitLook, Look
<1>24. CASE AdmitSkip
  BY <1>1, <1>24 DEF AdmitSkip, AdmitRecord, Record
<1>25. CASE AdmitMoved
  BY <1>1, <1>25 DEF AdmitMoved, AdmitRecord, Record
<1>26. CASE AdmitWorkerBusy
  BY <1>1, <1>26 DEF AdmitWorkerBusy, AdmitRecord, Record
<1>27. CASE Submit
  BY <1>1, <1>27 DEF Submit, AdmitRecord, Record
<1>28. CASE EnsurePersists
  BY <1>1, <1>28 DEF EnsurePersists
<1>29. CASE EnsureReturns
  BY <1>1, <1>29 DEF EnsureReturns
<1>30. CASE SettleLook
  BY <1>1, <1>30 DEF SettleLook, Look, Settling
<1>31. CASE SettleSuccess
  BY <1>1, <1>31 DEF SettleSuccess, Record
<1>32. CASE FailureLook
  BY <1>1, <1>32 DEF FailureLook, Look
<1>33. CASE SettleFailure
  BY <1>1, <1>33 DEF SettleFailure, Record
<1>34. CASE HostThrows
  BY <1>1, <1>34 DEF HostThrows
<1>35. CASE PumpCatch
  BY <1>1, <1>35 DEF PumpCatch
<1>36. CASE PumpReturn
  BY <1>1, <1>36 DEF PumpReturn
<1>37. CASE Stop
  BY <1>1, <1>37 DEF Stop
<1>38. CASE Start
  BY <1>1, <1>38 DEF Start
<1>39. CASE HourPasses
  BY <1>1, <1>39 DEF HourPasses
<1>40. CASE Notify
  BY <1>1, <1>40 DEF Notify
<1>41. CASE AttachmentChanges
  BY <1>1, <1>41 DEF AttachmentChanges, Outside
<1>42. CASE AttachmentAdded
  BY <1>1, <1>42 DEF AttachmentAdded, Outside
<1>43. CASE AttachmentErased
  BY <1>1, <1>43 DEF AttachmentErased, Outside
<1>44. CASE RecordGoes
  BY <1>1, <1>44 DEF RecordGoes, Outside
<1> QED BY <1>2, <1>3, <1>4, <1>5, <1>6, <1>7, <1>8, <1>9, <1>10, <1>11, <1>12,
     <1>13, <1>14, <1>15, <1>16, <1>17, <1>18, <1>19, <1>20, <1>21, <1>22,
     <1>23, <1>24, <1>25, <1>26, <1>27, <1>28, <1>29, <1>30, <1>31, <1>32,
     <1>33, <1>34, <1>35, <1>36, <1>37, <1>38, <1>39, <1>40, <1>41, <1>42,
     <1>43, <1>44 DEF Next, Pump, Census, Drain, Admission, Settlement,
     Environment

(* The census counts the generation it builds, and what it has still to    *)
(* read makes up the total.                                                *)
RebuildTallies ==
  /\ pc \in CensusPoints => counts = Tally(next) /\ scanned = Cardinality(Seen(next))
  /\ pc \in {"list", "listed"} => next = [x \in Ids |-> NoInfo]
  /\ pc \in {"walk", "walked", "close"} =>
       total = scanned + Cardinality(todo) /\ todo \cap Seen(next) = {}

TallyInv == RebuildTallies /\ CountsTally /\ SnapshotOneGeneration

(* publish() publishes nothing while the counters are those of a rebuild,  *)
(* and otherwise what they count.                                          *)
LEMMA PublishTallies ==
  ASSUME SnapshotOneGeneration, Publish, CountsTally'
  PROVE  SnapshotOneGeneration'
BY DEF SnapshotOneGeneration, Publish, CountsTally

(* One action at a time: those that begin, build and close a census.       *)
LEMMA TallyCensus ==
  ASSUME TypeOK, CutInv, TallyInv
  PROVE  /\ BeginCensus => TallyInv'
         /\ ListRead => TallyInv'
         /\ Listed => TallyInv'
         /\ WalkRead => TallyInv'
         /\ WalkRecord => TallyInv'
         /\ CensusClose => TallyInv'
<1>1. censusBuilding \in BOOLEAN /\ scanned \in Nat /\ total \in Nat /\ todo \subseteq Ids /\ next \in Views
  BY DEF TypeOK, ViewOK, LocalsOK, Views
<1>2. IsFiniteSet(todo) /\ Cardinality(todo) \in Nat
  BY <1>1, IdsFinite, FS_Subset, FS_CardinalityType
<1>3. ASSUME BeginCensus PROVE TallyInv'
  <2>1. counts' = Tally(next') /\ scanned' = Cardinality(Seen(next')) /\ next' = [x \in Ids |-> NoInfo]
    BY <1>3, TallyOfNone DEF BeginCensus
  <2>2. pc' = "list" /\ censusBuilding'
    BY <1>3 DEF BeginCensus, Go
  <2>3. SnapshotOneGeneration'
    BY <1>3 DEF BeginCensus, TallyInv, SnapshotOneGeneration, NoSnapshot
  <2> QED BY <2>1, <2>2, <2>3 DEF TallyInv, RebuildTallies, CountsTally
<1>4. ASSUME ListRead PROVE TallyInv'
  BY <1>4 DEF ListRead, Go, TallyInv, RebuildTallies, CountsTally, SnapshotOneGeneration, CensusPoints, census
<1>5. ASSUME Listed PROVE TallyInv'
  <2>1. CASE ~Current
    BY <1>5, <2>1 DEF Listed, Abandon, Go, TallyInv, RebuildTallies, CountsTally, SnapshotOneGeneration, CensusPoints, census
  <2>2. CASE Current
    <3>1. pc = "listed" /\ censusBuilding /\ total' = Cardinality(todo) /\ pc' \in {"close", "walk"}
          /\ UNCHANGED <<observed, counts, scanned, censusBuilding, walkVars>> /\ Publish
      BY <1>5, <2>2 DEF Listed, Abandon, Go, CutInv, RebuildMarked, CensusPoints
    <3>2. next = [x \in Ids |-> NoInfo] /\ counts = Tally(next) /\ scanned = Cardinality(Seen(next))
      BY <3>1 DEF TallyInv, RebuildTallies, CensusPoints
    <3>3. Seen(next) = {} /\ scanned = 0
      BY <3>2, TallyOfNone
    <3>4. RebuildTallies'
      BY <1>2, <3>1, <3>2, <3>3 DEF RebuildTallies, walkVars
    <3>5. CountsTally' /\ SnapshotOneGeneration'
      BY <3>1, PublishTallies DEF CountsTally, TallyInv
    <3> QED BY <3>4, <3>5 DEF TallyInv
  <2> QED BY <2>1, <2>2
<1>6. ASSUME WalkRead PROVE TallyInv'
  BY <1>6 DEF WalkRead, Abandon, Go, TallyInv, RebuildTallies, CountsTally, SnapshotOneGeneration, CensusPoints, census, walkVars
<1>7. ASSUME WalkRecord PROVE TallyInv'
  <2>1. CASE ~Current
    BY <1>7, <2>1 DEF WalkRecord, Abandon, Go, TallyInv, RebuildTallies, CountsTally, SnapshotOneGeneration, CensusPoints, census
  <2>2. CASE Current
    <3> DEFINE entry == Classify(doc, buf, failed)
    <3>1. /\ pc = "walked" /\ censusBuilding /\ pc' \in {"close", "walk"} /\ doc \in todo
          /\ next' = [next EXCEPT ![doc] = entry] /\ counts' = Bump(counts, entry.status, 1)
          /\ todo' = todo \ {doc} /\ scanned' = scanned + 1
          /\ UNCHANGED <<observed, total, censusBuilding>> /\ Publish
      BY <1>7, <2>2 DEF WalkRecord, Abandon, Go, CutInv, RebuildMarked, CensusPoints
    <3>2. /\ counts = Tally(next) /\ scanned = Cardinality(Seen(next))
          /\ total = scanned + Cardinality(todo) /\ todo \cap Seen(next) = {}
      BY <3>1 DEF TallyInv, RebuildTallies, CensusPoints
    <3>3. doc \in Ids /\ entry \in Infos /\ doc \notin Seen(next)
      BY <3>1, <3>2, ClassifyType DEF TypeOK, InHandOK
    <3>4. next[doc] = NoInfo /\ Seen(next') = Seen(next) \cup {doc} /\ Cardinality(Seen(next')) = scanned + 1
      BY <1>1, <3>1, <3>2, <3>3, SeenOfEntry
    <3>5. Tally(next') = Bump(Bump(Tally(next), NoInfo.status, -1), entry.status, 1)
      BY <1>1, <3>1, <3>3, <3>4, TallyOfEntry
    <3>6. counts' = Tally(next')
      BY <3>1, <3>2, <3>5, BumpNothing
    <3>7. Cardinality(todo') = Cardinality(todo) - 1
      BY <1>2, <3>1, FS_RemoveElement
    <3>8. todo' \cap Seen(next') = {}
      BY <3>1, <3>2, <3>4
    <3>9. RebuildTallies'
      <4>1. total' = scanned' + Cardinality(todo')
        BY <1>1, <1>2, <3>1, <3>2, <3>7
      <4> QED BY <3>1, <3>4, <3>6, <3>8, <4>1 DEF RebuildTallies
    <3>10. CountsTally' /\ SnapshotOneGeneration'
      BY <3>1, PublishTallies DEF CountsTally, TallyInv
    <3> QED BY <3>9, <3>10 DEF TallyInv
  <2> QED BY <2>1, <2>2
<1>8. ASSUME CensusClose PROVE TallyInv'
  <2>1. CASE ~Current
    BY <1>8, <2>1 DEF CensusClose, Abandon, Go, TallyInv, RebuildTallies, CountsTally, SnapshotOneGeneration, CensusPoints, census
  <2>2. CASE Current
    <3>1. /\ pc = "close" /\ todo = {} /\ pc' = "drain" /\ observed' = next
          /\ UNCHANGED <<counts, scanned, total>> /\ Publish
      BY <1>8, <2>2 DEF CensusClose, Abandon, Go, CutInv, RebuildMarked
    <3>2. counts = Tally(next) /\ scanned = Cardinality(Seen(next)) /\ total = scanned
      BY <1>1, <3>1, FS_EmptySet DEF TallyInv, RebuildTallies, CensusPoints
    <3>3. CountsTally'
      BY <3>1, <3>2 DEF CountsTally
    <3> QED BY <3>1, <3>3, PublishTallies DEF TallyInv, RebuildTallies, CensusPoints
  <2> QED BY <2>1, <2>2
<1> QED BY <1>3, <1>4, <1>5, <1>6, <1>7, <1>8

(* Those that record one inspection: no rebuild is under way.              *)
LEMMA TallyRecords ==
  ASSUME TypeOK, CutInv, TallyInv, NEW held, Record(doc, buf, held),
         pc \in {"looked", "admit", "settle", "bury"},
         pc' \notin CensusPoints, Publish \/ UNCHANGED censusSnapshot
  PROVE  TallyInv'
<1>1. doc \in Ids /\ buf \in Infos /\ ~censusBuilding /\ UNCHANGED censusBuilding
  BY DEF TypeOK, InHandOK, Settling, CutInv, RebuildMarked, CensusPoints, Record
<1>2. counts = Tally(observed)
  BY <1>1 DEF TallyInv, CountsTally
<1>3. CountsTally'
  BY <1>1, <1>2, RecordTallies DEF CountsTally
<1>4. SnapshotOneGeneration'
  BY <1>3, PublishTallies DEF TallyInv, SnapshotOneGeneration
<1> QED BY <1>3, <1>4 DEF TallyInv, RebuildTallies, CensusPoints

(* Those that only publish, and all the others.                            *)
LEMMA TallyOthers ==
  ASSUME TypeOK, CutInv, TallyInv, UNCHANGED census, Publish \/ UNCHANGED censusSnapshot,
         pc' \in CensusPoints => UNCHANGED walkVars /\ pc' = pc
  PROVE  TallyInv'
<1>1. CountsTally'
  BY DEF TallyInv, CountsTally, census
<1>2. SnapshotOneGeneration'
  BY <1>1, PublishTallies DEF TallyInv, SnapshotOneGeneration
<1>3. RebuildTallies'
  BY DEF TallyInv, RebuildTallies, CensusPoints, census, walkVars
<1> QED BY <1>1, <1>2, <1>3 DEF TallyInv

(* Every step, by one of the three.                                        *)
LEMMA TallyInvStep ==
  ASSUME TypeOK, CutInv, TallyInv, [Next]_vars PROVE TallyInv'
<1>1. CASE BeginCensus \/ ListRead \/ Listed \/ WalkRead \/ WalkRecord \/ CensusClose
  BY <1>1, TallyCensus
<1>2. CASE DrainRecord
  <2>1. CASE Current
    BY <1>2, <2>1, TallyRecords DEF DrainRecord, Requeue, Go, CensusPoints
  <2>2. CASE ~Current
    BY <1>2, <2>2, TallyOthers DEF DrainRecord, Requeue, Go, CensusPoints
  <2> QED BY <2>1, <2>2
<1>3. CASE AdmitSkip \/ AdmitMoved \/ AdmitWorkerBusy \/ Submit
  <2>1. AdmitRecord /\ pc' \notin CensusPoints
    BY <1>3 DEF AdmitSkip, AdmitMoved, AdmitWorkerBusy, Submit, Go, CensusPoints
  <2> QED BY <2>1, TallyRecords DEF AdmitRecord
<1>4. CASE SettleSuccess
  BY <1>4, TallyRecords DEF SettleSuccess, Go, CensusPoints
<1>5. CASE SettleFailure
  BY <1>5, TallyRecords DEF SettleFailure, Go, CensusPoints
<1>6. CASE DrainBegin \/ DrainRetire \/ GateShut \/ PumpReturn
  BY <1>6, TallyOthers DEF DrainBegin, DrainRetire, GateShut, PumpReturn, Requeue, Go, CensusPoints
<1>7. CASE UNCHANGED vars
  BY <1>7, TallyOthers DEF vars
<1>8. CASE LoopTop \/ DrainTake \/ DrainEnd \/ DrainExpand \/ DrainLook \/ ChooseCandidate \/ NoCandidate
           \/ AdmitAbandon \/ GateOpen \/ AdmitLook \/ EnsurePersists \/ EnsureReturns \/ SettleLook
           \/ FailureLook \/ HostThrows \/ PumpCatch \/ PumpStart
  BY <1>8, TallyOthers DEF LoopTop, DrainTake, DrainEnd, DrainExpand, DrainLook, ChooseCandidate, NoCandidate,
     AdmitAbandon, GateOpen, AdmitLook, EnsurePersists, EnsureReturns, SettleLook, FailureLook, HostThrows,
     PumpCatch, PumpStart, Requeue, Abandon, Go, CensusPoints
<1>9. CASE Environment
  BY <1>9, TallyOthers DEF Environment, Stop, Start, HourPasses, Notify, Outside, AttachmentChanges,
     AttachmentAdded, AttachmentErased, RecordGoes, Pump_unchanged
<1> QED BY <1>1, <1>2, <1>3, <1>4, <1>5, <1>6, <1>7, <1>8, <1>9
     DEF Next, Pump, Census, Drain, Admission, Settlement

(* Nothing is counted and nothing seen when the sitter is created.         *)
LEMMA CensusInit == Init => CutInv /\ TallyInv
<1> SUFFICES ASSUME Init PROVE CutInv /\ TallyInv
  OBVIOUS
<1>1. Tally(observed) = Zero /\ Cardinality(Seen(observed)) = 0
  BY TallyOfNone DEF Init
<1> QED BY <1>1 DEF Init, CutInv, StaleAsks, RebuildMarked, CensusPoints, Busy, TallyInv, RebuildTallies,
     CountsTally, SnapshotOneGeneration, NoSnapshot

(* Outside a census the counters are those of the observed map, whatever   *)
(* was erased, aborted, thrown or restarted in between.                    *)
THEOREM CountersAreOfTheMap == Spec => []CountsTally
<1>1. TallyInv => CountsTally
  BY DEF TallyInv
<1> QED BY <1>1, CensusInit, CutInvStep, TallyInvStep, TypeCorrect, PTL DEF Spec

(* A snapshot that lists its members was never published in the middle of  *)
(* a rebuild.                                                              *)
THEOREM SnapshotIsWhole == Spec => []SnapshotOneGeneration
<1>1. TallyInv => SnapshotOneGeneration
  BY DEF TallyInv
<1> QED BY <1>1, CensusInit, CutInvStep, TallyInvStep, TypeCorrect, PTL DEF Spec

-----------------------------------------------------------------------------
(* What becomes of a document that was submitted.                          *)

BeingSettled(x, i) == pc \in Settling /\ doc = x /\ gated.identity = i

(* x was submitted under i since the library last changed, and settled.    *)
Handed(x, i) == <<x, i>> \in submitted /\ ~BeingSettled(x, i)
PendsUnder(info, i) == info.status \in Queued /\ info.identity = i

(* It has a pack or is held: no inspection finds it queued under i unless  *)
(* it is held, and no record, of the map or of the generation being built, *)
(* shows it so.                                                            *)
ReadingPoints == {"walked", "looked", "admit", "settle", "bury"}
Settled(x, i) ==
  /\ lib[x].status \in Queued /\ lib[x].src = i => <<x, i>> \in failed
  /\ ~PendsUnder(observed[x], i)
  /\ pc \in CensusPoints => ~PendsUnder(next[x], i)
  /\ pc \in ReadingPoints /\ doc = x /\ PendsUnder(buf, i) => <<x, i>> \in failed

(* The verdict is what the library says, or that it could not be examined. *)
VerdictInHand ==
  /\ pc \in {"settle", "bury"} /\ <<doc, gated.identity>> \in submitted
       => buf = Inspect(doc) \/ buf.status = Unexamined
  /\ pc = "settle" => buf.status \in Verified
AllSettled == \A x \in Ids, i \in Nat : Handed(x, i) => Settled(x, i)

VerdictInv == VerdictInHand /\ AllSettled

(* A status is not of two classes.                                         *)
LEMMA QueuedApart ==
  /\ \A s \in Queued : s \notin Verified /\ s \in Identified
  /\ NoInfo.status \notin Queued /\ "failed-session" \notin Queued /\ "excluded" \notin Queued
  /\ "absent" \notin Queued /\ Unexamined \notin Queued \cup Verified
BY DEF Queued, Verified, Identified, NoInfo, Unexamined

(* An inspection that finds x queued under i finds it so in the library;   *)
(* one that throws does not find it queued.                                *)
LEMMA InspectPends ==
  ASSUME NEW x, NEW i
  PROVE  /\ PendsUnder(Inspect(x), i) => lib[x].status \in Queued /\ lib[x].src = i
         /\ ~PendsUnder(InspectThrown(x), i)
BY QueuedApart DEF PendsUnder, Inspect, InspectThrown

(* classify() leaves in the queue only what was in it and is not held.     *)
LEMMA ClassifyPends ==
  ASSUME NEW x, NEW info \in Infos, NEW held, NEW i, PendsUnder(Classify(x, info, held), i)
  PROVE  PendsUnder(info, i) /\ <<x, i>> \notin held
BY QueuedApart DEF PendsUnder, Classify, Infos

(* What record() leaves in the queue under i is what was there before, or  *)
(* was inspected under i and is not held.                                  *)
LEMMA RecordPends ==
  ASSUME TypeOK, NEW y \in Ids, NEW info \in Infos, NEW held, Record(y, info, held),
         NEW x \in Ids, NEW i, PendsUnder(observed'[x], i)
  PROVE  \/ x # y /\ PendsUnder(observed[x], i)
         \/ x = y /\ PendsUnder(info, i) /\ <<x, i>> \notin held /\ ~info.absent
<1>1. observed \in [Ids -> Infos \cup {NoInfo}]
  BY DEF TypeOK, ViewOK
<1>2. CASE x # y
  BY <1>1, <1>2 DEF Record
<1>3. CASE x = y
  <2>1. CASE info.absent
    BY <1>1, <1>3, <2>1, QueuedApart DEF Record, PendsUnder
  <2>2. CASE ~info.absent
    <3>1. observed'[x] = Classify(y, info, held)
      BY <1>1, <1>3, <2>2 DEF Record
    <3> QED BY <1>3, <2>2, <3>1, ClassifyPends
  <2> QED BY <2>1, <2>2
<1> QED BY <1>2, <1>3

(* After an outside change nothing has been submitted.                     *)
LEMMA ChangeForgets ==
  ASSUME VerdictInv, Outside
  PROVE  VerdictInv'
<1>1. submitted' = {} /\ pc' = pc /\ UNCHANGED readVars
  BY DEF Outside, Pump_unchanged
<1> QED BY <1>1 DEF VerdictInv, VerdictInHand, AllSettled, Handed, readVars

(* Steps that neither change the library or the map, nor settle, nor read. *)
LEMMA VerdictQuiet ==
  ASSUME TypeOK, VerdictInv, UNCHANGED <<lib, session, observed>>,
         pc' \in CensusPoints => (next' = next /\ pc \in CensusPoints) \/ next' = [x \in Ids |-> NoInfo],
         pc' \in ReadingPoints => pc' = pc /\ UNCHANGED <<doc, buf>>,
         pc' \in Settling <=> pc \in Settling,
         pc \in Settling => UNCHANGED <<doc, gated>>
  PROVE  VerdictInv'
<1>2. VerdictInHand'
  BY DEF VerdictInv, VerdictInHand, ReadingPoints, Settling, session, Inspect, Exists
<1>3. ASSUME NEW x \in Ids, NEW i \in Nat, Handed(x, i)' PROVE Settled(x, i)'
  <2>1. Handed(x, i)
    BY <1>3 DEF Handed, BeingSettled, session
  <2>2. Settled(x, i)
    BY <2>1 DEF VerdictInv, AllSettled
  <2> QED BY <2>2, QueuedApart DEF Settled, PendsUnder, session
<1> QED BY <1>2, <1>3 DEF VerdictInv, AllSettled

(* An inspection.                                                          *)
LEMMA VerdictLook ==
  ASSUME TypeOK, VerdictInv, NEW y \in Ids, Look(y),
         UNCHANGED <<session, observed, next, gated>>,
         pc' \notin CensusPoints \/ pc \in CensusPoints,
         pc' \in Settling <=> pc \in Settling,
         pc \in Settling => y = doc,
         pc' = "settle" => buf'.status \in Verified
  PROVE  VerdictInv'
<1>1. lib' = lib /\ doc' = y /\ buf' \in {Inspect(y), InspectThrown(y)}
  BY DEF Look, LookAnswers, LookThrows
<1>3. VerdictInHand'
  BY <1>1 DEF VerdictInHand, Inspect, InspectThrown, Exists
<1>4. ASSUME NEW x \in Ids, NEW i \in Nat, Handed(x, i)' PROVE Settled(x, i)'
  <2>1. Handed(x, i)
    BY <1>1, <1>4 DEF Handed, BeingSettled, session
  <2>2. Settled(x, i)
    BY <2>1 DEF VerdictInv, AllSettled
  <2>3. x = y /\ PendsUnder(buf', i) => <<x, i>> \in failed
    BY <1>1, <2>2, InspectPends DEF Settled
  <2> QED BY <1>1, <2>2, <2>3 DEF Settled, session, PendsUnder
<1> QED BY <1>3, <1>4 DEF VerdictInv, AllSettled

(* A record, of a document not being settled or at its settlement: in the  *)
(* second case what was inspected last is the verdict.                     *)
LEMMA VerdictRecord ==
  ASSUME TypeOK, VerdictInv, Record(doc, buf, failed'), lib' = lib,
         pc \in ReadingPoints, pc' \notin CensusPoints \cup ReadingPoints,
         failed \subseteq failed',
         \/ /\ pc \notin Settling /\ pc' \notin Settling /\ submitted' = submitted
         \/ /\ pc \notin Settling /\ pc' \in Settling /\ UNCHANGED <<doc, gated>>
            /\ submitted' = submitted \cup {<<doc, gated.identity>>}
         \/ /\ pc \in {"settle", "bury"} /\ pc' \notin Settling
            /\ submitted' \subseteq submitted
            /\ <<doc, gated.identity>> \in submitted' => buf.status # Unexamined
            /\ pc = "bury" /\ PendsUnder(buf, gated.identity) => <<doc, gated.identity>> \in failed'
  PROVE  VerdictInv'
<1>1. doc \in Ids /\ buf \in Infos /\ submitted \subseteq Ids \X Nat
  BY DEF TypeOK, InHandOK, SwitchOK, ReadingPoints, Settling
<1>3. VerdictInHand'
  BY DEF VerdictInHand, ReadingPoints
<1>4. ASSUME NEW x \in Ids, NEW i \in Nat, Handed(x, i)' PROVE Settled(x, i)'
  <2>1. CASE Handed(x, i)
    <3>1. Settled(x, i)
      BY <2>1 DEF VerdictInv, AllSettled
    <3>2. ~PendsUnder(observed'[x], i)
      BY <1>1, <3>1, RecordPends DEF Settled
    <3> QED BY <3>1, <3>2 DEF Settled, PendsUnder
  <2>2. CASE ~Handed(x, i)
    <3>1. /\ pc \in {"settle", "bury"} /\ x = doc /\ i = gated.identity /\ <<x, i>> \in submitted
          /\ buf.status # Unexamined
          /\ pc = "bury" /\ PendsUnder(buf, i) => <<x, i>> \in failed'
      BY <1>4, <2>2 DEF Handed, BeingSettled
    <3>2. buf = Inspect(x)
      BY <3>1 DEF VerdictInv, VerdictInHand
    <3>3. PendsUnder(buf, i) => <<x, i>> \in failed'
      BY <3>1, QueuedApart DEF VerdictInv, VerdictInHand, PendsUnder
    <3>4. lib[x].status \in Queued /\ lib[x].src = i => PendsUnder(Inspect(x), i)
      BY QueuedApart DEF PendsUnder, Inspect, Exists
    <3>5. ~PendsUnder(observed'[x], i)
      BY <1>1, <3>1, <3>3, RecordPends
    <3> QED BY <3>2, <3>3, <3>4, <3>5 DEF Settled, PendsUnder
  <2> QED BY <2>1, <2>2
<1> QED BY <1>3, <1>4 DEF VerdictInv, AllSettled

(* Every step: a change outside, a quiet one, an inspection, a record, or  *)
(* the few that are none of these.                                         *)
LEMMA VerdictInvStep ==
  ASSUME TypeOK, VerdictInv, [Next]_vars PROVE VerdictInv'
<1>1. CASE AttachmentChanges \/ AttachmentAdded \/ AttachmentErased \/ RecordGoes
  BY <1>1, ChangeForgets DEF AttachmentChanges, AttachmentAdded, AttachmentErased, RecordGoes
<1>2. CASE Stop \/ Start \/ HourPasses \/ Notify
  BY <1>2, VerdictQuiet DEF Stop, Start, HourPasses, Notify, Pump_unchanged, library, session, census, tryVars,
     walkVars, readVars
<1>3. CASE UNCHANGED vars
  BY <1>3, VerdictQuiet DEF vars, library, session, census, tryVars, walkVars, readVars
<1>4. CASE PumpStart \/ BeginCensus \/ LoopTop \/ ListRead \/ Listed \/ DrainBegin \/ DrainTake \/ DrainEnd
           \/ DrainExpand \/ DrainRetire \/ ChooseCandidate \/ NoCandidate \/ AdmitAbandon \/ GateOpen \/ GateShut
           \/ HostThrows \/ PumpCatch \/ PumpReturn
  <2>1. pc \notin Settling /\ pc' \notin Settling \cup ReadingPoints /\ UNCHANGED <<lib, session, observed>>
    BY <1>4 DEF PumpStart, BeginCensus, LoopTop, ListRead, Listed, DrainBegin, DrainTake, DrainEnd, DrainExpand,
       DrainRetire, ChooseCandidate, NoCandidate, AdmitAbandon, GateOpen, GateShut, HostThrows, PumpCatch,
       PumpReturn, Busy, Go, Abandon, Requeue, Settling, ReadingPoints, library, census
  <2>2. pc' \in CensusPoints => (next' = next /\ pc \in CensusPoints) \/ next' = [x \in Ids |-> NoInfo]
    BY <1>4 DEF PumpStart, BeginCensus, LoopTop, ListRead, Listed, DrainBegin, DrainTake, DrainEnd, DrainExpand,
       DrainRetire, ChooseCandidate, NoCandidate, AdmitAbandon, GateOpen, GateShut, HostThrows, PumpCatch,
       PumpReturn, Go, Abandon, Requeue, CensusPoints, walkVars
  <2> QED BY <2>1, <2>2, VerdictQuiet
<1>5. CASE EnsureReturns
  BY <1>5, VerdictQuiet DEF EnsureReturns, Go, library, census, tryVars, walkVars, readVars, Settling, ReadingPoints,
     CensusPoints
<1>6. CASE EnsurePersists
  <2>1. /\ pc = "ensure" /\ pc' \in {"verify", "autopsy"} /\ UNCHANGED <<session, observed, doc, gated>>
        /\ \A x \in Ids : lib'[x] = lib[x] \/ lib'[x].status \notin Queued
    BY <1>6, QueuedApart DEF EnsurePersists, Go, session, census, tryVars, readVars, TypeOK, LibraryOK, InHandOK, Settling, Items
  <2>2. VerdictInHand'
    BY <2>1 DEF VerdictInv, VerdictInHand, session
  <2>3. ASSUME NEW x \in Ids, NEW i \in Nat, Handed(x, i)' PROVE Settled(x, i)'
    <3>1. Settled(x, i)
      BY <2>1, <2>3 DEF VerdictInv, AllSettled, Handed, BeingSettled, Settling, session
    <3> QED BY <2>1, <3>1 DEF Settled, CensusPoints, ReadingPoints, session, PendsUnder
  <2> QED BY <2>2, <2>3 DEF VerdictInv, AllSettled
<1>7. CASE WalkRead
  <2>1. CASE Current
    BY <1>7, <2>1, VerdictLook DEF WalkRead, Abandon, Go, census, tryVars, walkVars, Settling, CensusPoints, TypeOK, LocalsOK
  <2>2. CASE ~Current
    BY <1>7, <2>2, VerdictQuiet DEF WalkRead, Abandon, Go, library, census, tryVars, walkVars, readVars, Settling,
       ReadingPoints, CensusPoints
  <2> QED BY <2>1, <2>2
<1>8. CASE DrainLook
  <2>1. CASE Current
    BY <1>8, <2>1, VerdictLook DEF DrainLook, Requeue, Go, census, tryVars, walkVars, Settling, CensusPoints, TypeOK, LocalsOK
  <2>2. CASE ~Current
    BY <1>8, <2>2, VerdictQuiet DEF DrainLook, Requeue, Go, library, census, tryVars, walkVars, readVars, Settling,
       ReadingPoints, CensusPoints
  <2> QED BY <2>1, <2>2
<1>9. CASE AdmitLook
  BY <1>9, VerdictLook DEF AdmitLook, Go, census, tryVars, walkVars, Settling, CensusPoints, TypeOK, InHandOK
<1>10. CASE SettleLook
  BY <1>10, VerdictLook DEF SettleLook, Go, census, tryVars, walkVars, Settling, CensusPoints, TypeOK, InHandOK
<1>11. CASE FailureLook
  BY <1>11, VerdictLook DEF FailureLook, Go, census, tryVars, walkVars, Settling, CensusPoints, TypeOK, InHandOK
<1>12. CASE WalkRecord
  <2>1. CASE ~Current
    BY <1>12, <2>1, VerdictQuiet DEF WalkRecord, Abandon, Go, library, census, tryVars, walkVars, readVars, Settling,
       ReadingPoints, CensusPoints
  <2>2. CASE Current
    <3> DEFINE entry == Classify(doc, buf, failed)
    <3>1. /\ pc = "walked" /\ pc' \in {"walk", "close"} /\ next' = [next EXCEPT ![doc] = entry]
          /\ UNCHANGED <<lib, session, observed>>
      BY <1>12, <2>2 DEF WalkRecord, Forget, Abandon, Go, library, census, tryVars, readVars
    <3>2. doc \in Ids /\ buf \in Infos /\ next \in Views
      BY <3>1 DEF TypeOK, InHandOK, LocalsOK, Views
    <3>3. VerdictInHand'
      BY <3>1 DEF VerdictInHand
    <3>4. ASSUME NEW x \in Ids, NEW i \in Nat, Handed(x, i)' PROVE Settled(x, i)'
      <4>1. Settled(x, i)
        BY <3>1, <3>4 DEF VerdictInv, AllSettled, Handed, BeingSettled, Settling, session
      <4>2. PendsUnder(next'[x], i) => PendsUnder(next[x], i) \/ (x = doc /\ PendsUnder(entry, i))
        BY <3>1, <3>2 DEF Views
      <4>3. x = doc => ~PendsUnder(entry, i)
        BY <3>1, <3>2, <4>1, ClassifyPends DEF Settled, ReadingPoints
      <4> QED BY <3>1, <4>1, <4>2, <4>3 DEF Settled, session, PendsUnder, ReadingPoints, CensusPoints
    <3> QED BY <3>3, <3>4 DEF VerdictInv, AllSettled
  <2> QED BY <2>1, <2>2
<1>13. CASE CensusClose
  <2>1. CASE ~Current
    BY <1>13, <2>1, VerdictQuiet DEF CensusClose, Abandon, Go, library, census, tryVars, walkVars, readVars, Settling,
       ReadingPoints, CensusPoints
  <2>2. CASE Current
    <3>1. pc = "close" /\ pc' = "drain" /\ observed' = next /\ UNCHANGED <<lib, session, doc, buf, gated>>
      BY <1>13, <2>2 DEF CensusClose, Abandon, Go, library, tryVars, readVars
    <3>2. VerdictInHand'
      BY <3>1 DEF VerdictInHand
    <3>3. ASSUME NEW x \in Ids, NEW i \in Nat, Handed(x, i)' PROVE Settled(x, i)'
      <4>1. Settled(x, i)
        BY <3>1, <3>3 DEF VerdictInv, AllSettled, Handed, BeingSettled, Settling, session
      <4> QED BY <3>1, <4>1 DEF Settled, session, PendsUnder, ReadingPoints, CensusPoints
    <3> QED BY <3>2, <3>3 DEF VerdictInv, AllSettled
  <2> QED BY <2>1, <2>2
<1>14. CASE DrainRecord
  <2>1. CASE Current
    BY <1>14, <2>1, VerdictRecord DEF DrainRecord, Forget, Requeue, Go, library, session, tryVars, readVars, Settling,
       ReadingPoints, CensusPoints
  <2>2. CASE ~Current
    BY <1>14, <2>2, VerdictQuiet DEF DrainRecord, Requeue, Go, library, census, tryVars, walkVars, readVars, Settling,
       ReadingPoints, CensusPoints
  <2> QED BY <2>1, <2>2
<1>15. CASE AdmitSkip \/ AdmitMoved \/ AdmitWorkerBusy
  BY <1>15, VerdictRecord DEF AdmitSkip, AdmitMoved, AdmitWorkerBusy, Dismiss, AdmitRecord, Go, library, Settling,
     ReadingPoints, CensusPoints
<1>16. CASE Submit
  BY <1>16, VerdictRecord DEF Submit, AdmitRecord, Changed, Go, library, readVars, Settling, ReadingPoints, CensusPoints
<1>17. CASE SettleSuccess
  BY <1>17, VerdictRecord, QueuedApart DEF VerdictInv, VerdictInHand, SettleSuccess, Dismiss, Go, library, session, Settling, ReadingPoints, CensusPoints
<1>18. CASE SettleFailure
  BY <1>18, VerdictRecord DEF SettleFailure, Holds, Dismiss, Go, library, Settling, ReadingPoints, CensusPoints, PendsUnder
<1> QED BY <1>1, <1>2, <1>3, <1>4, <1>5, <1>6, <1>7, <1>8, <1>9, <1>10, <1>11, <1>12, <1>13, <1>14, <1>15, <1>16,
     <1>17, <1>18 DEF Next, Pump, Census, Drain, Admission, Settlement, Environment

(* Nothing has been submitted at first.                                    *)
LEMMA VerdictInit == Init => VerdictInv
BY DEF Init, VerdictInv, VerdictInHand, AllSettled, Handed

(* A document handed to the native worker has left the queue when it is    *)
(* settled, by its pack or a held failure, unless the library changed      *)
(* since or the inspection after its failure threw, in which case it shows *)
(* as unexamined.                                                          *)
THEOREM EveryVerdictRecorded == Spec => []VerdictRecorded
<1>1. TypeOK /\ VerdictInv => VerdictRecorded
  <2> SUFFICES ASSUME TypeOK, VerdictInv, pc \notin Settling,
                      NEW x \in Pending, <<x, observed[x].identity>> \in submitted
               PROVE  FALSE
    BY DEF VerdictRecorded
  <2>1. x \in Ids /\ observed[x].identity \in Nat
    BY DEF Pending, TypeOK, ViewOK, Infos, NoInfo
  <2> QED BY <2>1 DEF VerdictInv, AllSettled, Handed, BeingSettled, Settled, PendsUnder, Pending
<1> QED BY <1>1, VerdictInit, VerdictInvStep, TypeCorrect, PTL DEF Spec

-----------------------------------------------------------------------------
(* What is handed to the native worker.                                    *)

(* An entry of a row that is gone is of no queue, and the observation the  *)
(* resource gate was asked about is of one that is there.                  *)
GoneUnqueued(info) == info.absent => info.status \notin Queued
GateInv ==
  /\ \A x \in Ids : GoneUnqueued(observed[x]) /\ GoneUnqueued(next[x])
  /\ GoneUnqueued(buf)
  /\ pc \in {"gate", "recheck", "admit"} => gated.status \in Queued /\ ~gated.absent

(* What an inspection, a classification and a record leave.                *)
LEMMA GoneAnswers ==
  /\ \A x : GoneUnqueued(Inspect(x)) /\ GoneUnqueued(InspectThrown(x))
  /\ GoneUnqueued(NoInfo)
  /\ \A x, held : \A info \in Infos : GoneUnqueued(info) => GoneUnqueued(Classify(x, info, held))
  /\ TypeOK /\ GateInv /\ doc \in Ids /\ buf \in Infos =>
       \A held : Record(doc, buf, held) => \A x \in Ids : GoneUnqueued(observed'[x])
<1>1. \A x : GoneUnqueued(Inspect(x)) /\ GoneUnqueued(InspectThrown(x))
  BY QueuedApart DEF GoneUnqueued, Inspect, InspectThrown
<1>2. GoneUnqueued(NoInfo)
  BY DEF GoneUnqueued, NoInfo
<1>3. ASSUME NEW x, NEW held, NEW info \in Infos, GoneUnqueued(info)
      PROVE  GoneUnqueued(Classify(x, info, held))
  BY <1>3, QueuedApart DEF GoneUnqueued, Classify, Infos
<1>4. ASSUME TypeOK, GateInv, doc \in Ids, buf \in Infos, NEW held, Record(doc, buf, held), NEW x \in Ids
      PROVE  GoneUnqueued(observed'[x])
  <2>1. observed \in [Ids -> Infos \cup {NoInfo}] /\ GoneUnqueued(observed[x]) /\ GoneUnqueued(buf)
    BY <1>4 DEF TypeOK, ViewOK, GateInv
  <2>2. observed'[x] \in {observed[x], NoInfo, Classify(doc, buf, held)}
    BY <1>4, <2>1 DEF Record
  <2> QED BY <1>2, <1>3, <1>4, <2>1, <2>2
<1> QED BY <1>1, <1>2, <1>3, <1>4

(* Steps that read nothing, record nothing and choose nothing.             *)
LEMMA GateQuiet ==
  ASSUME GateInv, UNCHANGED observed, UNCHANGED next \/ next' = [x \in Ids |-> NoInfo],
         UNCHANGED buf \/ buf' = NoInfo \/ \E x \in Ids : buf' \in {Inspect(x), InspectThrown(x)},
         pc' \in {"gate", "recheck", "admit"} => pc \in {"gate", "recheck", "admit"} /\ UNCHANGED gated
  PROVE  GateInv'
BY GoneAnswers DEF GateInv, GoneUnqueued

(* Those that record one inspection.                                       *)
LEMMA GateRecord ==
  ASSUME TypeOK, GateInv, NEW held, Record(doc, buf, held), pc \in ReadingPoints,
         UNCHANGED next, buf' \in {buf, NoInfo}, pc' \notin {"gate", "recheck", "admit"}
  PROVE  GateInv'
<1>1. doc \in Ids /\ buf \in Infos
  BY DEF TypeOK, InHandOK, ReadingPoints, Settling
<1>2. \A x \in Ids : GoneUnqueued(observed'[x])
  BY <1>1, GoneAnswers
<1>3. \A x \in Ids : GoneUnqueued(next'[x])
  BY DEF GateInv
<1> QED BY <1>2, <1>3, GoneAnswers DEF GateInv, GoneUnqueued

(* The first observations, and every step.                                 *)
LEMMA GateInit == Init => GateInv
BY GoneAnswers DEF Init, GateInv

(* Every step keeps what the gate was asked about queued and there.        *)
LEMMA GateInvStep ==
  ASSUME TypeOK, GateInv, [Next]_vars PROVE GateInv'
<1>1. CASE UNCHANGED vars \/ Environment
  BY <1>1, GateQuiet DEF vars, Environment, Stop, Start, HourPasses, Notify, Outside, AttachmentChanges,
     AttachmentAdded, AttachmentErased, RecordGoes, Pump_unchanged, census, tryVars, walkVars, readVars
<1>2. CASE PumpStart \/ BeginCensus \/ LoopTop \/ ListRead \/ Listed \/ DrainBegin \/ DrainTake \/ DrainEnd
           \/ DrainExpand \/ DrainRetire \/ HostThrows \/ PumpCatch \/ PumpReturn
  <2>1. UNCHANGED observed /\ (UNCHANGED next \/ next' = [x \in Ids |-> NoInfo]) /\ (UNCHANGED buf \/ buf' = NoInfo)
    BY <1>2 DEF PumpStart, BeginCensus, LoopTop, ListRead, Listed, DrainBegin, DrainTake, DrainEnd, DrainExpand,
       DrainRetire, HostThrows, PumpCatch, PumpReturn, census, walkVars, readVars
  <2>2. pc' \notin {"gate", "recheck", "admit"}
    BY <1>2 DEF PumpStart, BeginCensus, LoopTop, ListRead, Listed, DrainBegin, DrainTake, DrainEnd, DrainExpand,
       DrainRetire, HostThrows, PumpCatch, PumpReturn, Go, Abandon, Requeue
  <2> QED BY <2>1, <2>2, GateQuiet
<1>3. CASE NoCandidate \/ AdmitAbandon \/ GateOpen \/ GateShut \/ EnsurePersists \/ EnsureReturns
  BY <1>3, GateQuiet DEF NoCandidate, AdmitAbandon, GateOpen, GateShut, Dismiss, Forget, EnsurePersists, EnsureReturns, Go, Abandon,
     census, tryVars, walkVars, readVars
<1>4. CASE ChooseCandidate
  <2>1. PICK x \in Admissible : gated' = observed[x]
    BY <1>4 DEF ChooseCandidate
  <2>2. gated'.status \in Queued /\ ~gated'.absent
    BY <2>1 DEF Admissible, Pending, GateInv, GoneUnqueued
  <2> QED BY <1>4, <2>2 DEF ChooseCandidate, GateInv, GoneUnqueued, census, walkVars
<1>5. CASE WalkRead \/ DrainLook
  <2>1. UNCHANGED buf \/ \E x \in Ids : buf' \in {Inspect(x), InspectThrown(x)}
    BY <1>5 DEF WalkRead, DrainLook, Look, LookAnswers, LookThrows, Abandon, Requeue, readVars, TypeOK, LocalsOK
  <2> QED BY <1>5, <2>1, GateQuiet DEF WalkRead, DrainLook, Go, Abandon, Requeue, census, walkVars
<1>6. CASE AdmitLook \/ SettleLook \/ FailureLook
  <2>1. doc \in Ids /\ buf' \in {Inspect(doc), InspectThrown(doc)}
    BY <1>6 DEF AdmitLook, SettleLook, FailureLook, Look, LookAnswers, LookThrows, TypeOK, InHandOK, Settling
  <2> QED BY <1>6, <2>1, GateQuiet DEF AdmitLook, SettleLook, FailureLook, Go, census, tryVars, walkVars
<1>7. CASE WalkRecord
  <2>1. CASE ~Current
    BY <1>7, <2>1, GateQuiet DEF WalkRecord, Abandon, Go, census, walkVars, readVars
  <2>2. CASE Current
    <3>1. /\ pc = "walked" /\ pc' \in {"walk", "close"} /\ UNCHANGED observed /\ buf' = NoInfo
          /\ next' = [next EXCEPT ![doc] = Classify(doc, buf, failed)]
      BY <1>7, <2>2 DEF WalkRecord, Forget, Abandon, Go
    <3>2. GoneUnqueued(Classify(doc, buf, failed)) /\ next \in Views
      BY <3>1, GoneAnswers DEF TypeOK, InHandOK, LocalsOK, GateInv, Views
    <3>3. \A x \in Ids : GoneUnqueued(next'[x])
      BY <3>1, <3>2 DEF GateInv, Views
    <3> QED BY <3>1, <3>3, GoneAnswers DEF GateInv, GoneUnqueued
  <2> QED BY <2>1, <2>2
<1>8. CASE CensusClose
  BY <1>8, GoneAnswers DEF CensusClose, Abandon, Go, GateInv, GoneUnqueued, census, walkVars, readVars
<1>9. CASE DrainRecord
  <2>1. CASE Current
    BY <1>9, <2>1, GateRecord DEF DrainRecord, Requeue, Forget, Go, ReadingPoints
  <2>2. CASE ~Current
    BY <1>9, <2>2, GateQuiet DEF DrainRecord, Requeue, Go, census, readVars
  <2> QED BY <2>1, <2>2
<1>10. CASE AdmitSkip \/ AdmitMoved \/ AdmitWorkerBusy \/ Submit
  <2>1. AdmitRecord /\ buf' \in {buf, NoInfo} /\ pc' \notin {"gate", "recheck", "admit"}
    BY <1>10 DEF AdmitSkip, AdmitMoved, AdmitWorkerBusy, Submit, Dismiss, Forget, readVars, Go
  <2> QED BY <2>1, GateRecord DEF AdmitRecord, ReadingPoints, walkVars
<1>11. CASE SettleSuccess \/ SettleFailure
  BY <1>11, GateRecord DEF SettleSuccess, SettleFailure, Dismiss, Forget, Go, ReadingPoints, walkVars
<1> QED BY <1>1, <1>2, <1>3, <1>4, <1>5, <1>6, <1>7, <1>8, <1>9, <1>10, <1>11
     DEF Next, Pump, Census, Drain, Admission, Settlement

(* Only Submit goes to the native worker.                                  *)
LEMMA OnlySubmitEnsures ==
  ASSUME [Next]_vars, pc # "ensure", pc' = "ensure" PROVE Submit
<1>1. ASSUME Census \/ HostThrows \/ PumpCatch \/ PumpReturn \/ PumpStart PROVE FALSE
  BY <1>1 DEF Census, PumpStart, BeginCensus, LoopTop, ListRead, Listed, WalkRead, WalkRecord, CensusClose,
     HostThrows, PumpCatch, PumpReturn, Go, Abandon
<1>2. ASSUME Drain \/ Settlement PROVE FALSE
  BY <1>2 DEF Drain, DrainBegin, DrainTake, DrainEnd, DrainExpand, DrainLook, DrainRecord, DrainRetire, Requeue,
     Settlement, EnsurePersists, EnsureReturns, SettleLook, SettleSuccess, FailureLook, SettleFailure, Go
<1>3. ASSUME Environment \/ UNCHANGED vars PROVE FALSE
  BY <1>3 DEF Environment, Stop, Start, HourPasses, Notify, Outside, AttachmentChanges, AttachmentAdded,
     AttachmentErased, RecordGoes, Pump_unchanged, vars
<1>4. ASSUME Admission PROVE Submit
  BY <1>4 DEF Admission, ChooseCandidate, NoCandidate, AdmitAbandon, GateOpen, GateShut, AdmitLook, AdmitSkip,
     AdmitMoved, AdmitWorkerBusy, Go, Abandon
<1> QED BY <1>1, <1>2, <1>3, <1>4 DEF Next, Pump

(* A document is submitted by the pump that is current, outside a census,  *)
(* under the identity and directory its gate was asked about, never one    *)
(* held as failed, and never twice without a change of the library, unless *)
(* no inspection could examine it after its failure.                       *)
THEOREM SubmissionsSound == Spec => AdmissionSound
<1> DEFINE Sound ==
      /\ Current /\ ~censusBuilding
      /\ observed'[doc].status \in Queued
      /\ [gated EXCEPT !.status = buf.status] = buf
      /\ <<doc, buf.identity>> \notin failed
      /\ <<doc, buf.identity>> \notin submitted
<1>1. ASSUME TypeOK, CutInv, VerdictInv, GateInv, [Next]_vars, pc # "ensure", pc' = "ensure"
      PROVE  Sound
  <2>1. /\ pc = "admit" /\ Current /\ Record(doc, buf, failed)
        /\ observed'[doc].status \in Queued /\ buf.directory = gated.directory /\ buf.identity = gated.identity
    BY <1>1, OnlySubmitEnsures DEF Submit, AdmitRecord, StillQueued, Moved, Changed
  <2>2. doc \in Ids /\ buf \in Infos /\ gated \in Infos /\ buf.identity \in Nat
    BY <1>1, <2>1 DEF TypeOK, InHandOK, Infos
  <2>3. ~censusBuilding
    BY <1>1, <2>1 DEF CutInv, RebuildMarked, CensusPoints
  <2> DEFINE i == observed'[doc].identity
  <2>4. PendsUnder(buf, i) /\ <<doc, i>> \notin failed /\ ~buf.absent
    BY <1>1, <2>1, <2>2, RecordPends DEF PendsUnder
  <2>5. buf.identity = i
    BY <2>4 DEF PendsUnder
  <2>6. [gated EXCEPT !.status = buf.status] = buf
    <3>1. ~gated.absent
      BY <1>1, <2>1 DEF GateInv
    <3>2. gated.absent = buf.absent
      BY <2>2, <2>4, <3>1 DEF Infos
    <3> QED BY <2>1, <2>2, <3>2 DEF Infos
  <2>7. <<doc, buf.identity>> \notin submitted
    <3>1. <<doc, i>> \in submitted => Handed(doc, i)
      BY <2>1 DEF Handed, BeingSettled, Settling
    <3>2. Handed(doc, i) => Settled(doc, i)
      BY <1>1, <2>2, <2>5 DEF VerdictInv, AllSettled
    <3>3. ~Settled(doc, i)
      BY <2>1, <2>4 DEF Settled, ReadingPoints
    <3> QED BY <2>5, <3>1, <3>2, <3>3
  <2> QED BY <2>1, <2>3, <2>4, <2>5, <2>6, <2>7
<1>2. TypeOK /\ CutInv /\ VerdictInv /\ GateInv /\ [Next]_vars => [pc # "ensure" /\ pc' = "ensure" => Sound]_vars
  BY <1>1
<1> QED BY <1>2, TypeCorrect, CensusInit, CutInvStep, VerdictInit, VerdictInvStep, GateInit, GateInvStep,
     PTL DEF Spec, AdmissionSound

-----------------------------------------------------------------------------
(* The figures of the window.                                              *)

(* What is counted of at most four statuses, in any order.                 *)
PartOf(c, s, S) == IF s \in S THEN c[s] ELSE 0
SumOfFour(c, a, b, d, e, S) == PartOf(c, a, S) + PartOf(c, b, S) + PartOf(c, d, S) + PartOf(c, e, S)

LEMMA SumIsOfParts ==
  ASSUME NEW c \in [Statuses -> Int],
         NEW a \in Statuses, NEW b \in Statuses, NEW d \in Statuses, NEW e \in Statuses,
         a # b, a # d, a # e, b # d, b # e, d # e, NEW S \in SUBSET {a, b, d, e}
  PROVE  SumOver(c, S) = SumOfFour(c, a, b, d, e, S)
<1> DEFINE one(s) == CHOOSE x \in s : TRUE
           Adds(f) == f = [s \in SUBSET S |-> IF s = {} THEN 0 ELSE c[one(s)] + f[s \ {one(s)}]]
           parts == [s \in SUBSET S |-> SumOfFour(c, a, b, d, e, s)]
           iter == CHOOSE f : Adds(f)
           Upto(n) == \A s \in SUBSET S : Cardinality(s) <= n => iter[s] = parts[s]
<1>1. ASSUME NEW s \in SUBSET S, s # {}
      PROVE  one(s) \in s
  BY <1>1
<1>2. ASSUME NEW s \in SUBSET S, NEW x \in s
      PROVE  parts[s] = c[x] + parts[s \ {x}]
  <2>1. parts[s] = SumOfFour(c, a, b, d, e, s) /\ parts[s \ {x}] = SumOfFour(c, a, b, d, e, s \ {x})
    OBVIOUS
  <2>2. c[a] \in Int /\ c[b] \in Int /\ c[d] \in Int /\ c[e] \in Int
    OBVIOUS
  <2> HIDE DEF parts
  <2>3. CASE x = a
    BY <1>2, <2>1, <2>2, <2>3 DEF SumOfFour, PartOf
  <2>4. CASE x = b
    BY <1>2, <2>1, <2>2, <2>4 DEF SumOfFour, PartOf
  <2>5. CASE x = d
    BY <1>2, <2>1, <2>2, <2>5 DEF SumOfFour, PartOf
  <2>6. CASE x = e
    BY <1>2, <2>1, <2>2, <2>6 DEF SumOfFour, PartOf
  <2> QED BY <1>2, <2>3, <2>4, <2>5, <2>6
<1>3. parts[{}] = 0
  BY DEF SumOfFour, PartOf
<1>4. ASSUME NEW s \in SUBSET S
      PROVE  parts[s] = IF s = {} THEN 0 ELSE c[one(s)] + parts[s \ {one(s)}]
  <2> HIDE DEF parts, one
  <2>1. CASE s = {}
    BY <1>3, <2>1
  <2>2. CASE s # {}
    BY <1>1, <1>2, <2>2
  <2> QED BY <2>1, <2>2
<1>5. Adds(parts)
  <2> HIDE DEF one
  <2> QED BY <1>4
<1>6. Adds(iter)
  <2> HIDE DEF Adds
  <2> QED BY <1>5
<1>7. SumOver(c, S) = iter[S]
  BY DEF SumOver, MapThenSumSet, MapThenFoldSet
<1>8. ASSUME NEW s \in SUBSET S
      PROVE  iter[s] = IF s = {} THEN 0 ELSE c[one(s)] + iter[s \ {one(s)}]
  <2> HIDE DEF one, iter
  <2> QED BY <1>6
<1>9. IsFiniteSet(S) /\ Cardinality(S) \in Nat /\ Cardinality(S) <= 4
  <2>1. IsFiniteSet({a, b, d, e}) /\ Cardinality({a, b, d, e}) = 4
    <3>1. IsFiniteSet({a}) /\ Cardinality({a}) = 1 /\ b \notin {a}
      BY FS_Singleton
    <3>2. IsFiniteSet({a, b}) /\ Cardinality({a, b}) = 2 /\ d \notin {a, b}
      <4> DEFINE A == {a}
      <4>1. IsFiniteSet(A) /\ Cardinality(A) = 1 /\ b \notin A /\ {a, b} = A \cup {b} /\ d \notin {a, b}
        BY <3>1
      <4> HIDE DEF A
      <4> QED BY <4>1, FS_AddElement
    <3>3. IsFiniteSet({a, b, d}) /\ Cardinality({a, b, d}) = 3 /\ e \notin {a, b, d}
      <4> DEFINE B == {a, b}
      <4>1. IsFiniteSet(B) /\ Cardinality(B) = 2 /\ d \notin B /\ {a, b, d} = B \cup {d} /\ e \notin {a, b, d}
        BY <3>2
      <4> HIDE DEF B
      <4> QED BY <4>1, FS_AddElement
    <3> DEFINE D == {a, b, d}
    <3>4. IsFiniteSet(D) /\ Cardinality(D) = 3 /\ e \notin D /\ {a, b, d, e} = D \cup {e}
      BY <3>3
    <3> HIDE DEF D
    <3> QED BY <3>4, FS_AddElement
  <2> QED BY <2>1, FS_Subset, FS_CardinalityType
<1>10. Upto(0)
  <2> HIDE DEF parts, iter, one
  <2> SUFFICES ASSUME NEW s \in SUBSET S, Cardinality(s) <= 0 PROVE iter[s] = parts[s]
    OBVIOUS
  <2>1. IsFiniteSet(s)
    BY <1>9, FS_Subset
  <2>2. s = {}
    BY <2>1, FS_CardinalityType, FS_EmptySet
  <2> QED BY <1>3, <1>8, <2>2
<1>11. ASSUME NEW n \in Nat, Upto(n) PROVE Upto(n + 1)
  <2> HIDE DEF parts, iter, one
  <2> SUFFICES ASSUME NEW s \in SUBSET S, Cardinality(s) <= n + 1 PROVE iter[s] = parts[s]
    OBVIOUS
  <2>1. IsFiniteSet(s) /\ Cardinality(s) \in Nat
    BY <1>9, FS_Subset, FS_CardinalityType
  <2>2. CASE s = {}
    BY <1>3, <1>8, <2>2
  <2>3. CASE s # {}
    <3>1. one(s) \in s
      BY <1>1, <2>3
    <3>2. Cardinality(s \ {one(s)}) = Cardinality(s) - 1
      BY <2>1, <3>1, FS_RemoveElement
    <3>3. iter[s \ {one(s)}] = parts[s \ {one(s)}]
      BY <1>11, <2>1, <3>2
    <3> QED BY <1>4, <1>8, <2>3, <3>3
  <2> QED BY <2>2, <2>3
<1>12. Upto(4)
  <2> HIDE DEF Upto
  <2>1. Upto(0 + 1)
    BY <1>10, <1>11
  <2>2. Upto(1 + 1)
    BY <2>1, <1>11
  <2>3. Upto(2 + 1)
    BY <2>2, <1>11
  <2>4. Upto(3 + 1)
    BY <2>3, <1>11
  <2> QED BY <2>4
<1>13. iter[S] = parts[S]
  <2> HIDE DEF iter, parts
  <2> QED BY <1>9, <1>12
<1>14. parts[S] = SumOfFour(c, a, b, d, e, S)
  OBVIOUS
<1> HIDE DEF iter, parts
<1> QED BY <1>7, <1>13, <1>14

(* A view's ids by their statuses: apart where the statuses are.           *)
Among(view, class) == {x \in Ids : view[x].status \in class}

LEMMA AmongFinite ==
  ASSUME NEW view, NEW C
  PROVE  IsFiniteSet(Among(view, C)) /\ Cardinality(Among(view, C)) \in Nat
<1>1. IsFiniteSet(Among(view, C))
  BY IdsFinite, FS_Subset DEF Among
<1> QED BY <1>1, FS_CardinalityType

LEMMA AmongBoth ==
  ASSUME NEW view, NEW C, NEW D, C \cap D = {}
  PROVE  Cardinality(Among(view, C \cup D)) = Cardinality(Among(view, C)) + Cardinality(Among(view, D))
<1>1. Among(view, C \cup D) = Among(view, C) \cup Among(view, D) /\ Among(view, C) \cap Among(view, D) = {}
  BY DEF Among
<1> DEFINE A == Among(view, C)  B == Among(view, D)
<1>2. /\ IsFiniteSet(A) /\ IsFiniteSet(B) /\ Cardinality(A) \in Nat /\ Cardinality(B) \in Nat
      /\ Cardinality(A \cap B) = 0
  BY <1>1, AmongFinite, FS_EmptySet
<1> HIDE DEF A, B
<1>3. Cardinality(A \cup B) = Cardinality(A) + Cardinality(B)
  <2>1. Cardinality(A \cup B) = Cardinality(A) + Cardinality(B) - Cardinality(A \cap B)
    BY <1>2, FS_Union
  <2> QED BY <1>2, <2>1
<1> QED BY <1>1, <1>3 DEF A, B

(* The counters of a class add up to the ids of that class.                *)
LEMMA ClassCount ==
  ASSUME NEW view,
         NEW a \in Statuses, NEW b \in Statuses, NEW d \in Statuses, NEW e \in Statuses,
         a # b, a # d, a # e, b # d, b # e, d # e, NEW S \in SUBSET {a, b, d, e}
  PROVE  SumOver(Tally(view), S) = Cardinality(Among(view, S))
<1>1. ASSUME NEW s \in Statuses
      PROVE  Cardinality(Among(view, S \cap {s})) = PartOf(Tally(view), s, S)
  <2>1. CASE s \in S
    <3>1. Among(view, S \cap {s}) = {x \in Ids : view[x].status = s}
      BY <2>1 DEF Among
    <3> QED BY <2>1, <3>1 DEF PartOf, Tally
  <2>2. CASE s \notin S
    <3>1. Among(view, S \cap {s}) = {}
      BY <2>2 DEF Among
    <3> QED BY <2>2, <3>1, FS_EmptySet DEF PartOf
  <2> QED BY <2>1, <2>2
<1> DEFINE A == S \cap {a}  B == S \cap {b}  D == S \cap {d}  E == S \cap {e}
<1>2. S = A \cup (B \cup (D \cup E))
  OBVIOUS
<1>3. A \cap (B \cup (D \cup E)) = {} /\ B \cap (D \cup E) = {} /\ D \cap E = {}
  OBVIOUS
<1>4. Cardinality(Among(view, S)) = SumOfFour(Tally(view), a, b, d, e, S)
  <2>1. /\ Cardinality(Among(view, A)) = PartOf(Tally(view), a, S)
        /\ Cardinality(Among(view, B)) = PartOf(Tally(view), b, S)
        /\ Cardinality(Among(view, D)) = PartOf(Tally(view), d, S)
        /\ Cardinality(Among(view, E)) = PartOf(Tally(view), e, S)
    BY <1>1
  <2> HIDE DEF A, B, D, E
  <2>2. Cardinality(Among(view, D \cup E)) = Cardinality(Among(view, D)) + Cardinality(Among(view, E))
    BY <1>3, AmongBoth
  <2>3. Cardinality(Among(view, B \cup (D \cup E))) = Cardinality(Among(view, B)) + Cardinality(Among(view, D \cup E))
    BY <1>3, AmongBoth
  <2>4. Cardinality(Among(view, S)) = Cardinality(Among(view, A)) + Cardinality(Among(view, B \cup (D \cup E)))
    BY <1>2, <1>3, AmongBoth
  <2>5. /\ Cardinality(Among(view, A)) \in Nat /\ Cardinality(Among(view, B)) \in Nat
        /\ Cardinality(Among(view, D)) \in Nat /\ Cardinality(Among(view, E)) \in Nat
    BY AmongFinite
  <2> QED BY <2>1, <2>2, <2>3, <2>4, <2>5 DEF SumOfFour
<1>5. SumOver(Tally(view), S) = SumOfFour(Tally(view), a, b, d, e, S)
  BY TallyType, SumIsOfParts
<1> QED BY <1>4, <1>5

(* What is seen falls into the five classes, and into one of them.         *)
LEMMA SeenAddsUp ==
  ASSUME NEW view \in Views
  PROVE  /\ Cardinality(Seen(view)) =
              SumOver(Tally(view), Indexed) + SumOver(Tally(view), Unindexed) + SumOver(Tally(view), Failed)
                + SumOver(Tally(view), Queued) + SumOver(Tally(view), OutOfScope)
         /\ SumOver(Tally(view), Indexed) \in Nat /\ SumOver(Tally(view), Unindexed) \in Nat
         /\ SumOver(Tally(view), Failed) \in Nat /\ SumOver(Tally(view), Queued) \in Nat
         /\ SumOver(Tally(view), OutOfScope) \in Nat
<1>1. SumOver(Tally(view), Queued) = Cardinality(Among(view, Queued))
  <2> DEFINE a == "missing-pack"  b == "stale-source"  d == "stale-processor"  e == "invalid-pack"
  <2>1. /\ a \in Statuses /\ b \in Statuses /\ d \in Statuses /\ e \in Statuses
        /\ a # b /\ a # d /\ a # e /\ b # d /\ b # e /\ d # e
        /\ Queued \in SUBSET {a, b, d, e}
    BY DEF Statuses, Queued
  <2> HIDE DEF a, b, d, e
  <2> QED BY <2>1, ClassCount
<1>2. SumOver(Tally(view), Failed) = Cardinality(Among(view, Failed))
  <2> DEFINE a == "failed-session"  b == "inspection-error"  d == "unsupported-pack"  e == "missing-source"
  <2>1. /\ a \in Statuses /\ b \in Statuses /\ d \in Statuses /\ e \in Statuses
        /\ a # b /\ a # d /\ a # e /\ b # d /\ b # e /\ d # e
        /\ Failed \in SUBSET {a, b, d, e}
    BY DEF Statuses, Failed
  <2> HIDE DEF a, b, d, e
  <2> QED BY <2>1, ClassCount
<1>3. /\ SumOver(Tally(view), Indexed) = Cardinality(Among(view, Indexed))
      /\ SumOver(Tally(view), Unindexed) = Cardinality(Among(view, Unindexed))
      /\ SumOver(Tally(view), OutOfScope) = Cardinality(Among(view, OutOfScope))
  <2> DEFINE a == "current"  b == "empty-pack"  d == "excluded"  e == "unsupported"
  <2>1. /\ a \in Statuses /\ b \in Statuses /\ d \in Statuses /\ e \in Statuses
        /\ a # b /\ a # d /\ a # e /\ b # d /\ b # e /\ d # e
        /\ Indexed \in SUBSET {a, b, d, e} /\ Unindexed \in SUBSET {a, b, d, e}
        /\ OutOfScope \in SUBSET {a, b, d, e}
    BY DEF Statuses, Indexed, Unindexed, OutOfScope
  <2> HIDE DEF a, b, d, e
  <2> QED BY <2>1, ClassCount
<1>4. Seen(view) = Among(view, Indexed \cup (Unindexed \cup (Failed \cup (Queued \cup OutOfScope))))
  <2>1. ASSUME NEW x \in Ids PROVE view[x] # NoInfo <=> view[x].status \in Statuses
    <3>1. view[x] \in Infos \cup {NoInfo}
      BY <2>1 DEF Views
    <3>2. view[x] \in Infos => view[x].status \in Statuses
      BY DEF Infos
    <3>3. NoInfo.status \notin Statuses
      BY DEF NoInfo, Statuses, Indexed, Unindexed, Failed, Queued, OutOfScope
    <3> QED BY <3>1, <3>2, <3>3
  <2>2. Statuses = Indexed \cup (Unindexed \cup (Failed \cup (Queued \cup OutOfScope)))
    BY DEF Statuses
  <2> QED BY <2>1, <2>2 DEF Seen, Among
<1>5. /\ Indexed \cap (Unindexed \cup (Failed \cup (Queued \cup OutOfScope))) = {}
      /\ Unindexed \cap (Failed \cup (Queued \cup OutOfScope)) = {}
      /\ Failed \cap (Queued \cup OutOfScope) = {} /\ Queued \cap OutOfScope = {}
  BY DEF Indexed, Unindexed, Failed, Queued, OutOfScope
<1>6. Cardinality(Among(view, Queued \cup OutOfScope))
        = Cardinality(Among(view, Queued)) + Cardinality(Among(view, OutOfScope))
  BY <1>5, AmongBoth
<1>7. Cardinality(Among(view, Failed \cup (Queued \cup OutOfScope)))
        = Cardinality(Among(view, Failed)) + Cardinality(Among(view, Queued \cup OutOfScope))
  BY <1>5, AmongBoth
<1>8. Cardinality(Among(view, Unindexed \cup (Failed \cup (Queued \cup OutOfScope))))
        = Cardinality(Among(view, Unindexed)) + Cardinality(Among(view, Failed \cup (Queued \cup OutOfScope)))
  BY <1>5, AmongBoth
<1>9. Cardinality(Seen(view)) = Cardinality(Among(view, Indexed))
        + Cardinality(Among(view, Unindexed \cup (Failed \cup (Queued \cup OutOfScope))))
  BY <1>4, <1>5, AmongBoth
<1> QED BY <1>1, <1>2, <1>3, <1>6, <1>7, <1>8, <1>9, AmongFinite

-----------------------------------------------------------------------------
(* The counters are always those of a generation, the map's or the one a   *)
(* census builds or was building when it was cut off; and a census that    *)
(* finished has left a whole one to show while the next is under way.      *)
CountsOneView == \E view \in Views : counts = Tally(view) /\ scanned = Cardinality(Seen(view))
CoverInv ==
  /\ censusBuilding => CountsOneView
  /\ CensusFinished => censusSnapshot.kind = "whole"

LEMMA CoverInvStep ==
  ASSUME TypeOK, TypeOK', CutInv, TallyInv, TallyInv', CoverInv, [Next]_vars PROVE CoverInv'
<1> USE DEF CoverInv, CensusFinished
<1> USE DEF CountsOneView
<1>1. CASE BeginCensus
  <2>1. pc' = "list" /\ UNCHANGED nextReconciliationAt
        /\ (censusSnapshot.kind = "whole" => UNCHANGED censusSnapshot)
    BY <1>1 DEF BeginCensus, Go, NoSnapshot
  <2>2. next' \in Views /\ counts' = Tally(next') /\ scanned' = Cardinality(Seen(next'))
    BY <1>1, TallyOfNone DEF BeginCensus, Views
  <2> QED BY <2>1, <2>2
<1>2. CASE ListRead \/ WalkRead \/ LoopTop
  BY <1>2 DEF ListRead, WalkRead, LoopTop, census, deadline
<1>3. CASE Listed
  BY <1>3 DEF Listed, Publish, deadline, census
<1>4. CASE WalkRecord
  <2>1. CASE ~Current
    BY <1>4, <2>1 DEF WalkRecord, census, deadline
  <2>2. CASE Current
    <3>1. pc' \in CensusPoints /\ UNCHANGED deadline /\ Publish
      BY <1>4, <2>2 DEF WalkRecord, Go, CensusPoints, Abandon
    <3>2. next' \in Views /\ counts' = Tally(next') /\ scanned' = Cardinality(Seen(next'))
      BY <3>1 DEF TallyInv, RebuildTallies, TypeOK, LocalsOK, Views
    <3> QED BY <3>1, <3>2 DEF deadline, Publish
  <2> QED BY <2>1, <2>2
<1>5. CASE CensusClose
  <2>1. CASE ~Current
    BY <1>5, <2>1 DEF CensusClose, census
  <2>2. CASE Current
    <3>1. ~censusBuilding' /\ pc = "close" /\ todo = {} /\ UNCHANGED <<scanned, total>> /\ Publish
      BY <1>5, <2>2 DEF CensusClose, Abandon, CutInv, RebuildMarked
    <3>2. scanned = total
      BY <3>1, FS_EmptySet DEF TallyInv, RebuildTallies, CensusPoints, TypeOK, ViewOK
    <3> QED BY <3>1, <3>2 DEF Publish
  <2> QED BY <2>1, <2>2
<1>6. CASE UNCHANGED vars
  BY <1>6 DEF vars, census, deadline
<1>7. CASE DrainRecord \/ SettleSuccess \/ SettleFailure \/ AdmitSkip \/ AdmitMoved \/ AdmitWorkerBusy \/ Submit
  <2>1. ~censusBuilding /\ ~censusBuilding' /\ UNCHANGED nextReconciliationAt
        /\ (Publish \/ UNCHANGED censusSnapshot)
    BY <1>7 DEF DrainRecord, SettleSuccess, SettleFailure, AdmitSkip, AdmitMoved, AdmitWorkerBusy, Submit,
       AdmitRecord, Record, Requeue, CutInv, RebuildMarked, CensusPoints, deadline, census, TypeOK, ViewOK
  <2> QED BY <2>1 DEF Publish
<1>8. CASE DrainBegin \/ DrainRetire \/ GateShut \/ PumpReturn
  <2>1. UNCHANGED <<census, nextReconciliationAt>> /\ (Publish \/ UNCHANGED censusSnapshot)
    BY <1>8 DEF DrainBegin, DrainRetire, GateShut, PumpReturn, Requeue, census, deadline
  <2> QED BY <2>1 DEF Publish, census
<1>9. CASE DrainTake \/ DrainEnd \/ DrainExpand \/ DrainLook \/ ChooseCandidate \/ NoCandidate
           \/ AdmitAbandon \/ GateOpen \/ AdmitLook \/ EnsurePersists \/ EnsureReturns \/ SettleLook
           \/ FailureLook \/ HostThrows \/ PumpCatch \/ PumpStart
  BY <1>9 DEF DrainTake, DrainEnd, DrainExpand, DrainLook, ChooseCandidate, NoCandidate,
     AdmitAbandon, GateOpen, AdmitLook, EnsurePersists, EnsureReturns, SettleLook, FailureLook, HostThrows,
     PumpCatch, PumpStart, census, deadline
<1>10. CASE Environment
  BY <1>10 DEF Environment, Stop, Start, HourPasses, Notify, Outside, AttachmentChanges,
     AttachmentAdded, AttachmentErased, RecordGoes, Pump_unchanged, census, deadline
<1> QED BY <1>1, <1>2, <1>3, <1>4, <1>5, <1>6, <1>7, <1>8, <1>9, <1>10
     DEF Next, Pump, Census, Drain, Admission, Settlement

(* The figures of a view whose counters and total are its own.             *)
LEMMA OwnFiguresAddUp ==
  ASSUME NEW view \in Views, ShownCounts = Tally(view), CensusTotal = Cardinality(Seen(view))
  PROVE  AddsUp(getSDTCoverage)
BY SeenAddsUp DEF AddsUp, getSDTCoverage, TallyOf

(* Once a census has finished, the classes the window names make up its    *)
(* denominator, at every await and after any census cut off.               *)
THEOREM FiguresAddUp == Spec => []WholeCoverageAddsUp
<1>1. Init => CoverInv
  BY DEF Init, CoverInv, CensusFinished
<1>2. ASSUME TypeOK, TallyInv, CoverInv, Known, CensusFinished PROVE AddsUp(getSDTCoverage)
  <2>1. /\ observed \in Views /\ scanned \in Nat /\ total \in Nat
        /\ censusBuilding \in BOOLEAN /\ censusSnapshot.members \in Views
    BY <1>2 DEF TypeOK, ViewOK, Views, Snapshots
  <2>2. CASE Holding
    BY <1>2, <2>1, <2>2, OwnFiguresAddUp DEF CoverInv, TallyInv, SnapshotOneGeneration, ShownCounts, CensusTotal
  <2>3. CASE ~Holding
    <3>1. ShownCounts = counts /\ CensusTotal = scanned
      BY <1>2, <2>3 DEF Known, Complete, ShownCounts, CensusTotal
    <3>2. CASE censusBuilding
      BY <1>2, <2>1, <3>1, <3>2, OwnFiguresAddUp DEF CoverInv, CountsOneView
    <3>3. CASE ~censusBuilding
      BY <1>2, <2>1, <3>1, <3>3, OwnFiguresAddUp DEF TallyInv, CountsTally
    <3> QED BY <3>2, <3>3
  <2> QED BY <2>2, <2>3
<1>3. TypeOK /\ TallyInv /\ CoverInv => WholeCoverageAddsUp
  BY <1>2 DEF WholeCoverageAddsUp
<1> QED BY <1>1, <1>3, CensusInit, CutInvStep, TallyInvStep, CoverInvStep, TypeCorrect, PTL DEF Spec
=============================================================================
