----------------------- MODULE SDTNoLostChange_proofs -----------------------
(* No notified change is lost, for any library and any number of changes   *)
(* and pauses: the inductive invariant behind NoLostChange, and its proof. *)
EXTENDS SDTScheduler_proofs

(* A pump that outlived its switch leaves a census asked for.              *)
StaleAsks == Busy /\ enabled /\ token # epoch => reconciliationPending

(* What the pump has read and not yet recorded, or holds for the census.   *)
CensusPoints == {"listed", "walk", "walked", "close"}
RecordPoints == {"looked", "admit", "settle", "bury"}

Blank(info) == info = NoInfo \/ info.absent \/ info.status = Unexamined

InPumpHands(x) == pc \in RecordPoints \cup {"walked"} /\ doc = x

NeverSeen(x) ==
  /\ Blank(observed[x]) /\ Blank(next[x])
  /\ InPumpHands(x) => Blank(buf)

(* An attachment that is there and not in the parent map has never been    *)
(* seen, or only an inspection that threw, and neither has one not created *)
(* yet: an event that names only its record may leave it out.              *)
TrackedSeen ==
  \A x \in Docs : /\ lib[x].src = 0 => ~Exists(x)
                  /\ lib[x].src = 0 \/ (Exists(x) /\ x \notin tracked) => NeverSeen(x)

(* A census, or an event that names x itself, is to be attended to.        *)
AskedFor(x) ==
  \/ CensusAsked \/ x \in dirty \cup undelivered
  \/ pc \in {"list", "catch"} \/ (pc = "affected" /\ drained = x)
  \/ pc \in {"listed", "walk", "look"} /\ x \in todo
  \/ pc \in {"walked", "looked"} /\ x \in todo \ {doc}

Examined(x) ==
  /\ observed[x].status # Unexamined /\ next[x].status # Unexamined
  /\ InPumpHands(x) => buf.status # Unexamined

(* Where an event has named such an attachment after an inspection of it   *)
(* threw, what is left of that inspection will be corrected.               *)
Unlearnt(x) == Exists(x) /\ x \notin tracked /\ x \notin misread
NamedSince == \A x \in Docs : Unlearnt(x) => AskedFor(x) \/ Examined(x)

(* The census starts from an empty generation, and what it has just        *)
(* inspected is still to be put in it.                                     *)
GenerationOK ==
  /\ pc \in {"list", "listed"} => next = [x \in Ids |-> NoInfo]
  /\ pc = "walked" => doc \in todo
  /\ pc = "close" => todo = {}

(* While a census runs every attachment is either still to be read or      *)
(* rightly held in the next generation, whatever the old map says of it;   *)
(* an inspection about to be recorded is right, or will be corrected.      *)
Held(x) ==
  IF pc \in CensusPoints \/ (pc \in RecordPoints /\ doc = x)
  THEN Awaited(x) \/ InHand(x)
  ELSE Shows(x, observed[x]) \/ Awaited(x)

AllHeld == \A x \in Docs : Held(x)

ChangeInv == StaleAsks /\ TrackedSeen /\ NamedSince /\ GenerationOK /\ AllHeld

-----------------------------------------------------------------------------
(* A step that touches neither the library nor the parent map leaves what  *)
(* an inspection or an event would find as it was.                         *)
LEMMA SameLibrary ==
  ASSUME UNCHANGED <<lib, tracked>>
  PROVE  \A y : /\ Exists(y)' = Exists(y)
                /\ Inspect(y)' = Inspect(y)
                /\ Affected(y)' = Affected(y)
BY DEF Exists, Inspect, Affected, Children

(* An attachment the outside world leaves a status of is there.            *)
LEMMA LibStatusPresent == \A s \in LibStatuses : s # "absent"
BY ConstantsAssumption
   DEF InspectStatuses, Statuses, Indexed, Unindexed, Failed, Queued, OutOfScope

(* classify() keeps the word that a row is gone.                           *)
LEMMA ClassifyAbsent ==
  \A x, held, info : info.absent => Classify(x, info, held).absent
BY DEF Classify

(* ... and that nothing was found out.                                     *)
LEMMA ClassifyBlank ==
  \A x, held : \A info \in Infos \cup {NoInfo} :
    /\ Blank(info) => Blank(Classify(x, info, held))
    /\ info.status # Unexamined => Classify(x, info, held).status # Unexamined
<1> SUFFICES ASSUME NEW x, NEW held, NEW info \in Infos \cup {NoInfo}
             PROVE  /\ Blank(info) => Blank(Classify(x, info, held))
                    /\ info.status # Unexamined => Classify(x, info, held).status # Unexamined
  OBVIOUS
<1>1. CASE Classify(x, info, held) = info
  BY <1>1
<1>2. CASE info.status \in Queued
  <2>1. info \in Infos
    BY <1>2 DEF Queued, NoInfo
  <2>2. Classify(x, info, held).status # Unexamined
    BY <1>2, <2>1 DEF Classify, Unexamined, Queued, Infos
  <2>3. Blank(info) => info.absent
    BY <1>2 DEF Blank, Unexamined, Queued, NoInfo
  <2> QED BY <2>2, <2>3, ClassifyAbsent DEF Blank
<1> QED BY <1>1, <1>2 DEF Classify

(* An inspection says absent exactly of what is not there.                 *)
LEMMA InspectAbsent == \A y : Inspect(y).absent <=> ~Exists(y)
BY DEF Inspect

(* What a record() leaves of an attachment is right, or will be corrected, *)
(* if what the pump held for it was.                                       *)
LEMMA Recorded ==
  ASSUME TypeOK, AllHeld, NEW x \in Docs, pc \in RecordPoints,
         Record(doc, buf, failed'), UNCHANGED <<lib, misread>>,
         x # doc => \A i : <<x, i>> \in failed' <=> <<x, i>> \in failed
  PROVE  Shows(x, observed[x])' \/ Awaited(x)
<1>1. x \in Ids /\ doc \in Ids
  BY DEF Ids, TypeOK, InHandOK, RecordPoints, Settling
<1>2. Exists(x)' = Exists(x) /\ Inspect(x)' = Inspect(x)
  BY DEF Exists, Inspect
<1>3. CASE x = doc
  <2>1. SUFFICES ASSUME ~Awaited(x) PROVE Shows(x, observed[x])'
    OBVIOUS
  <2>2. BufCurrent(x)
    BY <1>3, <2>1 DEF AllHeld, Held, InHand, RecordPoints, CensusPoints
  <2>3. observed'[x] = IF buf.absent THEN NoInfo ELSE Classify(x, buf, failed')
    BY <1>1, <1>3 DEF Record, TypeOK, ViewOK
  <2>4. CASE SaysUnexamined(x, buf)
    BY <2>3, <2>4 DEF Shows, SaysUnexamined, Classify, Unexamined, Queued
  <2>5. CASE Exists(x) /\ ~SaysUnexamined(x, buf)
    <3>1. buf = Inspect(x) /\ ~buf.absent
      BY <2>2, <2>5, InspectAbsent DEF BufCurrent
    <3> QED BY <1>2, <2>3, <2>5, <3>1 DEF AgreesWith, Shows
  <2>6. CASE ~Exists(x) /\ ~SaysUnexamined(x, buf)
    BY <1>2, <2>2, <2>3, <2>6 DEF AgreesWith, Shows, BufCurrent
  <2> QED BY <2>4, <2>5, <2>6
<1>4. CASE x # doc
  <2>1. observed'[x] = observed[x]
    BY <1>1, <1>4 DEF Record, TypeOK, ViewOK
  <2>2. Classify(x, Inspect(x), failed') = Classify(x, Inspect(x), failed)
    BY <1>4 DEF Classify
  <2>3. Shows(x, observed[x]) \/ Awaited(x)
    BY <1>4 DEF AllHeld, Held, RecordPoints, CensusPoints
  <2> QED BY <1>2, <2>1, <2>2, <2>3 DEF AgreesWith, Shows, SaysUnexamined
<1> QED BY <1>3, <1>4

(* After an inspection its answer is right, or says that it threw.         *)
LEMMA LookRight ==
  ASSUME NEW y, Look(y)
  PROVE  /\ BufCurrent(y)' /\ doc' = y /\ UNCHANGED <<lib, undelivered>>
         /\ \A x : x # y => /\ (x \in tracked' <=> x \in tracked)
                           /\ (x \in silent' <=> x \in silent)
                           /\ (x \in misread' <=> x \in misread)
         /\ \A x : Exists(x)' = Exists(x) /\ Inspect(x)' = Inspect(x)
         /\ \A x, z : x # y => (x \in Affected(z)' <=> x \in Affected(z))
         /\ Exists(y)' /\ y \in Docs /\ y \notin misread' => y \in tracked'
<1>1. doc' = y /\ UNCHANGED <<lib, undelivered>>
  BY DEF Look
<1>2. \A x : x # y => /\ (x \in tracked' <=> x \in tracked)
                     /\ (x \in silent' <=> x \in silent)
                     /\ (x \in misread' <=> x \in misread)
  BY DEF Look, LookAnswers, LookThrows
<1>3. \A x : Exists(x)' = Exists(x) /\ Inspect(x)' = Inspect(x)
  BY <1>1 DEF Exists, Inspect
<1>4. \A x, z : x # y => (x \in Affected(z)' <=> x \in Affected(z))
  BY <1>2, <1>3 DEF Affected, Children
<1>5. BufCurrent(y)' /\ (Exists(y)' /\ y \in Docs /\ y \notin misread' => y \in tracked')
  <2>1. CASE LookAnswers(y)
    BY <1>3, <2>1 DEF LookAnswers, BufCurrent, Inspect
  <2>2. CASE LookThrows(y)
    BY <2>2 DEF LookThrows, InspectThrown, BufCurrent, SaysUnexamined
  <2> QED BY <2>1, <2>2 DEF Look
<1> QED BY <1>1, <1>2, <1>3, <1>4, <1>5

(* A pump that outlived its switch has a census to correct whatever it     *)
(* leaves.                                                                 *)
LEMMA StaleCorrected ==
  ASSUME ChangeInv, Busy, ~Current, UNCHANGED <<switch, reconciliationPending>>
  PROVE  CensusAsked' /\ \A x : Awaited(x)'
BY DEF ChangeInv, StaleAsks, Current, Awaited, CensusAsked, switch, tryVars

(* The steps that inspect: what each answers is in hand and right, and what *)
(* it does not inspect stays corrected.                                    *)
LEMMA Inspections ==
  ASSUME TypeOK, ChangeInv, NEW x \in Docs
  PROVE /\ WalkRead => Held(x)'
        /\ DrainLook => Held(x)'
        /\ AdmitLook => Held(x)'
        /\ SettleLook => Held(x)'
        /\ FailureLook => Held(x)'
<1> DEFINE Frame == UNCHANGED <<switch, deadline, dirty, session, observed, tryVars, walkVars, passVars>>
<1>0. x \in Ids
  BY DEF Ids
<1>1. ASSUME NEW y \in Ids, Look(y), Frame, pc' \in RecordPoints \cup {"walked", "autopsy"},
             pc' = "walked" <=> pc = "walk",
             pc \in {"look", "verify", "autopsy", "recheck", "walk"},
             pc \in {"verify", "autopsy"} => y = doc,
             pc \in {"walk", "look"} <=> pc' \in {"walked", "looked"}
      PROVE Held(x)'
  <2>1. CASE x = y
    <3>1. BufCurrent(x)' /\ doc' = x
      BY <1>1, <2>1, LookRight DEF BufCurrent
    <3> QED BY <1>1, <3>1 DEF Held, InHand, Awaited, PumpWillRead, RecordPoints,
         CensusPoints
  <2>2. CASE x # y
    <3>1. EventWaits(x)' <=> EventWaits(x)
      BY <1>1, <2>2, LookRight DEF EventWaits
    <3>2. Shows(x, observed[x])' <=> Shows(x, observed[x])
      BY <1>1, <2>2, LookRight DEF Shows, SaysUnexamined, AgreesWith, Classify, session
    <3>3. Shows(x, next[x])' <=> Shows(x, next[x])
      BY <1>1, <2>2, LookRight DEF Shows, SaysUnexamined, AgreesWith, Classify, session,
         walkVars
    <3>4. Held(x)
      BY DEF ChangeInv, AllHeld
    <3>5. x \in silent' <=> x \in silent
      BY <1>1, <2>2, LookRight
    <3>6. doc' = y
      BY <1>1, LookRight
    <3> QED BY <1>1, <2>2, <3>1, <3>2, <3>3, <3>4, <3>5, <3>6
         DEF Held, Awaited, CensusAsked, PumpWillRead, InHand, CensusPoints,
            RecordPoints, Settling, switch, deadline, walkVars
  <2> QED BY <2>1, <2>2
<1>2. ASSUME WalkRead PROVE Held(x)'
  <2>1. CASE Current
    <3>1. PICK y \in todo : Look(y) /\ pc' = "walked"
      BY <1>2, <2>1 DEF WalkRead, Abandon, Go
    <3>2. Frame /\ y \in Ids /\ pc = "walk"
      BY <1>2 DEF WalkRead, census, session, TypeOK, LocalsOK
    <3> QED BY <1>1, <3>1, <3>2 DEF RecordPoints
  <2>2. CASE ~Current
    BY <1>2, <2>2, StaleCorrected DEF WalkRead, Held, Busy, deadline
  <2> QED BY <2>1, <2>2
<1>3. ASSUME DrainLook PROVE Held(x)'
  <2>1. CASE Current
    <3>1. PICK y \in todo : Look(y) /\ pc' = "looked"
      BY <1>3, <2>1 DEF DrainLook, Requeue, Go
    <3>2. Frame /\ y \in Ids /\ pc = "look"
      BY <1>3, <2>1 DEF DrainLook, Requeue, census, session, TypeOK, LocalsOK
    <3> QED BY <1>1, <3>1, <3>2 DEF RecordPoints
  <2>2. CASE ~Current
    BY <1>3, <2>2, StaleCorrected DEF DrainLook, Held, Busy, deadline
  <2> QED BY <2>1, <2>2
<1>4. ASSUME AdmitLook PROVE Held(x)'
  <2>1. Look(doc) /\ Frame /\ doc \in Ids /\ pc = "recheck" /\ pc' = "admit"
    BY <1>4 DEF AdmitLook, Go, census, session, TypeOK, InHandOK
  <2> QED BY <1>1, <2>1 DEF RecordPoints
<1>5. ASSUME SettleLook PROVE Held(x)'
  <2>1. Look(doc) /\ Frame /\ doc \in Ids /\ pc = "verify" /\ pc' \in {"settle", "autopsy"}
    BY <1>5 DEF SettleLook, Go, census, session, TypeOK, InHandOK, Settling
  <2> QED BY <1>1, <2>1 DEF RecordPoints
<1>6. ASSUME FailureLook PROVE Held(x)'
  <2>1. Look(doc) /\ Frame /\ doc \in Ids /\ pc = "autopsy" /\ pc' = "bury"
    BY <1>6 DEF FailureLook, Go, census, session, TypeOK, InHandOK, Settling
  <2> QED BY <1>1, <2>1 DEF RecordPoints
<1> QED BY <1>2, <1>3, <1>4, <1>5, <1>6

-----------------------------------------------------------------------------
(* Steps that neither read nor record: whatever was to correct an          *)
(* observation still is, or was its census, which is now being read.       *)
LEMMA QuietSteps ==
  ASSUME TypeOK, ChangeInv, NEW x \in Docs
  PROVE /\ PumpStart => Held(x)'
        /\ BeginCensus => Held(x)'
        /\ LoopTop => Held(x)'
        /\ HostThrows => Held(x)'
        /\ DrainBegin => Held(x)'
        /\ DrainTake => Held(x)'
        /\ DrainEnd => Held(x)'
        /\ DrainExpand => Held(x)'
        /\ DrainRetire => Held(x)'
        /\ ChooseCandidate => Held(x)'
        /\ NoCandidate => Held(x)'
        /\ AdmitAbandon => Held(x)'
        /\ GateOpen => Held(x)'
        /\ GateShut => Held(x)'
        /\ EnsureReturns => Held(x)'
        /\ PumpCatch => Held(x)'
        /\ PumpReturn => Held(x)'
        /\ Stop => Held(x)'
        /\ Start => Held(x)'
        /\ HourPasses => Held(x)'
<1>20. ASSUME Stop PROVE Held(x)'
  BY <1>20 DEF Stop, Held, Awaited, CensusAsked
<1>21. ASSUME Start PROVE Held(x)'
  BY <1>21 DEF Start, Held, Awaited, CensusAsked
<1> USE SameLibrary DEF Held, Awaited, CensusAsked, CensusDue, EventWaits,
     PumpWillRead,
      InHand, CensusPoints, RecordPoints, Settling, Current, Busy, Go, Abandon,
      switch, deadline, session, census, readVars, tryVars, passVars, walkVars, library,
      Pump_unchanged
<1>1. Held(x) /\ StaleAsks
  BY DEF ChangeInv, AllHeld
<1>2. ASSUME UNCHANGED <<lib, tracked, misread, failed>>
      PROVE  \A i : Shows(x, i)' <=> Shows(x, i)
  BY <1>2 DEF Shows, SaysUnexamined, AgreesWith, Classify
<1>3. ASSUME PumpStart PROVE Held(x)'
  BY <1>1, <1>2, <1>3 DEF PumpStart
<1>4. ASSUME BeginCensus PROVE Held(x)'
  BY <1>1, <1>2, <1>4 DEF BeginCensus
<1>5. ASSUME LoopTop PROVE Held(x)'
  BY <1>1, <1>2, <1>5 DEF LoopTop, StaleAsks
<1>6. ASSUME HostThrows PROVE Held(x)'
  BY <1>1, <1>2, <1>6 DEF HostThrows
<1>7. ASSUME DrainBegin PROVE Held(x)'
  BY <1>1, <1>2, <1>7 DEF DrainBegin
<1>8. ASSUME DrainTake PROVE Held(x)'
  BY <1>1, <1>2, <1>8 DEF DrainTake
<1>9. ASSUME DrainEnd PROVE Held(x)'
  BY <1>1, <1>2, <1>9 DEF DrainEnd
<1>10. ASSUME DrainExpand PROVE Held(x)'
  BY <1>1, <1>2, <1>10 DEF DrainExpand
<1>11. ASSUME DrainRetire PROVE Held(x)'
  BY <1>1, <1>2, <1>11 DEF DrainRetire, Requeue, StaleAsks
<1>12. ASSUME ChooseCandidate PROVE Held(x)'
  BY <1>1, <1>2, <1>12 DEF ChooseCandidate
<1>13. ASSUME NoCandidate PROVE Held(x)'
  BY <1>1, <1>2, <1>13 DEF NoCandidate
<1>14. ASSUME AdmitAbandon PROVE Held(x)'
  BY <1>1, <1>2, <1>14 DEF AdmitAbandon, StaleAsks
<1>15. ASSUME GateOpen PROVE Held(x)'
  BY <1>1, <1>2, <1>15 DEF GateOpen
<1>16. ASSUME GateShut PROVE Held(x)'
  BY <1>1, <1>2, <1>16 DEF GateShut, Dismiss, Forget
<1>17. ASSUME EnsureReturns PROVE Held(x)'
  BY <1>1, <1>2, <1>17 DEF EnsureReturns
<1>18. ASSUME PumpCatch PROVE Held(x)'
  BY <1>1, <1>2, <1>18 DEF PumpCatch
<1>19. ASSUME PumpReturn PROVE Held(x)'
  BY <1>1, <1>2, <1>19 DEF PumpReturn, StaleAsks
<1>22. ASSUME HourPasses PROVE Held(x)'
  BY <1>1, <1>2, <1>22 DEF HourPasses, BufCurrent, SaysUnexamined
<1> QED BY <1>3, <1>4, <1>5, <1>6, <1>7, <1>8, <1>9, <1>10, <1>11, <1>12, <1>13,
     <1>14, <1>15, <1>16, <1>17, <1>18, <1>19, <1>20, <1>21, <1>22

-----------------------------------------------------------------------------
(* The census: what is read goes into the next generation, which replaces  *)
(* the old one whole.                                                      *)
LEMMA CensusSteps ==
  ASSUME TypeOK, ChangeInv, NEW x \in Docs
  PROVE /\ ListRead => Held(x)'
        /\ Listed => Held(x)'
        /\ WalkRecord => Held(x)'
        /\ CensusClose => Held(x)'
<1>1. x \in Ids /\ Held(x)
  BY DEF Ids, ChangeInv, AllHeld
<1>2. ASSUME ~Current, Busy, UNCHANGED <<switch, reconciliationPending>> PROVE Held(x)'
  BY <1>2, StaleCorrected DEF Held
<1>3. ASSUME UNCHANGED <<lib, tracked, misread, failed>>
      PROVE  \A i : Shows(x, i)' <=> Shows(x, i)
  BY <1>3, SameLibrary DEF Shows, SaysUnexamined, AgreesWith, Classify
<1>4. ASSUME ListRead PROVE Held(x)'
  <2>1. UNCHANGED <<lib, tracked, failed>> /\ next' = [y \in Ids |-> NoInfo]
    BY <1>4 DEF ListRead, library, readVars, session, ChangeInv, GenerationOK
  <2>2. CASE Exists(x)
    BY <1>4, <2>2 DEF ListRead, Held, Awaited, PumpWillRead, Go
  <2>3. CASE ~Exists(x)
    <3>1. next'[x] = NoInfo /\ ~Exists(x)'
      BY <1>1, <2>1, <2>3, SameLibrary
    <3>2. x \notin todo' /\ pc' = "listed"
      BY <1>1, <1>4, <2>3 DEF ListRead, Go
    <3> QED BY <3>1, <3>2 DEF Held, InHand, Shows, AgreesWith, CensusPoints
  <2> QED BY <2>2, <2>3
<1>5. ASSUME Listed PROVE Held(x)'
  <2>1. CASE Current
    <3>1. UNCHANGED <<lib, tracked, misread, failed, silent, undelivered, dirty, switch, deadline, todo, next>>
          /\ pc = "listed" /\ pc' = (IF todo = {} THEN "close" ELSE "walk")
      BY <1>5, <2>1 DEF Listed, library, readVars, session, walkVars, Abandon, Go
    <3>2. EventWaits(x)' <=> EventWaits(x)
      BY <3>1, SameLibrary DEF EventWaits
    <3>3. Shows(x, next[x])' <=> Shows(x, next[x])
      BY <3>1, SameLibrary DEF Shows, SaysUnexamined, AgreesWith, Classify
    <3> QED BY <1>1, <3>1, <3>2, <3>3
         DEF Held, Awaited, CensusAsked, PumpWillRead, InHand, CensusPoints, Settling,
            switch, deadline
  <2> QED BY <1>2, <1>5, <2>1 DEF Listed, Busy, deadline
<1>6. ASSUME WalkRecord PROVE Held(x)'
  <2>1. CASE Current
    <3>1. UNCHANGED <<lib, tracked, misread, failed, silent, undelivered, dirty, switch, deadline>>
          /\ pc = "walked" /\ pc' = (IF todo' = {} THEN "close" ELSE "walk")
          /\ todo' = todo \ {doc} /\ doc \in todo /\ doc \in Ids
      BY <1>6, <2>1 DEF WalkRecord, Forget, library, readVars, session, Abandon, Go, TypeOK,
         InHandOK,
         ChangeInv, GenerationOK
    <3>2. EventWaits(x)' <=> EventWaits(x)
      BY <3>1, SameLibrary DEF EventWaits
    <3>3. Awaited(x) => Awaited(x)'
      BY <3>1, <3>2 DEF Awaited, CensusAsked, PumpWillRead, Settling, switch, deadline
    <3>4. next' = [next EXCEPT ![doc] = Classify(doc, buf, failed)]
      BY <1>6, <2>1 DEF WalkRecord, Abandon
    <3>5. CASE x # doc
      <4>1. next'[x] = next[x]
        BY <1>1, <3>4, <3>5 DEF TypeOK, LocalsOK
      <4>2. Shows(x, next[x])' <=> Shows(x, next[x])
        BY <3>1, <4>1, SameLibrary DEF Shows, SaysUnexamined, AgreesWith, Classify
      <4> QED BY <1>1, <3>1, <3>3, <3>5, <4>2 DEF Held, InHand, CensusPoints
    <3>6. CASE x = doc
      <4>1. next'[x] = Classify(x, buf, failed)
        BY <1>1, <3>4, <3>6 DEF TypeOK, LocalsOK
      <4>2. ASSUME BufCurrent(x) PROVE Shows(x, next[x])'
        <5>1. CASE SaysUnexamined(x, buf)
          BY <3>1, <4>1, <5>1 DEF Shows, SaysUnexamined, Classify, Unexamined, Queued
        <5>2. CASE Exists(x) /\ ~SaysUnexamined(x, buf)
          BY <3>1, <4>1, <4>2, <5>2, SameLibrary DEF BufCurrent, Shows, AgreesWith, Classify
        <5>3. CASE ~Exists(x) /\ ~SaysUnexamined(x, buf)
          BY <3>1, <4>1, <4>2, <5>3, SameLibrary, ClassifyAbsent DEF BufCurrent, Shows,
             AgreesWith
        <5> QED BY <5>1, <5>2, <5>3
      <4> QED BY <1>1, <3>1, <3>3, <3>6, <4>2 DEF Held, InHand, CensusPoints
    <3> QED BY <3>5, <3>6
  <2> QED BY <1>2, <1>6, <2>1 DEF WalkRecord, Busy, deadline
<1>7. ASSUME CensusClose PROVE Held(x)'
  <2>1. CASE Current
    <3>1. UNCHANGED <<lib, tracked, misread, failed, silent, undelivered, dirty, switch, reconciliationPending>>
          /\ pc = "close" /\ pc' = "drain" /\ observed' = next
      BY <1>7, <2>1 DEF CensusClose, library, readVars, session, Abandon, Go
    <3>2. EventWaits(x)' <=> EventWaits(x)
      BY <3>1, SameLibrary DEF EventWaits
    <3>3. Shows(x, observed[x])' <=> Shows(x, next[x])
      BY <3>1, SameLibrary DEF Shows, SaysUnexamined, AgreesWith, Classify
    <3> QED BY <1>1, <3>1, <3>2, <3>3
         DEF Held, Awaited, CensusAsked, PumpWillRead, InHand, CensusPoints,
            RecordPoints, Settling, switch
  <2> QED BY <1>2, <1>7, <2>1 DEF CensusClose, Busy, deadline
<1> QED BY <1>4, <1>5, <1>6, <1>7

-----------------------------------------------------------------------------
(* The records: what the pump had in hand becomes what the sitter shows.   *)
LEMMA RecordSteps ==
  ASSUME TypeOK, ChangeInv, NEW x \in Docs
  PROVE /\ DrainRecord => Held(x)'
        /\ AdmitSkip => Held(x)'
        /\ AdmitMoved => Held(x)'
        /\ AdmitWorkerBusy => Held(x)'
        /\ Submit => Held(x)'
        /\ SettleSuccess => Held(x)'
        /\ SettleFailure => Held(x)'
<1> DEFINE Frame == UNCHANGED <<lib, tracked, misread, silent, undelivered, switch, deadline>>
                    /\ dirty \subseteq dirty'
<1> DEFINE SameFailed == x # doc => \A i : <<x, i>> \in failed' <=> <<x, i>> \in failed
<1>1. AllHeld
  BY DEF ChangeInv
<1>2. ASSUME Frame, pc \in RecordPoints, pc' \notin CensusPoints \cup RecordPoints,
             Record(doc, buf, failed'), SameFailed,
             pc = "looked" => /\ pc' \in {"look", "refresh"}
                              /\ todo' = todo \ {doc} /\ (pc' = "refresh" => todo' = {})
      PROVE Held(x)'
  <2>1. Shows(x, observed[x])' \/ Awaited(x)
    BY <1>1, <1>2, Recorded
  <2>2. EventWaits(x) => EventWaits(x)'
    BY <1>2, SameLibrary DEF EventWaits
  <2>3. Awaited(x) => Awaited(x)'
    BY <1>2, <2>2 DEF Awaited, CensusAsked, PumpWillRead, RecordPoints, switch,
       deadline
  <2> QED BY <1>2, <2>1, <2>3 DEF Held
<1>3. ASSUME DrainRecord PROVE Held(x)'
  <2>1. CASE Current
    <3>1. Frame /\ pc = "looked" /\ Record(doc, buf, failed) /\ failed' = failed
      BY <1>3, <2>1 DEF DrainRecord, Forget, Requeue, library, readVars, session
    <3>2. todo' = todo \ {doc} /\ pc' = (IF todo' = {} THEN "refresh" ELSE "look")
      BY <1>3, <2>1 DEF DrainRecord, Requeue, Go
    <3> QED BY <1>2, <3>1, <3>2 DEF RecordPoints, CensusPoints
  <2> QED BY <1>3, <2>1, StaleCorrected DEF DrainRecord, Held, Busy, deadline
<1>4. ASSUME AdmitRecord, tracked' = tracked, pc' \in {"top", "exit", "ensure"} PROVE Held(x)'
  <2>1. Frame /\ pc = "admit" /\ Record(doc, buf, failed) /\ failed' = failed
    BY <1>4 DEF AdmitRecord, Dismiss, Forget, library, readVars
  <2> QED BY <1>2, <1>4, <2>1 DEF RecordPoints, CensusPoints
<1>5. ASSUME SettleSuccess PROVE Held(x)'
  <2>1. Frame /\ pc = "settle" /\ pc' = "top" /\ Record(doc, buf, failed) /\ failed' = failed
    BY <1>5 DEF SettleSuccess, Dismiss, Forget, library, readVars, session, Go
  <2> QED BY <1>2, <2>1 DEF RecordPoints, CensusPoints
<1>6. ASSUME SettleFailure PROVE Held(x)'
  <2>1. Frame /\ pc = "bury" /\ pc' = "top" /\ Record(doc, buf, failed') /\ SameFailed
    BY <1>6 DEF SettleFailure, Dismiss, Forget, library, readVars, Go
  <2> QED BY <1>2, <2>1 DEF RecordPoints, CensusPoints
<1> QED BY <1>3, <1>4, <1>5, <1>6 DEF AdmitSkip, AdmitMoved, AdmitWorkerBusy, Submit,
     Dismiss, Forget, readVars, Go

-----------------------------------------------------------------------------
(* The world: a change comes with an event, or is silent.                  *)
LEMMA WorldSteps ==
  ASSUME TypeOK, ChangeInv, NEW x \in Docs
  PROVE /\ EnsurePersists => Held(x)'
        /\ Notify => Held(x)'
        /\ AttachmentChanges => Held(x)'
        /\ AttachmentAdded => Held(x)'
        /\ AttachmentErased => Held(x)'
        /\ RecordGoes => Held(x)'
<1> DEFINE Frame == UNCHANGED <<switch, deadline, pc, failed, observed, tryVars, walkVars,
                                drained, readVars>>
<1>1. x \in Ids /\ Held(x) /\ lib \in [Ids -> Items]
  BY DEF Ids, ChangeInv, AllHeld, TypeOK, LibraryOK
<1>2. ASSUME Frame, Awaited(x) => Awaited(x)', lib'[x] = lib[x],
             x \in misread' <=> x \in misread
      PROVE  Held(x)'
  <2>1. /\ Exists(x)' <=> Exists(x)
        /\ Inspect(x)' = Inspect(x)
    BY <1>2 DEF Exists, Inspect
  <2>2. \A i : Shows(x, i)' <=> Shows(x, i)
    BY <1>2, <2>1 DEF Shows, SaysUnexamined, AgreesWith, Classify
  <2>3. BufCurrent(x)' <=> BufCurrent(x)
    BY <1>2, <2>1 DEF BufCurrent, SaysUnexamined, readVars
  <2> QED BY <1>1, <1>2, <2>1, <2>2, <2>3 DEF Held, InHand, readVars, walkVars
<1>3. ASSUME Frame, x \in silent', silent \subseteq silent' PROVE Held(x)'
  BY <1>3 DEF Held, Awaited
<1>4. ASSUME x \in undelivered' PROVE Held(x)'
  BY <1>4 DEF Held, Awaited, EventWaits, Affected
<1>5. ASSUME Frame, UNCHANGED dirty, undelivered \subseteq undelivered', silent \subseteq silent',
             \A y \in Ids : x \in Affected(y) => x \in Affected(y)'
      PROVE  Awaited(x) => Awaited(x)'
  BY <1>5 DEF Awaited, CensusAsked, EventWaits, PumpWillRead, switch, deadline,
     readVars, walkVars,
     TypeOK, LibraryOK, SwitchOK, InHandOK
<1>6. ASSUME Notify PROVE Held(x)'
  <2>1. Frame /\ UNCHANGED <<lib, tracked, silent, misread>>
    BY <1>6 DEF Notify, Pump_unchanged, session, census, readVars, passVars
  <2>2. EventWaits(x) => EventWaits(x)' \/ ~enabled
    BY <1>6, <2>1, SameLibrary DEF Notify, EventWaits
  <2>3. PumpWillRead(x)' <=> PumpWillRead(x)
    BY <2>1, SameLibrary DEF PumpWillRead, readVars, walkVars
  <2>4. Awaited(x) => Awaited(x)'
    BY <2>1, <2>2, <2>3 DEF Awaited, CensusAsked, switch, deadline
  <2> QED BY <1>2, <2>1, <2>4
<1>7. ASSUME EnsurePersists PROVE Held(x)'
  <2>1. /\ UNCHANGED <<silent, misread, undelivered, dirty, switch, deadline, failed, observed,
                       readVars>>
        /\ pc = "ensure" /\ pc' \in {"verify", "autopsy"} /\ doc \in Ids
    BY <1>7 DEF EnsurePersists, Go, session, census, TypeOK, InHandOK, Settling
  <2>2. PICK s \in Verified : lib' = [lib EXCEPT ![doc].status = s]
    BY <1>7 DEF EnsurePersists
  <2>3. CASE x = doc
    BY <2>1, <2>3 DEF Held, Awaited, PumpWillRead, readVars
  <2>4. CASE x # doc
    <3>1. lib'[x] = lib[x]
      BY <1>1, <2>1, <2>2, <2>4
    <3>2. \A y \in Ids : Exists(y)' <=> Exists(y)
      BY <1>1, <1>7, <2>1, <2>2 DEF EnsurePersists, Exists, Queued, Verified
    <3>3. EventWaits(x) => EventWaits(x)'
      BY <2>1, <3>2 DEF EventWaits, Affected, Children, Ids, readVars, TypeOK,
         LibraryOK, SwitchOK
    <3>4. Shows(x, observed[x])' <=> Shows(x, observed[x])
      BY <2>1, <3>1 DEF Shows, SaysUnexamined, AgreesWith, Exists, Inspect, Classify
    <3> QED BY <1>1, <2>1, <2>4, <3>3, <3>4
         DEF Held, Awaited, CensusAsked, PumpWillRead, CensusPoints, RecordPoints,
            switch, deadline, readVars
  <2> QED BY <2>3, <2>4
<1>8. ASSUME AttachmentChanges PROVE Held(x)'
  <2>1. PICK d \in Docs, s \in LibStatuses, rewritten \in {0, 1}, dir \in Dirs :
          /\ Exists(d)
          /\ lib' = [lib EXCEPT ![d] = [status |-> s, src |-> @.src + rewritten, dir |-> dir]]
          /\ \/ Event(d)
             \/ silent' = silent \cup {d} /\ UNCHANGED <<undelivered, misread>>
    BY <1>8 DEF AttachmentChanges
  <2>2. Frame /\ UNCHANGED dirty
    BY <1>8 DEF AttachmentChanges, Outside, Pump_unchanged, session, census, passVars
  <2>3. CASE x = d
    BY <1>3, <1>4, <2>1, <2>2, <2>3 DEF Event
  <2>4. CASE x # d
    <3>1. lib'[x] = lib[x]
      BY <1>1, <2>1, <2>4 DEF Ids
    <3>2. \A y \in Ids : Exists(y)' <=> Exists(y)
      BY <1>1, <2>1, ConstantsAssumption DEF Exists, Ids, InspectStatuses, Statuses,
         Indexed,
         Unindexed, Failed, Queued, OutOfScope
    <3>3. \A y \in Ids : x \in Affected(y) => x \in Affected(y)'
      BY <2>2, <3>2 DEF Affected, Children, Ids, readVars
    <3> QED BY <1>2, <1>5, <2>1, <2>2, <2>4, <3>1, <3>3 DEF Event
  <2> QED BY <2>3, <2>4
<1>9. ASSUME AttachmentAdded PROVE Held(x)'
  <2>1. PICK d \in Docs, s \in LibStatuses :
          /\ ~Exists(d)
          /\ lib' = [lib EXCEPT ![d].status = s, ![d].src = 1]
          /\ Event(d)
    BY <1>9 DEF AttachmentAdded
  <2>2. Frame /\ UNCHANGED <<dirty, silent>>
    BY <1>9 DEF AttachmentAdded, Event, Outside, Pump_unchanged, session, census, passVars
  <2>3. CASE x # d
    <3>1. lib'[x] = lib[x]
      BY <1>1, <2>1, <2>3 DEF Ids
    <3>2. \A y \in Ids : y # d => (Exists(y)' <=> Exists(y))
      BY <1>1, <2>1 DEF Exists, Ids
    <3>3. \A y \in Ids : x \in Affected(y) => x \in Affected(y)'
      BY <2>1, <2>2, <2>3, <3>2 DEF Affected, Children, Ids, readVars
    <3> QED BY <1>2, <1>5, <2>1, <2>2, <2>3, <3>1, <3>3 DEF Event
  <2> QED BY <1>4, <2>1, <2>3 DEF Event
<1>10. ASSUME AttachmentErased PROVE Held(x)'
  <2>1. PICK d \in Docs : /\ Exists(d)
                          /\ lib' = [lib EXCEPT ![d].status = "absent"]
                          /\ Event(d)
    BY <1>10 DEF AttachmentErased
  <2>2. Frame /\ UNCHANGED <<dirty, silent>>
    BY <1>10 DEF AttachmentErased, Event, Outside, Pump_unchanged, session, census, passVars
  <2>3. CASE x # d
    <3>1. lib'[x] = lib[x]
      BY <1>1, <2>1, <2>3 DEF Ids
    <3>2. \A y \in Ids : y # d => (Exists(y)' <=> Exists(y))
      BY <1>1, <2>1 DEF Exists, Ids
    <3>3. \A y \in Ids : x \in Affected(y) => x \in Affected(y)'
      BY <2>1, <2>2, <2>3, <3>2 DEF Affected, Children, Ids, readVars
    <3> QED BY <1>2, <1>5, <2>1, <2>2, <2>3, <3>1, <3>3 DEF Event
  <2> QED BY <1>4, <2>1, <2>3 DEF Event
<1>11. ASSUME RecordGoes PROVE Held(x)'
  <2>1. PICK r \in Recs, s \in {"excluded", "absent"} :
          /\ Exists(r)
          /\ lib' = [y \in Ids |->
                     IF (y = r /\ s = "absent") \/ (y \in Docs /\ ParentOf[y] = r /\ Exists(y))
                     THEN [lib[y] EXCEPT !.status = s] ELSE lib[y]]
          /\ Event(r)
    BY <1>11 DEF RecordGoes
  <2>2. Frame /\ UNCHANGED <<dirty, silent>>
    BY <1>11 DEF RecordGoes, Event, Outside, Pump_unchanged, session, census, passVars
  <2>3. x # r
    BY <2>1, ConstantsAssumption
  <2>4. CASE ~(ParentOf[x] = r /\ Exists(x))
    <3>1. lib'[x] = lib[x]
      BY <1>1, <2>1, <2>3, <2>4
    <3>2. Exists(x)' <=> Exists(x)
      BY <3>1 DEF Exists
    <3>3. \A y \in Ids : Exists(y)' => Exists(y)
      BY <1>1, <2>1 DEF Exists
    <3>4. \A y \in Ids : x \in Affected(y) => x \in Affected(y)'
      BY <2>2, <3>2, <3>3 DEF Affected, Children, Ids, readVars
    <3> QED BY <1>2, <1>5, <2>1, <2>2, <2>3, <3>1, <3>4 DEF Event
  <2>5. CASE ParentOf[x] = r /\ Exists(x)
    <3>1. lib'[x].status = s
      BY <1>1, <2>1, <2>5 DEF Items
    <3>2. CASE s = "excluded" \/ x \in tracked
      <4>1. x \in Affected(r)'
        BY <2>2, <2>5, <3>1, <3>2 DEF Affected, Children, Exists, readVars
      <4> QED BY <2>1, <4>1 DEF Event, Held, Awaited, EventWaits
    <3>3. CASE s = "absent" /\ x \notin tracked
      <4>1. ~Exists(x)'
        BY <3>1, <3>3 DEF Exists
      <4>2. CASE AskedFor(x)
        BY <1>5, <2>1, <2>2, <2>3, <4>2 DEF Event, AskedFor, Held, Awaited, CensusAsked,
           EventWaits, PumpWillRead, Affected, switch, deadline, walkVars, readVars
      <4>3. CASE x \in misread \/ Examined(x)
        <5>1. NeverSeen(x) /\ UNCHANGED <<pc, doc, buf, todo, next, observed>>
              /\ (x \in misread' <=> x \in misread)
          BY <2>1, <2>2, <2>3, <2>5, <3>3
             DEF Event, ChangeInv, TrackedSeen, readVars, walkVars
        <5>2. \A i : Blank(i) /\ (i.status = Unexamined => x \in misread) => Shows(x, i)'
          BY <4>1, <5>1 DEF Blank, Shows, SaysUnexamined, AgreesWith
        <5>3. Shows(x, observed[x])' /\ Shows(x, next[x])'
          BY <4>3, <5>1, <5>2 DEF NeverSeen, Examined
        <5>4. InPumpHands(x) => BufCurrent(x)'
          <6>1. SUFFICES ASSUME InPumpHands(x) PROVE BufCurrent(x)'
            OBVIOUS
          <6>2. buf \in Infos
            BY <6>1 DEF InPumpHands, TypeOK, InHandOK, RecordPoints, Settling
          <6>3. buf.absent \/ (buf.status = Unexamined /\ x \in misread)
            <7>1. buf # NoInfo
              BY <6>2 DEF NoInfo, Infos, Statuses, Indexed, Unindexed, Failed, Queued,
                 OutOfScope
            <7> QED BY <4>3, <5>1, <6>1, <7>1 DEF NeverSeen, Examined, Blank
          <6> QED BY <4>1, <5>1, <6>3 DEF BufCurrent, SaysUnexamined
        <5>5. CASE pc \in CensusPoints
          <6>1. CASE doc = x /\ pc = "walked"
            BY <5>1, <5>4, <6>1 DEF Held, InHand, InPumpHands, CensusPoints
          <6>2. CASE x \in todo /\ ~(doc = x /\ pc = "walked")
            BY <5>1, <5>5, <6>2 DEF Held, Awaited, PumpWillRead, InHand, CensusPoints,
               ChangeInv, GenerationOK
          <6>3. CASE x \notin todo
            BY <5>1, <5>3, <5>5, <6>3 DEF Held, InHand, CensusPoints
          <6> QED BY <6>1, <6>2, <6>3
        <5>6. CASE pc \in RecordPoints /\ doc = x
          BY <5>1, <5>4, <5>6 DEF Held, InHand, InPumpHands, RecordPoints
        <5> QED BY <5>1, <5>3, <5>5, <5>6 DEF Held
      <4> QED BY <2>5, <3>3, <4>2, <4>3 DEF ChangeInv, NamedSince, Unlearnt
    <3> QED BY <2>1, <3>2, <3>3
  <2> QED BY <2>4, <2>5
<1> QED BY <1>6, <1>7, <1>8, <1>9, <1>10, <1>11

-----------------------------------------------------------------------------
(* The rest of the invariant.                                              *)
LEMMA StaleAsksStep ==
  ASSUME ChangeInv, Next PROVE StaleAsks'
<1> USE DEF StaleAsks, Busy, Current, Go, Abandon, switch, deadline, tryVars,
     Pump_unchanged
<1>1. StaleAsks
  BY DEF ChangeInv
<1>2. ASSUME PumpStart PROVE StaleAsks'
  BY <1>1, <1>2 DEF PumpStart
<1>3. ASSUME BeginCensus PROVE StaleAsks'
  BY <1>1, <1>3 DEF BeginCensus
<1>4. ASSUME LoopTop PROVE StaleAsks'
  BY <1>1, <1>4 DEF LoopTop
<1>5. ASSUME ListRead PROVE StaleAsks'
  BY <1>1, <1>5 DEF ListRead
<1>6. ASSUME Listed PROVE StaleAsks'
  BY <1>1, <1>6 DEF Listed
<1>7. ASSUME WalkRead PROVE StaleAsks'
  BY <1>1, <1>7 DEF WalkRead
<1>8. ASSUME WalkRecord PROVE StaleAsks'
  BY <1>1, <1>8 DEF WalkRecord
<1>9. ASSUME CensusClose PROVE StaleAsks'
  BY <1>1, <1>9 DEF CensusClose
<1>10. ASSUME DrainBegin PROVE StaleAsks'
  BY <1>1, <1>10 DEF DrainBegin
<1>11. ASSUME DrainTake PROVE StaleAsks'
  BY <1>1, <1>11 DEF DrainTake
<1>12. ASSUME DrainEnd PROVE StaleAsks'
  BY <1>1, <1>12 DEF DrainEnd
<1>13. ASSUME DrainExpand PROVE StaleAsks'
  BY <1>1, <1>13 DEF DrainExpand
<1>14. ASSUME DrainLook PROVE StaleAsks'
  BY <1>1, <1>14 DEF DrainLook, Requeue
<1>15. ASSUME DrainRecord PROVE StaleAsks'
  BY <1>1, <1>15 DEF DrainRecord, Requeue
<1>16. ASSUME DrainRetire PROVE StaleAsks'
  BY <1>1, <1>16 DEF DrainRetire, Requeue
<1>17. ASSUME ChooseCandidate PROVE StaleAsks'
  BY <1>1, <1>17 DEF ChooseCandidate
<1>18. ASSUME NoCandidate PROVE StaleAsks'
  BY <1>1, <1>18 DEF NoCandidate
<1>19. ASSUME AdmitAbandon PROVE StaleAsks'
  BY <1>1, <1>19 DEF AdmitAbandon
<1>20. ASSUME GateOpen PROVE StaleAsks'
  BY <1>1, <1>20 DEF GateOpen
<1>21. ASSUME GateShut PROVE StaleAsks'
  BY <1>1, <1>21 DEF GateShut
<1>22. ASSUME AdmitLook PROVE StaleAsks'
  BY <1>1, <1>22 DEF AdmitLook
<1>23. ASSUME AdmitSkip PROVE StaleAsks'
  BY <1>1, <1>23 DEF AdmitSkip, AdmitRecord
<1>24. ASSUME AdmitMoved PROVE StaleAsks'
  BY <1>1, <1>24 DEF AdmitMoved, AdmitRecord
<1>25. ASSUME AdmitWorkerBusy PROVE StaleAsks'
  BY <1>1, <1>25 DEF AdmitWorkerBusy, AdmitRecord
<1>26. ASSUME Submit PROVE StaleAsks'
  BY <1>1, <1>26 DEF Submit, AdmitRecord
<1>27. ASSUME EnsurePersists PROVE StaleAsks'
  BY <1>1, <1>27 DEF EnsurePersists
<1>28. ASSUME EnsureReturns PROVE StaleAsks'
  BY <1>1, <1>28 DEF EnsureReturns
<1>29. ASSUME SettleLook PROVE StaleAsks'
  BY <1>1, <1>29 DEF SettleLook
<1>30. ASSUME SettleSuccess PROVE StaleAsks'
  BY <1>1, <1>30 DEF SettleSuccess
<1>31. ASSUME FailureLook PROVE StaleAsks'
  BY <1>1, <1>31 DEF FailureLook
<1>32. ASSUME SettleFailure PROVE StaleAsks'
  BY <1>1, <1>32 DEF SettleFailure
<1>33. ASSUME HostThrows PROVE StaleAsks'
  BY <1>1, <1>33 DEF HostThrows
<1>34. ASSUME PumpCatch PROVE StaleAsks'
  BY <1>1, <1>34 DEF PumpCatch
<1>35. ASSUME PumpReturn PROVE StaleAsks'
  BY <1>1, <1>35 DEF PumpReturn
<1>36. ASSUME Stop PROVE StaleAsks'
  BY <1>1, <1>36 DEF Stop
<1>37. ASSUME Start PROVE StaleAsks'
  BY <1>1, <1>37 DEF Start
<1>38. ASSUME HourPasses PROVE StaleAsks'
  BY <1>1, <1>38 DEF HourPasses
<1>39. ASSUME Notify PROVE StaleAsks'
  BY <1>1, <1>39 DEF Notify
<1>40. ASSUME AttachmentChanges PROVE StaleAsks'
  BY <1>1, <1>40 DEF AttachmentChanges, Outside
<1>41. ASSUME AttachmentAdded PROVE StaleAsks'
  BY <1>1, <1>41 DEF AttachmentAdded, Outside
<1>42. ASSUME AttachmentErased PROVE StaleAsks'
  BY <1>1, <1>42 DEF AttachmentErased, Outside
<1>43. ASSUME RecordGoes PROVE StaleAsks'
  BY <1>1, <1>43 DEF RecordGoes, Outside
<1> QED BY <1>2, <1>3, <1>4, <1>5, <1>6, <1>7, <1>8, <1>9, <1>10, <1>11, <1>12,
     <1>13, <1>14, <1>15, <1>16, <1>17, <1>18, <1>19, <1>20, <1>21, <1>22, <1>23, <1>24, <1>25,
     <1>26, <1>27, <1>28, <1>29, <1>30, <1>31, <1>32, <1>33, <1>34, <1>35, <1>36, <1>37, <1>38,
     <1>39, <1>40, <1>41, <1>42, <1>43 DEF Next, Census, Drain, Admission, Settlement, Pump,
     Environment

(* Every step keeps the bookkeeping of the generation being built.         *)
LEMMA GenerationStep ==
  ASSUME TypeOK, ChangeInv, Next PROVE GenerationOK'
<1> USE DEF GenerationOK, Go, Abandon, Look, walkVars, readVars, Pump_unchanged
<1>1. GenerationOK
  BY DEF ChangeInv
<1>2. ASSUME PumpStart PROVE GenerationOK'
  BY <1>1, <1>2 DEF PumpStart
<1>3. ASSUME BeginCensus PROVE GenerationOK'
  BY <1>1, <1>3 DEF BeginCensus
<1>4. ASSUME LoopTop PROVE GenerationOK'
  BY <1>1, <1>4 DEF LoopTop
<1>5. ASSUME ListRead PROVE GenerationOK'
  BY <1>1, <1>5 DEF ListRead
<1>6. ASSUME Listed PROVE GenerationOK'
  BY <1>1, <1>6 DEF Listed
<1>7. ASSUME WalkRead PROVE GenerationOK'
  BY <1>1, <1>7 DEF WalkRead
<1>8. ASSUME WalkRecord PROVE GenerationOK'
  BY <1>1, <1>8 DEF WalkRecord
<1>9. ASSUME CensusClose PROVE GenerationOK'
  BY <1>1, <1>9 DEF CensusClose
<1>10. ASSUME DrainBegin PROVE GenerationOK'
  BY <1>1, <1>10 DEF DrainBegin
<1>11. ASSUME DrainTake PROVE GenerationOK'
  BY <1>1, <1>11 DEF DrainTake
<1>12. ASSUME DrainEnd PROVE GenerationOK'
  BY <1>1, <1>12 DEF DrainEnd
<1>13. ASSUME DrainExpand PROVE GenerationOK'
  BY <1>1, <1>13 DEF DrainExpand
<1>14. ASSUME DrainLook PROVE GenerationOK'
  BY <1>1, <1>14 DEF DrainLook, Requeue
<1>15. ASSUME DrainRecord PROVE GenerationOK'
  BY <1>1, <1>15 DEF DrainRecord, Requeue
<1>16. ASSUME DrainRetire PROVE GenerationOK'
  BY <1>1, <1>16 DEF DrainRetire, Requeue
<1>17. ASSUME ChooseCandidate PROVE GenerationOK'
  BY <1>1, <1>17 DEF ChooseCandidate
<1>18. ASSUME NoCandidate PROVE GenerationOK'
  BY <1>1, <1>18 DEF NoCandidate
<1>19. ASSUME AdmitAbandon PROVE GenerationOK'
  BY <1>1, <1>19 DEF AdmitAbandon
<1>20. ASSUME GateOpen PROVE GenerationOK'
  BY <1>1, <1>20 DEF GateOpen
<1>21. ASSUME GateShut PROVE GenerationOK'
  BY <1>1, <1>21 DEF GateShut
<1>22. ASSUME AdmitLook PROVE GenerationOK'
  BY <1>1, <1>22 DEF AdmitLook
<1>23. ASSUME AdmitSkip PROVE GenerationOK'
  BY <1>1, <1>23 DEF AdmitSkip, AdmitRecord
<1>24. ASSUME AdmitMoved PROVE GenerationOK'
  BY <1>1, <1>24 DEF AdmitMoved, AdmitRecord
<1>25. ASSUME AdmitWorkerBusy PROVE GenerationOK'
  BY <1>1, <1>25 DEF AdmitWorkerBusy, AdmitRecord
<1>26. ASSUME Submit PROVE GenerationOK'
  BY <1>1, <1>26 DEF Submit, AdmitRecord
<1>27. ASSUME EnsurePersists PROVE GenerationOK'
  BY <1>1, <1>27 DEF EnsurePersists
<1>28. ASSUME EnsureReturns PROVE GenerationOK'
  BY <1>1, <1>28 DEF EnsureReturns
<1>29. ASSUME SettleLook PROVE GenerationOK'
  BY <1>1, <1>29 DEF SettleLook
<1>30. ASSUME SettleSuccess PROVE GenerationOK'
  BY <1>1, <1>30 DEF SettleSuccess
<1>31. ASSUME FailureLook PROVE GenerationOK'
  BY <1>1, <1>31 DEF FailureLook
<1>32. ASSUME SettleFailure PROVE GenerationOK'
  BY <1>1, <1>32 DEF SettleFailure
<1>33. ASSUME HostThrows PROVE GenerationOK'
  BY <1>1, <1>33 DEF HostThrows
<1>34. ASSUME PumpCatch PROVE GenerationOK'
  BY <1>1, <1>34 DEF PumpCatch
<1>35. ASSUME PumpReturn PROVE GenerationOK'
  BY <1>1, <1>35 DEF PumpReturn
<1>36. ASSUME Stop PROVE GenerationOK'
  BY <1>1, <1>36 DEF Stop
<1>37. ASSUME Start PROVE GenerationOK'
  BY <1>1, <1>37 DEF Start
<1>38. ASSUME HourPasses PROVE GenerationOK'
  BY <1>1, <1>38 DEF HourPasses
<1>39. ASSUME Notify PROVE GenerationOK'
  BY <1>1, <1>39 DEF Notify
<1>40. ASSUME AttachmentChanges PROVE GenerationOK'
  BY <1>1, <1>40 DEF AttachmentChanges, Outside
<1>41. ASSUME AttachmentAdded PROVE GenerationOK'
  BY <1>1, <1>41 DEF AttachmentAdded, Outside
<1>42. ASSUME AttachmentErased PROVE GenerationOK'
  BY <1>1, <1>42 DEF AttachmentErased, Outside
<1>43. ASSUME RecordGoes PROVE GenerationOK'
  BY <1>1, <1>43 DEF RecordGoes, Outside
<1> QED BY <1>2, <1>3, <1>4, <1>5, <1>6, <1>7, <1>8, <1>9, <1>10, <1>11, <1>12,
     <1>13, <1>14, <1>15, <1>16, <1>17, <1>18, <1>19, <1>20, <1>21, <1>22, <1>23, <1>24, <1>25,
     <1>26, <1>27, <1>28, <1>29, <1>30, <1>31, <1>32, <1>33, <1>34, <1>35, <1>36, <1>37, <1>38,
     <1>39, <1>40, <1>41, <1>42, <1>43 DEF Next, Census, Drain, Admission, Settlement, Pump,
     Environment

(* What the pump learns of an attachment it learns with its parent.        *)
LEMMA TrackedSeenStep ==
  ASSUME TypeOK, ChangeInv, Next PROVE TrackedSeen'
<1> SUFFICES ASSUME NEW x \in Docs
             PROVE  /\ lib'[x].src = 0 => ~Exists(x)'
                    /\ lib'[x].src = 0 \/ (Exists(x)' /\ x \notin tracked') => NeverSeen(x)'
  BY DEF TrackedSeen
<1> DEFINE Unseen == lib[x].src = 0 \/ (Exists(x) /\ x \notin tracked)
<1>1. x \in Ids /\ (lib[x].src = 0 => ~Exists(x)) /\ (Unseen => NeverSeen(x))
  BY DEF Ids, ChangeInv, TrackedSeen
<1>2. lib \in [Ids -> Items] /\ observed \in [Ids -> Infos \cup {NoInfo}]
      /\ next \in [Ids -> Infos \cup {NoInfo}] /\ buf \in Infos \cup {NoInfo}
  BY DEF TypeOK, LibraryOK, ViewOK, LocalsOK
<1> DEFINE LibraryGood == /\ lib'[x].src = 0 => ~Exists(x)'
                          /\ lib'[x].src = 0 \/ (Exists(x)' /\ x \notin tracked') => Unseen
<1> DEFINE Goal == /\ lib'[x].src = 0 => ~Exists(x)'
                   /\ lib'[x].src = 0 \/ (Exists(x)' /\ x \notin tracked') => NeverSeen(x)'
<1> DEFINE HandsKept == pc' \in RecordPoints \cup {"walked"}
                         => pc' = pc /\ UNCHANGED <<doc, buf>>
<1>3. ASSUME UNCHANGED <<lib, tracked, observed, next>>, HandsKept PROVE Goal
  BY <1>1, <1>3 DEF NeverSeen, InPumpHands, Exists, Blank
<1>4. ASSUME NEW y \in Ids, Look(y), UNCHANGED <<observed, next>> PROVE Goal
  <2>1. lib'[x].src = 0 => ~Exists(x)'
    BY <1>1, <1>4, LookRight DEF Look
  <2>2. CASE x # y
    BY <1>1, <1>4, <2>1, <2>2, LookRight DEF NeverSeen, InPumpHands, Blank, Look
  <2>3. CASE x = y
    <3>1. ASSUME lib'[x].src = 0 \/ (Exists(x)' /\ x \notin tracked')
          PROVE  NeverSeen(x) /\ Blank(buf')
      <4>1. CASE LookAnswers(x)
        BY <1>1, <1>4, <2>1, <3>1, <4>1, LookRight, InspectAbsent DEF LookAnswers, Blank
      <4>2. CASE LookThrows(x)
        BY <1>1, <1>4, <3>1, <4>2, LookRight DEF LookThrows, InspectThrown, Blank, Look
      <4> QED BY <1>4, <2>3, <4>1, <4>2 DEF Look
    <3> QED BY <1>1, <1>4, <2>1, <3>1 DEF NeverSeen, Blank
  <2> QED BY <2>2, <2>3
<1>5. ASSUME Record(doc, buf, failed'), pc \in RecordPoints, pc' \notin RecordPoints \cup {"walked"},
             UNCHANGED <<lib, tracked, next>>
      PROVE  Goal
  <2>1. x # doc => observed'[x] = observed[x]
    BY <1>1, <1>2, <1>5 DEF Record
  <2>2. x = doc => observed'[x] = (IF buf.absent THEN NoInfo ELSE Classify(x, buf, failed'))
    BY <1>1, <1>2, <1>5 DEF Record
  <2>3. Blank(NoInfo)
    BY DEF Blank
  <2> QED BY <1>1, <1>2, <1>5, <2>1, <2>2, <2>3, ClassifyBlank DEF NeverSeen, InPumpHands, Blank,
       Exists
<1>6. ASSUME UNCHANGED <<observed, tracked, next>>, LibraryGood, HandsKept PROVE Goal
  BY <1>1, <1>6 DEF NeverSeen, InPumpHands, Blank
<1>7. ASSUME PumpStart PROVE Goal
  BY <1>3, <1>7 DEF PumpStart, Go, Abandon, Requeue, Pump_unchanged, library, census,
     readVars, walkVars, RecordPoints
<1>8. ASSUME BeginCensus PROVE Goal
  BY <1>1, <1>2, <1>8 DEF BeginCensus, library, readVars, Go, NeverSeen, InPumpHands, Exists,
     Blank, RecordPoints
<1>9. ASSUME LoopTop PROVE Goal
  BY <1>3, <1>9 DEF LoopTop, Go, Abandon, Requeue, Pump_unchanged, library, census,
     readVars, walkVars, RecordPoints
<1>10. ASSUME ListRead PROVE Goal
  BY <1>3, <1>10 DEF ListRead, Go, Abandon, Requeue, Pump_unchanged, library, census,
     readVars, walkVars, RecordPoints
<1>11. ASSUME Listed PROVE Goal
  BY <1>3, <1>11 DEF Listed, Go, Abandon, Requeue, Pump_unchanged, library, census,
     readVars, walkVars, RecordPoints
<1>12. ASSUME WalkRead PROVE Goal
  <2>1. CASE Current
    <3>1. PICK y \in todo : Look(y)
      BY <1>12, <2>1 DEF WalkRead, Abandon
    <3> QED BY <1>4, <1>12, <3>1 DEF WalkRead, census, walkVars, TypeOK, LocalsOK
  <2> QED BY <1>3, <1>12, <2>1 DEF WalkRead, Abandon, Go, library, readVars, census,
       walkVars, RecordPoints
<1>13. ASSUME WalkRecord PROVE Goal
  <2>1. CASE Current
    <3>1. UNCHANGED <<lib, tracked, observed>> /\ pc = "walked" /\ pc' \in {"close", "walk"}
          /\ next' = [next EXCEPT ![doc] = Classify(doc, buf, failed)]
      BY <1>13, <2>1 DEF WalkRecord, Forget, Abandon, Go, library, readVars
    <3>2. CASE x = doc
      <4>1. next'[x] = Classify(x, buf, failed)
        BY <1>1, <1>2, <3>1, <3>2
      <4> QED BY <1>1, <1>2, <3>1, <3>2, <4>1, ClassifyBlank DEF NeverSeen, InPumpHands, Blank, Exists,
           RecordPoints
    <3>3. CASE x # doc
      <4>1. next'[x] = next[x]
        BY <1>2, <3>1, <3>3
      <4> QED BY <1>1, <3>1, <3>3, <4>1 DEF NeverSeen, InPumpHands, Blank, Exists, RecordPoints
    <3> QED BY <3>2, <3>3
  <2> QED BY <1>3, <1>13, <2>1 DEF WalkRecord, Forget, Abandon, Go, library, readVars, census,
       walkVars, RecordPoints
<1>14. ASSUME CensusClose PROVE Goal
  BY <1>1, <1>14 DEF CensusClose, Abandon, Go, library, readVars, walkVars, census,
     NeverSeen, InPumpHands, Exists, Blank, RecordPoints
<1>15. ASSUME DrainBegin PROVE Goal
  BY <1>3, <1>15 DEF DrainBegin, Go, Abandon, Requeue, Pump_unchanged, library,
     census, readVars, walkVars, RecordPoints
<1>16. ASSUME DrainTake PROVE Goal
  BY <1>3, <1>16 DEF DrainTake, Go, Abandon, Requeue, Pump_unchanged, library, census,
     readVars, walkVars, RecordPoints
<1>17. ASSUME DrainEnd PROVE Goal
  BY <1>3, <1>17 DEF DrainEnd, Go, Abandon, Requeue, Pump_unchanged, library, census,
     readVars, walkVars, RecordPoints
<1>18. ASSUME DrainExpand PROVE Goal
  BY <1>3, <1>18 DEF DrainExpand, Go, Abandon, Requeue, Pump_unchanged, library,
     census, readVars, walkVars, RecordPoints
<1>19. ASSUME DrainLook PROVE Goal
  <2>1. CASE Current
    <3>1. PICK y \in todo : Look(y)
      BY <1>19, <2>1 DEF DrainLook, Requeue
    <3> QED BY <1>4, <1>19, <3>1 DEF DrainLook, census, walkVars, TypeOK, LocalsOK
  <2> QED BY <1>3, <1>19, <2>1 DEF DrainLook, Requeue, Go, library, readVars, census,
       walkVars, RecordPoints
<1>20. ASSUME DrainRecord PROVE Goal
  <2>1. CASE Current
    <3>1. Record(doc, buf, failed') /\ pc = "looked" /\ pc' \in {"refresh", "look"}
          /\ UNCHANGED <<lib, tracked, next>>
      BY <1>20, <2>1 DEF DrainRecord, Forget, Requeue, Go, library, readVars, session
    <3> QED BY <1>5, <3>1 DEF RecordPoints
  <2> QED BY <1>3, <1>20, <2>1 DEF DrainRecord, Forget, Requeue, Go, library, readVars,
       census, walkVars, RecordPoints
<1>21. ASSUME DrainRetire PROVE Goal
  BY <1>3, <1>21 DEF DrainRetire, Go, Abandon, Requeue, Pump_unchanged, library,
     census, readVars, walkVars, RecordPoints
<1>22. ASSUME ChooseCandidate PROVE Goal
  BY <1>1, <1>22 DEF ChooseCandidate, library, census, walkVars, Go, NeverSeen,
     InPumpHands, Exists, Blank, RecordPoints
<1>23. ASSUME NoCandidate PROVE Goal
  BY <1>3, <1>23 DEF NoCandidate, Go, Abandon, Requeue, Pump_unchanged, library,
     census, readVars, walkVars, RecordPoints
<1>24. ASSUME AdmitAbandon PROVE Goal
  BY <1>3, <1>24 DEF AdmitAbandon, Go, Abandon, Requeue, Pump_unchanged, library,
     census, readVars, walkVars, RecordPoints
<1>25. ASSUME GateOpen PROVE Goal
  BY <1>3, <1>25 DEF GateOpen, Go, Abandon, Requeue, Pump_unchanged, library, census,
     readVars, walkVars, RecordPoints
<1>26. ASSUME GateShut PROVE Goal
  BY <1>3, <1>26 DEF GateShut, Dismiss, Forget, Go, Abandon, Requeue, Pump_unchanged, library, census,
     readVars, walkVars, RecordPoints
<1>27. ASSUME AdmitLook PROVE Goal
  BY <1>4, <1>27 DEF AdmitLook, census, walkVars, TypeOK, InHandOK, Settling
<1>28. ASSUME AdmitSkip PROVE Goal
  BY <1>5, <1>28 DEF AdmitSkip, Dismiss, Forget, AdmitRecord, Go, library, readVars, walkVars,
     RecordPoints
<1>29. ASSUME AdmitMoved PROVE Goal
  BY <1>5, <1>29 DEF AdmitMoved, Dismiss, Forget, AdmitRecord, Go, library, readVars, walkVars,
     RecordPoints
<1>30. ASSUME AdmitWorkerBusy PROVE Goal
  BY <1>5, <1>30 DEF AdmitWorkerBusy, Dismiss, Forget, AdmitRecord, Go, library, readVars, walkVars,
     RecordPoints
<1>31. ASSUME Submit PROVE Goal
  BY <1>5, <1>31 DEF Submit, AdmitRecord, Go, library, readVars, walkVars,
     RecordPoints
<1>32. ASSUME EnsurePersists PROVE Goal
  <2>1. PICK s \in Verified : lib' = [lib EXCEPT ![doc].status = s]
    BY <1>32 DEF EnsurePersists
  <2>2. lib'[x].src = lib[x].src /\ (Exists(x)' <=> Exists(x))
    BY <1>1, <1>2, <1>32, <2>1 DEF EnsurePersists, Exists, Items, Queued, Verified
  <2> QED BY <1>1, <1>6, <1>32, <2>2 DEF EnsurePersists, Go, census, walkVars,
       readVars, RecordPoints
<1>33. ASSUME EnsureReturns PROVE Goal
  BY <1>3, <1>33 DEF EnsureReturns, Go, Abandon, Requeue, Pump_unchanged, library,
     census, readVars, walkVars, RecordPoints
<1>34. ASSUME SettleLook PROVE Goal
  BY <1>4, <1>34 DEF SettleLook, census, walkVars, TypeOK, InHandOK, Settling
<1>35. ASSUME SettleSuccess PROVE Goal
  BY <1>5, <1>35 DEF SettleSuccess, Dismiss, Forget, Go, library, readVars, walkVars, session,
     RecordPoints
<1>36. ASSUME FailureLook PROVE Goal
  BY <1>4, <1>36 DEF FailureLook, census, walkVars, TypeOK, InHandOK, Settling
<1>37. ASSUME SettleFailure PROVE Goal
  BY <1>5, <1>37 DEF SettleFailure, Dismiss, Forget, Go, library, readVars, walkVars, session,
     RecordPoints
<1>38. ASSUME HostThrows PROVE Goal
  BY <1>3, <1>38 DEF HostThrows, Go, Abandon, Requeue, Pump_unchanged, library,
     census, readVars, walkVars, RecordPoints
<1>39. ASSUME PumpCatch PROVE Goal
  BY <1>3, <1>39 DEF PumpCatch, Go, Abandon, Requeue, Pump_unchanged, library, census,
     readVars, walkVars, RecordPoints
<1>40. ASSUME PumpReturn PROVE Goal
  BY <1>1, <1>2, <1>40 DEF PumpReturn, library, census, Go, NeverSeen, InPumpHands, Exists, Blank,
     RecordPoints
<1>41. ASSUME Stop PROVE Goal
  BY <1>3, <1>41 DEF Stop, Go, Abandon, Requeue, Pump_unchanged, library, census,
     readVars, walkVars, RecordPoints
<1>42. ASSUME Start PROVE Goal
  BY <1>3, <1>42 DEF Start, Go, Abandon, Requeue, Pump_unchanged, library, census,
     readVars, walkVars, RecordPoints
<1>43. ASSUME HourPasses PROVE Goal
  BY <1>3, <1>43 DEF HourPasses, Go, Abandon, Requeue, Pump_unchanged, library,
     census, readVars, walkVars, RecordPoints
<1>44. ASSUME Notify PROVE Goal
  BY <1>3, <1>44 DEF Notify, Go, Abandon, Requeue, Pump_unchanged, library, census,
     readVars, walkVars, RecordPoints
<1>45. ASSUME AttachmentChanges PROVE Goal
  <2>1. lib'[x] = lib[x] \/ (Exists(x) /\ Exists(x)' /\ lib'[x].src # 0)
    <3>1. PICK d \in Docs, s \in LibStatuses, rewritten \in {0, 1}, dir \in Dirs :
            Exists(d) /\ lib' = [lib EXCEPT ![d] = [status |-> s, src |-> @.src + rewritten, dir |-> dir]]
      BY <1>45 DEF AttachmentChanges
    <3>2. s # "absent"
      BY <3>1, LibStatusPresent
    <3>3. CASE x = d
      <4>1. lib'[x] = [status |-> s, src |-> lib[x].src + rewritten, dir |-> dir]
        BY <1>1, <1>2, <3>1, <3>3
      <4>2. lib[x].src \in Nat /\ rewritten \in {0, 1}
        BY <1>1, <1>2, <3>1 DEF Items
      <4>3. Exists(x) /\ lib[x].src # 0
        BY <1>1, <3>1, <3>3
      <4>4. Exists(x)'
        BY <3>2, <4>1 DEF Exists
      <4>5. lib'[x].src # 0
        BY <4>1, <4>2, <4>3
      <4> QED BY <4>3, <4>4, <4>5
    <3> QED BY <1>1, <1>2, <3>1, <3>3
  <2> QED BY <1>1, <1>6, <1>45, <2>1
       DEF AttachmentChanges, Outside, Pump_unchanged, census, walkVars, readVars,
          Exists
<1>46. ASSUME AttachmentAdded PROVE Goal
  <2>1. lib'[x] = lib[x] \/ (lib[x].src = 0 /\ lib'[x].src # 0)
    BY <1>1, <1>2, <1>46 DEF AttachmentAdded, Exists, Items
  <2> QED BY <1>1, <1>6, <1>46, <2>1
       DEF AttachmentAdded, Outside, Pump_unchanged, census, walkVars, readVars,
          Exists
<1>47. ASSUME AttachmentErased PROVE Goal
  <2>1. lib'[x] = lib[x] \/ (~Exists(x)' /\ lib'[x].src = lib[x].src)
    BY <1>1, <1>2, <1>47 DEF AttachmentErased, Exists, Items
  <2> QED BY <1>1, <1>6, <1>47, <2>1
       DEF AttachmentErased, Outside, Pump_unchanged, census, walkVars, readVars,
          Exists
<1>48. ASSUME RecordGoes PROVE Goal
  <2>1. lib'[x].src = lib[x].src /\ (Exists(x)' => Exists(x))
    BY <1>1, <1>2, <1>48 DEF RecordGoes, Exists, Items
  <2> QED BY <1>1, <1>6, <1>48, <2>1
       DEF RecordGoes, Outside, Pump_unchanged, census, walkVars, readVars
<1> QED BY <1>7, <1>8, <1>9, <1>10, <1>11, <1>12, <1>13, <1>14, <1>15, <1>16, <1>17,
     <1>18, <1>19, <1>20, <1>21, <1>22, <1>23, <1>24, <1>25, <1>26, <1>27, <1>28, <1>29,
     <1>30, <1>31, <1>32, <1>33, <1>34, <1>35, <1>36, <1>37, <1>38, <1>39, <1>40, <1>41,
     <1>42, <1>43, <1>44, <1>45, <1>46, <1>47, <1>48 DEF Next, Census, Drain, Admission,
     Settlement, Pump, Environment

(* An event that names an attachment is attended to before what an         *)
(* inspection that threw left of it is forgotten.                          *)
LEMMA NamedSinceStep ==
  ASSUME TypeOK, ChangeInv, Next PROVE NamedSince'
<1> SUFFICES ASSUME NEW x \in Docs, Unlearnt(x)' PROVE AskedFor(x)' \/ Examined(x)'
  BY DEF NamedSince
<1> DEFINE Goal == AskedFor(x)' \/ Examined(x)'
<1> DEFINE HandsKept == pc' \in RecordPoints \cup {"walked"}
                         => pc' = pc /\ UNCHANGED <<doc, buf>>
<1>1. x \in Ids /\ lib \in [Ids -> Items] /\ observed \in [Ids -> Infos \cup {NoInfo}]
      /\ next \in [Ids -> Infos \cup {NoInfo}] /\ buf \in Infos \cup {NoInfo}
  BY DEF Ids, TypeOK, LibraryOK, ViewOK, LocalsOK
<1>2. Unlearnt(x) => AskedFor(x) \/ Examined(x)
  BY DEF ChangeInv, NamedSince
<1>3. ASSUME ~Current, Busy, UNCHANGED <<switch, reconciliationPending>> PROVE Goal
  BY <1>3, StaleCorrected DEF AskedFor
<1>4. ASSUME Exists(x)' => Exists(x), tracked' = tracked, x \in misread' <=> x \in misread,
             observed' = observed, next' = next \/ next' = [y \in Ids |-> NoInfo],
             HandsKept, AskedFor(x) => AskedFor(x)'
      PROVE  Goal
  BY <1>1, <1>2, <1>4 DEF Unlearnt, Examined, InPumpHands, NoInfo, Unexamined
<1>5. ASSUME NEW y \in Ids, Look(y), UNCHANGED <<observed, next, todo, switch, deadline, dirty>>,
             pc \in {"walk", "look"} <=> pc' \in {"walked", "looked"},
             pc \in {"walk", "look", "recheck", "verify", "autopsy"}
      PROVE  Goal
  <2>1. x # y
    BY <1>5, LookRight DEF Unlearnt
  <2>2. Unlearnt(x) /\ doc' = y /\ undelivered' = undelivered
    BY <1>5, <2>1, LookRight DEF Unlearnt
  <2>3. AskedFor(x) => AskedFor(x)'
    BY <1>5, <2>1, <2>2 DEF AskedFor, CensusAsked, switch, deadline
  <2>4. Examined(x) => Examined(x)'
    BY <1>5, <2>1, <2>2 DEF Examined, InPumpHands
  <2> QED BY <1>2, <2>2, <2>3, <2>4
<1>6. ASSUME Record(doc, buf, failed'), pc \in RecordPoints, pc' \notin RecordPoints \cup {"walked"},
             UNCHANGED <<lib, tracked, misread, next>>, AskedFor(x) => AskedFor(x)'
      PROVE  Goal
  <2>1. x # doc => observed'[x] = observed[x]
    BY <1>1, <1>6 DEF Record
  <2>2. x = doc => observed'[x] = (IF buf.absent THEN NoInfo ELSE Classify(x, buf, failed'))
    BY <1>1, <1>6 DEF Record
  <2>3. NoInfo.status # Unexamined
    BY DEF NoInfo, Unexamined
  <2>4. Examined(x) => Examined(x)'
    BY <1>1, <1>6, <2>1, <2>2, <2>3, ClassifyBlank DEF Examined, InPumpHands
  <2> QED BY <1>2, <1>6, <2>4 DEF Unlearnt, Exists
<1> USE DEF AskedFor, CensusAsked, Go, Abandon, RecordPoints, Settling, library, switch,
     deadline, census, session, readVars, tryVars, passVars, walkVars, Pump_unchanged
<1>7. ASSUME PumpStart PROVE Goal
  BY <1>4, <1>7 DEF PumpStart, Busy, Exists
<1>8. ASSUME BeginCensus PROVE Goal
  BY <1>4, <1>8 DEF BeginCensus, CensusDue, Exists
<1>9. ASSUME LoopTop PROVE Goal
  BY <1>4, <1>9 DEF LoopTop, CensusDue, Exists
<1>10. ASSUME HostThrows PROVE Goal
  BY <1>4, <1>10 DEF HostThrows, Exists
<1>11. ASSUME DrainBegin PROVE Goal
  BY <1>4, <1>11 DEF DrainBegin, Exists
<1>12. ASSUME DrainTake PROVE Goal
  BY <1>4, <1>12 DEF DrainTake, Exists
<1>13. ASSUME DrainEnd PROVE Goal
  BY <1>4, <1>13 DEF DrainEnd, Exists
<1>14. ASSUME ChooseCandidate PROVE Goal
  BY <1>4, <1>14 DEF ChooseCandidate, Exists
<1>15. ASSUME NoCandidate PROVE Goal
  BY <1>4, <1>15 DEF NoCandidate, Exists
<1>16. ASSUME AdmitAbandon PROVE Goal
  BY <1>4, <1>16 DEF AdmitAbandon, Exists
<1>17. ASSUME GateOpen PROVE Goal
  BY <1>4, <1>17 DEF GateOpen, Exists
<1>18. ASSUME GateShut PROVE Goal
  BY <1>4, <1>18 DEF GateShut, Dismiss, Forget, Exists
<1>19. ASSUME EnsureReturns PROVE Goal
  BY <1>4, <1>19 DEF EnsureReturns, Exists
<1>20. ASSUME PumpCatch PROVE Goal
  BY <1>4, <1>20 DEF PumpCatch, Exists
<1>21. ASSUME PumpReturn PROVE Goal
  BY <1>4, <1>21 DEF PumpReturn, Exists
<1>22. ASSUME Stop PROVE Goal
  BY <1>4, <1>22 DEF Stop, Exists
<1>23. ASSUME Start PROVE Goal
  BY <1>4, <1>23 DEF Start, Exists
<1>24. ASSUME HourPasses PROVE Goal
  BY <1>4, <1>24 DEF HourPasses, Exists
<1>25. ASSUME ListRead PROVE Goal
  BY <1>25 DEF ListRead, Unlearnt, Exists
<1>26. ASSUME Listed PROVE Goal
  <2>1. CASE Current
    BY <1>4, <1>26, <2>1 DEF Listed, Exists
  <2> QED BY <1>3, <1>26, <2>1 DEF Listed, Busy
<1>27. ASSUME WalkRead PROVE Goal
  <2>1. CASE Current
    <3>1. PICK y \in todo : Look(y)
      BY <1>27, <2>1 DEF WalkRead
    <3> QED BY <1>5, <1>27, <2>1, <3>1 DEF WalkRead, TypeOK, LocalsOK
  <2> QED BY <1>3, <1>27, <2>1 DEF WalkRead, Busy
<1>28. ASSUME WalkRecord PROVE Goal
  <2>1. CASE Current
    <3>1. /\ UNCHANGED <<lib, tracked, misread, observed, undelivered, dirty>>
          /\ pc = "walked" /\ pc' = (IF todo' = {} THEN "close" ELSE "walk")
          /\ todo' = todo \ {doc}
          /\ next' = [next EXCEPT ![doc] = Classify(doc, buf, failed)]
      BY <1>28, <2>1 DEF WalkRecord, Forget
    <3>2. AskedFor(x) => AskedFor(x)'
      BY <1>28, <3>1 DEF WalkRecord
    <3>3. Examined(x) => Examined(x)'
      BY <1>1, <3>1, ClassifyBlank DEF Examined, InPumpHands
    <3> QED BY <1>2, <3>1, <3>2, <3>3 DEF Unlearnt, Exists
  <2> QED BY <1>3, <1>28, <2>1 DEF WalkRecord, Busy
<1>29. ASSUME CensusClose PROVE Goal
  <2>1. CASE Current
    <3>1. AskedFor(x) => AskedFor(x)'
      BY <1>29 DEF CensusClose
    <3>2. Examined(x) => Examined(x)'
      BY <1>1, <1>29, <2>1 DEF CensusClose, Examined, InPumpHands, NoInfo, Unexamined
    <3> QED BY <1>2, <1>29, <3>1, <3>2 DEF CensusClose, Unlearnt, Exists
  <2> QED BY <1>3, <1>29, <2>1 DEF CensusClose, Busy
<1>30. ASSUME DrainExpand PROVE Goal
  <2>1. drained = x => x \in todo'
    BY <1>30 DEF DrainExpand, Affected
  <2> QED BY <1>4, <1>30, <2>1 DEF DrainExpand, Exists
<1>31. ASSUME DrainLook PROVE Goal
  <2>1. CASE Current
    <3>1. PICK y \in todo : Look(y)
      BY <1>31, <2>1 DEF DrainLook, Requeue
    <3> QED BY <1>5, <1>31, <2>1, <3>1 DEF DrainLook, Requeue, TypeOK, LocalsOK
  <2> QED BY <1>3, <1>31, <2>1 DEF DrainLook, Busy
<1>32. ASSUME DrainRecord PROVE Goal
  <2>1. CASE Current
    BY <1>6, <1>32, <2>1 DEF DrainRecord, Requeue, Forget
  <2> QED BY <1>3, <1>32, <2>1 DEF DrainRecord, Busy
<1>33. ASSUME DrainRetire PROVE Goal
  <2>1. CASE Current
    BY <1>4, <1>33, <2>1 DEF DrainRetire, Requeue, Exists
  <2> QED BY <1>3, <1>33, <2>1 DEF DrainRetire, Busy
<1>34. ASSUME AdmitLook PROVE Goal
  BY <1>5, <1>34 DEF AdmitLook, TypeOK, InHandOK
<1>35. ASSUME SettleLook PROVE Goal
  BY <1>5, <1>35 DEF SettleLook, TypeOK, InHandOK
<1>36. ASSUME FailureLook PROVE Goal
  BY <1>5, <1>36 DEF FailureLook, TypeOK, InHandOK
<1>37. ASSUME AdmitSkip PROVE Goal
  BY <1>6, <1>37 DEF AdmitSkip, Dismiss, Forget, AdmitRecord
<1>38. ASSUME AdmitMoved PROVE Goal
  BY <1>6, <1>38 DEF AdmitMoved, Dismiss, Forget, AdmitRecord
<1>39. ASSUME AdmitWorkerBusy PROVE Goal
  BY <1>6, <1>39 DEF AdmitWorkerBusy, Dismiss, Forget, AdmitRecord
<1>40. ASSUME Submit PROVE Goal
  BY <1>6, <1>40 DEF Submit, AdmitRecord
<1>41. ASSUME SettleSuccess PROVE Goal
  BY <1>6, <1>41 DEF SettleSuccess, Dismiss, Forget
<1>42. ASSUME SettleFailure PROVE Goal
  BY <1>6, <1>42 DEF SettleFailure, Dismiss, Forget
<1>43. ASSUME EnsurePersists PROVE Goal
  <2>1. Exists(x)' => Exists(x)
    BY <1>1, <1>43 DEF EnsurePersists, Exists, Queued
  <2> QED BY <1>4, <1>43, <2>1 DEF EnsurePersists
<1>44. ASSUME Notify PROVE Goal
  BY <1>4, <1>44 DEF Notify, Exists
<1>45. ASSUME AttachmentChanges PROVE Goal
  <2>1. PICK d \in Docs : /\ x # d => lib'[x] = lib[x]
                          /\ Exists(d) /\ (Event(d) \/ UNCHANGED <<undelivered, misread>>)
    BY <1>1, <1>45 DEF AttachmentChanges
  <2> QED BY <1>4, <1>45, <2>1 DEF AttachmentChanges, Outside, Event, Exists
<1>46. ASSUME AttachmentAdded PROVE Goal
  <2>1. PICK d \in Docs : /\ x # d => lib'[x] = lib[x]
                          /\ Event(d)
    BY <1>1, <1>46 DEF AttachmentAdded
  <2> QED BY <1>4, <1>46, <2>1 DEF AttachmentAdded, Outside, Event, Exists
<1>47. ASSUME AttachmentErased PROVE Goal
  <2>1. PICK d \in Docs : /\ x # d => lib'[x] = lib[x]
                          /\ Event(d)
    BY <1>1, <1>47 DEF AttachmentErased
  <2> QED BY <1>4, <1>47, <2>1 DEF AttachmentErased, Outside, Event, Exists
<1>48. ASSUME RecordGoes PROVE Goal
  <2>1. PICK r \in Recs : Event(r)
    BY <1>48 DEF RecordGoes
  <2>2. Exists(x)' => Exists(x)
    BY <1>1, <1>48 DEF RecordGoes, Exists
  <2>3. x # r
    BY ConstantsAssumption
  <2> QED BY <1>4, <1>48, <2>1, <2>2, <2>3 DEF RecordGoes, Outside, Event
<1> QED BY <1>7, <1>8, <1>9, <1>10, <1>11, <1>12, <1>13, <1>14, <1>15, <1>16, <1>17,
     <1>18, <1>19, <1>20, <1>21, <1>22, <1>23, <1>24, <1>25, <1>26, <1>27, <1>28,
     <1>29, <1>30, <1>31, <1>32, <1>33, <1>34, <1>35, <1>36, <1>37, <1>38, <1>39,
     <1>40, <1>41, <1>42, <1>43, <1>44, <1>45, <1>46, <1>47, <1>48 DEF Next, Census,
     Drain, Admission, Settlement, Pump, Environment

-----------------------------------------------------------------------------
(* Every step keeps every attachment right, or on its way to be.           *)
LEMMA AllHeldStep ==
  ASSUME TypeOK, ChangeInv, Next PROVE AllHeld'
<1> SUFFICES ASSUME NEW x \in Docs PROVE Held(x)'
  BY DEF AllHeld
<1>1. Census => Held(x)'
  BY QuietSteps, CensusSteps, Inspections DEF Census
<1>2. Drain => Held(x)'
  BY QuietSteps, RecordSteps, Inspections DEF Drain
<1>3. Admission => Held(x)'
  BY QuietSteps, RecordSteps, Inspections DEF Admission
<1>4. Settlement => Held(x)'
  BY QuietSteps, RecordSteps, WorldSteps, Inspections DEF Settlement
<1>5. Environment => Held(x)'
  BY QuietSteps, WorldSteps DEF Environment
<1>6. PumpStart \/ HostThrows \/ PumpCatch \/ PumpReturn => Held(x)'
  BY QuietSteps
<1> QED BY <1>1, <1>2, <1>3, <1>4, <1>5, <1>6 DEF Next, Pump

(* The invariant holds of a sitter just created.                           *)
LEMMA ChangeInvInit == Init => ChangeInv
<1> SUFFICES ASSUME Init PROVE ChangeInv
  OBVIOUS
<1>1. StaleAsks /\ GenerationOK
  BY DEF Init, StaleAsks, GenerationOK, Busy
<1>2. TrackedSeen
  BY DEF Init, TrackedSeen, NeverSeen, InPumpHands, Blank, Exists, Ids, RecordPoints
<1>3. AllHeld
  BY DEF Init, AllHeld, Held, Awaited, CensusAsked, CensusPoints, RecordPoints
<1>4. NamedSince
  BY DEF Init, NamedSince, AskedFor, CensusAsked
<1> QED BY <1>1, <1>2, <1>3, <1>4 DEF ChangeInv

(* A stutter keeps the invariant.                                          *)
LEMMA ChangeInvUnchanged == ChangeInv /\ UNCHANGED vars => ChangeInv'
<1> SUFFICES ASSUME ChangeInv, UNCHANGED vars PROVE ChangeInv'
  OBVIOUS
<1> USE DEF vars, library, switch, census, deadline, walkVars, passVars, readVars,
     tryVars, session
<1>1. StaleAsks' /\ GenerationOK'
  BY DEF ChangeInv, StaleAsks, GenerationOK, Busy
<1>2. TrackedSeen'
  BY DEF ChangeInv, TrackedSeen, NeverSeen, InPumpHands, Blank, Exists, RecordPoints
<1>3. AllHeld'
  <2> SUFFICES ASSUME NEW x \in Docs PROVE Held(x)'
    BY DEF AllHeld
  <2>1. \A i : Shows(x, i)' <=> Shows(x, i)
    BY SameLibrary DEF Shows, SaysUnexamined, AgreesWith, Classify
  <2>2. EventWaits(x)' <=> EventWaits(x)
    BY SameLibrary DEF EventWaits
  <2>3. PumpWillRead(x)' <=> PumpWillRead(x)
    BY SameLibrary DEF PumpWillRead
  <2>4. BufCurrent(x)' <=> BufCurrent(x)
    BY SameLibrary DEF BufCurrent, SaysUnexamined
  <2> QED BY <2>1, <2>2, <2>3, <2>4
       DEF ChangeInv, AllHeld, Held, Awaited, CensusAsked, InHand, CensusPoints,
          RecordPoints
<1>4. NamedSince'
  BY DEF ChangeInv, NamedSince, Unlearnt, AskedFor, CensusAsked, Examined, InPumpHands,
     Exists, RecordPoints
<1> QED BY <1>1, <1>2, <1>3, <1>4 DEF ChangeInv

(* No notified change is lost: for every library, whatever the order of    *)
(* events, pauses, failures and inspections that answer or throw, an       *)
(* observation that neither agrees with its attachment nor says that it    *)
(* could not be examined has a correction on its way.                      *)
THEOREM ChangesReachTheCensus == Spec => []NoLostChange
<1>1. ChangeInv /\ TypeOK => NoLostChange
  BY DEF ChangeInv, AllHeld, Held, NoLostChange
<1>2. TypeOK /\ ChangeInv /\ [Next]_vars => ChangeInv'
  <2>1. ASSUME TypeOK, ChangeInv, Next PROVE ChangeInv'
    BY <2>1, StaleAsksStep, TrackedSeenStep, NamedSinceStep, GenerationStep,
       AllHeldStep DEF ChangeInv
  <2> QED BY <2>1, ChangeInvUnchanged
<1> QED BY <1>1, <1>2, ChangeInvInit, TypeCorrect, PTL DEF Spec
============================================================================
