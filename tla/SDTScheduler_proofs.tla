------------------------ MODULE SDTScheduler_proofs ------------------------
(* Theorems about SDTScheduler, for any finite library and any bounds:     *)
(* types, what a pause and a rest mean, and that it implements SDTSitter,  *)
(* the sitter SDTLifecycle is built on.                                    *)
EXTENDS SDTSitterRefinement, FiniteSetTheorems, TLAPS

-----------------------------------------------------------------------------
(* What the operators the model is built from return.                      *)

(* An inspection of any id answers a well-formed info, and so does the     *)
(* scheduler in its place when it throws.                                  *)
LEMMA InspectType ==
  ASSUME NEW x \in Ids, lib \in [Ids -> Items]
  PROVE  Inspect(x) \in Infos /\ InspectThrown(x) \in Infos
BY DEF Inspect, InspectThrown, Unexamined, Infos, Items, InspectStatuses, Statuses,
   Identified, Exists, OutOfScope, Indexed, Unindexed, Failed, Queued

(* classify() keeps an info an info.                                       *)
LEMMA ClassifyType ==
  ASSUME NEW x, NEW info \in Infos, NEW held
  PROVE  Classify(x, info, held) \in Infos
BY DEF Classify, Infos, Statuses, Failed

(* Counting a status up or down keeps the counters integers.               *)
LEMMA BumpType ==
  ASSUME NEW c \in [Statuses -> Int], NEW s, NEW n \in Int
  PROVE  Bump(c, s, n) \in [Statuses -> Int]
BY DEF Bump

(* The library is finite.                                                  *)
LEMMA IdsFinite == IsFiniteSet(Ids)
BY ConstantsAssumption, FS_Union DEF Ids

(* The number of observed attachments is a natural number.                 *)
LEMMA SeenFinite ==
  ASSUME NEW view
  PROVE  /\ IsFiniteSet(Seen(view))
         /\ Cardinality(Seen(view)) \in Nat
<1>1. IsFiniteSet(Seen(view))
  BY IdsFinite, FS_Subset DEF Seen
<1> QED BY <1>1, FS_CardinalityType

(* record() keeps the observed map and its counters well-formed.           *)
LEMMA RecordType ==
  ASSUME ViewOK, NEW x \in Ids, NEW info \in Infos, NEW held, Record(x, info, held)
  PROVE  /\ observed' \in [Ids -> Infos \cup {NoInfo}]
         /\ counts' \in [Statuses -> Int]
         /\ scanned' \in Nat /\ total' \in Nat
         /\ censusBuilding' \in BOOLEAN
<1>1. Classify(x, info, held) \in Infos
  BY ClassifyType
<1>2. observed' \in [Ids -> Infos \cup {NoInfo}]
  BY <1>1 DEF Record, ViewOK
<1>3. Bump(counts, observed[x].status, -1) \in [Statuses -> Int]
  BY BumpType DEF ViewOK
<1>4. counts' \in [Statuses -> Int]
  BY <1>3, BumpType DEF Record
<1>5. scanned' \in Nat /\ total' \in Nat
  BY SeenFinite DEF Record
<1> QED BY <1>2, <1>4, <1>5 DEF Record, ViewOK

(* publish() publishes a well-formed snapshot.                             *)
LEMMA PublishType ==
  ASSUME ViewOK, Publish,
         observed' \in [Ids -> Infos \cup {NoInfo}], counts' \in [Statuses -> Int],
         total' \in Nat
  PROVE  censusSnapshot' \in Snapshots
BY DEF ViewOK, Publish, Snapshots

(* One inspection leaves the id and its answer in hand.                    *)
LEMMA LookType ==
  ASSUME LibraryOK, LocalsOK, NEW x \in Ids, Look(x)
  PROVE  /\ doc' \in Ids /\ buf' \in Infos /\ knew' \in BOOLEAN
         /\ tracked' \subseteq Docs /\ LibraryOK'
<1>1. Inspect(x) \in Infos /\ InspectThrown(x) \in Infos
  BY InspectType DEF LibraryOK
<1>2. doc' = x /\ knew' = (x \in tracked) /\ UNCHANGED <<lib, undelivered>>
  BY DEF Look
<1>3. CASE LookAnswers(x)
  BY <1>1, <1>2, <1>3 DEF LookAnswers, LibraryOK, LocalsOK
<1>4. CASE LookThrows(x)
  BY <1>1, <1>2, <1>4 DEF LookThrows, LibraryOK, LocalsOK
<1> QED BY <1>3, <1>4 DEF Look

(* Every step keeps the switch, the queues and the program point typed.    *)
LEMMA SwitchStep ==
  ASSUME TypeOK, Next
  PROVE  SwitchOK'
<1> USE DEF TypeOK, PumpStart, BeginCensus, LoopTop, ListRead, Listed,
   WalkRead, WalkRecord, CensusClose, DrainBegin, DrainTake, DrainEnd,
   DrainExpand, DrainLook, DrainRecord, DrainRetire, ChooseCandidate,
   NoCandidate, AdmitAbandon, GateOpen, GateShut, AdmitLook, AdmitRecord,
   AdmitSkip, AdmitMoved, AdmitWorkerBusy, Submit, EnsurePersists,
   EnsureReturns, SettleLook, SettleSuccess, FailureLook, SettleFailure,
   HostThrows, PumpCatch, PumpReturn, Stop, Start, HourPasses, Notify,
   Pump_unchanged, Outside, Event, Forget, Dismiss, AttachmentChanges, AttachmentAdded,
   AttachmentErased, RecordGoes, Next, Pump, Census, Drain, Admission,
   Settlement, Environment
<1>1. pc' \in Points
  BY DEF SwitchOK, Points, Settling, Go, Abandon, Requeue, Pump_unchanged
<1>2. phase' \in Phases
  BY DEF SwitchOK, Phases, Pump_unchanged
<1>3. dirty' \subseteq Ids
  BY DEF SwitchOK, LibraryOK, InHandOK, Requeue
<1>4. failed' \subseteq Ids \X Nat
  BY DEF SwitchOK, InHandOK, Settling, session, Infos
<1>5. submitted' \subseteq Ids \X Nat
  BY DEF SwitchOK, InHandOK, LibraryOK, session, Infos
<1>6. enabled' \in BOOLEAN /\ epoch' \in Nat /\ token' \in Nat
  <2>1. enabled' \in BOOLEAN
    BY DEF SwitchOK, switch
  <2>2. epoch' \in Nat
    BY DEF SwitchOK, switch
  <2>3. token' \in Nat
    BY DEF SwitchOK, tryVars
  <2> QED BY <2>1, <2>2, <2>3
<1>7. reconciliationPending' \in BOOLEAN /\ nextReconciliationAt' \in {"never", "armed", "due"}
  BY DEF SwitchOK, deadline
<1> QED BY <1>1, <1>2, <1>3, <1>4, <1>5, <1>6, <1>7 DEF SwitchOK

(* Every step keeps the library typed: inspections only read it.           *)
LEMMA LibraryStep ==
  ASSUME TypeOK, Next
  PROVE  LibraryOK'
<1>1. ASSUME NEW x \in Ids, Look(x) PROVE LibraryOK'
  BY <1>1, LookType DEF TypeOK
<1>2. CASE WalkRead \/ DrainLook \/ AdmitLook \/ SettleLook \/ FailureLook
  BY <1>1, <1>2 DEF WalkRead, DrainLook, AdmitLook, SettleLook, FailureLook,
     TypeOK, LibraryOK, LocalsOK, InHandOK, Settling, library
<1>3. CASE EnsurePersists
  BY <1>3 DEF EnsurePersists, TypeOK, LibraryOK, InHandOK, Settling, Items,
     InspectStatuses, Statuses, Verified, Failed, Indexed, Unindexed
<1>4. CASE Notify
  BY <1>4 DEF Notify, TypeOK, LibraryOK
<1>5. CASE AttachmentChanges
  BY <1>5, ConstantsAssumption DEF AttachmentChanges, Outside, Event, TypeOK,
     LibraryOK, Items, Ids
<1>6. CASE AttachmentAdded
  BY <1>6, ConstantsAssumption DEF AttachmentAdded, Outside, Event, TypeOK, LibraryOK,
     Items, Ids
<1>7. CASE AttachmentErased
  BY <1>7 DEF AttachmentErased, Outside, Event, TypeOK, LibraryOK, Items, Ids
<1>8. CASE RecordGoes
  BY <1>8 DEF RecordGoes, Outside, Event, TypeOK, LibraryOK, Items, Ids,
     InspectStatuses, Statuses, OutOfScope, Failed
<1>9. ASSUME ~(WalkRead \/ DrainLook \/ AdmitLook \/ SettleLook \/ FailureLook),
         ~EnsurePersists, ~Notify, ~AttachmentChanges, ~AttachmentAdded, ~AttachmentErased, ~RecordGoes
      PROVE UNCHANGED library
  BY <1>9 DEF PumpStart, BeginCensus, LoopTop, ListRead, Listed, WalkRecord,
     CensusClose, DrainBegin, DrainTake, DrainEnd, DrainExpand, DrainRecord,
     DrainRetire, ChooseCandidate, NoCandidate, AdmitAbandon, GateOpen,
     GateShut, AdmitRecord, AdmitSkip, AdmitMoved, AdmitWorkerBusy, Submit,
     EnsureReturns, SettleSuccess, SettleFailure, HostThrows, PumpCatch,
     PumpReturn, Stop, Start, HourPasses, Next, Pump, Census, Drain, Admission,
     Settlement, Environment
<1> QED BY <1>2, <1>3, <1>4, <1>5, <1>6, <1>7, <1>8, <1>9 DEF TypeOK,
   LibraryOK, library

(* Every step keeps the census, its counters and its snapshot typed.       *)
LEMMA ViewStep ==
  ASSUME TypeOK, Next
  PROVE  ViewOK'
<1> DEFINE Counted == /\ observed' \in [Ids -> Infos \cup {NoInfo}]
                      /\ counts' \in [Statuses -> Int]
                      /\ scanned' \in Nat /\ total' \in Nat
                      /\ censusBuilding' \in BOOLEAN
<1>1. ASSUME Counted, Publish PROVE ViewOK'
  BY <1>1, PublishType DEF TypeOK, ViewOK
<1>2. ASSUME UNCHANGED census PROVE Counted
  BY <1>2 DEF TypeOK, ViewOK, census
<1>3. ASSUME UNCHANGED <<census, censusSnapshot>> PROVE ViewOK'
  BY <1>3 DEF TypeOK, ViewOK, census, Snapshots
<1>4. ASSUME NEW x \in Ids, NEW info \in Infos, NEW held, Record(x, info, held) PROVE Counted
  BY <1>4, RecordType DEF TypeOK
<1>5. CASE BeginCensus
  <2>1. NoSnapshot \in Snapshots /\ Zero \in [Statuses -> Int]
    BY DEF NoSnapshot, Snapshots, Zero
  <2>2. [NoSnapshot EXCEPT !.kind = "partial", !.counts = counts, !.total = total] \in Snapshots
    BY <2>1 DEF NoSnapshot, Snapshots, TypeOK, ViewOK
  <2>3. censusSnapshot' \in Snapshots
    BY <1>5, <2>2 DEF BeginCensus, TypeOK, ViewOK
  <2> QED BY <1>5, <2>1, <2>3 DEF BeginCensus, TypeOK, ViewOK
<1>6. CASE Listed
  <2>1. Cardinality(todo) \in Nat
    BY IdsFinite, FS_Subset, FS_CardinalityType DEF TypeOK, LocalsOK
  <2>2. CASE Current
    BY <1>1, <1>6, <2>1, <2>2 DEF Listed, Abandon, TypeOK, ViewOK
  <2>3. CASE ~Current
    BY <1>3, <1>6, <2>3 DEF Listed
  <2> QED BY <2>2, <2>3
<1>7. CASE WalkRecord
  <2>1. CASE Current
    <3>1. Bump(counts, Classify(doc, buf, failed).status, 1) \in [Statuses -> Int]
      BY BumpType DEF TypeOK, ViewOK
    <3> QED BY <1>1, <1>7, <2>1, <3>1 DEF WalkRecord, Abandon, TypeOK, ViewOK
  <2>2. CASE ~Current
    BY <1>3, <1>7, <2>2 DEF WalkRecord
  <2> QED BY <2>1, <2>2
<1>8. CASE CensusClose
  <2>1. CASE Current
    BY <1>1, <1>8, <2>1 DEF CensusClose, Abandon, TypeOK, ViewOK, LocalsOK
  <2>2. CASE ~Current
    BY <1>3, <1>8, <2>2 DEF CensusClose
  <2> QED BY <2>1, <2>2
<1>9. CASE DrainRecord
  <2>1. CASE Current
    <3>1. Counted
      BY <1>4, <1>9, <2>1 DEF DrainRecord, Requeue, TypeOK, InHandOK
    <3> QED BY <1>9, <3>1 DEF DrainRecord, TypeOK, ViewOK, Snapshots
  <2>2. CASE ~Current
    BY <1>3, <1>9, <2>2 DEF DrainRecord
  <2> QED BY <2>1, <2>2
<1>10. CASE AdmitRecord
  <2>1. Counted
    BY <1>4, <1>10 DEF AdmitRecord, TypeOK, InHandOK
  <2> QED BY <1>1, <1>10, <2>1 DEF AdmitRecord
<1>11. CASE SettleSuccess
  <2>1. Counted
    BY <1>4, <1>11 DEF SettleSuccess, TypeOK, InHandOK, Settling
  <2> QED BY <1>1, <1>11, <2>1 DEF SettleSuccess
<1>12. CASE SettleFailure
  <2>1. Counted
    BY <1>4, <1>12 DEF SettleFailure, TypeOK, InHandOK, Settling
  <2> QED BY <1>1, <1>12, <2>1 DEF SettleFailure
<1>13. CASE DrainBegin \/ DrainRetire \/ GateShut \/ PumpReturn
  BY <1>1, <1>2, <1>3, <1>13 DEF DrainBegin, DrainRetire, GateShut, PumpReturn
<1>14. ASSUME ~BeginCensus, ~Listed, ~WalkRecord, ~CensusClose, ~DrainRecord, ~AdmitRecord,
              ~SettleSuccess, ~SettleFailure, ~(DrainBegin \/ DrainRetire \/ GateShut \/ PumpReturn)
       PROVE UNCHANGED <<census, censusSnapshot>>
  BY <1>14 DEF PumpStart, LoopTop, ListRead, WalkRead, DrainTake, DrainEnd,
     DrainExpand, DrainLook, ChooseCandidate, NoCandidate, AdmitAbandon,
     GateOpen, AdmitLook, AdmitSkip, AdmitMoved, AdmitWorkerBusy, Submit,
     EnsurePersists, EnsureReturns, SettleLook, FailureLook, HostThrows,
     PumpCatch, Stop, Start, HourPasses, Notify, Pump_unchanged, Outside,
     AttachmentChanges, AttachmentAdded, AttachmentErased, RecordGoes, Next,
     Pump, Census, Drain, Admission, Settlement, Environment
<1> QED BY <1>3, <1>5, <1>6, <1>7, <1>8, <1>9, <1>10, <1>11, <1>12, <1>13,
   <1>14

(* Every step keeps the pump's locals typed.                               *)
LEMMA LocalsStep ==
  ASSUME TypeOK, Next
  PROVE  LocalsOK'
<1> USE DEF TypeOK, PumpStart, BeginCensus, LoopTop, ListRead, Listed,
   WalkRead, WalkRecord, CensusClose, DrainBegin, DrainTake, DrainEnd,
   DrainExpand, DrainLook, DrainRecord, DrainRetire, ChooseCandidate,
   NoCandidate, AdmitAbandon, GateOpen, GateShut, AdmitLook, AdmitRecord,
   AdmitSkip, AdmitMoved, AdmitWorkerBusy, Submit, EnsurePersists,
   EnsureReturns, SettleLook, SettleSuccess, FailureLook, SettleFailure,
   HostThrows, PumpCatch, PumpReturn, Stop, Start, HourPasses, Notify,
   Pump_unchanged, Outside, Event, Forget, Dismiss, AttachmentChanges, AttachmentAdded,
   AttachmentErased, RecordGoes, Next, Pump, Census, Drain, Admission,
   Settlement, Environment
<1>1. attempted' \in [Ids -> Nat]
  BY DEF LocalsOK, InHandOK, tryVars, Infos
<1>2. todo' \subseteq Ids
  BY DEF LocalsOK, InHandOK, walkVars, Affected, Children, Ids
<1>3. next' \in [Ids -> Infos \cup {NoInfo}]
  BY ClassifyType DEF LocalsOK, InHandOK, walkVars
<1>4. drained' \in Ids \cup {NoId} 
  BY DEF LocalsOK, SwitchOK, passVars
<1>5. candidates' \subseteq Ids /\ unplaceable' \subseteq Ids
  BY ConstantsAssumption DEF LocalsOK, InHandOK, passVars, ParentsNamed, Parent, Ids
<1>6. retired' \in BOOLEAN /\ reconcileNeeded' \in BOOLEAN
  BY DEF LocalsOK, passVars
<1>7. doc' \in Ids \cup {NoId} /\ buf' \in Infos \cup {NoInfo} /\ knew' \in BOOLEAN /\ tracked' \subseteq Docs
  BY LookType DEF LocalsOK, InHandOK, Settling, readVars, Admissible, Pending
<1>8. gated' \in Infos \cup {NoInfo}
  BY DEF LocalsOK, ViewOK, tryVars, Admissible, Pending
<1> QED BY <1>1, <1>2, <1>3, <1>4, <1>5, <1>6, <1>7, <1>8 DEF LocalsOK

(* No await resumes on a local that is not set.                            *)
LEMMA InHandStep ==
  ASSUME TypeOK, Next
  PROVE  InHandOK'
<1> USE DEF TypeOK, PumpStart, BeginCensus, LoopTop, ListRead, Listed,
   WalkRead, WalkRecord, CensusClose, DrainBegin, DrainTake, DrainEnd,
   DrainExpand, DrainLook, DrainRecord, DrainRetire, ChooseCandidate,
   NoCandidate, AdmitAbandon, GateOpen, GateShut, AdmitLook, AdmitRecord,
   AdmitSkip, AdmitMoved, AdmitWorkerBusy, Submit, EnsurePersists,
   EnsureReturns, SettleLook, SettleSuccess, FailureLook, SettleFailure,
   HostThrows, PumpCatch, PumpReturn, Stop, Start, HourPasses, Notify,
   Pump_unchanged, Outside, Event, Forget, Dismiss, AttachmentChanges, AttachmentAdded,
   AttachmentErased, RecordGoes, Next, Pump, Census, Drain, Admission,
   Settlement, Environment
<1>1. pc' \in {"affected", "look", "looked", "refresh"} => drained' \in Ids
  BY DEF InHandOK, SwitchOK, LocalsOK, Settling, Go, Abandon, Requeue, passVars
<1>2. pc' \in {"gate", "recheck", "admit"} \cup Settling => gated' \in Infos
  BY DEF InHandOK, LocalsOK, ViewOK, Settling, Go, Abandon, Requeue, tryVars,
     Admissible, Pending, NoInfo, Queued
<1>3. pc' \in {"walked", "looked", "admit", "settle", "bury"} => buf' \in Infos
  BY LookType DEF InHandOK, LocalsOK, Settling, Go, Abandon, Requeue, readVars
<1>4. pc' \in {"walked", "looked", "gate", "recheck", "admit"} \cup Settling => doc' \in Ids
  BY LookType DEF InHandOK, LocalsOK, Settling, Go, Abandon, Requeue, readVars,
     Admissible, Pending
<1> QED BY <1>1, <1>2, <1>3, <1>4 DEF InHandOK

(* TypeOK holds of every reachable state, for any finite library: each of  *)
(* its parts is preserved by every step, given the others.                 *)
THEOREM TypeCorrect == Spec => []TypeOK
<1>1. Init => TypeOK
  <2> SUFFICES ASSUME Init PROVE TypeOK
    OBVIOUS
  <2>1. LibraryOK
    BY ConstantsAssumption DEF Init, LibraryOK, Items
  <2>2. SwitchOK
    BY DEF Init, SwitchOK, Points, Phases
  <2>3. NoSnapshot \in Snapshots /\ Zero \in [Statuses -> Int]
    BY DEF NoSnapshot, Snapshots, Zero
  <2>4. ViewOK
    BY <2>3 DEF Init, ViewOK
  <2>5. LocalsOK
    BY DEF Init, LocalsOK
  <2>6. InHandOK
    BY DEF Init, InHandOK, Settling
  <2> QED BY <2>1, <2>2, <2>4, <2>5, <2>6 DEF TypeOK
<1>2. TypeOK /\ [Next]_vars => TypeOK'
  <2>1. ASSUME TypeOK, Next PROVE TypeOK'
    BY <2>1, LibraryStep, SwitchStep, ViewStep, LocalsStep, InHandStep DEF TypeOK
  <2>2. ASSUME TypeOK, UNCHANGED vars PROVE TypeOK'
    BY <2>2 DEF vars, TypeOK, LibraryOK, SwitchOK, ViewOK, LocalsOK, InHandOK,
       library, switch, census, deadline, walkVars, passVars, readVars, tryVars,
       session, Snapshots, Settling
  <2> QED BY <2>1, <2>2
<1> QED BY <1>1, <1>2, PTL DEF Spec
-----------------------------------------------------------------------------
(* What the switch and the epoch guarantee, for any number of pauses: a    *)
(* pump that outlived its switch is never current again, and writes no     *)
(* phase; a current one rests only when nothing is left to drain.          *)

(* A running pump holds the epoch it started in; a pause ends that epoch.  *)
EpochOK == Busy => token <= epoch /\ (~enabled => token < epoch)

(* Between a test of Current and the next await it still holds.            *)
StackCurrent == pc \in {"drain", "take", "choose"} => Current

(* From the choice of a candidate to its submission a current pump has no  *)
(* census to begin.                                                        *)
NoCensusAsked ==
  pc \in {"choose", "gate", "recheck", "admit"} /\ Current => ~reconciliationPending

SwitchInv == EpochOK /\ StackCurrent /\ NoCensusAsked /\ PausedSaysSo /\ RestsDrained

(* The switch invariant holds of a sitter just created.                    *)
LEMMA SwitchInvInit == Init => SwitchInv
BY DEF Init, SwitchInv, EpochOK, StackCurrent, NoCensusAsked, PausedSaysSo, RestsDrained, Busy

(* Every step keeps the switch invariant, whatever is suspended at which   *)
(* await when the switch is thrown.                                        *)
LEMMA SwitchInvStep ==
  ASSUME TypeOK, SwitchInv, [Next]_vars PROVE SwitchInv'
<1> USE DEF SwitchInv, EpochOK, StackCurrent, NoCensusAsked, PausedSaysSo, RestsDrained,
      Busy, Current, Go, Abandon, OnStack, switch, deadline, tryVars, Pump_unchanged
<1>1. enabled \in BOOLEAN /\ epoch \in Nat /\ token \in Nat
  BY DEF TypeOK, SwitchOK
<1>2. {"ready", "census", "draining", "extracting", "error", "switched-off"}
        \cap ({"waiting"} \cup GateReasons) = {}
  BY ConstantsAssumption
<1>3. CASE UNCHANGED vars
  BY <1>3 DEF vars
<1>4. ASSUME PumpStart PROVE SwitchInv'
  BY <1>1, <1>2, <1>4 DEF PumpStart
<1>5. ASSUME BeginCensus PROVE SwitchInv'
  BY <1>1, <1>2, <1>5 DEF BeginCensus
<1>6. ASSUME LoopTop PROVE SwitchInv'
  BY <1>1, <1>2, <1>6 DEF LoopTop
<1>7. ASSUME ListRead PROVE SwitchInv'
  BY <1>1, <1>2, <1>7 DEF ListRead
<1>8. ASSUME Listed PROVE SwitchInv'
  BY <1>1, <1>2, <1>8 DEF Listed
<1>9. ASSUME WalkRead PROVE SwitchInv'
  BY <1>1, <1>2, <1>9 DEF WalkRead
<1>10. ASSUME WalkRecord PROVE SwitchInv'
  BY <1>1, <1>2, <1>10 DEF WalkRecord
<1>11. ASSUME CensusClose PROVE SwitchInv'
  BY <1>1, <1>2, <1>11 DEF CensusClose
<1>12. ASSUME DrainBegin PROVE SwitchInv'
  BY <1>1, <1>2, <1>12 DEF DrainBegin
<1>13. ASSUME DrainTake PROVE SwitchInv'
  BY <1>1, <1>2, <1>13 DEF DrainTake
<1>14. ASSUME DrainEnd PROVE SwitchInv'
  BY <1>1, <1>2, <1>14 DEF DrainEnd
<1>15. ASSUME DrainExpand PROVE SwitchInv'
  BY <1>1, <1>2, <1>15 DEF DrainExpand
<1>16. ASSUME DrainLook PROVE SwitchInv'
  BY <1>1, <1>2, <1>16 DEF DrainLook, Requeue
<1>17. ASSUME DrainRecord PROVE SwitchInv'
  BY <1>1, <1>2, <1>17 DEF DrainRecord, Requeue
<1>18. ASSUME DrainRetire PROVE SwitchInv'
  BY <1>1, <1>2, <1>18 DEF DrainRetire, Requeue
<1>19. ASSUME ChooseCandidate PROVE SwitchInv'
  BY <1>1, <1>2, <1>19 DEF ChooseCandidate
<1>20. ASSUME NoCandidate PROVE SwitchInv'
  BY <1>1, <1>2, <1>20 DEF NoCandidate
<1>21. ASSUME AdmitAbandon PROVE SwitchInv'
  BY <1>1, <1>2, <1>21 DEF AdmitAbandon
<1>22. ASSUME GateOpen PROVE SwitchInv'
  BY <1>1, <1>2, <1>22 DEF GateOpen
<1>23. ASSUME GateShut PROVE SwitchInv'
  BY <1>1, <1>2, <1>23 DEF GateShut
<1>24. ASSUME AdmitLook PROVE SwitchInv'
  BY <1>1, <1>2, <1>24 DEF AdmitLook
<1>25. ASSUME AdmitSkip PROVE SwitchInv'
  BY <1>1, <1>2, <1>25 DEF AdmitSkip, AdmitRecord
<1>26. ASSUME AdmitMoved PROVE SwitchInv'
  BY <1>1, <1>2, <1>26 DEF AdmitMoved, AdmitRecord
<1>27. ASSUME AdmitWorkerBusy PROVE SwitchInv'
  BY <1>1, <1>2, <1>27 DEF AdmitWorkerBusy, AdmitRecord
<1>28. ASSUME Submit PROVE SwitchInv'
  BY <1>1, <1>2, <1>28 DEF Submit, AdmitRecord
<1>29. ASSUME EnsurePersists PROVE SwitchInv'
  BY <1>1, <1>2, <1>29 DEF EnsurePersists
<1>30. ASSUME EnsureReturns PROVE SwitchInv'
  BY <1>1, <1>2, <1>30 DEF EnsureReturns
<1>31. ASSUME SettleLook PROVE SwitchInv'
  BY <1>1, <1>2, <1>31 DEF SettleLook
<1>32. ASSUME SettleSuccess PROVE SwitchInv'
  BY <1>1, <1>2, <1>32 DEF SettleSuccess
<1>33. ASSUME FailureLook PROVE SwitchInv'
  BY <1>1, <1>2, <1>33 DEF FailureLook
<1>34. ASSUME SettleFailure PROVE SwitchInv'
  BY <1>1, <1>2, <1>34 DEF SettleFailure
<1>35. ASSUME HostThrows PROVE SwitchInv'
  BY <1>1, <1>2, <1>35 DEF HostThrows
<1>36. ASSUME PumpCatch PROVE SwitchInv'
  BY <1>1, <1>2, <1>36 DEF PumpCatch
<1>37. ASSUME PumpReturn PROVE SwitchInv'
  BY <1>1, <1>2, <1>37 DEF PumpReturn
<1>38. ASSUME Stop PROVE SwitchInv'
  BY <1>1, <1>2, <1>38 DEF Stop
<1>39. ASSUME Start PROVE SwitchInv'
  BY <1>1, <1>2, <1>39 DEF Start
<1>40. ASSUME HourPasses PROVE SwitchInv'
  BY <1>1, <1>2, <1>40 DEF HourPasses
<1>41. ASSUME Notify PROVE SwitchInv'
  BY <1>1, <1>2, <1>41 DEF Notify
<1>42. ASSUME AttachmentChanges PROVE SwitchInv'
  BY <1>1, <1>2, <1>42 DEF AttachmentChanges, Outside
<1>43. ASSUME AttachmentAdded PROVE SwitchInv'
  BY <1>1, <1>2, <1>43 DEF AttachmentAdded, Outside
<1>44. ASSUME AttachmentErased PROVE SwitchInv'
  BY <1>1, <1>2, <1>44 DEF AttachmentErased, Outside
<1>45. ASSUME RecordGoes PROVE SwitchInv'
  BY <1>1, <1>2, <1>45 DEF RecordGoes, Outside
<1> QED BY <1>3, <1>4, <1>5, <1>6, <1>7, <1>8, <1>9, <1>10, <1>11, <1>12, <1>13,
     <1>14, <1>15, <1>16, <1>17, <1>18, <1>19, <1>20, <1>21, <1>22, <1>23, <1>24,
     <1>25, <1>26, <1>27, <1>28, <1>29, <1>30, <1>31, <1>32, <1>33, <1>34, <1>35,
     <1>36, <1>37, <1>38, <1>39, <1>40, <1>41, <1>42, <1>43, <1>44, <1>45 DEF Next,
     Census, Drain, Admission, Settlement, Pump, Environment

(* While the switch is off the phase says "switched-off", whatever pump was*)
(* suspended when it was thrown.                                           *)
THEOREM PausedPhase == Spec => []PausedSaysSo
<1>1. SwitchInv => PausedSaysSo
  BY DEF SwitchInv
<1> QED BY <1>1, SwitchInvInit, SwitchInvStep, TypeCorrect, PTL DEF Spec

(* A pump that rests on an empty queue or on a resource wait has drained   *)
(* every event and left no census to begin.                                *)
THEOREM RestIsEarned == Spec => []RestsDrained
<1>1. SwitchInv => RestsDrained
  BY DEF SwitchInv
<1> QED BY <1>1, SwitchInvInit, SwitchInvStep, TypeCorrect, PTL DEF Spec

-----------------------------------------------------------------------------
(* SDTScheduler implements SDTSitter.                                      *)

(* A sitter that is on does not say that it is off.                        *)
OnSaysSo == enabled => phase # "switched-off"

(* What the gate is asked about is still queued.                           *)
GateQueued == pc = "gate" => doc \in Pending

(* A current pump about to return is at one of its rests.                  *)
ExitEarned ==
  pc = "exit" /\ Current =>
    \/ phase = "waiting"
    \/ phase \in GateReasons \cup {"native-worker-busy"} /\ Pending # {}
    \/ phase = "error" /\ reconciliationPending

RestInv == OnSaysSo /\ GateQueued /\ ExitEarned

(* A sitter just created is ready, and its pump has not started.           *)
LEMMA RestInvInit == Init => RestInv
BY DEF Init, RestInv, OnSaysSo, GateQueued, ExitEarned

(* Every step keeps the rests of a current pump what the sweep loop takes  *)
(* them for.                                                               *)
LEMMA RestInvStep ==
  ASSUME TypeOK, SwitchInv, RestInv, [Next]_vars PROVE RestInv'
<1> USE DEF RestInv, OnSaysSo, GateQueued, ExitEarned, Busy, Current, Go, Abandon, OnStack,
      switch, deadline, census, tryVars, readVars, Pump_unchanged
<1>1. enabled \in BOOLEAN /\ epoch \in Nat /\ token \in Nat
  BY DEF TypeOK, SwitchOK
<1>2. {"ready", "census", "draining", "extracting", "error", "switched-off", "waiting"}
        \cap GateReasons = {}
  BY ConstantsAssumption
<1>3. pc \in {"gate", "admit"} => doc \in Ids
  BY DEF TypeOK, InHandOK
<1>4. StackCurrent /\ EpochOK
  BY DEF SwitchInv
<1>5. CASE UNCHANGED vars
  BY <1>5 DEF vars, Pending
<1>6. ASSUME PumpStart PROVE RestInv'
  BY <1>1, <1>2, <1>3, <1>4, <1>6 DEF PumpStart, Pending
<1>7. ASSUME BeginCensus PROVE RestInv'
  BY <1>1, <1>2, <1>3, <1>4, <1>7 DEF BeginCensus, Pending
<1>8. ASSUME LoopTop PROVE RestInv'
  BY <1>1, <1>2, <1>3, <1>4, <1>8 DEF LoopTop, Pending
<1>9. ASSUME ListRead PROVE RestInv'
  BY <1>1, <1>2, <1>3, <1>4, <1>9 DEF ListRead, Pending
<1>10. ASSUME Listed PROVE RestInv'
  BY <1>1, <1>2, <1>3, <1>4, <1>10 DEF Listed, Pending
<1>11. ASSUME WalkRead PROVE RestInv'
  BY <1>1, <1>2, <1>3, <1>4, <1>11 DEF WalkRead, Pending
<1>12. ASSUME WalkRecord PROVE RestInv'
  BY <1>1, <1>2, <1>3, <1>4, <1>12 DEF WalkRecord, Pending
<1>13. ASSUME CensusClose PROVE RestInv'
  BY <1>1, <1>2, <1>3, <1>4, <1>13 DEF CensusClose, Pending
<1>14. ASSUME DrainBegin PROVE RestInv'
  BY <1>1, <1>2, <1>3, <1>4, <1>14 DEF DrainBegin, Pending
<1>15. ASSUME DrainTake PROVE RestInv'
  BY <1>1, <1>2, <1>3, <1>4, <1>15 DEF DrainTake, Pending
<1>16. ASSUME DrainEnd PROVE RestInv'
  BY <1>1, <1>2, <1>3, <1>4, <1>16 DEF DrainEnd, Pending
<1>17. ASSUME DrainExpand PROVE RestInv'
  BY <1>1, <1>2, <1>3, <1>4, <1>17 DEF DrainExpand, Pending
<1>18. ASSUME DrainLook PROVE RestInv'
  BY <1>1, <1>2, <1>3, <1>4, <1>18 DEF DrainLook, Requeue, Pending
<1>19. ASSUME DrainRecord PROVE RestInv'
  BY <1>1, <1>2, <1>3, <1>4, <1>19 DEF DrainRecord, Requeue, Pending
<1>20. ASSUME DrainRetire PROVE RestInv'
  BY <1>1, <1>2, <1>3, <1>4, <1>20 DEF DrainRetire, Requeue, Pending
<1>21. ASSUME ChooseCandidate PROVE RestInv'
  BY <1>1, <1>2, <1>3, <1>4, <1>21 DEF ChooseCandidate, Admissible, Pending
<1>22. ASSUME NoCandidate PROVE RestInv'
  BY <1>1, <1>2, <1>3, <1>4, <1>22 DEF NoCandidate, Pending
<1>23. ASSUME AdmitAbandon PROVE RestInv'
  BY <1>1, <1>2, <1>3, <1>4, <1>23 DEF AdmitAbandon, Pending
<1>24. ASSUME GateOpen PROVE RestInv'
  BY <1>1, <1>2, <1>3, <1>4, <1>24 DEF GateOpen, Pending
<1>25. ASSUME GateShut PROVE RestInv'
  BY <1>1, <1>2, <1>3, <1>4, <1>25 DEF GateShut, Pending
<1>26. ASSUME AdmitLook PROVE RestInv'
  BY <1>1, <1>2, <1>3, <1>4, <1>26 DEF AdmitLook, Pending
<1>27. ASSUME AdmitSkip PROVE RestInv'
  BY <1>1, <1>2, <1>3, <1>4, <1>27 DEF AdmitSkip, AdmitRecord, Pending
<1>28. ASSUME AdmitMoved PROVE RestInv'
  BY <1>1, <1>2, <1>3, <1>4, <1>28 DEF AdmitMoved, AdmitRecord, Pending
<1>29. ASSUME AdmitWorkerBusy PROVE RestInv'
  BY <1>1, <1>2, <1>3, <1>4, <1>29 DEF AdmitWorkerBusy, AdmitRecord, StillQueued, Pending
<1>30. ASSUME Submit PROVE RestInv'
  BY <1>1, <1>2, <1>3, <1>4, <1>30 DEF Submit, AdmitRecord, Pending
<1>31. ASSUME EnsurePersists PROVE RestInv'
  BY <1>1, <1>2, <1>3, <1>4, <1>31 DEF EnsurePersists, Pending
<1>32. ASSUME EnsureReturns PROVE RestInv'
  BY <1>1, <1>2, <1>3, <1>4, <1>32 DEF EnsureReturns, Pending
<1>33. ASSUME SettleLook PROVE RestInv'
  BY <1>1, <1>2, <1>3, <1>4, <1>33 DEF SettleLook, Pending
<1>34. ASSUME SettleSuccess PROVE RestInv'
  BY <1>1, <1>2, <1>3, <1>4, <1>34 DEF SettleSuccess, Pending
<1>35. ASSUME FailureLook PROVE RestInv'
  BY <1>1, <1>2, <1>3, <1>4, <1>35 DEF FailureLook, Pending
<1>36. ASSUME SettleFailure PROVE RestInv'
  BY <1>1, <1>2, <1>3, <1>4, <1>36 DEF SettleFailure, Pending
<1>37. ASSUME HostThrows PROVE RestInv'
  BY <1>1, <1>2, <1>3, <1>4, <1>37 DEF HostThrows, Pending
<1>38. ASSUME PumpCatch PROVE RestInv'
  BY <1>1, <1>2, <1>3, <1>4, <1>38 DEF PumpCatch, Pending
<1>39. ASSUME PumpReturn PROVE RestInv'
  BY <1>1, <1>2, <1>3, <1>4, <1>39 DEF PumpReturn, Pending
<1>40. ASSUME Stop PROVE RestInv'
  BY <1>1, <1>2, <1>3, <1>4, <1>40 DEF Stop, Pending
<1>41. ASSUME Start PROVE RestInv'
  BY <1>1, <1>2, <1>3, <1>4, <1>41 DEF Start, Pending
<1>42. ASSUME HourPasses PROVE RestInv'
  BY <1>1, <1>2, <1>3, <1>4, <1>42 DEF HourPasses, Pending
<1>43. ASSUME Notify PROVE RestInv'
  BY <1>1, <1>2, <1>3, <1>4, <1>43 DEF Notify, Pending
<1>44. ASSUME AttachmentChanges PROVE RestInv'
  BY <1>1, <1>2, <1>3, <1>4, <1>44 DEF AttachmentChanges, Outside, Pending
<1>45. ASSUME AttachmentAdded PROVE RestInv'
  BY <1>1, <1>2, <1>3, <1>4, <1>45 DEF AttachmentAdded, Outside, Pending
<1>46. ASSUME AttachmentErased PROVE RestInv'
  BY <1>1, <1>2, <1>3, <1>4, <1>46 DEF AttachmentErased, Outside, Pending
<1>47. ASSUME RecordGoes PROVE RestInv'
  BY <1>1, <1>2, <1>3, <1>4, <1>47 DEF RecordGoes, Outside, Pending
<1> QED BY <1>5, <1>6, <1>7, <1>8, <1>9, <1>10, <1>11, <1>12, <1>13, <1>14, <1>15,
     <1>16, <1>17, <1>18, <1>19, <1>20, <1>21, <1>22, <1>23, <1>24, <1>25, <1>26,
     <1>27, <1>28, <1>29, <1>30, <1>31, <1>32, <1>33, <1>34, <1>35, <1>36, <1>37,
     <1>38, <1>39, <1>40, <1>41, <1>42, <1>43, <1>44, <1>45, <1>46, <1>47
     DEF Next, Census, Drain, Admission, Settlement,
     Pump, Environment

(* What each phase says to the sweep loop.                                 *)
LEMMA PhaseKinded ==
  ASSUME NEW p \in Phases
  PROVE  /\ PhaseKind(p) \in Abstract!PhaseKinds
         /\ PhaseKind(p) = "off" <=> p = "switched-off"
         /\ p = "waiting" => PhaseKind(p) = "rest"
         /\ p = "error" => PhaseKind(p) = "error"
         /\ p = "native-worker-busy" => PhaseKind(p) = "worker"
         /\ p \in GateReasons \ {"native-worker-busy"} => PhaseKind(p) = "blocked"
         /\ p = "ready" => PhaseKind(p) = "ready"
BY ConstantsAssumption DEF Phases, PhaseKind, Abstract!PhaseKinds

(* The sitter the loop sees is one of SDTSitter's, field by field.         *)
LEMMA ViewFields ==
  /\ /\ View.enabled = enabled /\ View.epoch = epoch /\ View.busy = Busy
     /\ View.token = token /\ View.phase = PhaseKind(phase) /\ View.backlog = Backlog
     /\ View.queue = Queue /\ View.nextRec = nextReconciliationAt
  /\ /\ View'.enabled = enabled' /\ View'.epoch = epoch' /\ View'.busy = Busy'
     /\ View'.token = token' /\ View'.phase = PhaseKind(phase') /\ View'.backlog = Backlog'
     /\ View'.queue = Queue' /\ View'.nextRec = nextReconciliationAt'
BY DEF View

(* Each field of the sitter the loop sees has its type.                    *)
LEMMA ViewTyped ==
  ASSUME TypeOK, TypeOK'
  PROVE  View \in Abstract!Sitters /\ View' \in Abstract!Sitters
<1>1. /\ phase \in Phases /\ enabled \in BOOLEAN /\ epoch \in Nat /\ token \in Nat
      /\ nextReconciliationAt \in {"never", "armed", "due"}
      /\ reconciliationPending \in BOOLEAN
      /\ phase' \in Phases /\ enabled' \in BOOLEAN /\ epoch' \in Nat /\ token' \in Nat
      /\ nextReconciliationAt' \in {"never", "armed", "due"}
      /\ reconciliationPending' \in BOOLEAN
  BY DEF TypeOK, SwitchOK
<1>2. PhaseKind(phase) \in Abstract!PhaseKinds /\ PhaseKind(phase') \in Abstract!PhaseKinds
  BY <1>1, PhaseKinded
<1>3. /\ Busy \in BOOLEAN /\ Backlog \in BOOLEAN /\ Queue \in BOOLEAN
      /\ Busy' \in BOOLEAN /\ Backlog' \in BOOLEAN /\ Queue' \in BOOLEAN
  BY <1>1 DEF Busy, Backlog, Queue
<1> QED BY <1>1, <1>2, <1>3 DEF View, Abstract!Sitters

(* A sitter that differs from s only in what a pump under way moves.       *)
LEMMA WorkedMember ==
  ASSUME NEW s, NEW t, NEW p, NEW b \in BOOLEAN, NEW q \in BOOLEAN,
         NEW n \in {s.nextRec, "armed"},
         p \in Abstract!PhaseKinds, p = s.phase \/ (Abstract!OwnPump(s) /\ p # "off"),
         Abstract!OwnPump(s) => p # "off",
         t = [s EXCEPT !.phase = p, !.backlog = b, !.queue = q, !.nextRec = n]
  PROVE  t \in Abstract!Worked(s)
<1> DEFINE Ps == IF Abstract!OwnPump(s) THEN Abstract!PhaseKinds \ {"off"} ELSE {s.phase}
           Ns == {s.nextRec, "armed"}
           Moved4(p1, b1, q1, n1) ==
             [s EXCEPT !.phase = p1, !.backlog = b1, !.queue = q1, !.nextRec = n1]
<1>1. p \in Ps /\ n \in Ns /\ t = Moved4(p, b, q, n)
  OBVIOUS
<1>2. Abstract!Worked(s) = {Moved4(p1, b1, q1, n1) : p1 \in Ps, b1 \in BOOLEAN,
                                                   q1 \in BOOLEAN, n1 \in Ns}
  BY DEF Abstract!Worked
<1> HIDE DEF Ps, Ns, Moved4
<1> QED BY <1>1, <1>2

(* Work of a pump under way is the abstract sitter's Work, as long as it   *)
(* keeps the switch as it is, moves the phase only while it is current,    *)
(* and never to "switched-off".                                            *)
LEMMA WorkRefined ==
  ASSUME TypeOK, TypeOK', Busy, Busy', UNCHANGED <<enabled, epoch, token>>,
         phase' = phase \/ (Current /\ phase' # "switched-off"),
         OnSaysSo,
         nextReconciliationAt' \in {nextReconciliationAt, "armed"}
  PROVE  Abstract!Work
<1> DEFINE s == View
           t == View'
<1>1. s \in Abstract!Sitters /\ t \in Abstract!Sitters
  BY ViewTyped
<1>2. s.busy = TRUE /\ t.busy = TRUE
  BY ViewFields DEF Busy
<1>3. t.enabled = s.enabled /\ t.epoch = s.epoch /\ t.token = s.token
  BY ViewFields
<1>4. t.nextRec \in {s.nextRec, "armed"}
  BY ViewFields
<1>5. /\ t.phase = s.phase \/ (Abstract!OwnPump(s) /\ t.phase # "off")
      /\ Abstract!OwnPump(s) => t.phase # "off"
  <2>1. phase \in Phases /\ phase' \in Phases
    BY DEF TypeOK, SwitchOK
  <2>2. Abstract!OwnPump(s) <=> Current
    BY ViewFields DEF Abstract!OwnPump, Current
  <2>3. s.phase = PhaseKind(phase) /\ t.phase = PhaseKind(phase')
    BY ViewFields
  <2>4. /\ PhaseKind(phase) = "off" <=> phase = "switched-off"
        /\ PhaseKind(phase') = "off" <=> phase' = "switched-off"
    BY <2>1, PhaseKinded
  <2> QED BY <2>2, <2>3, <2>4 DEF Current, OnSaysSo
<1>6. t = [s EXCEPT !.phase = t.phase, !.backlog = t.backlog, !.queue = t.queue,
                    !.nextRec = t.nextRec]
  BY <1>1, <1>2, <1>3 DEF Abstract!Sitters
<1>7. t.backlog \in BOOLEAN /\ t.queue \in BOOLEAN /\ t.phase \in Abstract!PhaseKinds
  BY <1>1 DEF Abstract!Sitters
<1> HIDE DEF s, t
<1>8. t \in Abstract!Worked(s)
  BY <1>4, <1>5, <1>6, <1>7, WorkedMember
<1> QED BY <1>2, <1>8 DEF Abstract!Work, s, t

(* Every step of the pump between its start and its return is the abstract *)
(* sitter's Work.                                                          *)
LEMMA PumpRefined ==
  ASSUME TypeOK, TypeOK', SwitchInv, RestInv,
         Census \/ Drain \/ Admission \/ Settlement \/ HostThrows \/ PumpCatch
  PROVE  Abstract!Work
<1> DEFINE Kept == /\ Busy /\ Busy' /\ UNCHANGED <<enabled, epoch, token>>
                   /\ phase' = phase \/ (Current /\ phase' # "switched-off")
                   /\ nextReconciliationAt' \in {nextReconciliationAt, "armed"}
<1> USE DEF Busy, Go, Abandon, switch, deadline, tryVars
<1>1. StackCurrent
  BY DEF SwitchInv
<1>2. "switched-off" \notin GateReasons
  BY ConstantsAssumption
<1>4. ASSUME BeginCensus PROVE Kept
  BY <1>1, <1>2, <1>4 DEF BeginCensus
<1>5. ASSUME LoopTop PROVE Kept
  BY <1>1, <1>2, <1>5 DEF LoopTop
<1>6. ASSUME ListRead PROVE Kept
  BY <1>1, <1>2, <1>6 DEF ListRead
<1>7. ASSUME Listed PROVE Kept
  BY <1>1, <1>2, <1>7 DEF Listed
<1>8. ASSUME WalkRead PROVE Kept
  BY <1>1, <1>2, <1>8 DEF WalkRead
<1>9. ASSUME WalkRecord PROVE Kept
  BY <1>1, <1>2, <1>9 DEF WalkRecord
<1>10. ASSUME CensusClose PROVE Kept
  BY <1>1, <1>2, <1>10 DEF CensusClose
<1>11. ASSUME DrainBegin PROVE Kept
  BY <1>1, <1>2, <1>11 DEF DrainBegin, StackCurrent
<1>12. ASSUME DrainTake PROVE Kept
  BY <1>1, <1>2, <1>12 DEF DrainTake
<1>13. ASSUME DrainEnd PROVE Kept
  BY <1>1, <1>2, <1>13 DEF DrainEnd
<1>14. ASSUME DrainExpand PROVE Kept
  BY <1>1, <1>2, <1>14 DEF DrainExpand
<1>15. ASSUME DrainLook PROVE Kept
  BY <1>1, <1>2, <1>15 DEF DrainLook, Requeue
<1>16. ASSUME DrainRecord PROVE Kept
  BY <1>1, <1>2, <1>16 DEF DrainRecord, Requeue
<1>17. ASSUME DrainRetire PROVE Kept
  BY <1>1, <1>2, <1>17 DEF DrainRetire, Requeue
<1>18. ASSUME ChooseCandidate PROVE Kept
  BY <1>1, <1>2, <1>18 DEF ChooseCandidate
<1>19. ASSUME NoCandidate PROVE Kept
  BY <1>1, <1>2, <1>19 DEF NoCandidate, StackCurrent
<1>20. ASSUME AdmitAbandon PROVE Kept
  BY <1>1, <1>2, <1>20 DEF AdmitAbandon
<1>21. ASSUME GateOpen PROVE Kept
  BY <1>1, <1>2, <1>21 DEF GateOpen
<1>22. ASSUME GateShut PROVE Kept
  BY <1>1, <1>2, <1>22 DEF GateShut
<1>23. ASSUME AdmitLook PROVE Kept
  BY <1>1, <1>2, <1>23 DEF AdmitLook
<1>24. ASSUME AdmitSkip PROVE Kept
  BY <1>1, <1>2, <1>24 DEF AdmitSkip, AdmitRecord
<1>25. ASSUME AdmitMoved PROVE Kept
  BY <1>1, <1>2, <1>25 DEF AdmitMoved, AdmitRecord
<1>26. ASSUME AdmitWorkerBusy PROVE Kept
  BY <1>1, <1>2, <1>26 DEF AdmitWorkerBusy, AdmitRecord
<1>27. ASSUME Submit PROVE Kept
  BY <1>1, <1>2, <1>27 DEF Submit, AdmitRecord
<1>28. ASSUME EnsurePersists PROVE Kept
  BY <1>1, <1>2, <1>28 DEF EnsurePersists
<1>29. ASSUME EnsureReturns PROVE Kept
  BY <1>1, <1>2, <1>29 DEF EnsureReturns
<1>30. ASSUME SettleLook PROVE Kept
  BY <1>1, <1>2, <1>30 DEF SettleLook
<1>31. ASSUME SettleSuccess PROVE Kept
  BY <1>1, <1>2, <1>31 DEF SettleSuccess
<1>32. ASSUME FailureLook PROVE Kept
  BY <1>1, <1>2, <1>32 DEF FailureLook
<1>33. ASSUME SettleFailure PROVE Kept
  BY <1>1, <1>2, <1>33 DEF SettleFailure
<1>34. ASSUME HostThrows PROVE Kept
  BY <1>1, <1>2, <1>34 DEF HostThrows
<1>35. ASSUME PumpCatch PROVE Kept
  BY <1>1, <1>2, <1>35 DEF PumpCatch
<1>3. Kept BY <1>4, <1>5, <1>6, <1>7, <1>8, <1>9, <1>10, <1>11, <1>12, <1>13, <1>14,
     <1>15, <1>16, <1>17, <1>18, <1>19, <1>20, <1>21, <1>22, <1>23, <1>24, <1>25,
     <1>26, <1>27, <1>28, <1>29, <1>30, <1>31, <1>32, <1>33, <1>34, <1>35
     DEF Census, Drain, Admission, Settlement
<1> QED BY <1>3, WorkRefined DEF RestInv

(* The initial state of the sitter is the abstract one.                    *)
LEMMA ViewInit == Init => Abstract!Init
<1> SUFFICES ASSUME Init PROVE Abstract!Init
  OBVIOUS
<1>1. Queue = FALSE
  BY DEF Init, Queue, Pending, NoInfo, Queued
<1>2. PhaseKind(phase) = "ready"
  BY PhaseKinded DEF Init, Phases
<1>3. Backlog = TRUE /\ Busy = FALSE /\ enabled = TRUE
  BY DEF Init, Backlog, Busy
<1>4. epoch = 0 /\ token = 0 /\ nextReconciliationAt = "never"
  BY DEF Init
<1> QED BY <1>1, <1>2, <1>3, <1>4 DEF Abstract!Init, Abstract!NewSitter, View

(* Every step of the scheduler is a step of the abstract sitter, or none.  *)
LEMMA StepRefined ==
  ASSUME TypeOK, TypeOK', SwitchInv, RestInv, [Next]_vars
  PROVE  Abstract!Next \/ UNCHANGED View
<1> DEFINE s == View
           t == View'
<1> USE DEF Go, switch, deadline, census
<1>1. /\ phase \in Phases /\ phase' \in Phases
      /\ enabled \in BOOLEAN /\ epoch \in Nat /\ token \in Nat
      /\ reconciliationPending \in BOOLEAN /\ dirty \subseteq Ids
  BY DEF TypeOK, SwitchOK
<1>2. s \in Abstract!Sitters /\ t \in Abstract!Sitters
  BY ViewTyped
<1>3. /\ s.enabled = enabled /\ s.epoch = epoch /\ s.busy = Busy
      /\ s.token = token /\ s.phase = PhaseKind(phase) /\ s.backlog = Backlog
      /\ s.queue = Queue /\ s.nextRec = nextReconciliationAt
  BY ViewFields
<1>4. /\ t.enabled = enabled' /\ t.epoch = epoch' /\ t.busy = Busy'
      /\ t.token = token' /\ t.phase = PhaseKind(phase') /\ t.backlog = Backlog'
      /\ t.queue = Queue' /\ t.nextRec = nextReconciliationAt'
  BY ViewFields
<1> HIDE DEF s, t
<1>5. CASE UNCHANGED vars
  BY <1>5 DEF vars, View, Backlog, Queue, Busy, Pending, tryVars
<1>6. ASSUME PumpStart PROVE Abstract!Begin
  <2>1. UNCHANGED <<enabled, epoch, phase, Backlog, Queue, nextReconciliationAt>>
    BY <1>6 DEF PumpStart, Backlog, Queue, Pending
  <2>2. Busy = FALSE /\ Busy' = TRUE /\ token' = epoch /\ enabled = TRUE
    BY <1>1, <1>6 DEF PumpStart, Busy
  <2>3. t = Abstract!PumpStarted(s)
    <3>1. /\ t.enabled = s.enabled /\ t.epoch = s.epoch /\ t.busy = TRUE /\ t.token = s.epoch
          /\ t.phase = s.phase /\ t.backlog = s.backlog /\ t.queue = s.queue
          /\ t.nextRec = s.nextRec
      BY <1>3, <1>4, <2>1, <2>2
    <3>2. t = [s EXCEPT !.busy = TRUE, !.token = s.epoch]
      BY <1>2, <3>1 DEF Abstract!Sitters
    <3> QED BY <3>2 DEF Abstract!PumpStarted
  <2> QED BY <1>3, <2>2, <2>3 DEF Abstract!Begin, Abstract!CanPump, s, t
<1>7. ASSUME Census \/ Drain \/ Admission \/ Settlement \/ HostThrows \/ PumpCatch
      PROVE  Abstract!Work
  BY <1>7, PumpRefined
<1>8. ASSUME PumpReturn PROVE Abstract!Return
  <2>1. /\ Busy = TRUE /\ Busy' = FALSE
        /\ UNCHANGED <<enabled, epoch, token, Backlog, Queue, nextReconciliationAt>>
    BY <1>8 DEF PumpReturn, Busy, Backlog, Queue, Pending
  <2>2. Current => phase # "extracting"
    BY <1>8, ConstantsAssumption DEF PumpReturn, RestInv, ExitEarned
  <2>3. UNCHANGED phase
    BY <1>8, <2>2 DEF PumpReturn
  <2>4. t = [s EXCEPT !.busy = FALSE]
    <3>1. /\ t.enabled = s.enabled /\ t.epoch = s.epoch /\ t.busy = FALSE /\ t.token = s.token
          /\ t.phase = s.phase /\ t.backlog = s.backlog /\ t.queue = s.queue
          /\ t.nextRec = s.nextRec
      BY <1>3, <1>4, <2>1, <2>3
    <3> QED BY <1>2, <3>1 DEF Abstract!Sitters
  <2>5. Abstract!OwnPump(s) <=> Current
    BY <1>3 DEF Abstract!OwnPump, Current
  <2>6. s \in Abstract!Worked(s)
    <3>1. s = [s EXCEPT !.phase = s.phase, !.backlog = s.backlog, !.queue = s.queue,
                        !.nextRec = s.nextRec]
      BY <1>2 DEF Abstract!Sitters
    <3>2. Abstract!OwnPump(s) => s.phase # "off"
      BY <1>1, <1>3, <2>5, PhaseKinded DEF Current, RestInv, OnSaysSo
    <3>3. s.backlog \in BOOLEAN /\ s.queue \in BOOLEAN /\ s.phase \in Abstract!PhaseKinds
      BY <1>2 DEF Abstract!Sitters
    <3> QED BY <3>1, <3>2, <3>3, WorkedMember
  <2>7. Abstract!OwnPump(s) => Abstract!AtRest(s)
    <3> SUFFICES ASSUME Current PROVE Abstract!AtRest(s)
      BY <2>5
    <3>1. pc = "exit"
      BY <1>8 DEF PumpReturn
    <3>2. phase \in {"waiting"} \cup (GateReasons \ {"native-worker-busy"}) => ~Backlog
      BY <3>1 DEF SwitchInv, RestsDrained, Backlog
    <3>3. \/ phase = "waiting"
          \/ phase \in GateReasons \cup {"native-worker-busy"} /\ Queue
          \/ phase = "error" /\ Backlog
      BY <3>1 DEF RestInv, ExitEarned, Queue, Backlog
    <3> QED BY <1>1, <1>3, <3>2, <3>3, PhaseKinded DEF Abstract!AtRest
  <2>8. t \in Abstract!PumpReturned(s)
    BY <2>4, <2>6, <2>7 DEF Abstract!PumpReturned
  <2> QED BY <1>3, <2>1, <2>8 DEF Abstract!Return, s, t
<1>9. ASSUME Stop PROVE Abstract!Stop
  <2>1. PhaseKind(phase') = "off"
    BY <1>1, <1>9, PhaseKinded DEF Stop
  <2>2. UNCHANGED <<Busy, token, Backlog, Queue, nextReconciliationAt>>
    BY <1>9 DEF Stop, Pump_unchanged, tryVars, Busy, Backlog, Queue, Pending
  <2>3. enabled = TRUE /\ enabled' = FALSE /\ epoch' = epoch + 1
    BY <1>1, <1>9 DEF Stop
  <2>4. t = Abstract!SwitchedOff(s)
    <3> DEFINE e == s.epoch + 1
    <3>1. /\ t.enabled = FALSE /\ t.epoch = e /\ t.busy = s.busy /\ t.token = s.token
          /\ t.phase = "off" /\ t.backlog = s.backlog /\ t.queue = s.queue
          /\ t.nextRec = s.nextRec
      BY <1>3, <1>4, <2>1, <2>2, <2>3
    <3>2. t = [s EXCEPT !.enabled = FALSE, !.epoch = e, !.phase = "off"]
      <4> HIDE DEF e
      <4> QED BY <1>2, <3>1 DEF Abstract!Sitters
    <3> QED BY <1>2, <3>2 DEF Abstract!SwitchedOff, Abstract!Stopped, Abstract!Sitters
  <2> QED BY <1>3, <2>3, <2>4 DEF Abstract!Stop, s, t
<1>10. ASSUME Start PROVE Abstract!Start
  <2>1. PhaseKind(phase') = IF PhaseKind(phase) = "off" THEN "ready" ELSE PhaseKind(phase)
    BY <1>1, <1>10, PhaseKinded DEF Start
  <2>2. UNCHANGED <<Busy, token, epoch, Queue, nextReconciliationAt>>
    BY <1>10 DEF Start, Pump_unchanged, tryVars, Busy, Queue, Pending
  <2>3. enabled = FALSE /\ enabled' = TRUE /\ Backlog' = TRUE
    BY <1>1, <1>10 DEF Start, Backlog
  <2> DEFINE p == IF s.phase = "off" THEN "ready" ELSE s.phase
  <2>4. t.phase = p
    BY <1>3, <1>4, <2>1
  <2>5. p \in Abstract!PhaseKinds
    BY <1>2, <2>4 DEF Abstract!Sitters
  <2>6. t = [s EXCEPT !.enabled = TRUE, !.backlog = TRUE, !.phase = p]
    <3> HIDE DEF p
    <3>1. /\ t.enabled = TRUE /\ t.epoch = s.epoch /\ t.busy = s.busy /\ t.token = s.token
          /\ t.backlog = TRUE /\ t.queue = s.queue /\ t.nextRec = s.nextRec
      BY <1>3, <1>4, <2>2, <2>3
    <3> QED BY <1>2, <2>4, <2>5, <3>1 DEF Abstract!Sitters
  <2>7. t = Abstract!Started(s)
    BY <2>6 DEF Abstract!Started
  <2> QED BY <1>3, <2>3, <2>7 DEF Abstract!Start, s, t
<1>11. ASSUME HourPasses PROVE Abstract!Hour
  <2>1. UNCHANGED <<enabled, epoch, Busy, token, phase, Backlog, Queue>>
    BY <1>11 DEF HourPasses, Pump_unchanged, tryVars, Busy, Backlog, Queue, Pending
  <2>2. nextReconciliationAt = "armed" /\ nextReconciliationAt' = "due"
    BY <1>11 DEF HourPasses
  <2>3. t = Abstract!HourPassed(s)
    <3>1. /\ t.enabled = s.enabled /\ t.epoch = s.epoch /\ t.busy = s.busy /\ t.token = s.token
          /\ t.phase = s.phase /\ t.backlog = s.backlog /\ t.queue = s.queue
          /\ s.nextRec = "armed" /\ t.nextRec = "due"
      BY <1>3, <1>4, <2>1, <2>2
    <3>2. t = [s EXCEPT !.nextRec = "due"]
      BY <1>2, <3>1 DEF Abstract!Sitters
    <3> QED BY <3>1, <3>2 DEF Abstract!HourPassed
  <2> QED BY <2>3 DEF Abstract!Hour, s, t
<1>12. ASSUME Notify PROVE Abstract!Notify
  <2>1. UNCHANGED <<enabled, epoch, Busy, token, phase, Queue, nextReconciliationAt>>
    BY <1>12 DEF Notify, Pump_unchanged, tryVars, Busy, Queue, Pending
  <2>2. CASE enabled
    <3>1. Backlog' = TRUE
      BY <1>12, <2>2 DEF Notify, Backlog
    <3>2. s.enabled = TRUE
      BY <1>1, <1>3, <2>2
    <3>3. t = [s EXCEPT !.backlog = TRUE]
      <4>1. /\ t.enabled = s.enabled /\ t.epoch = s.epoch /\ t.busy = s.busy
            /\ t.token = s.token /\ t.phase = s.phase /\ t.backlog = TRUE
            /\ t.queue = s.queue /\ t.nextRec = s.nextRec
        BY <1>3, <1>4, <2>1, <3>1
      <4> QED BY <1>2, <4>1 DEF Abstract!Sitters
    <3>4. t = Abstract!Notified(s)
      BY <3>2, <3>3 DEF Abstract!Notified
    <3> QED BY <3>4 DEF Abstract!Notify, s, t
  <2>3. CASE ~enabled
    <3>1. UNCHANGED Backlog
      BY <1>12, <2>3 DEF Notify, Backlog
    <3>2. t = Abstract!Notified(s)
      <4>1. /\ t.enabled = s.enabled /\ t.epoch = s.epoch /\ t.busy = s.busy
            /\ t.token = s.token /\ t.phase = s.phase /\ t.backlog = s.backlog
            /\ t.queue = s.queue /\ t.nextRec = s.nextRec
        BY <1>3, <1>4, <2>1, <3>1
      <4>2. t = s
        BY <1>2, <4>1 DEF Abstract!Sitters
      <4>3. s.enabled = FALSE
        BY <1>1, <1>3, <2>3
      <4> QED BY <4>2, <4>3 DEF Abstract!Notified
    <3> QED BY <3>2 DEF Abstract!Notify, s, t
  <2> QED BY <2>2, <2>3
<1>13. ASSUME AttachmentChanges \/ AttachmentAdded \/ AttachmentErased \/ RecordGoes
       PROVE  UNCHANGED View
  <2>1. Outside
    BY <1>13 DEF AttachmentChanges, AttachmentAdded, AttachmentErased, RecordGoes
  <2> QED BY <2>1 DEF Outside, Pump_unchanged, tryVars, View, Backlog, Queue, Busy, Pending
<1> QED BY <1>5, <1>6, <1>7, <1>8, <1>9, <1>10, <1>11, <1>12, <1>13
        DEF Next, Pump, Environment, Abstract!Next

(* The scheduler keeps the promise the sweep loop is built on: one pump at *)
(* a time, under the epoch it started in; one that outlived its epoch      *)
(* leaves the phase alone; a current one returns only at a rest.           *)
THEOREM SitterKeepsItsPromise == Spec => SitterPromise
<1>1. TypeOK /\ TypeOK' /\ SwitchInv /\ RestInv /\ [Next]_vars => [Abstract!Next]_View
  BY StepRefined
<1>2. Spec => Abstract!Init /\ [][Abstract!Next]_View
  BY <1>1, ViewInit, TypeCorrect, SwitchInvInit, SwitchInvStep, RestInvInit, RestInvStep,
     PTL DEF Spec
<1> QED BY <1>2 DEF SitterPromise, Abstract!Spec
=============================================================================
