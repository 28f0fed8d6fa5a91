---------------------------- MODULE SDTScheduler ----------------------------
(***************************************************************************)
(* createSDTSitter(host): the pump that keeps a census of the library,     *)
(* drains the change events, and hands one document at a time to Zotero's  *)
(* native extractor.                                                       *)
(*                                                                         *)
(* JavaScript runs to completion: a stretch of code between two awaits is  *)
(* never interrupted.  pc names where the pump stands.  At an await point  *)
(* any callback may run (a notification, the switch, the clock); at a      *)
(* point of OnStack the pump is on the stack and only it can move.  A      *)
(* read made by an awaited host call is one step and the continuation that *)
(* uses what was read is a later one, so that what is used may be stale.   *)
(***************************************************************************)
EXTENDS SDTStatuses, Integers, FiniteSets

CONSTANTS
  Docs,         \* item ids of attachments
  Recs,         \* item ids of bibliographic records
  ParentOf,     \* the record an attachment hangs under, or NoId
  NoId,         \* no item id (undefined, null, false)
  Dirs,         \* storage directories an attachment can live in
  LibStatuses,  \* the statuses the outside world can put an attachment in
  GateReasons,  \* the phases blocked() can answer
  MaxUpsets,    \* bound: changes from outside and inspections that throw, together
  MaxStops      \* bound: how often the switch is thrown off

Ids == Docs \cup Recs

ASSUME ConstantsAssumption ==
  /\ IsFiniteSet(Docs) /\ IsFiniteSet(Recs)
  /\ Docs \cap Recs = {} /\ NoId \notin Ids
  /\ ParentOf \in [Docs -> Recs \cup {NoId}]
  /\ LibStatuses \subseteq InspectStatuses
  /\ {"excluded", "current"} \subseteq LibStatuses
  /\ GateReasons \cap {"ready", "census", "draining", "waiting", "extracting",
                       "error", "switched-off"} = {}
  /\ MaxUpsets \in Nat /\ MaxStops \in Nat

VARIABLES
  \* the library, the disk and the notifier: outside the plugin
  lib,          \* [Ids -> item as it is now]
  upsets,       \* changes from outside and inspections that threw, so far
  undelivered,  \* ids whose notification has not reached the plugin yet
  silent,       \* ids changed without any notification and not inspected since
  misread,      \* ids whose last inspection threw, and no event has named since
  \* the sitter's closure
  enabled, epoch, reconciliationPending, nextReconciliationAt,
  dirty,        \* ids notified and not yet drained
  failed,       \* identities held for the session
  observed,     \* last recorded inspection of every attachment
  counts, scanned, total, censusBuilding, censusSnapshot, phase,
  tracked,      \* attachments in the host's parent map
  \* the pump's locals
  pc, token, attempted,
  todo,         \* ids the running loop has still to inspect
  next,         \* the census generation being built
  drained,      \* the dirty id being retired
  candidates,   \* records whose membership the generation must re-read
  unplaceable,  \* ids gone that were never tracked
  retired,      \* the pass has retired an id
  reconcileNeeded,
  doc, buf,     \* the id inspected last and what the inspection answered
  knew,         \* doc was tracked before that inspection
  gated,        \* the observation the resource gate was asked about
  submitted     \* <<id, identity>> submitted since the library last changed, but
                \* for a submission whose failure could not be examined

library  == <<lib, upsets, undelivered, silent, misread>>
switch   == <<enabled, epoch>>
census   == <<observed, counts, scanned, total, censusBuilding>>
deadline == <<reconciliationPending, nextReconciliationAt>>
walkVars == <<todo, next>>
passVars == <<drained, candidates, unplaceable, retired, reconcileNeeded>>
readVars == <<doc, buf, knew, tracked>>
tryVars  == <<token, attempted, gated>>
session  == <<failed, submitted>>
vars == <<library, switch, deadline, dirty, session, census, censusSnapshot, phase,
          pc, tryVars, walkVars, passVars, readVars>>

-----------------------------------------------------------------------------
(* Data.                                                                   *)

(* An item outside: its status ("absent" when there is no such row), the   *)
(* version of its source file, its storage directory.  Version 0 is an id  *)
(* not created yet.                                                        *)
Items == [status: InspectStatuses \cup {"absent"}, src: Nat, dir: Dirs]

(* An inspection's answer; identity 0 stands for none.                     *)
Infos == [status: Statuses, identity: Nat, directory: Dirs, absent: BOOLEAN]
NoInfo == [status |-> "none", identity |-> 0, directory |-> NoId, absent |-> FALSE]

Exists(x) == lib[x].status # "absent"

(* Wrong: a row that is gone answers a status of no class.                 *)
InspectUnclassed(x) ==
  [status    |-> lib[x].status,
   identity  |-> IF lib[x].status \in Identified THEN lib[x].src ELSE 0,
   directory |-> lib[x].dir,
   absent    |-> ~Exists(x)]

Inspect(x) ==
  [status    |-> IF Exists(x) THEN lib[x].status ELSE "excluded",
   identity  |-> IF lib[x].status \in Identified THEN lib[x].src ELSE 0,
   directory |-> lib[x].dir,
   absent    |-> ~Exists(x)]

Unexamined == "inspection-error"

(* Wrong: an inspection that throws passes for an item out of scope.       *)
InspectThrownExcluded(x) ==
  [status |-> "excluded", identity |-> 0, directory |-> lib[x].dir, absent |-> FALSE]

(* The same when the host's inspection throws: a query, the path, the hash *)
(* or the disk refuses this once.  The scheduler answers in its place.     *)
InspectThrown(x) ==
  [status |-> Unexamined, identity |-> 0, directory |-> lib[x].dir, absent |-> FALSE]

(* Wrong: a failure is not held.                                           *)
ClassifyUnheld(x, info, held) == info

Classify(x, info, held) ==
  IF info.status \in Queued /\ <<x, info.identity>> \in held
  THEN [info EXCEPT !.status = "failed-session"]
  ELSE info

(* Wrong: only the children the database still lists.                      *)
ChildrenListed(r) == {d \in Docs : ParentOf[d] = r /\ Exists(d)}

(* host.affected(id): the attachment itself, or a record's children (those *)
(* the parent map remembers and those the database still lists), and the   *)
(* id itself when no row is left under it.                                 *)
Children(r) == {d \in Docs : ParentOf[d] = r /\ (d \in tracked \/ Exists(d))}
Affected(x) == (IF x \in Docs \/ ~Exists(x) THEN {x} ELSE {}) \cup Children(x)

Seen(view)  == {x \in Ids : view[x] # NoInfo}
Zero        == [s \in Statuses |-> 0]
(* Wrong: the status an item leaves is not counted down.                   *)
BumpUpOnly(c, s, n) == IF s \in Statuses /\ n > 0 THEN [c EXCEPT ![s] = @ + n] ELSE c
Bump(c, s, n) == IF s \in Statuses THEN [c EXCEPT ![s] = @ + n] ELSE c

NoSnapshot == [kind |-> "none", counts |-> Zero, total |-> 0,
               members |-> [x \in Ids |-> NoInfo]]

Pending == {x \in Ids : observed[x].status \in Queued}

(* find(): an item not tried in this pump, or tried under an identity it   *)
(* no longer has.  attempted[x] = 0 is both "not tried" and "tried without *)
(* an identity", which the code's test treats alike.                       *)
Admissible == {x \in Pending : attempted[x] # observed[x].identity}

Busy == pc # "idle"
Current == enabled /\ token = epoch

(* Points the pump never yields at.                                        *)
OnStack == \/ pc \in {"top", "drain", "take", "choose", "catch", "exit"}
           \/ pc = "refresh" /\ candidates = {}

(* From submission to settlement.                                          *)
Settling == {"ensure", "verify", "settle", "autopsy", "bury"}
Active == IF pc \in Settling THEN doc ELSE NoId

-----------------------------------------------------------------------------
(* Parts of steps, in primed variables.                                    *)

(* Wrong: a census about to close its walk is taken for a whole generation.*)
PublishRebuilding ==
  censusSnapshot' = IF scanned' = total'
                    THEN [kind |-> "whole", counts |-> counts', total |-> total',
                          members |-> observed']
                    ELSE censusSnapshot

(* publish(): a whole generation replaces the held snapshot at once.       *)
Publish ==
  censusSnapshot' = IF scanned' = total' /\ ~censusBuilding'
                    THEN [kind |-> "whole", counts |-> counts', total |-> total',
                          members |-> observed']
                    ELSE censusSnapshot

(* record(id, info), classified against the failures held.                 *)
Record(x, info, held) ==
  LET entry   == Classify(x, info, held)
      without == Bump(counts, observed[x].status, -1)
  IN  /\ observed' = [observed EXCEPT ![x] = IF info.absent THEN NoInfo ELSE entry]
      /\ counts'   = IF info.absent THEN without ELSE Bump(without, entry.status, 1)
      /\ total'    = Cardinality(Seen(observed'))
      /\ scanned'  = total'
      /\ UNCHANGED censusBuilding

(* The parent map learns an attachment that is there, and forgets another. *)
LookAnswers(x) ==
  /\ buf' = Inspect(x)
  /\ tracked' = IF Exists(x) THEN tracked \cup ({x} \cap Docs) ELSE tracked \ {x}
  /\ silent' = silent \ {x} /\ misread' = misread \ {x}
  /\ UNCHANGED upsets

(* The error comes before the parent map is written, or after.             *)
LookThrows(x) ==
  /\ upsets < MaxUpsets /\ upsets' = upsets + 1
  /\ buf' = InspectThrown(x)
  /\ tracked' \in {tracked, tracked \cup {d \in Docs : d = x /\ Exists(d)}}
  /\ misread' = misread \cup {x}
  /\ UNCHANGED silent

(* One await inspect(x): what it answers is kept in buf.                   *)
Look(x) ==
  /\ doc' = x
  /\ knew' = (x \in tracked)
  /\ LookAnswers(x) \/ LookThrows(x)
  /\ UNCHANGED <<lib, undelivered>>

Go(point) == pc' = point

(* A block's locals end with it.                                           *)
Forget == doc' = NoId /\ buf' = NoInfo /\ knew' = FALSE /\ UNCHANGED tracked
Dismiss == Forget /\ gated' = NoInfo

(* Every `if (!current()) return;` outside the drain.                      *)
Abandon == ~Current /\ Go("exit")

-----------------------------------------------------------------------------
(* pump(): entry, the outer loop and the census.                           *)

PumpStart ==
  /\ enabled /\ ~Busy
  /\ token' = epoch
  /\ attempted' = [x \in Ids |-> 0]
  /\ Go("top")
  /\ UNCHANGED <<library, switch, deadline, dirty, session, census, censusSnapshot,
                 phase, gated, walkVars, passVars, readVars>>

(* Wrong: no hourly reconciliation.                                        *)
CensusOnDemand == reconciliationPending

CensusDue == reconciliationPending \/ nextReconciliationAt = "due"

BeginCensus ==
  /\ pc = "top" /\ Current /\ CensusDue
  /\ reconciliationPending' = FALSE
  /\ censusSnapshot' = IF total > 0 /\ scanned # total /\ censusSnapshot = NoSnapshot
                       THEN [NoSnapshot EXCEPT !.kind = "partial", !.counts = counts,
                                               !.total = total]
                       ELSE censusSnapshot
  /\ phase' = "census"
  /\ scanned' = 0 /\ counts' = Zero /\ censusBuilding' = TRUE
  /\ next' = [x \in Ids |-> NoInfo]
  /\ Go("list")
  /\ UNCHANGED <<library, switch, nextReconciliationAt, dirty, session, observed, total,
                 tryVars, todo, passVars, readVars>>

LoopTop ==
  /\ pc = "top"
  /\ \/ Abandon
     \/ Current /\ ~CensusDue /\ Go("drain")
  /\ UNCHANGED <<library, switch, deadline, dirty, session, census, censusSnapshot,
                 phase, tryVars, walkVars, passVars, readVars>>

(* host.list() reads the attachment rows; its continuation awaits the view *)
(* of records without a file.                                              *)
ListRead ==
  /\ pc = "list"
  /\ todo' = {d \in Docs : Exists(d)}
  /\ Go("listed")
  /\ UNCHANGED <<library, switch, deadline, dirty, session, census, censusSnapshot,
                 phase, tryVars, next, passVars, readVars>>

HostThrows ==
  /\ pc \in {"list", "affected"}
  /\ Go("catch")
  /\ UNCHANGED <<library, switch, deadline, dirty, session, census, censusSnapshot,
                 phase, tryVars, walkVars, passVars, readVars>>

Listed ==
  /\ pc = "listed"
  /\ \/ Abandon /\ UNCHANGED <<census, censusSnapshot>>
     \/ /\ Current
        /\ total' = Cardinality(todo)
        /\ UNCHANGED <<observed, counts, scanned, censusBuilding>>
        /\ Publish
        /\ Go(IF todo = {} THEN "close" ELSE "walk")
  /\ UNCHANGED <<library, switch, deadline, dirty, session,
                 phase, tryVars, walkVars, passVars, readVars>>

WalkRead ==
  /\ pc = "walk"
  /\ \/ Abandon /\ UNCHANGED <<library, readVars>>
     \/ Current /\ (\E x \in todo : Look(x)) /\ Go("walked")
  /\ UNCHANGED <<switch, deadline, dirty, session, census, censusSnapshot,
                 phase, tryVars, walkVars, passVars>>

WalkRecord ==
  /\ pc = "walked"
  /\ \/ Abandon /\ UNCHANGED <<census, censusSnapshot, walkVars, readVars>>
     \/ /\ Current
        /\ LET entry == Classify(doc, buf, failed)
           IN  /\ next' = [next EXCEPT ![doc] = entry]
               /\ counts' = Bump(counts, entry.status, 1)
        /\ todo' = todo \ {doc}
        /\ scanned' = scanned + 1
        /\ UNCHANGED <<observed, total, censusBuilding>>
        /\ Publish /\ Forget
        /\ Go(IF todo' = {} THEN "close" ELSE "walk")
  /\ UNCHANGED <<library, switch, deadline, dirty, session,
                 phase, tryVars, passVars>>

(* host.censusComplete() has saved the cache; the generation replaces the  *)
(* last one in one synchronous stretch.                                    *)
CensusClose ==
  /\ pc = "close"
  /\ \/ Abandon /\ UNCHANGED <<census, censusSnapshot, phase, nextReconciliationAt, next>>
     \/ /\ Current
        /\ observed' = next
        /\ next' = [x \in Ids |-> NoInfo]
        /\ censusBuilding' = FALSE
        /\ nextReconciliationAt' = "armed"
        /\ UNCHANGED <<counts, scanned, total>>
        /\ Publish
        /\ phase' = "ready"
        /\ Go("drain")
  /\ UNCHANGED <<library, switch, reconciliationPending, dirty, session,
                 tryVars, todo, passVars, readVars>>

-----------------------------------------------------------------------------
(* pump(): the drain of the change events.                                 *)

DrainBegin ==
  /\ pc = "drain"
  /\ phase' = IF dirty # {} THEN "draining" ELSE phase
  /\ IF dirty # {} THEN UNCHANGED census /\ Publish
     ELSE UNCHANGED <<census, censusSnapshot>>
  /\ retired' = FALSE /\ reconcileNeeded' = FALSE
  /\ Go("take")
  /\ UNCHANGED <<library, switch, deadline, dirty, session, tryVars, walkVars,
                 drained, candidates, unplaceable, readVars>>

(* The id leaves dirty before anything is awaited.                         *)
DrainTake ==
  /\ pc = "take"
  /\ \E x \in dirty : /\ dirty' = dirty \ {x}
                      /\ drained' = x
  /\ Go("affected")
  /\ UNCHANGED <<library, switch, deadline, session, census, censusSnapshot, phase,
                 tryVars, walkVars, candidates, unplaceable, retired,
                 reconcileNeeded, readVars>>

(* The backlog is empty, or the wall-clock budget is spent and the pass    *)
(* has retired an id.  A pass that could not place an id asks for a census *)
(* and returns to the top for it.                                          *)
DrainEnd ==
  /\ pc = "take"
  /\ dirty = {} \/ retired
  /\ retired' = FALSE /\ reconcileNeeded' = FALSE
  /\ reconciliationPending' = (reconciliationPending \/ reconcileNeeded)
  /\ Go(IF reconciliationPending' THEN "top" ELSE "choose")
  /\ UNCHANGED <<library, switch, nextReconciliationAt, dirty, session, census,
                 censusSnapshot, phase, tryVars, walkVars, drained, candidates,
                 unplaceable, readVars>>

(* host.affected(id) reads which ids the event touches.  An id not among   *)
(* them is the record whose membership may have moved.                     *)
DrainExpand ==
  /\ pc = "affected"
  /\ todo' = Affected(drained)
  /\ candidates' = {drained} \ todo'
  /\ unplaceable' = {}
  /\ Go(IF todo' = {} THEN "refresh" ELSE "look")
  /\ UNCHANGED <<library, switch, deadline, dirty, session, census, censusSnapshot,
                 phase, tryVars, next, drained, retired, reconcileNeeded, readVars>>

(* Switched off under an await: the id goes back and the pump returns.     *)
Requeue == ~Current /\ dirty' = dirty \cup {drained} /\ Go("exit")

DrainLook ==
  /\ pc = "look"
  /\ \/ Requeue /\ UNCHANGED <<library, readVars>>
     \/ Current /\ (\E x \in todo : Look(x)) /\ Go("looked") /\ UNCHANGED dirty
  /\ UNCHANGED <<switch, deadline, session, census, censusSnapshot, phase, tryVars,
                 walkVars, passVars>>

(* The parent the map remembered and the one the answer names: none when   *)
(* the item is gone or in the trash; an error may come before or after the *)
(* name is read.                                                           *)
Parent == IF doc \in Docs THEN {ParentOf[doc]} \ {NoId} ELSE {}
ParentsNamed == {named \in {{}, Parent} :
                   /\ knew \/ buf.status \notin {"excluded", Unexamined} => named = Parent
                   /\ ~knew /\ buf.status = "excluded" => named = {}}

DrainRecord ==
  /\ pc = "looked"
  /\ \/ Requeue /\ UNCHANGED <<census, todo, candidates, unplaceable, readVars>>
     \/ /\ Current
        /\ Record(doc, buf, failed)
        /\ \E named \in ParentsNamed : candidates' = candidates \cup named
        /\ unplaceable' = IF ~knew /\ buf.absent THEN unplaceable \cup {doc}
                          ELSE unplaceable
        /\ todo' = todo \ {doc}
        /\ Go(IF todo' = {} THEN "refresh" ELSE "look")
        /\ UNCHANGED dirty /\ Forget
  /\ UNCHANGED <<library, switch, deadline, session, censusSnapshot, phase, tryVars,
                 next, drained, retired, reconcileNeeded>>

(* host.refreshUnattached(candidates) re-reads the records named, and the  *)
(* id is retired.                                                          *)
DrainRetire ==
  /\ pc = "refresh"
  /\ \/ Requeue /\ UNCHANGED <<census, censusSnapshot, passVars>>
     \/ /\ Current
        /\ retired' = TRUE
        /\ reconcileNeeded' = (reconcileNeeded \/ unplaceable \ candidates # {})
        /\ drained' = NoId /\ candidates' = {} /\ unplaceable' = {}
        /\ UNCHANGED census
        /\ Publish
        /\ Go("take")
        /\ UNCHANGED dirty
  /\ UNCHANGED <<library, switch, deadline, session, phase, tryVars, walkVars,
                 readVars>>

-----------------------------------------------------------------------------
(* pump(): admission.                                                      *)

ChooseCandidate ==
  /\ pc = "choose"
  /\ \E x \in Admissible : doc' = x /\ gated' = observed[x]
  /\ Go("gate")
  /\ UNCHANGED <<library, switch, deadline, dirty, session, census, censusSnapshot,
                 phase, token, attempted, walkVars, passVars, buf, knew, tracked>>

(* Wrong: rests whatever arrived during the drain.                         *)
NoCandidateRests ==
  /\ pc = "choose" /\ Admissible = {}
  /\ Go("exit") /\ phase' = "waiting"
  /\ UNCHANGED <<library, switch, deadline, dirty, session, census, censusSnapshot,
                 tryVars, walkVars, passVars, readVars>>

NoCandidate ==
  /\ pc = "choose" /\ Admissible = {}
  /\ IF dirty # {} THEN Go("top") /\ UNCHANGED phase
     ELSE Go("exit") /\ phase' = "waiting"
  /\ UNCHANGED <<library, switch, deadline, dirty, session, census, censusSnapshot,
                 tryVars, walkVars, passVars, readVars>>

AdmitAbandon ==
  /\ pc \in {"gate", "admit"}
  /\ Abandon
  /\ UNCHANGED <<library, switch, deadline, dirty, session, census, censusSnapshot,
                 phase, tryVars, walkVars, passVars, readVars>>

GateOpen ==
  /\ pc = "gate" /\ Current
  /\ Go("recheck")
  /\ UNCHANGED <<library, switch, deadline, dirty, session, census, censusSnapshot,
                 phase, tryVars, walkVars, passVars, readVars>>

(* host.blocked(before) answers a reason.  A resource wait must not delay  *)
(* discovery: events still waiting send the pump back to the drain.        *)
GateShut ==
  /\ pc = "gate" /\ Current
  /\ phase' \in GateReasons
  /\ UNCHANGED census
  /\ Publish /\ Dismiss
  /\ Go(IF dirty # {} THEN "top" ELSE "exit")
  /\ UNCHANGED <<library, switch, deadline, dirty, session, token, attempted,
                 walkVars, passVars>>

AdmitLook ==
  /\ pc = "recheck"
  /\ Look(doc)
  /\ Go("admit")
  /\ UNCHANGED <<switch, deadline, dirty, session, census, censusSnapshot, phase,
                 tryVars, walkVars, passVars>>

(* Wrong: the switch is not looked at after the inspection.                *)
AdmitRecordBlind ==
  /\ pc = "admit"
  /\ Record(doc, buf, failed)
  /\ Publish
  /\ UNCHANGED <<library, switch, deadline, dirty, failed, token, walkVars, passVars>>

(* The second inspection is recorded and published whatever follows.       *)
AdmitRecord ==
  /\ pc = "admit" /\ Current
  /\ Record(doc, buf, failed)
  /\ Publish
  /\ UNCHANGED <<library, switch, deadline, dirty, failed, token, walkVars, passVars>>

(* Wrong: what the gate was asked about is taken for what is there now.    *)
NeverMoved   == FALSE
NeverChanged == FALSE

StillQueued == observed'[doc].status \in Queued
Moved       == buf.directory # gated.directory
Changed     == buf.identity # gated.identity

(* No longer wanted, or rewritten since the gate: marked as tried under    *)
(* the identity just seen.                                                 *)
AdmitSkip ==
  /\ AdmitRecord /\ Dismiss
  /\ ~StillQueued \/ (~Moved /\ Changed)
  /\ attempted' = [attempted EXCEPT ![doc] = buf.identity]
  /\ Go("top")
  /\ UNCHANGED <<submitted, phase>>

(* Moved: the gate read another directory, so it is asked again at once.   *)
AdmitMoved ==
  /\ AdmitRecord /\ Dismiss
  /\ StillQueued /\ Moved
  /\ Go("top")
  /\ UNCHANGED <<submitted, attempted, phase>>

(* beforeSubmit(): the native worker was taken while the document was      *)
(* inspected.                                                              *)
AdmitWorkerBusy ==
  /\ AdmitRecord /\ Dismiss
  /\ StillQueued /\ ~Moved /\ ~Changed
  /\ phase' = "native-worker-busy"
  /\ Go("exit")
  /\ UNCHANGED <<submitted, attempted>>

Submit ==
  /\ AdmitRecord /\ UNCHANGED <<gated, readVars>>
  /\ StillQueued /\ ~Moved /\ ~Changed
  /\ attempted' = [attempted EXCEPT ![doc] = buf.identity]
  /\ submitted' = submitted \cup {<<doc, buf.identity>>}
  /\ phase' = "extracting"
  /\ Go("ensure")

-----------------------------------------------------------------------------
(* pump(): settlement.  No test of Current from here until the outcome is  *)
(* recorded.  gated.identity is the identity submitted (Submit's guard).   *)

(* Zotero's native worker persists a pack for the source it was given, if  *)
(* that is still the source; the call may yet fail after persisting.       *)
EnsurePersists ==
  /\ pc = "ensure"
  /\ lib[doc].status \in Queued /\ lib[doc].src = gated.identity
  /\ \E s \in Verified \cap LibStatuses : lib' = [lib EXCEPT ![doc].status = s]
  /\ \E point \in {"verify", "autopsy"} : Go(point)
  /\ UNCHANGED <<upsets, undelivered, silent, misread, switch, deadline, dirty,
                 session, census, censusSnapshot, phase, tryVars, walkVars, passVars,
                 readVars>>

(* It answers with nothing persisted, or throws, or answers false.         *)
EnsureReturns ==
  /\ pc = "ensure"
  /\ \E point \in {"verify", "autopsy"} : Go(point)
  /\ UNCHANGED <<library, switch, deadline, dirty, session, census, censusSnapshot,
                 phase, tryVars, walkVars, passVars, readVars>>

SettleLook ==
  /\ pc = "verify"
  /\ Look(doc)
  /\ Go(IF buf'.status \in Verified /\ buf'.identity = gated.identity
        THEN "settle" ELSE "autopsy")
  /\ UNCHANGED <<switch, deadline, dirty, session, census, censusSnapshot, phase,
                 tryVars, walkVars, passVars>>

SettleSuccess ==
  /\ pc = "settle"
  /\ Record(doc, buf, failed)
  /\ Publish /\ Dismiss
  /\ Go("top")
  /\ UNCHANGED <<library, switch, deadline, dirty, session, phase, token, attempted,
                 walkVars, passVars>>

(* The catch block inspects once more before it judges.                    *)
FailureLook ==
  /\ pc = "autopsy"
  /\ Look(doc)
  /\ Go("bury")
  /\ UNCHANGED <<switch, deadline, dirty, session, census, censusSnapshot, phase,
                 tryVars, walkVars, passVars>>

(* Wrong: nothing is held.                                                 *)
HoldsNothing == FALSE

(* Held is what is still queued under the identity submitted: what could   *)
(* not be examined is not.                                                 *)
Holds == buf.status \in Queued /\ buf.identity = gated.identity

SettleFailure ==
  /\ pc = "bury"
  /\ failed' = IF Holds THEN failed \cup {<<doc, gated.identity>>} ELSE failed
  /\ submitted' = IF buf.status = Unexamined
                  THEN submitted \ {<<doc, gated.identity>>}
                  ELSE submitted
  /\ Record(doc, buf, failed')
  /\ Publish /\ Dismiss
  /\ Go("top")
  /\ UNCHANGED <<library, switch, deadline, dirty, phase, token, attempted,
                 walkVars, passVars>>

-----------------------------------------------------------------------------
(* pump(): the outer catch and finally.                                    *)

PumpCatch ==
  /\ pc = "catch"
  /\ phase' = IF Current THEN "error" ELSE phase
  /\ reconciliationPending' = TRUE
  /\ Go("exit")
  /\ UNCHANGED <<library, switch, nextReconciliationAt, dirty, session, census,
                 censusSnapshot, tryVars, walkVars, passVars, readVars>>

(* finally: busy falls, and the pump's locals with it.                     *)
PumpReturn ==
  /\ pc = "exit"
  /\ phase' = IF Current /\ phase = "extracting" THEN "waiting" ELSE phase
  /\ UNCHANGED census
  /\ Publish
  /\ Go("idle")
  /\ attempted' = [x \in Ids |-> 0] /\ gated' = NoInfo
  /\ todo' = {} /\ next' = [x \in Ids |-> NoInfo]
  /\ drained' = NoId /\ candidates' = {} /\ unplaceable' = {}
  /\ retired' = FALSE /\ reconcileNeeded' = FALSE
  /\ doc' = NoId /\ buf' = NoInfo /\ knew' = FALSE
  /\ UNCHANGED <<library, switch, deadline, dirty, session, token, tracked>>

-----------------------------------------------------------------------------
(* The switch: toggleSDTSwitch() through disarm and arm.                   *)

Pump_unchanged == UNCHANGED <<census, censusSnapshot, pc, tryVars, walkVars, passVars,
                              readVars>>

Stop ==
  /\ ~OnStack /\ epoch < MaxStops
  /\ enabled
  /\ enabled' = FALSE /\ epoch' = epoch + 1
  /\ phase' = "switched-off"
  /\ UNCHANGED <<library, deadline, dirty, session>> /\ Pump_unchanged

Start ==
  /\ ~OnStack
  /\ ~enabled
  /\ enabled' = TRUE
  /\ reconciliationPending' = TRUE
  /\ phase' = IF phase = "switched-off" THEN "ready" ELSE phase
  /\ UNCHANGED <<library, epoch, nextReconciliationAt, dirty, session>> /\ Pump_unchanged

(* The reconciliation interval runs out.                                   *)
HourPasses ==
  /\ ~OnStack
  /\ nextReconciliationAt = "armed"
  /\ nextReconciliationAt' = "due"
  /\ UNCHANGED <<library, switch, reconciliationPending, dirty, session, phase>>
  /\ Pump_unchanged

(* The notifier's callback: dropped while switched off.                    *)
Notify ==
  /\ ~OnStack
  /\ \E x \in undelivered :
       /\ undelivered' = undelivered \ {x}
       /\ dirty' = IF enabled THEN dirty \cup {x} ELSE dirty
  /\ UNCHANGED <<lib, upsets, silent, misread, switch, deadline, session, phase>>
  /\ Pump_unchanged

-----------------------------------------------------------------------------
(* The library from outside: Zotero, its synchronisation, the reader, the  *)
(* file system.                                                            *)

Outside ==
  /\ ~OnStack
  /\ upsets < MaxUpsets /\ upsets' = upsets + 1
  /\ submitted' = {}
  /\ UNCHANGED <<switch, deadline, dirty, failed, phase>> /\ Pump_unchanged

Event(x) ==
  /\ undelivered' = undelivered \cup {x}
  /\ misread' = misread \ {x}
  /\ UNCHANGED silent

(* An attachment's source, pack, directory or readability changes, with a  *)
(* notification or (the file system) without one.                          *)
AttachmentChanges ==
  /\ Outside
  /\ \E d \in Docs, s \in LibStatuses, rewritten \in {0, 1}, dir \in Dirs :
       /\ Exists(d)
       /\ lib' = [lib EXCEPT ![d] = [status |-> s, src |-> @.src + rewritten, dir |-> dir]]
       /\ \/ Event(d)
          \/ silent' = silent \cup {d} /\ UNCHANGED <<undelivered, misread>>

AttachmentAdded ==
  /\ Outside
  /\ \E d \in Docs, s \in LibStatuses :
       /\ ~Exists(d) /\ lib[d].src = 0
       /\ ParentOf[d] # NoId => Exists(ParentOf[d])
       /\ lib' = [lib EXCEPT ![d].status = s, ![d].src = 1]
       /\ Event(d)

AttachmentErased ==
  /\ Outside
  /\ \E d \in Docs :
       /\ Exists(d)
       /\ lib' = [lib EXCEPT ![d].status = "absent"]
       /\ Event(d)

(* A record goes to the trash, or is erased, with every attachment under   *)
(* it; the event names only the record.                                    *)
RecordGoes ==
  /\ Outside
  /\ \E r \in Recs, s \in {"excluded", "absent"} :
       /\ Exists(r)
       /\ lib' = [x \in Ids |->
                   IF (x = r /\ s = "absent") \/ (x \in Docs /\ ParentOf[x] = r /\ Exists(x))
                   THEN [lib[x] EXCEPT !.status = s] ELSE lib[x]]
       /\ Event(r)

-----------------------------------------------------------------------------
Init ==
  /\ lib \in [Ids -> [status: LibStatuses \cup {"absent"}, src: {0, 1}, dir: Dirs]]
  /\ \A x \in Recs : lib[x].status = "excluded" /\ lib[x].src = 1
  /\ \A d \in Docs : \/ lib[d].status \in LibStatuses /\ lib[d].src = 1
                     \/ lib[d].status = "absent" /\ lib[d].src = 0
  /\ upsets = 0 /\ undelivered = {} /\ silent = {} /\ misread = {}
  /\ enabled = TRUE /\ epoch = 0
  /\ reconciliationPending = TRUE /\ nextReconciliationAt = "never"
  /\ dirty = {} /\ failed = {} /\ submitted = {}
  /\ observed = [x \in Ids |-> NoInfo]
  /\ counts = Zero /\ scanned = 0 /\ total = 0 /\ censusBuilding = FALSE
  /\ censusSnapshot = NoSnapshot /\ phase = "ready" /\ tracked = {}
  /\ pc = "idle" /\ token = 0 /\ attempted = [x \in Ids |-> 0]
  /\ todo = {} /\ next = [x \in Ids |-> NoInfo]
  /\ drained = NoId /\ candidates = {} /\ unplaceable = {}
  /\ retired = FALSE /\ reconcileNeeded = FALSE
  /\ doc = NoId /\ buf = NoInfo /\ knew = FALSE /\ gated = NoInfo

Census    == \/ BeginCensus \/ LoopTop \/ ListRead \/ Listed
             \/ WalkRead \/ WalkRecord \/ CensusClose
Drain     == \/ DrainBegin \/ DrainTake \/ DrainEnd \/ DrainExpand
             \/ DrainLook \/ DrainRecord \/ DrainRetire
Admission == \/ ChooseCandidate \/ NoCandidate \/ AdmitAbandon \/ GateOpen \/ GateShut
             \/ AdmitLook \/ AdmitSkip \/ AdmitMoved \/ AdmitWorkerBusy \/ Submit
Settlement == \/ EnsurePersists \/ EnsureReturns
              \/ SettleLook \/ SettleSuccess \/ FailureLook \/ SettleFailure
Pump == Census \/ Drain \/ Admission \/ Settlement \/ HostThrows \/ PumpCatch \/ PumpReturn

Environment == \/ Stop \/ Start \/ HourPasses \/ Notify
               \/ AttachmentChanges \/ AttachmentAdded \/ AttachmentErased \/ RecordGoes

Next == PumpStart \/ Pump \/ Environment

Spec == Init /\ [][Next]_vars

(* Every awaited host call returns, so the pump on the event loop goes on, *)
(* and the sweep timer calls it again while it is on.  The notifier and    *)
(* the clock get their turn at some await or between two pumps, though the *)
(* pump takes the stack again and again.  A host read that keeps being     *)
(* tried is not refused for ever, nor is admission.                        *)
Fairness ==
  /\ WF_vars(Pump) /\ WF_vars(PumpStart)
  /\ SF_vars(Notify) /\ SF_vars(HourPasses)
  /\ SF_vars(ListRead) /\ SF_vars(DrainExpand) /\ SF_vars(GateOpen) /\ SF_vars(Submit)

FairSpec == Spec /\ Fairness

-----------------------------------------------------------------------------
(* Properties.                                                             *)

Points == {"idle", "top", "list", "listed", "walk", "walked", "close", "drain", "take",
           "affected", "look", "looked", "refresh", "choose", "gate", "recheck", "admit",
           "catch", "exit"} \cup Settling

Phases == {"ready", "census", "draining", "waiting", "extracting", "error",
           "switched-off", "native-worker-busy"} \cup GateReasons

Snapshots == [kind: {"none", "partial", "whole"}, counts: [Statuses -> Int], total: Nat,
              members: [Ids -> Infos \cup {NoInfo}]]

LibraryOK ==
  /\ lib \in [Ids -> Items] /\ upsets \in Nat
  /\ undelivered \subseteq Ids /\ silent \subseteq Ids /\ misread \subseteq Ids

SwitchOK ==
  /\ enabled \in BOOLEAN /\ epoch \in Nat /\ token \in Nat
  /\ reconciliationPending \in BOOLEAN
  /\ nextReconciliationAt \in {"never", "armed", "due"}
  /\ dirty \subseteq Ids
  /\ failed \subseteq Ids \X Nat
  /\ submitted \subseteq Ids \X Nat
  /\ pc \in Points /\ phase \in Phases

ViewOK ==
  /\ observed \in [Ids -> Infos \cup {NoInfo}]
  /\ counts \in [Statuses -> Int]
  /\ scanned \in Nat /\ total \in Nat
  /\ censusBuilding \in BOOLEAN
  /\ censusSnapshot \in Snapshots

LocalsOK ==
  /\ attempted \in [Ids -> Nat]
  /\ todo \subseteq Ids /\ next \in [Ids -> Infos \cup {NoInfo}]
  /\ drained \in Ids \cup {NoId} /\ candidates \subseteq Ids /\ unplaceable \subseteq Ids
  /\ retired \in BOOLEAN /\ reconcileNeeded \in BOOLEAN
  /\ doc \in Ids \cup {NoId} /\ buf \in Infos \cup {NoInfo} /\ knew \in BOOLEAN
  /\ gated \in Infos \cup {NoInfo}
  /\ tracked \subseteq Docs

(* The locals a point of the pump goes on to use are set when it is there. *)
InHandOK ==
  /\ pc \in {"walked", "looked", "gate", "recheck", "admit"} \cup Settling => doc \in Ids
  /\ pc \in {"walked", "looked", "admit", "settle", "bury"} => buf \in Infos
  /\ pc \in {"gate", "recheck", "admit"} \cup Settling => gated \in Infos
  /\ pc \in {"affected", "look", "looked", "refresh"} => drained \in Ids

(* Every variable keeps its type, the state the closure of createSDTSitter *)
(* and the pump's locals can hold, and a continuation never runs on a      *)
(* local its point has not set.                                            *)
TypeOK == LibraryOK /\ SwitchOK /\ ViewOK /\ LocalsOK /\ InHandOK

Tally(view) == [s \in Statuses |-> Cardinality({x \in Ids : view[x].status = s})]

(* Outside a census the live counters are those of the observed map:       *)
(* record() decrements exactly what an earlier record or census counted,   *)
(* whatever was erased, aborted or restarted in between.                   *)
CountsTally ==
  ~censusBuilding => /\ counts = Tally(observed)
                     /\ scanned = Cardinality(Seen(observed)) /\ total = scanned

(* A snapshot that lists its members never mixes two generations: its      *)
(* counts and its total are those of the members it was published with.    *)
SnapshotOneGeneration ==
  censusSnapshot.kind = "whole" =>
    /\ censusSnapshot.counts = Tally(censusSnapshot.members)
    /\ censusSnapshot.total = Cardinality(Seen(censusSnapshot.members))

(* What the sitter shows for x agrees with what x is now.                  *)
AgreesWith(x, info) ==
  IF Exists(x) THEN info = Classify(x, Inspect(x), failed)
               ELSE info = NoInfo \/ info.absent

(* Something on its way will correct the sitter's record of x: a census    *)
(* asked for, an event, an inspection the pump has still to make.          *)
CensusAsked == ~enabled \/ reconciliationPending
EventWaits(x) == \E y \in dirty \cup undelivered : x \in Affected(y)
PumpWillRead(x) ==
  \/ pc \in {"list", "catch"}
  \/ pc = "affected" /\ x \in Affected(drained)
  \/ pc \in {"listed", "walk", "look"} /\ x \in todo
  \/ pc \in {"walked", "looked"} /\ x \in todo \ {doc}
  \/ pc \in {"ensure", "verify", "autopsy"} /\ x = doc

Awaited(x) == CensusAsked \/ EventWaits(x) \/ PumpWillRead(x) \/ x \in silent

(* Or the sitter says that it could not examine x, which is so: its last   *)
(* inspection of x threw, and no event has named x since.                  *)
SaysUnexamined(x, info) ==
  x \in misread /\ info.status = Unexamined /\ ~info.absent
Shows(x, info) == AgreesWith(x, info) \/ SaysUnexamined(x, info)

(* Or what will be recorded for x is in the pump's hands already.          *)
BufCurrent(x) ==
  (IF Exists(x) THEN buf = Inspect(x) ELSE buf.absent) \/ SaysUnexamined(x, buf)

InHand(x) ==
  \/ pc \in {"walked", "looked", "admit", "settle", "bury"} /\ x = doc /\ BufCurrent(x)
  \/ pc \in {"listed", "walk", "walked", "close"} /\ x \notin todo /\ Shows(x, next[x])

(* No change that was notified is lost: whatever is interleaved -- events  *)
(* during a census, during the inspection of the very item, during an      *)
(* extraction, a switch thrown in the middle, a host call that throws --   *)
(* an observation that is out of date has its correction on the way.  The  *)
(* one exception is shown as what it is: where the last inspection itself  *)
(* threw, the sitter says "could not be examined", never an older status,  *)
(* and only until the next event or census.                                *)
NoLostChange ==
  \A x \in Docs : Shows(x, observed[x]) \/ Awaited(x) \/ InHand(x)

(* While it is off the phase says so: no continuation of a pump suspended  *)
(* when disarmSDTSitter() ran writes another phase over it.                *)
PausedSaysSo == ~enabled => phase = "switched-off"

(* A document handed to the native worker leaves the queue when it is      *)
(* settled, by its pack or by a held failure, even if the sitter was       *)
(* switched off, or off and on again, while it ran: unless the library     *)
(* changed since, it is not pending under the identity submitted.  Of a    *)
(* failure no inspection could examine the sitter has no verdict; it shows *)
(* as such, and the document may be tried once more.                       *)
VerdictRecorded ==
  pc \notin Settling =>
    \A x \in Pending : <<x, observed[x].identity>> \notin submitted

(* A pump that comes to rest on an empty queue or on a resource wait has   *)
(* drained every event and leaves no census asked for.                     *)
RestsDrained ==
  pc = "exit" /\ Current /\ phase \in ({"waiting"} \cup GateReasons) \ {"native-worker-busy"}
    => dirty = {} /\ ~reconciliationPending

(* A document goes to the native worker only while the sitter is on and    *)
(* this pump is the current one, under the identity and directory its      *)
(* resource gate was asked about, and never twice without a change of the  *)
(* library since the last time, across any number of pumps and pauses and  *)
(* inspections that threw -- but the one after its own failure: what was   *)
(* not examined then is not held, and is tried again.                      *)
AdmissionSound ==
  [][pc # "ensure" /\ pc' = "ensure" =>
       /\ Current /\ ~censusBuilding
       /\ observed'[doc].status \in Queued
       /\ [gated EXCEPT !.status = buf.status] = buf
       /\ <<doc, buf.identity>> \notin failed
       /\ <<doc, buf.identity>> \notin submitted]_vars

(* Once the library stops changing, inspections stop throwing and the      *)
(* sitter stays on, what it shows becomes what the library is, and stays   *)
(* so: changes nobody notified and items an inspection failed on included, *)
(* through the hourly reconciliation.                                      *)
Converges == (<>[]enabled) => <>[](\A x \in Docs : AgreesWith(x, observed[x]))

(* ... and every document that can be extracted is, or is held as failed:  *)
(* the queue empties for good.                                             *)
QueueEmpties == (<>[]enabled) => <>[](Pending = {} /\ pc \notin Settling)
=============================================================================
