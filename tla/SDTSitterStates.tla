-------------------------- MODULE SDTSitterStates --------------------------
(***************************************************************************)
(* A sitter as its callers see it: what stop(), start(), invalidate() and  *)
(* pump() promise about the few fields of its state the sweep loop reads.  *)
(* SDTSitter states the promise as a specification, which SDTScheduler     *)
(* implements (SDTSitterRefinement); SDTLifecycle is built on it.          *)
(***************************************************************************)
EXTENDS Naturals

(* "rest" is the phase waiting, "blocked" a member of SDT_BLOCKED_PHASES,  *)
(* "worker" native-worker-busy, "working" any phase of a pump under way.   *)
PhaseKinds == {"off", "ready", "working", "rest", "blocked", "worker", "error"}

Sitters == [enabled: BOOLEAN, epoch: Nat, busy: BOOLEAN, token: Nat,
            phase: PhaseKinds,
            backlog: BOOLEAN,   \* events to drain, or a census asked for
            queue: BOOLEAN,     \* state.pending is not empty
            nextRec: {"never", "armed", "due"}]

NewSitter == [enabled |-> TRUE, epoch |-> 0, busy |-> FALSE, token |-> 0,
              phase |-> "ready", backlog |-> TRUE, queue |-> FALSE, nextRec |-> "never"]

OwnPump(s) == s.enabled /\ s.token = s.epoch

Stopped(s)     == [s EXCEPT !.enabled = FALSE, !.epoch = @ + 1]
SwitchedOff(s) == [Stopped(s) EXCEPT !.phase = "off"]
Started(s)     == [s EXCEPT !.enabled = TRUE, !.backlog = TRUE,
                            !.phase = IF @ = "off" THEN "ready" ELSE @]
Notified(s)    == IF s.enabled THEN [s EXCEPT !.backlog = TRUE] ELSE s
HourPassed(s)  == IF s.nextRec = "armed" THEN [s EXCEPT !.nextRec = "due"] ELSE s

CanPump(s)     == s.enabled /\ ~s.busy
PumpStarted(s) == [s EXCEPT !.busy = TRUE, !.token = s.epoch]

(* Between its start and its return a pump moves all it keeps; the phase   *)
(* only while it is the current one.                                       *)
Worked(s) ==
  {[s EXCEPT !.phase = p, !.backlog = b, !.queue = q, !.nextRec = n] :
     p \in (IF OwnPump(s) THEN PhaseKinds \ {"off"} ELSE {s.phase}),
     b \in BOOLEAN, q \in BOOLEAN, n \in {s.nextRec, "armed"}}

(* Where a current pump may stop: with nothing to drain and no census due, *)
(* with a document held back by the machine or by the native worker, or    *)
(* with a failure and a census asked for.                                  *)
AtRest(s) ==
  \/ s.phase = "rest" /\ ~s.backlog
  \/ s.phase = "blocked" /\ ~s.backlog /\ s.queue
  \/ s.phase = "worker" /\ s.queue
  \/ s.phase = "error" /\ s.backlog

PumpReturned(s) == {[r EXCEPT !.busy = FALSE] : r \in {r \in Worked(s) : OwnPump(s) => AtRest(r)}}

(* Wrong: only a resource wait is retried before the reconciliation.       *)
NextSweepDelayHourly(s) ==
  IF s.busy \/ s.nextRec = "never" THEN "soon"
  ELSE IF s.nextRec = "due" THEN "now"
  ELSE IF s.phase = "blocked" THEN "idle"
  ELSE "hour"

(* The delay a sweep is rescheduled with: none, the sweep interval (30 s), *)
(* the idle interval (10 min), or the reconciliation deadline, the last    *)
(* two or the deadline if that is sooner.                                  *)
nextSweepDelayMS(s) ==
  IF s.busy \/ s.nextRec = "never" THEN "soon"
  ELSE IF s.nextRec = "due" THEN "now"
  ELSE IF s.phase = "blocked" THEN "idle"
  ELSE IF s.queue \/ s.phase = "error" THEN "soon"
  ELSE "hour"
=============================================================================
