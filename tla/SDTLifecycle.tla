---------------------------- MODULE SDTLifecycle ----------------------------
(***************************************************************************)
(* bootstrap.js around the sitter: activations that start and stop, the    *)
(* switch, the timers and the sweep loop, the notifier's wake-up, and the  *)
(* watch for a removal the host never announced.  Each sitter is what      *)
(* SDTSitter promises.                                                     *)
(*                                                                         *)
(* Every action is one turn of the event loop.  The continuation of        *)
(* `await owner.pump()` runs in the same turn as the pump's return, but as *)
(* a microtask of its own: with MicrotaskCallbacks a notification that is  *)
(* a microtask too can come between the two.                               *)
(***************************************************************************)
EXTENDS SDTSitterStates, Integers, FiniteSets

CONSTANTS
  MaxGeneration,       \* bound: activations and shutdowns
  MaxSweepGeneration,  \* bound: how often the switch is thrown off
  MaxChecks,           \* bound: removal checks in flight
  MicrotaskCallbacks   \* a notification can be a microtask

Tokens == 1..MaxGeneration

ASSUME BoundsAssumption ==
  /\ MaxGeneration \in Nat /\ MaxSweepGeneration \in Nat /\ MaxChecks \in Nat
  /\ MicrotaskCallbacks \in BOOLEAN

VARIABLES
  host,            \* the add-on as the host has it
  generation, shutdowns, alive, sealed, booting,
  activeToken,     \* the activation the sitter binding belongs to; 0 none
  sweepGeneration,
  removalNoticed,
  sitters,         \* [Tokens -> sitter]
  timer,           \* the timeout behind the `timer` binding, or NoTimer
  orphans,         \* timeouts pending that no binding reaches
  pulse,           \* the render and heartbeat intervals run
  boots,           \* initialize() calls suspended
  sweeps,          \* sweep() calls suspended
  checks,          \* removal checks in flight
  sweepToastHeld   \* a toast is owed for work done

activation == <<host, generation, shutdowns, alive, sealed, booting, activeToken>>
loop       == <<timer, orphans, pulse, sweeps>>
toast      == <<sweepToastHeld>>
watch      == <<removalNoticed, checks>>
vars == <<activation, sweepGeneration, watch, sitters, loop, boots, toast>>

(* The sitter of an activation that has not come alive; and of one torn    *)
(* down, nobody reads more than whether its last pump is still under way.  *)
NoSitter == [NewSitter EXCEPT !.enabled = FALSE]
TornDown(s) == [NoSitter EXCEPT !.busy = s.busy]

(* A timeout of the loop; `cleared` says that the sweep that set it        *)
(* cleared another, which a notification had set since its pump returned.  *)
NoTimer == [kind |-> "none"]
SweepTimer(token, due) == [kind |-> "sweep", token |-> token, mark |-> sweepGeneration,
                           due |-> due, cleared |-> FALSE]

(* The timeouts pending; overwriting `timer` makes orphans of them all.    *)
Timeouts == (orphans \cup {timer}) \ {NoTimer}

(* Wrong: the loop asks only whether its activation is the running one.    *)
LiveUnmarked(w) == alive /\ w.token = generation

(* current() of a sweep loop.  Its owner is the sitter of its activation.  *)
Live(w) == alive /\ w.token = generation /\ w.mark = sweepGeneration

(* The binding holds the next sweep of the current loop.                   *)
Scheduled == timer.kind = "sweep" /\ Live(timer)

(* No sweep is between its pump's return and its own continuation.         *)
Task == \A w \in sweeps : w.at = "pump"

(* Wrong: the intervals are stopped, their handles kept.                   *)
ClearTimersKeepHandles == timer' = NoTimer /\ UNCHANGED <<pulse, orphans>>

ClearTimers == timer' = NoTimer /\ pulse' = FALSE /\ UNCHANGED orphans

-----------------------------------------------------------------------------
(* startup() and initialize().                                             *)

(* Two startups may overlap while the first has not come alive.            *)
Startup ==
  /\ Task /\ ~alive /\ host \in {"off", "on"} /\ generation < MaxGeneration
  /\ host' = "on"
  /\ generation' = generation + 1
  /\ orphans' = Timeouts
  /\ timer' = [kind |-> "boot", token |-> generation', era |-> shutdowns]
  /\ UNCHANGED <<shutdowns, alive, sealed, booting, activeToken, sweepGeneration, watch,
                 sitters, pulse, sweeps, boots, toast>>

(* Timeouts of no delay fire in the order they were set.                   *)
BootFires ==
  /\ Task
  /\ \E t \in Timeouts :
       /\ t.kind = "boot"
       /\ \A u \in Timeouts : u.kind = "boot" => t.token <= u.token
       /\ timer' = IF t = timer THEN NoTimer ELSE timer
       /\ orphans' = orphans \ {t}
       /\ boots' = boots \cup {[token |-> t.token, era |-> t.era, at |-> "host"]}
  /\ UNCHANGED <<activation, sweepGeneration, watch, sitters, pulse, sweeps,
                 toast>>

Advance(b, point) == boots' = (boots \ {b}) \cup {[b EXCEPT !.at = point]}
StandDown(b)      == boots' = boots \ {b}

(* Wrong: a new activation keeps what the last one noticed.                *)
ReopenNoticed == sealed' = FALSE /\ booting' = TRUE /\ UNCHANGED removalNoticed

Reopen == sealed' = FALSE /\ booting' = TRUE /\ removalNoticed' = FALSE

(* Continuations of Zotero.initializationPromise run in order; one whose   *)
(* scope was shut down since it was armed stands down.                     *)
HostUp ==
  /\ Task
  /\ \E b \in boots :
       /\ b.at = "host" /\ \A c \in boots : c.at = "host" => b.token <= c.token
       /\ IF b.era # shutdowns
          THEN StandDown(b) /\ UNCHANGED <<sealed, booting, removalNoticed>>
          ELSE Advance(b, "check") /\ Reopen
  /\ UNCHANGED <<host, generation, shutdowns, alive, activeToken, sweepGeneration, checks,
                 sitters, loop, toast>>

SelfChecked ==
  /\ Task
  /\ \E b \in boots : b.at = "check" /\ Advance(b, "ui")
  /\ UNCHANGED <<activation, sweepGeneration, watch, sitters, loop, toast>>

(* Wrong: the token is not read again.                                     *)
SupersededNever(b) == FALSE

Superseded(b) == b.token # generation

(* The user interface is up, then the host's metadata are read; either     *)
(* stretch may throw (no native extractor, an unreadable resource).        *)
BootGoes(from, to) ==
  /\ Task
  /\ \E b \in boots : /\ b.at = from
                      /\ \/ StandDown(b)
                         \/ ~Superseded(b) /\ Advance(b, to)
  /\ UNCHANGED <<activation, sweepGeneration, watch, sitters, loop, toast>>

UIReady      == BootGoes("ui", "load")
MetadataRead == BootGoes("load", "cache")

(* armSDTSitter(), on the sitter s of an activation.                       *)
Arm(token, s) ==
  IF pulse \/ removalNoticed
  THEN sitters' = [sitters EXCEPT ![token] = s] /\ UNCHANGED <<pulse, timer, orphans>>
  ELSE /\ sitters' = [sitters EXCEPT ![token] = Started(s)]
       /\ pulse' = TRUE
       /\ orphans' = Timeouts
       /\ timer' = SweepTimer(token, "now")

(* The cache is read: the rest of initialize() is one stretch.             *)
CacheRead ==
  /\ Task
  /\ \E b \in boots :
       /\ b.at = "cache"
       /\ StandDown(b)
       /\ IF Superseded(b)
          THEN UNCHANGED <<alive, booting, activeToken, sitters, pulse, timer, orphans>>
          ELSE /\ alive' = TRUE /\ booting' = FALSE
               /\ activeToken' = b.token
               /\ Arm(b.token, NewSitter)
  /\ UNCHANGED <<host, generation, shutdowns, sealed, sweepGeneration, watch, sweeps, toast>>

-----------------------------------------------------------------------------
(* shutdown() and the switch.                                              *)

(* Wrong: the sitter is not stopped.                                       *)
ReplaceNoSitter(s) == sitters

(* `sitter?.`: the sitter of the last activation that came alive, if any.  *)
ReplaceSitter(s) == [t \in Tokens |-> IF t = activeToken THEN s ELSE sitters[t]]
StopSitter      == sitters' = ReplaceSitter(Stopped(sitters[activeToken]))
TearSitterDown  == sitters' = ReplaceSitter(TornDown(Stopped(sitters[activeToken])))
SwitchOffSitter == sitters' = ReplaceSitter(SwitchedOff(sitters[activeToken]))

Shutdown ==
  /\ Task /\ host \in {"on", "inactive", "removed"} /\ generation > 0
  /\ generation < MaxGeneration
  /\ host' = IF host = "removed" THEN host ELSE "off"
  /\ generation' = generation + 1 /\ shutdowns' = shutdowns + 1
  /\ alive' = FALSE /\ sealed' = TRUE
  /\ TearSitterDown
  /\ ClearTimers
  /\ UNCHANGED <<booting, activeToken, sweepGeneration, watch, sweeps, boots, toast>>

(* The window is there while the activation lives; its box is dead once a  *)
(* removal is noticed.                                                     *)
Switchable == Task /\ alive /\ ~removalNoticed

disarmSDTSitter ==
  /\ Switchable /\ sweepGeneration < MaxSweepGeneration
  /\ sweepGeneration' = sweepGeneration + 1
  /\ ClearTimers
  /\ SwitchOffSitter
  /\ UNCHANGED <<activation, watch, sweeps, boots, toast>>

armSDTSitter ==
  /\ Switchable
  /\ Arm(activeToken, sitters[activeToken])
  /\ UNCHANGED <<activation, sweepGeneration, watch, sweeps, boots, toast>>

-----------------------------------------------------------------------------
(* The sweep loop.                                                         *)

(* A sweep whose sitter is off or has a pump under way has nothing to      *)
(* await but the microtask.                                                *)
SweepFires ==
  /\ Task
  /\ \E t \in Timeouts :
       /\ t.kind = "sweep"
       /\ timer' = IF t = timer THEN NoTimer ELSE timer
       /\ orphans' = orphans \ {t}
       /\ IF ~Live(t) THEN UNCHANGED <<sweeps, sitters>>
          ELSE LET starts == CanPump(sitters[t.token])
               IN  /\ sweeps' = sweeps \cup {[token |-> t.token, mark |-> t.mark,
                          moved |-> FALSE, at |-> IF starts THEN "pump" ELSE "returned"]}
                   /\ IF starts
                      THEN \E p \in {sitters[t.token].phase, "working"} :
                             sitters' = [sitters EXCEPT ![t.token] =
                                           [PumpStarted(@) EXCEPT !.phase = p]]
                      ELSE UNCHANGED sitters
  /\ UNCHANGED <<activation, sweepGeneration, watch, pulse, boots, toast>>

(* The pump of a sweep returns, having moved the counts or not.            *)
PumpReturns ==
  /\ Task
  /\ \E w \in sweeps, moved \in BOOLEAN :
       /\ sweeps' = (sweeps \ {w}) \cup {[w EXCEPT !.at = "returned", !.moved = moved]}
       /\ \E s \in PumpReturned(sitters[w.token]) :
            sitters' = [sitters EXCEPT ![w.token] =
                          IF w.token = generation THEN s ELSE TornDown(s)]
  /\ UNCHANGED <<activation, sweepGeneration, watch, timer, orphans, pulse, boots, toast>>

(* announceSDTSweep(): held while there is more to do; a toast that cannot *)
(* be shown leaves it held.                                                *)
Announce(w, s) ==
  LET held == sweepToastHeld \/ w.moved
      due  == held /\ ~s.busy /\ ~s.queue
  IN  sweepToastHeld' \in IF due THEN BOOLEAN ELSE {held}

SweepEnds ==
  /\ \E w \in sweeps :
       /\ w.at = "returned"
       /\ sweeps' = sweeps \ {w}
       /\ IF ~Live(w) THEN UNCHANGED <<timer, toast>>
          ELSE /\ Announce(w, sitters[w.token])
               /\ timer' = [SweepTimer(w.token, nextSweepDelayMS(sitters[w.token]))
                              EXCEPT !.cleared = Scheduled]
  /\ UNCHANGED <<activation, sweepGeneration, watch, sitters, orphans, pulse, boots>>

(* The notifier's observer, and wakeSDTSitter().  The observer of an older *)
(* activation, which the host may have failed to unregister, is called too.*)
Notify ==
  /\ MicrotaskCallbacks \/ Task
  /\ \E t \in 1..activeToken :
       /\ alive /\ t = generation /\ t = activeToken /\ sitters[t].enabled
       /\ sitters' = [sitters EXCEPT ![t] = Notified(@)]
       /\ timer' = IF sitters[t].busy THEN timer ELSE SweepTimer(t, "now")
  /\ UNCHANGED <<activation, sweepGeneration, watch, orphans, pulse, sweeps, boots,
                 toast>>

HourPasses ==
  /\ Task
  /\ \E t \in Tokens : /\ t = activeToken /\ sitters[t].nextRec = "armed"
                       /\ sitters' = [sitters EXCEPT ![t] = HourPassed(@)]
  /\ UNCHANGED <<activation, sweepGeneration, watch, loop, boots, toast>>

-----------------------------------------------------------------------------
(* The removal watch.                                                      *)

(* The host deactivates or removes the add-on; shutdown() may follow, or   *)
(* not.                                                                    *)
HostTurnsOff ==
  /\ Task /\ host = "on"
  /\ host' \in {"inactive", "removed"}
  /\ UNCHANGED <<generation, shutdowns, alive, sealed, booting, activeToken, sweepGeneration,
                 watch, sitters, loop, boots, toast>>

heartbeatTick ==
  /\ Task /\ pulse /\ alive /\ ~removalNoticed /\ checks < MaxChecks
  /\ checks' = checks + 1
  /\ UNCHANGED <<activation, sweepGeneration, removalNoticed, sitters, loop, boots,
                 toast>>

CheckFails ==
  /\ Task /\ checks > 0
  /\ checks' = checks - 1
  /\ UNCHANGED <<activation, sweepGeneration, removalNoticed, sitters, loop, boots,
                 toast>>

noticeSDTRemoval ==
  /\ removalNoticed' = TRUE
  /\ ClearTimers
  /\ StopSitter

(* The answer is a live handle on the add-on, or none.                     *)
CheckEnds ==
  /\ Task /\ checks > 0
  /\ checks' = checks - 1
  /\ IF ~alive \/ sealed \/ removalNoticed \/ host = "on"
     THEN UNCHANGED <<removalNoticed, timer, orphans, pulse, sitters>>
     ELSE noticeSDTRemoval
  /\ UNCHANGED <<activation, sweepGeneration, sweeps, boots, toast>>

-----------------------------------------------------------------------------
Init ==
  /\ host = "off" /\ generation = 0 /\ shutdowns = 0
  /\ alive = FALSE /\ sealed = FALSE /\ booting = TRUE /\ activeToken = 0
  /\ sweepGeneration = 0 /\ removalNoticed = FALSE /\ checks = 0
  /\ sitters = [t \in Tokens |-> NoSitter]
  /\ timer = NoTimer /\ orphans = {} /\ pulse = FALSE /\ sweeps = {} /\ boots = {}
  /\ sweepToastHeld = FALSE

Boot   == BootFires \/ HostUp \/ SelfChecked \/ UIReady \/ MetadataRead \/ CacheRead
Sweep  == SweepFires \/ PumpReturns \/ SweepEnds
Watch  == heartbeatTick \/ CheckFails \/ CheckEnds
User   == Startup \/ Shutdown \/ disarmSDTSitter \/ armSDTSitter \/ HostTurnsOff
Next   == Boot \/ Sweep \/ Watch \/ User \/ Notify \/ HourPasses

Spec == Init /\ [][Next]_vars

(* Timeouts fire, and what initialize() and pump() await returns.          *)
FairSpec ==
  /\ Spec
  /\ WF_vars(SweepFires) /\ WF_vars(PumpReturns) /\ WF_vars(SweepEnds)
  /\ WF_vars(BootFires) /\ WF_vars(HostUp) /\ WF_vars(SelfChecked)
  /\ WF_vars(UIReady) /\ WF_vars(MetadataRead) /\ WF_vars(CacheRead)

-----------------------------------------------------------------------------
(* Properties.                                                             *)

Dues == {"now", "soon", "idle", "hour"}
SweepTimers == [kind: {"sweep"}, token: Tokens, mark: Nat, due: Dues, cleared: BOOLEAN]
BootTimers  == [kind: {"boot"}, token: Tokens, era: Nat]

(* Every binding of the scope keeps its type: what a timeout, a suspended  *)
(* initialize() or a suspended sweep carries, and the state of each sitter.*)
TypeOK ==
  /\ host \in {"off", "on", "inactive", "removed"}
  /\ generation \in 0..MaxGeneration /\ shutdowns \in Nat
  /\ alive \in BOOLEAN /\ sealed \in BOOLEAN /\ booting \in BOOLEAN
  /\ activeToken \in 0..MaxGeneration /\ sweepGeneration \in Nat
  /\ removalNoticed \in BOOLEAN /\ checks \in Nat
  /\ sitters \in [Tokens -> Sitters]
  /\ timer \in {NoTimer} \cup SweepTimers \cup BootTimers
  /\ orphans \subseteq SweepTimers \cup BootTimers
  /\ pulse \in BOOLEAN
  /\ boots \subseteq [token: Tokens, era: Nat,
                      at: {"host", "check", "ui", "load", "cache"}]
  /\ sweeps \subseteq [token: Tokens, mark: Nat, moved: BOOLEAN, at: {"pump", "returned"}]
  /\ sweepToastHeld \in BOOLEAN

(* The chains that will go on: timeouts and suspended sweeps of the loop   *)
(* that is current.                                                        *)
Chains == {t \in Timeouts : t.kind = "sweep" /\ Live(t)} \cup {w \in sweeps : Live(w)}

(* At the end of every turn a running switch has exactly one sweep chain   *)
(* and a pause has none, however activations, pauses, suspended sweeps and *)
(* notifications are interleaved: a zombie would run two sweeps per        *)
(* interval, a missing one would stop the sitter for the session.          *)
OneChain ==
  alive /\ ~removalNoticed /\ Task => Cardinality(Chains) = IF pulse THEN 1 ELSE 0

(* The activation that lives is the last one started, whole: an            *)
(* initialize() superseded or shut down at any of its awaits never comes   *)
(* alive, nor seals the journal or shows the boot wait of one that has.    *)
ActivationWhole == alive => activeToken = generation /\ ~sealed /\ ~booting

(* Only the sitter of the activation that is running asks Zotero for work, *)
(* and only while the switch is on: a pause, a teardown or a noticed       *)
(* removal leaves no other one admitting documents.                        *)
OneSitterOn ==
  \A t \in Tokens : sitters[t].enabled <=> (alive /\ t = activeToken /\ pulse)

(* A removal is never certified of an activation the host still runs, nor  *)
(* carried into the next one.                                              *)
NoFalseRemoval == alive /\ removalNoticed => host # "on"

AtRestOwing ==
  /\ alive /\ pulse /\ \A w \in sweeps : ~Live(w)
  /\ ~sitters[activeToken].busy /\ sitters[activeToken].backlog

(* A sitter at rest that has events to drain or a census to make has a     *)
(* sweep set, and within one sweep interval: the notification that brought *)
(* the event woke it, or the pump left it a retry.  There is one way the   *)
(* sweep may come later, at the delay of a sitter that owes nothing: the   *)
(* notification was a microtask between a pump's return and the `finally`  *)
(* of its sweep, which cleared the wake-up.                                *)
WakeKept ==
  AtRestOwing => /\ timer # NoTimer
                 /\ \/ timer.due \in {"now", "soon"}
                    \/ MicrotaskCallbacks /\ timer.cleared

(* An armed sitter is pumped again and again for as long as it is armed.   *)
KeepsSweeping == <>[](alive /\ pulse) => []<>(alive /\ sitters[activeToken].busy)

(* A sweep whose pump failed comes again after the sweep interval, not at  *)
(* once.                                                                   *)
ErrorRetryPaced ==
  [][SweepEnds /\ timer' # timer /\ sitters[activeToken].phase = "error"
       /\ ~sitters[activeToken].busy => timer'.due = "soon"]_vars
=============================================================================
