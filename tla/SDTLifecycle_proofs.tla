------------------------- MODULE SDTLifecycle_proofs -------------------------
(* Theorems about SDTLifecycle, for any number of activations, pauses and  *)
(* removal checks.                                                         *)
EXTENDS SDTLifecycle, FiniteSetTheorems, TLAPS

-----------------------------------------------------------------------------
(* What the operators on sitters return.                                   *)

(* What each call on a sitter does to its two flags.                       *)
LEMMA SitterCalls ==
  ASSUME NEW s \in Sitters
  PROVE  /\ Stopped(s) \in Sitters /\ Stopped(s).enabled = FALSE /\ Stopped(s).busy = s.busy
         /\ SwitchedOff(s) \in Sitters /\ SwitchedOff(s).enabled = FALSE
         /\ SwitchedOff(s).busy = s.busy
         /\ Started(s) \in Sitters /\ Started(s).enabled = TRUE /\ Started(s).busy = s.busy
         /\ Notified(s) \in Sitters /\ Notified(s).enabled = s.enabled
         /\ Notified(s).busy = s.busy
         /\ HourPassed(s) \in Sitters /\ HourPassed(s).enabled = s.enabled
         /\ HourPassed(s).busy = s.busy
<1> USE DEF Sitters, PhaseKinds
<1>1. Stopped(s) \in Sitters /\ Stopped(s).enabled = FALSE /\ Stopped(s).busy = s.busy
  <2> DEFINE e == s.epoch + 1
  <2>1. e \in Nat
    OBVIOUS
  <2>2. Stopped(s) = [s EXCEPT !.enabled = FALSE, !.epoch = e]
    BY DEF Stopped
  <2> HIDE DEF e
  <2> QED BY <2>1, <2>2
<1>2. /\ SwitchedOff(s) \in Sitters /\ SwitchedOff(s).enabled = FALSE
      /\ SwitchedOff(s).busy = s.busy
  BY <1>1 DEF SwitchedOff
<1>3. Started(s) \in Sitters /\ Started(s).enabled = TRUE /\ Started(s).busy = s.busy
  <2> DEFINE p == IF s.phase = "off" THEN "ready" ELSE s.phase
  <2>1. p \in PhaseKinds
    OBVIOUS
  <2>2. Started(s) = [s EXCEPT !.enabled = TRUE, !.backlog = TRUE, !.phase = p]
    BY DEF Started
  <2> HIDE DEF p
  <2> QED BY <2>1, <2>2
<1>4. Notified(s) \in Sitters /\ Notified(s).enabled = s.enabled /\ Notified(s).busy = s.busy
  BY DEF Notified
<1>5. /\ HourPassed(s) \in Sitters /\ HourPassed(s).enabled = s.enabled
      /\ HourPassed(s).busy = s.busy
  BY DEF HourPassed
<1> QED BY <1>1, <1>2, <1>3, <1>4, <1>5

(* A sitter never started, and one torn down, is off.                      *)
LEMMA SitterOff ==
  /\ NewSitter \in Sitters /\ NewSitter.busy = FALSE
  /\ NoSitter \in Sitters /\ NoSitter.enabled = FALSE /\ NoSitter.busy = FALSE
  /\ \A s \in Sitters : /\ TornDown(s) \in Sitters
                        /\ TornDown(s).enabled = FALSE /\ TornDown(s).busy = s.busy
BY DEF Sitters, PhaseKinds, NewSitter, NoSitter, TornDown

(* A pump that starts marks its sitter busy.                               *)
LEMMA PumpStartedType ==
  ASSUME NEW s \in Sitters, NEW p \in {s.phase, "working"}
  PROVE  LET r == [PumpStarted(s) EXCEPT !.phase = p]
         IN  r \in Sitters /\ r.enabled = s.enabled /\ r.busy = TRUE
BY DEF Sitters, PhaseKinds, PumpStarted

(* Whatever a pump moves by the time it returns, the switch is not it.     *)
LEMMA WorkedType ==
  ASSUME NEW s \in Sitters
  PROVE  \A v \in Worked(s) : v \in Sitters /\ v.enabled = s.enabled
<1> DEFINE Ps == IF OwnPump(s) THEN PhaseKinds \ {"off"} ELSE {s.phase}
           Ns == {s.nextRec, "armed"}
           Moved(p, b, q, n) ==
             [s EXCEPT !.phase = p, !.backlog = b, !.queue = q, !.nextRec = n]
<1>1. Worked(s) =
        {Moved(p, b, q, n) : p \in Ps, b \in BOOLEAN, q \in BOOLEAN, n \in Ns}
  BY DEF Worked
<1>2. Ps \subseteq PhaseKinds /\ Ns \subseteq {"never", "armed", "due"}
  BY DEF Sitters
<1>3. \A p \in PhaseKinds, b \in BOOLEAN, q \in BOOLEAN, n \in {"never", "armed", "due"} :
        Moved(p, b, q, n) \in Sitters /\ Moved(p, b, q, n).enabled = s.enabled
  BY DEF Sitters
<1> HIDE DEF Ps, Ns, Moved
<1>4. \A v \in Worked(s) : \E p \in Ps, b \in BOOLEAN, q \in BOOLEAN, n \in Ns :
        v = Moved(p, b, q, n)
  BY <1>1
<1> QED BY <1>2, <1>3, <1>4

(* A pump that returns leaves its sitter idle, on or off as it was.        *)
LEMMA PumpReturnedType ==
  ASSUME NEW s \in Sitters
  PROVE  \A r \in PumpReturned(s) :
           r \in Sitters /\ r.enabled = s.enabled /\ r.busy = FALSE
<1>1. \A v \in Worked(s) : v \in Sitters /\ v.enabled = s.enabled
  BY WorkedType
<1>2. \A r \in PumpReturned(s) : \E v \in Worked(s) : r = [v EXCEPT !.busy = FALSE]
  BY DEF PumpReturned
<1>3. \A v \in Sitters : LET r == [v EXCEPT !.busy = FALSE]
                        IN  r \in Sitters /\ r.enabled = v.enabled /\ r.busy = FALSE
  BY DEF Sitters
<1> QED BY <1>1, <1>2, <1>3

(* A sweep is rescheduled with one of the four delays.                     *)
LEMMA DelayType == ASSUME NEW s PROVE nextSweepDelayMS(s) \in Dues
BY DEF nextSweepDelayMS, Dues
-----------------------------------------------------------------------------
(* What the timers are after each way the code touches them.               *)

(* A timeout pending is a sweep's or a startup's, and says which.          *)
LEMMA TimeoutsType ==
  ASSUME TypeOK
  PROVE  /\ Timeouts \subseteq SweepTimers \cup BootTimers
         /\ \A t \in Timeouts : /\ t.kind = "sweep" => t \in SweepTimers
                                /\ t.kind = "boot" => t \in BootTimers
<1>1. Timeouts \subseteq SweepTimers \cup BootTimers
  BY DEF TypeOK, Timeouts
<1>2. \A t \in SweepTimers : t.kind = "sweep"
  BY DEF SweepTimers
<1>3. \A t \in BootTimers : t.kind = "boot"
  BY DEF BootTimers
<1> QED BY <1>1, <1>2, <1>3

(* A timeout set for a sweep or a startup is none of NoTimer's.            *)
LEMMA NewTimer ==
  ASSUME NEW k, NEW d, NEW e
  PROVE  /\ SweepTimer(k, d) # NoTimer
         /\ [kind |-> "boot", token |-> k, era |-> e] # NoTimer
         /\ SweepTimer(k, d).kind = "sweep" /\ SweepTimer(k, d).token = k
         /\ SweepTimer(k, d).mark = sweepGeneration
<1> DEFINE s == SweepTimer(k, d)
           b == [kind |-> "boot", token |-> k, era |-> e]
<1>1. s.kind = "sweep" /\ s.token = k /\ s.mark = sweepGeneration
  BY DEF SweepTimer
<1>2. b.kind = "boot" /\ NoTimer.kind = "none"
  BY DEF NoTimer
<1> HIDE DEF s, b
<1>3. s # NoTimer /\ b # NoTimer
  BY <1>1, <1>2
<1> QED BY <1>1, <1>3 DEF s, b

(* Nor does it matter to what it is whether it cleared another.            *)
LEMMA ClearingTimer ==
  ASSUME NEW k, NEW d, NEW c
  PROVE  LET n == [SweepTimer(k, d) EXCEPT !.cleared = c]
         IN  /\ n # NoTimer /\ n.kind = "sweep" /\ n.token = k /\ n.mark = sweepGeneration
             /\ n.due = d /\ n.cleared = c
<1> DEFINE n == [SweepTimer(k, d) EXCEPT !.cleared = c]
<1>1. /\ n.kind = "sweep" /\ n.token = k /\ n.mark = sweepGeneration
      /\ n.due = d /\ n.cleared = c
  BY DEF SweepTimer
<1>2. NoTimer.kind = "none"
  BY DEF NoTimer
<1> HIDE DEF n
<1>3. n # NoTimer
  BY <1>1, <1>2
<1> QED BY <1>1, <1>3 DEF n

(* A timeout that fires is pending no more, and the others are.            *)
LEMMA Fires ==
  ASSUME NEW t \in Timeouts,
         timer' = IF t = timer THEN NoTimer ELSE timer,
         orphans' = orphans \ {t}
  PROVE  Timeouts' = Timeouts \ {t}
BY DEF Timeouts

-----------------------------------------------------------------------------
(* Types.                                                                  *)

(* The initial state is well typed.                                        *)
LEMMA InitType == Init => TypeOK
<1> SUFFICES ASSUME Init PROVE TypeOK
  OBVIOUS
<1>1. 0 \in 0..MaxGeneration
  BY BoundsAssumption
<1> QED BY <1>1, SitterOff DEF Init, TypeOK, Tokens

(* What an initialize() becomes is well typed.                             *)
LEMMA BootType ==
  ASSUME TypeOK, NEW b \in boots,
         StandDown(b) \/ \E at \in {"check", "ui", "load", "cache"} : Advance(b, at)
  PROVE  boots' \subseteq [token: Tokens, era: Nat,
                           at: {"host", "check", "ui", "load", "cache"}]
BY DEF TypeOK, StandDown, Advance

(* An activation that is alive has a sitter.                               *)
AliveHasSitter == alive => activeToken \in Tokens

(* Every step keeps the types.                                             *)
LEMMA StepType == TypeOK /\ AliveHasSitter /\ [Next]_vars => TypeOK' /\ AliveHasSitter'
<1> SUFFICES ASSUME TypeOK, AliveHasSitter, [Next]_vars PROVE TypeOK' /\ AliveHasSitter'
  OBVIOUS
<1> USE DEF activation, loop, toast, watch
<1>t. Timeouts \subseteq SweepTimers \cup BootTimers
  BY TimeoutsType
<1>n. /\ MaxGeneration \in Nat /\ generation \in Nat
      /\ \A k \in 1..MaxGeneration : k \in Tokens
  BY BoundsAssumption DEF TypeOK, Tokens
<1>s. \A k \in Tokens, d \in Dues : SweepTimer(k, d) \in SweepTimers
  BY DEF TypeOK, SweepTimer, SweepTimers
<1>1. CASE Startup
  <2> DEFINE t == [kind |-> "boot", token |-> generation', era |-> shutdowns]
  <2>1. generation' \in 0..MaxGeneration /\ generation' \in Tokens
    BY <1>1, <1>n DEF Startup, Tokens
  <2>2. t \in BootTimers
    BY <2>1 DEF BootTimers, TypeOK
  <2>3. timer' = t
    BY <1>1 DEF Startup
  <2> HIDE DEF t
  <2> QED BY <1>1, <1>t, <2>1, <2>2, <2>3 DEF Startup, TypeOK, AliveHasSitter
<1>2. CASE BootFires
  <2>1. PICK t \in Timeouts :
          /\ t.kind = "boot"
          /\ timer' = IF t = timer THEN NoTimer ELSE timer
          /\ orphans' = orphans \ {t}
          /\ boots' = boots \cup {[token |-> t.token, era |-> t.era, at |-> "host"]}
    BY <1>2 DEF BootFires
  <2>2. t \in BootTimers
    BY <2>1, TimeoutsType
  <2>3. [token |-> t.token, era |-> t.era, at |-> "host"] \in
          [token: Tokens, era: Nat, at: {"host", "check", "ui", "load", "cache"}]
    BY <2>2 DEF BootTimers
  <2> QED BY <1>2, <2>1, <2>3 DEF BootFires, TypeOK, AliveHasSitter
<1>3. CASE HostUp
  <2>1. boots' \subseteq [token: Tokens, era: Nat,
                          at: {"host", "check", "ui", "load", "cache"}]
    BY <1>3, BootType DEF HostUp
  <2> QED BY <1>3, <2>1, ZenonT(60) DEF HostUp, Reopen, TypeOK, AliveHasSitter
<1>4. CASE SelfChecked \/ UIReady \/ MetadataRead
  <2>1. boots' \subseteq [token: Tokens, era: Nat,
                          at: {"host", "check", "ui", "load", "cache"}]
    BY <1>4, BootType DEF SelfChecked, UIReady, MetadataRead, BootGoes
  <2> QED BY <1>4, <2>1 DEF SelfChecked, UIReady, MetadataRead, BootGoes, TypeOK, AliveHasSitter
<1>5. CASE CacheRead
  <2>1. boots' \subseteq [token: Tokens, era: Nat,
                          at: {"host", "check", "ui", "load", "cache"}]
    BY <1>5, BootType DEF CacheRead
  <2>2. PICK b \in boots :
          IF Superseded(b)
          THEN UNCHANGED <<alive, booting, activeToken, sitters, pulse, timer, orphans>>
          ELSE /\ alive' = TRUE /\ booting' = FALSE /\ activeToken' = b.token
               /\ Arm(b.token, NewSitter)
    BY <1>5 DEF CacheRead
  <2>3. b.token \in Tokens /\ b.token \in 0..MaxGeneration
    BY <1>n DEF TypeOK, Tokens
  <2>4. CASE Superseded(b)
    BY <1>5, <2>1, <2>2, <2>4 DEF CacheRead, TypeOK, AliveHasSitter
  <2>5. CASE ~Superseded(b)
    <3>1. ASSUME NEW s \in Sitters PROVE Started(s) \in Sitters
      BY SitterCalls
    <3>2. /\ sitters' \in [Tokens -> Sitters] /\ pulse' \in BOOLEAN
          /\ timer' \in {NoTimer} \cup SweepTimers \cup BootTimers
          /\ orphans' \subseteq SweepTimers \cup BootTimers
      <4>1. NewSitter \in Sitters /\ Started(NewSitter) \in Sitters
        BY <3>1, SitterOff
      <4>2. SweepTimer(b.token, "now") \in SweepTimers
        BY <1>s, <2>3 DEF Dues
      <4> QED BY <1>t, <2>2, <2>3, <2>5, <4>1, <4>2 DEF Arm, TypeOK
    <3> QED BY <1>5, <2>1, <2>2, <2>3, <2>5, <3>2 DEF CacheRead, TypeOK, AliveHasSitter
  <2> QED BY <2>4, <2>5
<1>6. CASE Shutdown
  <2>1. sitters' \in [Tokens -> Sitters]
    <3>1. CASE activeToken \in Tokens
      <4>1. TornDown(Stopped(sitters[activeToken])) \in Sitters
        BY <3>1, SitterCalls, SitterOff DEF TypeOK
      <4> QED BY <1>6, <4>1 DEF Shutdown, TearSitterDown, ReplaceSitter, TypeOK
    <3>2. CASE activeToken \notin Tokens
      BY <1>6, <3>2 DEF Shutdown, TearSitterDown, ReplaceSitter, TypeOK
    <3> QED BY <3>1, <3>2
  <2>2. generation' \in 0..MaxGeneration /\ shutdowns' \in Nat
    BY <1>6, <1>n DEF Shutdown, TypeOK
  <2> QED BY <1>6, <2>1, <2>2 DEF Shutdown, ClearTimers, TypeOK, AliveHasSitter
<1>7. CASE disarmSDTSitter
  <2>1. sitters' \in [Tokens -> Sitters]
    <3>1. CASE activeToken \in Tokens
      <4>1. SwitchedOff(sitters[activeToken]) \in Sitters
        BY <3>1, SitterCalls DEF TypeOK
      <4> QED BY <1>7, <4>1 DEF disarmSDTSitter, SwitchOffSitter, ReplaceSitter, TypeOK
    <3>2. CASE activeToken \notin Tokens
      BY <1>7, <3>2 DEF disarmSDTSitter, SwitchOffSitter, ReplaceSitter, TypeOK
    <3> QED BY <3>1, <3>2
  <2>2. sweepGeneration' \in Nat
    BY <1>7 DEF disarmSDTSitter, TypeOK
  <2>3. /\ pulse' \in BOOLEAN
        /\ timer' \in {NoTimer} \cup SweepTimers \cup BootTimers
        /\ orphans' \subseteq SweepTimers \cup BootTimers
    BY <1>7 DEF disarmSDTSitter, ClearTimers, TypeOK
  <2> QED BY <1>7, <2>1, <2>2, <2>3 DEF disarmSDTSitter, TypeOK, AliveHasSitter
<1>8. CASE armSDTSitter
  <2>1. activeToken \in Tokens
    BY <1>8 DEF armSDTSitter, Switchable, AliveHasSitter
  <2>2. sitters[activeToken] \in Sitters /\ Started(sitters[activeToken]) \in Sitters
    BY <2>1, SitterCalls DEF TypeOK
  <2>3. SweepTimer(activeToken, "now") \in SweepTimers
    BY <1>s, <2>1 DEF Dues
  <2>4. /\ sitters' \in [Tokens -> Sitters] /\ pulse' \in BOOLEAN
        /\ timer' \in {NoTimer} \cup SweepTimers \cup BootTimers
        /\ orphans' \subseteq SweepTimers \cup BootTimers
    BY <1>8, <1>t, <2>1, <2>2, <2>3 DEF armSDTSitter, Arm, TypeOK
  <2> QED BY <1>8, <2>4 DEF armSDTSitter, TypeOK, AliveHasSitter
<1>9. CASE SweepFires
  <2>1. PICK t \in Timeouts :
          /\ t.kind = "sweep"
          /\ timer' = IF t = timer THEN NoTimer ELSE timer
          /\ orphans' = orphans \ {t}
          /\ IF ~Live(t) THEN UNCHANGED <<sweeps, sitters>>
             ELSE LET starts == CanPump(sitters[t.token])
                  IN  /\ sweeps' = sweeps \cup {[token |-> t.token, mark |-> t.mark,
                             moved |-> FALSE, at |-> IF starts THEN "pump" ELSE "returned"]}
                      /\ IF starts
                         THEN \E p \in {sitters[t.token].phase, "working"} :
                                sitters' = [sitters EXCEPT ![t.token] =
                                              [PumpStarted(@) EXCEPT !.phase = p]]
                         ELSE UNCHANGED sitters
    BY <1>9 DEF SweepFires
  <2>2. t \in SweepTimers
    BY <2>1, TimeoutsType
  <2>3. t.token \in Tokens /\ t.mark \in Nat
    BY <2>2 DEF SweepTimers
  <2>4. sweeps' \subseteq [token: Tokens, mark: Nat, moved: BOOLEAN, at: {"pump", "returned"}]
    <3> DEFINE at == IF CanPump(sitters[t.token]) THEN "pump" ELSE "returned"
               w == [token |-> t.token, mark |-> t.mark, moved |-> FALSE, at |-> at]
    <3>1. at \in {"pump", "returned"}
      OBVIOUS
    <3>2. sweeps' = sweeps \/ sweeps' = sweeps \cup {w}
      BY <2>1
    <3> HIDE DEF at
    <3>3. w \in [token: Tokens, mark: Nat, moved: BOOLEAN, at: {"pump", "returned"}]
      BY <2>3, <3>1
    <3> QED BY <3>2, <3>3 DEF TypeOK
  <2>5. sitters' \in [Tokens -> Sitters]
    <3>1. \A p \in {sitters[t.token].phase, "working"} :
            [PumpStarted(sitters[t.token]) EXCEPT !.phase = p] \in Sitters
      BY <2>3, PumpStartedType DEF TypeOK
    <3>2. \/ sitters' = sitters
          \/ \E p \in {sitters[t.token].phase, "working"} :
               sitters' = [sitters EXCEPT ![t.token] =
                             [PumpStarted(sitters[t.token]) EXCEPT !.phase = p]]
      BY <2>1
    <3> QED BY <2>3, <3>1, <3>2 DEF TypeOK
  <2> QED BY <1>9, <2>1, <2>4, <2>5 DEF SweepFires, TypeOK, AliveHasSitter
<1>10. CASE PumpReturns
  <2>1. PICK w \in sweeps, moved \in BOOLEAN :
          /\ sweeps' = (sweeps \ {w}) \cup {[w EXCEPT !.at = "returned", !.moved = moved]}
          /\ \E s \in PumpReturned(sitters[w.token]) :
               sitters' = [sitters EXCEPT ![w.token] =
                             IF w.token = generation THEN s ELSE TornDown(s)]
    BY <1>10 DEF PumpReturns
  <2>2. w.token \in Tokens
    BY DEF TypeOK
  <2>3. sweeps' \subseteq [token: Tokens, mark: Nat, moved: BOOLEAN, at: {"pump", "returned"}]
    BY <2>1 DEF TypeOK
  <2>4. sitters' \in [Tokens -> Sitters]
    <3>1. PICK s \in PumpReturned(sitters[w.token]) :
            sitters' = [sitters EXCEPT ![w.token] =
                          IF w.token = generation THEN s ELSE TornDown(s)]
      BY <2>1
    <3>2. sitters[w.token] \in Sitters
      BY <2>2 DEF TypeOK
    <3>3. s \in Sitters
      BY <3>1, <3>2, PumpReturnedType
    <3>4. TornDown(s) \in Sitters
      BY <3>3, SitterOff
    <3> QED BY <2>2, <3>1, <3>3, <3>4 DEF TypeOK
  <2> QED BY <1>10, <2>1, <2>3, <2>4 DEF PumpReturns, TypeOK, AliveHasSitter
<1>11. CASE SweepEnds
  <2>1. PICK w \in sweeps :
          /\ w.at = "returned"
          /\ sweeps' = sweeps \ {w}
          /\ IF ~Live(w) THEN UNCHANGED <<timer, toast>>
             ELSE /\ Announce(w, sitters[w.token])
                  /\ timer' = [SweepTimer(w.token, nextSweepDelayMS(sitters[w.token]))
                                 EXCEPT !.cleared = Scheduled]
    BY <1>11 DEF SweepEnds
  <2>2. w.token \in Tokens /\ w.moved \in BOOLEAN
    BY DEF TypeOK
  <2>3. timer' \in {NoTimer} \cup SweepTimers \cup BootTimers
    <3>1. Scheduled \in BOOLEAN
      BY DEF Scheduled, Live, TypeOK
    <3>2. \A d \in Dues : [SweepTimer(w.token, d) EXCEPT !.cleared = Scheduled] \in SweepTimers
      BY <2>2, <3>1 DEF TypeOK, SweepTimer, SweepTimers
    <3> QED BY <2>1, <3>2, DelayType DEF TypeOK
  <2>4. sweepToastHeld' \in BOOLEAN
    BY <2>1, <2>2 DEF Announce, TypeOK
  <2> QED BY <1>11, <2>1, <2>3, <2>4 DEF SweepEnds, TypeOK, AliveHasSitter
<1>12. CASE Notify
  <2>1. PICK t \in 1..activeToken :
          /\ sitters' = [sitters EXCEPT ![t] = Notified(@)]
          /\ timer' = IF sitters[t].busy THEN timer ELSE SweepTimer(t, "now")
    BY <1>12 DEF Notify
  <2>2. t \in Tokens
    BY <1>n DEF TypeOK, Tokens
  <2>3. Notified(sitters[t]) \in Sitters
    BY <2>2, SitterCalls DEF TypeOK
  <2>4. SweepTimer(t, "now") \in SweepTimers
    BY <1>s, <2>2 DEF Dues
  <2> QED BY <1>12, <2>1, <2>2, <2>3, <2>4 DEF Notify, TypeOK, AliveHasSitter
<1>13. CASE HourPasses
  <2>1. PICK t \in Tokens : sitters' = [sitters EXCEPT ![t] = HourPassed(@)]
    BY <1>13 DEF HourPasses
  <2>2. HourPassed(sitters[t]) \in Sitters
    BY SitterCalls DEF TypeOK
  <2> QED BY <1>13, <2>1, <2>2 DEF HourPasses, TypeOK, AliveHasSitter
<1>14. CASE HostTurnsOff
  BY <1>14 DEF HostTurnsOff, TypeOK, AliveHasSitter
<1>15. CASE heartbeatTick
  BY <1>15 DEF heartbeatTick, TypeOK, AliveHasSitter
<1>16. CASE CheckFails
  BY <1>16 DEF CheckFails, TypeOK, AliveHasSitter
<1>17. CASE CheckEnds
  <2>1. sitters' \in [Tokens -> Sitters]
    <3>1. CASE UNCHANGED sitters
      BY <3>1 DEF TypeOK
    <3>2. CASE sitters' # sitters
      <4>1. alive /\ StopSitter
        BY <1>17, <3>2 DEF CheckEnds, noticeSDTRemoval
      <4>2. Stopped(sitters[activeToken]) \in Sitters
        BY <4>1, SitterCalls DEF TypeOK, AliveHasSitter
      <4> QED BY <4>1, <4>2 DEF StopSitter, ReplaceSitter, TypeOK
    <3> QED BY <3>1, <3>2
  <2>2. checks' \in Nat
    BY <1>17 DEF CheckEnds, TypeOK
  <2>3. /\ removalNoticed' \in BOOLEAN /\ pulse' \in BOOLEAN
        /\ timer' \in {NoTimer} \cup SweepTimers \cup BootTimers
        /\ orphans' \subseteq SweepTimers \cup BootTimers
    BY <1>17 DEF CheckEnds, noticeSDTRemoval, ClearTimers, TypeOK
  <2> QED BY <1>17, <2>1, <2>2, <2>3 DEF CheckEnds, TypeOK, AliveHasSitter
<1>18. CASE UNCHANGED vars
  BY <1>18 DEF vars, TypeOK, AliveHasSitter, SweepTimers, BootTimers
<1> QED BY <1>1, <1>2, <1>3, <1>4, <1>5, <1>6, <1>7, <1>8, <1>9, <1>10, <1>11, <1>12, <1>13,
           <1>14, <1>15, <1>16, <1>17, <1>18 DEF Next, Boot, Sweep, Watch, User

(* Every reachable state of the plugin's lifecycle is well typed.          *)
THEOREM TypeCorrect == Spec => []TypeOK
<1>1. Init => AliveHasSitter
  BY DEF Init, AliveHasSitter
<1>2. TypeOK /\ AliveHasSitter /\ [Next]_vars => TypeOK' /\ AliveHasSitter'
  BY StepType
<1> QED BY <1>1, <1>2, InitType, PTL DEF Spec

-----------------------------------------------------------------------------
(* The activation that lives.                                              *)

(* The startups not yet begun.                                             *)
BootTimeouts == {t \in Timeouts : t.kind = "boot"}

(* Startups keep their order: each is waited for, then begun, then past    *)
(* the host's own startup before any later one is, and none is there twice.*)
BootsInOrder ==
  /\ \A t, u \in BootTimeouts : t.token = u.token => t = u
  /\ \A b, c \in boots : b.token = c.token => b = c
  /\ \A b \in boots, t \in BootTimeouts : b.token < t.token
  /\ \A b, c \in boots : b.at # "host" /\ c.at = "host" => b.token < c.token
  /\ \A t \in BootTimeouts : t.token <= generation
  /\ \A b \in boots : b.token <= generation

(* While an activation lives every startup under way is of an older one;   *)
(* the one that may come alive has unsealed the journal and forgotten the  *)
(* removal noticed before it, and nothing has undone either.               *)
BootsStandDown ==
  /\ alive => BootTimeouts = {} /\ \A b \in boots : b.at # "host" /\ b.token # generation
  /\ \A b \in boots :
       b.at # "host" /\ b.token = generation => ~sealed /\ booting /\ ~removalNoticed

(* The intervals run in an activation that lives and was not removed.      *)
PulseAlive == pulse => alive /\ ~removalNoticed

BootInv == BootsInOrder /\ BootsStandDown

(* The tokens compared are numbers.                                        *)
LEMMA BootTokens ==
  ASSUME TypeOK
  PROVE  /\ generation \in Nat
         /\ \A b \in boots : b.token \in Nat
         /\ \A t \in BootTimeouts : t.token \in Nat /\ t \in Timeouts
<1>1. \A t \in BootTimeouts : t \in BootTimers
  BY TimeoutsType DEF BootTimeouts
<1> QED BY <1>1, BoundsAssumption DEF TypeOK, BootTimers, BootTimeouts, Tokens

(* What the code does to its timers adds no startup, except startup().     *)
LEMMA NoNewBoot ==
  ASSUME orphans' \subseteq Timeouts \cup orphans,
         timer' = timer \/ timer' = NoTimer \/ timer'.kind = "sweep"
  PROVE  BootTimeouts' \subseteq BootTimeouts
<1>1. NoTimer.kind = "none"
  BY DEF NoTimer
<1>2. NoTimer' = NoTimer
  BY DEF NoTimer
<1> QED BY <1>1, <1>2 DEF BootTimeouts, Timeouts

(* Startups stay in order when some of them go and later ones start.       *)
LEMMA OrderKept ==
  ASSUME TypeOK, TypeOK', BootsInOrder, BootTimeouts' \subseteq BootTimeouts,
         boots' \subseteq boots, generation' \in {generation, generation + 1}
  PROVE  BootsInOrder'
<1>1. /\ generation \in Nat /\ generation' \in Nat /\ generation <= generation'
      /\ \A b \in boots : b.token \in Nat
      /\ \A t \in BootTimeouts : t.token \in Nat
  BY BootTokens
<1> QED BY <1>1 DEF BootsInOrder

(* A step that leaves the activation alone lets no startup go wrong.       *)
LEMMA BootInvKept ==
  ASSUME TypeOK, TypeOK', BootInv, boots' = boots,
         orphans' \subseteq Timeouts \cup orphans,
         timer' = timer \/ timer' = NoTimer \/ timer'.kind = "sweep",
         UNCHANGED <<generation, alive, sealed, booting>>,
         removalNoticed' = removalNoticed \/ alive
  PROVE  BootInv'
<1>1. BootTimeouts' \subseteq BootTimeouts
  BY NoNewBoot
<1>2. BootsInOrder'
  BY <1>1, OrderKept DEF BootInv
<1>3. BootsStandDown'
  BY <1>1 DEF BootInv, BootsStandDown
<1> QED BY <1>2, <1>3 DEF BootInv

(* A startup past the host's own goes on, or ends.                         *)
LEMMA BootGoesOn ==
  ASSUME TypeOK, TypeOK', BootInv, NEW b \in boots, b.at # "host",
         NEW at, at # "host", StandDown(b) \/ Advance(b, at),
         UNCHANGED <<generation, alive, sealed, booting, removalNoticed, timer, orphans>>
  PROVE  BootInv'
<1>1. BootTimeouts' = BootTimeouts
  BY DEF BootTimeouts, Timeouts
<1> DEFINE d == [b EXCEPT !.at = at]
<1>2. d.token = b.token /\ d.at # "host"
  BY DEF TypeOK
<1>3. boots' \subseteq (boots \ {b}) \cup {d}
  BY DEF StandDown, Advance
<1> HIDE DEF d
<1>4. BootsInOrder'
  BY <1>1, <1>2, <1>3 DEF BootInv, BootsInOrder
<1>5. BootsStandDown'
  BY <1>1, <1>2, <1>3 DEF BootInv, BootsStandDown
<1> QED BY <1>4, <1>5 DEF BootInv

(* Only a startup in order and not superseded makes its activation alive.  *)
LEMMA BootStep == TypeOK /\ TypeOK' /\ BootInv /\ [Next]_vars => BootInv'
<1> SUFFICES ASSUME TypeOK, TypeOK', BootInv, [Next]_vars PROVE BootInv'
  OBVIOUS
<1> USE DEF activation, loop, toast, watch
<1>t. /\ generation \in Nat /\ \A b \in boots : b.token \in Nat
      /\ \A t \in BootTimeouts : t.token \in Nat /\ t \in Timeouts
  BY BootTokens
<1>1. CASE Startup
  <2> DEFINE n == [kind |-> "boot", token |-> generation', era |-> shutdowns]
  <2>1. n.token = generation + 1 /\ generation' = generation + 1 /\ ~alive
    BY <1>1 DEF Startup
  <2>2. timer' = n /\ orphans' = Timeouts /\ boots' = boots
        /\ UNCHANGED <<alive, sealed, booting, removalNoticed>>
    BY <1>1 DEF Startup
  <2> HIDE DEF n
  <2>3. BootTimeouts' \subseteq BootTimeouts \cup {n}
    BY <2>2 DEF BootTimeouts, Timeouts
  <2>4. \A b \in boots : b.token < n.token
    BY <1>t, <2>1 DEF BootInv, BootsInOrder
  <2>5. \A t \in BootTimeouts : t.token < n.token
    BY <1>t, <2>1 DEF BootInv, BootsInOrder
  <2>6. BootsInOrder'
    BY <1>t, <2>1, <2>2, <2>3, <2>4, <2>5 DEF BootInv, BootsInOrder
  <2>7. BootsStandDown'
    BY <1>t, <2>1, <2>2, <2>4 DEF BootsStandDown
  <2> QED BY <2>6, <2>7 DEF BootInv
<1>2. CASE BootFires
  <2>1. PICK t \in Timeouts :
          /\ t.kind = "boot"
          /\ \A u \in Timeouts : u.kind = "boot" => t.token <= u.token
          /\ timer' = IF t = timer THEN NoTimer ELSE timer
          /\ orphans' = orphans \ {t}
          /\ boots' = boots \cup {[token |-> t.token, era |-> t.era, at |-> "host"]}
    BY <1>2 DEF BootFires
  <2> DEFINE n == [token |-> t.token, era |-> t.era, at |-> "host"]
  <2>2. n.token = t.token /\ n.at = "host" /\ boots' = boots \cup {n}
    BY <2>1
  <2> HIDE DEF n
  <2>3. Timeouts' = Timeouts \ {t}
    BY <2>1, Fires
  <2>4. t \in BootTimeouts /\ BootTimeouts' = BootTimeouts \ {t}
    BY <2>1, <2>3 DEF BootTimeouts
  <2>5. \A u \in BootTimeouts' : t.token < u.token
    <3> SUFFICES ASSUME NEW u \in BootTimeouts' PROVE t.token < u.token
      OBVIOUS
    <3>1. u \in BootTimeouts /\ u # t
      BY <2>4
    <3>2. t.token <= u.token /\ t.token # u.token
      BY <2>1, <2>4, <3>1 DEF BootTimeouts, BootInv, BootsInOrder
    <3> QED BY <1>t, <2>4, <3>1, <3>2
  <2>6. \A b \in boots : b.token < t.token
    BY <2>4 DEF BootInv, BootsInOrder
  <2>7. ~alive /\ UNCHANGED <<generation, alive, sealed, booting, removalNoticed>>
    BY <1>2, <2>4 DEF BootInv, BootsStandDown, BootFires
  <2>8. BootsInOrder'
    BY <1>t, <2>2, <2>4, <2>5, <2>6, <2>7 DEF BootInv, BootsInOrder
  <2>9. BootsStandDown'
    BY <2>2, <2>7 DEF BootInv, BootsStandDown
  <2> QED BY <2>8, <2>9 DEF BootInv
<1>3. CASE HostUp
  <2>1. PICK b \in boots :
          /\ b.at = "host" /\ \A c \in boots : c.at = "host" => b.token <= c.token
          /\ IF b.era # shutdowns
             THEN StandDown(b) /\ UNCHANGED <<sealed, booting, removalNoticed>>
             ELSE Advance(b, "check") /\ Reopen
    BY <1>3 DEF HostUp
  <2>2. BootTimeouts' = BootTimeouts
    BY <1>3 DEF HostUp, BootTimeouts, Timeouts
  <2>3. ~alive /\ ~alive' /\ generation' = generation
    BY <1>3, <2>1 DEF HostUp, BootInv, BootsStandDown
  <2>4. CASE b.era # shutdowns
    <3>1. boots' \subseteq boots /\ UNCHANGED <<sealed, booting, removalNoticed>>
      BY <2>1, <2>4 DEF StandDown
    <3>2. BootsInOrder'
      BY <2>2, <2>3, <3>1, OrderKept DEF BootInv
    <3>3. BootsStandDown'
      BY <2>3, <3>1 DEF BootInv, BootsStandDown
    <3> QED BY <3>2, <3>3 DEF BootInv
  <2>5. CASE b.era = shutdowns
    <3> DEFINE d == [b EXCEPT !.at = "check"]
    <3>1. d.token = b.token /\ d.at = "check"
      BY DEF TypeOK
    <3>2. boots' = (boots \ {b}) \cup {d} /\ ~sealed' /\ booting' /\ ~removalNoticed'
      BY <2>1, <2>5 DEF Advance, Reopen
    <3> HIDE DEF d
    <3>3. \A c \in boots : c.at = "host" /\ c # b => b.token < c.token
      <4> SUFFICES ASSUME NEW c \in boots, c.at = "host", c # b PROVE b.token < c.token
        OBVIOUS
      <4>1. b.token <= c.token /\ b.token # c.token
        BY <2>1 DEF BootInv, BootsInOrder
      <4> QED BY <1>t, <4>1
    <3>4. BootsInOrder'
      BY <2>2, <2>3, <3>1, <3>2, <3>3 DEF BootInv, BootsInOrder
    <3>5. BootsStandDown'
      BY <2>3, <3>2 DEF BootsStandDown
    <3> QED BY <3>4, <3>5 DEF BootInv
  <2> QED BY <2>4, <2>5
<1>4. CASE SelfChecked \/ UIReady \/ MetadataRead
  <2>1. PICK b \in boots : /\ b.at # "host"
                           /\ \E at \in {"ui", "load", "cache"} : StandDown(b) \/ Advance(b, at)
    BY <1>4 DEF SelfChecked, UIReady, MetadataRead, BootGoes
  <2>2. UNCHANGED <<generation, alive, sealed, booting, removalNoticed, timer, orphans>>
    BY <1>4 DEF SelfChecked, UIReady, MetadataRead, BootGoes
  <2> QED BY <2>1, <2>2, BootGoesOn
<1>5. CASE CacheRead
  <2>1. PICK b \in boots :
          /\ b.at = "cache" /\ StandDown(b)
          /\ IF Superseded(b)
             THEN UNCHANGED <<alive, booting, activeToken, sitters, pulse, timer, orphans>>
             ELSE /\ alive' = TRUE /\ booting' = FALSE /\ activeToken' = b.token
                  /\ Arm(b.token, NewSitter)
    BY <1>5 DEF CacheRead
  <2>2. UNCHANGED <<generation, sealed, removalNoticed>>
    BY <1>5 DEF CacheRead
  <2>3. CASE Superseded(b)
    BY <2>1, <2>2, <2>3, BootGoesOn
  <2>4. CASE ~Superseded(b)
    <3>1. b.token = generation
      BY <2>4 DEF Superseded
    <3>2. boots' = boots \ {b} /\ alive' = TRUE
      BY <2>1, <2>4 DEF StandDown
    <3>3. BootTimeouts = {}
      BY <1>t, <3>1 DEF BootInv, BootsInOrder
    <3>4. orphans' \subseteq Timeouts \cup orphans
          /\ (timer' = timer \/ timer'.kind = "sweep")
      BY <2>1, <2>4, NewTimer DEF Arm
    <3>5. BootTimeouts' = {}
      BY <3>3, <3>4, NoNewBoot
    <3>6. \A c \in boots' : c.at # "host" /\ c.token # generation
      BY <1>t, <2>1, <3>1, <3>2 DEF BootInv, BootsInOrder
    <3>7. BootsInOrder'
      BY <2>2, <3>2, <3>5, OrderKept DEF BootInv
    <3>8. BootsStandDown'
      BY <2>2, <3>5, <3>6 DEF BootsStandDown
    <3> QED BY <3>7, <3>8 DEF BootInv
  <2> QED BY <2>3, <2>4
<1>6. CASE Shutdown
  <2>1. /\ generation' = generation + 1 /\ ~alive' /\ boots' = boots
        /\ timer' = NoTimer /\ orphans' = orphans
    BY <1>6 DEF Shutdown, ClearTimers
  <2>2. BootTimeouts' \subseteq BootTimeouts
    BY <2>1, NoNewBoot
  <2>3. BootsInOrder'
    BY <2>1, <2>2, OrderKept DEF BootInv
  <2>4. \A b \in boots : b.token # generation'
    BY <1>t, <2>1 DEF BootInv, BootsInOrder
  <2>5. BootsStandDown'
    BY <2>1, <2>4 DEF BootsStandDown
  <2> QED BY <2>3, <2>5 DEF BootInv
<1>7. CASE disarmSDTSitter
  BY <1>7, BootInvKept DEF disarmSDTSitter, ClearTimers, Switchable
<1>8. CASE armSDTSitter
  BY <1>8, BootInvKept, NewTimer DEF armSDTSitter, Switchable, Arm
<1>9. CASE SweepFires
  BY <1>9, BootInvKept DEF SweepFires, TypeOK
<1>10. CASE PumpReturns
  BY <1>10, BootInvKept DEF PumpReturns, TypeOK
<1>11. CASE SweepEnds
  <2>1. timer' = timer \/ timer'.kind = "sweep"
    <3>1. \/ timer' = timer
          \/ \E w \in sweeps :
               timer' = [SweepTimer(w.token, nextSweepDelayMS(sitters[w.token]))
                           EXCEPT !.cleared = Scheduled]
      BY <1>11 DEF SweepEnds, toast
    <3>2. \A w \in sweeps :
            [SweepTimer(w.token, nextSweepDelayMS(sitters[w.token]))
               EXCEPT !.cleared = Scheduled].kind = "sweep"
      BY ClearingTimer
    <3> QED BY <3>1, <3>2
  <2> QED BY <1>11, <2>1, BootInvKept DEF SweepEnds, TypeOK
<1>12. CASE Notify
  <2>1. timer' = timer \/ \E t \in 1..activeToken : timer' = SweepTimer(t, "now")
    BY <1>12 DEF Notify
  <2>2. timer' = timer \/ timer'.kind = "sweep"
    BY <2>1, NewTimer
  <2>3. /\ orphans' = orphans /\ boots' = boots /\ removalNoticed' = removalNoticed
        /\ UNCHANGED <<generation, alive, sealed, booting>>
    BY <1>12 DEF Notify
  <2> QED BY <2>2, <2>3, BootInvKept DEF TypeOK
<1>13. CASE HourPasses \/ HostTurnsOff \/ heartbeatTick \/ CheckFails
  BY <1>13, BootInvKept DEF HourPasses, HostTurnsOff, heartbeatTick, CheckFails, TypeOK
<1>14. CASE CheckEnds
  BY <1>14, BootInvKept DEF CheckEnds, noticeSDTRemoval, ClearTimers, TypeOK
<1>15. CASE UNCHANGED vars
  BY <1>15, BootInvKept DEF vars, TypeOK
<1> QED BY <1>1, <1>2, <1>3, <1>4, <1>5, <1>6, <1>7, <1>8, <1>9, <1>10, <1>11, <1>12, <1>13,
           <1>14, <1>15 DEF Next, Boot, Sweep, Watch, User

(* The activation that lives is whole; the intervals and the one sitter    *)
(* that is on are its own; what was noticed of it is true.                 *)
WholeInv == ActivationWhole /\ PulseAlive /\ OneSitterOn /\ NoFalseRemoval

(* A call on the sitter of the binding leaves the others as they are.      *)
LEMMA Replaced ==
  ASSUME TypeOK, NEW s \in Sitters, sitters' = ReplaceSitter(s)
  PROVE  /\ \A t \in Tokens : t # activeToken => sitters'[t] = sitters[t]
         /\ activeToken \in Tokens => sitters'[activeToken] = s
BY DEF ReplaceSitter

(* A step that throws no switch and moves no activation keeps WholeInv.    *)
LEMMA WholeKept ==
  ASSUME TypeOK, WholeInv,
         UNCHANGED <<host, generation, alive, sealed, booting, activeToken,
                     removalNoticed, pulse>>,
         \A t \in Tokens : sitters'[t].enabled = sitters[t].enabled
  PROVE  WholeInv'
BY DEF WholeInv, ActivationWhole, PulseAlive, OneSitterOn, NoFalseRemoval

(* armSDTSitter(), on an activation that lives: the sitter is on after it, *)
(* unless a removal was noticed.                                           *)
LEMMA Armed ==
  ASSUME TypeOK, NEW k \in Tokens, NEW s \in Sitters, ~pulse, ~removalNoticed, Arm(k, s)
  PROVE  /\ sitters' = [sitters EXCEPT ![k] = Started(s)] /\ pulse' = TRUE
         /\ orphans' = Timeouts /\ timer' = SweepTimer(k, "now")
         /\ sitters'[k].enabled = TRUE
         /\ \A t \in Tokens : t # k => sitters'[t] = sitters[t]
<1>1. Started(s) \in Sitters /\ Started(s).enabled = TRUE
  BY SitterCalls
<1> QED BY <1>1 DEF Arm, TypeOK

(* Every step keeps WholeInv.                                              *)
LEMMA WholeStep ==
  TypeOK /\ AliveHasSitter /\ BootInv /\ WholeInv /\ [Next]_vars => WholeInv'
<1> SUFFICES ASSUME TypeOK, AliveHasSitter, BootInv, WholeInv, [Next]_vars PROVE WholeInv'
  OBVIOUS
<1> USE DEF activation, loop, toast, watch
<1>s. /\ \A t \in Tokens : sitters[t] \in Sitters
      /\ \A t \in Tokens : sitters[t].enabled <=> (alive /\ t = activeToken /\ pulse)
      /\ alive => activeToken \in Tokens /\ activeToken = generation
  BY DEF TypeOK, WholeInv, OneSitterOn, AliveHasSitter, ActivationWhole
<1>1. CASE Startup
  BY <1>1 DEF Startup, WholeInv, ActivationWhole, PulseAlive, OneSitterOn, NoFalseRemoval
<1>2. CASE BootFires \/ SelfChecked \/ UIReady \/ MetadataRead
  BY <1>2, WholeKept DEF BootFires, SelfChecked, UIReady, MetadataRead, BootGoes
<1>3. CASE HostUp
  <2>1. ~alive
    BY <1>3 DEF HostUp, BootInv, BootsStandDown
  <2> QED BY <1>3, <2>1 DEF HostUp, WholeInv, ActivationWhole, PulseAlive, OneSitterOn,
                            NoFalseRemoval
<1>4. CASE CacheRead
  <2>1. PICK b \in boots :
          /\ b.at = "cache"
          /\ IF Superseded(b)
             THEN UNCHANGED <<alive, booting, activeToken, sitters, pulse, timer, orphans>>
             ELSE /\ alive' = TRUE /\ booting' = FALSE /\ activeToken' = b.token
                  /\ Arm(b.token, NewSitter)
    BY <1>4 DEF CacheRead
  <2>2. UNCHANGED <<host, generation, sealed, removalNoticed>>
    BY <1>4 DEF CacheRead
  <2>3. CASE Superseded(b)
    BY <2>1, <2>2, <2>3, WholeKept
  <2>4. CASE ~Superseded(b)
    <3>1. b.token = generation /\ b.token \in Tokens
      BY <2>4 DEF Superseded, TypeOK
    <3>2. ~alive /\ ~sealed /\ ~removalNoticed
      BY <2>1, <3>1 DEF BootInv, BootsStandDown
    <3>3. ~pulse
      BY <3>2 DEF WholeInv, PulseAlive
    <3>4. /\ sitters'[b.token].enabled = TRUE /\ pulse' = TRUE
          /\ \A t \in Tokens : t # b.token => sitters'[t] = sitters[t]
      BY <2>1, <2>4, <3>1, <3>2, <3>3, SitterOff, Armed
    <3>5. \A t \in Tokens : sitters'[t].enabled <=> t = b.token
      BY <1>s, <3>2, <3>4
    <3> QED BY <2>1, <2>2, <2>4, <3>1, <3>2, <3>4, <3>5
            DEF WholeInv, ActivationWhole, PulseAlive, OneSitterOn, NoFalseRemoval
  <2> QED BY <2>3, <2>4
<1>5. CASE Shutdown
  <2>1. \A t \in Tokens : sitters'[t].enabled = FALSE
    <3> SUFFICES ASSUME NEW t \in Tokens PROVE sitters'[t].enabled = FALSE
      OBVIOUS
    <3>1. CASE t = activeToken
      <4> DEFINE s == TornDown(Stopped(sitters[activeToken]))
      <4>1. s \in Sitters /\ s.enabled = FALSE
        BY <1>s, <3>1, SitterCalls, SitterOff
      <4>2. sitters' = ReplaceSitter(s)
        BY <1>5 DEF Shutdown, TearSitterDown
      <4> HIDE DEF s
      <4> QED BY <3>1, <4>1, <4>2, Replaced
    <3>2. CASE t # activeToken
      <4>1. sitters'[t] = sitters[t]
        BY <1>5, <3>2 DEF Shutdown, TearSitterDown, ReplaceSitter
      <4>2. sitters[t].enabled \in BOOLEAN
        BY <1>s DEF Sitters
      <4> QED BY <1>s, <3>2, <4>1, <4>2
    <3> QED BY <3>1, <3>2
  <2>2. ~alive' /\ ~pulse'
    BY <1>5 DEF Shutdown, ClearTimers
  <2> QED BY <2>1, <2>2 DEF WholeInv, ActivationWhole, PulseAlive, OneSitterOn, NoFalseRemoval
<1>6. ASSUME alive, UNCHANGED <<host, generation, alive, sealed, booting, activeToken>>,
             pulse' = FALSE, removalNoticed' = removalNoticed \/ host # "on",
             NEW s \in Sitters, s.enabled = FALSE, sitters' = ReplaceSitter(s)
      PROVE WholeInv'
  <2>1. \A t \in Tokens : sitters'[t].enabled = FALSE
    <3> SUFFICES ASSUME NEW t \in Tokens PROVE sitters'[t].enabled = FALSE
      OBVIOUS
    <3>1. sitters[t].enabled \in BOOLEAN
      BY <1>s DEF Sitters
    <3> QED BY <1>s, <1>6, <3>1, Replaced
  <2> QED BY <1>6, <2>1
          DEF WholeInv, ActivationWhole, PulseAlive, OneSitterOn, NoFalseRemoval
<1>7. CASE disarmSDTSitter
  <2>1. alive /\ sitters' = ReplaceSitter(SwitchedOff(sitters[activeToken]))
    BY <1>7 DEF disarmSDTSitter, Switchable, SwitchOffSitter
  <2>2. /\ SwitchedOff(sitters[activeToken]) \in Sitters
        /\ SwitchedOff(sitters[activeToken]).enabled = FALSE
    BY <1>s, <2>1, SitterCalls
  <2>3. /\ pulse' = FALSE /\ removalNoticed' = removalNoticed
        /\ UNCHANGED <<host, generation, alive, sealed, booting, activeToken>>
    BY <1>7 DEF disarmSDTSitter, ClearTimers
  <2> QED BY <1>6, <2>1, <2>2, <2>3
<1>8. CASE armSDTSitter
  <2>1. alive /\ ~removalNoticed /\ activeToken \in Tokens /\ Arm(activeToken, sitters[activeToken])
        /\ UNCHANGED <<host, generation, alive, sealed, booting, activeToken, removalNoticed>>
    BY <1>8, <1>s DEF armSDTSitter, Switchable
  <2>2. CASE pulse
    <3>1. sitters' = sitters /\ pulse' = pulse
      BY <2>1, <2>2 DEF Arm, TypeOK
    <3> QED BY <2>1, <3>1, WholeKept
  <2>3. CASE ~pulse
    <3>1. /\ sitters'[activeToken].enabled = TRUE /\ pulse' = TRUE
          /\ \A t \in Tokens : t # activeToken => sitters'[t] = sitters[t]
      BY <1>s, <2>1, <2>3, Armed
    <3> QED BY <1>s, <2>1, <3>1
            DEF WholeInv, ActivationWhole, PulseAlive, OneSitterOn, NoFalseRemoval
  <2> QED BY <2>2, <2>3
<1>9. CASE SweepFires
  <2>1. PICK t \in Timeouts :
          /\ t.kind = "sweep"
          /\ \/ UNCHANGED sitters
             \/ \E p \in {sitters[t.token].phase, "working"} :
                  sitters' = [sitters EXCEPT ![t.token] =
                                [PumpStarted(sitters[t.token]) EXCEPT !.phase = p]]
    BY <1>9 DEF SweepFires
  <2>2. t.token \in Tokens
    BY <2>1, TimeoutsType DEF SweepTimers
  <2>3. \A p \in {sitters[t.token].phase, "working"} :
          LET r == [PumpStarted(sitters[t.token]) EXCEPT !.phase = p]
          IN  r.enabled = sitters[t.token].enabled
    BY <1>s, <2>2, PumpStartedType
  <2>4. \A k \in Tokens : sitters'[k].enabled = sitters[k].enabled
    BY <2>1, <2>2, <2>3 DEF TypeOK
  <2>5. UNCHANGED <<host, generation, alive, sealed, booting, activeToken, removalNoticed, pulse>>
    BY <1>9 DEF SweepFires
  <2> QED BY <2>4, <2>5, WholeKept
<1>10. CASE PumpReturns
  <2>1. PICK w \in sweeps :
          \E s \in PumpReturned(sitters[w.token]) :
            sitters' = [sitters EXCEPT ![w.token] =
                          IF w.token = generation THEN s ELSE TornDown(s)]
    BY <1>10 DEF PumpReturns
  <2>2. PICK s \in PumpReturned(sitters[w.token]) :
            sitters' = [sitters EXCEPT ![w.token] =
                          IF w.token = generation THEN s ELSE TornDown(s)]
    BY <2>1
  <2>3. w.token \in Tokens
    BY DEF TypeOK
  <2>4. s \in Sitters /\ s.enabled = sitters[w.token].enabled
    BY <1>s, <2>2, <2>3, PumpReturnedType
  <2>5. TornDown(s) \in Sitters /\ TornDown(s).enabled = FALSE
    BY <2>4, SitterOff
  <2>6. w.token # generation => sitters[w.token].enabled = FALSE
    <3>1. sitters[w.token].enabled \in BOOLEAN
      BY <1>s, <2>3 DEF Sitters
    <3> QED BY <1>s, <2>3, <3>1
  <2>7. \A k \in Tokens : sitters'[k].enabled = sitters[k].enabled
    BY <2>2, <2>3, <2>4, <2>5, <2>6 DEF TypeOK
  <2>8. UNCHANGED <<host, generation, alive, sealed, booting, activeToken, removalNoticed, pulse>>
    BY <1>10 DEF PumpReturns
  <2> QED BY <2>7, <2>8, WholeKept
<1>11. CASE SweepEnds \/ heartbeatTick \/ CheckFails
  BY <1>11, WholeKept DEF SweepEnds, heartbeatTick, CheckFails
<1>12. CASE Notify
  <2>1. PICK t \in 1..activeToken : t = activeToken /\ alive
                                    /\ sitters' = [sitters EXCEPT ![t] = Notified(@)]
    BY <1>12 DEF Notify
  <2>2. Notified(sitters[t]).enabled = sitters[t].enabled
    BY <1>s, <2>1, SitterCalls
  <2>3. \A k \in Tokens : sitters'[k].enabled = sitters[k].enabled
    BY <1>s, <2>1, <2>2 DEF TypeOK
  <2>4. UNCHANGED <<host, generation, alive, sealed, booting, activeToken, removalNoticed, pulse>>
    BY <1>12 DEF Notify
  <2> QED BY <2>3, <2>4, WholeKept
<1>13. CASE HourPasses
  <2>1. PICK t \in Tokens : sitters' = [sitters EXCEPT ![t] = HourPassed(@)]
    BY <1>13 DEF HourPasses
  <2>2. HourPassed(sitters[t]).enabled = sitters[t].enabled
    BY <1>s, SitterCalls
  <2>3. \A k \in Tokens : sitters'[k].enabled = sitters[k].enabled
    BY <2>1, <2>2 DEF TypeOK
  <2>4. UNCHANGED <<host, generation, alive, sealed, booting, activeToken, removalNoticed, pulse>>
    BY <1>13 DEF HourPasses
  <2> QED BY <2>3, <2>4, WholeKept
<1>14. CASE HostTurnsOff
  BY <1>14 DEF HostTurnsOff, WholeInv, ActivationWhole, PulseAlive, OneSitterOn, NoFalseRemoval
<1>15. CASE CheckEnds
  <2>1. CASE UNCHANGED <<removalNoticed, timer, orphans, pulse, sitters>>
    BY <1>15, <2>1, WholeKept DEF CheckEnds
  <2>2. CASE alive /\ host # "on" /\ noticeSDTRemoval
    <3>1. /\ Stopped(sitters[activeToken]) \in Sitters
          /\ Stopped(sitters[activeToken]).enabled = FALSE
      BY <1>s, <2>2, SitterCalls
    <3>2. /\ sitters' = ReplaceSitter(Stopped(sitters[activeToken]))
          /\ pulse' = FALSE /\ removalNoticed' = TRUE
          /\ UNCHANGED <<host, generation, alive, sealed, booting, activeToken>>
      BY <1>15, <2>2 DEF CheckEnds, noticeSDTRemoval, ClearTimers, StopSitter
    <3> QED BY <1>6, <2>2, <3>1, <3>2
  <2> QED BY <1>15, <2>1, <2>2 DEF CheckEnds
<1>16. CASE UNCHANGED vars
  BY <1>16, WholeKept DEF vars
<1> QED BY <1>1, <1>2, <1>3, <1>4, <1>5, <1>7, <1>8, <1>9, <1>10, <1>11, <1>12, <1>13, <1>14,
           <1>15, <1>16 DEF Next, Boot, Sweep, Watch, User

(* What every reachable state keeps, before the sweep loop.                *)
LifeInv == TypeOK /\ AliveHasSitter /\ BootInv /\ WholeInv

(* LifeInv holds of every behaviour.                                       *)
LEMMA Life == Spec => []LifeInv
<1>1. Init => LifeInv
  <2> SUFFICES ASSUME Init PROVE LifeInv
    OBVIOUS
  <2>1. Timeouts = {} /\ BootTimeouts = {}
    BY DEF Init, Timeouts, BootTimeouts
  <2>2. BootInv
    BY <2>1 DEF Init, BootInv, BootsInOrder, BootsStandDown
  <2>3. WholeInv
    BY SitterOff DEF Init, WholeInv, ActivationWhole, PulseAlive, OneSitterOn, NoFalseRemoval
  <2> QED BY <2>2, <2>3, InitType DEF Init, AliveHasSitter, LifeInv
<1>2. LifeInv /\ [Next]_vars => LifeInv'
  BY StepType, BootStep, WholeStep DEF LifeInv
<1> QED BY <1>1, <1>2, PTL DEF Spec

(* The activation that lives is the last one started, for any number of    *)
(* startups and shutdowns overlapping at initialize()'s awaits.            *)
THEOREM AliveIsWhole == Spec => []ActivationWhole
<1>1. LifeInv => ActivationWhole
  BY DEF LifeInv, WholeInv
<1> QED BY <1>1, Life, PTL

(* Only the sitter of the activation that runs is ever on, and only while  *)
(* its switch is.                                                          *)
THEOREM OneSitter == Spec => []OneSitterOn
<1>1. LifeInv => OneSitterOn
  BY DEF LifeInv, WholeInv
<1> QED BY <1>1, Life, PTL

(* A removal is noticed only of an add-on the host has turned off, and     *)
(* forgotten by the activation that follows.                               *)
THEOREM RemovalIsReal == Spec => []NoFalseRemoval
<1>1. LifeInv => NoFalseRemoval
  BY DEF LifeInv, WholeInv
<1> QED BY <1>1, Life, PTL

-----------------------------------------------------------------------------
(* The sweep chains.                                                       *)

SweepTimeouts   == {t \in Timeouts : t.kind = "sweep"}
LiveSweepTimers == {t \in SweepTimeouts : Live(t)}
LiveSweeps      == {w \in sweeps : Live(w)}

(* No timeout or sweep is of an activation or a switch yet to come, and    *)
(* one of the current activation means that it has come alive.             *)
ChainsPast ==
  \A x \in SweepTimeouts \cup sweeps :
    /\ x.token <= generation /\ x.mark <= sweepGeneration
    /\ x.token = generation => alive

(* A live timeout is in the binding: those that no binding reaches are     *)
(* dead, and stay so.                                                      *)
OrphansDead == \A t \in LiveSweepTimers : t \notin orphans

(* A sweep that awaits its pump has one under way, and no other sweep of   *)
(* its activation awaits it too.                                           *)
PumpsOwned ==
  /\ \A w \in sweeps : w.at = "pump" => sitters[w.token].busy = TRUE
  /\ \A v, w \in sweeps : v.at = "pump" /\ w.at = "pump" /\ v.token = w.token => v = w

(* The one chain of a switch that runs is a timeout or a suspended sweep,  *)
(* or, between a pump's return and its sweep's `finally`, the timeout of a *)
(* notification that sweep is about to clear.                              *)
OneLink ==
  alive /\ ~removalNoticed =>
    \/ pulse /\ LiveSweepTimers = {timer} /\ LiveSweeps = {}
    \/ pulse /\ LiveSweepTimers = {} /\ \E w \in LiveSweeps : LiveSweeps = {w}
    \/ /\ MicrotaskCallbacks /\ pulse /\ LiveSweepTimers = {timer}
       /\ \E w \in LiveSweeps : LiveSweeps = {w} /\ w.at = "returned"
    \/ ~pulse /\ LiveSweepTimers = {} /\ LiveSweeps = {}

(* A turn that begins finds the chain in one place.                        *)
LEMMA TaskLink ==
  ASSUME OneLink, Task, alive, ~removalNoticed
  PROVE  \/ pulse /\ LiveSweepTimers = {timer} /\ LiveSweeps = {}
         \/ pulse /\ LiveSweepTimers = {} /\ \E w \in LiveSweeps : LiveSweeps = {w}
         \/ ~pulse /\ LiveSweepTimers = {} /\ LiveSweeps = {}
<1>1. \A w \in LiveSweeps : w.at # "returned"
  BY DEF Task, LiveSweeps
<1> QED BY <1>1 DEF OneLink

ChainInv == ChainsPast /\ OrphansDead /\ PumpsOwned /\ OneLink
ChainShape == ChainsPast /\ OrphansDead /\ OneLink

(* The tokens and marks compared are numbers.                              *)
LEMMA ChainTokens ==
  ASSUME TypeOK
  PROVE  /\ generation \in Nat /\ sweepGeneration \in Nat
         /\ \A x \in SweepTimeouts \cup sweeps : x.token \in Nat /\ x.mark \in Nat
         /\ \A w \in sweeps : w.token \in Tokens
         /\ \A t \in SweepTimeouts : t \in Timeouts /\ t.kind = "sweep" /\ t.token \in Tokens
<1>1. \A t \in SweepTimeouts : t \in SweepTimers
  BY TimeoutsType DEF SweepTimeouts
<1> QED BY <1>1, BoundsAssumption DEF TypeOK, SweepTimers, SweepTimeouts, Tokens

(* With the same timers, sweeps and activation, the chains are the same.   *)
LEMMA ShapeSame ==
  ASSUME ChainShape,
         UNCHANGED <<alive, generation, sweepGeneration, timer, orphans, sweeps, pulse>>,
         removalNoticed' = removalNoticed \/ ~alive
  PROVE  ChainShape'
BY DEF ChainShape, ChainsPast, OrphansDead, OneLink, SweepTimeouts, LiveSweepTimers,
       LiveSweeps, Timeouts, Live

(* With the same sweeps, and every sitter busy as it was, the pumps are    *)
(* awaited as before.                                                      *)
LEMMA PumpsSame ==
  ASSUME TypeOK, PumpsOwned, sweeps' = sweeps,
         \A t \in Tokens : sitters'[t].busy = sitters[t].busy
  PROVE  PumpsOwned'
<1>1. \A w \in sweeps : w.token \in Tokens
  BY DEF TypeOK
<1> QED BY <1>1 DEF PumpsOwned

(* While the activation, or the switch, moves on, what is pending dies.    *)
LEMMA AllDie ==
  ASSUME TypeOK, ChainShape, SweepTimeouts' \subseteq SweepTimeouts, sweeps' = sweeps,
         \/ generation' = generation + 1 /\ sweepGeneration' = sweepGeneration /\ ~alive'
         \/ /\ generation' = generation /\ sweepGeneration' = sweepGeneration + 1
            /\ alive' = alive /\ ~pulse'
  PROVE  ChainShape'
<1>t. /\ generation \in Nat /\ sweepGeneration \in Nat
      /\ \A x \in SweepTimeouts \cup sweeps : x.token \in Nat /\ x.mark \in Nat
  BY ChainTokens
<1>1. \A x \in SweepTimeouts \cup sweeps : x.token <= generation /\ x.mark <= sweepGeneration
  BY DEF ChainShape, ChainsPast
<1>2. \A x \in SweepTimeouts \cup sweeps :
        ~(alive' /\ x.token = generation' /\ x.mark = sweepGeneration')
  BY <1>t, <1>1
<1>3. LiveSweepTimers' = {} /\ LiveSweeps' = {}
  BY <1>2 DEF LiveSweepTimers, LiveSweeps, Live
<1>4. ChainsPast'
  <2>1. \A x \in SweepTimeouts' \cup sweeps' :
          /\ x.token <= generation' /\ x.mark <= sweepGeneration'
          /\ x.token = generation' => alive'
    BY <1>t, <1>1 DEF ChainShape, ChainsPast
  <2> QED BY <2>1 DEF ChainsPast
<1> QED BY <1>3, <1>4 DEF ChainShape, OrphansDead, OneLink

(* What becomes of the sweeps' timeouts when `timer` is set or cleared.    *)
LEMMA SweepTimeoutsGrow ==
  ASSUME NEW t, timer' = t, orphans' \subseteq Timeouts \cup orphans
  PROVE  /\ t.kind # "sweep" => SweepTimeouts' \subseteq SweepTimeouts
         /\ t.kind = "sweep" => SweepTimeouts' \subseteq SweepTimeouts \cup {t}
<1>1. NoTimer.kind = "none" /\ NoTimer' = NoTimer
  BY DEF NoTimer
<1> QED BY <1>1 DEF SweepTimeouts, Timeouts

(* Setting `timer` for the current activation and switch, when no chain is *)
(* live beside the binding it overwrites, leaves that timeout as the chain.*)
LEMMA NewLink ==
  ASSUME TypeOK, ChainShape, NEW t, t.kind = "sweep", t.token = generation,
         t.mark = sweepGeneration, timer' = t, t # NoTimer,
         orphans' \subseteq (Timeouts \cup orphans) \ LiveSweepTimers',
         sweeps' \subseteq sweeps, alive', pulse' \/ removalNoticed',
         UNCHANGED <<generation, sweepGeneration>>,
         \/ LiveSweeps' = {}
         \/ /\ MicrotaskCallbacks
            /\ \E w \in LiveSweeps' : LiveSweeps' = {w} /\ w.at = "returned"
  PROVE  ChainShape'
<1>t. generation \in Nat /\ sweepGeneration \in Nat
  BY ChainTokens
<1>1. SweepTimeouts' \subseteq SweepTimeouts \cup {t}
  BY SweepTimeoutsGrow
<1>2. t \in SweepTimeouts'
  <2>1. NoTimer' = NoTimer
    BY DEF NoTimer
  <2> QED BY <2>1 DEF SweepTimeouts, Timeouts
<1>3. t \in LiveSweepTimers'
  BY <1>2 DEF LiveSweepTimers, Live
<1>4. \A u \in LiveSweepTimers' : u = t
  <2>1. \A u \in LiveSweepTimers' : u \in orphans' \/ u = t
    BY DEF LiveSweepTimers, SweepTimeouts, Timeouts
  <2> QED BY <2>1
<1>5. LiveSweepTimers' = {t}
  BY <1>3, <1>4
<1>6. ChainsPast'
  BY <1>t, <1>1 DEF ChainShape, ChainsPast
<1>7. OrphansDead'
  BY DEF OrphansDead
<1>8. OneLink'
  BY <1>5 DEF OneLink
<1> QED BY <1>6, <1>7, <1>8 DEF ChainShape

(* A sweep that fires takes the place of its timeout in the chain.         *)
LEMMA SweepFiresStep ==
  ASSUME TypeOK, ChainShape, PumpsOwned, SweepFires
  PROVE  ChainShape' /\ PumpsOwned'
<1> USE DEF activation, watch, toast
<1>t. /\ generation \in Nat /\ sweepGeneration \in Nat
      /\ \A w \in sweeps : w.token \in Tokens
      /\ \A t \in SweepTimeouts : t \in Timeouts /\ t.kind = "sweep" /\ t.token \in Tokens
  BY ChainTokens
<1>1. PICK t \in Timeouts :
        /\ t.kind = "sweep"
        /\ timer' = IF t = timer THEN NoTimer ELSE timer
        /\ orphans' = orphans \ {t}
        /\ IF ~Live(t) THEN UNCHANGED <<sweeps, sitters>>
           ELSE LET starts == CanPump(sitters[t.token])
                IN  /\ sweeps' = sweeps \cup {[token |-> t.token, mark |-> t.mark,
                           moved |-> FALSE, at |-> IF starts THEN "pump" ELSE "returned"]}
                    /\ IF starts
                       THEN \E p \in {sitters[t.token].phase, "working"} :
                              sitters' = [sitters EXCEPT ![t.token] =
                                            [PumpStarted(@) EXCEPT !.phase = p]]
                       ELSE UNCHANGED sitters
  BY DEF SweepFires
<1>2. UNCHANGED <<alive, generation, sweepGeneration, removalNoticed, pulse>>
  BY DEF SweepFires
<1>3. t \in SweepTimeouts /\ t.token \in Tokens /\ sitters[t.token] \in Sitters
  BY <1>1, <1>t DEF SweepTimeouts, TypeOK
<1>4. Timeouts' = Timeouts \ {t}
  BY <1>1, Fires
<1>5. SweepTimeouts' = SweepTimeouts \ {t}
  BY <1>4 DEF SweepTimeouts
<1>6. LiveSweepTimers' = LiveSweepTimers \ {t}
  BY <1>2, <1>5 DEF LiveSweepTimers, Live
<1>7. CASE ~Live(t)
  <2>1. sweeps' = sweeps /\ sitters' = sitters /\ LiveSweeps' = LiveSweeps
    BY <1>1, <1>2, <1>7 DEF LiveSweeps, Live
  <2>2. t \notin LiveSweepTimers /\ LiveSweepTimers' = LiveSweepTimers
    BY <1>6, <1>7 DEF LiveSweepTimers
  <2>3. ChainsPast' /\ OrphansDead'
    BY <1>1, <1>2, <1>5, <2>1, <2>2 DEF ChainShape, ChainsPast, OrphansDead
  <2>4. OneLink'
    <3>1. timer # t => timer' = timer
      BY <1>1
    <3>2. LiveSweepTimers = {timer} => timer # t
      BY <2>2
    <3> QED BY <1>2, <2>1, <2>2, <3>1, <3>2 DEF ChainShape, OneLink
  <2> QED BY <2>1, <2>3, <2>4 DEF ChainShape, PumpsOwned
<1>8. CASE Live(t)
  <2> DEFINE starts == CanPump(sitters[t.token])
             at == IF starts THEN "pump" ELSE "returned"
             w == [token |-> t.token, mark |-> t.mark, moved |-> FALSE, at |-> at]
  <2>1. /\ sweeps' = sweeps \cup {w} /\ w.token = t.token /\ w.mark = t.mark
        /\ w.at = at
    BY <1>1, <1>8
  <2>2. at = "pump" => /\ sitters[t.token].busy = FALSE
                       /\ sitters'[t.token].busy = TRUE
                       /\ \A k \in Tokens : k # t.token => sitters'[k] = sitters[k]
    <3>1. at = "pump" => CanPump(sitters[t.token])
      OBVIOUS
    <3>2. CanPump(sitters[t.token]) => sitters[t.token].busy = FALSE
      BY <1>3 DEF CanPump, Sitters
    <3>3. \A p \in {sitters[t.token].phase, "working"} :
            LET r == [PumpStarted(sitters[t.token]) EXCEPT !.phase = p]
            IN  r.busy = TRUE
      BY <1>3, PumpStartedType
    <3>4. CanPump(sitters[t.token]) =>
            \E p \in {sitters[t.token].phase, "working"} :
              sitters' = [sitters EXCEPT ![t.token] =
                            [PumpStarted(sitters[t.token]) EXCEPT !.phase = p]]
      BY <1>1, <1>8
    <3> QED BY <1>3, <3>1, <3>2, <3>3, <3>4 DEF TypeOK
  <2>3. at # "pump" => sitters' = sitters
    BY <1>1, <1>8
  <2> HIDE DEF starts, at, w
  <2>4. PumpsOwned'
    <3>1. CASE at = "pump"
      <4>1. \A v \in sweeps : v.at = "pump" => v.token # t.token
        BY <2>2, <3>1 DEF PumpsOwned
      <4> QED BY <1>t, <2>1, <2>2, <3>1, <4>1 DEF PumpsOwned
    <3>2. CASE at # "pump"
      BY <2>1, <2>3, <3>2 DEF PumpsOwned
    <3> QED BY <3>1, <3>2
  <2>5. t \in LiveSweepTimers /\ alive
    BY <1>3, <1>8 DEF LiveSweepTimers, Live
  <2>6. t = timer
    BY <2>5 DEF ChainShape, OrphansDead, LiveSweepTimers, SweepTimeouts, Timeouts
  <2>7. LiveSweeps' = LiveSweeps \cup {w}
    BY <1>2, <1>8, <2>1 DEF LiveSweeps, Live
  <2>8. ChainsPast' /\ OrphansDead'
    BY <1>1, <1>2, <1>3, <1>5, <1>6, <2>1 DEF ChainShape, ChainsPast, OrphansDead
  <2>9. OneLink'
    <3> SUFFICES ASSUME ~removalNoticed PROVE OneLink'
      BY <1>2 DEF OneLink
    <3>1. pulse /\ LiveSweepTimers = {timer} /\ LiveSweeps = {}
      BY <1>2, <2>5, TaskLink DEF ChainShape, SweepFires
    <3>2. LiveSweepTimers' = {} /\ LiveSweeps' = {w}
      BY <1>6, <2>6, <2>7, <3>1
    <3> QED BY <1>2, <3>1, <3>2 DEF OneLink
  <2> QED BY <2>4, <2>8, <2>9 DEF ChainShape
<1> QED BY <1>7, <1>8

(* A pump that returns leaves its sweep where it is in the chain.          *)
LEMMA PumpReturnsStep ==
  ASSUME TypeOK, ChainShape, PumpsOwned, PumpReturns
  PROVE  ChainShape' /\ PumpsOwned'
<1> USE DEF activation, watch
<1>1. PICK w \in sweeps, moved \in BOOLEAN :
        /\ sweeps' = (sweeps \ {w}) \cup {[w EXCEPT !.at = "returned", !.moved = moved]}
        /\ \E s \in PumpReturned(sitters[w.token]) :
             sitters' = [sitters EXCEPT ![w.token] =
                           IF w.token = generation THEN s ELSE TornDown(s)]
  BY DEF PumpReturns
<1>2. UNCHANGED <<alive, generation, sweepGeneration, removalNoticed, timer, orphans, pulse>>
      /\ w.at = "pump"
  BY DEF PumpReturns, Task
<1>3. /\ w.token \in Tokens /\ \A v \in sweeps : v.token \in Tokens
      /\ \A k \in Tokens : k # w.token => sitters'[k] = sitters[k]
  BY <1>1 DEF TypeOK
<1> DEFINE d == [w EXCEPT !.at = "returned", !.moved = moved]
<1>4. d.token = w.token /\ d.mark = w.mark /\ d.at = "returned"
  BY DEF TypeOK
<1>5. sweeps' = (sweeps \ {w}) \cup {d}
  BY <1>1
<1> HIDE DEF d
<1>6. PumpsOwned'
  <2>1. \A v \in sweeps' : v.at = "pump" => v \in sweeps /\ v.token # w.token
    BY <1>2, <1>4, <1>5 DEF PumpsOwned
  <2> QED BY <1>3, <2>1 DEF PumpsOwned
<1>7. SweepTimeouts' = SweepTimeouts /\ LiveSweepTimers' = LiveSweepTimers
  BY <1>2 DEF SweepTimeouts, LiveSweepTimers, Timeouts, Live
<1>8. ChainsPast' /\ OrphansDead'
  BY <1>2, <1>4, <1>5, <1>7 DEF ChainShape, ChainsPast, OrphansDead
<1>9. OneLink'
  <2>1. LiveSweeps = {} => LiveSweeps' = {}
    BY <1>2, <1>4, <1>5 DEF LiveSweeps, Live
  <2>2. ASSUME NEW v \in LiveSweeps, LiveSweeps = {v} PROVE \E u \in LiveSweeps' : LiveSweeps' = {u}
    <3>1. CASE v = w
      <4>1. LiveSweeps' = {d}
        BY <1>2, <1>4, <1>5, <2>2, <3>1 DEF LiveSweeps, Live
      <4> QED BY <4>1
    <3>2. CASE v # w
      <4>1. ~Live(w)
        BY <2>2, <3>2 DEF LiveSweeps
      <4>2. LiveSweeps' = {v}
        BY <1>2, <1>4, <1>5, <2>2, <3>2, <4>1 DEF LiveSweeps, Live
      <4> QED BY <4>2
    <3> QED BY <3>1, <3>2
  <2>3. Task
    BY DEF PumpReturns
  <2> QED BY <1>2, <1>7, <2>1, <2>2, <2>3, TaskLink DEF ChainShape, OneLink
<1> QED BY <1>6, <1>8, <1>9 DEF ChainShape

(* A sweep that ends leaves a timeout in its place, if it is live.         *)
LEMMA SweepEndsStep ==
  ASSUME TypeOK, ChainShape, PumpsOwned, SweepEnds, pulse => ~removalNoticed
  PROVE  ChainShape' /\ PumpsOwned'
<1> USE DEF activation, watch, toast
<1>1. PICK w \in sweeps :
        /\ sweeps' = sweeps \ {w}
        /\ IF ~Live(w) THEN timer' = timer
           ELSE timer' = [SweepTimer(w.token, nextSweepDelayMS(sitters[w.token]))
                            EXCEPT !.cleared = Scheduled]
  BY DEF SweepEnds
<1>2. UNCHANGED <<alive, generation, sweepGeneration, removalNoticed, orphans, pulse, sitters>>
  BY DEF SweepEnds
<1>3. PumpsOwned'
  BY <1>1, <1>2 DEF PumpsOwned
<1>4. LiveSweeps' = LiveSweeps \ {w}
  BY <1>1, <1>2 DEF LiveSweeps, Live
<1>5. CASE ~Live(w)
  <2>1. LiveSweeps' = LiveSweeps /\ timer' = timer
    BY <1>1, <1>4, <1>5 DEF LiveSweeps
  <2>2. SweepTimeouts' = SweepTimeouts /\ LiveSweepTimers' = LiveSweepTimers
    BY <1>2, <2>1 DEF SweepTimeouts, LiveSweepTimers, Timeouts, Live
  <2>3. ChainShape'
    BY <1>1, <1>2, <2>1, <2>2 DEF ChainShape, ChainsPast, OrphansDead, OneLink
  <2> QED BY <1>3, <2>3
<1>6. CASE Live(w)
  <2> DEFINE n == [SweepTimer(w.token, nextSweepDelayMS(sitters[w.token]))
                     EXCEPT !.cleared = Scheduled]
  <2>1. /\ n.kind = "sweep" /\ n.token = generation /\ n.mark = sweepGeneration
        /\ n # NoTimer /\ timer' = n
    BY <1>1, <1>6, ClearingTimer DEF Live
  <2> HIDE DEF n
  <2>2. alive /\ w \in LiveSweeps
    BY <1>6 DEF LiveSweeps, Live
  <2>3. \A u \in orphans' : u \notin LiveSweepTimers'
    <3>1. \A u \in orphans : u \in LiveSweepTimers' => u \in LiveSweepTimers
      BY <1>2 DEF LiveSweepTimers, SweepTimeouts, Timeouts, Live, NoTimer
    <3> QED BY <1>2, <3>1 DEF ChainShape, OrphansDead
  <2>4. CASE ~removalNoticed
    <3>1. pulse /\ LiveSweeps = {w}
      BY <2>2, <2>4 DEF ChainShape, OneLink
    <3>2. LiveSweeps' = {}
      BY <1>4, <3>1
    <3>3. ChainShape'
      BY <1>1, <1>2, <2>1, <2>2, <2>3, <3>1, <3>2, NewLink
    <3> QED BY <1>3, <3>3
  <2>5. CASE removalNoticed
    <3>1. SweepTimeouts' \subseteq SweepTimeouts \cup {n}
      BY <1>2, <2>1, SweepTimeoutsGrow
    <3>2. ChainsPast'
      <4>1. generation \in Nat /\ sweepGeneration \in Nat
        BY ChainTokens
      <4> QED BY <1>1, <1>2, <2>1, <2>2, <3>1, <4>1 DEF ChainShape, ChainsPast
    <3>3. OrphansDead' /\ OneLink'
      BY <1>2, <2>3, <2>5 DEF OrphansDead, OneLink
    <3> QED BY <1>3, <3>2, <3>3 DEF ChainShape
  <2> QED BY <2>4, <2>5
<1> QED BY <1>5, <1>6

(* Every step keeps the chains, whether the host's callbacks are tasks or  *)
(* microtasks.                                                             *)
LEMMA ChainStep ==
  ASSUME LifeInv, LifeInv', ChainInv, [Next]_vars
  PROVE  ChainInv'
<1> USE DEF activation, loop, toast, watch
<1>h. /\ TypeOK /\ TypeOK' /\ AliveHasSitter /\ BootInv /\ WholeInv /\ ChainShape /\ PumpsOwned
      /\ \A t \in Tokens : sitters[t] \in Sitters
      /\ alive => activeToken \in Tokens /\ activeToken = generation
      /\ pulse => alive /\ ~removalNoticed
  BY DEF LifeInv, ChainInv, ChainShape, TypeOK, WholeInv, ActivationWhole, PulseAlive,
         AliveHasSitter
<1>t. /\ generation \in Nat /\ sweepGeneration \in Nat
      /\ \A x \in SweepTimeouts \cup sweeps : x.token \in Nat /\ x.mark \in Nat
      /\ \A w \in sweeps : w.token \in Tokens
      /\ \A t \in SweepTimeouts : t \in Timeouts /\ t.kind = "sweep" /\ t.token \in Tokens
  BY <1>h, ChainTokens
<1> SUFFICES ChainShape' /\ PumpsOwned'
  BY DEF ChainInv, ChainShape
<1>1. CASE Startup
  <2> DEFINE n == [kind |-> "boot", token |-> generation', era |-> shutdowns]
  <2>1. /\ generation' = generation + 1 /\ ~alive /\ ~alive'
        /\ UNCHANGED <<sweepGeneration, sweeps, sitters>>
        /\ timer' = n /\ orphans' = Timeouts /\ n.kind # "sweep"
    BY <1>1 DEF Startup
  <2> HIDE DEF n
  <2>2. SweepTimeouts' \subseteq SweepTimeouts
    BY <2>1, SweepTimeoutsGrow
  <2>3. ChainShape'
    BY <1>h, <2>1, <2>2, AllDie
  <2> QED BY <1>h, <2>1, <2>3, PumpsSame
<1>2. CASE BootFires
  <2>1. PICK t \in Timeouts : /\ t.kind = "boot"
                              /\ timer' = IF t = timer THEN NoTimer ELSE timer
                              /\ orphans' = orphans \ {t}
    BY <1>2 DEF BootFires
  <2>2. ~alive
    BY <1>h, <2>1 DEF BootInv, BootsStandDown, BootTimeouts
  <2>3. UNCHANGED <<alive, generation, sweepGeneration, sweeps, pulse, removalNoticed, sitters>>
    BY <1>2 DEF BootFires
  <2>4. SweepTimeouts' = SweepTimeouts
    BY <2>1, Fires DEF SweepTimeouts
  <2>5. ChainShape'
    BY <1>h, <2>2, <2>3, <2>4 DEF ChainShape, ChainsPast, OrphansDead, OneLink, LiveSweepTimers, Live
  <2> QED BY <1>h, <2>3, <2>5, PumpsSame
<1>3. CASE HostUp
  <2>1. ~alive
    BY <1>3, <1>h DEF HostUp, BootInv, BootsStandDown
  <2>2. UNCHANGED <<alive, generation, sweepGeneration, timer, orphans, sweeps, pulse, sitters>>
    BY <1>3 DEF HostUp
  <2> QED BY <1>h, <2>1, <2>2, ShapeSame, PumpsSame
<1>4. CASE SelfChecked \/ UIReady \/ MetadataRead \/ HostTurnsOff \/ heartbeatTick \/ CheckFails
  <2>1. UNCHANGED <<alive, generation, sweepGeneration, timer, orphans, sweeps, pulse, sitters,
                    removalNoticed>>
    BY <1>4 DEF SelfChecked, UIReady, MetadataRead, BootGoes, HostTurnsOff, heartbeatTick,
                CheckFails
  <2> QED BY <1>h, <2>1, ShapeSame, PumpsSame
<1>5. ASSUME NEW k \in Tokens, NEW s \in Sitters, k = generation, Arm(k, s), ~pulse,
             ~removalNoticed, alive', ~removalNoticed',
             LiveSweepTimers' \cap Timeouts = {}, LiveSweeps' = {},
             UNCHANGED <<generation, sweepGeneration, sweeps>>
      PROVE  ChainShape'
  <2>1. /\ pulse' = TRUE /\ orphans' = Timeouts /\ timer' = SweepTimer(k, "now")
    BY <1>5, <1>h, Armed
  <2> DEFINE n == SweepTimer(k, "now")
  <2>2. /\ n.kind = "sweep" /\ n.token = generation /\ n.mark = sweepGeneration /\ n # NoTimer
        /\ timer' = n
    BY <1>5, <2>1, NewTimer
  <2> HIDE DEF n
  <2>3. orphans' \subseteq (Timeouts \cup orphans) \ LiveSweepTimers'
    BY <1>5, <2>1
  <2> QED BY <1>5, <1>h, <2>1, <2>2, <2>3, NewLink
<1>6. CASE CacheRead
  <2>1. PICK b \in boots :
          /\ b.at = "cache"
          /\ IF Superseded(b)
             THEN UNCHANGED <<alive, booting, activeToken, sitters, pulse, timer, orphans>>
             ELSE /\ alive' = TRUE /\ booting' = FALSE /\ activeToken' = b.token
                  /\ Arm(b.token, NewSitter)
    BY <1>6 DEF CacheRead
  <2>2. UNCHANGED <<generation, sweepGeneration, removalNoticed, sweeps>>
    BY <1>6 DEF CacheRead
  <2>3. CASE Superseded(b)
    BY <1>h, <2>1, <2>2, <2>3, ShapeSame, PumpsSame
  <2>4. CASE ~Superseded(b)
    <3>1. b.token = generation /\ b.token \in Tokens
      BY <2>4, <1>h DEF Superseded, TypeOK
    <3>2. ~alive /\ ~removalNoticed /\ ~pulse /\ NewSitter \in Sitters
      BY <1>h, <2>1, <3>1, SitterOff DEF BootInv, BootsStandDown
    <3>3. \A x \in SweepTimeouts \cup sweeps : x.token # generation
      BY <1>h, <3>2 DEF ChainShape, ChainsPast
    <3>4. LiveSweepTimers' \cap Timeouts = {} /\ LiveSweeps' = {}
      BY <2>2, <3>3 DEF LiveSweepTimers, LiveSweeps, SweepTimeouts, Live
    <3>5. ChainShape'
      BY <1>5, <2>1, <2>2, <2>4, <3>1, <3>2, <3>4
    <3>6. \A t \in Tokens : t # b.token => sitters'[t] = sitters[t]
      BY <1>h, <2>1, <2>4, <3>1, <3>2, Armed
    <3>7. PumpsOwned'
      BY <1>h, <1>t, <2>2, <3>1, <3>3, <3>6 DEF PumpsOwned
    <3> QED BY <3>5, <3>7
  <2> QED BY <2>3, <2>4
<1>7. ASSUME NEW s \in Sitters, sitters' = ReplaceSitter(s), sweeps' = sweeps,
             activeToken \in Tokens => s.busy = sitters[activeToken].busy
      PROVE  PumpsOwned'
  <2>1. \A t \in Tokens : sitters'[t].busy = sitters[t].busy
    BY <1>7, <1>h, Replaced
  <2> QED BY <1>7, <1>h, <2>1, PumpsSame
<1>8. CASE Shutdown
  <2>1. /\ generation' = generation + 1 /\ ~alive' /\ timer' = NoTimer /\ orphans' = orphans
        /\ UNCHANGED <<sweepGeneration, sweeps>>
    BY <1>8 DEF Shutdown, ClearTimers
  <2>2. NoTimer.kind # "sweep"
    BY DEF NoTimer
  <2>3. SweepTimeouts' \subseteq SweepTimeouts
    BY <2>1, <2>2, SweepTimeoutsGrow
  <2>4. ChainShape'
    BY <1>h, <2>1, <2>3, AllDie
  <2>5. \A t \in Tokens : sitters'[t].busy = sitters[t].busy
    <3> DEFINE s == TornDown(Stopped(sitters[activeToken]))
    <3>1. sitters' = [t \in Tokens |-> IF t = activeToken THEN s ELSE sitters[t]]
      BY <1>8 DEF Shutdown, TearSitterDown, ReplaceSitter
    <3>2. ASSUME activeToken \in Tokens PROVE s.busy = sitters[activeToken].busy
      <4> DEFINE r == Stopped(sitters[activeToken])
      <4>1. r \in Sitters /\ r.busy = sitters[activeToken].busy
        BY <1>h, <3>2, SitterCalls
      <4> HIDE DEF r
      <4>2. TornDown(r).busy = r.busy
        BY <4>1, SitterOff
      <4> QED BY <4>1, <4>2 DEF r
    <3> HIDE DEF s
    <3> QED BY <3>1, <3>2
  <2> QED BY <1>h, <2>1, <2>4, <2>5, PumpsSame
<1>9. CASE disarmSDTSitter
  <2>1. /\ sweepGeneration' = sweepGeneration + 1 /\ generation' = generation /\ alive' = alive
        /\ alive /\ ~pulse' /\ timer' = NoTimer /\ orphans' = orphans /\ sweeps' = sweeps
        /\ sitters' = ReplaceSitter(SwitchedOff(sitters[activeToken]))
    BY <1>9 DEF disarmSDTSitter, ClearTimers, Switchable, SwitchOffSitter
  <2>2. NoTimer.kind # "sweep"
    BY DEF NoTimer
  <2>3. SweepTimeouts' \subseteq SweepTimeouts
    BY <2>1, <2>2, SweepTimeoutsGrow
  <2>4. ChainShape'
    BY <1>h, <2>1, <2>3, AllDie
  <2>5. /\ SwitchedOff(sitters[activeToken]) \in Sitters
        /\ SwitchedOff(sitters[activeToken]).busy = sitters[activeToken].busy
    BY <1>h, <2>1, SitterCalls
  <2> QED BY <1>7, <2>1, <2>4, <2>5
<1>10. CASE armSDTSitter
  <2>1. /\ alive /\ ~removalNoticed /\ Arm(activeToken, sitters[activeToken])
        /\ UNCHANGED <<alive, generation, sweepGeneration, removalNoticed, sweeps>>
    BY <1>10 DEF armSDTSitter, Switchable
  <2>2. CASE pulse
    <3>1. UNCHANGED <<pulse, timer, orphans>> /\ sitters' = sitters
      BY <1>h, <2>1, <2>2 DEF Arm, TypeOK
    <3> QED BY <1>h, <2>1, <3>1, ShapeSame, PumpsSame
  <2>3. CASE ~pulse
    <3>1. LiveSweepTimers = {} /\ LiveSweeps = {}
      BY <1>h, <2>1, <2>3 DEF ChainShape, OneLink
    <3>2. LiveSweepTimers' \cap Timeouts = {} /\ LiveSweeps' = {}
      BY <2>1, <3>1 DEF LiveSweepTimers, LiveSweeps, SweepTimeouts, Live
    <3>3. activeToken \in Tokens /\ activeToken = generation /\ sitters[activeToken] \in Sitters
      BY <1>h, <2>1
    <3>4. ChainShape'
      BY <1>5, <2>1, <2>3, <3>2, <3>3
    <3>4a. sitters' = [sitters EXCEPT ![activeToken] = Started(sitters[activeToken])]
      BY <1>h, <2>1, <2>3, <3>3, Armed
    <3>5. Started(sitters[activeToken]).busy = sitters[activeToken].busy
      BY <3>3, SitterCalls
    <3>6. \A t \in Tokens : sitters'[t].busy = sitters[t].busy
      BY <1>h, <3>3, <3>4a, <3>5 DEF TypeOK
    <3> QED BY <1>h, <2>1, <3>4, <3>6, PumpsSame
  <2> QED BY <2>2, <2>3
<1>11. CASE SweepFires
  BY <1>11, <1>h, SweepFiresStep
<1>12. CASE PumpReturns
  BY <1>12, <1>h, PumpReturnsStep
<1>13. CASE SweepEnds
  BY <1>13, <1>h, SweepEndsStep
<1>14. CASE Notify
  <2>1. PICK t \in 1..activeToken :
          /\ alive /\ t = generation /\ t = activeToken /\ sitters[t].enabled
          /\ sitters' = [sitters EXCEPT ![t] = Notified(@)]
          /\ timer' = IF sitters[t].busy THEN timer ELSE SweepTimer(t, "now")
    BY <1>14 DEF Notify
  <2>2. UNCHANGED <<alive, generation, sweepGeneration, removalNoticed, orphans, pulse, sweeps>>
    BY <1>14 DEF Notify
  <2>3. Notified(sitters[t]).busy = sitters[t].busy /\ t \in Tokens
    BY <1>h, <2>1, SitterCalls
  <2>4. PumpsOwned'
    <3>1. \A k \in Tokens : sitters'[k].busy = sitters[k].busy
      BY <1>h, <2>1, <2>3 DEF TypeOK
    <3> QED BY <1>h, <2>2, <3>1, PumpsSame
  <2>5. CASE sitters[t].busy
    BY <1>h, <2>1, <2>2, <2>4, <2>5, ShapeSame
  <2>6. CASE ~sitters[t].busy
    <3>1. pulse /\ ~removalNoticed
      BY <1>h, <2>1, <2>3 DEF WholeInv, OneSitterOn
    <3>2. \A w \in sweeps : w.at = "pump" => w.token # t
      BY <1>h, <2>6 DEF PumpsOwned
    <3>3. /\ LiveSweeps' = LiveSweeps
          /\ \/ LiveSweeps = {}
             \/ /\ MicrotaskCallbacks
                /\ \E w \in LiveSweeps : LiveSweeps = {w} /\ w.at = "returned"
      <4>1. LiveSweeps' = LiveSweeps
        BY <2>1, <2>2 DEF LiveSweeps, Live
      <4>2. \A w \in LiveSweeps : w.at = "returned"
        BY <1>h, <2>1, <3>2 DEF LiveSweeps, Live, TypeOK
      <4>3. ~MicrotaskCallbacks => LiveSweeps = {}
        BY <1>14, <4>2 DEF Notify, Task, LiveSweeps
      <4>4. LiveSweeps = {} \/ \E w \in LiveSweeps : LiveSweeps = {w}
        BY <1>h, <2>1, <3>1 DEF ChainShape, OneLink
      <4> QED BY <4>1, <4>2, <4>3, <4>4
    <3> DEFINE n == SweepTimer(t, "now")
    <3>4. /\ n.kind = "sweep" /\ n.token = generation /\ n.mark = sweepGeneration
          /\ n # NoTimer /\ timer' = n
      BY <2>1, <2>6, NewTimer
    <3> HIDE DEF n
    <3>5. \A u \in orphans : u \notin LiveSweepTimers'
      <4>1. \A u \in orphans : u \in LiveSweepTimers' => u \in LiveSweepTimers
        BY <1>h, <2>2 DEF LiveSweepTimers, SweepTimeouts, Timeouts, Live, NoTimer
      <4> QED BY <1>h, <4>1 DEF ChainShape, OrphansDead
    <3>6. ChainShape'
      BY <1>h, <2>1, <2>2, <3>1, <3>3, <3>4, <3>5, NewLink
    <3> QED BY <2>4, <3>6
  <2> QED BY <2>5, <2>6
<1>15. CASE HourPasses
  <2>1. PICK t \in Tokens : sitters' = [sitters EXCEPT ![t] = HourPassed(@)]
    BY <1>15 DEF HourPasses
  <2>2. HourPassed(sitters[t]).busy = sitters[t].busy
    BY <1>h, SitterCalls
  <2>3. \A k \in Tokens : sitters'[k].busy = sitters[k].busy
    BY <1>h, <2>1, <2>2 DEF TypeOK
  <2>4. UNCHANGED <<alive, generation, sweepGeneration, timer, orphans, sweeps, pulse,
                    removalNoticed>>
    BY <1>15 DEF HourPasses
  <2> QED BY <1>h, <2>3, <2>4, ShapeSame, PumpsSame
<1>16. CASE CheckEnds
  <2>1. UNCHANGED <<alive, generation, sweepGeneration, sweeps, activeToken>>
    BY <1>16 DEF CheckEnds
  <2>2. CASE UNCHANGED <<removalNoticed, timer, orphans, pulse, sitters>>
    BY <1>h, <2>1, <2>2, ShapeSame, PumpsSame
  <2>3. CASE alive /\ noticeSDTRemoval
    <3>1. /\ timer' = NoTimer /\ orphans' = orphans /\ removalNoticed' = TRUE
          /\ sitters' = ReplaceSitter(Stopped(sitters[activeToken]))
      BY <1>16, <2>3 DEF CheckEnds, noticeSDTRemoval, ClearTimers, StopSitter
    <3>2. NoTimer.kind # "sweep"
      BY DEF NoTimer
    <3>3. SweepTimeouts' \subseteq SweepTimeouts
      BY <3>1, <3>2, SweepTimeoutsGrow
    <3>4. LiveSweepTimers' \subseteq LiveSweepTimers
      BY <2>1, <3>3 DEF LiveSweepTimers, Live
    <3>5. ChainShape'
      BY <1>h, <2>1, <3>1, <3>3, <3>4 DEF ChainShape, ChainsPast, OrphansDead, OneLink
    <3>6. /\ Stopped(sitters[activeToken]) \in Sitters
          /\ Stopped(sitters[activeToken]).busy = sitters[activeToken].busy
      BY <1>h, <2>3, SitterCalls
    <3> QED BY <1>7, <2>1, <3>1, <3>5, <3>6
  <2> QED BY <1>16, <2>2, <2>3 DEF CheckEnds
<1>17. CASE UNCHANGED vars
  BY <1>17, <1>h, ShapeSame, PumpsSame DEF vars
<1> QED BY <1>1, <1>2, <1>3, <1>4, <1>6, <1>8, <1>9, <1>10, <1>11, <1>12, <1>13, <1>14,
           <1>15, <1>16, <1>17 DEF Next, Boot, Sweep, Watch, User

(* The chains of every behaviour.                                          *)
LEMMA Chained == Spec => []ChainInv
<1>1. Init => ChainInv
  <2> SUFFICES ASSUME Init PROVE ChainInv
    OBVIOUS
  <2>1. Timeouts = {} /\ sweeps = {} /\ ~alive
    BY DEF Init, Timeouts
  <2> QED BY <2>1 DEF ChainInv, ChainsPast, OrphansDead, PumpsOwned, OneLink, SweepTimeouts,
                      LiveSweepTimers
<1>2. LifeInv /\ LifeInv' /\ ChainInv /\ [Next]_vars => ChainInv'
  BY ChainStep
<1> QED BY <1>1, <1>2, Life, PTL DEF Spec

(* However activations, pauses, notifications and suspended sweeps         *)
(* interleave, a running switch has exactly one sweep chain and a pause    *)
(* has none at the end of every turn, be a notification a task of its own  *)
(* or a microtask of another.                                              *)
THEOREM OneChainAlways == Spec => []OneChain
<1>1. ChainInv => OneChain
  <2> SUFFICES ASSUME OneLink, Task, alive, ~removalNoticed
               PROVE  Cardinality(Chains) = IF pulse THEN 1 ELSE 0
    BY DEF ChainInv, OneChain
  <2>1. Chains = LiveSweepTimers \cup LiveSweeps
    BY DEF Chains, LiveSweepTimers, LiveSweeps, SweepTimeouts
  <2>2. CASE pulse
    <3>1. \E x : Chains = {x}
      BY <2>1, <2>2, TaskLink
    <3> QED BY <2>2, <3>1, FS_Singleton
  <2>3. CASE ~pulse
    <3>1. Chains = {}
      BY <2>1, <2>3, TaskLink
    <3> QED BY <2>3, <3>1, FS_EmptySet
  <2> QED BY <2>2, <2>3
<1> QED BY <1>1, Chained, PTL

-----------------------------------------------------------------------------
(* When the next sweep comes.                                              *)

Prompt == {"now", "soon"}
Owes(s) == s.busy \/ s.backlog
Answered(s) == Owes(s) => nextSweepDelayMS(s) \in Prompt

(* The timeout comes promptly, or is what a sweep left that cleared one.   *)
Comes(t) == t # NoTimer /\ (t.due \in Prompt \/ (MicrotaskCallbacks /\ t.cleared))

(* While no sweep of the loop is suspended the timeout of a sitter that    *)
(* owes work, or is still at it for an earlier switch, is a prompt one;    *)
(* and a suspended sweep will set such a timeout, as the pump it awaits is *)
(* the sitter's own and stops only where the delay is right for it, unless *)
(* a notification since then has set one for it to clear.                  *)
WakeInv ==
  alive /\ pulse =>
    /\ LiveSweeps = {} /\ Owes(sitters[activeToken]) => Comes(timer)
    /\ \A w \in LiveSweeps :
         /\ w.at = "pump" => sitters[activeToken].token = sitters[activeToken].epoch
         /\ w.at = "returned" =>
              Answered(sitters[activeToken]) \/ (MicrotaskCallbacks /\ Scheduled)

(* A current pump stops where its sitter is swept soon, or owes nothing.   *)
LEMMA ReturnAnswers ==
  ASSUME NEW s \in Sitters, OwnPump(s) PROVE \A r \in PumpReturned(s) : Answered(r)
<1>1. \A v \in Worked(s) : v \in Sitters
  BY WorkedType
<1>2. ASSUME NEW r \in PumpReturned(s) PROVE \E v \in Worked(s) : AtRest(v) /\ r = [v EXCEPT !.busy = FALSE]
  BY DEF PumpReturned
<1>3. ASSUME NEW v \in Sitters, AtRest(v) PROVE Answered([v EXCEPT !.busy = FALSE])
  <2> DEFINE r == [v EXCEPT !.busy = FALSE]
  <2>1. /\ r.busy = FALSE /\ r.backlog = v.backlog /\ r.phase = v.phase /\ r.queue = v.queue
        /\ r.nextRec = v.nextRec
    BY DEF Sitters
  <2> HIDE DEF r
  <2>2. Answered(r)
    BY <1>3, <2>1 DEF Answered, Owes, AtRest, nextSweepDelayMS, Prompt
  <2> QED BY <2>2 DEF r
<1> QED BY <1>1, <1>2, <1>3

(* What the other calls leave of the marks by which a pump knows its own.  *)
LEMMA SitterMarks ==
  ASSUME NEW s \in Sitters
  PROVE  /\ Notified(s).token = s.token /\ Notified(s).epoch = s.epoch
         /\ HourPassed(s).token = s.token /\ HourPassed(s).epoch = s.epoch
         /\ HourPassed(s).backlog = s.backlog
         /\ \A p : LET r == [PumpStarted(s) EXCEPT !.phase = p] IN r.token = r.epoch
BY DEF Sitters, Notified, HourPassed, PumpStarted

(* A step that sets the timeout of the loop to a prompt one.               *)
LEMMA WokenBy ==
  ASSUME NEW k, NEW d \in Prompt, timer' = SweepTimer(k, d), LiveSweeps' = {} PROVE WakeInv'
<1>1. SweepTimer(k, d) # NoTimer /\ SweepTimer(k, d).due = d
  BY NewTimer DEF SweepTimer
<1>2. NoTimer' = NoTimer
  BY DEF NoTimer
<1> QED BY <1>1, <1>2 DEF WakeInv, Comes, Prompt

(* A step of which the loop sees nothing.                                  *)
LEMMA WakeUnseen ==
  ASSUME WakeInv,
         UNCHANGED <<alive, generation, sweepGeneration, activeToken, pulse, timer, sweeps>>,
         LET s == sitters[activeToken]
             r == sitters'[activeToken]
         IN  alive /\ pulse => \/ r = s
                               \/ /\ r.busy = s.busy /\ r.backlog = s.backlog
                                  /\ r.token = s.token /\ r.epoch = s.epoch /\ Task
  PROVE  WakeInv'
<1>1. LiveSweeps' = LiveSweeps /\ NoTimer' = NoTimer
  BY DEF LiveSweeps, Live, NoTimer
<1>2. Task => \A w \in LiveSweeps : w.at = "pump"
  BY DEF Task, LiveSweeps
<1>3. Scheduled' = Scheduled /\ Comes(timer') = Comes(timer)
  BY <1>1 DEF Scheduled, Live, Comes
<1>4. Comes(timer)' = Comes(timer)
  BY <1>1 DEF Comes
<1> QED BY <1>1, <1>2, <1>3, <1>4 DEF WakeInv, Answered, Owes

(* A sweep that fires.                                                     *)
LEMMA WakeFires ==
  ASSUME LifeInv, ChainInv, WakeInv, SweepFires PROVE WakeInv'
<1> USE DEF activation, watch, toast
<1>t. /\ TypeOK /\ OneSitterOn
      /\ \A t \in SweepTimeouts : t \in Timeouts /\ t.kind = "sweep" /\ t.token \in Tokens
  BY ChainTokens DEF LifeInv, WholeInv
<1>1. PICK t \in Timeouts :
        /\ t.kind = "sweep"
        /\ timer' = IF t = timer THEN NoTimer ELSE timer
        /\ orphans' = orphans \ {t}
        /\ IF ~Live(t) THEN UNCHANGED <<sweeps, sitters>>
           ELSE LET starts == CanPump(sitters[t.token])
                IN  /\ sweeps' = sweeps \cup {[token |-> t.token, mark |-> t.mark,
                           moved |-> FALSE, at |-> IF starts THEN "pump" ELSE "returned"]}
                    /\ IF starts
                       THEN \E p \in {sitters[t.token].phase, "working"} :
                              sitters' = [sitters EXCEPT ![t.token] =
                                            [PumpStarted(@) EXCEPT !.phase = p]]
                       ELSE UNCHANGED sitters
  BY DEF SweepFires
<1>2. UNCHANGED <<alive, generation, sweepGeneration, activeToken, pulse>> /\ Task
  BY DEF SweepFires
<1> SUFFICES ASSUME alive, pulse PROVE WakeInv'
  BY <1>2 DEF WakeInv
<1>3. /\ t \in SweepTimeouts /\ t.token \in Tokens /\ activeToken \in Tokens /\ activeToken = generation
      /\ ~removalNoticed
  BY <1>1, <1>t DEF SweepTimeouts, LifeInv, AliveHasSitter, WholeInv, ActivationWhole, PulseAlive
<1>4. sitters[activeToken] \in Sitters /\ sitters[activeToken].enabled
  BY <1>3, <1>t DEF TypeOK, OneSitterOn
<1>5. CASE ~Live(t)
  <2>1. LiveSweeps' = LiveSweeps /\ sitters' = sitters
    BY <1>1, <1>2, <1>5 DEF LiveSweeps, Live
  <2>2. LiveSweeps = {} => timer' = timer
    <3>1. LiveSweeps = {} => LiveSweepTimers = {timer}
      BY <1>3 DEF ChainInv, OneLink
    <3>2. t \notin LiveSweepTimers
      BY <1>5 DEF LiveSweepTimers
    <3> QED BY <1>1, <3>1, <3>2
  <2>3. \A v \in LiveSweeps : v.at = "pump"
    BY <1>2 DEF LiveSweeps, Task
  <2> QED BY <1>2, <2>1, <2>2, <2>3 DEF WakeInv, Comes, NoTimer
<1>6. CASE Live(t)
  <2>1. t.token = activeToken /\ t \in LiveSweepTimers
    BY <1>3, <1>6 DEF Live, LiveSweepTimers
  <2>2. LiveSweeps = {}
    BY <1>2, <1>3, <2>1, TaskLink DEF ChainInv
  <2> DEFINE at == IF CanPump(sitters[t.token]) THEN "pump" ELSE "returned"
             w == [token |-> t.token, mark |-> t.mark, moved |-> FALSE, at |-> at]
  <2>3. sweeps' = sweeps \cup {w} /\ w.at = at /\ w.token = t.token /\ w.mark = t.mark
    BY <1>1, <1>6
  <2>4. LiveSweeps' = {w}
    <3> HIDE DEF w
    <3> QED BY <1>2, <1>6, <2>2, <2>3 DEF LiveSweeps, Live
  <2>5. CASE CanPump(sitters[t.token])
    <3>1. PICK p : sitters' = [sitters EXCEPT ![t.token] = [PumpStarted(sitters[t.token]) EXCEPT !.phase = p]]
      BY <1>1, <1>6, <2>5
    <3>2. sitters'[activeToken].token = sitters'[activeToken].epoch
      BY <1>3, <1>4, <1>t, <2>1, <3>1, SitterMarks DEF TypeOK
    <3> HIDE DEF w
    <3> QED BY <1>2, <2>3, <2>4, <2>5, <3>2 DEF WakeInv
  <2>6. CASE ~CanPump(sitters[t.token])
    <3>1. sitters' = sitters /\ sitters[activeToken].busy
      BY <1>1, <1>4, <1>6, <2>1, <2>6 DEF CanPump
    <3>2. Answered(sitters[activeToken])
      BY <3>1 DEF Answered, nextSweepDelayMS, Prompt
    <3> HIDE DEF w
    <3> QED BY <1>2, <2>3, <2>4, <2>6, <3>1, <3>2 DEF WakeInv
  <2> QED BY <2>5, <2>6
<1> QED BY <1>5, <1>6

(* A pump that returns: to a live sweep, having been the sitter's own, or  *)
(* to a sweep of an earlier switch, whose successor set a prompt timeout.  *)
LEMMA WakeReturns ==
  ASSUME LifeInv, ChainInv, WakeInv, PumpReturns PROVE WakeInv'
<1> USE DEF activation, watch, toast
<1>1. PICK w \in sweeps, moved \in BOOLEAN :
        /\ sweeps' = (sweeps \ {w}) \cup {[w EXCEPT !.at = "returned", !.moved = moved]}
        /\ \E s \in PumpReturned(sitters[w.token]) :
             sitters' = [sitters EXCEPT ![w.token] =
                           IF w.token = generation THEN s ELSE TornDown(s)]
  BY DEF PumpReturns
<1>2. /\ UNCHANGED <<alive, generation, sweepGeneration, activeToken, timer, pulse>> /\ Task
      /\ w.at = "pump" /\ NoTimer' = NoTimer
  BY DEF PumpReturns, Task, NoTimer
<1> SUFFICES ASSUME alive, pulse PROVE WakeInv'
  BY <1>2 DEF WakeInv
<1>3. /\ w.token \in Tokens /\ activeToken \in Tokens /\ activeToken = generation
      /\ sitters[activeToken] \in Sitters /\ sitters[activeToken].enabled /\ ~removalNoticed
      /\ sitters \in [Tokens -> Sitters]
  BY DEF LifeInv, AliveHasSitter, WholeInv, ActivationWhole, OneSitterOn, PulseAlive, TypeOK
<1> DEFINE d == [w EXCEPT !.at = "returned", !.moved = moved]
<1>4. d.token = w.token /\ d.mark = w.mark /\ d.at = "returned"
  BY DEF LifeInv, TypeOK
<1>5. sweeps' = (sweeps \ {w}) \cup {d}
  BY <1>1
<1> HIDE DEF d
<1>6. CASE Live(w)
  <2>1. LiveSweeps = {w} /\ w.token = activeToken
    BY <1>3, <1>6 DEF ChainInv, OneLink, LiveSweeps, Live
  <2>2. LiveSweeps' = {d}
    BY <1>2, <1>4, <1>5, <1>6, <2>1 DEF LiveSweeps, Live
  <2>3. OwnPump(sitters[activeToken])
    BY <1>2, <1>3, <2>1 DEF WakeInv, OwnPump
  <2>4. Answered(sitters'[activeToken])
    <3>1. \A r \in PumpReturned(sitters[activeToken]) : Answered(r)
      BY <1>3, <2>3, ReturnAnswers
    <3>2. PICK s \in PumpReturned(sitters[activeToken]) : sitters' = [sitters EXCEPT ![activeToken] = s]
      BY <1>1, <1>3, <2>1
    <3>3. sitters'[activeToken] = s
      BY <1>3, <3>2
    <3> QED BY <3>1, <3>2, <3>3
  <2> QED BY <1>2, <1>4, <2>2, <2>4 DEF WakeInv
<1>7. CASE ~Live(w)
  <2>1. LiveSweeps' = LiveSweeps
    BY <1>2, <1>4, <1>5, <1>7 DEF LiveSweeps, Live
  <2>2. CASE w.token # activeToken
    <3>1. sitters'[activeToken] = sitters[activeToken]
      BY <1>1, <1>3, <2>2
    <3>2. \A v \in LiveSweeps : v.at = "pump"
      BY <1>2 DEF LiveSweeps, Task
    <3> QED BY <1>2, <2>1, <3>1, <3>2 DEF WakeInv, Comes
  <2>3. CASE w.token = activeToken
    <3>1. LiveSweeps = {}
      <4>1. \A v \in LiveSweeps : v \in sweeps /\ v.at = "pump" /\ v.token = w.token
        BY <1>2, <1>3, <2>3 DEF LiveSweeps, Live, Task
      <4> QED BY <1>2, <1>7, <4>1 DEF ChainInv, PumpsOwned, LiveSweeps
    <3>2. sitters[activeToken].busy
      BY <1>2, <2>3 DEF ChainInv, PumpsOwned
    <3> QED BY <1>2, <2>1, <3>1, <3>2 DEF WakeInv, Comes, Owes
  <2> QED BY <2>2, <2>3
<1> QED BY <1>6, <1>7

(* A sweep that ends sets the timeout its sitter's state calls for.        *)
LEMMA WakeEnds ==
  ASSUME LifeInv, ChainInv, WakeInv, SweepEnds PROVE WakeInv'
<1> USE DEF activation, watch, toast
<1>1. PICK w \in sweeps :
        /\ w.at = "returned" /\ sweeps' = sweeps \ {w}
        /\ IF ~Live(w) THEN timer' = timer
           ELSE timer' = [SweepTimer(w.token, nextSweepDelayMS(sitters[w.token]))
                            EXCEPT !.cleared = Scheduled]
  BY DEF SweepEnds
<1>2. UNCHANGED <<alive, generation, sweepGeneration, activeToken, pulse, sitters>>
  BY DEF SweepEnds
<1> SUFFICES ASSUME alive, pulse PROVE WakeInv'
  BY <1>2 DEF WakeInv
<1>3. activeToken = generation /\ ~removalNoticed
  BY DEF LifeInv, WholeInv, ActivationWhole, PulseAlive
<1>4. CASE ~Live(w)
  <2>1. LiveSweeps' = LiveSweeps /\ timer' = timer /\ NoTimer' = NoTimer
    BY <1>1, <1>2, <1>4 DEF LiveSweeps, Live, NoTimer
  <2>2. Scheduled' = Scheduled
    BY <1>2, <2>1 DEF Scheduled, Live
  <2> QED BY <1>2, <2>1, <2>2 DEF WakeInv, Comes
<1>5. CASE Live(w)
  <2>1. LiveSweeps = {w} /\ w.token = activeToken
    BY <1>3, <1>5 DEF ChainInv, OneLink, LiveSweeps, Live
  <2>2. LiveSweeps' = {}
    BY <1>1, <1>2, <2>1 DEF LiveSweeps, Live
  <2>3. Answered(sitters[activeToken]) \/ (MicrotaskCallbacks /\ Scheduled)
    BY <1>1, <2>1 DEF WakeInv
  <2>4. CASE Owes(sitters[activeToken])
    <3> DEFINE n == [SweepTimer(activeToken, nextSweepDelayMS(sitters[activeToken]))
                       EXCEPT !.cleared = Scheduled]
    <3>1. timer' = n /\ NoTimer' = NoTimer
      BY <1>1, <1>5, <2>1 DEF NoTimer
    <3>2. n # NoTimer /\ n.due = nextSweepDelayMS(sitters[activeToken]) /\ n.cleared = Scheduled
      BY ClearingTimer
    <3> HIDE DEF n
    <3>3. /\ timer' # NoTimer' /\ timer'.due = nextSweepDelayMS(sitters[activeToken])
          /\ timer'.cleared = Scheduled
      BY <3>1, <3>2
    <3>4. Comes(timer)'
      BY <2>3, <2>4, <3>3 DEF Answered, Comes
    <3> QED BY <2>2, <3>4 DEF WakeInv
  <2>5. CASE ~Owes(sitters[activeToken])
    BY <1>2, <2>2, <2>5 DEF WakeInv
  <2> QED BY <2>4, <2>5
<1> QED BY <1>4, <1>5

(* armSDTSitter() on a loop that does not run.                             *)
LEMMA WakeArms ==
  ASSUME LifeInv, NEW k \in Tokens, NEW s \in Sitters, ~pulse, ~removalNoticed, Arm(k, s),
         LiveSweeps' = {}
  PROVE  WakeInv'
<1>1. timer' = SweepTimer(k, "now")
  BY Armed DEF LifeInv
<1> QED BY <1>1, WokenBy DEF Prompt

(* Every step keeps the sitter's next sweep prompt.                        *)
LEMMA WakeStep ==
  ASSUME LifeInv, ChainInv, WakeInv, [Next]_vars PROVE WakeInv'
<1> USE DEF activation, loop, toast, watch
<1>h. /\ TypeOK /\ sitters \in [Tokens -> Sitters] /\ OneSitterOn
      /\ alive => activeToken \in Tokens /\ activeToken = generation
      /\ pulse => alive /\ ~removalNoticed
  BY DEF LifeInv, TypeOK, WholeInv, ActivationWhole, PulseAlive, AliveHasSitter
<1>1. CASE Startup \/ BootFires \/ HostUp
  <2>1. ~alive /\ ~alive'
    <3>1. BootFires => BootTimeouts # {} /\ UNCHANGED alive
      BY DEF BootFires, BootTimeouts
    <3>2. HostUp => \E b \in boots : b.at = "host"
      BY DEF HostUp
    <3> QED BY <1>1, <3>1, <3>2 DEF Startup, HostUp, LifeInv, BootInv, BootsStandDown
  <2> QED BY <2>1 DEF WakeInv
<1>2. CASE SelfChecked \/ UIReady \/ MetadataRead \/ HostTurnsOff \/ heartbeatTick \/ CheckFails \/ UNCHANGED vars
  BY <1>2, WakeUnseen DEF SelfChecked, UIReady, MetadataRead, BootGoes, HostTurnsOff, heartbeatTick, CheckFails, vars
<1>3. CASE CacheRead
  <2>1. PICK b \in boots :
          /\ b.at = "cache"
          /\ IF Superseded(b)
             THEN UNCHANGED <<alive, booting, activeToken, sitters, pulse, timer, orphans>>
             ELSE /\ alive' = TRUE /\ booting' = FALSE /\ activeToken' = b.token
                  /\ Arm(b.token, NewSitter)
    BY <1>3 DEF CacheRead
  <2>2. UNCHANGED <<generation, sweepGeneration, removalNoticed, sweeps>>
    BY <1>3 DEF CacheRead
  <2>3. CASE Superseded(b)
    BY <2>1, <2>2, <2>3, WakeUnseen
  <2>4. CASE ~Superseded(b)
    <3>1. b.token = generation /\ b.token \in Tokens
      BY <2>4, <1>h DEF Superseded, TypeOK
    <3>2. ~alive /\ ~removalNoticed /\ ~pulse /\ NewSitter \in Sitters
      BY <1>h, <2>1, <3>1, SitterOff DEF LifeInv, BootInv, BootsStandDown
    <3>3. LiveSweeps' = {}
      BY <1>h, <2>2, <3>2, ChainTokens DEF ChainInv, ChainsPast, LiveSweeps, Live
    <3> QED BY <2>1, <2>4, <3>1, <3>2, <3>3, WakeArms
  <2> QED BY <2>3, <2>4
<1>4. CASE Shutdown \/ disarmSDTSitter
  <2>1. ~(alive' /\ pulse')
    BY <1>4 DEF Shutdown, disarmSDTSitter, ClearTimers
  <2> QED BY <2>1 DEF WakeInv
<1>5. CASE armSDTSitter
  <2>1. /\ alive /\ ~removalNoticed /\ Arm(activeToken, sitters[activeToken])
        /\ UNCHANGED <<alive, generation, sweepGeneration, activeToken, sweeps>>
    BY <1>5 DEF armSDTSitter, Switchable
  <2>2. CASE pulse
    <3>1. UNCHANGED <<pulse, timer>> /\ sitters' = sitters
      BY <1>h, <2>1, <2>2 DEF Arm
    <3> QED BY <2>1, <3>1, WakeUnseen
  <2>3. CASE ~pulse
    <3>1. LiveSweeps' = {}
      BY <2>1, <2>3 DEF ChainInv, OneLink, LiveSweeps, Live
    <3> QED BY <1>h, <2>1, <2>3, <3>1, WakeArms
  <2> QED BY <2>2, <2>3
<1>6. CASE SweepFires
  BY <1>6, WakeFires
<1>7. CASE PumpReturns
  BY <1>7, WakeReturns
<1>8. CASE SweepEnds
  BY <1>8, WakeEnds
<1>9. CASE Notify
  <2>1. PICK t \in 1..activeToken :
          /\ alive /\ t = generation /\ t = activeToken /\ sitters[t].enabled
          /\ sitters' = [sitters EXCEPT ![t] = Notified(@)]
          /\ timer' = IF sitters[t].busy THEN timer ELSE SweepTimer(t, "now")
    BY <1>9 DEF Notify
  <2>2. UNCHANGED <<alive, generation, sweepGeneration, activeToken, removalNoticed, pulse, sweeps>>
    BY <1>9 DEF Notify
  <2>3. t \in Tokens /\ pulse /\ sitters[t] \in Sitters /\ sitters'[t] = Notified(sitters[t])
    BY <1>h, <2>1 DEF OneSitterOn
  <2>4. /\ Notified(sitters[t]).busy = sitters[t].busy
        /\ Notified(sitters[t]).token = sitters[t].token /\ Notified(sitters[t]).epoch = sitters[t].epoch
    BY <2>3, SitterCalls, SitterMarks
  <2>5. LiveSweeps' = LiveSweeps /\ \A w \in LiveSweeps : w \in sweeps /\ w.token = t
    BY <2>1, <2>2 DEF LiveSweeps, Live
  <2>6. CASE sitters[t].busy
    <3>1. timer' = timer /\ NoTimer' = NoTimer
      BY <2>1, <2>6 DEF NoTimer
    <3>2. Owes(sitters[t])
      BY <2>6 DEF Owes
    <3>3. LiveSweeps' = {} => Comes(timer)'
      BY <2>1, <2>3, <2>5, <3>1, <3>2 DEF WakeInv, Comes
    <3>4. \A w \in LiveSweeps' : w.at = "pump" => sitters'[t].token = sitters'[t].epoch
      BY <2>1, <2>3, <2>4, <2>5 DEF WakeInv
    <3>5. Answered(sitters'[t])
      BY <2>3, <2>4, <2>6 DEF Answered, nextSweepDelayMS, Prompt
    <3> QED BY <2>1, <2>2, <3>3, <3>4, <3>5 DEF WakeInv
  <2>7. CASE ~sitters[t].busy
    <3>1. \A w \in LiveSweeps : w.at # "pump"
      BY <2>5, <2>7 DEF ChainInv, PumpsOwned
    <3>2. timer'.kind = "sweep" /\ timer'.token = t /\ timer'.mark = sweepGeneration
          /\ timer'.due = "now" /\ timer' # NoTimer'
      BY <2>1, <2>7, NewTimer DEF SweepTimer, NoTimer
    <3>3. Scheduled' /\ Comes(timer)'
      BY <2>1, <2>2, <3>2 DEF Scheduled, Live, Comes, Prompt
    <3>4. LiveSweeps # {} => MicrotaskCallbacks
      BY <1>9, <3>1 DEF Notify, Task, LiveSweeps, ChainInv, LifeInv, TypeOK
    <3> QED BY <2>5, <3>1, <3>3, <3>4 DEF WakeInv
  <2> QED BY <2>6, <2>7
<1>10. CASE HourPasses
  <2>1. PICK t \in Tokens : sitters' = [sitters EXCEPT ![t] = HourPassed(@)]
    BY <1>10 DEF HourPasses
  <2>2. /\ HourPassed(sitters[t]).busy = sitters[t].busy /\ HourPassed(sitters[t]).backlog = sitters[t].backlog
        /\ HourPassed(sitters[t]).token = sitters[t].token /\ HourPassed(sitters[t]).epoch = sitters[t].epoch
    BY <1>h, SitterCalls, SitterMarks
  <2>3. LET s == sitters[activeToken]
            r == sitters'[activeToken]
        IN  alive => r = s \/ (r.busy = s.busy /\ r.backlog = s.backlog /\ r.token = s.token /\ r.epoch = s.epoch)
    BY <1>h, <2>1, <2>2
  <2> QED BY <1>10, <2>3, WakeUnseen DEF HourPasses
<1>11. CASE CheckEnds
  <2>1. UNCHANGED <<alive, generation, sweepGeneration, sweeps, activeToken>>
    BY <1>11 DEF CheckEnds
  <2>2. CASE UNCHANGED <<timer, pulse, sitters>>
    BY <2>1, <2>2, WakeUnseen
  <2>3. CASE ~pulse'
    BY <2>3 DEF WakeInv
  <2> QED BY <1>11, <2>2, <2>3 DEF CheckEnds, noticeSDTRemoval, ClearTimers
<1> QED BY <1>1, <1>2, <1>3, <1>4, <1>5, <1>6, <1>7, <1>8, <1>9, <1>10, <1>11 DEF Next, Boot, Sweep, Watch, User

(* A sitter at rest that owes work is swept at once or within one sweep    *)
(* interval, however notifications, pauses and returning pumps interleave, *)
(* but for the one whose notification was a microtask between a pump's     *)
(* return and its sweep's `finally`: that has a sweep set too, later.      *)
THEOREM OwedWorkIsSwept == Spec => []WakeKept
<1>1. Init => WakeInv
  BY DEF Init, WakeInv
<1>2. LifeInv /\ ChainInv /\ WakeInv /\ [Next]_vars => WakeInv'
  BY WakeStep
<1>3. WakeInv => WakeKept
  <2>1. (\A w \in sweeps : ~Live(w)) => LiveSweeps = {}
    BY DEF LiveSweeps
  <2> QED BY <2>1 DEF WakeInv, WakeKept, AtRestOwing, Owes, Comes, Prompt
<1> QED BY <1>1, <1>2, <1>3, Life, Chained, PTL DEF Spec
=============================================================================
