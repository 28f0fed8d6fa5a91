------------------------------ MODULE StallProbe ------------------------------
(***************************************************************************)
(* bench/sdt_stall_probe.py: has the native SDT worker stopped?  Two       *)
(* instruments and one verdict.  The sitter journals a heartbeat at every  *)
(* interval: its wall clock, which may be set, and the age of the last     *)
(* progress tick, by a clock that is not.  The probe reads the journal     *)
(* once (analyse_heartbeats), and then samples the process from /proc: the *)
(* CPU of each thread alive and of the whole process, and the bytes read   *)
(* on two layers.  stall_verdict() is where the two meet.                  *)
(*                                                                         *)
(* Time goes by half intervals, a heartbeat every two, a sample every one; *)
(* CPU is counted in percent of a core over a half interval, reads in half *)
(* IO_FLOOR_BYTES.  One document is under way, a snapshot is taken at      *)
(* once, and of a series only its ends are kept, which are what decides.   *)
(* Left out is what the record carries and nothing decides on: the ticks   *)
(* counted by the wall clock, the peaks, RSS, a thread's own reads.        *)
(***************************************************************************)
EXTENDS Integers, Sequences, SequencesExt

CONSTANTS Threads,   \* the thread ids of the process
          Loads,     \* percent of a core a thread may hold for a half interval
          Shifts,    \* half intervals the wall clock may be set by, once
          Horizon,   \* bound: half intervals before the journal is read
          Window     \* bound: half intervals sampled

(* A process has finitely many threads, and a load is no less than none.   *)
ASSUME LoadsAssumption == IsFiniteSet(Threads) /\ Loads \subseteq Nat /\ Shifts \subseteq Int

HEARTBEAT == 2
DEFAULT_QUIET == 2 * HEARTBEAT
DEFAULT_MIN_QUIET_BEATS == 2
WEDGE_CPU_PCT == 2
SLOW_CPU_PCT == 10
IO_FLOOR == 2
Unset == -1

VARIABLES clock,     \* the sitter's: time, its wall clock, when the last tick was, what it was set by
          journal,   \* the heartbeats written
          process,   \* its threads, the CPU each has used, the bytes read, what of /proc is readable
          probe      \* where the probe is, its reading of the journal, its snapshots, its verdict
stallVars == <<clock, journal, process, probe>>

ClockStart == [time |-> 0, wall |-> 0, tick |-> Unset, set |-> 0]
StallInit ==
  /\ clock = ClockStart /\ journal = <<>>
  /\ process = [alive |-> {}, born |-> {}, used |-> [t \in Threads |-> 0],
                block |-> 0, chars |-> 0, readable |-> {"io", "task"}]
  /\ probe = [pc |-> "waiting", reading |-> "none", corroborated |-> FALSE, miscounted |-> 0,
              quietTruly |-> 0, setBack |-> FALSE, steps |-> 0, series |-> <<>>, verdict |-> "none"]

-----------------------------------------------------------------------------
(* heartbeatTick(), and the ticks whose age it reports. *)
Age(now, tick) == IF tick = Unset THEN Unset ELSE now - tick
HalfInterval(ticks, shift) ==
  LET now  == clock.time + 1
      tick == IF ticks THEN now ELSE clock.tick
      wall == clock.wall + 1 + shift
  IN  /\ probe.pc = "waiting" /\ now <= Horizon
      /\ shift # 0 => clock.set = 0
      /\ clock' = [time |-> now, wall |-> wall, tick |-> tick, set |-> clock.set + shift]
      /\ journal' = IF now % HEARTBEAT = 0
                    THEN Append(journal, [at |-> wall, since |-> Age(now, tick)]) ELSE journal
      /\ UNCHANGED <<process, probe>>

-----------------------------------------------------------------------------
(* analyse_heartbeats().  An interval is quiet when the age grew by the    *)
(* wall time that went by, and is not judged when that is not positive.    *)
Wall(k) == journal[k + 1].at - journal[k].at
QuietAtAnyWall(k) ==
  LET older == journal[k].since
      newer == journal[k + 1].since
  IN  older # Unset /\ newer # Unset /\ newer - older >= Wall(k)
QuietInterval(k) ==
  LET older == journal[k].since
      newer == journal[k + 1].since
  IN  older # Unset /\ newer # Unset /\ Wall(k) > 0 /\ newer - older >= Wall(k)

(* No tick fell in it, by the steady clock. *)
TrulyQuiet(k) == journal[k + 1].since >= HEARTBEAT

(* The last intervals, as far back from the end of the journal as they are *)
(* quiet.                                                                  *)
Intervals == 1..(Len(journal) - 1)
Trailing(quiet) == {k \in Intervals : k..(Len(journal) - 1) \subseteq quiet}
CountedQuiet == Trailing({k \in Intervals : QuietInterval(k)})
Silent == {k \in Intervals : TrulyQuiet(k)}
QuietBeats == Cardinality(CountedQuiet)

JournalReading ==
  IF journal = <<>> THEN "unknown"
  ELSE IF Last(journal).since = Unset THEN "unknown"
  ELSE IF Last(journal).since >= DEFAULT_QUIET THEN "plateau" ELSE "advancing"

(* analyse_journal_file(), which main() does first; a file that is no      *)
(* journal ends it.  Without a pid to sample the reading is all there is.  *)
ReadJournal(sampled) ==
  /\ probe.pc = "waiting"
  /\ probe' = [probe EXCEPT !.pc = IF sampled THEN "read" ELSE "judging",
                            !.reading = JournalReading,
                            !.miscounted = Cardinality(CountedQuiet \ Silent),
                            !.quietTruly = Cardinality(Trailing(Silent)),
                            !.setBack = clock.set \in (1 - HEARTBEAT)..-1,
                            !.corroborated = JournalReading = "plateau"
                                 /\ QuietBeats >= DEFAULT_MIN_QUIET_BEATS]
  /\ UNCHANGED <<clock, journal, process>>
NoJournal == /\ probe.pc = "waiting"
             /\ probe' = [probe EXCEPT !.pc = "failed"]
             /\ UNCHANGED <<clock, journal, process>>

-----------------------------------------------------------------------------
(* sample_series().  The process it finds has lived, and some of its /proc *)
(* may not be readable; the journal has been read, or was not given.       *)
Lived == 100
StartSampling(alive, readable) ==
  /\ probe.pc \in {"waiting", "read"}
  /\ clock' = ClockStart /\ journal' = <<>>
  /\ process' = [process EXCEPT !.alive = alive, !.born = alive, !.readable = readable,
                                !.used = [t \in Threads |-> IF t \in alive THEN Lived ELSE 0]]
  /\ probe' = [probe EXCEPT !.pc = "sampling", !.corroborated = FALSE, !.setBack = FALSE,
                            !.miscounted = 0, !.quietTruly = 0]

(* Between two samples: a thread alive holds a load, then some exit and    *)
(* others are born, and with its last thread the process; pages are mapped *)
(* from the device, or read from the cache.                                *)
Works(load, exits, births, page) ==
  /\ probe.pc = "sleeping"
  /\ process' = [process EXCEPT
       !.used = [t \in Threads |-> @[t] + IF t \in process.alive THEN load[t] ELSE 0],
       !.alive = (@ \ exits) \cup births, !.born = @ \cup births,
       !.block = @ + IF page = "mapped" THEN 1 ELSE 0,
       !.chars = @ + IF page = "cached" THEN 1 ELSE 0]
  /\ probe' = [probe EXCEPT !.pc = "sampling", !.steps = @ + 1]
  /\ UNCHANGED <<clock, journal>>

(* snapshot(): a thread that has exited is not listed, its CPU is still in *)
(* the process's.  What every thread has truly used is no part of it.      *)
SumOver(f) == FoldFunction(+, 0, f)
snapshot == [at |-> probe.steps, whole |-> SumOver(process.used),
             threads |-> [t \in IF "task" \in process.readable THEN process.alive ELSE {} |-> process.used[t]],
             block |-> process.block, chars |-> process.chars, truly |-> process.used]
Sample ==
  /\ probe.pc = "sampling"
  /\ probe' = IF process.alive = {} THEN [probe EXCEPT !.pc = "summing"]
              ELSE [probe EXCEPT !.pc = IF probe.steps = Window THEN "summing" ELSE "sleeping",
                                 !.series = IF @ = <<>> THEN <<snapshot>> ELSE <<Head(@), snapshot>>]
  /\ UNCHANGED <<clock, journal, process>>

(* summarize_cpu() over the whole window: cpu_between() its ends, a thread *)
(* born in it counted from zero.  No rate without two snapshots.           *)
First == Head(probe.series)
Final == Last(probe.series)
Elapsed == Final.at - First.at
Used(t) == Final.threads[t] - IF t \in DOMAIN First.threads THEN First.threads[t] ELSE 0
SummarizeCpu ==
  /\ probe.pc = "summing"
  /\ probe' = [probe EXCEPT !.pc = IF Len(probe.series) < 2 THEN "failed"
                                   ELSE IF probe.reading = "none" THEN "done" ELSE "judging"]
  /\ UNCHANGED <<clock, journal, process>>

(* worker_cpu(): the busiest thread stands for the worker. *)
Worker == Max({Used(t) : t \in DOMAIN Final.threads})
WholeProcess == Final.whole - First.whole
BytesRead == Max({Final.block - First.block, Final.chars - First.chars})
Holds(cpu, percent) == cpu >= percent * Elapsed

(* stall_verdict(). *)
stall_verdict ==
  IF probe.reading = "unknown" THEN "undetermined"
  ELSE IF probe.reading # "plateau" THEN "advancing"
  ELSE IF probe.series = <<>> THEN "undetermined"
  ELSE IF DOMAIN Final.threads = {} THEN "undetermined"
  ELSE IF Holds(Worker, SLOW_CPU_PCT) THEN "slow-tail"
  ELSE IF \/ Holds(WholeProcess, SLOW_CPU_PCT)
          \/ "io" \notin process.readable \/ BytesRead >= IO_FLOOR THEN "undetermined"
  ELSE IF Worker <= WEDGE_CPU_PCT * Elapsed THEN "wedged" ELSE "undetermined"
Judge == /\ probe.pc = "judging"
         /\ probe' = [probe EXCEPT !.pc = "done", !.verdict = stall_verdict]
         /\ UNCHANGED <<clock, journal, process>>

StallNext ==
  \/ \E ticks \in BOOLEAN, shift \in Shifts : HalfInterval(ticks, shift)
  \/ \E sampled \in BOOLEAN : ReadJournal(sampled)
  \/ NoJournal
  \/ \E alive \in SUBSET Threads \ {{}}, readable \in SUBSET {"io", "task"} : StartSampling(alive, readable)
  \/ \E load \in [process.alive -> Loads], exits \in SUBSET process.alive, births \in SUBSET (Threads \ process.born),
        page \in {"none", "mapped", "cached"} : Works(load, exits, births, page)
  \/ Sample \/ SummarizeCpu \/ Judge

StallSpec == StallInit /\ [][StallNext]_stallVars

-----------------------------------------------------------------------------
(* A cause is named only of a plateau, and is the right one: "wedged" of a *)
(* process none of whose threads, those that came and went included, held  *)
(* the slow band over the window, and that read less than the floor on     *)
(* either layer; "slow-tail" of one in which some thread did hold it.  A   *)
(* plateau is corroborated only when no tick fell in the last intervals it *)
(* takes, whatever the wall clock was set by; and of the intervals counted *)
(* as quiet a tick fell in none, or in the one in which the wall clock was *)
(* set back by less than an interval.                                      *)
ProbeIsRight ==
  LET Held(t) == Final.truly[t] - First.truly[t]
  IN  /\ probe.verdict \in {"wedged", "slow-tail"} => probe.reading = "plateau"
      /\ probe.verdict = "wedged" =>
           /\ \A t \in Threads : ~Holds(Held(t), SLOW_CPU_PCT)
           /\ "io" \in process.readable /\ Final.block - First.block < IO_FLOOR /\ Final.chars - First.chars < IO_FLOOR
      /\ probe.verdict = "slow-tail" => \E t \in Threads : Holds(Held(t), SLOW_CPU_PCT)
      /\ probe.corroborated => probe.quietTruly >= DEFAULT_MIN_QUIET_BEATS
      /\ probe.miscounted <= IF probe.setBack THEN 1 ELSE 0
=============================================================================
