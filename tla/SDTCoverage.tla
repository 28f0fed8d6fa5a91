----------------------------- MODULE SDTCoverage -----------------------------
(***************************************************************************)
(* What the window computes from the sitter's state on every render:       *)
(* getSDTCoverage()'s figures.  They are read-only.                        *)
(***************************************************************************)
EXTENDS SDTScheduler, FiniteSetsExt

(* Wrong: a switch thrown off freezes whatever was being rebuilt.          *)
CompleteOrOff == scanned = total \/ phase = "switched-off"

Complete == scanned = total
Holding  == ~Complete /\ censusSnapshot # NoSnapshot

ShownCounts == IF Holding THEN censusSnapshot.counts ELSE counts
CensusTotal == IF Holding THEN censusSnapshot.total ELSE total

SumOver(c, class) == MapThenSumSet(LAMBDA s : c[s], class)
TallyOf(class) == SumOver(ShownCounts, class)

Known == Holding \/ (Complete /\ phase # "ready")

getSDTCoverage ==
  [current    |-> TallyOf(Indexed),
   unindexed  |-> TallyOf(Unindexed),
   failed     |-> TallyOf(Failed),
   queued     |-> TallyOf(Queued),
   total      |-> LET inScope == CensusTotal - TallyOf(OutOfScope)
                  IN  IF inScope > 0 THEN inScope ELSE 0]

CensusFinished == nextReconciliationAt # "never"

AddsUp(figures) ==
  figures.total = figures.current + figures.unindexed + figures.failed + figures.queued

-----------------------------------------------------------------------------
(* Once a census has finished, every figure called known names one         *)
(* generation: the classes make up the denominator, at every await, in the *)
(* middle of a rebuild and after one was cut off.                          *)
WholeCoverageAddsUp == Known /\ CensusFinished => AddsUp(getSDTCoverage)
=============================================================================
