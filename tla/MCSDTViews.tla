----------------------------- MODULE MCSDTViews -----------------------------
(* The scheduler as others see it, for TLC: the window (SDTCoverage) and   *)
(* the sweep loop (SDTSitterRefinement), over the library of               *)
(* MCSDTScheduler.                                                         *)
EXTENDS MCSDTScheduler, SDTCoverage, SDTSitterRefinement
=============================================================================
