\* Two activations and their shutdowns, overlapping or not, one pause, one removal check.
CONSTANTS
  MaxGeneration = 3
  MaxSweepGeneration = 1
  MaxChecks = 1
  MicrotaskCallbacks = TRUE
\* A plugin that is off, at the bound on activations, has nothing left to do.
CHECK_DEADLOCK FALSE
SPECIFICATION FairSpec
INVARIANT OneChain
INVARIANT ActivationWhole
INVARIANT OneSitterOn
INVARIANT NoFalseRemoval
INVARIANT WakeKept
PROPERTY KeepsSweeping
