\* One activation, past its reconciliation deadline.
CONSTANTS
  MaxGeneration = 1
  MaxSweepGeneration = 0
  MaxChecks = 0
  MicrotaskCallbacks = TRUE
\* A plugin that is off, at the bound on activations, has nothing left to do.
CHECK_DEADLOCK FALSE
SPECIFICATION Spec
PROPERTY ErrorRetryPaced
