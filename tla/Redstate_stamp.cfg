\* Two commands: one whose cleanup fails, and the one after it.
CONSTANTS
  ARMS <- MCArms
  Invocations = 2
SPECIFICATION RedSpec
INVARIANT BrokenIsStamped
CHECK_DEADLOCK FALSE
