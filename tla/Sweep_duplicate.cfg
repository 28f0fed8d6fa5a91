\* A duplicate is of a cell already measured: what the module says of itself.
CONSTANTS
  Campaigns <- MCCampaigns
  Bytes <- MCBytes
  Published <- MCPublished
  Unpublished = "none"
  Reps <- MCReps
  MaxRuns = 2
SPECIFICATION Spec
INVARIANT DuplicateOfMeasured
CHECK_DEADLOCK FALSE
