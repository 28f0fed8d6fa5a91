\* The stop of one target; the other parts are as in Acceptance_checks.
CONSTANTS
  a1 = a1
  a2 = a2
  Items = 2
  Sections = 2
  Faults <- MCFaults
  Seconds = 4
  Assertions <- MCAssertions
  Keep = 1
  Account = "untrusted-runner"
  Lifecycles = 3
  Parent <- MCParent
  Wanted = 2
  Chunk = 2
  Page = 3
  Limit = 1
  Readers = {1, 2}
  Edits = 1
  Attachments <- MCAttachments
  Frames <- MCFrames
  Census <- MCCensus
  TYPE_GROUPS = {"book", "report"}
  CompoundParts = {"bookSection"}
  N = 6
  MaxTries = 2
  Seeds = {1, 2}
  Embedders <- MCEmbedders
  Registry <- MCRegistry
  Rows <- MCRows
  Replies <- MCHits
  TopK = 2
  MaxStarts = 2
  Payloads <- MCPayloads
  Lanes = {l1, l2}
  Checkouts <- MCCheckouts
  PAGE = 1
  PAGES = 3
SPECIFICATION MCSpec
INVARIANT BeaverGroupGone
