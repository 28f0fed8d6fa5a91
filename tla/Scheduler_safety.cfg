\* Two attachments, one under a record; one outside change or inspection that throws,
\* one pause.  And what is remembered of one document, through two activations and one
\* change of its files.
CONSTANTS
  d1 = d1
  d2 = d2
  r1 = r1
  NoId = NoId
  Docs <- MCDocs
  Recs <- MCRecs
  ParentOf <- MCParentOf
  Dirs = {s1}
  LibStatuses = {"missing-pack", "current", "excluded"}
  GateReasons = {"low-disk"}
  MaxUpsets = 1
  MaxStops = 1
  Keys = {"k"}
  Contents = {"x", "y"}
  Versions = {1, 2}
  MaxAge = 2
  Writes = 1
  Activations = 2
SPECIFICATION SafetySpec
INVARIANT TypeOK
INVARIANT CountsTally
INVARIANT SnapshotOneGeneration
INVARIANT PausedSaysSo
INVARIANT MemoryStandsUp
INVARIANT FileFollowsMemory
