\* What the library, the worker, the window and the sweep loop see of the pump: one
\* attachment under a record, two upsets (changed in every way, notified or not, or
\* an inspection that throws) at every await, the switch thrown off once, both ways
\* the machine can hold a document back.
CONSTANTS
  d1 = d1
  d2 = d2
  r1 = r1
  NoId = NoId
  Docs <- MCOneDoc
  Recs <- MCRecs
  ParentOf <- MCParentOf
  Dirs = {s1, s2}
  LibStatuses = {"missing-pack", "current", "excluded"}
  GateReasons = {"low-disk", "native-worker-busy"}
  MaxUpsets = 2
  MaxStops = 1
SPECIFICATION MCSpec
INVARIANT VerdictRecorded
INVARIANT RestsDrained
INVARIANT WholeCoverageAddsUp
INVARIANT NoLostChange
PROPERTY SitterPromise
PROPERTY AdmissionSound
