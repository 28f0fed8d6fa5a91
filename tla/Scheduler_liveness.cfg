\* One attachment, under fairness; two outside changes (notified or silent) or
\* inspections that throw, or one of them and one pause.
CONSTANTS
  d1 = d1
  d2 = d2
  r1 = r1
  NoId = NoId
  Docs <- MCOneDoc
  Recs = {}
  ParentOf <- MCParentOf
  Dirs = {s1}
  LibStatuses = {"missing-pack", "current", "excluded"}
  GateReasons = {"low-disk"}
  MaxUpsets = 2
  MaxStops = 1
SPECIFICATION MCFairSpec
PROPERTY Converges
PROPERTY QueueEmpties
