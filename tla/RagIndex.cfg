SPECIFICATION Spec
CONSTANTS
  Docs = {d1}
  Projects = {p1}
  Searchers = {k1}
  Global = Global
  Loop = Loop
  MaxRequests = 1
  MaxFailures = 0
INVARIANT DeletedStaysDeleted
