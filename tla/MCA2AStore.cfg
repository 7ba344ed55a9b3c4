SPECIFICATION CastSpec
SYMMETRY Symmetric
CONSTANTS
  t1 = t1
  t2 = t2
  k1 = k1
  r1 = r1
  Tasks <- MCTasks
  Clients = {k1}
  Readers = {r1}
  Casts = {"client", "reader"}
  MaxTasks = 1
  MaxDrops = 1
  MaxCrashes = 1
INVARIANTS AnswerIffCompleted ActiveIffWorked ChunksOnceInOrder
PROPERTY DecisionsStand
