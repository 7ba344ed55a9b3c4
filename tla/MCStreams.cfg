SPECIFICATION MCSpec
CONSTANTS
  req1 = req1
  req2 = req2
  Requests = {req1, req2}
  Mixes <- MCMixes
  MaxToolRounds = 1
  MaxAttempts = 2
  Slots = 1
  MaxChunks = 2
  a1 = a1
  a2 = a2
  Agents = {a1, a2}
  Order <- MCOrder
  MaxWorkers = 2
  MaxDeltas = 1
  Browsers = {b1}
  MaxEvents = 4
  MaxDrops = 2
  MaxRestarts = 1
  s1 = s1
  Threads = {t1, t2}
  FailuresToOpen = 2
INVARIANTS OneVerdict  VerdictIsFinal SendsWhatItChecked
PROPERTIES EndsWithEverything EverythingEnds RecoversWhenUp
CHECK_DEADLOCK FALSE
