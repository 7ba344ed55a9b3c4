SPECIFICATION MCSpec
CONSTANTS
  stream = stream
  json = json
  Calls <- MCCalls
  Streams <- MCStreams
  MaxAttempts = 2
  MaxCrashes = 2
  t1 = t1
  k1 = k1
  r1 = r1
  MaxTasks = 1
  MaxDrops = 1
  MaxTaskCrashes = 1
  c1 = c1
  c2 = c2
  c3 = c3
  Priorities <- MCPriorities
  MaxConcurrency = 1
  MaxQueueDepth = 3
  RateLimited = TRUE
  Burst = 1
  Timeouts = TRUE
  DlqMaxRows = 1
  MaxRequests = 3
INVARIANTS RowTracksThread RecoveredOnce
PROPERTIES
  WaitingEnds TasksEnd
