SPECIFICATION Spec
SYMMETRY Symmetric
CONSTANTS
  c1 = c1
  c2 = c2
  c3 = c3
  c4 = c4
  Clients = {c1, c2, c3, c4}
  Cancellable <- Streams
  Priorities <- MCPriorities
  MaxConcurrency = 2
  MaxQueueDepth = 3
  RateLimited = TRUE
  Burst = 1
  Timeouts = TRUE
  DlqMaxRows = 2
  MaxRequests = 4
INVARIANT Accounting
PROPERTY ImplementsAdmissionControl
