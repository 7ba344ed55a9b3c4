SPECIFICATION LiveSpec
CONSTANTS
  coder = coder
  reasoner = reasoner
  critic = critic
  None = None
  Nodes <- MCNodes
  LayerOf <- MCLayerOf
  Critic = critic
  NeedsConfirm = TRUE
  AutoResume = TRUE
  MaxRequests = 2
  MaxTroubles = 2
INVARIANTS SucceededIsWhole EarlierLayersDurable BusyHasWorker
PROPERTIES ResumeKeepsSucceeded EveryRunSettles
