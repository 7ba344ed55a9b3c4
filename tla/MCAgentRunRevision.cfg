SPECIFICATION Spec
CONSTANTS
  coder = coder
  reasoner = reasoner
  critic = critic
  None = None
  Nodes <- MCNodes
  LayerOf <- MCLayerOf
  Critic = critic
  NeedsConfirm = FALSE
  AutoResume = FALSE
  MaxRequests = 0
  MaxTroubles = 0
SYMMETRY Symmetry
PROPERTY FailedRevisionKeeps
