SPECIFICATION Spec
CONSTANTS
  Available <- Room
  Settings <- Turns
  TriggerMessages = 4
  TriggerSize = 9
  KeepRecent = 2
  MinDelta = 3
  MinDeltaSize = 4
  FallbackSize = 9
  HardLimit = 6
  WindowMessages = 6
  MinKeep = 1
  MaxMessages = 9
  MaxOdd = 1
INVARIANT NoSilentLoss
