SPECIFICATION MCSpec
CONSTANTS
  k1 = k1
  k2 = k2
  b1 = b1
  PackCustom <- MCPackCustom
  PackBuiltins <- MCPackBuiltins
  Manifests <- MCManifests
  Length <- PageLength
  Available <- Room
  Settings <- Turns
  Custom = {k1}
  Builtins = {b1}
  Packs = {p1, p2}
  MaxEnabled = 2
  MaxImports = 2
  MaxBroken = 1
  Bodies = {plain, risky, riskier}
  Risky = {risky, riskier}
  MaxSkillCrashes = 1
  ChunkChars = 4
  Overlap = 2
  FullLimit = 5
  MaxChosen = 2
  Budgets = {1, 4, 6}
  ReaderMax = 2
  MaxText = 8
  N = 3
  Recognisers = {"deepseek-api", "android-mlkit", "formula-command", "tesseract"}
  TriggerMessages = 4
  TriggerSize = 9
  KeepRecent = 2
  MinDelta = 3
  MinDeltaSize = 4
  FallbackSize = 9
  HardLimit = 6
  WindowMessages = 6
  MinKeep = 1
  MaxMessages = 9
  MaxOdd = 1
  Projects = {j1, j2}
  Items = {i1, i2}
  Documents = {d1, d2}
  Chats = {c1, c2}
  MaxProjects = 1
  MaxItems = 1
  MaxDocuments = 2
  MaxChats = 1
  MaxRecent = 1
  MaxExports = 1
  Times = {1}
  MaxVersions = 2
  MaxCrashes = 1
INVARIANTS
  RunsAreSanctioned PassagesAreWhole NoPageIsLost NothingForgotten PromptIsWhole PrefixKept
  DirectoriesAgree
PROPERTIES ContentIsKept UninstallSpares NothingVanishes
