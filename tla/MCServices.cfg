SPECIFICATION MCSpec
CONSTANTS
  researcher = researcher
  coder = coder
  reasoner = reasoner
  critic = critic
  other = other
  Profiles <- MCProfiles
  Nodes <- MCNodes
  Researcher = researcher
  Critic = critic
  p1 = p1
  p2 = p2
  s1 = s1
  s2 = s2
  Workers = {w1, w2}
  Prompts <- MCPrompts
  Scopes <- MCScopes
  Asked <- MCAsked
  TTL = 0
  MaxNow = 1
  MaxItems = 2
  MaxAnswers = 3
  Limit = 2
  ProCost = 2
  FlashCost = 1
  MaxReminders = 2
  MaxCreated = 3
  MaxDue = 2
  Ids = {i1, i2, i3}
  MaxMemories = 2
  MaxWrites = 4
  Calls = 3
  Docs = {d1}
  Projects = {j1}
  Global = cached
  Loop = loop
  MaxUploads = 2
  MaxFailures = 1
  q1 = q1
  q2 = q2
  q3 = q3
  Pages = {a1, a2}
  ResultLimit = 2
  TurnLimit = 3
  MaxRefused = 1
  MaxTurns = 2
INVARIANTS
  WellLayered AnswersStayInScope OverrunBounded AnnouncedOnceNeverLost NoLostUpdate
  CallsKeepOrder SearchFindsWhatStays MarkersAgree
SYMMETRY Symmetry
CHECK_DEADLOCK FALSE
