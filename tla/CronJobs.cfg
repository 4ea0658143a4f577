\* Three jobs with crashes and stops under fairness, and what else runs on one
\* machine: tools, files, rewards, texts, memories, the model and the evaluation.
SPECIFICATION SpecHost
CONSTANTS
  Jobs = {j1, j2, j3}
  NoJob = NoJob
  Absent = Absent
  Period = 2
  MaxRestarts = 2
  Stoppable = TRUE
  Cap = 1
  PipeSize = 1
  MaxOutput = 2
  Workers = {w1, w2}
  DocIds = {d1}
  Words = {x, y}
  NoText = NoText
  Names = {n1}
  Nobody = Nobody
  MaxWrites = 3
  Hosts = {h1, h2}
  Visits = {v1, v2, v3}
  Seeds = {v1}
  Providers = {p1, p2}
  Gone = Gone
  Torn = Torn
  MaxSaves = 3
  Directories <- DirectoriesHere
  Files <- FilesHere
  Asked <- AskedHere
  Globbed <- GlobbedHere
  Noise = {"n"}
  MaxDepth = 2
  MaxMatches = 3
  MaxFiles = 3
  MaxFileSize = 1
  MaxBatchSize = 2
  Slots = 2
  MaxSize = 2
  TreeDepth = 3
  LinkPath <- LinkHere
  MaxChanges = 1
  MaxFlags = 1
  Sessions = {s1, s2}
  Limit = 3
  MaxTools = 1
  MaxTokenEvents = 2
  MaxTurns = 2
  WordSizes = {2, 3}
  WordOverlap = 1
  MaxChars = 4
  OverlapChars = 2
  SentenceSizes = {1, 2, 4, 5}
  MaxUnits = 5
  MaxKeys = 3
  BatchSize = 2
  Wanted = 1
  Wide = 2
  Alpha = 1
  Nearness = {0, 1}
  MaxEdits = 2
  Scopes <- ScopesHere
  Memories = {1, 2, 3}
  SizeOfText <- BytesHere
  MaxTicks = 3
  Endpoints = {e1, e2}
  Models = {m1}
  Callers = {c1, c2}
  Inputs = {i1, i2}
  MaxAttempts = 3
  CacheSize = 1
  MaxSwitches = 1
  ToolCalls = {1, 2, 3}
  MaxFragments = 4
  Scenarios = 2
  MinScores = {1}
INVARIANTS HostTypeOK Mirrored NeverLost CommandIsContained StorageIsRight TextsAreFound RewardsAreRight
           AnswersAreOfTheirTarget VerdictsAreRight
PROPERTIES WorkIsDone
CHECK_DEADLOCK FALSE
