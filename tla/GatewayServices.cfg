\* One process, one service at a time: a plain namespace and the rewards log with
\* crashes and failed writes, the rate limiter, the agents' messages, uploads of one
\* file, the filing of texts, the table of messages, delegated runs, the calendar,
\* three tool servers, the context of a run, its plans, the virtual files, the two indexes, and the mail.
SPECIFICATION SpecServices
CONSTANTS
  Procs = {gateway}
  Keys = {k1, k2}
  Values = {x, y, z}
  NoValue = NoValue
  Unloaded = Unloaded
  Torn = Torn
  Gone = Gone
  MaxLines = 3
  Splitting = {z}
  Clients = {alice, bob}
  Rate = 2
  Capacity = 4
  Price = 3
  MaxIdle = 2
  PruneEvery = 2
  MaxTime = 5
  Agents = {a1, a2}
  MaxMessages = 3
  MaxSent = 5
  MaxUploads = 2
  Readers = {r1}
  MaxChunks = 2
  Turns = {t1, t2, t3}
  NoText = NoText
  Chats = {c1, c2}
  Sessions = {s1, s2}
  MaxSessions = 1
  MaxUndone = 2
  MaxSaved = 3
  MaxDepth = 3
  MaxSpawned = 3
  MaxStops = 1
  CalendarHosts = {server}
  Dates = {monday, other}
  Padded = {monday}
  Starts = {0, 1, 4}
  Lengths = {1, 3}
  Instants = {0, 1, 3, 5, 6}
  MaxEvents = 2
  Servers = {docs, web, mail}
  DocServer = docs
  Users = {u1}
  MaxCommands = 3
  MaxIterations = 2
  SummarizeOver = 4
  KeepMessages = 2
  Unshown = 1
  Long = {2, 5}
  MaxTasks = 2
  MaxVersions = 2
  MaxItems = 1
  TotalSteps = 2
  MaxRaw = 2
  MaxPlanned = 3
  Directories = {d1, d2, d3}
  ReadOnly = {d3}
  Names = {n}
  Contents = {before, after}
  NoFile = NoFile
  Namespaces = {kb, chat}
  NoNamespace = NoNamespace
  Writers = {w1, w2}
  RebuildEvery = 2
  MinVectors = 4
  MaxVectors = 5
  Earlier = {3}
  FaissKeys = {f1, f2}
  NoIndex = NoIndex
  FaissWriters = {w1, w2}
  Dims = {short, long}
  MaxIds = 3
  Received = {i1, i2}
  MaxDrafts = 2
  MaxMailed = 4
INVARIANTS ServicesTypeOK NeverTorn RateBound AnswersHaveQuestions
           RetrievalIsRight AgentsAreServed AgentsAreInformed
PROPERTIES ImplementsDurableMap  UnreadLast
CHECK_DEADLOCK FALSE
