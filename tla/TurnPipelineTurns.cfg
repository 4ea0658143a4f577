\* Two turns with tools, silent failures, format retries, verification and cuts;
\* the answers of two turns on the terminal; three records of usage;
\* the spinner of two turns; a picker of three models; prompts of two chunks;
\* and two terminals with two agents in folders, each paused twice.
SPECIFICATION SpecTurns
CONSTANTS
  MaxIterations = 4
  MaxCorrections = 2
  MaxBatch = 2
  MaxMessages = 5
  MaxTurns = 2
  Turns = 2
  MaxLines = 3
  Records = 3
  MaxTokens = 1
  MaxRecent = 2
  Warn = 1
  Hard = 2
  MaxMetered = 2
  MaxAsked = 1
  Offered = 3
  MaxWindow = 4
  MaxChunks = 2
  Consoles = {c1, c2}
  Folders = {a1, a2}
  MaxPauses = 2
  MaxKills = 1
INVARIANTS RequestsAccepted TerminalIsRight UsageIsCounted
PROPERTIES TurnsEnd
CHECK_DEADLOCK FALSE
