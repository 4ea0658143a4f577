\* One document of two words, edited by two processes.
SPECIFICATION SpecDocuments
CONSTANTS
  Workers = {w1, w2}
  DocIds = {d1}
  Words = {x, y}
  NoText = NoText
  Names = {n1}
  Nobody = Nobody
  MaxWrites = 2
  Hosts = {h1}
  Visits = {v1}
  Seeds = {v1}
  Providers = {p1}
  Gone = Gone
  Torn = Torn
  MaxSaves = 0
INVARIANT EditsTheFirst
CHECK_DEADLOCK FALSE
