\* Queues of three events, so that slow readers lose some; two requests for a
\* turn at once; two conversations in the web client; texts of five characters;
\* a list of six messages, three at a time; five conversations, two at a time; three
\* pictures in the composer.
SPECIFICATION SpecParts
CONSTANTS
  Main = main
  Observers = {audit, reward}
  MaxQueue = 3
  MaxEvents = 2
  MaxBeats = 1
  Streams = {s1, s2}
  MaxPushes = 1
  Conversations = {a, b}
  NoConversation = none
  Known = {a}
  MaxSends = 2
  MaxLoads = 2
  MaxText = 5
  WindowSize = 3
  OlderChunk = 2
  MaxListed = 6
  Page = 2
  MaxRows = 5
  MaxUses = 2
  Pictures = {p1, p2, p3}
INVARIANTS PartsTypeOK StreamsAreTheirOwn 
PROPERTIES ImplementsEventLog StreamsEnd
CHECK_DEADLOCK FALSE
