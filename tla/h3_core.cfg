\* Two streams of one connection, and a second client that waits for its place.
CONSTANTS
  c1 = c1
  c2 = c2
  s1 = s1
  s2 = s2
  Conns = {c1, c2}
  Streams = {s1, s2}
  ConnOf <- Both
  Contents <- Ordinary
  MaxConnections = 1
  MaxBody = 2
  MaxWorkers = 1
  StreamWindow = 3
  ConnWindow = 4
  MaxPending = 0
  MaxChunks = 2
  Recut = FALSE
SPECIFICATION H3Spec
  
PROPERTIES AnswersFinish
CHECK_DEADLOCK FALSE
