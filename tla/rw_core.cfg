\* Three requests, one with a handler that may end its worker's thread, in each
\* configuration, and an application that may be closed meanwhile.
CONSTANTS
  Requests = {r1, r2, r3}
  Shapes <- RouteShapes
  DyingRequests = {r1}
  Closes = TRUE
SPECIFICATION FairSpec
INVARIANTS WorkConserved AnswersAreHonest
PROPERTIES EverythingAnswered
\* Every request is answered in the end.
CHECK_DEADLOCK FALSE
