\* Two streams, one or two of them at once; windows of one unit that SETTINGS
\* may close or widen, one unit of credit, responses of up to two units and two
\* chunks. Or three blocks of up to two fields, in a table of three units.
CONSTANTS
  N = 2
  StreamLimits = {1, 2}
  MaxBody = 1
  DefaultWindow = 1
  PeerWindows = {0, 1}
  MaxWindow = 1
  RecentlyReset = 1
  PendingLimit = 1
  Lengths = {0, 2}
  ChunkBound = 2
  Streamed = {2}
  Split = {2}
  CreditBound = 1
  Fields <- HeaderFields
  NeverIndexed = {"cookie"}
  TableSizes = {1, 3}
  DefaultSize = 3
  MaxList = 3
  MaxFields = 2
  MaxBlocks = 3
  MaxOnWay = 1
VIEW Remaining
SPECIFICATION SideSpec
INVARIANTS FlowControlled  TablesInStep
PROPERTIES AnswersEndWell
