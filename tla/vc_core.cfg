SPECIFICATION Spec
CONSTANTS
    Slots = {s1, s2}
    Requests <- MCRequests
    Routes <- MCRoutes
    Paths = {"/p", "/q"}
    MaxVersion = 1
    MaxRequests = 2
SYMMETRY Symmetry
INVARIANTS DispatchSound InvalidationHolds
\* Clients may stop asking.
CHECK_DEADLOCK FALSE
