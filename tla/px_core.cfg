SPECIFICATION Spec
CONSTANTS
    t1 = t1
    t2 = t2
    t3 = t3
    Requests = {q1, q2}
    Kinds = {k}
    Rules = {1, 2}
    Targets = {t1, t2, t3}
    NoTarget = NoTarget
    Built = {1}
    Planned <- MCPlanned
    Weight <- MCWeight
    Mode <- MCMode
    Modes = {"round_robin", "weighted"}
    IsDefault <- MCDefault
    Priorities = {1}
    MaxServed = 3
    MaxChanges = 4
SYMMETRY Symmetry
INVARIANTS GaugesExact FairShare DefaultCovers
\* Clients may stop asking.
CHECK_DEADLOCK FALSE
