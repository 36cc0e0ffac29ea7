--------------------------- MODULE MCRouteWorkers --------------------------
(***************************************************************************)
(* RouteWorkers for TLC: the configurations of a route worth telling       *)
(* apart for a few requests.                                               *)
(***************************************************************************)
EXTENDS RouteWorkers

Shape(min, max, perThread, timeout) ==
  [min |-> min, max |-> max, perThread |-> perThread, timeout |-> timeout]

\* A pool that grows, with room for one job in each worker, and a single
\* worker with room for two whose requests have a timeout.
RouteShapes == {Shape(1, 2, 1, FALSE), Shape(1, 1, 2, TRUE)}
=============================================================================
