--------------------------- MODULE MCTrafficWindow ---------------------------
(***************************************************************************)
(* Instances of TrafficWindow for TLC: a master with two nodes.  Bytes are *)
(* scaled down: the absolute threshold is 1 000 000 here, the nodes start  *)
(* with counters several times that.                                       *)
(***************************************************************************)
EXTENDS TrafficWindow, TLC

CONSTANTS m, n1, n2

BothNodes == {n1, n2}
Counted == (n1 :> 5000000) @@ (n2 :> 3000000)

Rate(a, b) == (n1 :> a) @@ (n2 :> b)

\* Nobody, one node, both: more than counts as unchanged, less than the threshold.
\* A master that is right, too low or too high, and one that accumulates.
Counters == [rates |-> {Rate(0, 0), Rate(100000, 0), Rate(100000, 150000)},
             offsets |-> {0, -1500000, 2000000}, gains |-> {0, 80000}, quotas |-> {0},
             changes |-> 0, trouble |-> 2]

\* No quota, one that is used up from the start, and two that are reached meanwhile.
Limits == [rates |-> {Rate(0, 0), Rate(100000, 150000)}, offsets |-> {0}, gains |-> {0},
           quotas |-> {0, 8000000, 8250000, 8500000}, changes |-> 1, trouble |-> 1]

CountersAndLimits == {Counters, Limits}
=============================================================================
