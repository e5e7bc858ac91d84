---------------------------- MODULE MCHostDaemon ----------------------------
(* HostDaemon on small instances: one peer with two jobs, or two peers of   *)
(* one or two clusters, the second of which may hang for ever.              *)
EXTENDS HostDaemon
CONSTANTS j1, j2, p1, p2, home, away
TwoJobs  == {j1, j2}
TwoPeers == {p1, p2}
First    == {p1}
Two      == {home, away}
Behind(first, second) == [p \in TwoPeers |-> IF p = p1 THEN first ELSE second]
\* A list of one overflows, a wire of one drops reports.
Alone    == [clusterOf |-> Behind(home, Nowhere), jobs |-> TwoJobs,
             changes |-> 2, faults |-> 2, shortages |-> 1]
Pairs(first, second) == [clusterOf |-> Behind(first, second), jobs |-> {j1},
                         changes |-> 1, faults |-> 1, shortages |-> 0]
OnlyAlone   == {Alone}
MCScenarios == {Alone, Pairs(home, home), Pairs(home, away)}
=============================================================================
