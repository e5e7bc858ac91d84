---------------------------- MODULE MCClusterView ----------------------------
(* ClusterView with two jobs on two agents, one of them the own node.       *)
EXTENDS ClusterView
CONSTANTS web, api, n1, n2, ip1, ip2
MCJobs      == {web, api}
MCAgents    == {n1, n2}
MCPids      == {0, 1}
MCSlots     == {1}
MCAddresses == {ip1, ip2}
=============================================================================
