------------------------------ MODULE ClusterMap ------------------------------
(***************************************************************************)
(* What the cache promises: per cluster that was ever refreshed, the jobs  *)
(* that are known there.  A refresh replaces a cluster's jobs or sets one  *)
(* of them, and never touches another cluster or another job.              *)
(***************************************************************************)
CONSTANTS Clusters, Jobs, Lists

VARIABLE map   \* a function on the known clusters, of functions on known jobs

Views == UNION {[known -> Lists] : known \in SUBSET Jobs}
Put(f, k, v) == [x \in DOMAIN f \cup {k} |-> IF x = k THEN v ELSE f[x]]

NoJobs == [job \in {} |-> CHOOSE list \in Lists : TRUE]
ViewOf(c) == IF c \in DOMAIN map THEN map[c] ELSE NoJobs

Init == map = [c \in {} |-> NoJobs]

Replace == \E c \in Clusters, view \in Views : map' = Put(map, c, view)

SetJob(c, job, list) == map' = Put(map, c, Put(ViewOf(c), job, list))

Clear == \E c \in Clusters : map' = [d \in DOMAIN map \ {c} |-> map[d]]

Next ==
  \/ Replace \/ Clear
  \/ \E c \in Clusters, job \in Jobs, list \in Lists : SetJob(c, job, list)

Spec == Init /\ [][Next]_map
=============================================================================
