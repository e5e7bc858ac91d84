\* A part of a cluster's name that has a dot is NXDOMAIN.
SPECIFICATION Spec
CONSTANTS
  Domain <- MCDomain
  Exact <- NoStatics
  Wild <- NoStatics
  Clusters <- MCClusters
  JobNames <- WebOnly
  Order <- MCOrder
  Lists <- OneList
  Datagrams <- Plains
  NameLen <- MCNameLen
  TargetLen <- MCTargetLen
INVARIANTS
  NxdomainMeansNothingBelow
