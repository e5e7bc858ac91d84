\* Stars, static names in, above and outside the domain, lists that do not
\* fit, and datagrams that are no question.
SPECIFICATION Spec
CONSTANTS
  Domain <- MCDomain
  Exact <- Statics
  Wild <- Stars
  Clusters <- MCClusters
  JobNames <- WebProd
  Order <- MCOrder
  Lists <- MCLists
  Datagrams <- MCDatagrams
  NameLen <- MCNameLen
  TargetLen <- MCTargetLen
INVARIANTS
  TypeOK
  NxdomainHidesNoService
  RcodeIgnoresType
  NegativeHasSoa
  MergedIsUnion
  CnameIsNearest
  NoEcho
PROPERTIES
  CacheIsMap
