\* One peer with two jobs, two peers of one cluster, two peers of two.
SPECIFICATION Spec
CONSTANTS
  j1 = j1
  j2 = j2
  p1 = p1
  p2 = p2
  home = home
  away = away
  Jobs <- TwoJobs
  Peers <- TwoPeers
  Clusters <- Two
  Scenarios <- MCScenarios
  Alive <- First
  MaxPending = 1
  Debounce = 1
  Interval = 1
  WireCap = 1
INVARIANTS
  TypeOK
  NoForgottenChange
  PingFollowsBreak
PROPERTIES
  NeverGoesBack
  Converges
