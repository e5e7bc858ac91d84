\* A rebuild that runs out of memory is neither sent nor tried again.
SPECIFICATION Spec
CONSTANTS
  j1 = j1
  j2 = j2
  p1 = p1
  p2 = p2
  home = home
  away = away
  Jobs <- TwoJobs
  Peers <- TwoPeers
  Clusters <- Two
  Scenarios <- OnlyAlone
  Alive <- First
  MaxPending = 1
  Debounce = 1
  Interval = 1
  WireCap = 1
PROPERTIES
  FullEndsSentOrPending
