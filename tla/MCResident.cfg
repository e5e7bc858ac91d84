\* Two peers, either of which may lack its watcher or both its tasks.  With no
\* peer started and no question left nothing happens any more: no deadlock check.
SPECIFICATION Spec
CONSTANTS
  p1 = p1
  p2 = p2
  Peers <- MCPeers
  InboxCap = 1
  UpdatesCap = 2
  MaxReports = 2
  MaxUpdates = 2
  MaxQueries = 1
CHECK_DEADLOCK FALSE
INVARIANTS
  TypeOK
PROPERTIES
  ReportsInOrder
  UpdatesInOrder
  AllArrives
