\* Command lines of up to three arguments, files of up to three lines, and
\* values in every quoting.  A daemon that has ended stays so.
SPECIFICATION Spec
CONSTANTS
  Cases <- MCCases
  Urls <- MCUrls
  Listens <- MCListens
  Ports <- MCPorts
  HopAddress <- MCAddress
  MaxPeers = 2
INVARIANTS
  ReadAsMeant
  ServesAsAsked
  BlamesFirst
  TablesAsWritten
CHECK_DEADLOCK FALSE
