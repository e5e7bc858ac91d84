\* A full refresh drops a job without a running task.
SPECIFICATION Spec
CONSTANTS
  web = web
  api = api
  n1 = n1
  n2 = n2
  ip1 = ip1
  ip2 = ip2
  NoAddress = NoAddress
  NoNode = NoNode
  Silent = Silent
  Jobs <- MCJobs
  Agents <- MCAgents
  Pids <- MCPids
  Slots <- MCSlots
  Addresses <- MCAddresses
  LocalNode = n1
  MaxTasks = 1
INVARIANTS
  ListedIsKnown
