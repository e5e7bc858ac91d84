\* host.rs:288 reports the time before the fetch.
SPECIFICATION Spec
CONSTANTS
  j1 = j1
  j2 = j2
  j3 = j3
  Jobs <- MCJobs
  MaxPending = 2
  Debounce = 2
  Interval = 3
PROPERTIES
  FailedFullWaits
