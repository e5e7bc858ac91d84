\* A list of two of the three jobs overflows.
SPECIFICATION Spec
CONSTANTS
  j1 = j1
  j2 = j2
  j3 = j3
  Jobs <- MCJobs
  MaxPending = 2
  Debounce = 2
  Interval = 3
INVARIANTS
  TypeOK
  PendingHasDeadline
  ListBounded
  NothingPendingInFlight
PROPERTIES
  StormNeverPostpones
  PlanKept
  PendingIsServed
  NamelessIsAsked
