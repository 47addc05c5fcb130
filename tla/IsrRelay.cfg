SPECIFICATION FairSpec
\* A client whose submit hangs keeps its handle, and the requests run out.
CHECK_DEADLOCK FALSE
CONSTANTS
  MaxRequests = 2
  MaxStops = 1
  MaxCrashes = 1
INVARIANTS
  NoLostWakeup
  RequestsConserved
  GetCompletedOnce
PROPERTIES
  PromiseSpec
  EventuallyAnswered
  CloseCompletes
