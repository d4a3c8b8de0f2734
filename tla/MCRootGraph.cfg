CONSTANTS
  r1 = r1
  r2 = r2
  r3 = r3
  o1 = o1
  c1 = c1
  c2 = c2
  Requests = {r1, r2, r3}
  Orders = {o1}
  Statuses = {s1, o1}
  None = None
  Sequence <- MCSequence
  Customer <- MCCustomer
  Known <- MCKnown
  MaxAsks = 1
  Deadline = 2
  RetryAfterMax = 1

SPECIFICATION GraphSpec

INVARIANTS
  GraphTypeOK
  NothingUnfitShown
  NothingUnverifiedShown
  StatusHasFreshEvidence

PROPERTIES
  NothingAskedLate
  GraphCallsEnd
  ImplementsThread

CHECK_DEADLOCK FALSE
