SPECIFICATION FairCleanupSpec
CONSTANTS
  q1 = q1
  q2 = q2
  r1 = r1
  r2 = r2
  c1 = c1
  None = None
  Runs = {r1}
  Convs = {c1, c2}
  Requests = {q1}
  RunOf <- MCRunOf
  ConvOf <- MCConvOf
  Tokens = {t1, t2}
  GuardTokens = {g1, g2}
  Results = {result}
  ErrorCodes = {timeout}
  LeaseTicks = 1
  RetentionTicks = 2
  GuardTicks = 3
  Limit = 1
  Slack = 1
  CleanFaults = {"redis", "die"}
INVARIANTS
  CleanupTypeOK
  GuardHeldWhileDeleting
PROPERTIES
  DeletesOnlyIdle
  StrandedThreadsGo
