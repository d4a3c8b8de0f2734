SPECIFICATION Spec
CONSTANTS
  q1 = q1
  q2 = q2
  q3 = q3
  r1 = r1
  r2 = r2
  c1 = c1
  c2 = c2
  Runs = {r1, r2}
  Convs = {c1, c2}
  Requests = {q1, q2, q3}
  RunOf <- MCRunOf
  ConvOf <- MCConvOf
  Tokens = {t1, t2}
  GuardTokens = {g1, g2}
  Results = {ok}
  ErrorCodes = {err}
  LeaseTicks = 2
  RetentionTicks = 3
  GuardTicks = 2
  None = None
INVARIANTS TypeOK SingleFlight LeaseBacked GuardExcludesRuns GrantMatchesRecord
PROPERTIES CancelIntentKept ImplementsLedger
SYMMETRY Symmetry
