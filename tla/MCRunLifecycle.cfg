SPECIFICATION LifeSpec
CONSTANTS
  q0 = q0
  q1 = q1
  q2 = q2
  r0 = r0
  r1 = r1
  r2 = r2
  c1 = c1
  None = None
  Runs = {r1}
  Convs = {c1}
  Requests = {q1}
  RunOf <- MCRunOf
  ConvOf <- MCConvOf
  Sequence <- MCSequence
  Past = {}
  Tokens = {t1, t2, t3}
  MaxBeats = 1
  Faults = {"sink", "store", "input", "abort", "stall"}
CHECK_DEADLOCK FALSE
SYMMETRY Symmetry
CONSTRAINT TwoAtOnce
INVARIANTS
  LifeTypeOK
  StreamsValidated
  OneEndPerRun
PROPERTIES
  TerminalEventsCommitted
