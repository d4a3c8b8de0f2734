SPECIFICATION LifeSpec
CONSTANTS
  q0 = q0
  q1 = q1
  q2 = q2
  r0 = r0
  r1 = r1
  r2 = r2
  c1 = c1
  None = None
  Runs = {r0, r1}
  Convs = {c1}
  Requests = {q0, q1}
  RunOf <- MCRunOf
  ConvOf <- MCConvOf
  Sequence <- MCSequence
  Past = {q0}
  Tokens = {t1, t2}
  MaxBeats = 1
  Faults = {"sink"}
CHECK_DEADLOCK FALSE
INVARIANTS
  AnswerIsOwn
