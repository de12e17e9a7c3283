SPECIFICATION Spec
CONSTANTS
  r1 = r1
  r2 = r2
  rs = rs
  s1 = s1
  None = None
  RequestIds = {r1, rs}
  Fingerprints = {fa}
  Asks <- MCAsksOne
  Callers = {c1}
  Stoppers = {s1}
  StopId <- MCStopId
  FailureLimit = 3
PROPERTIES
  EveryRequestAnswered
  StopCloses
CHECK_DEADLOCK FALSE
