SPECIFICATION Spec
CONSTANTS
  r1 = r1
  r2 = r2
  rs = rs
  s1 = s1
  None = None
  RequestIds = {r1, r2, rs}
  Fingerprints = {fa, fb}
  Asks <- MCAsks
  Callers = {c1, c2}
  Stoppers = {s1}
  StopId <- MCStopId
  FailureLimit = 3
PROPERTY TimeoutEndsOwnedHost
CHECK_DEADLOCK FALSE
