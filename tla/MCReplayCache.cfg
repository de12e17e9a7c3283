SPECIFICATION Spec
CONSTANTS
  small = small
  large = large
  huge = huge
  None = None
  RequestIds = {r1, r2, r3}
  Fingerprints = {"a", "b"}
  Responses = {small, large, huge}
  Size <- MCSize
  MaxEntries = 2
  MaxBytes = 5
INVARIANTS TypeOK LimitsKept RecentOutcomeKept
PROPERTIES KeepsPromise
SYMMETRY IdSymmetry
