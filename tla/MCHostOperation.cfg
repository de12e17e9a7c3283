SPECIFICATION Spec
CONSTANTS
  Programs <- MCPrograms
  MaxInterference <- MCInterference
  Places = 1
INVARIANTS ConsistentObservation WroteInItsContext BorrowedIsGivenBack SuccessIsDurable PublishedIsVerified
PROPERTIES KeepsPromise UnknownStateIsFenced OperationAdvances
