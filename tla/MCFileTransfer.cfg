SPECIFICATION TransferSpec
CONSTANTS
  Threads = {w1, w2}
  Keys = {k1, k2}
  Paths = {"p"}
  Bytes = {x, z}
  Contents <- MCContents
  Offered <- MCOffered
  Sources <- MCSources
  UploadLimit = 1
  DownloadLimit = 1
  KeptReceipts = 1
  MaxTransfers = 2
  MaxOwn = 1
  None = None
INVARIANTS TypeOK LimitsHeld HashOwnsTransfer StagingOwned ClosedIsQuiet TransferredIsBeginning
PROPERTIES PublishesDeclared CommittedStays SuccessIsTrue
SYMMETRY Symmetry
CHECK_DEADLOCK FALSE
