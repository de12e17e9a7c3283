SPECIFICATION Spec
CONSTANTS
  Threads = {w1, w2}
  Keys = {k1, k2}
  Paths = {"p"}
  Bytes = {x, z}
  Contents <- MCContents
  UploadLimit = 1
  DownloadLimit = 1
  KeptReceipts = 1
  MaxTransfers = 2
  None = None
PROPERTIES BeginNamesTransfer
SYMMETRY Symmetry
CHECK_DEADLOCK FALSE
