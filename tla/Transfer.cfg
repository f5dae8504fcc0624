\* Every tree of up to four files and directories, on up to three levels, the
\* files that students send, and two builders that download them.
CONSTANTS
  a = a
  b = b
  Names <- TwoNames
  Texts <- PlainOrAlike
  LabConfigs <- Labs
  Foreign <- Sent
  MaxPaths = 4
  MaxDepth = 3
  Builds = {first, second}
SPECIFICATION TransferSpec
SYMMETRY Alike
INVARIANTS
  TransferInv
  RoundTrip
  ZipFailureHasCause
  UnzipFailureHasCause
  DownloadIsAtomic
