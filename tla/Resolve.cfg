SPECIFICATION FairSpec
CONSTANTS
  Filesystems <- MCFilesystems
  Requests <- MCRequests
  MaxHops = 3
INVARIANTS
  TypeOK
  ResultIsCanonical
  IInv
PROPERTIES
  ResolvesAtOnce
  Terminates
