SPECIFICATION Spec
CONSTANTS
  Filesystems <- MCFilesystems
  Requests <- MCRequests
  MaxHops = 3
INVARIANT EveryWalkIsKernels
