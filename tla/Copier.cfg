SPECIFICATION Spec
CONSTANTS
  Fuel = 10
  Sources <- MCSources
  Disks <- MCDisks
  Dests <- MCDests
INVARIANTS
  TypeOK
  IInv
  NothingOutside
  CopiesTheTree
  CountsWhatIsThere
  FilesAreNotBlocked
