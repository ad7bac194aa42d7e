SPECIFICATION Spec
CONSTANTS
  Fuel = 10
  Sources <- MCSources
  Disks <- MCDisks
  Dests <- MCDests
INVARIANT RefusesOnlyLinksBetween
