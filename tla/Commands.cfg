SPECIFICATION FairSpec
CONSTANTS
  References = {"x", "y"}
  Platforms = {"linux/amd64", "linux/arm64"}
  Inputs <- MCInputs
  Hidden = {".h"}
  Longer <- MCLonger
  Globs <- MCGlobs
  Substring <- MCSubstring
  Rank <- MCRank
  RawNames <- MCRawNames
  Contents = {c1, c2}
  NoContent = none
  Modes = {m1, m2}
  Absent = absent
  Stem <- MCStem
  Images <- MCImages
  MaxHops = 1
  MaxWidth = 2
  c1 = c1
  c2 = c2
  none = none
  absent = absent
  m1 = m1
  m2 = m2
INVARIANTS
  TypeOK
  IInv
  RegistryOnlyWhenNeeded
  LsListsWhatIsAsked
  TreeShowsTheDirectory
  DiffIsAPatch
  LayersAccounted
  ReadsTheChosenLayers
  BlobIsTheLayerInspected
  TagsAreTheLast
  JsonIsAllOrNothing
  ExactBytes
  ExportTells
  HumanAndJsonAgree
  ShellJoinReadsBack
PROPERTY EndsOnceLoaded
