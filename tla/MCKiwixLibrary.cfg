SPECIFICATION FairSpec
CONSTANTS
  old = old
  new = new
  undated = undated
  Archives <- ThreeArchives
  Older <- OldBeforeNew
  Dated <- TwoReleases
  Lists <- TwoLists
  MaxAttempts = 2
  NoFile = noFile
  TornCatalog = FALSE
  Faults = 3
INVARIANTS MarkerIsHonest
PROPERTIES OnlyWholeArchives SeriesNeverLost SuccessMeansComplete CatalogConverges LibraryConverges
