SPECIFICATION FairSpec
CONSTANTS
  old = old
  new = new
  undated = undated
  Archives <- ThreeArchives
  Older <- OldBeforeNew
  Dated <- TwoReleases
  Lists <- TwoLists
  MaxAttempts = 2
  NoFile = noFile
  TornCatalog = TRUE
  Faults = 3
PROPERTY CatalogConverges
