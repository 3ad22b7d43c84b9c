SPECIFICATION SpecAll
CONSTANTS
  Volumes = {n1, n2}
  Selected = {c1, c2}
  Unselected = c3
  Runners = {r1, r2}
  Given <- Foreign
  Backoff = 2
  Edits = 3
  Images = {i1, i2}
  GcFaults = 3
  Trees <- AllTrees
  Merges = 2
  Objects <- VpaObjects
  Excluded = {"echo-server"}
  Commits = 3
  Stored = {"a", "b"}
  Policies = {"p", "q"}
  Repositories <- Repos
  Templates <- Tmpl
  Classes <- Cls
  MaxNodes = 3
  Dirs = {"a", "b"}
  Start = "a"
  Config <- Checkouts
  Commands <- Lines
  Schemas <- Tops
  Values <- Vals
  SchemaDepth <- DepthOf
  Terms <- AllTerms
  Bindable = {"c"}
  Hosts = {"n1", "n2"}
  PVs <- Pvs
  Zone <- ZoneOf
  MaxMoves = 1
  MaxFailures = 1
INVARIANTS
  TypesOK NothingDeleted ReportsTrue PoliciesReviewed  SchemasExact MaintenanceSafe
PROPERTIES StepsAsJudged AllComesAbout
\* A program that has done its work stops.
CHECK_DEADLOCK FALSE
