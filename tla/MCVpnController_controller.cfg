SPECIFICATION FairSpec
CONSTANTS
  g1 = g1
  l1 = l1
  l2 = l2
  c1 = c1
  noLink = noLink
  NoLink <- noLink
  GatewayNodes <- OneGateway
  LinkIds <- TwoLinks
  Clients <- OneClient
  Rise = 2
  DefaultEnabled = "on"
  LostReplies = TRUE
INVARIANTS
  WakeNotLost
  SnapshotHonest
PROPERTIES
  DropOnlyWhenDown
  JoinAfterRise
  Converges
  ImplementsControl
