SPECIFICATION Spec
CONSTANTS
  SoftMax = 4
  Required <- MCRequired
  Deferred = {"comms"}
  Builders = {b1, b2}
  Models = {"old", "new"}
  NoModel = NoModel
  Settings <- MCSettings
  BatchSize = 2
  Drafts <- MCDrafts
  Manifests <- MCManifests
  Situations <- MCSituations
  BodyKinds = {"blank", "text", "indent", "quote", "table", "list", "hr", "ticks", "json", "longticks", "h2", "h3", "meta"}
  MaxBody = 4
CHECK_DEADLOCK FALSE
SYMMETRY Perms
INVARIANTS
  TypeOK
  ChunksKeepText
  BuiltFromFiles
  DeferredStayOut
  QueriesHonoured
PROPERTIES
  IndexKeepsPromise
