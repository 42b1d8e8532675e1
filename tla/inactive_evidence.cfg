SPECIFICATION Spec
CONSTANTS
  SoftMax = 4
  Required <- MCRequired
  Deferred = {"comms"}
  Builders = {b1}
  Models = {"old", "new"}
  NoModel = NoModel
  Settings <- MCSettings
  BatchSize = 2
  Drafts <- MCDrafts
  Manifests <- MCManifests
  Situations <- MCLone
  BodyKinds = {"blank", "text", "indent", "quote", "table", "list", "hr", "ticks", "json", "longticks", "h2", "h3", "meta"}
  MaxBody = 0
CHECK_DEADLOCK FALSE
INVARIANT
  OnlyActiveRetrieved
