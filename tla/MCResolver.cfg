SPECIFICATION Spec
CONSTANTS
  Names = {1, 2, 3}
  Versions <- MCVersions
  Releases <- MCReleases
  Indexes <- MCIndexes
  Manifests <- MCManifests
  PassLimit = 4
  MaxPublished = 2
  Moving <- MCMoving
CHECK_DEADLOCK FALSE
INVARIANTS
  LockIsSound
  ForeignOnlyByOptIn
PROPERTIES
  PicksMoveDown
