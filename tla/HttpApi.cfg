\* Every request that differs from a good one in at most two fields.
\* A handler ends with its answer, hence no deadlock check.
SPECIFICATION FairSpec
CONSTANTS
  Models <- SomeModels
  Groups = {"standard", "mini"}
  Quota <- SomeQuota
  TrustedKeys = {"ours"}
  ArtifactHosts = {"files"}
  NotesHosts = {"notes"}
  AllowedChannels = {"stable", "beta"}
  Channel = "beta"
  UpdaterVersion <- UpdaterV
  MaxArtifacts = 2
  MaxSize = 2
  CheckTime = 3
  MaxIdentifier = 9
  Requests <- SomeRequests
  Cursors = {"c1", "c2"}
  UsagePages <- SomePages
  CostsPages <- SomeCosts
  Manifests <- SomeManifests
  Versions <- SomeVersions
  MaxBody = 1
INVARIANTS FramingKept TotalsAgree OnlyTrustedUpdates
PROPERTIES RequestsAnswered
CHECK_DEADLOCK FALSE
