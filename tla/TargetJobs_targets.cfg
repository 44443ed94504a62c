SPECIFICATION Spec
CONSTANTS
  Common <- CommonFile
  TypeFiles <- Files
  Manifests <- AllManifests
  Pods <- SomePods
  MaxTargets = 2
  Answers <- Addresses
  IPv4 <- FourBytes
INVARIANT IInv
INVARIANT SettingsReachJobs
INVARIANT TargetsAreServed
INVARIANT ContainerFits
INVARIANT HostsAreCovered
CHECK_DEADLOCK FALSE
