CONSTANTS
  image = image
  other = other
  old = old
  new = new
  amd64 = amd64
  arm64 = arm64
  Requested <- MCRequested
  HostBits <- MCHostBits
  Unset = Unset
  NoObject = NoObject
  CloudProfiles <- MCCloudProfiles
  NamespacedProfiles <- MCNamespacedProfiles
  MaxEdits = 2
SPECIFICATION Spec
INVARIANT EveryArchitectureIsMapped
CHECK_DEADLOCK FALSE
