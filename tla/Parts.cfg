CONSTANTS
  image = image
  other = other
  old = old
  new = new
  amd64 = amd64
  arm64 = arm64
  Requested <- MCRequested
  HostBits <- MCHostBits
  Unset = Unset
  NoObject = NoObject
  CloudProfiles <- MCCloudProfiles
  NamespacedProfiles <- MCNamespacedProfiles
  MaxEdits = 2
  t1 = t1
  t2 = t2
  p1 = p1
  p2 = p2
  malformed = malformed
  fast = fast
  slow = slow
  Datas <- MCDatas
  Missing = Missing
  NamespaceNames = {p1, p2}
  Projects = {p1, p2}
  Servers = {"server"}
  StorageClasses = {fast, slow}
  MayBe <- MCMayBe
  Networkings = {"none", "no overlay", "disabled", "enabled"}
  NotDeployed = NotDeployed
  MaxRotations = 1
  Written <- MCWritten
SPECIFICATION FairSpec
INVARIANTS PortsAreRight RequestsAreHonoured OwnImagesNeverShadow OfferedImagesAreFound
INVARIANTS AcceptedStaysValid CredentialsAreWhole LeftOnlyInFormerProjects
INVARIANTS MountsExist SettledAsAsked MutationIsStable CloudProviderIsExternal
PROPERTIES CredentialsReachTheSeed NotScaledDownUnderAPIServer ControlPlaneFollows
CHECK_DEADLOCK FALSE
