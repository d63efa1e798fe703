CONSTANTS
  za = za
  zb = zb
  v1 = v1
  v2 = v2
  i1 = i1
  None = None
  Pools = {p1}
  Versions = {v1, v2}
  Images = {i1}
  Profiles <- MCProfiles
  ZoneLists <- MCZoneLists
SPECIFICATION FairSpec
INVARIANTS TypeOK SettledClassesAreWanted ClassesAreInTheirZones ImagesAreRemembered
PROPERTIES ImplementsRollout StaysReconcilable
CHECK_DEADLOCK FALSE
