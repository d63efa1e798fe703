CONSTANTS
  Shoots = {s1}
  UserNetworks = {u1}
  UserPolicies = {}
  Ports = {p1}
  PolicyRefs = {None}
  None = None
  MaxLives = 2
  MaxUserGen = 1
  TechnicalName <- MCTechnicalName
SPECIFICATION FairSpec
INVARIANTS TypeOK SettledStatusIsCurrent
PROPERTIES ImplementsLease DeletionCompletes StatusBecomesUsable
CHECK_DEADLOCK FALSE
