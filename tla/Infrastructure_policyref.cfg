CONSTANTS
  Shoots = {s1}
  UserNetworks = {u1}
  UserPolicies = {u1, u2}
  Ports = {p1}
  PolicyRefs = {u2}
  None = None
  MaxLives = 1
  MaxUserGen = 1
  TechnicalName <- MCTechnicalName
SPECIFICATION Spec
INVARIANT ReferencedPolicyIsUsed
CHECK_DEADLOCK FALSE
