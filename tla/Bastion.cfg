CONSTANTS
  Bastions = {b1}
  Ingress = {i1, i2}
  Nobody = Nobody
  MaxMachines = 2
  MachineName <- MCMachineName
SPECIFICATION FairSpec
INVARIANTS TypeOK PublishedHostIsGuarded
PROPERTIES ImplementsAccess DeletionCollectsAll BecomesUsable
CHECK_DEADLOCK FALSE
