CONSTANTS
  Bastions = {b1}
  Ingress = {i1, i2}
  Nobody = Nobody
  MaxMachines = 1
  MachineName <- MCMachineName
SPECIFICATION Spec
INVARIANT PolicyAdmitsIngress
CHECK_DEADLOCK FALSE
