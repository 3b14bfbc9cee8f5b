SPECIFICATION Spec
CONSTANTS
  AddrBits = 2
  Ports = 3
  None = None
  Acls <- MCLinuxAcls
INVARIANT OrderIsStored
