SPECIFICATION Spec
CONSTANTS
  AddrBits = 2
  Ports = 3
  None = None
  Acls <- MCAcls
INVARIANTS SameFilter IntfProtected LogKept ChainsSame
