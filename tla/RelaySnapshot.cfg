SPECIFICATION Spec
CONSTANTS
  Clients = {c1, c2}
  Names = {n1, n2}
  None = None
  Setups <- PortFails
SYMMETRY Symmetry
INVARIANT ViewAgrees
