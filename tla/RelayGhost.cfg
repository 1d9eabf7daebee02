SPECIFICATION Spec
CONSTANTS
  Clients = {c1, c2}
  Names = {n1, n2}
  None = None
  Setups <- RenameFails
SYMMETRY Symmetry
INVARIANT NamesLive
