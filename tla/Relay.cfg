SPECIFICATION Spec
CONSTANTS
  Clients = {c1, c2, c3}
  Names = {n1, n2, n3}
  None = None
  Setups <- MCSetups
SYMMETRY Symmetry
INVARIANT TypeOK
INVARIANT RoomsWhole
INVARIANT NamesLive
INVARIANT ViewAgrees
INVARIANT NoStrayFrame
INVARIANT CountPublished
