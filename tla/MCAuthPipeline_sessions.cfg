CONSTANTS
  Conns = {c1, c2}
  Slots = {s1, s2}
  Names = {ann, bob}
  MaxAuthInFlight = 2
  PanelOn = TRUE
  Nobody = Nobody
CHECK_DEADLOCK FALSE
SYMMETRY Symmetry
SPECIFICATION Spec
INVARIANTS HashesReserved SessionProved ClaimedHasOwner
