CONSTANTS
  Conns = {c1, c2}
  Slots = {0}
  Names = {ann}
  MaxAuthInFlight = 1
  PanelOn = FALSE
  Nobody = Nobody
CHECK_DEADLOCK FALSE
SPECIFICATION Spec
INVARIANT SessionAlwaysProved
