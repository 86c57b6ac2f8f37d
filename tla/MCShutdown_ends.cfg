CONSTANTS
  Clients = {c1, c2}
  Sticky = FALSE
SPECIFICATION Spec
CHECK_DEADLOCK FALSE
INVARIANTS SavedBeforeReturn
PROPERTIES StopStops SignalStopsWhenEmptied
