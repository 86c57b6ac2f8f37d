CONSTANTS
  c1 = c1  c2 = c2  c3 = c3
  Conns = {c1, c2, c3}
  MaxPlayers = 1
  EpochMax = 2
  QueueDepth = 2
  StreamSize = 1
  MaxPending = 1
  PasswordSet = TRUE
  ReaperOn = TRUE
  Messages <- GhostMessages
  Bannable = {"Ann"}
  DefaultName <- MCDefaultName
  Nobody = Nobody
SYMMETRY ConnSymmetry
SPECIFICATION Safety
INVARIANTS GhostsAreHarmless AdmittedByOwnPassword
