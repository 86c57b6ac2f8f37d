CONSTANTS
  c1 = c1  c2 = c2  c3 = c3
  Conns = {c1, c2}
  MaxPlayers = 2
  EpochMax = 7
  QueueDepth = 1
  StreamSize = 1
  MaxPending = 2
  PasswordSet = FALSE
  ReaperOn = TRUE
  Messages <- JoinMessages
  Bannable = {}
  DefaultName <- MCDefaultName
  Nobody = Nobody
SPECIFICATION Spec
INVARIANTS JoinTailOnce NamesUnique
PROPERTIES SlotsComeBack
