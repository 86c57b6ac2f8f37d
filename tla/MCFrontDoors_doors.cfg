CONSTANTS
  Names <- MCNames
  Groups = {"owner", "default"}
  Perms <- MCPerms
  Covers <- MCCovers
  AdminGroups = "groups"
  AdminAccounts = "accounts"
  PanelView = "view"
  DefaultGroup = "default"
  StartAccounts <- MCAccounts
  StartGroups <- MCGroups
  NoAccount = "none"
  Keys = {"ann", "bob", "home", "away"}
  Attempts = {"owner", "guess1", "guess2"}
  AddressOf <- MCAddress
  OwnName <- MCOwnName
  NoAttempt = NoAttempt
  FreeAttempts = 1
  MaxDelay = 2
  FailuresMax = 3
  Tokens = {1, 2}
  NoSession = NoSession
  Requests = {"r1", "r2"}
  NoRequest = NoRequest
  IdleTimeout = 1
  Sockets = {"c1", "c2", "c3", "c4"}
  AddressOfSocket <- MCSocketFrom
  MaxTotal = 3
  MaxPerAddress = 2
  MaxLines = 2
  Keep = 3
  Missing = Missing
  Torn = Torn
  MaxEvents = 8
CHECK_DEADLOCK FALSE
SPECIFICATION MCSpec
INVARIANTS SomebodyAdministers PlacesAccountedFor HistoryIsAnEnd
PROPERTIES PowerOnlyMoves FeedsEnd WindowsClose
