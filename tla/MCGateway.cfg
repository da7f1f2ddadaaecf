SPECIFICATION FairSpec
CONSTANTS
  u1 = u1
  u2 = u2
  Users = {u1, u2}
  Window = 2
  Count = 2
  Sources <- BufferedAndMixed
  Lags <- OneLags
  MaxPerEvent = 2
  MaxMessages = 3
  MaxTime = 3
  MaxCrashes = 1
INVARIANTS
  InOnePlace
  OrderedOnce
PROPERTIES
  QuietWindow
  AlwaysAnswered
