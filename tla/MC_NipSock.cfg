CONSTANTS
  s1 = s1
  Socks <- MCSocks
  BacklogLimit = 2
  SeqMod = 8
  MaxWindow = 2
  MaxConnects = 2
  RecvLen = 2
SPECIFICATION Spec
INVARIANTS
  TypeOK
  DestroyExactlyOnce
  AtMostOneFin
  ClosedUnhashed
PROPERTIES
  ReconnectBeyondOldWindow
  LifeRefined
CHECK_DEADLOCK FALSE
