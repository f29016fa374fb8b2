\* recvmsg on a listening socket, with the small instance of MC_NipSock_Live.cfg.
CONSTANTS
  s1 = s1
  Socks <- MCSocks
  BacklogLimit = 2
  SeqMod = 4
  MaxWindow = 0
  MaxConnects = 1
  RecvLen = 2
SPECIFICATION Spec
PROPERTY
  RecvmsgOnListenerFails
CHECK_DEADLOCK FALSE
