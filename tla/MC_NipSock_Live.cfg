\* Liveness of the user context under UserFairness: one socket, the
\* backlog bound of MC_NipSock.cfg, a recvmsg length of two units so that
\* the loop can copy, find the backlog non-empty and retake the lock.
\* Sequence numbers play no part in these properties: the smallest space
\* MaxWindowAssumption allows, and one connect (which reaches every state).
CONSTANTS
  s1 = s1
  Socks <- MCSocks
  BacklogLimit = 2
  SeqMod = 4
  MaxWindow = 0
  MaxConnects = 1
  RecvLen = 2
SPECIFICATION FairSpec
PROPERTIES
  CallsReturn
  RecvmsgReturnsOnEnd
CHECK_DEADLOCK FALSE
