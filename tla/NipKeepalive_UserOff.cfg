\* Same instance; checks that the user's SO_KEEPALIVE survives the idle profile.
CONSTANTS
  HZ = 2
  NipKaTime = 2
  NipKaTimeShort = 1
  NipKaIntvl = 1
  IdleProbesOut = 2
  UserSecs = {1, 2}
  UserCnts = {1, 3}
SPECIFICATION Spec
INVARIANT UserKeepaliveKept
