\* g_nip_keepalive_time above one second (3 jiffies with HZ = 2).
CONSTANTS
  HZ = 2
  NipKaTime = 3
  NipKaTimeShort = 1
  NipKaIntvl = 1
  IdleProbesOut = 2
  UserSecs = {1, 2}
  UserCnts = {1, 3}
SPECIFICATION Spec
PROPERTY BackupNotClobbered
