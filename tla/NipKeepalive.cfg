\* Idle profile times at most one second (HZ = 2 jiffies): short-packet 1,
\* normal 2; user times of 1 and 2 seconds (2 and 4 jiffies), so the
\* re-backup test ka.time > HZ separates user values from idle ones.
CONSTANTS
  HZ = 2
  NipKaTime = 2
  NipKaTimeShort = 1
  NipKaIntvl = 1
  IdleProbesOut = 2
  UserSecs = {1, 2}
  UserCnts = {1, 3}
SPECIFICATION Spec
PROPERTY BackupNotClobbered
