\* Same instance as NipKeepalive.cfg; checks what the restore branch of
\* tcp_nip_keepalive_disable leaves behind.
CONSTANTS
  HZ = 2
  NipKaTime = 2
  NipKaTimeShort = 1
  NipKaIntvl = 1
  IdleProbesOut = 2
  UserSecs = {1, 2}
  UserCnts = {1, 3}
SPECIFICATION Spec
PROPERTY IdleProfileLeftOnDisable
