\* An out-of-range g_nip_keepalive_intvl (0): tcp_nip_keepalive_para_update
\* stores the idle time, then rejects the interval. Otherwise the instance of
\* NipKeepalive.cfg.
CONSTANTS
  HZ = 2
  NipKaTime = 2
  NipKaTimeShort = 1
  NipKaIntvl = 0
  IdleProbesOut = 2
  UserSecs = {1, 2}
  UserCnts = {1, 3}
SPECIFICATION Spec
PROPERTY
  ParaUpdateAllOrNothing
