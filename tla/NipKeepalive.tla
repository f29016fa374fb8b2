----------------------------- MODULE NipKeepalive -----------------------------
(***************************************************************************)
(* The NewIP idle-profile keepalive of one socket (tcp_nip.c):             *)
(* tcp_nip_keepalive_enable swaps the keepalive parameters in force for   *)
(* the idle profile (g_nip_keepalive_time or _time_short_pkt, 255 probes,  *)
(* g_nip_keepalive_intvl), backing up the user's values when SO_KEEPALIVE  *)
(* is on; tcp_nip_keepalive_disable, once g_nip_idle_ka_probes_out idle    *)
(* probes went unanswered, restores the backup or turns keepalive off.     *)
(* The user changes the parameters with setsockopt (kernel tcp_setsockopt, *)
(* modelled from spec 6) and tcp_nip_rtt_init clears them on disconnect.   *)
(* Times are in jiffies; HZ jiffies are one second.                        *)
(***************************************************************************)
EXTENDS Naturals

CONSTANTS
  HZ,              \* jiffies per second
  NipKaTime,       \* g_nip_keepalive_time
  NipKaTimeShort,  \* g_nip_keepalive_time_short_pkt
  NipKaIntvl,      \* g_nip_keepalive_intvl
  IdleProbesOut,   \* g_nip_idle_ka_probes_out
  UserSecs,        \* seconds a user passes to TCP_KEEPIDLE / TCP_KEEPINTVL
  UserCnts         \* counts a user passes to TCP_KEEPCNT

\* Bounds of tcp_nip_keepalive_para_update and the idle profile's count.
MaxKeepIdle == 32767
MaxKeepIntvl == 32767
MaxKeepCnt == 255
NipKeepaliveProbes == 255

ASSUME HZAssumption == HZ \in Nat \ {0}
\* The idle-profile globals are u32 module parameters: nothing validates them
\* before tcp_nip_keepalive_para_update does.
ASSUME NipParamAssumption ==
  /\ NipKaTime \in Nat
  /\ NipKaTimeShort \in Nat
  /\ NipKaIntvl \in Nat
ASSUME IdleProbesOutAssumption == IdleProbesOut \in Nat \ {0}
ASSUME UserAssumption ==
  /\ UserSecs \subseteq 1 .. MaxKeepIdle
  /\ UserCnts \subseteq 1 .. 127

\* A set of keepalive parameters (tp->keepalive_time/_probes/_intvl).
Params == [time : Nat, probes : Nat, intvl : Nat]
NoParams == [time |-> 0, probes |-> 0, intvl |-> 0]

\* pkt_total_len of the send head, below or above NIP_PKT_TOTAL_LEN_BOUNDARY.
PktLens == {"short", "long"}

VARIABLES
  keepOpen,     \* sock_flag(sk, SOCK_KEEPOPEN)
  nipKa,        \* tp->nip_keepalive_enable
  ka,           \* the parameters in force
  bak,          \* tp->keepalive_time_bak/_probes_bak/_intvl_bak
  probesOut,    \* tp->idle_ka_probes_out
  userOn,       \* the user's last SO_KEEPALIVE value (history)
  userTouched   \* setsockopt changed a parameter since the last swap (history)

vars == <<keepOpen, nipKa, ka, bak, probesOut, userOn, userTouched>>

TypeOK ==
  /\ keepOpen \in BOOLEAN
  /\ nipKa \in BOOLEAN
  /\ ka \in Params
  /\ bak \in Params
  /\ probesOut \in 0 .. IdleProbesOut
  /\ userOn \in BOOLEAN
  /\ userTouched \in BOOLEAN

-----------------------------------------------------------------------------
\* The idle profile for a send head of the given length.
IdleProfile(len) ==
  [time |-> IF len = "short" THEN NipKaTimeShort ELSE NipKaTime,
   probes |-> NipKeepaliveProbes,
   intvl |-> NipKaIntvl]

(* tcp_nip_keepalive_para_update(p): each value is checked and stored in  *)
(* turn, so a bad interval leaves the new time stored; on success          *)
(* keepalive is switched on (SO_KEEPALIVE).                                 *)
ParaUpdateOk(p) ==
  /\ p.time \in 1 .. MaxKeepIdle
  /\ p.intvl \in 1 .. MaxKeepIntvl
  /\ p.probes \in 1 .. MaxKeepCnt

ParaUpdated(p) ==
  [time |-> IF p.time \in 1 .. MaxKeepIdle THEN p.time ELSE ka.time,
   intvl |-> IF p.time \in 1 .. MaxKeepIdle /\ p.intvl \in 1 .. MaxKeepIntvl
               THEN p.intvl ELSE ka.intvl,
   probes |-> IF ParaUpdateOk(p) THEN p.probes ELSE ka.probes]

Init ==
  /\ keepOpen = FALSE
  /\ nipKa = FALSE
  /\ ka = NoParams
  /\ bak = NoParams
  /\ probesOut = 0
  /\ userOn = FALSE
  /\ userTouched = FALSE

\* Deliberately wrong variant of ReBackup, kept for mutation testing.
ReBackupAlways == TRUE

\* The test of tcp_nip_keepalive_enable for an active idle profile: a time
\* above one second was set by setsockopt, so back it up and swap again.
ReBackup == ka.time > HZ

(* tcp_nip_keepalive_enable, for a send head of length len.                *)
Enable(len) ==
  \/ /\ nipKa
     /\ ReBackup
     /\ bak' = ka
     /\ ka' = IdleProfile(len)
     /\ userTouched' = FALSE
     /\ UNCHANGED <<keepOpen, nipKa, probesOut, userOn>>
  \/ /\ ~nipKa
     /\ bak' = IF keepOpen THEN ka ELSE bak
     /\ ka' = ParaUpdated(IdleProfile(len))
     /\ keepOpen' = (keepOpen \/ ParaUpdateOk(IdleProfile(len)))
     /\ nipKa' = ParaUpdateOk(IdleProfile(len))
     /\ userTouched' = FALSE
     /\ UNCHANGED <<probesOut, userOn>>

(* tcp_nip_keepalive_disable: if SO_KEEPALIVE was turned off only the flag *)
(* is cleared; otherwise, once enough idle probes went unanswered, a       *)
(* backup with a non-zero time is restored (flag and backup kept), and    *)
(* without one keepalive is switched off and the backup cleared.           *)
Disable ==
  /\ nipKa
  /\ \/ /\ ~keepOpen
        /\ nipKa' = FALSE
        /\ UNCHANGED <<keepOpen, ka, bak>>
     \/ /\ keepOpen
        /\ probesOut >= IdleProbesOut
        /\ bak.time # 0
        /\ ka' = bak
        /\ UNCHANGED <<keepOpen, nipKa, bak>>
     \/ /\ keepOpen
        /\ probesOut >= IdleProbesOut
        /\ bak.time = 0
        /\ bak' = NoParams
        /\ keepOpen' = FALSE
        /\ nipKa' = FALSE
        /\ UNCHANGED ka
  /\ UNCHANGED <<probesOut, userOn, userTouched>>

(* setsockopt(SO_KEEPALIVE, on): tcp_set_keepalive and SOCK_KEEPOPEN.      *)
SetKeepOpen(on) ==
  /\ keepOpen' = on
  /\ userOn' = on
  /\ UNCHANGED <<nipKa, ka, bak, probesOut, userTouched>>

(* setsockopt TCP_KEEPIDLE, TCP_KEEPINTVL (seconds) and TCP_KEEPCNT.       *)
SetParam ==
  /\ \/ \E v \in UserSecs : ka' = [ka EXCEPT !.time = v * HZ]
     \/ \E v \in UserSecs : ka' = [ka EXCEPT !.intvl = v * HZ]
     \/ \E v \in UserCnts : ka' = [ka EXCEPT !.probes = v]
  /\ userTouched' = TRUE
  /\ UNCHANGED <<keepOpen, nipKa, bak, probesOut, userOn>>

\* The timer stops counting idle probes once disable is due.
ProbeRoom == probesOut < IdleProbesOut

(* The keepalive timer sends an idle probe that is not answered, or an     *)
(* answer from the peer resets the count (tcp_nip_timer.c, from spec 4.6). *)
ProbeUnanswered ==
  /\ keepOpen
  /\ nipKa
  /\ ProbeRoom
  /\ probesOut' = probesOut + 1
  /\ UNCHANGED <<keepOpen, nipKa, ka, bak, userOn, userTouched>>

PeerAnswered ==
  /\ probesOut > 0
  /\ probesOut' = 0
  /\ UNCHANGED <<keepOpen, nipKa, ka, bak, userOn, userTouched>>

(* tcp_nip_rtt_init, run by tcp_nip_disconnect: all keepalive state of the *)
(* connection is cleared (SOCK_KEEPOPEN is left as it is).                 *)
RttInit ==
  /\ nipKa' = FALSE
  /\ probesOut' = 0
  /\ ka' = NoParams
  /\ bak' = NoParams
  /\ UNCHANGED <<keepOpen, userOn, userTouched>>

Next ==
  \/ \E len \in PktLens : Enable(len)
  \/ Disable
  \/ \E on \in BOOLEAN : SetKeepOpen(on)
  \/ SetParam
  \/ ProbeUnanswered
  \/ PeerAnswered
  \/ RttInit

Spec == Init /\ [][Next]_vars

-----------------------------------------------------------------------------
(* Properties.                                                              *)

(* Spec 4.6 and 8: once the idle profile is active, a further enable that  *)
(* follows no setsockopt leaves the backed-up user parameters unchanged    *)
(* (the backup is a stack of depth one); only the disable that switches    *)
(* keepalive off clears it.                                                *)
BackupNotClobbered ==
  [][nipKa /\ ~userTouched =>
       \/ bak' = bak
       \/ bak' = NoParams /\ ~nipKa']_vars

(* Spec 4.6: the idle profile only stands in for the user's keepalive: a  *)
(* socket on which the user turned SO_KEEPALIVE on keeps it on.            *)
UserKeepaliveKept == userOn => keepOpen

(* Spec 4.6: once the idle probes are exhausted, tcp_nip_keepalive_disable *)
(* leaves the idle profile: the backup is cleared and the idle-profile     *)
(* flag dropped, whether or not a backup was restored.                     *)
IdleProfileLeftOnDisable ==
  [][Disable /\ keepOpen /\ probesOut >= IdleProbesOut =>
       ~nipKa' /\ bak' = NoParams]_vars

(* Spec 5 (socket-option surface): an out-of-range keepalive parameter     *)
(* fails with an invalid-argument condition and no state change.           *)
(* tcp_nip_keepalive_enable hands the idle profile to                      *)
(* tcp_nip_keepalive_para_update; when that call fails, so that the idle   *)
(* profile stays off, the parameters in force must be as they were.        *)
ParaUpdateAllOrNothing ==
  [][\A len \in PktLens : Enable(len) /\ ~nipKa' => ka' = ka]_vars
=============================================================================
