-------------------------- MODULE NipKeepalive_proofs --------------------------
(***************************************************************************)
(* Proofs about the idle-profile keepalive of tcp_nip.c (NipKeepalive).    *)
(* The type invariant holds for every value of the constants; the backup   *)
(* property holds whenever both idle-profile times are at most one second, *)
(* the unstated premise of the keepalive_time > HZ test in                 *)
(* tcp_nip_keepalive_enable (run NipKeepalive_LongIdle shows what happens  *)
(* without it).                                                            *)
(***************************************************************************)
EXTENDS NipKeepalive, TLAPS

\* The premise of the re-backup test: idle-profile times are at most HZ.
IdleWithinSecond == NipKaTime <= HZ /\ NipKaTimeShort <= HZ

(* The strengthening of BackupNotClobbered: while the idle profile is on   *)
(* and the user has not touched the parameters since the last swap, the    *)
(* time in force is an idle-profile time, or the parameters in force are   *)
(* the backup itself (after disable restored it).                          *)
BackupInv ==
  nipKa /\ ~userTouched => ka.time <= HZ \/ ka = bak

IInv == TypeOK /\ BackupInv

-----------------------------------------------------------------------------
\* The idle profile is a well-typed parameter set.
LEMMA IdleProfileOk ==
  ASSUME NEW len \in PktLens
  PROVE  /\ IdleProfile(len) \in Params
         /\ IdleWithinSecond => IdleProfile(len).time <= HZ
<1>1. /\ NipKaTime \in Nat /\ NipKaTimeShort \in Nat /\ NipKaIntvl \in Nat
      /\ NipKeepaliveProbes \in Nat
  BY NipParamAssumption DEF NipKeepaliveProbes
<1>2. IdleProfile(len) \in Params
  BY <1>1 DEF IdleProfile, Params
<1>3. IdleWithinSecond => IdleProfile(len).time <= HZ
  BY DEF IdleProfile, IdleWithinSecond
<1>4. QED
  BY <1>2, <1>3

\* Whether or not para_update fails half-way, what it leaves is well typed.
LEMMA ParaUpdatedType ==
  ASSUME NEW p \in Params, ka \in Params
  PROVE  ParaUpdated(p) \in Params
BY DEF ParaUpdated, Params

\* The cleared parameter set of tcp_nip_rtt_init is well typed.
LEMMA NoParamsType == NoParams \in Params
BY DEF NoParams, Params

\* The initial state, and the one tcp_nip_rtt_init leaves, are well typed.
LEMMA InitType == Init => TypeOK
<1> SUFFICES ASSUME Init PROVE TypeOK
  OBVIOUS
<1>1. ka \in Params /\ bak \in Params
  BY DEF Init, NoParams, Params
<1>2. probesOut \in 0 .. IdleProbesOut
  BY IdleProbesOutAssumption DEF Init
<1>3. QED
  BY <1>1, <1>2, Zenon DEF Init, TypeOK

\* A successful para_update installs exactly the requested parameters.
LEMMA ParaUpdatedOk ==
  ASSUME NEW p \in Params, ParaUpdateOk(p)
  PROVE  ParaUpdated(p) = p
BY DEF ParaUpdated, ParaUpdateOk, Params

-----------------------------------------------------------------------------
\* Every step keeps the types.
LEMMA TypeStep == TypeOK /\ [Next]_vars => TypeOK'
<1> SUFFICES ASSUME TypeOK, [Next]_vars PROVE TypeOK'
  OBVIOUS
<1>1. ASSUME NEW len \in PktLens, Enable(len) PROVE TypeOK'
  <2>1. IdleProfile(len) \in Params /\ ParaUpdated(IdleProfile(len)) \in Params
    BY IdleProfileOk, ParaUpdatedType DEF TypeOK
  <2>2. ParaUpdateOk(IdleProfile(len)) \in BOOLEAN
    BY DEF ParaUpdateOk
  <2>3. QED
    BY <1>1, <2>1, <2>2 DEF Enable, TypeOK
<1>2. CASE Disable
  <2>1. CASE ~keepOpen
    BY <1>2, <2>1 DEF Disable, TypeOK
  <2>2. CASE keepOpen /\ bak.time # 0
    BY <1>2, <2>2 DEF Disable, TypeOK
  <2>3. CASE keepOpen /\ bak.time = 0
    BY <1>2, <2>3, NoParamsType DEF Disable, TypeOK
  <2>4. QED
    BY <2>1, <2>2, <2>3
<1>3. ASSUME NEW on \in BOOLEAN, SetKeepOpen(on) PROVE TypeOK'
  BY <1>3 DEF SetKeepOpen, TypeOK
<1>4. CASE SetParam
  BY <1>4, UserAssumption, HZAssumption DEF SetParam, TypeOK, Params
<1>5. CASE ProbeUnanswered
  BY <1>5, IdleProbesOutAssumption DEF ProbeUnanswered, ProbeRoom, TypeOK
<1>6. CASE PeerAnswered
  BY <1>6, IdleProbesOutAssumption DEF PeerAnswered, TypeOK
<1>7. CASE RttInit
  <2>1. ka' \in Params /\ bak' \in Params
    BY <1>7 DEF RttInit, NoParams, Params
  <2>2. probesOut' \in 0 .. IdleProbesOut
    BY <1>7, IdleProbesOutAssumption DEF RttInit
  <2>3. QED
    BY <1>7, <2>1, <2>2, Zenon DEF RttInit, TypeOK
<1>8. CASE UNCHANGED vars
  BY <1>8 DEF vars, TypeOK
<1>9. QED
  BY <1>1, <1>2, <1>3, <1>4, <1>5, <1>6, <1>7, <1>8 DEF Next

(* Type correctness: every keepalive step, setsockopt included, keeps the  *)
(* parameters, the backup and the idle-probe count within their types.     *)
THEOREM TypeCorrect == Spec => []TypeOK
<1>1. Init => TypeOK
  BY InitType
<1>2. QED
  BY <1>1, TypeStep, PTL DEF Spec

-----------------------------------------------------------------------------
\* The strengthened invariant is inductive when the idle times fit in HZ.
LEMMA IInvInductive ==
  ASSUME IdleWithinSecond
  PROVE  IInv /\ [Next]_vars => IInv'
<1> SUFFICES ASSUME IInv, [Next]_vars PROVE IInv'
  OBVIOUS
<1>1. TypeOK'
  BY TypeStep DEF IInv
<1>2. BackupInv'
  <2>1. ASSUME NEW len \in PktLens, Enable(len) PROVE BackupInv'
    <3>1. CASE nipKa
      BY <2>1, <3>1, IdleProfileOk DEF Enable, BackupInv
    <3>2. CASE ~nipKa /\ ParaUpdateOk(IdleProfile(len))
      BY <2>1, <3>2, IdleProfileOk, ParaUpdatedOk DEF Enable, BackupInv
    <3>3. CASE ~nipKa /\ ~ParaUpdateOk(IdleProfile(len))
      BY <2>1, <3>3 DEF Enable, BackupInv
    <3>4. QED
      BY <3>1, <3>2, <3>3
  <2>2. CASE Disable
    BY <2>2 DEF Disable, BackupInv, IInv
  <2>3. ASSUME NEW on \in BOOLEAN, SetKeepOpen(on) PROVE BackupInv'
    BY <2>3 DEF SetKeepOpen, BackupInv, IInv
  <2>4. CASE SetParam
    BY <2>4 DEF SetParam, BackupInv
  <2>5. CASE ProbeUnanswered
    BY <2>5 DEF ProbeUnanswered, BackupInv, IInv
  <2>6. CASE PeerAnswered
    BY <2>6 DEF PeerAnswered, BackupInv, IInv
  <2>7. CASE RttInit
    BY <2>7 DEF RttInit, BackupInv
  <2>8. CASE UNCHANGED vars
    BY <2>8 DEF vars, BackupInv, IInv
  <2>9. QED
    BY <2>1, <2>2, <2>3, <2>4, <2>5, <2>6, <2>7, <2>8 DEF Next
<1>3. QED
  BY <1>1, <1>2 DEF IInv

\* Every step from a state of IInv satisfies the backup property.
LEMMA BackupStep ==
  IInv /\ [Next]_vars =>
    [nipKa /\ ~userTouched =>
       \/ bak' = bak
       \/ bak' = NoParams /\ ~nipKa']_vars
<1> SUFFICES ASSUME IInv, [Next]_vars, nipKa, ~userTouched
             PROVE  bak' = bak \/ (bak' = NoParams /\ ~nipKa')
  OBVIOUS
<1>1. ASSUME NEW len \in PktLens, Enable(len)
      PROVE  bak' = bak \/ (bak' = NoParams /\ ~nipKa')
  <2>1. ka = bak
    BY <1>1, HZAssumption DEF Enable, ReBackup, IInv, BackupInv, TypeOK, Params
  <2>2. QED
    BY <1>1, <2>1 DEF Enable
<1>2. QED
  BY <1>1 DEF Next, Disable, SetKeepOpen, SetParam, ProbeUnanswered,
     PeerAnswered, RttInit, vars

(* Spec 4.6 and 8 (enable twice keeps the backup), for every instance in   *)
(* which the idle-profile times are at most one second: an enable in an    *)
(* active idle profile never overwrites the user's backup.                  *)
THEOREM BackupNotClobberedThm == IdleWithinSecond => (Spec => BackupNotClobbered)
<1> SUFFICES ASSUME IdleWithinSecond PROVE Spec => BackupNotClobbered
  OBVIOUS
<1>1. Init => IInv
  <2>1. Init => TypeOK
    BY InitType
  <2>2. Init => BackupInv
    BY DEF Init, BackupInv
  <2>3. QED
    BY <2>1, <2>2 DEF IInv
<1>2. IInv /\ [Next]_vars => IInv'
  BY IInvInductive
<1>3. QED
  BY <1>1, <1>2, BackupStep, PTL DEF Spec, BackupNotClobbered
=============================================================================
