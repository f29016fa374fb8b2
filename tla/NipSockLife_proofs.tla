-------------------------- MODULE NipSockLife_proofs --------------------------
(***************************************************************************)
(* Proof that NipSock implements the lifetime specification NipSockLife   *)
(* under the mapping LifeOf / ClosedOf, for every set of sockets and every *)
(* bound.  Every step of NipSock acts on one socket; on it, SOCK_DEAD is    *)
(* only ever set, and the destroy count only grows by one, for a socket    *)
(* already dead (LifeStepOk).  With the invariant IInv of NipSock_proofs   *)
(* (destroyed at most once, only as a CLOSE orphan) in the states before    *)
(* and after, such a step is a step of NipSockLife or a stutter.           *)
(***************************************************************************)
EXTENDS NipSock_proofs

\* Sockets other than s keep their state, SOCK_DEAD and destroy count.
LifeFrame(s) ==
  \A t \in Socks \ {s} :
    state'[t] = state[t] /\ dead'[t] = dead[t] /\ destroyed'[t] = destroyed[t]

\* On s, SOCK_DEAD is never cleared and a destroy needs it set beforehand.
LifeMono(s) ==
  /\ dead[s] => dead'[s]
  /\ \/ destroyed'[s] = destroyed[s]
     \/ dead[s] /\ destroyed'[s] = destroyed[s] + 1

LifeStepOk(s) == LifeFrame(s) /\ LifeMono(s)
-----------------------------------------------------------------------------
(* The shapes of update the actions make to state, dead and destroyed.      *)

LEMMA LifeQuiet ==
  ASSUME TypeOK, NEW s \in Socks,
         state' = state \/ \E v : state' = [state EXCEPT ![s] = v],
         dead' = dead \/ dead' = [dead EXCEPT ![s] = TRUE],
         \/ destroyed' = destroyed
         \/ dead[s] /\ destroyed' = [destroyed EXCEPT ![s] = @ + 1]
  PROVE  LifeStepOk(s)
<1>1. LifeFrame(s)
  BY DEF LifeFrame, TypeOK
<1>2. LifeMono(s)
  BY DEF LifeMono, TypeOK
<1>3. QED
  BY <1>1, <1>2 DEF LifeStepOk

LEMMA DoneLife ==
  ASSUME TypeOK, NEW s \in Socks, Done(s), dead' = dead
  PROVE  LifeStepOk(s)
<1>1. \/ destroyed' = destroyed
      \/ dead[s] /\ destroyed' = [destroyed EXCEPT ![s] = @ + 1]
  BY DEF Done, TypeOK
<1>2. QED
  BY <1>1, LifeQuiet DEF Done

LEMMA DoRcvLife ==
  ASSUME TypeOK, NEW s \in Socks, NEW seg, DoRcv(s, seg), dead' = dead
  PROVE  LifeStepOk(s)
<1>1. CASE \E m \in RcvMoves : Applies(s, m, seg) /\
             IF m.to = "CLOSE"
               THEN Done(s)
               ELSE /\ state' = [state EXCEPT ![s] = m.to]
                    /\ rcvShut' = [rcvShut EXCEPT ![s] = @ \/ seg = "FIN"]
                    /\ UNCHANGED <<hashed, timerPending, destroyed, unsent,
                                   unread>>
  <2>1. PICK m \in RcvMoves : Applies(s, m, seg) /\
             IF m.to = "CLOSE"
               THEN Done(s)
               ELSE /\ state' = [state EXCEPT ![s] = m.to]
                    /\ UNCHANGED destroyed
    BY <1>1
  <2>2. CASE m.to = "CLOSE"
    BY <2>1, <2>2, DoneLife
  <2>3. CASE m.to # "CLOSE"
    BY <2>1, <2>3, LifeQuiet
  <2>4. QED
    BY <2>2, <2>3
<1>2. CASE UNCHANGED <<state, destroyed>>
  BY <1>2, LifeQuiet
<1>3. QED
  BY <1>1, <1>2 DEF DoRcv
-----------------------------------------------------------------------------
(* One lemma per action of NipSock.                                         *)

LEMMA UserCallsLife ==
  ASSUME TypeOK, NEW s \in Socks,
         \/ Connect(s) \/ Listen(s) \/ Shutdown(s) \/ Close(s)
         \/ Disconnect(s) \/ Sendmsg(s) \/ Recvmsg(s)
  PROVE  LifeStepOk(s)
<1>1. CASE Connect(s)
  <2>1. state' = state \/ \E v : state' = [state EXCEPT ![s] = v]
    BY <1>1 DEF Connect, ConnectLateFailure
  <2>2. QED
    BY <1>1, <2>1, LifeQuiet DEF Connect
<1>2. CASE Listen(s)
  BY <1>2, LifeQuiet DEF Listen
<1>3. CASE Shutdown(s)
  BY <1>3, LifeQuiet DEF Shutdown, CloseState
<1>4. CASE Close(s)
  <2>1. state' = state \/ \E v : state' = [state EXCEPT ![s] = v]
    BY <1>4 DEF Close, CloseState
  <2>2. QED
    BY <1>4, <2>1, LifeQuiet DEF Close
<1>5. CASE Disconnect(s)
  BY <1>5, LifeQuiet DEF Disconnect
<1>6. CASE Sendmsg(s)
  BY <1>6, LifeQuiet DEF Sendmsg
<1>7. CASE Recvmsg(s)
  BY <1>7, LifeQuiet DEF Recvmsg
<1>8. QED
  BY <1>1, <1>2, <1>3, <1>4, <1>5, <1>6, <1>7

LEMMA RecvLife ==
  ASSUME TypeOK, NEW s \in Socks, RecvLoop(s) \/ RecvRelock(s) \/ Transmit(s)
  PROVE  LifeStepOk(s)
BY LifeQuiet DEF RecvLoop, RecvRelock, Transmit

LEMMA DrainLife ==
  ASSUME TypeOK, NEW s \in Socks, Drain(s)
  PROVE  LifeStepOk(s)
BY DoRcvLife DEF Drain

LEMMA ReleaseLife ==
  ASSUME TypeOK, NEW s \in Socks, Release(s)
  PROVE  LifeStepOk(s)
<1>1. UNCHANGED dead
  BY DEF Release
<1>2. CASE Done(s)
  BY <1>1, <1>2, DoneLife
<1>3. CASE UNCHANGED <<state, destroyed>>
  BY <1>1, <1>3, LifeQuiet
<1>4. QED
  BY <1>2, <1>3 DEF Release

\* The destroy test after release_sock runs only on an orphan.
LEMMA CloseTailLife ==
  ASSUME IInv, NEW s \in Socks, CloseTail(s)
  PROVE  LifeStepOk(s)
<1>1. dead[s]
  BY DEF CloseTail, IInv, DestroyInv, ClosePhases
<1>2. \/ destroyed' = destroyed
      \/ dead[s] /\ destroyed' = [destroyed EXCEPT ![s] = @ + 1]
  BY <1>1 DEF CloseTail
<1>3. QED
  BY <1>2, LifeQuiet DEF CloseTail, IInv

LEMMA SoftirqLife ==
  ASSUME TypeOK, NEW s \in Socks,
         TimerExpire(s) \/ \E seg \in Segs : Rcv(s, seg)
  PROVE  LifeStepOk(s)
<1>1. CASE TimerExpire(s)
  <2>1. UNCHANGED dead
    BY <1>1 DEF TimerExpire
  <2>2. CASE Done(s)
    BY <2>1, <2>2, DoneLife
  <2>3. CASE UNCHANGED <<state, destroyed>>
    BY <2>1, <2>3, LifeQuiet
  <2>4. QED
    BY <1>1, <2>2, <2>3 DEF TimerExpire
<1>2. CASE \E seg \in Segs : Rcv(s, seg)
  <2>1. PICK seg \in Segs : Rcv(s, seg)
    BY <1>2
  <2>2. UNCHANGED dead
    BY <2>1 DEF Rcv
  <2>3. CASE DoRcv(s, seg)
    BY <2>2, <2>3, DoRcvLife
  <2>4. CASE UNCHANGED <<state, destroyed>>
    BY <2>2, <2>4, LifeQuiet
  <2>5. QED
    BY <2>1, <2>3, <2>4 DEF Rcv
<1>3. QED
  BY <1>1, <1>2

LEMMA NextLife ==
  ASSUME IInv, Next
  PROVE  \E s \in Socks : LifeStepOk(s)
<1>1. TypeOK
  BY DEF IInv
<1>2. PICK s \in Socks :
        \/ Connect(s) \/ Listen(s) \/ Shutdown(s) \/ Close(s) \/ Disconnect(s)
        \/ Sendmsg(s) \/ Recvmsg(s) \/ RecvLoop(s) \/ RecvRelock(s)
        \/ Drain(s) \/ Release(s) \/ CloseTail(s)
        \/ TimerExpire(s) \/ Transmit(s)
        \/ \E seg \in Segs : Rcv(s, seg)
  BY DEF Next
<1>3. LifeStepOk(s)
  BY <1>1, <1>2, UserCallsLife, RecvLife, DrainLife, ReleaseLife,
     CloseTailLife, SoftirqLife
<1>4. QED
  BY <1>3
-----------------------------------------------------------------------------
(* A step that keeps LifeStepOk(s), between two states of IInv, is a step  *)
(* of NipSockLife on socket s or leaves the mapped state unchanged.         *)
LEMMA LifeStepRefines ==
  ASSUME IInv, IInv', NEW s \in Socks, LifeStepOk(s)
  PROVE  [Life!Next]_Life!vars
<1> DEFINE c == ClosedOf'[s]
<1>1. /\ TypeOK /\ TypeOK'
      /\ DestroyInv(s) /\ DestroyInv(s)'
  BY DEF IInv
<1>2. /\ LifeOf \in [Socks -> {"open", "orphan", "freed", "freedAgain"}]
      /\ ClosedOf \in [Socks -> BOOLEAN]
      /\ LifeOf' = [LifeOf EXCEPT ![s] = LifeOf'[s]]
      /\ ClosedOf' = [ClosedOf EXCEPT ![s] = c]
  <2>1. \A t \in Socks \ {s} : LifeOf'[t] = LifeOf[t] /\ ClosedOf'[t] = ClosedOf[t]
    BY DEF LifeStepOk, LifeFrame, LifeOf, ClosedOf
  <2>2. LifeOf \in [Socks -> {"open", "orphan", "freed", "freedAgain"}]
    BY DEF LifeOf
  <2>3. LifeOf' = [LifeOf EXCEPT ![s] = LifeOf'[s]]
    <3>1. /\ LifeOf = [t \in Socks |-> LifeOf[t]]
          /\ LifeOf' = [t \in Socks |-> LifeOf'[t]]
      BY DEF LifeOf
    <3>2. \A t \in Socks : LifeOf'[t] = [LifeOf EXCEPT ![s] = LifeOf'[s]][t]
      BY <2>1, <3>1
    <3>3. QED
      BY <3>1, <3>2
  <2>4. ClosedOf' = [ClosedOf EXCEPT ![s] = c]
    BY <2>1 DEF ClosedOf
  <2>5. QED
    BY <2>2, <2>3, <2>4 DEF ClosedOf
<1>3. c \in BOOLEAN
  BY DEF ClosedOf
<1>4. CASE dead[s] /\ destroyed'[s] = destroyed[s] + 1
  <2>1. destroyed[s] = 0 /\ destroyed'[s] = 1
    BY <1>1, <1>4 DEF DestroyInv, TypeOK
  <2>2. LifeOf[s] = "orphan"
    BY <1>4, <2>1 DEF LifeOf
  <2>3. LifeOf'[s] = "freed"
    BY <2>1 DEF LifeOf
  <2>4. c = TRUE
    BY <1>1, <2>1 DEF ClosedOf, DestroyInv
  <2>5. Life!Free(s)
    BY <1>2, <2>2, <2>3, <2>4 DEF Life!Free
  <2>6. QED
    BY <2>5 DEF Life!Next
<1>5. CASE destroyed'[s] = destroyed[s] /\ ~dead[s] /\ dead'[s]
  <2>1. destroyed[s] = 0
    BY <1>1, <1>5 DEF DestroyInv
  <2>2. LifeOf[s] = "open" /\ LifeOf'[s] = "orphan"
    BY <1>5, <2>1 DEF LifeOf
  <2>3. Life!Orphan(s, c)
    BY <1>2, <2>2 DEF Life!Orphan
  <2>4. QED
    BY <1>3, <2>3 DEF Life!Next
<1>6. CASE destroyed'[s] = destroyed[s] /\ dead'[s] = dead[s]
  <2>1. LifeOf'[s] = LifeOf[s]
    BY <1>6 DEF LifeOf
  <2>2. CASE destroyed[s] = 1
    <3>1. state[s] = "CLOSE" /\ state'[s] = "CLOSE"
      BY <1>1, <1>6, <2>2 DEF DestroyInv
    <3>2. c = ClosedOf[s]
      BY <3>1 DEF ClosedOf
    <3>3. LifeOf' = LifeOf /\ ClosedOf' = ClosedOf
      BY <1>2, <2>1, <3>2
    <3>4. QED
      BY <3>3 DEF Life!vars
  <2>3. CASE destroyed[s] = 0
    <3>1. LifeOf[s] # "freed"
      BY <2>3 DEF LifeOf
    <3>2. Life!Move(s, c)
      BY <1>2, <2>1, <3>1 DEF Life!Move
    <3>3. QED
      BY <1>3, <3>2 DEF Life!Next
  <2>4. QED
    BY <1>1, <2>2, <2>3 DEF DestroyInv
<1>7. QED
  BY <1>1, <1>4, <1>5, <1>6 DEF LifeStepOk, LifeMono, TypeOK

(* NipSock implements NipSockLife for every set of sockets and every bound: *)
(* tcp_nip_close orphans a socket once; tcp_nip_done and the destroy test   *)
(* of tcp_nip_close destroy it only as an orphan that is or becomes CLOSE,  *)
(* at most once; and no segment, timer or call moves it afterwards.         *)
THEOREM LifeRefinement == Spec => LifeRefined
<1>1. Init => Life!Init
  BY DEF Init, Life!Init, LifeOf, ClosedOf
<1>2. IInv /\ IInv' /\ [Next]_vars => [Life!Next]_Life!vars
  <2> SUFFICES ASSUME IInv, IInv', [Next]_vars
               PROVE  [Life!Next]_Life!vars
    OBVIOUS
  <2>1. CASE Next
    <3>1. PICK s \in Socks : LifeStepOk(s)
      BY <2>1, NextLife
    <3>2. QED
      BY <3>1, LifeStepRefines
  <2>2. CASE UNCHANGED vars
    BY <2>2 DEF vars, Life!vars, LifeOf, ClosedOf
  <2>3. QED
    BY <2>1, <2>2
<1>3. Spec => []IInv
  BY InitIInv, IInvInductive, PTL DEF Spec
<1>4. QED
  BY <1>1, <1>2, <1>3, PTL DEF Spec, LifeRefined, Life!Spec
====
