----------------------------- MODULE NipSock_proofs -----------------------------
(***************************************************************************)
(* Proofs about the NewIP socket lifecycle (NipSock), for every set of     *)
(* sockets, backlog limit, sequence width and window: the type invariant,  *)
(* and that close, the backlog, deferred timers and the destroy test after *)
(* release_sock destroy an orphan exactly once (DestroyExactlyOnce).        *)
(***************************************************************************)
EXTENDS NipSock, TLAPS

\* Phases of the user context in which tcp_nip_close has orphaned the socket,
\* and those before its destroy test.
ClosePhases == {"closeRelease", "closeTail", "gone"}
CloseWindow == {"closeRelease", "closeTail"}

(* The strengthening of DestroyExactlyOnce, per socket.  A socket is      *)
(* destroyed at most once and only as a CLOSE orphan; it is orphaned       *)
(* exactly when close() has started.  Between close() and its destroy     *)
(* test, a socket close() left in CLOSE stays CLOSE and undestroyed, and a *)
(* socket it left open that has reached CLOSE since was destroyed by       *)
(* tcp_nip_done.  A CLOSE socket is in no hash table, so no segment        *)
(* reaches it: this is what keeps a CLOSE socket CLOSE.                    *)
DestroyInv(s) ==
  /\ destroyed[s] \in {0, 1}
  /\ destroyed[s] = 1 => dead[s] /\ state[s] = "CLOSE"
  /\ dead[s] <=> upc[s] \in ClosePhases
  /\ upc[s] \in CloseWindow /\ saved[s] = "CLOSE" =>
       state[s] = "CLOSE" /\ destroyed[s] = 0
  /\ upc[s] \in CloseWindow /\ saved[s] # "CLOSE" /\ state[s] = "CLOSE" =>
       destroyed[s] = 1
  /\ upc[s] = "gone" /\ state[s] = "CLOSE" => destroyed[s] = 1
  /\ state[s] = "CLOSE" => hashed[s] = "none"

IInv == TypeOK /\ \A s \in Socks : DestroyInv(s)
-----------------------------------------------------------------------------
(* Lemmas about the operators the model is built from.                     *)

\* The assumptions on the constants are used throughout.
USE BacklogLimitAssumption, SeqModAssumption, MaxWindowAssumption,
    MaxConnectsAssumption, RecvLenAssumption

\* write_seq arithmetic stays in the u32 sequence space, and the value
\* tcp_nip_disconnect picks is never 0.
LEMMA SeqArith ==
  ASSUME NEW w \in SeqNum
  PROVE  /\ (w + 1) % SeqMod \in SeqNum
         /\ DisconnectSeq(w) \in SeqNum \ {0}
<1>1. (w + 1) % SeqMod \in SeqNum
  BY SeqModAssumption DEF SeqNum
<1>2. (w + MaxWindow + 2) % SeqMod \in SeqNum
  BY SeqModAssumption, MaxWindowAssumption DEF SeqNum
<1>3. 1 \in SeqNum
  BY MaxWindowAssumption DEF SeqNum
<1>4. QED
  BY <1>1, <1>2, <1>3 DEF DisconnectSeq

\* The close table maps every state to a state.
LEMMA CloseNextType == \A st \in States : CloseNext[st] \in States
BY DEF CloseNext, States

\* A segment moves a socket between states, never out of CLOSE.
LEMMA RcvMovesType ==
  \A m \in RcvMoves : m.from \in States \ {"CLOSE"} /\ m.to \in States
BY DEF RcvMoves, States

-----------------------------------------------------------------------------
(* Type correctness, one lemma per action.  RcvVarsType types the          *)
(* variables a segment or tcp_nip_done can change.                          *)

RcvVarsType ==
  /\ state \in [Socks -> States]
  /\ hashed \in [Socks -> {"ehash", "lhash", "none"}]
  /\ timerPending \in [Socks -> BOOLEAN]
  /\ destroyed \in [Socks -> Nat]
  /\ unsent \in [Socks -> BOOLEAN]
  /\ unread \in [Socks -> BOOLEAN]
  /\ rcvShut \in [Socks -> BOOLEAN]

\* TypeOK' follows from the types of the receive-path variables and the
\* rest, each either typed or unchanged.
LEMMA TypeFrame ==
  ASSUME TypeOK, RcvVarsType',
         owned' \in [Socks -> BOOLEAN], upc' \in [Socks -> Phases],
         saved' \in [Socks -> States], dead' \in [Socks -> BOOLEAN],
         backlog' \in [Socks -> Seq(Segs)],
         charged' \in [Socks -> 0 .. BacklogLimit],
         \A t \in Socks : Len(backlog'[t]) <= charged'[t],
         fins' \in [Socks -> Nat], writeSeq' \in [Socks -> SeqNum],
         connected' \in [Socks -> BOOLEAN], conns' \in [Socks -> 0 .. MaxConnects],
         discSeq' \in [Socks -> SeqNum \cup {NoSeq}],
         rcvLeft' \in [Socks -> 0 .. RecvLen], recvRet' \in [Socks -> RecvRets]
  PROVE  TypeOK'
BY DEF TypeOK, RcvVarsType

\* The user-call variables and the history of a step that leaves them be.
LEMMA UnchangedType ==
  ASSUME TypeOK,
         UNCHANGED <<owned, upc, saved, dead, backlog, fins, writeSeq,
                     connected, conns, discSeq, charged, rcvLeft, recvRet>>
  PROVE  /\ owned' \in [Socks -> BOOLEAN] /\ upc' \in [Socks -> Phases]
         /\ saved' \in [Socks -> States] /\ dead' \in [Socks -> BOOLEAN]
         /\ backlog' \in [Socks -> Seq(Segs)]
         /\ charged' \in [Socks -> 0 .. BacklogLimit]
         /\ \A t \in Socks : Len(backlog'[t]) <= charged'[t]
         /\ fins' \in [Socks -> Nat] /\ writeSeq' \in [Socks -> SeqNum]
         /\ connected' \in [Socks -> BOOLEAN]
         /\ conns' \in [Socks -> 0 .. MaxConnects]
         /\ discSeq' \in [Socks -> SeqNum \cup {NoSeq}]
         /\ rcvLeft' \in [Socks -> 0 .. RecvLen]
         /\ recvRet' \in [Socks -> RecvRets]
BY DEF TypeOK

\* tcp_nip_done keeps the receive-path variables typed.
LEMMA DoneType ==
  ASSUME TypeOK, NEW s \in Socks, Done(s)
  PROVE  RcvVarsType'
<1>1. state' \in [Socks -> States] /\ hashed' \in [Socks -> {"ehash", "lhash", "none"}]
  BY DEF Done, TypeOK, States
<1>2. timerPending' \in [Socks -> BOOLEAN]
  BY DEF Done, TypeOK
<1>3. destroyed' \in [Socks -> Nat]
  BY DEF Done, TypeOK
<1>4. unsent' \in [Socks -> BOOLEAN] /\ unread' \in [Socks -> BOOLEAN]
  BY DEF Done, TypeOK
<1>5. rcvShut' \in [Socks -> BOOLEAN]
  BY DEF Done, TypeOK
<1>6. QED
  BY <1>1, <1>2, <1>3, <1>4, <1>5 DEF RcvVarsType

\* tcp_nip_do_rcv keeps the receive-path variables typed.
LEMMA DoRcvType ==
  ASSUME TypeOK, NEW s \in Socks, NEW seg \in Segs, DoRcv(s, seg)
  PROVE  RcvVarsType'
<1>1. CASE \E m \in RcvMoves : Applies(s, m, seg) /\ m.to = "CLOSE" /\ Done(s)
  BY <1>1, DoneType
<1>2. CASE \E m \in RcvMoves :
             /\ m.to # "CLOSE"
             /\ state' = [state EXCEPT ![s] = m.to]
             /\ rcvShut' = [rcvShut EXCEPT ![s] = @ \/ seg = "FIN"]
             /\ UNCHANGED <<hashed, timerPending, destroyed, unsent, unread>>
  BY <1>2, RcvMovesType DEF TypeOK, RcvVarsType
<1>3. CASE /\ unread' = [unread EXCEPT ![s] = TRUE]
           /\ UNCHANGED <<state, hashed, timerPending, destroyed, unsent, rcvShut>>
  BY <1>3 DEF TypeOK, RcvVarsType
<1>4. CASE UNCHANGED <<state, hashed, timerPending, destroyed, unsent, unread,
                       rcvShut>>
  BY <1>4 DEF TypeOK, RcvVarsType
<1>5. QED
  BY <1>1, <1>2, <1>3, <1>4 DEF DoRcv

\* tcp_nip_close_state (with the FIN it may queue) keeps its variables typed.
LEMMA CloseStateType ==
  ASSUME TypeOK, NEW s \in Socks, CloseState(s)
  PROVE  /\ state' \in [Socks -> States]
         /\ hashed' \in [Socks -> {"ehash", "lhash", "none"}]
         /\ fins' \in [Socks -> Nat]
         /\ writeSeq' \in [Socks -> SeqNum]
         /\ unsent' \in [Socks -> BOOLEAN]
<1>1. state' \in [Socks -> States] /\ hashed' \in [Socks -> {"ehash", "lhash", "none"}]
  BY CloseNextType DEF CloseState, HashedAfter, TypeOK
<1>2. CASE state[s] \in CloseFin
  <2>1. /\ fins' = [fins EXCEPT ![s] = fins[s] + 1]
        /\ writeSeq' = [writeSeq EXCEPT ![s] = (writeSeq[s] + 1) % SeqMod]
        /\ \E u \in BOOLEAN : unsent' = [unsent EXCEPT ![s] = u]
    BY <1>2 DEF CloseState
  <2>2. writeSeq' \in [Socks -> SeqNum]
    BY <2>1, SeqArith DEF TypeOK
  <2>3. fins' \in [Socks -> Nat] /\ unsent' \in [Socks -> BOOLEAN]
    BY <2>1 DEF TypeOK
  <2>4. QED
    BY <1>1, <2>2, <2>3
<1>3. CASE state[s] \notin CloseFin
  BY <1>1, <1>3 DEF CloseState, TypeOK
<1>4. QED
  BY <1>2, <1>3

LEMMA ConnectType ==
  ASSUME TypeOK, NEW s \in Socks, Connect(s)
  PROVE  TypeOK'
<1> DEFINE iss(i) == IF writeSeq[s] = 0 THEN i ELSE writeSeq[s]
<1>1. PICK isn \in SeqNum :
        \/ UNCHANGED <<state, hashed, writeSeq, connected, fins>>
        \/ ConnectLateFailure(s, iss(isn))
        \/ /\ writeSeq' = [writeSeq EXCEPT ![s] = (iss(isn) + 1) % SeqMod]
           /\ state' = [state EXCEPT ![s] = "SYN_SENT"]
           /\ hashed' = [hashed EXCEPT ![s] = "ehash"]
           /\ connected' = [connected EXCEPT ![s] = TRUE]
           /\ fins' = [fins EXCEPT ![s] = 0]
  BY DEF Connect
<1>2. iss(isn) \in SeqNum
  BY DEF TypeOK
<1>3. /\ state' \in [Socks -> States]
      /\ hashed' \in [Socks -> {"ehash", "lhash", "none"}]
      /\ writeSeq' \in [Socks -> SeqNum]
      /\ connected' \in [Socks -> BOOLEAN]
      /\ fins' \in [Socks -> Nat]
  <2>1. CASE UNCHANGED <<state, hashed, writeSeq, connected, fins>>
    BY <2>1 DEF TypeOK
  <2>2. CASE ConnectLateFailure(s, iss(isn))
    BY <2>2, <1>2 DEF ConnectLateFailure, HashedAfter, TypeOK
  <2>3. CASE /\ writeSeq' = [writeSeq EXCEPT ![s] = (iss(isn) + 1) % SeqMod]
             /\ state' = [state EXCEPT ![s] = "SYN_SENT"]
             /\ hashed' = [hashed EXCEPT ![s] = "ehash"]
             /\ connected' = [connected EXCEPT ![s] = TRUE]
             /\ fins' = [fins EXCEPT ![s] = 0]
    <3>1. (iss(isn) + 1) % SeqMod \in SeqNum
      BY <1>2, SeqArith
    <3>2. QED
      BY <2>3, <3>1 DEF TypeOK, States
  <2>4. QED
    BY <1>1, <2>1, <2>2, <2>3
<1>4. /\ owned' \in [Socks -> BOOLEAN]
      /\ upc' \in [Socks -> Phases]
      /\ conns' \in [Socks -> 0 .. MaxConnects]
  BY DEF Connect, UserCall, EndCall, TypeOK, Phases
<1>5. UNCHANGED <<saved, dead, destroyed, backlog, unread, unsent, timerPending,
                  discSeq, charged, rcvShut, rcvLeft, recvRet>>
  BY DEF Connect
<1>6. QED
  BY <1>3, <1>4, <1>5, TypeFrame DEF TypeOK, RcvVarsType

LEMMA ListenType ==
  ASSUME TypeOK, NEW s \in Socks, Listen(s)
  PROVE  TypeOK'
BY DEF Listen, UserCall, EndCall, TypeOK, States, Phases

LEMMA ShutdownType ==
  ASSUME TypeOK, NEW s \in Socks, Shutdown(s)
  PROVE  TypeOK'
<1>1. /\ state' \in [Socks -> States]
      /\ hashed' \in [Socks -> {"ehash", "lhash", "none"}]
      /\ fins' \in [Socks -> Nat]
      /\ writeSeq' \in [Socks -> SeqNum]
      /\ unsent' \in [Socks -> BOOLEAN]
  BY CloseStateType DEF Shutdown, TypeOK
<1>2. owned' \in [Socks -> BOOLEAN] /\ upc' \in [Socks -> Phases]
  BY DEF Shutdown, EndCall, TypeOK, Phases
<1>3. UNCHANGED <<saved, dead, destroyed, backlog, unread, connected,
                  timerPending, conns, discSeq, charged, rcvShut, rcvLeft, recvRet>>
  BY DEF Shutdown
<1>4. QED
  BY <1>1, <1>2, <1>3, TypeFrame DEF TypeOK, RcvVarsType

LEMMA CloseType ==
  ASSUME TypeOK, NEW s \in Socks, Close(s)
  PROVE  TypeOK'
<1>1. /\ state' \in [Socks -> States]
      /\ hashed' \in [Socks -> {"ehash", "lhash", "none"}]
      /\ fins' \in [Socks -> Nat]
      /\ writeSeq' \in [Socks -> SeqNum]
      /\ unsent' \in [Socks -> BOOLEAN]
      /\ unread' \in [Socks -> BOOLEAN]
  <2>1. CASE state[s] = "LISTEN"
    BY <2>1 DEF Close, TypeOK, States
  <2>2. CASE state[s] = "CLOSE"
    BY <2>2 DEF Close, TypeOK
  <2>3. CASE state[s] \notin {"LISTEN", "CLOSE"} /\ unread[s]
    BY <2>3 DEF Close, TypeOK, States
  <2>4. CASE state[s] \notin {"LISTEN", "CLOSE"} /\ ~unread[s]
    BY <2>4, CloseStateType DEF Close, TypeOK
  <2>5. QED
    BY <2>1, <2>2, <2>3, <2>4
<1>2. saved' \in [Socks -> States]
  BY <1>1 DEF Close, TypeOK
<1>3. /\ dead' \in [Socks -> BOOLEAN]
      /\ owned' \in [Socks -> BOOLEAN]
      /\ upc' \in [Socks -> Phases]
      /\ rcvShut' \in [Socks -> BOOLEAN]
  BY DEF Close, TypeOK, Phases
<1>4. UNCHANGED <<destroyed, backlog, connected, timerPending, conns, discSeq,
                  charged, rcvLeft, recvRet>>
  BY DEF Close
<1>5. QED
  BY <1>1, <1>2, <1>3, <1>4, TypeFrame DEF TypeOK, RcvVarsType

LEMMA DisconnectType ==
  ASSUME TypeOK, NEW s \in Socks, Disconnect(s)
  PROVE  TypeOK'
<1>1. writeSeq' \in [Socks -> SeqNum] /\ discSeq' \in [Socks -> SeqNum \cup {NoSeq}]
  BY SeqArith DEF Disconnect, TypeOK
<1>2. QED
  BY <1>1 DEF Disconnect, HashedAfter, UserCall, EndCall, TypeOK, States, Phases

LEMMA SendmsgType ==
  ASSUME TypeOK, NEW s \in Socks, Sendmsg(s)
  PROVE  TypeOK'
<1>1. writeSeq' \in [Socks -> SeqNum]
  BY SeqArith DEF Sendmsg, TypeOK
<1>2. QED
  BY <1>1 DEF Sendmsg, UserCall, EndCall, TypeOK, Phases

LEMMA RecvmsgType ==
  ASSUME TypeOK, NEW s \in Socks, Recvmsg(s)
  PROVE  TypeOK'
<1>1. UNCHANGED <<state, hashed, saved, dead, destroyed, backlog, unread, unsent,
                  fins, writeSeq, connected, timerPending, conns, discSeq,
                  charged, rcvShut>>
  BY DEF Recvmsg
<1>2. /\ owned' \in [Socks -> BOOLEAN]
      /\ upc' \in [Socks -> Phases]
      /\ rcvLeft' \in [Socks -> 0 .. RecvLen]
      /\ recvRet' \in [Socks -> RecvRets]
  <2>1. CASE state[s] = "LISTEN"
    <3>1. PICK r \in RecvRets \ {"none"} : recvRet' = [recvRet EXCEPT ![s] = r]
      BY <2>1 DEF Recvmsg
    <3>2. EndCall(s) /\ UNCHANGED rcvLeft
      BY <2>1 DEF Recvmsg
    <3>3. QED
      BY <3>1, <3>2 DEF EndCall, TypeOK, Phases
  <2>2. CASE state[s] # "LISTEN"
    <3>1. /\ owned' = [owned EXCEPT ![s] = TRUE]
          /\ upc' = [upc EXCEPT ![s] = "recvLoop"]
          /\ rcvLeft' = [rcvLeft EXCEPT ![s] = RecvLen]
          /\ recvRet' = [recvRet EXCEPT ![s] = "none"]
      BY <2>2 DEF Recvmsg
    <3>2. QED
      BY <3>1 DEF TypeOK, Phases, RecvRets
  <2>3. QED
    BY <2>1, <2>2
<1>3. QED
  BY <1>1, <1>2, TypeFrame DEF TypeOK, RcvVarsType

\* The two halves of a pass of the recvmsg loop: copying queued data, and
\* the checks made with the receive queue empty.
RecvCopy(s) ==
  /\ rcvLeft' = [rcvLeft EXCEPT ![s] = @ - 1]
  /\ \E u \in IF rcvLeft[s] = 1 THEN BOOLEAN ELSE {FALSE} :
       unread' = [unread EXCEPT ![s] = u]
  /\ IF rcvLeft[s] = 1
       THEN RecvBreak(s, "bytes")
       ELSE UNCHANGED <<upc, recvRet>>

RecvChecks(s) ==
  /\ \/ \E r \in RecvRets : RecvBreak(s, r)
     \/ upc' = [upc EXCEPT ![s] = "recvRelease"] /\ UNCHANGED recvRet
  /\ UNCHANGED <<unread, rcvLeft>>

LEMMA RecvLoopCases ==
  ASSUME NEW s \in Socks, RecvLoop(s)
  PROVE  /\ rcvLeft[s] > 0
         /\ unread[s] => RecvCopy(s)
         /\ ~unread[s] => RecvChecks(s)
<1>1. rcvLeft[s] > 0
  BY DEF RecvLoop
<1>2. unread[s] => RecvCopy(s)
  BY DEF RecvLoop, RecvCopy
<1>3. ~unread[s] => RecvChecks(s)
  BY DEF RecvLoop, RecvChecks, RecvRets
<1>4. QED
  BY <1>1, <1>2, <1>3

LEMMA RecvLoopType ==
  ASSUME TypeOK, NEW s \in Socks, RecvLoop(s)
  PROVE  TypeOK'
<1>1. UNCHANGED <<state, hashed, owned, saved, dead, destroyed, backlog, unsent,
                  fins, writeSeq, connected, timerPending, conns, discSeq,
                  charged, rcvShut>>
  BY DEF RecvLoop
<1>2. /\ rcvLeft' \in [Socks -> 0 .. RecvLen] /\ unread' \in [Socks -> BOOLEAN]
      /\ upc' \in [Socks -> Phases] /\ recvRet' \in [Socks -> RecvRets]
  <2>1. CASE unread[s]
    <3>1. RecvCopy(s) /\ rcvLeft[s] > 0
      BY <2>1, RecvLoopCases
    <3>2. rcvLeft' \in [Socks -> 0 .. RecvLen]
      BY <3>1 DEF RecvCopy, TypeOK
    <3>3. unread' \in [Socks -> BOOLEAN]
      <4>1. PICK u \in BOOLEAN : unread' = [unread EXCEPT ![s] = u]
        BY <3>1 DEF RecvCopy
      <4>2. QED
        BY <4>1 DEF TypeOK
    <3>4. CASE rcvLeft[s] = 1
      <4>1. RecvBreak(s, "bytes")
        BY <3>1, <3>4 DEF RecvCopy
      <4>2. QED
        BY <3>2, <3>3, <4>1 DEF RecvBreak, TypeOK, Phases, RecvRets
    <3>5. CASE rcvLeft[s] # 1
      <4>1. UNCHANGED <<upc, recvRet>>
        BY <3>1, <3>5 DEF RecvCopy
      <4>2. QED
        BY <3>2, <3>3, <4>1 DEF TypeOK
    <3>6. QED
      BY <3>4, <3>5
  <2>2. CASE ~unread[s]
    <3>1. RecvChecks(s)
      BY <2>2, RecvLoopCases
    <3>2. UNCHANGED <<unread, rcvLeft>>
      BY <3>1 DEF RecvChecks
    <3>3. CASE \E r \in RecvRets : RecvBreak(s, r)
      <4>1. PICK r \in RecvRets : RecvBreak(s, r)
        BY <3>3
      <4>2. QED
        BY <3>2, <4>1 DEF RecvBreak, TypeOK, Phases
    <3>4. CASE upc' = [upc EXCEPT ![s] = "recvRelease"] /\ UNCHANGED recvRet
      BY <3>2, <3>4 DEF TypeOK, Phases
    <3>5. QED
      BY <3>1, <3>3, <3>4 DEF RecvChecks
  <2>3. QED
    BY <2>1, <2>2
<1>3. QED
  BY <1>1, <1>2, TypeFrame DEF TypeOK, RcvVarsType

LEMMA RecvRelockType ==
  ASSUME TypeOK, NEW s \in Socks, RecvRelock(s)
  PROVE  TypeOK'
BY DEF RecvRelock, TypeOK, Phases

LEMMA DrainType ==
  ASSUME TypeOK, NEW s \in Socks, Drain(s)
  PROVE  TypeOK'
<1>1. Head(backlog[s]) \in Segs
  BY DEF Drain, TypeOK
<1>2. RcvVarsType'
  BY <1>1, DoRcvType DEF Drain
<1>3. /\ backlog' \in [Socks -> Seq(Segs)]
      /\ charged' \in [Socks -> 0 .. BacklogLimit]
      /\ \A t \in Socks : Len(backlog'[t]) <= charged'[t]
  BY DEF Drain, TypeOK
<1>4. QED
  BY <1>2, <1>3, TypeFrame DEF Drain, TypeOK

LEMMA ReleaseType ==
  ASSUME TypeOK, NEW s \in Socks, Release(s)
  PROVE  TypeOK'
<1>1. RcvVarsType'
  <2>1. CASE timerPending[s] /\ state[s] \in TimerStates
    BY <2>1, DoneType DEF Release
  <2>2. CASE ~(timerPending[s] /\ state[s] \in TimerStates)
    BY <2>2 DEF Release, TypeOK, RcvVarsType
  <2>3. QED
    BY <2>1, <2>2
<1>2. owned' \in [Socks -> BOOLEAN] /\ upc' \in [Socks -> Phases]
  BY DEF Release, TypeOK, Phases
<1>3. /\ charged' \in [Socks -> 0 .. BacklogLimit]
      /\ \A t \in Socks : Len(backlog'[t]) <= charged'[t]
  BY DEF Release, TypeOK
<1>4. QED
  BY <1>1, <1>2, <1>3, TypeFrame DEF Release, TypeOK

LEMMA CloseTailType ==
  ASSUME TypeOK, NEW s \in Socks, CloseTail(s)
  PROVE  TypeOK'
<1>1. RcvVarsType'
  <2>1. CASE CloseTailDestroys(s)
    <3>1. /\ destroyed' = [destroyed EXCEPT ![s] = destroyed[s] + 1]
          /\ unsent' = [unsent EXCEPT ![s] = FALSE]
          /\ unread' = [unread EXCEPT ![s] = FALSE]
          /\ UNCHANGED <<state, hashed, timerPending, rcvShut>>
      BY <2>1 DEF CloseTail
    <3>2. QED
      BY <3>1 DEF TypeOK, RcvVarsType
  <2>2. CASE ~CloseTailDestroys(s)
    BY <2>2 DEF CloseTail, TypeOK, RcvVarsType
  <2>3. QED
    BY <2>1, <2>2
<1>2. upc' \in [Socks -> Phases]
  BY DEF CloseTail, TypeOK, Phases
<1>3. QED
  BY <1>1, <1>2, TypeFrame DEF CloseTail, TypeOK

LEMMA TimerExpireType ==
  ASSUME TypeOK, NEW s \in Socks, TimerExpire(s)
  PROVE  TypeOK'
<1>1. RcvVarsType'
  <2>1. CASE owned[s]
    BY <2>1 DEF TimerExpire, TypeOK, RcvVarsType
  <2>2. CASE ~owned[s]
    BY <2>2, DoneType DEF TimerExpire
  <2>3. QED
    BY <2>1, <2>2
<1>2. QED
  BY <1>1, TypeFrame DEF TimerExpire, TypeOK

LEMMA TransmitType ==
  ASSUME TypeOK, NEW s \in Socks, Transmit(s)
  PROVE  TypeOK'
BY DEF Transmit, TypeOK

LEMMA RcvType ==
  ASSUME TypeOK, NEW s \in Socks, NEW seg \in Segs, Rcv(s, seg)
  PROVE  TypeOK'
<1>1. CASE owned[s]
  <2>1. /\ backlog' = [backlog EXCEPT ![s] = Append(backlog[s], seg)]
        /\ charged' = [charged EXCEPT ![s] = charged[s] + 1]
        /\ charged[s] < BacklogLimit
    BY <1>1 DEF Rcv, BacklogHasRoom
  <2>2. /\ backlog' \in [Socks -> Seq(Segs)]
        /\ charged' \in [Socks -> 0 .. BacklogLimit]
        /\ \A t \in Socks : Len(backlog'[t]) <= charged'[t]
    BY <2>1 DEF TypeOK
  <2>3. RcvVarsType'
    BY <1>1 DEF Rcv, TypeOK, RcvVarsType
  <2>4. QED
    BY <2>2, <2>3, TypeFrame DEF Rcv, TypeOK
<1>2. CASE ~owned[s]
  <2>1. RcvVarsType'
    BY <1>2, DoRcvType DEF Rcv
  <2>2. UNCHANGED <<owned, upc, saved, dead, backlog, fins, writeSeq,
                    connected, conns, discSeq, charged, rcvLeft, recvRet>>
    BY <1>2 DEF Rcv
  <2>3. QED
    BY <2>1, <2>2, UnchangedType, TypeFrame
<1>3. QED
  BY <1>1, <1>2

\* Every step keeps the types.
LEMMA TypeStep == TypeOK /\ [Next]_vars => TypeOK'
<1> SUFFICES ASSUME TypeOK, [Next]_vars PROVE TypeOK'
  OBVIOUS
<1>1. CASE UNCHANGED vars
  BY <1>1 DEF vars, TypeOK
<1>2. QED
  BY <1>1, ConnectType, ListenType, ShutdownType, CloseType, DisconnectType,
     SendmsgType, RecvmsgType, RecvLoopType, RecvRelockType, DrainType,
     ReleaseType, CloseTailType, TimerExpireType, TransmitType, RcvType DEF Next

(* Type correctness of the socket lifecycle: every interleaving of user    *)
(* calls, softirq receive, backlog draining and timers keeps each socket's *)
(* state, hash membership, owner lock, backlog (within sk_add_backlog's    *)
(* limit) and u32 write_seq well typed, for any number of sockets.         *)
THEOREM TypeCorrect == Spec => []TypeOK
<1>1. Init => TypeOK
  BY DEF Init, TypeOK, States, Phases, SeqNum, NoSeq, RecvRets
<1>2. QED
  BY <1>1, TypeStep, PTL DEF Spec

-----------------------------------------------------------------------------
(* DestroyExactlyOnce.                                                      *)

\* A step that moves the user context of s within the same class of phases.
SamePhaseClass(s) ==
  /\ upc'[s] \in CloseWindow <=> upc[s] \in CloseWindow
  /\ upc'[s] = "gone" <=> upc[s] = "gone"
  /\ upc'[s] \in ClosePhases <=> upc[s] \in ClosePhases

\* A step of socket s leaves every other socket as it was.
Frame(s) ==
  \A t \in Socks \ {s} :
    /\ state'[t] = state[t]
    /\ hashed'[t] = hashed[t]
    /\ destroyed'[t] = destroyed[t]
    /\ dead'[t] = dead[t]
    /\ upc'[t] = upc[t]
    /\ saved'[t] = saved[t]

\* DestroyInv(t) depends on socket t only, and on its phase only by class.
LEMMA DestroyInvLocal ==
  ASSUME NEW t, DestroyInv(t), SamePhaseClass(t),
         state'[t] = state[t], hashed'[t] = hashed[t],
         destroyed'[t] = destroyed[t], dead'[t] = dead[t], saved'[t] = saved[t]
  PROVE  DestroyInv(t)'
BY DEF DestroyInv, SamePhaseClass

\* tcp_nip_done on a socket that was not CLOSE keeps DestroyInv: it
\* destroys an orphan, which had not been destroyed, and close() had left
\* it open.
LEMMA DoneDestroy ==
  ASSUME TypeOK, NEW s \in Socks, DestroyInv(s), Done(s), state[s] # "CLOSE",
         SamePhaseClass(s), saved'[s] = saved[s], dead'[s] = dead[s]
  PROVE  DestroyInv(s)'
<1>1. destroyed[s] = 0
  BY DEF DestroyInv, TypeOK
<1>2. /\ state'[s] = "CLOSE"
      /\ hashed'[s] = "none"
      /\ destroyed'[s] = IF dead[s] THEN 1 ELSE 0
  BY <1>1 DEF Done, TypeOK
<1>3. upc[s] \in CloseWindow => saved[s] # "CLOSE"
  BY DEF DestroyInv
<1>4. QED
  BY <1>1, <1>2, <1>3 DEF DestroyInv, SamePhaseClass, ClosePhases, CloseWindow

\* tcp_nip_do_rcv keeps DestroyInv of the socket it runs on.
LEMMA DoRcvDestroy ==
  ASSUME TypeOK, NEW s \in Socks, NEW seg \in Segs, DestroyInv(s), DoRcv(s, seg),
         upc'[s] = upc[s], saved'[s] = saved[s], dead'[s] = dead[s]
  PROVE  DestroyInv(s)'
<1>1. SamePhaseClass(s)
  BY DEF SamePhaseClass
<1>2. CASE \E m \in RcvMoves : Applies(s, m, seg) /\ m.to = "CLOSE" /\ Done(s)
  <2>1. state[s] # "CLOSE"
    BY <1>2, RcvMovesType DEF Applies
  <2>2. QED
    BY <1>1, <1>2, <2>1, DoneDestroy
<1>3. CASE \E m \in RcvMoves :
             /\ Applies(s, m, seg)
             /\ m.to # "CLOSE"
             /\ state' = [state EXCEPT ![s] = m.to]
             /\ UNCHANGED <<hashed, timerPending, destroyed, unsent, unread>>
  <2>1. state[s] # "CLOSE" /\ state'[s] # "CLOSE"
    BY <1>3, RcvMovesType DEF Applies, TypeOK
  <2>2. destroyed[s] = 0
    BY <2>1 DEF DestroyInv, TypeOK
  <2>3. QED
    BY <1>3, <2>1, <2>2 DEF DestroyInv
<1>4. CASE UNCHANGED <<state, hashed, timerPending, destroyed, unsent>>
  BY <1>1, <1>4, DestroyInvLocal
<1>5. QED
  BY <1>2, <1>3, <1>4 DEF DoRcv

\* A user call ends in release_sock and leaves the destroy count alone.
LEMMA UserCallDestroy ==
  ASSUME TypeOK, NEW s \in Socks, DestroyInv(s), UserCall(s), EndCall(s),
         destroyed'[s] = destroyed[s], dead'[s] = dead[s],
         state'[s] = "CLOSE" => hashed'[s] = "none"
  PROVE  DestroyInv(s)'
<1>1. destroyed[s] = 0
  BY DEF UserCall, DestroyInv, TypeOK
<1>2. upc'[s] = "release"
  BY DEF EndCall, TypeOK
<1>3. QED
  BY <1>1, <1>2 DEF DestroyInv, UserCall, ClosePhases, CloseWindow

\* tcp_nip_close_state unhashes a socket it moves to CLOSE.
LEMMA CloseStateHashed ==
  ASSUME TypeOK, NEW s \in Socks, CloseState(s)
  PROVE  state'[s] = "CLOSE" => hashed'[s] = "none"
BY CloseNextType DEF CloseState, HashedAfter, TypeOK

LEMMA ConnectDestroy ==
  ASSUME TypeOK, NEW s \in Socks, DestroyInv(s), Connect(s)
  PROVE  DestroyInv(s)' /\ Frame(s)
<1>1. state'[s] = "CLOSE" => hashed'[s] = "none"
  <2> DEFINE iss(i) == IF writeSeq[s] = 0 THEN i ELSE writeSeq[s]
  <2>1. PICK isn \in SeqNum :
          \/ UNCHANGED <<state, hashed, writeSeq, connected, fins>>
          \/ ConnectLateFailure(s, iss(isn))
          \/ state' = [state EXCEPT ![s] = "SYN_SENT"]
    BY DEF Connect
  <2>2. CASE UNCHANGED <<state, hashed, writeSeq, connected, fins>>
    BY <2>2 DEF DestroyInv
  <2>3. CASE ConnectLateFailure(s, iss(isn))
    BY <2>3 DEF ConnectLateFailure, HashedAfter, TypeOK
  <2>4. CASE state' = [state EXCEPT ![s] = "SYN_SENT"]
    BY <2>4 DEF TypeOK
  <2>5. QED
    BY <2>1, <2>2, <2>3, <2>4
<1>2. DestroyInv(s)'
  BY <1>1, UserCallDestroy DEF Connect
<1>3. Frame(s)
  BY DEF Connect, ConnectLateFailure, EndCall, Frame, TypeOK
<1>4. QED
  BY <1>2, <1>3

LEMMA ListenDestroy ==
  ASSUME TypeOK, NEW s \in Socks, DestroyInv(s), Listen(s)
  PROVE  DestroyInv(s)' /\ Frame(s)
<1>1. DestroyInv(s)'
  BY UserCallDestroy DEF Listen, TypeOK
<1>2. Frame(s)
  BY DEF Listen, EndCall, Frame, TypeOK
<1>3. QED
  BY <1>1, <1>2

LEMMA ShutdownDestroy ==
  ASSUME TypeOK, NEW s \in Socks, DestroyInv(s), Shutdown(s)
  PROVE  DestroyInv(s)' /\ Frame(s)
<1>1. state'[s] = "CLOSE" => hashed'[s] = "none"
  BY CloseStateHashed DEF Shutdown, DestroyInv
<1>2. DestroyInv(s)'
  BY <1>1, UserCallDestroy DEF Shutdown
<1>3. Frame(s)
  BY DEF Shutdown, CloseState, EndCall, Frame, TypeOK
<1>4. QED
  BY <1>2, <1>3

(* close() orphans a socket that was not destroyed and saves the state it  *)
(* reached.                                                                 *)
LEMMA CloseDestroy ==
  ASSUME TypeOK, NEW s \in Socks, DestroyInv(s), Close(s)
  PROVE  DestroyInv(s)' /\ Frame(s)
<1>1. destroyed[s] = 0
  BY DEF Close, UserCall, DestroyInv, TypeOK
<1>2. state'[s] = "CLOSE" => hashed'[s] = "none"
  BY CloseStateHashed DEF Close, DestroyInv, TypeOK
<1>3. /\ saved'[s] = state'[s]
      /\ dead'[s]
      /\ upc'[s] = "closeRelease"
      /\ destroyed'[s] = destroyed[s]
  BY DEF Close, TypeOK
<1>4. DestroyInv(s)'
  <2>1. destroyed'[s] = 0
    BY <1>1, <1>3
  <2>2. saved'[s] = state'[s]
    BY <1>3
  <2>3. /\ destroyed'[s] \in {0, 1}
        /\ destroyed'[s] = 1 => dead'[s] /\ state'[s] = "CLOSE"
        /\ dead'[s] <=> upc'[s] \in ClosePhases
    BY <1>3, <2>1 DEF ClosePhases
  <2>4. /\ upc'[s] \in CloseWindow /\ saved'[s] = "CLOSE" =>
             state'[s] = "CLOSE" /\ destroyed'[s] = 0
        /\ upc'[s] \in CloseWindow /\ saved'[s] # "CLOSE" /\ state'[s] = "CLOSE" =>
             destroyed'[s] = 1
    BY <2>1, <2>2
  <2>5. upc'[s] = "gone" /\ state'[s] = "CLOSE" => destroyed'[s] = 1
    BY <1>3
  <2>6. QED
    BY <1>2, <2>3, <2>4, <2>5 DEF DestroyInv
<1>5. Frame(s)
  BY DEF Close, CloseState, Frame, TypeOK
<1>6. QED
  BY <1>4, <1>5

LEMMA DisconnectDestroy ==
  ASSUME TypeOK, NEW s \in Socks, DestroyInv(s), Disconnect(s)
  PROVE  DestroyInv(s)' /\ Frame(s)
<1>1. state'[s] = "CLOSE" => hashed'[s] = "none"
  BY DEF Disconnect, HashedAfter, TypeOK
<1>2. DestroyInv(s)'
  BY <1>1, UserCallDestroy DEF Disconnect
<1>3. Frame(s)
  BY DEF Disconnect, EndCall, Frame, TypeOK
<1>4. QED
  BY <1>2, <1>3

LEMMA SendmsgDestroy ==
  ASSUME TypeOK, NEW s \in Socks, DestroyInv(s), Sendmsg(s)
  PROVE  DestroyInv(s)' /\ Frame(s)
<1>1. DestroyInv(s)'
  BY UserCallDestroy DEF Sendmsg, DestroyInv
<1>2. Frame(s)
  BY DEF Sendmsg, EndCall, Frame, TypeOK
<1>3. QED
  BY <1>1, <1>2

(* recvmsg returns at once on a listener, and otherwise enters its loop:   *)
(* neither touches the lifecycle of the socket.                             *)
LEMMA RecvmsgDestroy ==
  ASSUME TypeOK, NEW s \in Socks, DestroyInv(s), Recvmsg(s)
  PROVE  DestroyInv(s)' /\ Frame(s)
<1>1. CASE state[s] = "LISTEN"
  <2>1. DestroyInv(s)'
    BY <1>1, UserCallDestroy DEF Recvmsg, DestroyInv
  <2>2. Frame(s)
    BY <1>1 DEF Recvmsg, EndCall, Frame, TypeOK
  <2>3. QED
    BY <2>1, <2>2
<1>2. CASE state[s] # "LISTEN"
  <2>1. destroyed[s] = 0 /\ ~dead[s]
    BY DEF Recvmsg, UserCall, DestroyInv, TypeOK
  <2>2. /\ upc'[s] = "recvLoop"
        /\ UNCHANGED <<state, hashed, saved, dead, destroyed>>
    BY <1>2 DEF Recvmsg, TypeOK
  <2>3. DestroyInv(s)'
    BY <2>1, <2>2 DEF DestroyInv, ClosePhases, CloseWindow
  <2>4. Frame(s)
    BY <1>2 DEF Recvmsg, Frame, TypeOK
  <2>5. QED
    BY <2>3, <2>4
<1>3. QED
  BY <1>1, <1>2

\* A pass of the recvmsg loop moves only between phases outside close.
LEMMA RecvLoopDestroy ==
  ASSUME TypeOK, NEW s \in Socks, DestroyInv(s), RecvLoop(s)
  PROVE  DestroyInv(s)' /\ Frame(s)
<1>1. upc'[s] \in {"recvLoop", "recvRelease", "release"}
  BY DEF RecvLoop, RecvBreak, TypeOK
<1>2. SamePhaseClass(s)
  BY <1>1 DEF RecvLoop, SamePhaseClass, ClosePhases, CloseWindow
<1>3. DestroyInv(s)'
  BY <1>2, DestroyInvLocal DEF RecvLoop
<1>4. Frame(s)
  BY DEF RecvLoop, RecvBreak, Frame, TypeOK
<1>5. QED
  BY <1>3, <1>4

LEMMA RecvRelockDestroy ==
  ASSUME TypeOK, NEW s \in Socks, DestroyInv(s), RecvRelock(s)
  PROVE  DestroyInv(s)' /\ Frame(s)
<1>1. SamePhaseClass(s)
  BY DEF RecvRelock, SamePhaseClass, ClosePhases, CloseWindow, TypeOK
<1>2. DestroyInv(s)'
  BY <1>1, DestroyInvLocal DEF RecvRelock
<1>3. Frame(s)
  BY DEF RecvRelock, Frame, TypeOK
<1>4. QED
  BY <1>2, <1>3

\* tcp_nip_done touches socket s only.
LEMMA DoneFrame ==
  ASSUME TypeOK, NEW s \in Socks, Done(s)
  PROVE  \A t \in Socks \ {s} :
           /\ state'[t] = state[t]
           /\ hashed'[t] = hashed[t]
           /\ destroyed'[t] = destroyed[t]
BY DEF Done, TypeOK

\* So does tcp_nip_do_rcv.
LEMMA DoRcvFrame ==
  ASSUME TypeOK, NEW s \in Socks, NEW seg \in Segs, DoRcv(s, seg)
  PROVE  \A t \in Socks \ {s} :
           /\ state'[t] = state[t]
           /\ hashed'[t] = hashed[t]
           /\ destroyed'[t] = destroyed[t]
<1>1. CASE \E m \in RcvMoves : Applies(s, m, seg) /\ m.to = "CLOSE" /\ Done(s)
  BY <1>1, DoneFrame
<1>2. CASE \E m \in RcvMoves :
             /\ Applies(s, m, seg)
             /\ m.to # "CLOSE"
             /\ state' = [state EXCEPT ![s] = m.to]
             /\ UNCHANGED <<hashed, timerPending, destroyed, unsent, unread>>
  BY <1>2 DEF TypeOK
<1>3. CASE UNCHANGED <<state, hashed, timerPending, destroyed, unsent>>
  BY <1>3
<1>4. QED
  BY <1>1, <1>2, <1>3 DEF DoRcv

LEMMA DrainDestroy ==
  ASSUME TypeOK, NEW s \in Socks, DestroyInv(s), Drain(s)
  PROVE  DestroyInv(s)' /\ Frame(s)
<1>1. Head(backlog[s]) \in Segs
  BY DEF Drain, TypeOK
<1>2. DestroyInv(s)'
  BY <1>1, DoRcvDestroy DEF Drain
<1>3. Frame(s)
  <2>1. \A t \in Socks \ {s} :
           /\ state'[t] = state[t]
           /\ hashed'[t] = hashed[t]
           /\ destroyed'[t] = destroyed[t]
    BY <1>1, DoRcvFrame DEF Drain
  <2>2. QED
    BY <2>1 DEF Drain, Frame, TypeOK
<1>4. QED
  BY <1>2, <1>3

(* release_sock: a deferred timer expiry is tcp_nip_done on a socket that   *)
(* was not CLOSE; the phase moves within its class.                         *)
LEMMA ReleaseDestroy ==
  ASSUME TypeOK, NEW s \in Socks, DestroyInv(s), Release(s)
  PROVE  DestroyInv(s)' /\ Frame(s)
<1>1. SamePhaseClass(s) /\ saved'[s] = saved[s] /\ dead'[s] = dead[s]
  <2>1. /\ upc[s] = "closeRelease" => upc'[s] = "closeTail"
        /\ upc[s] = "recvRelease" => upc'[s] = "recvWait"
        /\ upc[s] = "release" => upc'[s] = "idle"
    BY DEF Release, TypeOK
  <2>2. upc[s] \in ReleasePhases
    BY DEF Release
  <2>3. QED
    BY <2>1, <2>2 DEF Release, SamePhaseClass, CloseWindow, ClosePhases,
       ReleasePhases
<1>2. DestroyInv(s)'
  <2>1. CASE timerPending[s] /\ state[s] \in TimerStates /\ Done(s)
    <3>1. state[s] # "CLOSE"
      BY <2>1 DEF TimerStates
    <3>2. QED
      BY <1>1, <2>1, <3>1, DoneDestroy
  <2>2. CASE UNCHANGED <<state, hashed, destroyed, unsent, unread>>
    <3>1. /\ state'[s] = state[s]
          /\ hashed'[s] = hashed[s]
          /\ destroyed'[s] = destroyed[s]
      BY <2>2
    <3>2. QED
      BY <1>1, <3>1, DestroyInvLocal
  <2>3. QED
    BY <2>1, <2>2 DEF Release
<1>3. Frame(s)
  <2>1. \A t \in Socks \ {s} :
           /\ state'[t] = state[t]
           /\ hashed'[t] = hashed[t]
           /\ destroyed'[t] = destroyed[t]
    BY DoneFrame DEF Release
  <2>2. QED
    BY <2>1 DEF Release, Frame, TypeOK
<1>4. QED
  BY <1>2, <1>3

(* The tail of close(): it destroys a socket that close() itself left in   *)
(* CLOSE, which no one had destroyed, and leaves alone one that became     *)
(* CLOSE during release_sock, which tcp_nip_done destroyed.                *)
LEMMA CloseTailDestroy ==
  ASSUME TypeOK, NEW s \in Socks, DestroyInv(s), CloseTail(s)
  PROVE  DestroyInv(s)' /\ Frame(s)
<1>1. /\ upc[s] = "closeTail"
      /\ upc'[s] = "gone"
      /\ dead[s]
      /\ state'[s] = state[s]
      /\ hashed'[s] = hashed[s]
      /\ saved'[s] = saved[s]
      /\ dead'[s] = dead[s]
  BY DEF CloseTail, DestroyInv, ClosePhases, TypeOK
<1>2. DestroyInv(s)'
  <2>1. CASE CloseTailDestroys(s)
    <3>1. saved[s] = "CLOSE" /\ state[s] = "CLOSE" /\ destroyed[s] = 0
      BY <1>1, <2>1 DEF CloseTailDestroys, DestroyInv, CloseWindow
    <3>2. destroyed'[s] = 1
      BY <2>1, <3>1 DEF CloseTail, TypeOK
    <3>3. QED
      BY <1>1, <3>1, <3>2 DEF DestroyInv, ClosePhases, CloseWindow
  <2>2. CASE ~CloseTailDestroys(s)
    <3>1. state[s] = "CLOSE" => destroyed[s] = 1
      BY <1>1, <2>2 DEF CloseTailDestroys, DestroyInv, CloseWindow
    <3>2. destroyed'[s] = destroyed[s]
      BY <2>2 DEF CloseTail
    <3>3. QED
      BY <1>1, <3>1, <3>2 DEF DestroyInv, ClosePhases, CloseWindow
  <2>3. QED
    BY <2>1, <2>2
<1>3. Frame(s)
  BY DEF CloseTail, Frame, TypeOK
<1>4. QED
  BY <1>2, <1>3

LEMMA TimerExpireDestroy ==
  ASSUME TypeOK, NEW s \in Socks, DestroyInv(s), TimerExpire(s)
  PROVE  DestroyInv(s)' /\ Frame(s)
<1>1. /\ SamePhaseClass(s)
      /\ saved'[s] = saved[s]
      /\ dead'[s] = dead[s]
      /\ state[s] # "CLOSE"
  BY DEF TimerExpire, SamePhaseClass, TimerStates
<1>2. DestroyInv(s)'
  <2>1. CASE owned[s]
    <3>1. /\ state'[s] = state[s]
          /\ hashed'[s] = hashed[s]
          /\ destroyed'[s] = destroyed[s]
      BY <2>1 DEF TimerExpire
    <3>2. QED
      BY <1>1, <3>1, DestroyInvLocal
  <2>2. CASE ~owned[s]
    BY <1>1, <2>2, DoneDestroy DEF TimerExpire
  <2>3. QED
    BY <2>1, <2>2
<1>3. Frame(s)
  <2>1. \A t \in Socks \ {s} :
           /\ state'[t] = state[t]
           /\ hashed'[t] = hashed[t]
           /\ destroyed'[t] = destroyed[t]
    BY DoneFrame DEF TimerExpire
  <2>2. QED
    BY <2>1 DEF TimerExpire, Frame, TypeOK
<1>4. QED
  BY <1>2, <1>3

LEMMA TransmitDestroy ==
  ASSUME TypeOK, NEW s \in Socks, DestroyInv(s), Transmit(s)
  PROVE  DestroyInv(s)' /\ Frame(s)
<1>1. DestroyInv(s)'
  BY DestroyInvLocal DEF Transmit, SamePhaseClass
<1>2. Frame(s)
  BY DEF Transmit, Frame, TypeOK
<1>3. QED
  BY <1>1, <1>2

LEMMA RcvDestroy ==
  ASSUME TypeOK, NEW s \in Socks, NEW seg \in Segs, DestroyInv(s), Rcv(s, seg)
  PROVE  DestroyInv(s)' /\ Frame(s)
<1>1. /\ SamePhaseClass(s)
      /\ upc'[s] = upc[s]
      /\ saved'[s] = saved[s]
      /\ dead'[s] = dead[s]
  BY DEF Rcv, SamePhaseClass
<1>2. DestroyInv(s)'
  <2>1. CASE owned[s]
    <3>1. /\ state'[s] = state[s]
          /\ hashed'[s] = hashed[s]
          /\ destroyed'[s] = destroyed[s]
      BY <2>1 DEF Rcv
    <3>2. QED
      BY <1>1, <3>1, DestroyInvLocal
  <2>2. CASE ~owned[s]
    BY <1>1, <2>2, DoRcvDestroy DEF Rcv
  <2>3. QED
    BY <2>1, <2>2
<1>3. Frame(s)
  <2>1. \A t \in Socks \ {s} :
           /\ state'[t] = state[t]
           /\ hashed'[t] = hashed[t]
           /\ destroyed'[t] = destroyed[t]
    BY DoRcvFrame DEF Rcv
  <2>2. QED
    BY <2>1 DEF Rcv, Frame, TypeOK
<1>4. QED
  BY <1>2, <1>3

-----------------------------------------------------------------------------
\* A step of socket s that keeps its DestroyInv keeps every socket's.
LEMMA DestroyAll ==
  ASSUME NEW s \in Socks, \A t \in Socks : DestroyInv(t),
         DestroyInv(s)', Frame(s)
  PROVE  \A t \in Socks : DestroyInv(t)'
<1> SUFFICES ASSUME NEW t \in Socks, t # s PROVE DestroyInv(t)'
  OBVIOUS
<1>1. SamePhaseClass(t)
  BY DEF Frame, SamePhaseClass
<1>2. QED
  BY <1>1, DestroyInvLocal DEF Frame

LEMMA InitIInv == Init => IInv
<1> SUFFICES ASSUME Init PROVE IInv
  OBVIOUS
<1>1. TypeOK
  BY DEF Init, TypeOK, States, Phases, SeqNum, NoSeq, RecvRets
<1>2. ASSUME NEW s \in Socks PROVE DestroyInv(s)
  <2>1. /\ state[s] = "CLOSE" /\ hashed[s] = "none" /\ destroyed[s] = 0
        /\ dead[s] = FALSE /\ upc[s] = "idle"
    BY DEF Init
  <2>2. upc[s] \notin ClosePhases /\ upc[s] \notin CloseWindow
    BY <2>1 DEF ClosePhases, CloseWindow
  <2>3. QED
    BY <2>1, <2>2 DEF DestroyInv
<1>3. QED
  BY <1>1, <1>2 DEF IInv

LEMMA IInvInductive == IInv /\ [Next]_vars => IInv'
<1> SUFFICES ASSUME IInv, [Next]_vars PROVE IInv'
  OBVIOUS
<1>1. TypeOK'
  BY TypeStep DEF IInv
<1> USE DEF IInv
<1>2. ASSUME NEW s \in Socks, DestroyInv(s)' /\ Frame(s)
      PROVE  \A t \in Socks : DestroyInv(t)'
  BY <1>2, DestroyAll
<1>3. CASE Next
  <2>1. PICK s \in Socks :
          \/ Connect(s) \/ Listen(s) \/ Shutdown(s) \/ Close(s)
          \/ Disconnect(s) \/ Sendmsg(s) \/ Recvmsg(s) \/ RecvLoop(s)
          \/ RecvRelock(s) \/ Drain(s)
          \/ Release(s) \/ CloseTail(s) \/ TimerExpire(s) \/ Transmit(s)
          \/ \E seg \in Segs : Rcv(s, seg)
    BY <1>3 DEF Next
  <2>2. DestroyInv(s)
    OBVIOUS
  <2>3. DestroyInv(s)' /\ Frame(s)
    <3>1. CASE Connect(s)
      BY <2>2, <3>1, ConnectDestroy
    <3>2. CASE Listen(s)
      BY <2>2, <3>2, ListenDestroy
    <3>3. CASE Shutdown(s)
      BY <2>2, <3>3, ShutdownDestroy
    <3>4. CASE Close(s)
      BY <2>2, <3>4, CloseDestroy
    <3>5. CASE Disconnect(s)
      BY <2>2, <3>5, DisconnectDestroy
    <3>6. CASE Sendmsg(s)
      BY <2>2, <3>6, SendmsgDestroy
    <3>7. CASE Recvmsg(s)
      BY <2>2, <3>7, RecvmsgDestroy
    <3>8. CASE Drain(s)
      BY <2>2, <3>8, DrainDestroy
    <3>9. CASE Release(s)
      BY <2>2, <3>9, ReleaseDestroy
    <3>10. CASE CloseTail(s)
      BY <2>2, <3>10, CloseTailDestroy
    <3>11. CASE TimerExpire(s)
      BY <2>2, <3>11, TimerExpireDestroy
    <3>12. CASE Transmit(s)
      BY <2>2, <3>12, TransmitDestroy
    <3>13. CASE \E seg \in Segs : Rcv(s, seg)
      BY <2>2, <3>13, RcvDestroy
    <3>14. CASE RecvLoop(s)
      BY <2>2, <3>14, RecvLoopDestroy
    <3>15. CASE RecvRelock(s)
      BY <2>2, <3>15, RecvRelockDestroy
    <3>16. QED
      BY <2>1, <3>1, <3>2, <3>3, <3>4, <3>5, <3>6, <3>7, <3>8, <3>9, <3>10,
         <3>11, <3>12, <3>13, <3>14, <3>15
  <2>4. QED
    BY <1>1, <1>2, <2>3
<1>4. CASE UNCHANGED vars
  <2>1. ASSUME NEW t \in Socks PROVE DestroyInv(t)'
    <3>1. SamePhaseClass(t)
      BY <1>4 DEF vars, SamePhaseClass
    <3>2. QED
      BY <1>4, <3>1, DestroyInvLocal DEF vars
  <2>2. QED
    BY <1>1, <2>1
<1>5. QED
  BY <1>3, <1>4

(* DestroyExactlyOnce for every number of sockets and every backlog bound:  *)
(* tcp_nip_close, tcp_nip_done from the backlog, a deferred timer or a     *)
(* segment, and the destroy test after release_sock never destroy a socket *)
(* twice, and every closed orphan whose close() returned was destroyed.    *)
THEOREM DestroyExactlyOnceThm == Spec => []DestroyExactlyOnce
<1>1. IInv => DestroyExactlyOnce
  <2> SUFFICES ASSUME IInv, NEW s \in Socks
               PROVE  /\ destroyed[s] <= 1
                      /\ (dead[s] /\ state[s] = "CLOSE" /\ upc[s] = "gone")
                           => destroyed[s] = 1
    BY DEF DestroyExactlyOnce
  <2>1. DestroyInv(s)
    BY DEF IInv
  <2>2. destroyed[s] <= 1
    BY <2>1 DEF DestroyInv
  <2>3. QED
    BY <2>1, <2>2 DEF DestroyInv
<1>2. QED
  BY <1>1, InitIInv, IInvInductive, PTL DEF Spec

(* ClosedUnhashed: whichever path closed a socket (tcp_nip_done, the close *)
(* table, an abort, disconnect, or the late_failure of tcp_nip_connect     *)
(* after ninet_hash_connect), it is in no hash table, for every instance.  *)
(* The conjunct of DestroyInv that keeps segments from a CLOSE socket.     *)
THEOREM ClosedUnhashedThm == Spec => []ClosedUnhashed
<1>1. IInv => ClosedUnhashed
  BY DEF IInv, DestroyInv, ClosedUnhashed
<1>2. QED
  BY <1>1, InitIInv, IInvInductive, PTL DEF Spec
=============
