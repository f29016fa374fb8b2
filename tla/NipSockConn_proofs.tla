-------------------------- MODULE NipSockConn_proofs --------------------------
(***************************************************************************)
(* Proofs about the connection of a NewIP socket, for every set of sockets *)
(* and every bound: the close table queues at most one FIN per connection  *)
(* (AtMostOneFin), and a connect after tcp_nip_disconnect starts beyond    *)
(* the old window, including when write_seq + max_window + 2 wraps to 0    *)
(* (ReconnectBeyondOldWindow).                                              *)
(*                                                                         *)
(* Neither is inductive.  ConnInv strengthens them per socket: a FIN has  *)
(* been queued only in a state past the close table's FIN entries; an     *)
(* unconnected socket is CLOSE or LISTEN and still holds the write_seq    *)
(* that disconnect chose.  Every action acts on one socket (ConnFrame).    *)
(***************************************************************************)
EXTENDS NipSock_proofs

\* States from which the close table, or a segment leading to them, can
\* still queue a FIN: SYN_SENT leads to ESTABLISHED.
PreFin == CloseFin \cup {"SYN_SENT"}

\* The per-socket strengthening of AtMostOneFin and ReconnectBeyondOldWindow.
ConnInv(s) ==
  /\ fins[s] \in {0, 1}
  /\ fins[s] = 1 => state[s] \notin PreFin
  /\ ~connected[s] => state[s] \in {"CLOSE", "LISTEN"}
  /\ ~connected[s] /\ discSeq[s] # NoSeq =>
       writeSeq[s] = DisconnectSeq(discSeq[s])

\* The inductive invariant.
CInv == TypeOK /\ \A s \in Socks : ConnInv(s)

\* Sockets other than s keep the variables ConnInv speaks of.
ConnFrame(s) ==
  \A t \in Socks \ {s} :
    /\ state'[t] = state[t] /\ fins'[t] = fins[t]
    /\ connected'[t] = connected[t] /\ discSeq'[t] = discSeq[t]
    /\ writeSeq'[t] = writeSeq[t]

\* The step is allowed by ReconnectBeyondOldWindow on socket s.
RecStep(s) ==
  (state[s] = "CLOSE" /\ state'[s] = "SYN_SENT" /\ discSeq[s] # NoSeq)
    => SeqDist(discSeq[s], (writeSeq'[s] + SeqMod - 1) % SeqMod) > MaxWindow

\* A step of socket s keeps ConnInv, is allowed, and touches no other socket.
ConnOk(s) == ConnInv(s)' /\ RecStep(s) /\ ConnFrame(s)
-----------------------------------------------------------------------------
(* Lemmas about the close table, the segment moves and the sequence space. *)

\* No entry of the close table leads back to a state that queues a FIN.
LEMMA CloseNextPastFin == \A st \in States : CloseNext[st] \notin PreFin
BY DEF CloseNext, States, PreFin, CloseFin

\* A segment never moves a CLOSE or LISTEN socket, and reaches a state that
\* can queue a FIN only from another such state.
LEMMA RcvMovesFin ==
  \A m \in RcvMoves :
    /\ m.from \notin {"CLOSE", "LISTEN"}
    /\ m.to \in PreFin => m.from \in PreFin
    /\ m.to # "SYN_SENT"
BY DEF RcvMoves, PreFin, CloseFin

\* Moving n past max_window + 2 in a sequence space of m values, with the
\* wrap to 0 replaced by 1, leaves a distance above max_window: plain
\* integer arithmetic, one case for no wrap, a wrap to 0 and a wrap past 0.
LEMMA WrapDist ==
  ASSUME NEW m \in Nat \ {0}, NEW w \in Nat, w + 3 < m, NEW d \in 0 .. m - 1
  PROVE  LET n == (d + w + 2) % m
             r == IF n = 0 THEN 1 ELSE n
         IN  (r - d) % m > w
<1>1. CASE d + w + 2 < m
  <2>1. (d + w + 2) % m = d + w + 2
    BY <1>1, Z3
  <2>2. (w + 2) % m = w + 2
    BY Z3
  <2>3. QED
    BY <1>1, <2>1, <2>2
<1>2. CASE d + w + 2 = m
  <2>1. (d + w + 2) % m = 0
    BY <1>2, Z3
  <2>2. 1 - d = w + 3 - m
    BY <1>2
  <2>3. (w + 3 - m) % m = w + 3
    BY Z3
  <2>4. QED
    BY <2>1, <2>2, <2>3
<1>3. CASE d + w + 2 > m
  <2>1. (d + w + 2) % m = d + w + 2 - m
    BY <1>3, Z3
  <2>2. (d + w + 2 - m) - d = w + 2 - m
    OBVIOUS
  <2>3. (w + 2 - m) % m = w + 2
    BY Z3
  <2>4. QED
    BY <1>3, <2>1, <2>2, <2>3
<1>4. QED
  BY <1>1, <1>2, <1>3

\* The write_seq tcp_nip_disconnect picks lies more than max_window beyond
\* the old one, modulo the u32 sequence space, whether or not it wrapped.
LEMMA DisconnectSeqDist ==
  ASSUME NEW d \in SeqNum
  PROVE  SeqDist(d, DisconnectSeq(d)) > MaxWindow
BY SeqModAssumption, MaxWindowAssumption, WrapDist
   DEF SeqDist, DisconnectSeq, SeqNum

\* Stepping write_seq forward by one and back by one returns it.
LEMMA SeqPrev ==
  ASSUME NEW w \in SeqNum
  PROVE  (((w + 1) % SeqMod) + SeqMod - 1) % SeqMod = w
<1>1. w \in Int /\ 0 <= w /\ w < SeqMod /\ SeqMod \in Nat \ {0}
  BY SeqModAssumption DEF SeqNum
<1>2. CASE w + 1 < SeqMod
  <2>1. (w + 1) % SeqMod = w + 1
    BY <1>1, <1>2, Z3
  <2>2. (w + 1 + SeqMod - 1) % SeqMod = w
    BY <1>1, Z3
  <2>3. QED
    BY <2>1, <2>2
<1>3. CASE w + 1 = SeqMod
  <2>1. (w + 1) % SeqMod = 0
    BY <1>1, <1>3, Z3
  <2>2. (0 + SeqMod - 1) % SeqMod = w
    BY <1>1, <1>3, Z3
  <2>3. QED
    BY <2>1, <2>2
<1>4. QED
  BY <1>1, <1>2, <1>3
-----------------------------------------------------------------------------
(* Shapes of step shared by several actions.                                *)

\* A step that leaves the connection variables of s alone.
LEMMA ConnQuiet ==
  ASSUME TypeOK, NEW s \in Socks, ConnInv(s),
         UNCHANGED <<state, fins, connected, discSeq, writeSeq>>
  PROVE  ConnOk(s)
BY DEF ConnOk, ConnInv, RecStep, ConnFrame

\* tcp_nip_done, or a segment moving the state: the connection, the FIN
\* count and write_seq stay.
LEMMA StateOnlyConn ==
  ASSUME TypeOK, NEW s \in Socks, ConnInv(s),
         UNCHANGED <<fins, connected, discSeq, writeSeq>>,
         NEW ns, state' = [state EXCEPT ![s] = ns],
         \/ ns = "CLOSE"
         \/ \E m \in RcvMoves : m.from = state[s] /\ m.to = ns
  PROVE  ConnOk(s)
<1>1. ConnFrame(s)
  BY DEF ConnFrame, TypeOK
<1>2. state'[s] = ns
  BY DEF TypeOK
<1>3. CASE ns = "CLOSE"
  <2>1. ConnInv(s)'
    BY <1>2, <1>3 DEF ConnInv, PreFin, CloseFin
  <2>2. RecStep(s)
    BY <1>2, <1>3 DEF RecStep
  <2>3. QED
    BY <1>1, <2>1, <2>2 DEF ConnOk
<1>4. CASE \E m \in RcvMoves : m.from = state[s] /\ m.to = ns
  <2>1. PICK m \in RcvMoves : m.from = state[s] /\ m.to = ns
    BY <1>4
  <2>2. /\ state[s] \notin {"CLOSE", "LISTEN"}
        /\ ns \in PreFin => state[s] \in PreFin
        /\ ns # "SYN_SENT"
    BY <2>1, RcvMovesFin
  <2>3. ConnInv(s)'
    BY <1>2, <2>2 DEF ConnInv
  <2>4. RecStep(s)
    BY <1>2, <2>2 DEF RecStep
  <2>5. QED
    BY <1>1, <2>3, <2>4 DEF ConnOk
<1>5. QED
  BY <1>3, <1>4

\* tcp_nip_done keeps ConnInv.
LEMMA DoneConn ==
  ASSUME TypeOK, NEW s \in Socks, ConnInv(s), Done(s),
         UNCHANGED <<fins, connected, discSeq, writeSeq>>
  PROVE  ConnOk(s)
BY StateOnlyConn DEF Done

\* tcp_nip_rcv_state_process on a segment keeps ConnInv.
LEMMA DoRcvConn ==
  ASSUME TypeOK, NEW s \in Socks, ConnInv(s), NEW seg, DoRcv(s, seg),
         UNCHANGED <<fins, connected, discSeq, writeSeq>>
  PROVE  ConnOk(s)
<1>1. CASE \E m \in RcvMoves : Applies(s, m, seg) /\
             IF m.to = "CLOSE"
               THEN Done(s)
               ELSE /\ state' = [state EXCEPT ![s] = m.to]
                    /\ rcvShut' = [rcvShut EXCEPT ![s] = @ \/ seg = "FIN"]
                    /\ UNCHANGED <<hashed, timerPending, destroyed, unsent,
                                   unread>>
  <2>1. PICK m \in RcvMoves : /\ m.from = state[s]
                              /\ IF m.to = "CLOSE"
                                   THEN Done(s)
                                   ELSE state' = [state EXCEPT ![s] = m.to]
    BY <1>1 DEF Applies
  <2>2. CASE m.to = "CLOSE"
    BY <2>1, <2>2, DoneConn
  <2>3. CASE m.to # "CLOSE"
    BY <2>1, <2>3, StateOnlyConn
  <2>4. QED
    BY <2>2, <2>3
<1>2. CASE UNCHANGED state
  BY <1>2, ConnQuiet
<1>3. QED
  BY <1>1, <1>2 DEF DoRcv

\* The close table on a connected socket: a FIN is queued only from a
\* state that has queued none, and the state reached queues no other.
LEMMA CloseStateConn ==
  ASSUME TypeOK, NEW s \in Socks, ConnInv(s), connected[s], CloseState(s),
         UNCHANGED <<connected, discSeq>>
  PROVE  ConnOk(s)
<1>1. /\ state'[s] = CloseNext[state[s]]
      /\ state'[s] \notin PreFin
  BY CloseNextPastFin DEF CloseState, TypeOK
<1>2. ConnFrame(s)
  BY DEF CloseState, ConnFrame, TypeOK
<1>3. fins'[s] \in {0, 1}
  <2>1. CASE state[s] \in CloseFin
    <3>1. fins[s] = 0
      BY <2>1 DEF ConnInv, PreFin
    <3>2. QED
      BY <2>1, <3>1 DEF CloseState, TypeOK
  <2>2. CASE state[s] \notin CloseFin
    BY <2>2 DEF CloseState, ConnInv
  <2>3. QED
    BY <2>1, <2>2
<1>4. ConnInv(s)'
  BY <1>1, <1>3 DEF ConnInv
<1>5. RecStep(s)
  BY <1>1 DEF RecStep, PreFin
<1>6. QED
  BY <1>2, <1>4, <1>5 DEF ConnOk
-----------------------------------------------------------------------------
(* The user calls.                                                          *)

\* An unconnected socket that has disconnected holds a non-zero write_seq,
\* so tcp_nip_connect keeps it rather than choosing a secure ISN.
LEMMA DisconnectedSeq ==
  ASSUME TypeOK, NEW s \in Socks, ConnInv(s), ~connected[s],
         discSeq[s] # NoSeq
  PROVE  /\ writeSeq[s] = DisconnectSeq(discSeq[s])
         /\ writeSeq[s] # 0
<1>1. discSeq[s] \in SeqNum
  BY DEF TypeOK
<1>2. QED
  BY <1>1, SeqArith DEF ConnInv

\* tcp_nip_connect, in each of its outcomes, keeps ConnInv; its SYN goes
\* beyond the window the last disconnect left.
LEMMA ConnectConn ==
  ASSUME TypeOK, NEW s \in Socks, ConnInv(s), Connect(s)
  PROVE  ConnOk(s)
<1>1. /\ state[s] = "CLOSE" /\ ~connected[s]
      /\ UNCHANGED discSeq
  BY DEF Connect
<1>2. PICK isn \in SeqNum :
        LET iss == IF writeSeq[s] = 0 THEN isn ELSE writeSeq[s] IN
        \/ UNCHANGED <<state, hashed, writeSeq, connected, fins>>
        \/ ConnectLateFailure(s, iss)
        \/ /\ writeSeq' = [writeSeq EXCEPT ![s] = (iss + 1) % SeqMod]
           /\ state' = [state EXCEPT ![s] = "SYN_SENT"]
           /\ hashed' = [hashed EXCEPT ![s] = "ehash"]
           /\ connected' = [connected EXCEPT ![s] = TRUE]
           /\ fins' = [fins EXCEPT ![s] = 0]
  BY DEF Connect
<1> DEFINE iss == IF writeSeq[s] = 0 THEN isn ELSE writeSeq[s]
<1>3. iss \in SeqNum
  BY DEF TypeOK
<1>4. discSeq[s] # NoSeq => iss = DisconnectSeq(discSeq[s])
  BY <1>1, DisconnectedSeq
<1>5. CASE UNCHANGED <<state, hashed, writeSeq, connected, fins>>
  BY <1>1, <1>5, ConnQuiet
<1>6. CASE ConnectLateFailure(s, iss)
  <2>1. discSeq[s] # NoSeq => writeSeq'[s] = writeSeq[s]
    BY <1>1, <1>6, DisconnectedSeq DEF ConnectLateFailure, TypeOK
  <2>2. ConnInv(s)'
    BY <1>1, <1>6, <2>1 DEF ConnectLateFailure, ConnInv
  <2>3. RecStep(s)
    BY <1>6 DEF ConnectLateFailure, RecStep
  <2>4. ConnFrame(s)
    BY <1>1, <1>6 DEF ConnectLateFailure, ConnFrame, TypeOK
  <2>5. QED
    BY <2>2, <2>3, <2>4 DEF ConnOk
<1>7. CASE /\ writeSeq' = [writeSeq EXCEPT ![s] = (iss + 1) % SeqMod]
           /\ state' = [state EXCEPT ![s] = "SYN_SENT"]
           /\ connected' = [connected EXCEPT ![s] = TRUE]
           /\ fins' = [fins EXCEPT ![s] = 0]
  <2>1. /\ writeSeq'[s] = (iss + 1) % SeqMod
        /\ state'[s] = "SYN_SENT"
        /\ connected'[s]
        /\ fins'[s] = 0
    BY <1>7 DEF TypeOK
  <2>2. ConnInv(s)'
    BY <2>1 DEF ConnInv
  <2>3. (writeSeq'[s] + SeqMod - 1) % SeqMod = iss
    BY <1>3, <2>1, SeqPrev
  <2>4. RecStep(s)
    <3>1. discSeq[s] \in SeqNum \/ discSeq[s] = NoSeq
      BY DEF TypeOK
    <3>2. discSeq[s] # NoSeq => SeqDist(discSeq[s], iss) > MaxWindow
      BY <1>4, <3>1, DisconnectSeqDist
    <3>3. QED
      BY <2>3, <3>2 DEF RecStep
  <2>5. ConnFrame(s)
    BY <1>1, <1>7 DEF ConnFrame, TypeOK
  <2>6. QED
    BY <2>2, <2>4, <2>5 DEF ConnOk
<1>8. QED
  BY <1>2, <1>5, <1>6, <1>7

\* inet_listen keeps ConnInv.
LEMMA ListenConn ==
  ASSUME TypeOK, NEW s \in Socks, ConnInv(s), Listen(s)
  PROVE  ConnOk(s)
BY DEF Listen, ConnOk, ConnInv, RecStep, ConnFrame, TypeOK, PreFin, CloseFin

\* A socket in a state of the close table that queues a FIN is connected.
LEMMA FinStateConnected ==
  ASSUME NEW s \in Socks, ConnInv(s), state[s] \notin {"CLOSE", "LISTEN"}
  PROVE  connected[s]
BY DEF ConnInv

\* tcp_nip_shutdown keeps ConnInv.
LEMMA ShutdownConn ==
  ASSUME TypeOK, NEW s \in Socks, ConnInv(s), Shutdown(s)
  PROVE  ConnOk(s)
<1>1. UNCHANGED <<connected, discSeq>>
  BY DEF Shutdown
<1>2. CASE state[s] \in {"ESTABLISHED", "SYN_SENT", "SYN_RECV", "CLOSE_WAIT"}
  <2>1. connected[s]
    BY <1>2, FinStateConnected
  <2>2. CloseState(s)
    BY <1>2 DEF Shutdown
  <2>3. QED
    BY <1>1, <2>1, <2>2, CloseStateConn
<1>3. CASE state[s] \notin {"ESTABLISHED", "SYN_SENT", "SYN_RECV", "CLOSE_WAIT"}
  BY <1>1, <1>3, ConnQuiet DEF Shutdown
<1>4. QED
  BY <1>2, <1>3

\* tcp_nip_close, in each of its four branches, keeps ConnInv.
LEMMA CloseConn ==
  ASSUME TypeOK, NEW s \in Socks, ConnInv(s), Close(s)
  PROVE  ConnOk(s)
<1>1. UNCHANGED <<connected, discSeq>>
  BY DEF Close
<1>2. CASE state[s] = "LISTEN"
  <2>1. /\ state' = [state EXCEPT ![s] = "CLOSE"]
        /\ UNCHANGED <<fins, writeSeq>>
    BY <1>2 DEF Close
  <2>2. QED
    BY <1>1, <2>1, StateOnlyConn
<1>3. CASE state[s] = "CLOSE"
  <2>1. UNCHANGED <<state, fins, writeSeq>>
    BY <1>3 DEF Close
  <2>2. QED
    BY <1>1, <2>1, ConnQuiet
<1>4. CASE state[s] \notin {"LISTEN", "CLOSE"} /\ unread[s]
  <2>1. /\ state' = [state EXCEPT ![s] = "CLOSE"]
        /\ UNCHANGED <<fins, writeSeq>>
    BY <1>4 DEF Close
  <2>2. QED
    BY <1>1, <2>1, StateOnlyConn
<1>5. CASE state[s] \notin {"LISTEN", "CLOSE"} /\ ~unread[s]
  <2>1. connected[s]
    BY <1>5, FinStateConnected
  <2>2. CloseState(s)
    BY <1>5 DEF Close
  <2>3. QED
    BY <1>1, <2>1, <2>2, CloseStateConn
<1>6. QED
  BY <1>2, <1>3, <1>4, <1>5

\* tcp_nip_disconnect records the write_seq it leaves behind in discSeq and
\* marks the socket unconnected: the last conjunct of ConnInv is set up.
LEMMA DisconnectConn ==
  ASSUME TypeOK, NEW s \in Socks, ConnInv(s), Disconnect(s)
  PROVE  ConnOk(s)
<1>1. /\ state'[s] = "CLOSE"
      /\ ~connected'[s]
      /\ discSeq'[s] = writeSeq[s]
      /\ writeSeq'[s] = DisconnectSeq(writeSeq[s])
      /\ fins'[s] = fins[s]
  BY DEF Disconnect, TypeOK
<1>2. ConnInv(s)'
  BY <1>1 DEF ConnInv, TypeOK, SeqNum, NoSeq, PreFin, CloseFin
<1>3. RecStep(s)
  BY <1>1 DEF RecStep
<1>4. ConnFrame(s)
  BY DEF Disconnect, ConnFrame, TypeOK
<1>5. QED
  BY <1>2, <1>3, <1>4 DEF ConnOk

\* tcp_nip_sendmsg advances write_seq only on a connected socket.
LEMMA SendmsgConn ==
  ASSUME TypeOK, NEW s \in Socks, ConnInv(s), Sendmsg(s)
  PROVE  ConnOk(s)
<1>1. connected[s]
  BY FinStateConnected DEF Sendmsg
<1>2. QED
  BY <1>1 DEF Sendmsg, ConnOk, ConnInv, RecStep, ConnFrame, TypeOK
-----------------------------------------------------------------------------
(* The receive loop, the backlog, the timers and the softirq.               *)

\* recvmsg, the close tail and transmission leave the connection alone.
LEMMA RecvConn ==
  ASSUME TypeOK, NEW s \in Socks, ConnInv(s),
         Recvmsg(s) \/ RecvLoop(s) \/ RecvRelock(s) \/ CloseTail(s)
           \/ Transmit(s)
  PROVE  ConnOk(s)
<1>1. UNCHANGED <<state, fins, connected, discSeq, writeSeq>>
  BY DEF Recvmsg, RecvLoop, RecvRelock, CloseTail, Transmit
<1>2. QED
  BY <1>1, ConnQuiet

\* release_sock processing a backlogged segment keeps ConnInv.
LEMMA DrainConn ==
  ASSUME TypeOK, NEW s \in Socks, ConnInv(s), Drain(s)
  PROVE  ConnOk(s)
BY DoRcvConn DEF Drain

\* The end of release_sock, with a deferred timer, keeps ConnInv.
LEMMA ReleaseConn ==
  ASSUME TypeOK, NEW s \in Socks, ConnInv(s), Release(s)
  PROVE  ConnOk(s)
<1>1. UNCHANGED <<fins, connected, discSeq, writeSeq>>
  BY DEF Release
<1>2. CASE Done(s)
  BY <1>1, <1>2, DoneConn
<1>3. CASE UNCHANGED state
  BY <1>1, <1>3, ConnQuiet
<1>4. QED
  BY <1>2, <1>3 DEF Release

\* A timer ending the connection keeps ConnInv.
LEMMA TimerExpireConn ==
  ASSUME TypeOK, NEW s \in Socks, ConnInv(s), TimerExpire(s)
  PROVE  ConnOk(s)
<1>1. UNCHANGED <<fins, connected, discSeq, writeSeq>>
  BY DEF TimerExpire
<1>2. CASE Done(s)
  BY <1>1, <1>2, DoneConn
<1>3. CASE UNCHANGED state
  BY <1>1, <1>3, ConnQuiet
<1>4. QED
  BY <1>2, <1>3 DEF TimerExpire

\* tcp_nip_rcv, inline or onto the backlog, keeps ConnInv.
LEMMA RcvConn ==
  ASSUME TypeOK, NEW s \in Socks, ConnInv(s), NEW seg \in Segs, Rcv(s, seg)
  PROVE  ConnOk(s)
<1>1. UNCHANGED <<fins, connected, discSeq, writeSeq>>
  BY DEF Rcv
<1>2. CASE DoRcv(s, seg)
  BY <1>1, <1>2, DoRcvConn
<1>3. CASE UNCHANGED state
  BY <1>1, <1>3, ConnQuiet
<1>4. QED
  BY <1>2, <1>3 DEF Rcv
-----------------------------------------------------------------------------
(* The inductive step and the theorems.                                     *)

\* A socket the step leaves alone keeps ConnInv, and the step does not
\* reconnect it.
LEMMA ConnLocal ==
  ASSUME NEW s \in Socks, NEW t \in Socks \ {s}, ConnInv(t), ConnFrame(s)
  PROVE  ConnInv(t)' /\ RecStep(t)
BY DEF ConnFrame, ConnInv, RecStep

\* Every step keeps ConnInv on every socket and is a step that
\* ReconnectBeyondOldWindow allows.
LEMMA NextConn ==
  ASSUME TypeOK, \A t \in Socks : ConnInv(t), [Next]_vars
  PROVE  \A t \in Socks : ConnInv(t)' /\ RecStep(t)
<1>1. CASE UNCHANGED vars
  BY <1>1 DEF vars, ConnInv, RecStep
<1>2. CASE Next
  <2>1. PICK s \in Socks :
          \/ Connect(s) \/ Listen(s) \/ Shutdown(s) \/ Close(s)
          \/ Disconnect(s) \/ Sendmsg(s) \/ Recvmsg(s) \/ RecvLoop(s)
          \/ RecvRelock(s) \/ Drain(s) \/ Release(s) \/ CloseTail(s)
          \/ TimerExpire(s) \/ Transmit(s) \/ \E seg \in Segs : Rcv(s, seg)
    BY <1>2 DEF Next
  <2>2. ConnInv(s)
    OBVIOUS
  <2>3. ConnOk(s)
    BY <2>1, <2>2, ConnectConn, ListenConn, ShutdownConn, CloseConn,
       DisconnectConn, SendmsgConn, RecvConn, DrainConn, ReleaseConn,
       TimerExpireConn, RcvConn
  <2>4. QED
    BY <2>3, ConnLocal DEF ConnOk
<1>3. QED
  BY <1>1, <1>2

\* Initially every socket is CLOSE, unconnected, has queued no FIN and has
\* never disconnected.
LEMMA InitCInv == Init => CInv
<1> SUFFICES ASSUME Init PROVE CInv
  OBVIOUS
<1>1. TypeOK
  BY BacklogLimitAssumption, SeqModAssumption, MaxWindowAssumption,
     MaxConnectsAssumption, RecvLenAssumption
     DEF Init, TypeOK, States, Phases, SeqNum, NoSeq, RecvRets
<1>2. ASSUME NEW s \in Socks PROVE ConnInv(s)
  <2>1. /\ fins[s] = 0 /\ ~connected[s] /\ state[s] = "CLOSE"
        /\ discSeq[s] = NoSeq
    BY DEF Init
  <2>2. QED
    BY <2>1 DEF ConnInv
<1>3. QED
  BY <1>1, <1>2 DEF CInv

\* CInv is inductive.
LEMMA CInvInductive == CInv /\ [Next]_vars => CInv'
BY TypeStep, NextConn DEF CInv

(* AtMostOneFin: tcp_nip_close_state sends at most one FIN per connection  *)
(* (tcp_nip_send_fin from ESTABLISHED, SYN_RECV or CLOSE_WAIT), whatever   *)
(* mix of shutdown, close, segments and timers drives the socket, and for *)
(* every number of sockets and every bound.                                *)
THEOREM AtMostOneFinThm == Spec => []AtMostOneFin
<1>1. CInv => AtMostOneFin
  <2> SUFFICES ASSUME CInv, NEW s \in Socks PROVE fins[s] <= 1
    BY DEF AtMostOneFin
  <2>1. fins[s] \in {0, 1}
    BY DEF CInv, ConnInv
  <2>2. QED
    BY <2>1
<1>2. QED
  BY InitCInv, CInvInductive, <1>1, PTL DEF Spec

(* ReconnectBeyondOldWindow: the SYN of a connect that follows             *)
(* tcp_nip_disconnect carries a sequence number more than max_window past *)
(* the write_seq the old connection reached, in the u32 sequence space,   *)
(* including when write_seq + max_window + 2 wraps past 0.                 *)
THEOREM ReconnectThm == Spec => ReconnectBeyondOldWindow
<1>1. CInv /\ [Next]_vars => [\A s \in Socks : RecStep(s)]_vars
  BY NextConn DEF CInv
<1>2. QED
  BY InitCInv, CInvInductive, <1>1, PTL DEF Spec, ReconnectBeyondOldWindow,
     RecStep
====
