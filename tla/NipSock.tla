------------------------------- MODULE NipSock -------------------------------
(***************************************************************************)
(* Lifecycle of NewIP TCP sockets (tcp_nip.c): the user-context calls      *)
(* connect, listen, shutdown, close, disconnect, sendmsg and recvmsg, each *)
(* run under the socket owner lock (lock_sock), and the softirq receive    *)
(* path tcp_nip_rcv, which processes a segment inline when the owner lock  *)
(* is free and otherwise appends it to the bounded backlog that the owner  *)
(* drains in release_sock.  tcp_nip_done moves a socket to CLOSE and, for  *)
(* an orphaned (SOCK_DEAD) socket, destroys it; tcp_nip_close destroys it  *)
(* itself unless the backlog or a timer already did.                       *)
(*                                                                         *)
(* Data is abstracted to flags: unread (the receive queue holds data),    *)
(* unsent (snd_nxt # write_seq: queued data or FIN not yet transmitted).   *)
(* Segments from the peer are the kinds in Segs and may arrive at any time *)
(* (lost, duplicated and reordered segments are all covered).  The effect *)
(* of a segment in a state (tcp_nip_rcv_state_process, in tcp_nip_input.c *)
(* which is not part of the reviewed source) is modelled from the spec.    *)
(***************************************************************************)
EXTENDS Integers, Sequences

CONSTANTS
  Socks,         \* the sockets (model values)
  BacklogLimit,  \* segments that fit in sk_backlog (rcvbuf + sndbuf + 64K)
  SeqMod,        \* modulus of the u32 sequence numbers (2^32 in the code)
  MaxWindow,     \* tp->max_window, the largest window the peer advertised
  MaxConnects,   \* bound on connect() calls per socket (model bound)
  RecvLen        \* len passed to recvmsg, in units of queued data

ASSUME BacklogLimitAssumption == BacklogLimit \in Nat \ {0}
ASSUME SeqModAssumption == SeqMod \in Nat \ {0}
ASSUME MaxWindowAssumption == MaxWindow \in Nat /\ MaxWindow + 3 < SeqMod
ASSUME MaxConnectsAssumption == MaxConnects \in Nat
ASSUME RecvLenAssumption == RecvLen \in Nat \ {0}

SeqNum == 0 .. SeqMod - 1

States == {"CLOSE", "SYN_SENT", "SYN_RECV", "ESTABLISHED", "FIN_WAIT1",
           "FIN_WAIT2", "CLOSE_WAIT", "CLOSING", "LAST_ACK", "TIME_WAIT",
           "LISTEN"}

\* Segment kinds a peer can send; "ACK" is an ACK covering our FIN.
Segs == {"SYNACK", "DATA", "FIN", "ACK", "RST"}

\* Phase of the user context of a socket: no call in progress, draining the
\* backlog in release_sock at the end of a call (of close), the tail of
\* tcp_nip_close after release_sock, after close returned; inside the loop
\* of tcp_nip_recvmsg, in the release_sock of that loop (line 1400 or
\* sk_wait_data), and with the lock released between it and lock_sock.
Phases == {"idle", "release", "closeRelease", "closeTail", "gone",
           "recvLoop", "recvRelease", "recvWait"}

\* Phases of a recvmsg that is inside its copy loop.
RecvPhases == {"recvLoop", "recvRelease", "recvWait"}

\* Phases in which release_sock drains the backlog.
ReleasePhases == {"release", "closeRelease", "recvRelease"}

\* What tcp_nip_recvmsg returned: copied > 0, 0, a negative errno.
RecvRets == {"none", "bytes", "eof", "error"}

NoSeq == -1   \* discSeq before the first disconnect

VARIABLES
  state,         \* sk->sk_state
  hashed,        \* "ehash", "lhash" or "none": table the socket is in
  owned,         \* sock_owned_by_user(sk)
  upc,           \* phase of the user context
  saved,         \* the local "state" of tcp_nip_close
  dead,          \* sock_flag(sk, SOCK_DEAD), set by sock_orphan
  destroyed,     \* times the socket was destroyed (history)
  backlog,       \* sk->sk_backlog, in arrival order
  unread,        \* sk_receive_queue holds data
  unsent,        \* snd_nxt # write_seq
  fins,          \* FINs queued in this connection (history)
  writeSeq,      \* tp->write_seq
  connected,     \* sock->state # SS_UNCONNECTED
  timerPending,  \* a timer expiry deferred to tcp_nip_release_cb
  conns,         \* connect() calls made (bounded)
  discSeq,       \* write_seq when the last disconnect ran (history)
  charged,       \* sk->sk_backlog.len, in segments
  rcvShut,       \* sk->sk_shutdown & RCV_SHUTDOWN
  rcvLeft,       \* len_tmp of a recvmsg in progress
  recvRet        \* value the last recvmsg returned (history)

vars == <<state, hashed, owned, upc, saved, dead, destroyed, backlog, unread,
          unsent, fins, writeSeq, connected, timerPending, conns, discSeq,
          charged, rcvShut, rcvLeft, recvRet>>

TypeOK ==
  /\ state \in [Socks -> States]
  /\ hashed \in [Socks -> {"ehash", "lhash", "none"}]
  /\ owned \in [Socks -> BOOLEAN]
  /\ upc \in [Socks -> Phases]
  /\ saved \in [Socks -> States]
  /\ dead \in [Socks -> BOOLEAN]
  /\ destroyed \in [Socks -> Nat]
  /\ backlog \in [Socks -> Seq(Segs)]
  /\ charged \in [Socks -> 0 .. BacklogLimit]
  /\ \A s \in Socks : Len(backlog[s]) <= charged[s]
  /\ unread \in [Socks -> BOOLEAN]
  /\ unsent \in [Socks -> BOOLEAN]
  /\ fins \in [Socks -> Nat]
  /\ writeSeq \in [Socks -> SeqNum]
  /\ connected \in [Socks -> BOOLEAN]
  /\ timerPending \in [Socks -> BOOLEAN]
  /\ conns \in [Socks -> 0 .. MaxConnects]
  /\ discSeq \in [Socks -> SeqNum \cup {NoSeq}]
  /\ rcvShut \in [Socks -> BOOLEAN]
  /\ rcvLeft \in [Socks -> 0 .. RecvLen]
  /\ recvRet \in [Socks -> RecvRets]

-----------------------------------------------------------------------------
(* The close table new_state[] and tcp_nip_close_state.                     *)

CloseNext == [CLOSE |-> "CLOSE", ESTABLISHED |-> "FIN_WAIT1",
              SYN_SENT |-> "CLOSE", SYN_RECV |-> "FIN_WAIT1",
              FIN_WAIT1 |-> "FIN_WAIT1", FIN_WAIT2 |-> "FIN_WAIT2",
              TIME_WAIT |-> "CLOSE", CLOSE_WAIT |-> "LAST_ACK",
              LAST_ACK |-> "LAST_ACK", LISTEN |-> "CLOSE",
              CLOSING |-> "CLOSING"]

\* Deliberately wrong variant of CloseFin, kept for mutation testing.
CloseFinRefire == {"ESTABLISHED", "SYN_RECV", "CLOSE_WAIT", "FIN_WAIT1"}

\* States whose new_state[] entry carries TCP_ACTION_FIN.
CloseFin == {"ESTABLISHED", "SYN_RECV", "CLOSE_WAIT"}

\* tcp_set_state(sk, ns) on a socket whose hash membership is h: entering
\* CLOSE unhashes it (sk_prot->unhash).
HashedAfter(h, ns) == IF ns = "CLOSE" THEN "none" ELSE h

\* The next write_seq chosen by tcp_nip_disconnect.
DisconnectSeqNoWrapGuard(w) == (w + MaxWindow + 2) % SeqMod

DisconnectSeq(w) ==
  LET n == (w + MaxWindow + 2) % SeqMod IN IF n = 0 THEN 1 ELSE n

-----------------------------------------------------------------------------
\* Deliberately wrong variant of Done, kept for mutation testing.
DoneDestroysLive(s) ==
  /\ state' = [state EXCEPT ![s] = "CLOSE"]
  /\ rcvShut' = [rcvShut EXCEPT ![s] = TRUE]
  /\ hashed' = [hashed EXCEPT ![s] = "none"]
  /\ timerPending' = [timerPending EXCEPT ![s] = FALSE]
  /\ destroyed' = [destroyed EXCEPT ![s] = @ + 1]
  /\ unsent' = [unsent EXCEPT ![s] = IF dead[s] THEN FALSE ELSE @]
  /\ unread' = [unread EXCEPT ![s] = IF dead[s] THEN FALSE ELSE @]

(* tcp_nip_done: CLOSE, timers cleared, both directions shut down (which  *)
(* sk_state_change reports to a waiting reader); an orphan is destroyed    *)
(* (tcp_nip_destroy_sock purges the write queue, sk_nip_stream_kill_queues *)
(* the receive queue).                                                      *)
Done(s) ==
  /\ state' = [state EXCEPT ![s] = "CLOSE"]
  /\ rcvShut' = [rcvShut EXCEPT ![s] = TRUE]
  /\ hashed' = [hashed EXCEPT ![s] = "none"]
  /\ timerPending' = [timerPending EXCEPT ![s] = FALSE]
  /\ destroyed' = [destroyed EXCEPT ![s] = IF dead[s] THEN @ + 1 ELSE @]
  /\ unsent' = [unsent EXCEPT ![s] = IF dead[s] THEN FALSE ELSE @]
  /\ unread' = [unread EXCEPT ![s] = IF dead[s] THEN FALSE ELSE @]

(* State transitions a segment causes in tcp_nip_rcv_state_process /       *)
(* tcp_nip_rcv_established (spec 4.2, 4.5); a move to CLOSE is tcp_nip_done.*)
RcvMoves ==
  {[from |-> "SYN_SENT", seg |-> "SYNACK", to |-> "ESTABLISHED"],
   [from |-> "ESTABLISHED", seg |-> "FIN", to |-> "CLOSE_WAIT"],
   [from |-> "FIN_WAIT1", seg |-> "FIN", to |-> "CLOSING"],
   [from |-> "FIN_WAIT2", seg |-> "FIN", to |-> "TIME_WAIT"],
   [from |-> "FIN_WAIT1", seg |-> "ACK", to |-> "FIN_WAIT2"],
   [from |-> "CLOSING", seg |-> "ACK", to |-> "TIME_WAIT"],
   [from |-> "LAST_ACK", seg |-> "ACK", to |-> "CLOSE"]}
  \cup
  {[from |-> st, seg |-> "RST", to |-> "CLOSE"] :
     st \in {"SYN_SENT", "SYN_RECV", "ESTABLISHED", "FIN_WAIT1", "FIN_WAIT2",
             "CLOSE_WAIT", "CLOSING", "LAST_ACK"}}

\* States in which in-sequence data is queued for the application.
DataStates == {"ESTABLISHED", "FIN_WAIT1", "FIN_WAIT2"}

\* An ACK covers our FIN only once the FIN has been transmitted.
Applies(s, m, seg) ==
  /\ m.from = state[s]
  /\ m.seg = seg
  /\ seg = "ACK" => ~unsent[s]

(* tcp_nip_do_rcv: the effect of one segment on a socket; a FIN shuts the  *)
(* receive direction (tcp_fin).                                             *)
DoRcv(s, seg) ==
  \/ \E m \in RcvMoves :
       /\ Applies(s, m, seg)
       /\ IF m.to = "CLOSE"
            THEN Done(s)
            ELSE /\ state' = [state EXCEPT ![s] = m.to]
                 /\ rcvShut' = [rcvShut EXCEPT ![s] = @ \/ seg = "FIN"]
                 /\ UNCHANGED <<hashed, timerPending, destroyed, unsent, unread>>
  \/ /\ seg = "DATA"
     /\ state[s] \in DataStates
     /\ unread' = [unread EXCEPT ![s] = TRUE]
     /\ UNCHANGED <<state, hashed, timerPending, destroyed, unsent, rcvShut>>
  \/ /\ ~\E m \in RcvMoves : Applies(s, m, seg)
     /\ ~(seg = "DATA" /\ state[s] \in DataStates)
     /\ UNCHANGED <<state, hashed, timerPending, destroyed, unsent, unread,
                    rcvShut>>

-----------------------------------------------------------------------------
Init ==
  /\ state = [s \in Socks |-> "CLOSE"]
  /\ hashed = [s \in Socks |-> "none"]
  /\ owned = [s \in Socks |-> FALSE]
  /\ upc = [s \in Socks |-> "idle"]
  /\ saved = [s \in Socks |-> "CLOSE"]
  /\ dead = [s \in Socks |-> FALSE]
  /\ destroyed = [s \in Socks |-> 0]
  /\ backlog = [s \in Socks |-> <<>>]
  /\ unread = [s \in Socks |-> FALSE]
  /\ unsent = [s \in Socks |-> FALSE]
  /\ fins = [s \in Socks |-> 0]
  /\ writeSeq = [s \in Socks |-> 0]
  /\ connected = [s \in Socks |-> FALSE]
  /\ timerPending = [s \in Socks |-> FALSE]
  /\ conns = [s \in Socks |-> 0]
  /\ discSeq = [s \in Socks |-> NoSeq]
  /\ charged = [s \in Socks |-> 0]
  /\ rcvShut = [s \in Socks |-> FALSE]
  /\ rcvLeft = [s \in Socks |-> 0]
  /\ recvRet = [s \in Socks |-> "none"]

\* A user call may start: lock_sock acquired on a socket the user still holds.
UserCall(s) == upc[s] = "idle" /\ ~owned[s] /\ ~dead[s]

\* The call ends in release_sock, which drains the backlog.
EndCall(s) ==
  /\ owned' = [owned EXCEPT ![s] = TRUE]
  /\ upc' = [upc EXCEPT ![s] = "release"]

\* tcp_nip_close_state followed, when the table says so, by tcp_nip_send_fin
\* (the FIN takes a sequence number and may stay queued behind the window).
CloseState(s) ==
  LET ns == CloseNext[state[s]] IN
  /\ state' = [state EXCEPT ![s] = ns]
  /\ hashed' = [hashed EXCEPT ![s] = HashedAfter(hashed[s], ns)]
  /\ IF state[s] \in CloseFin
       THEN /\ fins' = [fins EXCEPT ![s] = @ + 1]
            /\ writeSeq' = [writeSeq EXCEPT ![s] = (@ + 1) % SeqMod]
            /\ \E u \in BOOLEAN : unsent' = [unsent EXCEPT ![s] = u]
       ELSE UNCHANGED <<fins, writeSeq, unsent>>

-----------------------------------------------------------------------------
(* User context.                                                            *)

\* Deliberately wrong variant of ConnectLateFailure, kept for mutation
\* testing: late_failure leaves the socket in the established hash.
ConnectLateFailureKeepsHash(s, iss) ==
  /\ writeSeq' = [writeSeq EXCEPT ![s] = iss]
  /\ hashed' = [hashed EXCEPT ![s] = "ehash"]
  /\ UNCHANGED <<state, connected, fins>>

(* __tcp_nip_connect fails after ninet_hash_connect hashed the socket and  *)
(* write_seq was chosen: late_failure's tcp_set_state(CLOSE) takes the     *)
(* socket from SYN_SENT back to CLOSE and out of the established hash.     *)
ConnectLateFailure(s, iss) ==
  /\ writeSeq' = [writeSeq EXCEPT ![s] = iss]
  /\ hashed' = [hashed EXCEPT ![s] = HashedAfter("ehash", "CLOSE")]
  /\ UNCHANGED <<state, connected, fins>>

(* tcp_nip_connect on an unconnected socket.  A failed route lookup or an   *)
(* invalid address returns before any change; a failed ninet_hash_connect  *)
(* goes SYN_SENT and back to CLOSE (late_failure); a failed                 *)
(* __tcp_nip_connect does the same after write_seq was chosen and the       *)
(* socket hashed (tcp_set_state(CLOSE) unhashes it again).  write_seq 0     *)
(* means "choose a secure ISN"; the SYN takes one sequence number.          *)
Connect(s) ==
  /\ UserCall(s)
  /\ state[s] = "CLOSE"
  /\ ~connected[s]
  /\ conns[s] < MaxConnects
  /\ conns' = [conns EXCEPT ![s] = @ + 1]
  /\ \E isn \in SeqNum :
       LET iss == IF writeSeq[s] = 0 THEN isn ELSE writeSeq[s] IN
       \/ UNCHANGED <<state, hashed, writeSeq, connected, fins>>
       \/ ConnectLateFailure(s, iss)
       \/ /\ writeSeq' = [writeSeq EXCEPT ![s] = (iss + 1) % SeqMod]
          /\ state' = [state EXCEPT ![s] = "SYN_SENT"]
          /\ hashed' = [hashed EXCEPT ![s] = "ehash"]
          /\ connected' = [connected EXCEPT ![s] = TRUE]
          /\ fins' = [fins EXCEPT ![s] = 0]
  /\ EndCall(s)
  /\ UNCHANGED <<saved, dead, destroyed, backlog, unread, unsent, timerPending,
                 discSeq, charged, rcvShut, rcvLeft, recvRet>>

(* inet_listen: the socket enters LISTEN and ninet_hash puts it in the     *)
(* listening hash.                                                          *)
Listen(s) ==
  /\ UserCall(s)
  /\ state[s] = "CLOSE"
  /\ ~connected[s]
  /\ state' = [state EXCEPT ![s] = "LISTEN"]
  /\ hashed' = [hashed EXCEPT ![s] = "lhash"]
  /\ EndCall(s)
  /\ UNCHANGED <<saved, dead, destroyed, backlog, unread, unsent, fins,
                 writeSeq, connected, timerPending, conns, discSeq, charged,
                 rcvShut, rcvLeft, recvRet>>

(* tcp_nip_shutdown(SEND_SHUTDOWN); inet_shutdown routes SYN_SENT and      *)
(* LISTEN to disconnect instead.                                            *)
Shutdown(s) ==
  /\ UserCall(s)
  /\ state[s] \notin {"LISTEN", "SYN_SENT"}
  /\ \/ /\ state[s] \in {"ESTABLISHED", "SYN_SENT", "SYN_RECV", "CLOSE_WAIT"}
        /\ CloseState(s)
     \/ /\ state[s] \notin {"ESTABLISHED", "SYN_SENT", "SYN_RECV", "CLOSE_WAIT"}
        /\ UNCHANGED <<state, hashed, fins, writeSeq, unsent>>
  /\ EndCall(s)
  /\ UNCHANGED <<saved, dead, destroyed, backlog, unread, connected,
                 timerPending, conns, discSeq, charged, rcvShut, rcvLeft, recvRet>>

(* tcp_nip_close up to release_sock: both directions are shut down; a      *)
(* listener is closed; otherwise the receive queue is purged, unread data  *)
(* aborts the connection (RST, not FIN), else the close table applies.     *)
(* The state reached is saved, the socket orphaned, and release_sock       *)
(* starts draining the backlog.                                            *)
Close(s) ==
  /\ UserCall(s)
  /\ \/ /\ state[s] = "LISTEN"
        /\ state' = [state EXCEPT ![s] = "CLOSE"]
        /\ hashed' = [hashed EXCEPT ![s] = "none"]
        /\ UNCHANGED <<unread, fins, writeSeq, unsent>>
     \/ /\ state[s] = "CLOSE"
        /\ unread' = [unread EXCEPT ![s] = FALSE]
        /\ UNCHANGED <<state, hashed, fins, writeSeq, unsent>>
     \/ /\ state[s] \notin {"LISTEN", "CLOSE"}
        /\ unread[s]
        /\ unread' = [unread EXCEPT ![s] = FALSE]
        /\ state' = [state EXCEPT ![s] = "CLOSE"]
        /\ hashed' = [hashed EXCEPT ![s] = "none"]
        /\ UNCHANGED <<fins, writeSeq, unsent>>
     \/ /\ state[s] \notin {"LISTEN", "CLOSE"}
        /\ ~unread[s]
        /\ CloseState(s)
        /\ UNCHANGED unread
  /\ saved' = [saved EXCEPT ![s] = state'[s]]
  /\ dead' = [dead EXCEPT ![s] = TRUE]
  /\ owned' = [owned EXCEPT ![s] = TRUE]
  /\ upc' = [upc EXCEPT ![s] = "closeRelease"]
  /\ rcvShut' = [rcvShut EXCEPT ![s] = TRUE]
  /\ UNCHANGED <<destroyed, backlog, connected, timerPending, conns, discSeq,
                 charged, rcvLeft, recvRet>>

(* tcp_nip_disconnect: CLOSE at once (an RST goes out from the states of   *)
(* tcp_nip_need_reset, the RST itself is not modelled), queues purged,     *)
(* timers cleared, sk_shutdown cleared, write_seq moved past the old       *)
(* window (never to 0).  The caller marks the socket unconnected.          *)
Disconnect(s) ==
  /\ UserCall(s)
  /\ state' = [state EXCEPT ![s] = "CLOSE"]
  /\ hashed' = [hashed EXCEPT ![s] = HashedAfter(hashed[s], "CLOSE")]
  /\ unread' = [unread EXCEPT ![s] = FALSE]
  /\ unsent' = [unsent EXCEPT ![s] = FALSE]
  /\ timerPending' = [timerPending EXCEPT ![s] = FALSE]
  /\ writeSeq' = [writeSeq EXCEPT ![s] = DisconnectSeq(@)]
  /\ discSeq' = [discSeq EXCEPT ![s] = writeSeq[s]]
  /\ connected' = [connected EXCEPT ![s] = FALSE]
  /\ rcvShut' = [rcvShut EXCEPT ![s] = FALSE]
  /\ EndCall(s)
  /\ UNCHANGED <<saved, dead, destroyed, backlog, fins, conns, charged, rcvLeft,
                 recvRet>>

(* tcp_nip_sendmsg on a connected socket: data is appended to the write    *)
(* queue (write_seq advances) and tcp_nip_push may or may not send it.     *)
Sendmsg(s) ==
  /\ UserCall(s)
  /\ state[s] \in {"ESTABLISHED", "CLOSE_WAIT"}
  /\ writeSeq' = [writeSeq EXCEPT ![s] = (@ + 1) % SeqMod]
  /\ \E u \in BOOLEAN : unsent' = [unsent EXCEPT ![s] = u]
  /\ EndCall(s)
  /\ UNCHANGED <<state, hashed, saved, dead, destroyed, backlog, unread, fins,
                 connected, timerPending, conns, discSeq, charged, rcvShut,
                 rcvLeft, recvRet>>

(* tcp_nip_recvmsg, blocking, without MSG_WAITALL (target 1) and without  *)
(* signals.  On a listener it jumps to "out" and returns err, which no      *)
(* path to "out" has assigned: whatever the stack held.  Otherwise it      *)
(* enters its copy loop with len_tmp = len.                                 *)
Recvmsg(s) ==
  /\ UserCall(s)
  /\ \/ /\ state[s] = "LISTEN"
        /\ \E r \in RecvRets \ {"none"} : recvRet' = [recvRet EXCEPT ![s] = r]
        /\ EndCall(s)
        /\ UNCHANGED rcvLeft
     \/ /\ state[s] # "LISTEN"
        /\ owned' = [owned EXCEPT ![s] = TRUE]
        /\ upc' = [upc EXCEPT ![s] = "recvLoop"]
        /\ rcvLeft' = [rcvLeft EXCEPT ![s] = RecvLen]
        /\ recvRet' = [recvRet EXCEPT ![s] = "none"]
  /\ UNCHANGED <<state, hashed, saved, dead, destroyed, backlog, unread, unsent,
                 fins, writeSeq, connected, timerPending, conns, discSeq,
                 charged, rcvShut>>

\* copied > 0 in tcp_nip_recvmsg.
Copied(s) == rcvLeft[s] < RecvLen

\* The loop breaks and recvmsg returns r through release_sock.
RecvBreak(s, r) ==
  /\ recvRet' = [recvRet EXCEPT ![s] = r]
  /\ upc' = [upc EXCEPT ![s] = "release"]

(* One pass of the do-while loop of tcp_nip_recvmsg, under the lock.  Data *)
(* in the receive queue is copied (all of it, or, when it fills the user   *)
(* buffer, possibly part); the loop ends when len_tmp reaches 0.  With the *)
(* queue empty, the checks run in the code's order: enough copied and no   *)
(* backlog; with data copied, a closed or receive-shut connection; without *)
(* data, RCV_SHUTDOWN (0) or CLOSE (-ENOTCONN).  Otherwise release_sock    *)
(* runs: followed at once by lock_sock when data was copied (line 1400),   *)
(* else by the wait of sk_wait_data.                                        *)
RecvLoop(s) ==
  /\ upc[s] = "recvLoop"
  /\ rcvLeft[s] > 0
  /\ \/ /\ unread[s]
        /\ rcvLeft' = [rcvLeft EXCEPT ![s] = @ - 1]
        /\ \E u \in IF rcvLeft[s] = 1 THEN BOOLEAN ELSE {FALSE} :
             unread' = [unread EXCEPT ![s] = u]
        /\ IF rcvLeft[s] = 1
             THEN RecvBreak(s, "bytes")
             ELSE UNCHANGED <<upc, recvRet>>
     \/ /\ ~unread[s]
        /\ \/ /\ Copied(s)
              /\ backlog[s] = <<>> \/ state[s] = "CLOSE" \/ rcvShut[s]
              /\ RecvBreak(s, "bytes")
           \/ /\ ~Copied(s) /\ rcvShut[s]
              /\ RecvBreak(s, "eof")
           \/ /\ ~Copied(s) /\ ~rcvShut[s] /\ state[s] = "CLOSE"
              /\ RecvBreak(s, "error")
           \/ /\ Copied(s)
              /\ backlog[s] # <<>> /\ state[s] # "CLOSE" /\ ~rcvShut[s]
              /\ upc' = [upc EXCEPT ![s] = "recvRelease"]
              /\ UNCHANGED recvRet
           \/ /\ ~Copied(s) /\ ~rcvShut[s] /\ state[s] # "CLOSE"
              /\ upc' = [upc EXCEPT ![s] = "recvRelease"]
              /\ UNCHANGED recvRet
        /\ UNCHANGED <<unread, rcvLeft>>
  /\ UNCHANGED <<state, hashed, owned, saved, dead, destroyed, backlog, unsent,
                 fins, writeSeq, connected, timerPending, conns, discSeq,
                 charged, rcvShut>>

\* Deliberately wrong variant of RecvWakes, kept for mutation testing.
RecvWakesDataOnly(s) == unread[s]

(* What ends the wait of sk_wait_data: new data in the receive queue       *)
(* (sk_data_ready), or sk_state_change from tcp_nip_done or a FIN, both of *)
(* which shut the receive direction.                                        *)
RecvWakes(s) == unread[s] \/ rcvShut[s]

(* lock_sock again after release_sock in the loop: at once when data was   *)
(* copied, else once sk_wait_data is woken; the loop then goes on.         *)
RecvRelock(s) ==
  /\ upc[s] = "recvWait"
  /\ ~owned[s]
  /\ Copied(s) \/ RecvWakes(s)
  /\ owned' = [owned EXCEPT ![s] = TRUE]
  /\ upc' = [upc EXCEPT ![s] = "recvLoop"]
  /\ UNCHANGED <<state, hashed, saved, dead, destroyed, backlog, unread, unsent,
                 fins, writeSeq, connected, timerPending, conns, discSeq,
                 charged, rcvShut, rcvLeft, recvRet>>

\* Deliberately wrong variant of Drain, kept for mutation testing: the
\* segment's charge is given back as it is processed.
DrainUncharged(s) ==
  /\ upc[s] \in ReleasePhases
  /\ backlog[s] # <<>>
  /\ DoRcv(s, Head(backlog[s]))
  /\ backlog' = [backlog EXCEPT ![s] = Tail(@)]
  /\ charged' = [charged EXCEPT ![s] = @ - 1]
  /\ UNCHANGED <<owned, upc, saved, dead, fins, writeSeq, connected, conns,
                 discSeq, rcvLeft, recvRet>>

(* release_sock: the owner processes its backlog in arrival order ...      *)
Drain(s) ==
  /\ upc[s] \in ReleasePhases
  /\ backlog[s] # <<>>
  /\ DoRcv(s, Head(backlog[s]))
  /\ backlog' = [backlog EXCEPT ![s] = Tail(@)]
  /\ UNCHANGED <<owned, upc, saved, dead, fins, writeSeq, connected, conns,
                 discSeq, charged, rcvLeft, recvRet>>

\* States in which a timer may end the connection (retransmission or
\* keepalive give-up, TIME_WAIT expiry).
TimerStates == States \ {"CLOSE", "LISTEN"}

(* ... then zeroes sk_backlog.len (only here, so that a peer cannot keep   *)
(* it draining forever), runs tcp_nip_release_cb, which performs a         *)
(* deferred timer expiry, and frees the owner lock.  After close, its tail *)
(* comes next; inside recvmsg, its lock_sock.                               *)
Release(s) ==
  /\ upc[s] \in ReleasePhases
  /\ backlog[s] = <<>>
  /\ charged' = [charged EXCEPT ![s] = 0]
  /\ \/ /\ timerPending[s]
        /\ state[s] \in TimerStates
        /\ Done(s)
     \/ /\ ~(timerPending[s] /\ state[s] \in TimerStates)
        /\ timerPending' = [timerPending EXCEPT ![s] = FALSE]
        /\ UNCHANGED <<state, hashed, destroyed, unsent, unread, rcvShut>>
  /\ owned' = [owned EXCEPT ![s] = FALSE]
  /\ upc' = [upc EXCEPT ![s] = CASE @ = "closeRelease" -> "closeTail"
                                  [] @ = "recvRelease" -> "recvWait"
                                  [] OTHER -> "idle"]
  /\ UNCHANGED <<saved, dead, backlog, fins, writeSeq, connected, conns, discSeq,
                 rcvLeft, recvRet>>

\* Deliberately wrong variant of CloseTailDestroys, kept for mutation testing.
CloseTailDestroysNoRecheck(s) == state[s] = "CLOSE"

\* The test of tcp_nip_close after bh_lock_sock: destroy a CLOSE socket
\* unless it became CLOSE during release_sock (tcp_nip_done destroyed it).
CloseTailDestroys(s) ==
  /\ ~(saved[s] # "CLOSE" /\ state[s] = "CLOSE")
  /\ state[s] = "CLOSE"

(* tcp_nip_close after release_sock, under bh_lock_sock.                    *)
CloseTail(s) ==
  /\ upc[s] = "closeTail"
  /\ ~owned[s]
  /\ upc' = [upc EXCEPT ![s] = "gone"]
  /\ IF CloseTailDestroys(s)
       THEN /\ destroyed' = [destroyed EXCEPT ![s] = @ + 1]
            /\ unsent' = [unsent EXCEPT ![s] = FALSE]
            /\ unread' = [unread EXCEPT ![s] = FALSE]
       ELSE UNCHANGED <<destroyed, unsent, unread>>
  /\ UNCHANGED <<state, hashed, owned, saved, dead, backlog, fins, writeSeq,
                 connected, timerPending, conns, discSeq, charged, rcvShut,
                 rcvLeft, recvRet>>

-----------------------------------------------------------------------------
(* Softirq and timer context.                                               *)

\* Deliberately wrong variant of BacklogHasRoom, kept for mutation testing.
BacklogHasRoomOffByOne(s) == charged[s] <= BacklogLimit

\* tcp_nip_add_backlog: sk_add_backlog accepts the segment while the amount
\* charged to the backlog since the owner took the lock is below
\* rcvbuf + sndbuf + 64K, counted here in segments.
BacklogHasRoom(s) == charged[s] < BacklogLimit

(* tcp_nip_rcv for a segment whose 4-tuple finds the socket in the         *)
(* established hash (TIME_WAIT sockets discard it): processed inline when   *)
(* the owner lock is free, else queued on the backlog; tcp_nip_add_backlog *)
(* drops it when the backlog is full, which changes nothing modelled.      *)
Rcv(s, seg) ==
  /\ hashed[s] = "ehash"
  /\ state[s] # "TIME_WAIT"
  /\ \/ /\ owned[s]
        /\ BacklogHasRoom(s)
        /\ backlog' = [backlog EXCEPT ![s] = Append(@, seg)]
        /\ charged' = [charged EXCEPT ![s] = @ + 1]
        /\ UNCHANGED <<state, hashed, destroyed, unread, unsent, timerPending,
                       rcvShut>>
     \/ /\ ~owned[s]
        /\ DoRcv(s, seg)
        /\ UNCHANGED <<backlog, charged>>
  /\ UNCHANGED <<owned, upc, saved, dead, fins, writeSeq, connected, conns,
                 discSeq, rcvLeft, recvRet>>

(* A timer that ends the connection: tcp_nip_done at once when the owner   *)
(* lock is free, else deferred to tcp_nip_release_cb.                       *)
TimerExpire(s) ==
  /\ state[s] \in TimerStates
  /\ ~timerPending[s]
  /\ \/ /\ owned[s]
        /\ timerPending' = [timerPending EXCEPT ![s] = TRUE]
        /\ UNCHANGED <<state, hashed, destroyed, unsent, unread, rcvShut>>
     \/ /\ ~owned[s]
        /\ Done(s)
  /\ UNCHANGED <<owned, upc, saved, dead, backlog, fins, writeSeq, connected,
                 conns, discSeq, charged, rcvLeft, recvRet>>

(* __tcp_nip_push_pending_frames once the peer's window opens: queued data *)
(* and FIN are transmitted.                                                *)
Transmit(s) ==
  /\ unsent[s]
  /\ ~owned[s]
  /\ state[s] \notin {"CLOSE", "LISTEN"}
  /\ unsent' = [unsent EXCEPT ![s] = FALSE]
  /\ UNCHANGED <<state, hashed, owned, upc, saved, dead, destroyed, backlog,
                 unread, fins, writeSeq, connected, timerPending, conns, discSeq,
                 charged, rcvShut, rcvLeft, recvRet>>

Next ==
  \E s \in Socks :
    \/ Connect(s) \/ Listen(s) \/ Shutdown(s) \/ Close(s) \/ Disconnect(s)
    \/ Sendmsg(s) \/ Recvmsg(s) \/ RecvLoop(s) \/ RecvRelock(s)
    \/ Drain(s) \/ Release(s) \/ CloseTail(s)
    \/ TimerExpire(s) \/ Transmit(s)
    \/ \E seg \in Segs : Rcv(s, seg)

Spec == Init /\ [][Next]_vars

(* The user context is a running thread: in release_sock it goes on        *)
(* draining the backlog and then unlocks; the tail of close runs once the  *)
(* lock is free; recvmsg goes on through its loop and, once woken (or at   *)
(* once at line 1401), retakes a free lock.  Each of these stays enabled   *)
(* until it is taken, so weak fairness is what the scheduler gives.  The   *)
(* peer, the softirq and the timers get none: a peer may fall silent.      *)
UserFairness ==
  \A s \in Socks :
    /\ WF_vars(Drain(s))
    /\ WF_vars(Release(s))
    /\ WF_vars(CloseTail(s))
    /\ WF_vars(RecvLoop(s))
    /\ WF_vars(RecvRelock(s))

FairSpec == Spec /\ UserFairness

-----------------------------------------------------------------------------
(* Properties.                                                              *)

(* tcp_nip_close, tcp_nip_done (from the backlog, a deferred timer or a    *)
(* later segment) and the destroy test after release_sock together destroy *)
(* every orphaned socket exactly once: never twice, and a closed orphan    *)
(* whose close() has returned has been destroyed.                           *)
DestroyExactlyOnce ==
  \A s \in Socks :
    /\ destroyed[s] <= 1
    /\ (dead[s] /\ state[s] = "CLOSE" /\ upc[s] = "gone") => destroyed[s] = 1

(* Whatever the order of shutdown(), close() and peer segments, a          *)
(* connection queues at most one FIN (the close table's identity entries   *)
(* for FIN_WAIT1, FIN_WAIT2, CLOSING and LAST_ACK).                         *)
AtMostOneFin == \A s \in Socks : fins[s] <= 1

(* A CLOSE socket is in neither the established nor the listening hash,   *)
(* whichever path closed it: tcp_nip_done, the close table, an abort,      *)
(* disconnect, or a connect that failed after ninet_hash_connect hashed    *)
(* it.  Otherwise __ninet_lookup could hand a segment to a closed, perhaps *)
(* already destroyed, socket.                                              *)
ClosedUnhashed == \A s \in Socks : state[s] = "CLOSE" => hashed[s] = "none"

\* Distance from sequence number a forward to b, modulo SeqMod.
SeqDist(a, b) == (b - a) % SeqMod

(* A connect() after tcp_nip_disconnect starts its sequence space beyond   *)
(* the old connection's window: the ISN is more than max_window past the   *)
(* last write_seq, including when the increment wraps to 0.                *)
ReconnectBeyondOldWindow ==
  [][\A s \in Socks :
       (state[s] = "CLOSE" /\ state'[s] = "SYN_SENT" /\ discSeq[s] # NoSeq)
         => SeqDist(discSeq[s], (writeSeq'[s] + SeqMod - 1) % SeqMod) > MaxWindow
    ]_vars

(* Every user call that has reached its final release_sock returns, and     *)
(* close() runs to its end, however fast the peer sends: sk_add_backlog    *)
(* charges each queued segment to sk_backlog.len, which release_sock only  *)
(* zeroes once the backlog is empty, so a flood cannot keep the owner      *)
(* draining forever.                                                        *)
CallsReturn ==
  \A s \in Socks :
    upc[s] \in {"release", "closeRelease", "closeTail"} ~> upc[s] \in {"idle", "gone"}

(* A recvmsg on a connection whose receive side has ended (peer FIN, a     *)
(* reset or timer through tcp_nip_done, or CLOSE) returns, wherever it is  *)
(* in its loop: a reader waiting in sk_wait_data is woken by the state     *)
(* change, and once data has been copied the loop breaks on RCV_SHUTDOWN   *)
(* before it would release and retake the lock for a non-empty backlog,   *)
(* which a peer could otherwise keep refilling.                            *)
RecvmsgReturnsOnEnd ==
  \A s \in Socks :
    upc[s] \in RecvPhases /\ (state[s] = "CLOSE" \/ rcvShut[s]) ~> upc[s] = "idle"

(* Spec 5 and 6: receive returns the bytes read or an error, and a socket  *)
(* with no connection reports NotConnected.  tcp_nip_recvmsg on a          *)
(* listening socket must return an error.                                  *)
RecvmsgOnListenerFails ==
  [][\A s \in Socks : Recvmsg(s) /\ state[s] = "LISTEN" => recvRet'[s] = "error"]_vars
-----------------------------------------------------------------------------
(* Refinement of the lifetime specification NipSockLife.  A socket is open *)
(* until close() sets SOCK_DEAD, an orphan until it is destroyed, freed    *)
(* once destroyed; a second destroy maps to no state of NipSockLife.        *)
LifeOf ==
  [s \in Socks |->
     CASE destroyed[s] = 0 /\ ~dead[s] -> "open"
       [] destroyed[s] = 0 /\ dead[s] -> "orphan"
       [] destroyed[s] = 1 -> "freed"
       [] OTHER -> "freedAgain"]

ClosedOf == [s \in Socks |-> state[s] = "CLOSE"]

Life == INSTANCE NipSockLife WITH life <- LifeOf, closed <- ClosedOf

(* tcp_nip_close, tcp_nip_done and the segments and timers that reach a    *)
(* socket implement the lifetime of NipSockLife: a socket is destroyed     *)
(* only after close() orphaned it, only as it is or becomes CLOSE, at most *)
(* once, and nothing changes its state after it was destroyed.             *)
LifeRefined == Life!Spec

=============================================================================
