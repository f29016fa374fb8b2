# TLA+ models of the NewIP TCP socket code

This directory models the NewIP TCP transport in
`src/code/linux/include/net/tcp_nip.h`. That file is three files in one:
`tcp_nip.h` (lines 1–189), `tcp_nip.c` (about 190–1947) and
`ninet_hashtables.c` (about 1950–2432). Some code the file calls lives in
tcp_nip_input.c, tcp_nip_output.c and tcp_nip_timer.c, which are not in the
repository: the per-state effect of a segment, the timers, transmission and
`tcp_nip_release_cb`. That code is modelled from `spec.md`, and PROJECT.json
marks those definitions `spec_modelled`.

## The system and how its parts interact

* **User context.** connect, listen, shutdown, close, disconnect, sendmsg and
  recvmsg each take the socket owner lock (`lock_sock`). Each ends in
  `release_sock`, which processes the backlog in arrival order and then runs
  `tcp_nip_release_cb`.
* **Softirq receive.** `tcp_nip_rcv` finds the socket in the established hash.
  It processes the segment inline when the owner lock is free. Otherwise it
  appends the segment to the bounded backlog (`tcp_nip_add_backlog`).
* **Timers.** A timer that ends the connection calls `tcp_nip_done` at once.
  If the owner lock is held, it defers the call to `tcp_nip_release_cb`.
* **tcp_nip_done.** Moves the socket to CLOSE and unhashes it. An orphan
  (SOCK_DEAD, set by close) is destroyed here.
* **tcp_nip_close.** Saves the state it reached, orphans the socket, and runs
  `release_sock`. Under `bh_lock_sock` it then destroys the socket if it is
  CLOSE, unless the socket *became* CLOSE during `release_sock`, in which case
  `tcp_nip_done` already destroyed it.
* **Idle-profile keepalive.** `tcp_nip_keepalive_enable` swaps the keepalive
  parameters for an idle profile and backs up the user's values.
  `tcp_nip_keepalive_disable` restores the backup, or switches keepalive off,
  once `g_nip_idle_ka_probes_out` idle probes went unanswered.
  `tcp_nip_rtt_init` (from disconnect and init_sock) clears everything.

## Modules

| Module | Models | State | Actions |
|---|---|---|---|
| `NipSock` | the lifecycle of sockets (any number; they share no state) | `state`, `hashed` (ehash/lhash/none), `owned` (owner lock), `upc` (phase of the user context: idle, release, closeRelease, closeTail, recvLoop, recvRelease, recvWait, gone), `saved` (close's local `state`), `dead`, `backlog` (sequence of segment kinds), `charged` (sk_backlog.len), `unread`, `rcvShut` (RCV_SHUTDOWN), `unsent`, `writeSeq` (mod `SeqMod`), `connected`, `timerPending`, `rcvLeft` (recvmsg's len_tmp), `recvRet` (what recvmsg returned); history variables `destroyed`, `fins`, `discSeq` | `Connect`, `Listen`, `Shutdown`, `Close` (up to release_sock), `Disconnect`, `Sendmsg`, `Recvmsg` (up to its loop), `RecvLoop` (one pass of the loop), `RecvRelock` (lock_sock after release_sock or sk_wait_data), `Drain` (one backlog segment in release_sock), `Release` (release_cb, zeroing the backlog charge, and unlock), `CloseTail` (close after release_sock), `Rcv`, `TimerExpire`, `Transmit` |
| `NipSockLife` | the lifetime a socket's code promises, without locks, backlog or timers: open until close() orphans it, freed once as (or as it becomes) CLOSE, never moved afterwards | `life` (open/orphan/freed), `closed` | `Move`, `Orphan`, `Free` |
| `MC_NipSock` | TLC instance of NipSock | | |
| `NipKeepalive` | the idle-profile keepalive of one socket | `keepOpen` (SOCK_KEEPOPEN), `nipKa` (nip_keepalive_enable), `ka` and `bak` (time/probes/intvl in force and backed up), `probesOut`; history `userOn`, `userTouched` | `Enable(len)`, `Disable`, `SetKeepOpen`, `SetParam` (setsockopt), `ProbeUnanswered`, `PeerAnswered`, `RttInit` |
| `NipSock_proofs`, `NipSockConn_proofs`, `NipSockLife_proofs`, `NipKeepalive_proofs` | TLAPS proofs | | |

**Abstraction choices.**
* Data is reduced to flags: `unread` stands for "the receive queue holds data"
  and `unsent` for "snd_nxt ≠ write_seq".
* Segments are reduced to their kind (SYNACK, DATA, FIN, ACK covering our
  FIN, RST). A peer may send any of them at any time, which covers lost,
  duplicated and reordered segments.
* A user call is one atomic step followed by the backlog drain. The code
  holds the owner lock throughout, except where sendmsg and recvmsg wait.
  recvmsg is split at its loop: each pass of the do-while is one `RecvLoop`
  step under the lock. A pass either copies one unit of data or makes the
  checks of lines 1352–1393. When it does not break, it runs release_sock
  (`recvRelease`, then the drain and `Release`). It then takes the lock again
  (`RecvRelock`): at once when data was copied (line 1400), otherwise only
  once sk_wait_data is woken by data or by a shut receive direction.
  `recvRet` abstracts the return value to none/bytes/eof/error. Timeouts,
  signals, sk_err and MSG_WAITALL are not modelled (target is 1).
* The backlog limit counts `charged`, as sk_add_backlog counts
  sk_backlog.len, in segments. The model admits a segment while
  `charged < BacklogLimit`. sk_add_backlog refuses only once the queued bytes
  exceed the limit, so `BacklogLimit` is the number of segments the kernel
  admits, which is the byte limit divided by the truesize, plus one. The
  `TypeOK` bound `charged <= BacklogLimit` follows from that guard.
  `Len(backlog) <= charged` is what the proof adds. That charge is zeroed only when release_sock has emptied
  the backlog, so a flood of segments cannot keep a release going forever.
* `Connect` has three outcomes:
  * a failed route lookup, an invalid address or a failed
    `ninet_hash_connect`, all of which leave the modelled state alone;
  * `ConnectLateFailure`: `__tcp_nip_connect` fails after write_seq was
    chosen and the socket hashed, and late_failure closes and unhashes it;
  * success.
* Each socket has one user thread. No second call on the same socket runs
  while recvmsg sleeps in sk_wait_data or a call is inside release_sock: a
  user call needs the socket idle (`UserCall`). Concurrent calls from
  several threads on one socket are not modelled.
* `Close` has one disjunct per branch of `tcp_nip_close`: listener, already
  CLOSE, unread data (abort), and the close table.

## Runs

| Run | Config | Expect | What it shows |
|---|---|---|---|
| nipsock_lifecycle | MC_NipSock.cfg | pass (2,856,622 distinct states) | `TypeOK` (the backlog stays within the sk_add_backlog limit); `DestroyExactlyOnce`; `AtMostOneFin`; `ClosedUnhashed` (a CLOSE socket is in no hash table, also after a connect that failed once ninet_hash_connect had hashed it); `ReconnectBeyondOldWindow` (a connect after disconnect picks an ISN more than max_window past the old write_seq, including the wrap to 0); `LifeRefined` (NipSock implements NipSockLife) |
| keepalive_backup | NipKeepalive.cfg | pass (20,784 states) | `BackupNotClobbered`: an enable in an active idle profile does not overwrite the user's backup unless setsockopt changed the parameters |
| keepalive_user_off | NipKeepalive_UserOff.cfg | violation | `UserKeepaliveKept` fails: SO_KEEPALIVE with the default time 0 is switched off by disable (finding, code bug at line 951) |
| keepalive_long_idle | NipKeepalive_LongIdle.cfg | violation | `BackupNotClobbered` fails when g_nip_keepalive_time > HZ (finding, spec gap at line 891) |
| keepalive_restore | NipKeepalive_Restore.cfg | violation | `IdleProfileLeftOnDisable` fails: the restore branch leaves the flag and the backup (finding, spec/code divergence at line 951) |
| nipsock_liveness | MC_NipSock_Live.cfg | pass (450,336 states) | Under `FairSpec`: `CallsReturn` (release_sock and close return even while segments keep arriving) and `RecvmsgReturnsOnEnd` (a recvmsg on a socket that is CLOSE or shut for receive returns) |
| keepalive_para_update | NipKeepalive_ParaUpdate.cfg | violation | `ParaUpdateAllOrNothing` fails with g_nip_keepalive_intvl = 0: para_update stores keepalive_time before it rejects intvl (finding, spec/code divergence at line 833) |
| nipsock_recv_listener | MC_NipSock_Listen.cfg | violation | `RecvmsgOnListenerFails` fails: recvmsg on a listener returns the uninitialised `err` (finding, code bug at line 1311) |

Each property of a passing run has a mutant in PROJECT.json: a plausible bug
in the mapped code that TLC catches with the same cfg.
* The close table refires FIN from FIN_WAIT1.
* close's destroy test drops the "became CLOSE during release_sock" recheck.
* disconnect loses the `write_seq == 0` guard.
* The backlog limit is off by one.
* tcp_nip_done destroys a socket whether or not it is SOCK_DEAD (breaks
  `LifeRefined`).
* Enable re-backs-up unconditionally.
* The probe count loses its bound.
* Each drained segment gives back its charge (breaks `CallsReturn`).
* sk_wait_data is woken only by data (breaks `RecvmsgReturnsOnEnd`).

**Bounds, and why they are enough.**
* `MC_NipSock` uses one socket. Sockets share no state in NipSock, so two
  sockets only interleave independent steps; the proof covers every number.
* `SeqMod = 8` makes write_seq wrap within a few calls, and `MaxWindow = 2`
  makes `w + MaxWindow + 2` hit 0 from w = 4.
* `BacklogLimit = 2` lets a FIN and an ACK queue behind a close.
* `MaxConnects = 2` bounds the connect/disconnect cycle. Two connects are
  enough to reach a reconnect after a disconnect.
* `RecvLen = 2` lets a recvmsg copy once and then go round the loop, through
  release_sock or the wait, before it copies again.
* The liveness run uses `SeqMod = 4`, `MaxWindow = 0` and `MaxConnects = 1`.
  Sequence numbers play no part in whether a call returns. One connection
  still reaches every state, every segment kind and every recvmsg path.
* For keepalive, `HZ = 2` with idle times 1 and 2 keeps the idle profile at or
  below one second while user times (2 and 4 jiffies) lie on both sides of the
  test. `IdleProbesOut = 2` makes disable need two unanswered probes.

Deadlock is not checked in `MC_NipSock`. After close() has returned (phase
`gone`) a socket really does nothing more, and the connect bound ends the
other runs.

**Fairness.** `FairSpec` adds weak fairness for the steps of the user
context only: `Drain`, `Release`, `CloseTail`, `RecvLoop` and `RecvRelock`. A
thread that holds the owner lock, or that has been woken, runs on. Each of
these steps is code that does not wait for anything outside the socket. The
peer (`Rcv`), the timers and transmission get no fairness, because their code
is not in the repository or depends on the network. Neither do the user's
decisions to call (`Connect`, `Close`, ...). So the properties hold however
the peer behaves, floods included. The runs check only that calls return.
They do not check that an orphan is eventually destroyed, which would need
fairness on the peer or the timers.

## Proofs (TLAPS)

| Module | Theorem | Statement |
|---|---|---|
| NipSock_proofs | `TypeCorrect` | `Spec => []TypeOK` for every set of sockets and every bound |
| NipSock_proofs | `DestroyExactlyOnceThm` | `Spec => []DestroyExactlyOnce` |
| NipSock_proofs | `ClosedUnhashedThm` | `Spec => []ClosedUnhashed` |
| NipSockConn_proofs | `AtMostOneFinThm` | `Spec => []AtMostOneFin` |
| NipSockConn_proofs | `ReconnectThm` | `Spec => ReconnectBeyondOldWindow` (an action property) |
| NipSockLife_proofs | `LifeRefinement` | `Spec => LifeRefined`: NipSock implements NipSockLife |
| NipKeepalive_proofs | `TypeCorrect` | `Spec => []TypeOK`, a lemma of the proof below |
| NipKeepalive_proofs | `BackupNotClobberedThm` | `IdleWithinSecond => (Spec => BackupNotClobbered)` |

`TypeOK` of NipSock includes `Len(backlog[s]) <= charged[s] <= BacklogLimit`.
The backlog never outgrows its charge, because the charge is zeroed only
together with an empty backlog. The type proof therefore also proves the
backlog bound.

The proofs rest on the named constant assumptions of each module:
`BacklogLimitAssumption`, `SeqModAssumption`, `MaxWindowAssumption` (max_window
+ 3 < SeqMod), `MaxConnectsAssumption`, `RecvLenAssumption`, `HZAssumption`, `NipParamAssumption` (the module parameters are any naturals, invalid ones included, as para_update receives them),
`IdleProbesOutAssumption` and `UserAssumption`. TLC evaluates them on every run.

**DestroyExactlyOnce.** The invariant is not inductive as it stands. It is
strengthened, per socket, to `DestroyInv(s)`, which states:
* the socket is dead exactly when its user context is in a close phase;
* while close is between its two halves (`closeRelease`/`closeTail`), a saved
  CLOSE means the socket is still CLOSE and not destroyed;
* in the same window, a socket that *became* CLOSE has been destroyed (by
  `tcp_nip_done`);
* a CLOSE socket is unhashed, so no segment reaches it;
* the destroy count is 0 or 1, and 1 only for a dead CLOSE socket.

The inductive step has one lemma per action. Each shows the acting socket's
`DestroyInv` and a frame for the other sockets. Shared lemmas cover
`tcp_nip_done` on a non-CLOSE socket, `tcp_nip_do_rcv`, a user call, and the
locality of `DestroyInv`. TLC also checked the strengthening as an invariant
of the one-socket instance before it was proved.

**Refinement of NipSockLife.** The mapping is:
* `life[s]` is "open" until `dead[s]`, then "orphan" until `destroyed[s] = 1`,
  then "freed". A second destroy maps to "freedAgain", which no step of
  NipSockLife reaches.
* `closed[s]` is `state[s] = "CLOSE"`.

Each action of NipSock is shown, in one lemma, to keep `LifeStepOk(s)`. It
acts on one socket `s` and leaves the others' state, SOCK_DEAD and destroy
count alone. On `s` it never clears SOCK_DEAD, and it destroys only a socket
that was dead before the step; for the destroy test of close, `DestroyInv`
supplies that. `LifeStepRefines` then uses `IInv` in the states before and
after the step:
* a destroy is a `Free`, since the count goes from 0 to 1 and the socket is
  then CLOSE;
* setting SOCK_DEAD is an `Orphan`;
* any other step is a `Move` of a live socket, or changes nothing mapped,
  because a destroyed socket stays CLOSE.

**AtMostOneFin and ReconnectBeyondOldWindow.** Neither is inductive as it
stands:
* a FIN may have been counted, and later a SYN_SENT socket may reach
  ESTABLISHED through a SYNACK, from which the close table sends one again;
* the write_seq disconnect chose may be overwritten before the next connect.

Both are strengthened, per socket, to `ConnInv(s)`:
* `fins[s]` is 0 or 1, and 1 only in a state outside `PreFin`. `PreFin` is
  the table's FIN states (ESTABLISHED, SYN_RECV, CLOSE_WAIT) plus SYN_SENT,
  which leads to them.
* An unconnected socket is CLOSE or LISTEN.
* An unconnected socket that has disconnected still holds
  `DisconnectSeq(discSeq[s])`, the write_seq tcp_nip_disconnect chose.

The facts behind it:
* No close-table entry leads into `PreFin` (`CloseNextPastFin`).
* No segment moves a CLOSE or LISTEN socket, or reaches SYN_SENT. A segment
  enters `PreFin` only from `PreFin` (`RcvMovesFin`).
* Because of the invariant, tcp_nip_connect finds a non-zero write_seq after
  a disconnect. It therefore reuses that write_seq rather than choosing a
  secure ISN.

The reconnect distance is then pure integer arithmetic (`WrapDist`):
`(d + w + 2) mod m`, with 0 replaced by 1, lies more than `w` past `d`,
modulo `m`, whenever `w + 3 < m`. There are three cases: no wrap, a wrap to
exactly 0, and a wrap past 0. `ReconnectThm` is an action property. It
follows from the invariant in the state before each step, through
`NextConn`. TLC checked `ConnInv` as an invariant of the lifecycle instance
before it was proved.

**ClosedUnhashed.** This is a conjunct of `DestroyInv`, so the inductive
invariant of `DestroyExactlyOnce` proves it. In the model,
`ConnectLateFailure` is connect's late_failure. It hashes the socket
(ninet_hash_connect) and then closes it (tcp_set_state(CLOSE)), using the
same `HashedAfter` as every other move to CLOSE. A late_failure that left the
socket in the established hash is caught after one call.

**BackupNotClobbered.** The strengthening says: while the idle profile is on
and setsockopt has not run since the last swap, the time in force is at most
HZ, or it equals the backup. The premise `IdleWithinSecond` (idle times ≤ HZ)
is necessary, as run keepalive_long_idle shows.

**Only model-checked.**
* The mutants.
* The violation runs.
* The liveness properties `CallsReturn` and `RecvmsgReturnsOnEnd`. TLAPS does
  not handle ENABLED and fairness well enough, so these are checked by TLC
  only.

## Not modelled, and why

* **Passive open and accept** (conn_request, syn_recv_sock, request socks,
  ninet_csk_accept). The other half of the request-sock path is not in the
  repository. This is planned as a listener/children model.
* **The wait inside sendmsg** (sk_stream_wait_memory). sendmsg is one
  atomic step. recvmsg's wait is modelled; its timeouts, signals and sk_err
  are not.
* **Hash bucket lookup and scoring, secure ISN and port hashes, checksums,
  send sizing, module init and logging.** These are pure computation or I/O.
  The ISN is a nondeterministic choice, and a bad checksum is a lost segment.
