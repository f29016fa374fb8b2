----------------------------- MODULE MC_NipSock -----------------------------
(* Model-checking instance of NipSock: one socket (sockets share no state  *)
(* in NipSock), a sequence space of 8 so that write_seq wraps, a backlog *)
(* of two segments so that a close can find a FIN and an ACK queued.        *)
EXTENDS NipSock

CONSTANTS s1

MCSocks == {s1}
=============================================================================
