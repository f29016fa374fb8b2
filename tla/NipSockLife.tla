----------------------------- MODULE NipSockLife -----------------------------
(***************************************************************************)
(* What the NewIP TCP code promises about the lifetime of a struct sock,   *)
(* stated without the owner lock, the backlog or the timers.  A socket is  *)
(* open while the user holds the file; close() orphans it (sock_orphan);   *)
(* it is then freed (inet_csk_destroy_sock) exactly once, at the moment    *)
(* it is, or becomes, CLOSE; and a freed socket never leaves CLOSE.  While *)
(* it is not freed its connection may open and close any number of times. *)
(* NipSock implements this specification under the mapping in NipSock.     *)
(***************************************************************************)
CONSTANT Socks

VARIABLES
  life,    \* "open", "orphan" or "freed"
  closed   \* the connection is in TCP_CLOSE

vars == <<life, closed>>

Lives == {"open", "orphan", "freed"}

Init ==
  /\ life = [s \in Socks |-> "open"]
  /\ closed \in [Socks -> BOOLEAN]

\* The connection of a socket that is not freed opens or closes.
Move(s, c) ==
  /\ life[s] # "freed"
  /\ closed' = [closed EXCEPT ![s] = c]
  /\ UNCHANGED life

\* close(): the user gives the socket up; its connection may move as well.
Orphan(s, c) ==
  /\ life[s] = "open"
  /\ life' = [life EXCEPT ![s] = "orphan"]
  /\ closed' = [closed EXCEPT ![s] = c]

\* The orphan is freed as it is, or becomes, CLOSE.
Free(s) ==
  /\ life[s] = "orphan"
  /\ life' = [life EXCEPT ![s] = "freed"]
  /\ closed' = [closed EXCEPT ![s] = TRUE]

Next ==
  \E s \in Socks :
    \/ \E c \in BOOLEAN : Move(s, c) \/ Orphan(s, c)
    \/ Free(s)

Spec == Init /\ [][Next]_vars

(* A freed socket is closed: nothing moves a socket after it was freed.    *)
FreedClosed == \A s \in Socks : life[s] = "freed" => closed[s]

=============================================================================
