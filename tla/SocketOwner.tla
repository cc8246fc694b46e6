---------------------------- MODULE SocketOwner ----------------------------
(***************************************************************************)
(* What the feed daemon's unix socket promises its clients ("socket bind   *)
(* is the single-instance authority", SOCKET-1): at any moment at most one *)
(* daemon listens, the socket path leads to that daemon and to no other,   *)
(* and the path stays with it until it stops listening itself.             *)
(***************************************************************************)
CONSTANTS Daemons,  \* daemon processes
          None      \* "no daemon", not a member of Daemons

VARIABLES listening,  \* the daemons with an open listener
          reached     \* the daemon a client dialling the socket path reaches

vars == <<listening, reached>>

Init == listening = {} /\ reached = None

Open(d) == /\ listening = {}
           /\ listening' = {d}
           /\ reached' = d

Close(d) == /\ listening = {d}
            /\ listening' = {}
            /\ reached' = None

Next == \E d \in Daemons : Open(d) \/ Close(d)

Spec == Init /\ [][Next]_vars
=============================================================================
