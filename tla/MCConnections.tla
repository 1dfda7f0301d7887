--------------------------- MODULE MCConnections ---------------------------
(* Instances of Connections for TLC: two threads of one process and one of *)
(* another.                                                                *)
EXTENDS Connections, TLC

CONSTANTS c1, c2, c3

MCProcessOf == [c \in Threads |-> IF c = c3 THEN "api" ELSE "worker"]

\* Two threads of a process renew while another process connects and ends; two
\* processes renew; one process is sent every callback twice.
MCDuties ==
    {[c \in Threads |-> IF c = c3 THEN {"connect", "disconnect"} ELSE {"refresh"}],
     [c \in Threads |-> IF c = c2 THEN {"connect"} ELSE {"refresh"}],
     [c \in Threads |-> {"connect"}]}

MCLife == [p \in Platforms |-> 2]
MCGrace == [p \in Platforms |-> 2]
=============================================================================
