-------------------------- MODULE MC_AddrServerQueue --------------------------
(* Three clients against two slots, so that one connection is refused.    *)
(* The listening socket is fd 3 (after stdin, stdout and stderr), and     *)
(* accept() returns fds from 4 on.                                        *)
EXTENDS AddrServerQueue, TLC

CONSTANTS k1, k2, k3

MC_Conns == {k1, k2, k3}
=============================================================================
