--------------------------- MODULE MCSocketOwner ---------------------------
(* SocketOwner with two flows, and two addresses one of which was not there     *)
(* when the program started.                                                 *)
EXTENDS SocketOwner, TLC

CONSTANTS f1, f2, a1, a2

MCFlows == {f1, f2}
MCAddrs == {a1, a2}
MCLocal == {a1}
MCSymmetry == Permutations(MCFlows)
=============================================================================
