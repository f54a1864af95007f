-------------------------- MODULE MCProcessControl --------------------------
(* ProcessControl with two requests about one process, on machines with and   *)
(* without pkexec and kill.                                                  *)
EXTENDS ProcessControl

CONSTANTS p1, r1, r2

MCPids == {p1}
MCRequests == {r1, r2}
=============================================================================
