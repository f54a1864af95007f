-------------------------- MODULE MCNethogsMonitor --------------------------
(* NethogsMonitor with two connections, two processes and four addresses.     *)
EXTENDS NethogsMonitor, TLC

CONSTANTS e1, e2, p1, p2, n1, n2, n3

MCEndpoints == {e1, e2}
MCPids == {p1, p2}
MCNodes == {unknowntcp, n1, n2, n3}

\* Only the node of unknown traffic is special.
MCSymmetry ==
  Permutations(MCEndpoints) \cup Permutations(MCPids) \cup Permutations({n1, n2, n3})
=============================================================================
