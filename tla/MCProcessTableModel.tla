------------------------ MODULE MCProcessTableModel ------------------------
(* ProcessTableModel on three processes.  A snapshot lists any of them in any *)
(* order, running at nice 0; process 1 may also be found stopped at nice 5.     *)
(* The user's requests mix the two attributes freely.                        *)
EXTENDS ProcessTableModel

MCPids == 1..3
MCStates == {"R", "T"}
MCPriorities == {0, 5}

MCScanned == {[pid |-> p, state |-> "R", prio |-> 0] : p \in MCPids}
               \cup {[pid |-> 1, state |-> "T", prio |-> 5]}

MCSnapshots ==
  {entries \in BoundedSeq(MCScanned, Cardinality(MCPids)) : DistinctPids(entries)}
=============================================================================
