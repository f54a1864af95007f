------------------------- MODULE MCProcessTableView -------------------------
(* ProcessTableView over three processes; every subset of them, in any order, *)
(* is a snapshot.  Their attributes play no part in the selection.           *)
EXTENDS ProcessTableView

CONSTANTS p1, p2, p3

MCPids == {p1, p2, p3}
MCStates == {"R", "T"}
MCPriorities == {0}

MCSnapshots ==
  LET Scanned == [pid : MCPids, state : {"R"}, prio : {0}] IN
    {entries \in BoundedSeq(Scanned, 3) : entries # << >> /\ DistinctPids(entries)}

\* The model treats all processes alike.
MCSymmetry == Permutations(MCPids)
=============================================================================
