------------------------- MODULE MCPriorityControl -------------------------
(* PriorityControl with two requests on one process.                         *)
EXTENDS PriorityControl

\* High, from the menu, and a value of the slider.
MCPriorities == {-10, 5}

MCEntry == [pid : Pids, state : States, prio : MCPriorities]

\* Each process is in a list or not, with any value.
MCSnapshots ==
  {SetToSeq(entries) :
     entries \in {E \in SUBSET MCEntry : \A a, b \in E : a.pid = b.pid => a = b}}
=============================================================================
