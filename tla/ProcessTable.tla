---------------------------- MODULE ProcessTable ----------------------------
(***************************************************************************)
(* What the process table promises to its views, whatever the bookkeeping  *)
(* of ProcessTableModel (src/src/model/process_table_model.cpp): for every  *)
(* process it shows one entry, a snapshot of the statistics thread replaces *)
(* the whole content in one step, and the outcome of a user's request on a  *)
(* process changes the entry of that process and nothing else.              *)
(* The order of the rows is not part of the promise: every view reads the   *)
(* model through a sorting proxy.                                           *)
(***************************************************************************)
EXTENDS Integers, Sequences, FiniteSets

CONSTANTS
  Pids,        \* process ids that may appear in /proc
  States,      \* states of a process, the letters of /proc/<pid>/stat
  Priorities,  \* nice values
  Snapshots    \* the process lists the statistics thread may deliver

\* The part of ProcessEntry the table's bookkeeping can tell apart.
Entry == [pid : Pids, state : States, prio : Priorities]

PidsIn(list) == {list[i].pid : i \in 1..Len(list)}

\* The row of a process in a list that holds it.
IndexOf(list, pid) == CHOOSE i \in 1..Len(list) : list[i].pid = pid

-----------------------------------------------------------------------------

VARIABLE shown   \* shown[p]: the entry on display for process p

Init == shown = [p \in {} |-> p]

\* A delivered snapshot becomes the content of the table.
ShowSnapshot(list) ==
  shown' = [p \in PidsIn(list) |-> list[IndexOf(list, p)]]

\* A process the user ended or killed leaves the table.
HideProcess(pid) ==
  /\ pid \in DOMAIN shown
  /\ shown' = [p \in DOMAIN shown \ {pid} |-> shown[p]]

\* A process the user paused, resumed or reniced shows its new attributes.
ShowState(pid, state) ==
  /\ pid \in DOMAIN shown
  /\ shown' = [shown EXCEPT ![pid].state = state]

ShowPriority(pid, prio) ==
  /\ pid \in DOMAIN shown
  /\ shown' = [shown EXCEPT ![pid].prio = prio]

Next ==
  \/ \E list \in Snapshots : ShowSnapshot(list)
  \/ \E pid \in Pids : HideProcess(pid)
  \/ \E pid \in Pids, state \in States : ShowState(pid, state)
  \/ \E pid \in Pids, prio \in Priorities : ShowPriority(pid, prio)

Spec == Init /\ [][Next]_shown
=============================================================================
