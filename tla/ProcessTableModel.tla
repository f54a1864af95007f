------------------------- MODULE ProcessTableModel -------------------------
(***************************************************************************)
(* ProcessTableModel (src/src/model/process_table_model.cpp).  The rows are *)
(* kept in m_processList; m_processMap maps a process id to its row.  Both  *)
(* are edited side by side, by updateProcessList one entry at a time and by *)
(* the slots connected to SystemMonitor's signals.                          *)
(*                                                                         *)
(* All of it runs in the GUI thread, so a slot is never interrupted by      *)
(* another.  updateProcessList is still cut into the iterations of its two  *)
(* loops, because the views are called back in each of them (beginInsertRows*)
(* .. endRemoveRows, dataChanged) and read the half-updated model.          *)
(* Rows are numbered from 0, as in Qt; sequences from 1.                    *)
(***************************************************************************)
EXTENDS Integers, Sequences, FiniteSets, SequencesExt

CONSTANTS
  Pids,        \* process ids that may appear in /proc
  States,      \* states of a process
  Priorities,  \* nice values
  Snapshots    \* the process lists processListUpdated may carry

VARIABLES
  m_processList,  \* the entries, in row order
  m_processMap,   \* process id -> row
  phase,          \* "idle", or the loop of updateProcessList that is running
  list,           \* argument of updateProcessList
  next,           \* position of the running loop, in list or in m_processList
  hash            \* the process ids of the entries of list already met

vars == <<m_processList, m_processMap, phase, list, next, hash>>

Entry == [pid : Pids, state : States, prio : Priorities]

DistinctPids(entries) ==
  \A i, j \in 1..Len(entries) : entries[i].pid = entries[j].pid => i = j

\* The lists come from m_procEntryMap, which is keyed by process id.
ASSUME SnapshotsAssumption ==
  Snapshots \subseteq {entries \in Seq(Entry) : DistinctPids(entries)}

Init ==
  /\ m_processList = << >>
  /\ m_processMap = [p \in {} |-> 0]
  /\ phase = "idle"
  /\ list = << >>
  /\ next = 1
  /\ hash = {}

\* Mutants of MapWithoutRow: every row moves up, or none does.
MapDecrementingAll(pid, row) ==
  [p \in DOMAIN m_processMap \ {pid} |-> m_processMap[p] - 1]

MapKeepingRows(pid, row) ==
  [p \in DOMAIN m_processMap \ {pid} |-> m_processMap[p]]

\* The row map after a row was taken out: the process leaves it and every row
\* below moves up by one.
MapWithoutRow(pid, row) ==
  [p \in DOMAIN m_processMap \ {pid} |->
     IF m_processMap[p] > row THEN m_processMap[p] - 1 ELSE m_processMap[p]]

-----------------------------------------------------------------------------
(* updateProcessList *)

UpdateProcessList(entries) ==
  /\ phase = "idle"
  /\ phase' = "merge"
  /\ list' = entries
  /\ next' = 1
  /\ hash' = {}
  /\ UNCHANGED <<m_processList, m_processMap>>

\* Mutant of MergeEntry: the row of a known process is not replaced.
MergeEntryNewOnly ==
  /\ phase = "merge"
  /\ next <= Len(list)
  /\ LET entry == list[next] IN
       /\ \/ entry.pid \in DOMAIN m_processMap /\ UNCHANGED <<m_processList, m_processMap>>
          \/ /\ entry.pid \notin DOMAIN m_processMap
             /\ m_processList' = Append(m_processList, entry)
             /\ m_processMap' = [p \in DOMAIN m_processMap \cup {entry.pid} |->
                                   IF p = entry.pid THEN Len(m_processList)
                                                    ELSE m_processMap[p]]
       /\ hash' = hash \cup {entry.pid}
  /\ next' = next + 1
  /\ UNCHANGED <<phase, list>>

\* One iteration of the loop over list: replace the row, or append one.
MergeEntry ==
  /\ phase = "merge"
  /\ next <= Len(list)
  /\ LET entry == list[next] IN
       /\ \/ /\ entry.pid \in DOMAIN m_processMap
             /\ m_processList' = [m_processList EXCEPT ![m_processMap[entry.pid] + 1] = entry]
             /\ UNCHANGED m_processMap
          \/ /\ entry.pid \notin DOMAIN m_processMap
             /\ m_processList' = Append(m_processList, entry)
             /\ m_processMap' = [p \in DOMAIN m_processMap \cup {entry.pid} |->
                                   IF p = entry.pid THEN Len(m_processList)
                                                    ELSE m_processMap[p]]
       /\ hash' = hash \cup {entry.pid}
  /\ next' = next + 1
  /\ UNCHANGED <<phase, list>>

\* Mutant of StartPrune: the second loop is left out when one row at most is stale.
StartPruneIfShorter ==
  /\ phase = "merge"
  /\ next > Len(list)
  /\ phase' = IF Len(list) < Len(m_processList) - 1 THEN "prune" ELSE "idle"
  /\ next' = 1
  /\ UNCHANGED <<m_processList, m_processMap, list, hash>>

StartPrune ==
  /\ phase = "merge"
  /\ next > Len(list)
  /\ phase' = "prune"
  /\ next' = 1
  /\ UNCHANGED <<m_processList, m_processMap, list, hash>>

\* Mutants of PruneEntry: the iterator skips the row after a removed one, or does
\* not get past a row it keeps.
PruneEntrySkipping ==
  /\ phase = "prune"
  /\ next <= Len(m_processList)
  /\ LET pid == m_processList[next].pid IN
       \/ pid \in hash /\ UNCHANGED <<m_processList, m_processMap>>
       \/ /\ pid \notin hash
          /\ m_processList' = RemoveAt(m_processList, next)
          /\ m_processMap' = MapWithoutRow(pid, m_processMap[pid])
  /\ next' = next + 1
  /\ UNCHANGED <<phase, list, hash>>

PruneEntryPeeking ==
  /\ phase = "prune"
  /\ next <= Len(m_processList)
  /\ LET pid == m_processList[next].pid IN
       /\ pid \notin hash
       /\ m_processList' = RemoveAt(m_processList, next)
       /\ m_processMap' = MapWithoutRow(pid, m_processMap[pid])
  /\ UNCHANGED <<phase, list, next, hash>>

\* One iteration of the loop over the rows: keep the row, or take it out at the
\* iterator while announcing the row m_processMap gives.
PruneEntry ==
  /\ phase = "prune"
  /\ next <= Len(m_processList)
  /\ LET pid == m_processList[next].pid IN
       \/ /\ pid \in hash
          /\ next' = next + 1
          /\ UNCHANGED <<m_processList, m_processMap>>
       \/ /\ pid \notin hash
          /\ m_processList' = RemoveAt(m_processList, next)
          /\ m_processMap' = MapWithoutRow(pid, m_processMap[pid])
          /\ UNCHANGED next
  /\ UNCHANGED <<phase, list, hash>>

\* The end of updateProcessList: modelUpdated is emitted, the locals are gone.
FinishUpdate ==
  /\ phase = "prune"
  /\ next > Len(m_processList)
  /\ phase' = "idle"
  /\ list' = << >>
  /\ next' = 1
  /\ hash' = {}
  /\ UNCHANGED <<m_processList, m_processMap>>

-----------------------------------------------------------------------------
(* The slots of SystemMonitor's signals; each returns at once for a process *)
(* that has no row.                                                        *)

RemoveProcessEntry(pid) ==
  /\ phase = "idle"
  /\ pid \in DOMAIN m_processMap
  /\ m_processList' = RemoveAt(m_processList, m_processMap[pid] + 1)
  /\ m_processMap' = MapWithoutRow(pid, m_processMap[pid])
  /\ UNCHANGED <<phase, list, next, hash>>

UpdateProcessState(pid, state) ==
  /\ phase = "idle"
  /\ pid \in DOMAIN m_processMap
  /\ m_processList' = [m_processList EXCEPT ![m_processMap[pid] + 1].state = state]
  /\ UNCHANGED <<m_processMap, phase, list, next, hash>>

UpdateProcessPriority(pid, prio) ==
  /\ phase = "idle"
  /\ pid \in DOMAIN m_processMap
  /\ m_processList' = [m_processList EXCEPT ![m_processMap[pid] + 1].prio = prio]
  /\ UNCHANGED <<m_processMap, phase, list, next, hash>>

-----------------------------------------------------------------------------

UpdateLoop == MergeEntry \/ StartPrune \/ PruneEntry \/ FinishUpdate

Next ==
  \/ \E entries \in Snapshots : UpdateProcessList(entries)
  \/ UpdateLoop
  \/ \E pid \in Pids : RemoveProcessEntry(pid)
  \/ \E pid \in Pids, state \in States : UpdateProcessState(pid, state)
  \/ \E pid \in Pids, prio \in Priorities : UpdateProcessPriority(pid, prio)

Spec == Init /\ [][Next]_vars

\* A slot that was entered runs to its end.
FairSpec == Spec /\ WF_vars(UpdateLoop)

-----------------------------------------------------------------------------
(* Properties *)

TypeOK ==
  /\ m_processList \in Seq(Entry)
  /\ DOMAIN m_processMap \subseteq Pids
  /\ m_processMap \in [DOMAIN m_processMap -> Nat]
  /\ phase \in {"idle", "merge", "prune"}
  /\ list \in {entries \in Seq(Entry) : DistinctPids(entries)}
  /\ next \in Nat \ {0}
  /\ hash \subseteq Pids

\* The row a process is mapped to holds that process, and every row is mapped
\* to: data(), the slots and the removal loop, which announces the row of the map
\* and removes that of its iterator, all address rows through the map, in every
\* state a view can observe, those inside updateProcessList included.
RowIndexConsistent ==
  /\ \A p \in DOMAIN m_processMap :
       /\ m_processMap[p] + 1 \in 1..Len(m_processList)
       /\ m_processList[m_processMap[p] + 1].pid = p
  /\ \A i \in 1..Len(m_processList) :
       /\ m_processList[i].pid \in DOMAIN m_processMap
       /\ m_processMap[m_processList[i].pid] = i - 1

\* The iterator never leaves a stale row behind: when updateProcessList ends,
\* only processes of the snapshot have a row.
NoStaleRowBehindIterator ==
  phase = "prune" =>
    \A i \in 1..Len(m_processList) : i < next => m_processList[i].pid \in hash

\* Positions of the entries of the snapshot that updateProcessList has read.
ReadPositions ==
  CASE phase = "idle"  -> {}
    [] phase = "merge" -> 1..(next - 1)
    [] phase = "prune" -> 1..Len(list)

\* While updateProcessList runs, the entries it has read are on display as the
\* snapshot gave them, hash holds exactly their processes, and neither loop
\* runs past its end.
ReadEntriesOnDisplay ==
  /\ phase = "merge" => next <= Len(list) + 1
  /\ phase = "prune" => next <= Len(m_processList) + 1
  /\ hash = {list[i].pid : i \in ReadPositions}
  /\ \A i \in ReadPositions :
       /\ list[i].pid \in DOMAIN m_processMap
       /\ m_processList[m_processMap[list[i].pid] + 1] = list[i]

\* The inductive invariant behind the safety properties.
IInv ==
  /\ TypeOK
  /\ RowIndexConsistent
  /\ NoStaleRowBehindIterator
  /\ ReadEntriesOnDisplay

\* An update, once started, reaches modelUpdated.
UpdateTerminates == phase = "merge" ~> phase = "idle"

\* The table decided so far: once updateProcessList is entered the table is the
\* snapshot, of which the entries not met yet are still to be copied.
Settled ==
  [p \in IF phase = "idle" THEN DOMAIN m_processMap
                           ELSE {list[i].pid : i \in 1..Len(list)} |->
     IF phase = "merge" /\ p \notin hash
     THEN list[CHOOSE i \in 1..Len(list) : list[i].pid = p]
     ELSE m_processList[m_processMap[p] + 1]]

Table == INSTANCE ProcessTable WITH shown <- Settled

\* The bookkeeping keeps the promise of ProcessTable: a snapshot replaces the
\* table, and a request's outcome touches one entry.
TableSpec == Table!Spec
=============================================================================
