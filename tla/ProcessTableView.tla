-------------------------- MODULE ProcessTableView --------------------------
(***************************************************************************)
(* ProcessTableView (src/src/gui/process_table_view.cpp) on top of           *)
(* ProcessTableModel: which process the user's requests are about.           *)
(*                                                                         *)
(* The view remembers the selected process in m_selectedPID.  Qt (external)  *)
(* owns the selection itself, and moves it: when the current row is taken    *)
(* out, QAbstractItemView selects a neighbouring row, and the view's          *)
(* selectionChanged notes that row's process.  The confirmation dialogs run a *)
(* nested event loop, so the table goes on changing under an open dialog.    *)
(* Which row is the neighbour depends on the sort column; any may be.        *)
(***************************************************************************)
EXTENDS ProcessTableModel

CONSTANT None   \* no process, no dialog

ASSUME NoneAssumption == None \notin Pids \cup {"end", "kill"}

\* The states of a process that was paused or resumed.
ASSUME StatesAssumption == {"T", "R"} \subseteq States

VARIABLES
  m_selectedPID,  \* process of the last row selected, None before the first
  current,        \* process of Qt's current row
  selected,       \* process of the selected row
  hidden,         \* processes whose row the search text filters out
  dialog,         \* the request a dialog asks the user to confirm
  named,          \* the selected process when the dialog was opened, and None
                  \* once its row has left the view
  sent            \* the last request made to SystemMonitor

viewVars == <<m_selectedPID, current, selected, hidden, dialog, named, sent>>

ViewInit ==
  /\ Init
  /\ m_selectedPID = None
  /\ current = None
  /\ selected = None
  /\ hidden = {}
  /\ dialog = None
  /\ named = None
  /\ sent = None

\* The processes with a row in the proxy model.
Visible == DOMAIN m_processMap \ hidden

\* setCurrentIndex, a click: the row is current and selected, and
\* selectionChanged notes its process.
SelectRow(pid) ==
  /\ current' = pid
  /\ selected' = pid
  /\ m_selectedPID' = pid

\* Mutants of RowsLeave: the view does not note the row Qt selects, or the
\* selection stays with a row number whatever row is taken out.
RowsLeaveUnnoted(gone) ==
  \/ /\ current \in gone
     /\ \/ \E pid \in Visible' : current' = pid /\ selected' = pid
        \/ Visible' = {} /\ current' = None /\ selected' = None
     /\ UNCHANGED m_selectedPID
  \/ current \notin gone /\ UNCHANGED <<m_selectedPID, current, selected>>

RowsLeaveByNumber(gone) ==
  \/ /\ gone # {}
     /\ \/ \E pid \in Visible' : SelectRow(pid)
        \/ /\ Visible' = {}
           /\ current' = None
           /\ selected' = None
           /\ UNCHANGED m_selectedPID
  \/ gone = {} /\ UNCHANGED <<m_selectedPID, current, selected>>

\* The row of a process leaves the proxy model.  If it was the current one, Qt
\* selects a remaining row; a selection that becomes empty is not noted.
RowsLeave(gone) ==
  \/ /\ current \in gone
     /\ \/ \E pid \in Visible' : SelectRow(pid)
        \/ /\ Visible' = {}
           /\ current' = None
           /\ selected' = None
           /\ UNCHANGED m_selectedPID
  \/ current \notin gone /\ UNCHANGED <<m_selectedPID, current, selected>>

StillNamed(gone) == named' = IF named \in gone THEN None ELSE named

-----------------------------------------------------------------------------
(* What the table does to the view                                         *)

\* A step of the model, with the view's reaction to a row that is taken out.
ModelStep ==
  /\ \/ \E entries \in Snapshots : UpdateProcessList(entries)
     \/ MergeEntry \/ StartPrune \/ PruneEntry
     \/ \E pid \in Pids : RemoveProcessEntry(pid)
     \/ \E pid \in Pids, state \in States : UpdateProcessState(pid, state)
     \/ \E pid \in Pids, prio \in Priorities : UpdateProcessPriority(pid, prio)
  /\ UNCHANGED <<hidden, dialog, sent>>
  /\ RowsLeave(Visible \ Visible')
  /\ StillNamed(Visible \ Visible')

\* Mutant of ModelUpdated: with the remembered row gone, some other is selected.
ModelUpdatedAnyRow ==
  /\ FinishUpdate
  /\ \/ m_selectedPID \in Visible /\ SelectRow(m_selectedPID)
     \/ m_selectedPID \notin Visible /\ \E pid \in Visible : SelectRow(pid)
     \/ Visible = {} /\ UNCHANGED <<m_selectedPID, current, selected>>
  /\ UNCHANGED <<hidden, dialog, named, sent>>

\* The slot of modelUpdated selects the row of m_selectedPID again.
ModelUpdated ==
  /\ FinishUpdate
  /\ \/ m_selectedPID \in Visible /\ SelectRow(m_selectedPID)
     \/ m_selectedPID \notin Visible /\ UNCHANGED <<m_selectedPID, current, selected>>
  /\ UNCHANGED <<hidden, dialog, named, sent>>

-----------------------------------------------------------------------------
(* What the user does; an open dialog is modal                             *)

UserMayAct == phase = "idle" /\ dialog = None

Click(pid) ==
  /\ UserMayAct
  /\ pid \in Visible
  /\ SelectRow(pid)
  /\ UNCHANGED <<vars, hidden, dialog, named, sent>>

\* Ctrl+click on the selected row: nothing is selected, and that is not noted.
Deselect ==
  /\ UserMayAct
  /\ selected # None
  /\ selected' = None
  /\ UNCHANGED <<vars, m_selectedPID, current, hidden, dialog, named, sent>>

\* Keyboard focus makes a row current without selecting it.
FocusIn ==
  /\ UserMayAct
  /\ current = None
  /\ current' \in Visible
  /\ UNCHANGED <<vars, m_selectedPID, selected, hidden, dialog, named, sent>>

\* A new search text filters other rows out.
Search(filtered) ==
  /\ UserMayAct
  /\ hidden' = filtered
  /\ UNCHANGED <<vars, dialog, named, sent>>
  /\ RowsLeave(Visible \ Visible')

\* pauseProcess and resumeProcess: the request is about m_selectedPID.  If the
\* signal could be sent, processPaused or processResumed is emitted in the call.
RequestNow(op, state) ==
  /\ UserMayAct
  /\ sent' = [op |-> op, pid |-> m_selectedPID]
  /\ \/ m_selectedPID # None /\ UpdateProcessState(m_selectedPID, state)
     \/ UNCHANGED vars
  /\ UNCHANGED <<m_selectedPID, current, selected, hidden, dialog, named>>

\* endProcess and killProcess up to dialog.exec(), started from the context menu,
\* which needs a selected row, or from a shortcut, which does not.
OpenDialog(op) ==
  /\ UserMayAct
  /\ dialog' = op
  /\ named' = selected
  /\ UNCHANGED <<vars, m_selectedPID, current, selected, hidden, sent>>

CancelDialog ==
  /\ phase = "idle"
  /\ dialog # None
  /\ dialog' = None
  /\ named' = None
  /\ UNCHANGED <<vars, m_selectedPID, current, selected, hidden, sent>>

\* endProcess and killProcess after dialog.exec(): the request is about the
\* process m_selectedPID holds by now.  If the signal could be sent, processEnded
\* or processKilled removes its row within the call.
ConfirmDialog ==
  /\ phase = "idle"
  /\ dialog # None
  /\ sent' = [op |-> dialog, pid |-> m_selectedPID]
  /\ dialog' = None
  /\ named' = None
  /\ UNCHANGED hidden
  /\ \/ m_selectedPID # None /\ RemoveProcessEntry(m_selectedPID)
     \/ UNCHANGED vars
  /\ RowsLeave(Visible \ Visible')

-----------------------------------------------------------------------------

ViewNext ==
  \/ ModelStep
  \/ ModelUpdated
  \/ \E pid \in Pids : Click(pid)
  \/ Deselect
  \/ FocusIn
  \/ \E filtered \in SUBSET Pids : Search(filtered)
  \/ RequestNow("pause", "T")
  \/ RequestNow("resume", "R")
  \/ \E op \in {"end", "kill"} : OpenDialog(op)
  \/ CancelDialog
  \/ ConfirmDialog

ViewSpec == ViewInit /\ [][ViewNext]_<<vars, viewVars>>

-----------------------------------------------------------------------------
(* Properties *)

\* What is highlighted is what requests are about: a selected row is the current
\* row, is visible, and its process is m_selectedPID, so the lookups of the
\* context menu (getProcessState, getProcessPriorityStub) find its row.
SelectionIsRemembered ==
  /\ current # None => current \in Visible
  /\ selected # None => selected = current /\ selected = m_selectedPID

\* The remembered process changes only by a click, or because Qt replaced a
\* current row that left the view: updates and re-sorting never change it.
SelectionMovesOnlyWithItsRow ==
  [][m_selectedPID' # m_selectedPID
       => \/ current \in Visible \ Visible'
          \/ \E pid \in Pids : Click(pid)]_<<vars, viewVars>>

\* Confirming a dialog signals the process that was selected when the dialog was
\* opened, as long as its row stayed in the view, however many updates ran under
\* the dialog.
ConfirmedProcessIsTheNamedOne ==
  [][ConfirmDialog /\ named # None => sent'.pid = named]_<<vars, viewVars>>
=============================================================================
