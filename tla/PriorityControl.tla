-------------------------- MODULE PriorityControl --------------------------
(***************************************************************************)
(* Changing the priority (nice value) of a process, and the value on display: *)
(* ProcessTableView::changeProcessPriority, SystemMonitor::setProcessPriority *)
(* (src/src/process/system_monitor.cpp) in the GUI thread, and, when the      *)
(* kernel refuses, a PriorityController thread per request that runs renice   *)
(* through pkexec (src/src/process/priority_controller.cpp).                  *)
(*                                                                         *)
(* The value on display comes from the outcomes of requests and from the lists *)
(* of the statistics thread (src/src/process/stats_collector.cpp), each of which *)
(* was read some time ago.  A list holds the processes of the display mode, and  *)
(* a scan may send none.  The table is the one ProcessTable promises.           *)
(*                                                                         *)
(* Processes are external: they exit, come to have windows, and other programs *)
(* renice them.  Ids are not reused; a list is read at once, and one is under   *)
(* way at a time.                                                            *)
(***************************************************************************)
EXTENDS Integers, Sequences, FiniteSets, SequencesExt

CONSTANTS
  Pids,        \* processes
  Priorities,  \* nice values
  Snapshots,   \* the lists the statistics thread may deliver
  Requests,    \* one element per request the user may make
  None

ASSUME PrioritiesAssumption == Priorities \subseteq -20..19

VARIABLES
  shown,      \* the table: process -> entry
  nice,       \* living process -> nice value
  had,        \* process -> the nice values it has had
  foreign,    \* processes of other users
  static,     \* processes with a static priority (sched_setscheduler)
  apps,       \* the user's processes with a window or tray icon, or of a desktop entry
  hasPkexec,  \* /usr/bin/pkexec exists
  hasRenice,  \* /usr/bin/renice exists
  m_filterType,\* display mode of the statistics thread
  timer,      \* its timer is active
  list,       \* a list on its way to the GUI thread, or None
  request,    \* r -> None, or the process and priority asked for
  ctrl,       \* r -> what the controller thread of r does next
  rc,         \* r -> exit code of its pkexec
  events,     \* queued resultReady signals: the request and the code
  answers     \* r -> outcomes told, in order

kernelVars == <<nice, had, foreign, static, apps, hasPkexec, hasRenice>>
scanVars == <<m_filterType, timer>>
ctrlVars == <<ctrl, rc, events>>
vars == <<shown, kernelVars, scanVars, list, request, ctrlVars, answers>>

FilterTypes == {"OnlyGUI", "OnlyMe", "AllProcess"}
States == {"S"}  \* the state of a process does not matter here

Table == INSTANCE ProcessTable

ASSUME SnapshotsAssumption == Snapshots \subseteq Seq(Table!Entry)

ASSUME NoneAssumption ==
  /\ None \notin Snapshots
  /\ None \notin [pid : Pids, prio : Priorities]

\* errno values; pkexec's exit codes are those of renice, 126, 127, and -1, -2.
EPERM == 1
ENOENT == 2

PriorityInit ==
  /\ Table!Init
  /\ nice \in [Pids -> Priorities]
  /\ had = [p \in Pids |-> {nice[p]}]
  /\ foreign \in SUBSET Pids
  /\ static \in SUBSET Pids
  /\ apps \in SUBSET (Pids \ foreign)
  /\ hasPkexec \in BOOLEAN
  /\ hasRenice \in BOOLEAN
  /\ m_filterType = "OnlyGUI"
  /\ timer = FALSE
  /\ list = None
  /\ request = [r \in Requests |-> None]
  /\ ctrl = [r \in Requests |-> "none"]
  /\ rc = [r \in Requests |-> 0]
  /\ events = << >>
  /\ answers = [r \in Requests |-> << >>]

-----------------------------------------------------------------------------
(* The kernel                                                              *)

SetNice(p, prio) ==
  /\ nice' = [nice EXCEPT ![p] = prio]
  /\ had' = [had EXCEPT ![p] = @ \cup {prio}]

Exit(p) ==
  /\ p \in DOMAIN nice
  /\ nice' = [q \in DOMAIN nice \ {p} |-> nice[q]]
  /\ UNCHANGED <<shown, had, foreign, static, apps, hasPkexec, hasRenice, scanVars, list,
                 request, ctrlVars, answers>>

\* Another program renices a process.
OtherRenice(p, prio) ==
  /\ p \in DOMAIN nice
  /\ SetNice(p, prio)
  /\ UNCHANGED <<shown, foreign, static, apps, hasPkexec, hasRenice, scanVars, list,
                 request, ctrlVars, answers>>

\* A process of the user opens its first window or closes its last.
ToggleWindow(p) ==
  /\ p \in DOMAIN nice \ foreign
  /\ apps' = IF p \in apps THEN apps \ {p} ELSE apps \cup {p}
  /\ UNCHANGED <<shown, nice, had, foreign, static, hasPkexec, hasRenice, scanVars, list,
                 request, ctrlVars, answers>>

-----------------------------------------------------------------------------
(* The statistics thread                                                   *)

\* updateStatus: whether the display mode wants p.
Needed(p, type) ==
  \/ type = "AllProcess"
  \/ type = "OnlyMe" /\ p \notin foreign
  \/ type = "OnlyGUI" /\ p \in apps

\* The processes the mode wants, as they are now; an empty list is not emitted.
EmitList(type) ==
  /\ list = None
  /\ \E entries \in Snapshots :
       /\ entries # << >>
       /\ Table!PidsIn(entries) = {p \in DOMAIN nice : Needed(p, type)}
       /\ \A i \in 1..Len(entries) : entries[i].prio = nice[entries[i].pid]
       /\ list' = entries

\* A scan at whose end the last process was gone emits nothing.
Scan(type) == EmitList(type) \/ UNCHANGED list

\* A scan of the timer that emits its list; one that emits nothing is a stuttering step.
ReadList ==
  /\ timer
  /\ EmitList(m_filterType)
  /\ UNCHANGED <<shown, kernelVars, scanVars, request, ctrlVars, answers>>

\* The first cacheUpdated, which need not come: a scan, and the timer is started.
CacheUpdated ==
  /\ ~timer
  /\ Scan(m_filterType)
  /\ timer' = TRUE
  /\ UNCHANGED <<shown, kernelVars, m_filterType, request, ctrlVars, answers>>

\* setFilterType: a scan in the new mode, and the timer is started.
SetFilterType(type) ==
  /\ m_filterType # type
  /\ m_filterType' = type
  /\ Scan(type)
  /\ timer' = TRUE
  /\ UNCHANGED <<shown, kernelVars, request, ctrlVars, answers>>

\* Mutant of ListArrives: the rows of processes on display are not replaced.
ListArrivesNewOnly ==
  /\ list # None
  /\ shown' = [p \in Table!PidsIn(list) |->
                 IF p \in DOMAIN shown THEN shown[p] ELSE list[Table!IndexOf(list, p)]]
  /\ list' = None
  /\ UNCHANGED <<kernelVars, scanVars, request, ctrlVars, answers>>

ListArrives ==
  /\ list # None
  /\ Table!ShowSnapshot(list)
  /\ list' = None
  /\ UNCHANGED <<kernelVars, scanVars, request, ctrlVars, answers>>

-----------------------------------------------------------------------------
(* The GUI thread                                                          *)

Answer(r, outcome) == answers' = [answers EXCEPT ![r] = Append(@, outcome)]

\* The slot of processPriorityChanged in the table.
UpdateProcessPriority(p, prio) ==
  IF p \in DOMAIN shown THEN Table!ShowPriority(p, prio) ELSE UNCHANGED shown

\* SystemMonitor::getProcessPriorityStub: 20 is kCustomPriority.
PriorityStub(prio) == IF prio \in {-20, -10, 0, 10, 19} THEN prio ELSE 20

\* The model's getProcessPriorityStub reads row 0 for a process without a row.  An
\* empty list has no row 0: the value is undefined then.
StubsRead(p) ==
  IF shown = << >> THEN {PriorityStub(prio) : prio \in -20..19}
  ELSE {PriorityStub(shown[q].prio) : q \in {q \in DOMAIN shown : p \in DOMAIN shown => q = p}}

AlreadyShown(p, prio) == prio \in StubsRead(p)

DiffersFromShown(p, prio) == \E stub \in StubsRead(p) : stub # prio

\* setpriority refuses processes of others and, below the present value, own ones.
MayRenice(p, prio) == p \notin foreign /\ prio >= nice[p]

\* Mutants of Promote: the new value is shown before anything has been done, or
\* the refusal is told although the controller goes on.
PromoteShowing(r) ==
  /\ ctrl' = [ctrl EXCEPT ![r] = "checkPkexec"]
  /\ UpdateProcessPriority(request'[r].pid, request'[r].prio)
  /\ UNCHANGED <<nice, had, answers>>

PromoteTelling(r) ==
  /\ ctrl' = [ctrl EXCEPT ![r] = "checkPkexec"]
  /\ Answer(r, "error")
  /\ UNCHANGED <<shown, nice, had>>

\* A controller thread is started.
Promote(r) ==
  /\ ctrl' = [ctrl EXCEPT ![r] = "checkPkexec"]
  /\ UNCHANGED <<shown, nice, had, answers>>

\* The clamping to -20..19 changes no value of the menu or the slider.
SetProcessPriority(r, p, prio) ==
  \/ /\ p \notin DOMAIN nice
     /\ Answer(r, "error")
     /\ UNCHANGED <<shown, nice, had, ctrl>>
  \/ /\ p \in DOMAIN nice \cap static   \* nothing is done
     /\ UNCHANGED <<shown, nice, had, ctrl, answers>>
  \/ /\ p \in DOMAIN nice \ static
     /\ MayRenice(p, prio)
     /\ SetNice(p, prio)
     /\ UpdateProcessPriority(p, prio)
     /\ Answer(r, "changed")
     /\ UNCHANGED ctrl
  \/ /\ p \in DOMAIN nice \ static
     /\ ~MayRenice(p, prio)
     /\ Promote(r)

\* The user chooses a priority from the menu or the slider.
ChangeProcessPriority(r, p, prio) ==
  /\ request[r] = None
  /\ request' = [request EXCEPT ![r] = [pid |-> p, prio |-> prio]]
  /\ \/ AlreadyShown(p, prio) /\ UNCHANGED <<shown, nice, had, ctrl, answers>>
     \/ DiffersFromShown(p, prio) /\ SetProcessPriority(r, p, prio)
  /\ UNCHANGED <<foreign, static, apps, hasPkexec, hasRenice, scanVars, list, rc, events>>

\* The slot of resultReady.
HandleResult ==
  /\ events # << >>
  /\ LET r == Head(events).req IN
       \/ /\ Head(events).code = 0
          /\ UpdateProcessPriority(request[r].pid, request[r].prio)
          /\ Answer(r, "changed")
       \/ /\ Head(events).code # 0
          /\ Answer(r, "error")
          /\ UNCHANGED shown
  /\ events' = Tail(events)
  /\ UNCHANGED <<kernelVars, scanVars, list, request, ctrl, rc>>

-----------------------------------------------------------------------------
(* PriorityController::run                                                 *)

Emit(r, code) == events' = Append(events, [req |-> r, code |-> code])

\* QThread::exit does not leave run.
Check(r, present, from, to) ==
  /\ ctrl[r] = from
  /\ IF present THEN UNCHANGED events ELSE Emit(r, ENOENT)
  /\ ctrl' = [ctrl EXCEPT ![r] = to]
  /\ UNCHANGED <<shown, kernelVars, scanVars, list, request, rc, answers>>

CheckPkexec(r) == Check(r, hasPkexec, "checkPkexec", "checkRenice")
CheckRenice(r) == Check(r, hasRenice, "checkRenice", "execute")

\* QProcess::execute: pkexec shows its prompt, or cannot be started.
StartPkexec(r) ==
  /\ ctrl[r] = "execute"
  /\ \/ hasPkexec /\ ctrl' = [ctrl EXCEPT ![r] = "prompt"] /\ UNCHANGED rc
     \/ ~hasPkexec /\ ctrl' = [ctrl EXCEPT ![r] = "report"] /\ rc' = [rc EXCEPT ![r] = -2]
  /\ UNCHANGED <<shown, kernelVars, scanVars, list, request, events, answers>>

\* pkexec ends: refused or crashed, or authorized and renice run as root.
FinishPkexec(r) ==
  /\ ctrl[r] = "prompt"
  /\ LET p == request[r].pid IN
       \/ /\ \E code \in {-1, 126, 127} : rc' = [rc EXCEPT ![r] = code]
          /\ UNCHANGED <<nice, had>>
       \/ /\ hasRenice
          /\ p \notin DOMAIN nice
          /\ rc' = [rc EXCEPT ![r] = 1]
          /\ UNCHANGED <<nice, had>>
       \/ /\ hasRenice
          /\ p \in DOMAIN nice
          /\ SetNice(p, request[r].prio)
          /\ rc' = [rc EXCEPT ![r] = 0]
  /\ ctrl' = [ctrl EXCEPT ![r] = "report"]
  /\ UNCHANGED <<shown, foreign, static, apps, hasPkexec, hasRenice, scanVars, list, request,
                 events, answers>>

\* What run makes of pkexec's exit code, which is never EACCES.
ResultCode(code) == IF code = 0 THEN 0 ELSE EPERM

ReportResult(r) ==
  /\ ctrl[r] = "report"
  /\ Emit(r, ResultCode(rc[r]))
  /\ ctrl' = [ctrl EXCEPT ![r] = "finished"]
  /\ UNCHANGED <<shown, kernelVars, scanVars, list, request, rc, answers>>

-----------------------------------------------------------------------------

ControllerStep(r) ==
  CheckPkexec(r) \/ CheckRenice(r) \/ StartPkexec(r) \/ FinishPkexec(r) \/ ReportResult(r)

PriorityNext ==
  \/ \E p \in Pids : Exit(p)
  \/ \E p \in Pids, prio \in Priorities : OtherRenice(p, prio)
  \/ \E p \in Pids : ToggleWindow(p)
  \/ ReadList
  \/ CacheUpdated
  \/ \E type \in FilterTypes : SetFilterType(type)
  \/ ListArrives
  \/ \E r \in Requests, p \in Pids, prio \in Priorities : ChangeProcessPriority(r, p, prio)
  \/ HandleResult
  \/ \E r \in Requests : ControllerStep(r)

\* Once its timer runs, the statistics thread keeps scanning, and it is not always the
\* process it reads last that exits; the GUI thread takes the lists.  What the
\* controllers and the user owe does not matter to the properties below.
PrioritySpec ==
  /\ PriorityInit
  /\ [][PriorityNext]_vars
  /\ WF_vars(ReadList)
  /\ WF_vars(ListArrives)

-----------------------------------------------------------------------------
(* Properties *)

\* The table never shows a nice value the process has not had: a list that is late
\* and a result that is late may show an old one, a request that failed none.
ShownPriorityWasReal ==
  \A p \in DOMAIN shown : shown[p].pid = p /\ shown[p].prio \in had[p]

\* A request is told changed or failed, not both, and changed at most once,
\* although a controller goes on after it has reported a missing program.
OneOutcome ==
  \A r \in Requests :
    \A i, j \in 1..Len(answers[r]) :
      /\ answers[r][i] = answers[r][j]
      /\ answers[r][i] = "changed" => i = j

\* A nice value that a process keeps while the display mode wants it is on display in
\* the end, in whatever order the results of requests and the lists arrived, once a
\* desktop entry was found or the display mode changed (the timer runs).
LastingPriorityIsShown ==
  \A p \in Pids, prio \in Priorities :
    <>[](timer /\ p \in DOMAIN nice /\ nice[p] = prio /\ Needed(p, m_filterType))
      => <>[](p \in DOMAIN shown /\ shown[p].prio = prio)
=============================================================================
