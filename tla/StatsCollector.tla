--------------------------- MODULE StatsCollector ---------------------------
(***************************************************************************)
(* StatsCollector (src/src/process/stats_collector.cpp): the periodic scan of *)
(* /proc in the statistics thread, the maps it fills, and the list of         *)
(* processes it emits in the display mode the user chose.                     *)
(*                                                                         *)
(* Processes are external: they start, exit and are given to init while the   *)
(* scan (ProcessStat::readProcStats) walks /proc in the order of process ids. *)
(* An id that was freed during a scan is not given out again before it ends.  *)
(* What a process is, its kind, does not change in its life.  System-wide     *)
(* figures, traffic, the counts of the summary, names and icons are left out;   *)
(* ProcessSamples has the CPU shares.                                         *)
(***************************************************************************)
EXTENDS Integers, Sequences, FiniteSets, SequencesExt

CONSTANTS
  MaxPid,     \* ids are 1..MaxPid
  MaxBirths,  \* bound on birth numbers: MaxBirths - MaxPid processes start
  Kinds,      \* what a process that starts may be, see KindsAssumption
  Firsts,     \* the processes there may be when the program starts
  None

Init1 == 1  \* init: takes the orphans
Self == 2   \* this program, which has a window

\* own: of this user; window, tray: has a window or tray icon; app: its name is
\* that of a desktop entry; script: runs a shell or an interpreter.
KindFields == {"own", "window", "tray", "app", "script"}

ASSUME NoneAssumption == None \notin [pid : 1..MaxPid, birth : 1..MaxBirths]

ASSUME KindsAssumption ==
  /\ MaxPid \in Nat /\ MaxPid >= Self
  /\ MaxBirths \in Nat /\ MaxBirths >= MaxPid
  /\ Kinds \subseteq [KindFields -> BOOLEAN]
  /\ \A first \in Firsts :
       /\ DOMAIN first \subseteq (Self + 1)..MaxPid
       /\ \A pid \in DOMAIN first :
            /\ first[pid].ppid \in DOMAIN first \cup {Init1, Self}
            /\ first[pid].ppid < pid
            /\ first[pid].kind \in [KindFields -> BOOLEAN]

VARIABLES
  proc,            \* living pid -> birth number, parent, kind
  births,          \* the last birth number
  stayed,          \* births of the processes that lived all through the scan
  met,             \* births of all processes that lived during the scan
  freed,           \* ids freed during the scan
  phase,           \* "idle" or "scan"
  timer,           \* m_timer is active
  m_filterType,    \* display mode
  cursor,          \* last id readdir returned
  reading,         \* the id being read and its birth, or None
  b,               \* the last process was read to the end
  m_guiPIDList,    \* ids that had a window before the scan
  m_trayPIDs,      \* keys of m_trayPIDToWndMap
  m_pidCtoPMapping,\* id -> parent's id, as read
  m_procEntryMap,  \* id -> birth and kind, as read
  shown            \* the last list emitted and its mode, or None

osVars == <<proc, births, stayed, met, freed>>
scanVars == <<cursor, reading, b, m_guiPIDList, m_trayPIDs, m_pidCtoPMapping,
              m_procEntryMap>>
vars == <<osVars, phase, timer, m_filterType, scanVars, shown>>

Pids == 1..MaxPid
FilterTypes == {"OnlyGUI", "OnlyMe", "AllProcess"}

InitKind == [f \in KindFields |-> FALSE]
SelfKind == [f \in KindFields |-> f \in {"own", "window"}]

\* f with x mapped to y.
With(f, x, y) == [z \in DOMAIN f \cup {x} |-> IF z = x THEN y ELSE f[z]]

Init ==
  /\ \E first \in Firsts :
       proc = With(With([pid \in DOMAIN first |->
                           [birth |-> pid, ppid |-> first[pid].ppid, kind |-> first[pid].kind]],
                        Self, [birth |-> Self, ppid |-> Init1, kind |-> SelfKind]),
                   Init1, [birth |-> Init1, ppid |-> 0, kind |-> InitKind])
  /\ births = MaxPid
  /\ stayed = {}
  /\ met = {}
  /\ freed = {}
  /\ phase = "idle"
  /\ timer = FALSE
  /\ m_filterType = "OnlyGUI"
  /\ cursor = 0
  /\ reading = None
  /\ b = FALSE
  /\ m_guiPIDList = {}
  /\ m_trayPIDs = {}
  /\ m_pidCtoPMapping = << >>
  /\ m_procEntryMap = << >>
  /\ shown = None

-----------------------------------------------------------------------------
(* The processes                                                           *)

\* fork and exec by a living process.
Start(pid, parent, kind) ==
  /\ births < MaxBirths
  /\ pid \in Pids \ (DOMAIN proc \cup freed)
  /\ parent \in DOMAIN proc
  /\ births' = births + 1
  /\ proc' = With(proc, pid, [birth |-> births', ppid |-> parent, kind |-> kind])
  /\ met' = IF phase = "scan" THEN met \cup {births'} ELSE met
  /\ UNCHANGED <<stayed, freed, phase, timer, m_filterType, scanVars, shown>>

\* A process ends and init takes its children.
Exit(pid) ==
  /\ pid \in DOMAIN proc \ {Init1, Self}
  /\ proc' = [p \in DOMAIN proc \ {pid} |->
                [proc[p] EXCEPT !.ppid = IF @ = pid THEN Init1 ELSE @]]
  /\ stayed' = stayed \ {proc[pid].birth}
  /\ freed' = IF phase = "scan" THEN freed \cup {pid} ELSE freed
  /\ UNCHANGED <<births, met, phase, timer, m_filterType, scanVars, shown>>

-----------------------------------------------------------------------------
(* updateStatus                                                            *)

Alive == {proc[pid].birth : pid \in DOMAIN proc}

\* Mutants of ClearMaps: entries or parents of the last scan survive.
ClearMapsKeepingEntries ==
  /\ m_pidCtoPMapping' = << >>
  /\ UNCHANGED m_procEntryMap

ClearMapsKeepingParents ==
  /\ m_procEntryMap' = << >>
  /\ UNCHANGED m_pidCtoPMapping

ClearMaps ==
  /\ m_procEntryMap' = << >>
  /\ m_pidCtoPMapping' = << >>

\* updateStatus up to readProcStats: the windows are looked up before the scan.
UpdateStatus ==
  /\ phase' = "scan"
  /\ ClearMaps
  /\ m_guiPIDList' = {pid \in DOMAIN proc : proc[pid].kind["window"]}
  /\ m_trayPIDs' = {pid \in DOMAIN proc : proc[pid].kind["tray"]}
  /\ cursor' = 0
  /\ reading' = None
  /\ b' = FALSE
  /\ stayed' = Alive
  /\ met' = Alive
  /\ freed' = {}
  /\ UNCHANGED <<proc, births, shown>>

\* The timer's timeout.
Timeout ==
  /\ phase = "idle"
  /\ timer
  /\ UpdateStatus
  /\ UNCHANGED <<timer, m_filterType>>

\* cacheUpdated, which comes if there are desktop entries: the first starts the
\* timer, once the update it runs is over.
CacheUpdated ==
  /\ phase = "idle"
  /\ ~timer
  /\ UpdateStatus
  /\ UNCHANGED <<timer, m_filterType>>

\* setFilterType: the timer rests during the update.
SetFilterType(type) ==
  /\ phase = "idle"
  /\ m_filterType # type
  /\ m_filterType' = type
  /\ timer' = FALSE
  /\ UpdateStatus

\* readdir returns the next id; a process that has just started may be missed.
ReadDir(pid) ==
  /\ phase = "scan"
  /\ reading = None
  /\ pid \in DOMAIN proc
  /\ pid > cursor
  /\ \A p \in DOMAIN proc : p > cursor /\ p < pid => proc[p].birth \notin stayed
  /\ cursor' = pid
  /\ reading' = [pid |-> pid, birth |-> proc[pid].birth]
  /\ UNCHANGED <<osVars, phase, timer, m_filterType, b, m_guiPIDList, m_trayPIDs,
                 m_pidCtoPMapping, m_procEntryMap, shown>>

\* The files of the process are read, and readProcStatsCallback enters it.
ReadProc ==
  /\ reading # None
  /\ reading.pid \in DOMAIN proc
  /\ LET pid == reading.pid IN
       /\ m_pidCtoPMapping' = With(m_pidCtoPMapping, pid, proc[pid].ppid)
       /\ m_procEntryMap' =
            With(m_procEntryMap, pid, [birth |-> proc[pid].birth, kind |-> proc[pid].kind])
  /\ b' = TRUE
  /\ reading' = None
  /\ UNCHANGED <<osVars, phase, timer, m_filterType, cursor, m_guiPIDList, m_trayPIDs,
                 shown>>

\* Mutant of ReadProcFails: the scan ends at a process that is gone.
ReadProcFailsForAll ==
  /\ reading # None
  /\ reading.pid \notin DOMAIN proc
  /\ b' = TRUE
  /\ cursor' = MaxPid
  /\ reading' = None
  /\ UNCHANGED <<osVars, phase, timer, m_filterType, m_guiPIDList, m_trayPIDs,
                 m_pidCtoPMapping, m_procEntryMap, shown>>

\* The process is gone before its files are read.
ReadProcFails ==
  /\ reading # None
  /\ reading.pid \notin DOMAIN proc
  /\ b' = FALSE
  /\ reading' = None
  /\ UNCHANGED <<osVars, phase, timer, m_filterType, cursor, m_guiPIDList, m_trayPIDs,
                 m_pidCtoPMapping, m_procEntryMap, shown>>

-----------------------------------------------------------------------------
(* The end of updateStatus                                                 *)

Kind(pid) == m_procEntryMap[pid].kind

\* pid and what m_pidCtoPMapping leads to from it.
Ancestors(pid) ==
  {q \in Pids \cup {0} :
     \A S \in SUBSET (Pids \cup {0}) :
       /\ pid \in S
       /\ \A p \in S \cap DOMAIN m_pidCtoPMapping : m_pidCtoPMapping[p] \in S
       => q \in S}

AnyRootIsGuiProc(pid) == Ancestors(pid) \cap m_guiPIDList # {}

\* m_appList: processes whose name is an application's, and without a window.
AppList ==
  {pid \in DOMAIN m_procEntryMap :
     Kind(pid)["app"] /\ pid \notin m_guiPIDList /\ pid \notin m_trayPIDs}

\* filteredAppList: without scripts and what a process with a window has started.
FilteredAppList ==
  IF m_filterType # "OnlyGUI" THEN {}
  ELSE {pid \in AppList :
          ~Kind(pid)["script"] /\ ~AnyRootIsGuiProc(m_pidCtoPMapping[pid])}

Apps == m_trayPIDs \cup m_guiPIDList \cup FilteredAppList

Needed(pid) ==
  \/ m_filterType = "AllProcess"
  \/ m_filterType = "OnlyMe" /\ Kind(pid)["own"]
  \/ m_filterType = "OnlyGUI" /\ Kind(pid)["own"] /\ pid \in Apps

FilteredList == {pid \in DOMAIN m_procEntryMap : Needed(pid)}

\* The list is emitted if the last process was read to its end.
Emits == b /\ FilteredList # {}

\* Mutant of RestartsTimer: setFilterType leaves the timer stopped.
RestartsTimerIfActive == timer

\* The slot of cacheUpdated and setFilterType start the timer after the update.
RestartsTimer == TRUE

EndOfDir ==
  /\ phase = "scan"
  /\ reading = None
  /\ \A pid \in DOMAIN proc : pid > cursor => proc[pid].birth \notin stayed
  /\ phase' = "idle"
  /\ timer' = RestartsTimer
  /\ shown' = IF Emits
              THEN [mode |-> m_filterType,
                    rows |-> [pid \in FilteredList |-> m_procEntryMap[pid].birth]]
              ELSE shown
  /\ UNCHANGED <<osVars, m_filterType, scanVars>>

-----------------------------------------------------------------------------

Scan ==
  \/ \E pid \in Pids : ReadDir(pid)
  \/ ReadProc
  \/ ReadProcFails
  \/ EndOfDir

Next ==
  \/ \E pid, parent \in Pids, kind \in Kinds : Start(pid, parent, kind)
  \/ \E pid \in Pids : Exit(pid)
  \/ Timeout
  \/ CacheUpdated
  \/ \E type \in FilterTypes : SetFilterType(type)
  \/ Scan

\* The thread's timer fires while it is active, and a scan goes on to its end.
Spec == Init /\ [][Next]_vars /\ WF_vars(Timeout) /\ WF_vars(Scan)

-----------------------------------------------------------------------------
(* Properties *)

\* The recursions over parents and children (anyRootIsGuiProc, mergeSubProcNetIO)
\* end: although parents are read one by one while processes end and are given to
\* init, no process is its own ancestor.
ParentsFormNoCycle ==
  \A pid \in DOMAIN m_pidCtoPMapping : pid \notin Ancestors(m_pidCtoPMapping[pid])

\* What the user of a mode expects to see.
Belongs(mode, kind) ==
  \/ mode = "AllProcess"
  \/ mode = "OnlyMe" /\ kind["own"]
  \/ mode = "OnlyGUI" /\ kind["own"] /\ (kind["window"] \/ kind["tray"])

\* A list that is emitted holds every process that lived all through the scan and
\* belongs to the mode.
ListIsComplete ==
  [][EndOfDir /\ Emits =>
       \A pid \in DOMAIN proc :
         proc[pid].birth \in stayed /\ Belongs(m_filterType, proc[pid].kind)
         => pid \in DOMAIN shown'.rows]_vars

\* It holds no process that was gone when the scan began, and under OnlyMe and
\* OnlyGUI none of another user.
ListHasNoStrangers ==
  [][EndOfDir /\ Emits =>
       \A pid \in DOMAIN shown'.rows :
         /\ shown'.rows[pid] \in met
         /\ m_filterType # "AllProcess" => Kind(pid)["own"]]_vars

\* A display mode that is chosen and kept takes effect, once processes stop coming
\* and going.  (OnlyGUI is the mode before there is a timer.)
FilterTakesEffect ==
  \A type \in FilterTypes \ {"OnlyGUI"} :
    m_filterType = type ~> m_filterType # type \/ (shown # None /\ shown.mode = type)
=============================================================================
