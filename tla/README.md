# TLA+ models of deepin-system-monitor

deepin-system-monitor is a Qt5 program in C++ (`src/src`) that shows the processes, the
system services and the load of a machine, lets the user signal and renice processes and
control services, and bundles the nethogs library (`src/nethogs/src`) to attribute network
traffic to processes. This directory holds TLA+ models of its core logic, TLC
configurations that check them, and TLAPS proofs about them.

## 1. The system

### Threads

| thread | runs | talks to the others by |
|---|---|---|
| GUI | widgets, table models, `SystemMonitor`, `ServiceManager` | Qt signals; direct within the thread, queued between threads |
| statistics (`SystemMonitor::m_workerThread`) | `StatsCollector`: every 2 s reads /proc, drains the traffic rows, emits lists and numbers | queued signals to the GUI, `NetworkTrafficFilter`'s mutex |
| cache (`StatsCollector::m_cacheThread`) | `DesktopEntryStat`: desktop files, every now and then | queued `cacheUpdated` |
| service worker | `ServiceManagerWorker::startJob`: lists units and unit files over D-Bus | queued `beginUpdateList` / `resultReady` |
| nethogs monitor (detached) | `nethogsmonitor_loop`: packets, connections, processes, records | callback into `NetworkTrafficFilter` |
| one per promoted request | `ProcessController`, `PriorityController`: `pkexec kill`, `pkexec renice` | queued `resultReady` |

### Components, their state and what makes them correct

* **Process table model** (`model/process_table_model.cpp`). State: `m_processList` (rows),
  `m_processMap` (process id to row). Operations: `updateProcessList` with a snapshot of the
  statistics thread, and slots for a process that was ended, killed, paused, resumed,
  reniced. Correct when rows and map agree whenever a view may look, when the views are told
  of the row that is really removed, and when a snapshot ends up being the table. Hard: the
  two representations are edited side by side and the views are called back half-way.
* **Process table view** (`gui/process_table_view.cpp`). State: Qt's selection and
  `m_selectedPID`. Correct when requests concern the process that is highlighted. Hard:
  confirmation dialogs run nested event loops while the table changes; Qt moves the selection
  when a row disappears.
* **Signals to processes** (`SystemMonitor::sendSignalToProcess`, `ProcessController`). State:
  the pending promotions. Correct when each request is answered truthfully and SIGTERM does
  not hang. Hard: results of a thread per request, other users' processes, processes that
  change meanwhile, missing programs.
* **Priorities** (`SystemMonitor::setProcessPriority`, `PriorityController`). As above, with
  the value to show as state.
* **Network traffic per process** (`nethogs/src`, `network_traffic_filter.cpp`). State: the
  connection list, the process list with each process's connections, one record per list
  node, the pending rows. Correct when each connection is counted for one process, the
  special process is never removed, records follow their nodes and no row is lost between
  the threads. Hard: two timeouts, deletion while walking, maps keyed by addresses, two
  threads.
* **Owner of a socket** (`conninode.cpp`, `inode2prog.cpp`). State: two caches, of
  /proc/net/tcp and of the descriptors in /proc. Correct when a packet is counted for a process
  that took part in its flow, also when it comes after the connection was closed. Hard: the
  tables are read one after the other while sockets and processes come and go, and neither
  cache ever forgets.
* **Statistics collector** (`process/stats_collector.cpp`). State: last and current samples,
  parent and child maps, display mode, timer. Correct when the list it emits holds the
  processes that belong to the mode the user chose, the parents it reads form a forest, and
  rates are differences over the interval. Hard: the start of the timer, scans disturbed by
  exits, unsigned arithmetic.
* **/proc parsing** (`process_stat.cpp`, `system_stat.cpp`, `process_entry.cpp`), **desktop
  entries** (`desktop_entry_stat.cpp`).
* **Service manager** (`service/`). State: a request under way, polling timers, pkexec
  processes, the worker's job. Correct when the table comes to show the state a unit ends in.
  Hard: polling with back-off, systemd's object paths, lists that overtake polls.
* **Service table** (`model/system_service_table_model.cpp`,
  `gui/system_service_table_view.cpp`). State: `m_svcList`, `m_svcMap`, `m_nr` (rows loaded so
  far), `m_loading`. Correct when each service has one row, the rows on display are the ones
  loaded that match the search, and the highlighted service is the remembered one. Hard: rows
  are announced to the proxy before they are counted.
* **systemd wrappers** (`dbus/`), **process page and window killer**
  (`process_page_widget.cpp`, `interactive_kill.cpp`, `find_window_title.cpp`), **main window,
  toolbar, settings**, **monitors** (history lists and drawing), **proxies, delegates,
  dialogs and text helpers**.

`PROJECT.json` lists each with its files and status, and the hazards at their lines.

## 2. Modules

| module | models |
|---|---|
| `ProcessTable` | abstract: the table as a function from process to entry |
| `ProcessTableModel` | `ProcessTableModel`, one action per loop iteration and slot |
| `ProcessTableView` | extends `ProcessTableModel` with the view's selection and dialogs |
| `ProcessTableModelProofs` | TLAPS proofs about `ProcessTableModel` and `ProcessTableView` |
| `ProcessControl` | `sendSignalToProcess` and `ProcessController` |
| `ProcessControlProofs` | its TLAPS proofs |
| `PriorityControl` | `setProcessPriority` and `PriorityController` over `ProcessTable`, with the lists that overtake them |
| `PriorityControlProofs` | its TLAPS proofs |
| `NethogsMonitor` | the monitor thread, `NetworkTrafficFilter`, the draining in `updateStatus` |
| `NethogsMonitorProofs` | its TLAPS proofs |
| `SocketOwner` | `getProcess` of nethogs with the caches of `conninode.cpp` and `inode2prog.cpp` |
| `SocketOwnerProofs` | its TLAPS proofs |
| `StatsCollector` | the scan of /proc, the display modes, the list emitted |
| `StatsCollectorProofs` | its TLAPS proofs |
| `ProcessSamples` | the samples of two updates and the CPU shares |
| `ProcessSamplesProofs` | its TLAPS proofs |
| `ServiceTable` | `SystemServiceTableModel`, its proxy, selection, search and refresh |
| `ServiceControl` | extends `ServiceTable` with systemd, requests, polls, startup modes and the worker |
| `ServiceTableProofs` | TLAPS proofs about `ServiceTable` and `ServiceControl` |
| `MC...` | constants for TLC |

Operators named as mutants in their comments are changed forms of the definition that
follows them. They are used in no specification; replacing the definition by one of them
shows that a property can fail (`PROJECT.json`, "mutants").

### ProcessTableModel

`m_processList` and `m_processMap` are the code's; `phase`, `list`, `next` and `hash` are the
local state of a running `updateProcessList`. The code is one slot, yet `beginInsertRows`,
`endRemoveRows` and `dataChanged` call the views inside it, so each iteration is an action and
the invariants hold between any two. Requests' slots run in the same thread and so only when
no update runs (`phase = "idle"`). An entry is the process id, state and nice value: the other
columns are copied with it. Snapshots have distinct ids because the collector builds them from
a map keyed by id (`SnapshotsAssumption`).

`ProcessTable` is what the views rely on. The refinement mapping `Settled` shows the table
that has been decided: from the moment `updateProcessList` is entered, the snapshot, with the
entries already met read through the row map. The update takes its abstract step when it
starts, and every iteration is a stutter; removed rows have left the abstract table at once.

### ProcessTableView

Adds Qt's current and selected row (external, modelled by what QAbstractItemView does when
the current row is removed: a neighbour is selected, any may be it since the order is the
sort column's), `m_selectedPID`, the rows hidden by the search, an open dialog with the process
that was selected when it opened (`named`), and the last request (`sent`). A user acts only when
no update runs; table updates run under an open dialog.

### ProcessControl

Processes run, are stopped or gone; some belong to other users; SIGTERM waits at a stopped
process (`termPending`). `sendSignalToProcess` is two actions, split between the SIGCONT and
the signal, because a process may change between the two system calls. A controller thread
goes through `checkPkexec`, `checkKill`, `execute`, `prompt`, `report`; `QThread::exit` does
not leave `run`, so a missing program is reported and the thread goes on. Results are queued in
`events` and handled in order. Whether pkexec and kill exist is chosen in `Init`.

### PriorityControl

`setProcessPriority` runs in the GUI thread and is one action; a promotion goes through the
steps of `PriorityController::run`, as in `ProcessControl`. The table is `ProcessTable`, which
`ProcessTableModel` is proved to implement: a result shows a value (`Table!ShowPriority`), and a
list of the statistics thread, read some time before it arrives, replaces the table
(`Table!ShowSnapshot`). `had` is a history variable: the nice values a process has had. The
kernel refuses to renice processes of others and to raise the priority of own ones; other
programs may renice a process at any time. A process with a static priority is left alone by
the code, silently. `getProcessPriorityStub` of a process without a row reads row 0, and an
undefined value if the table is empty (`StubsRead`).

A list holds the processes the display mode wants (`Needed`: all, the user's, or those of his with a
window, a tray icon or a desktop entry), and an empty one is not emitted (`EmitList`), so that the
last list stays on display. `apps` stands for what the mode OnlyGUI goes by; `StatsCollector` has
that in detail. The timer is started by the first `cacheUpdated` (`CacheUpdated`) or a change of the mode
(`SetFilterType`), and both scan at once. A scan at whose end the last process of /proc could not be
read emits nothing: of those two actions that is an alternative, of the timer's `ReadList` it is a
stuttering step.

### NethogsMonitor

The monitor thread's actions are cut at its callbacks, where it takes the filter's mutex; the
statistics thread takes one row per action. A node of the process list is an address that
may be allocated again after it was freed, as records are keyed by it. `taken` (the last row
drained for a record) is a history variable, read by properties only. The owner of a new connection is whatever process /proc names, or none: `SocketOwner` says which.

### SocketOwner

The kernel is external: processes (`fds`) open, inherit and close sockets and end; `socket` keeps
the address of every inode ever given, `timeWait` the addresses listed without an inode, `held` who
has had which socket (a history variable, as are `owner` and `known`). The monitor thread is cut
where it reads: `GetProcess` is called for the first packet of a connection (`PacketOf`) and looks into `conninode` and `inodeproc`, `ReadDir`, `ReadLink` and
`SetNode` are the walk of `reread_mapping`, one process and one descriptor at a time,
`Refresh` reads /proc/net/tcp, whose rows come in an unspecified order, and looks again. A key is a
local address and a flow (local port, remote address and port); every row is entered under all
addresses the devices had when the program started (`local_addrs`) as well. `HandleUpdate` reads
/proc/net/tcp at each refresh too, without a walk. The same addresses tell the direction of a
packet: one sent from any other address is taken as received, and its connection is looked up with the
ends exchanged, under a key no row has (`Inverted`; `REVERSEHACK` is off). A process that ends
between the reading of its link and of its command line makes `read_file` end the program:
`pc = "exited"`.

### StatsCollector

`UpdateStatus` is the part of `updateStatus` before the scan (called by the timer, the first
`cacheUpdated` and `setFilterType`), `EndOfDir` the part after it; between them each directory
entry is two actions, `ReadDir` and `ReadProc` or `ReadProcFails`, while processes start, exit
and are given to init. /proc is walked in the order of ids: a process that lives all through
the scan is met, one that has just started may be missed. A process's kind (own, has a window
or tray icon, named like an application, a script, started from a desktop file) stands for the
comparisons of names, windows and environments in `readProcStatsCallback` and
`setProcDisplayNameAndIcon`. `stayed`, `met` and `freed` are history variables; an id freed during
a scan is not given out again in it, as the kernel hands out ids in a cycle. The rates, the counts of the summary, names and icons are left out.

### ProcessSamples

The part of the same update that `StatsCollector` leaves out: `UpdateStatus` takes the CPU time of
the machine and makes the current samples the last ones, `ReadProc` enters the sample of a process
and what `calcProcCPUStats` makes of it. `m_procMap` is never cleared, so a process may meet the
sample of another that had its id: it is subtracted as if it were its own. If /proc/stat cannot be
read, both samples of the machine stay while those of the processes move on. `seen` (the CPU time of a
process when it was last read) and `former` (the same of the last process that had the id and was
read) are history variables. Each tick of a CPU is accounted to one process or none; the counters are
unsigned (`Word`).

### ServiceTable and ServiceControl

`ServiceTable` keeps `m_svcList`, `m_svcMap`, `m_nr` and `m_loading`; `proxy` is what
QSortFilterProxyModel has been told: how many source rows it knows and which pass the filter
(external). `updateServiceEntry` announces a row behind the loaded ones without raising `m_nr`,
and `fetchMore` announces it again: `slots` and the number of rows may differ, and the
properties speak of what is on display. `Blank` is the name of an entry whose unit could not be read.

`ServiceControl` adds the units of systemd and their jobs (external: a job may go through
passing states, end as asked or fail; a unit may end by itself) and the code's part: `Request`,
`GetUnit` and `ReadEntry` are the D-Bus calls of `startService` and its like, `Poll` a timeout of
`CustomTimer`, `SetServiceStartupMode` and `SystemctlFinished` the change by pkexec, `AskForList`,
`StartJob` and `ListReady` the worker. An entry is read in one step. `ver` numbers the changes of
a unit, so that older and newer readings can be told apart; `by` says who showed an entry. The
path of a job, with which the polling goes on after NoSuchUnit because a second variable hides
the unit's, is `JobPath`.

## 3. Runs

| run | bounds | shows |
|---|---|---|
| `table` | 3 processes, snapshots of up to 3 in two orders | `TypeOK`, `RowIndexConsistent`, `NoStaleRowBehindIterator`, `ReadEntriesOnDisplay`, refinement `TableSpec`, `UpdateTerminates` |
| `view` | 3 processes, any search | `SelectionIsRemembered`, `SelectionMovesOnlyWithItsRow`, `ConfirmedProcessIsTheNamedOne` |
| `control` | 1 process, 2 requests | `SuccessMeansDelivered`, `NoMixedAnswers`, `DirectTerminationNeverHangs`, `RequestsAreAnswered` |
| `control_hang` | as `control` | violates `TerminationNeverHangs` |
| `priority` | 1 process, 2 requests, 2 values | `ShownPriorityWasReal`, `OneOutcome`, `LastingPriorityIsShown` |
| `nethogs` | 2 connections, 2 processes, 4 nodes, 3 seconds, 3 records, 2 packets each | `TypeOK`, `ProcessListWellFormed`, `ConnectionsOwned`, `RecordsFollowNodes`, `NoUpdateLost`, `NewerRecordWins` |
| `stats` | 4 ids of which 2 change hands, 2 births | `ParentsFormNoCycle`, `ListIsComplete`, `ListHasNoStrangers`, `FilterTakesEffect` |
| `sockets` | 2 processes, 2 sockets, 2 flows, 2 addresses of which 1 is known | `OwnerTookPart`, `RightOwner`, `LatePacketsFindOwner` |
| `samples` | 2 ids, one of which changes hands, 5 ticks | `ShareIsBounded`, `UseSinceLastSample` |
| `services` | 3 services in batches of 2 | `TableTypeOK`, `OneRowPerService`, `ShowsLoadedMatches`, `SelectionIsRemembered` |
| `service_control` | a template and an instance of it, 2 requests, 1 poll each, 3 changes of the unit | `PassingStateIsPolled`, `ListIsNotOlderThanRefresh`, `PollingEnds`, `EveryLoadingEnds` |
| `service_final` | as `service_control` | violates `FinalStateIsShown` |

Bounds. Three processes let a row be removed with one above and one below it, and a process
leave and return. Two requests let results overtake each other on one process, and two nice
values make one of the two changes need pkexec. In `nethogs`
two connections on two processes, with four addresses, are enough for a deleted node to be
allocated again for the other process while its old record is pending; connections time out
after 1 s, processes after 2 s (50 and 150 in the code), so both timeouts happen within the
3 s. `MaxGap`, the longest time between two refreshes, is 1 s as in the code's loop: with
`MaxGap + ConnTimeout <= ProcTimeout` a connection is always deleted by its own timeout before
its process times out, which is what `ConnectionsOwned` needs (see below for a suspend).
`MaxTime`, `MaxBytes` and `MaxRecords` cap the clock, the byte counts and the record ids.
In `stats` two processes of every interesting kind live when the program starts, one started
by the other, and both ids may be given out again with the order of parent and child reversed:
the shortest way to a cycle of parents, had the maps not been cleared. In `sockets` an id, an address and a flow can each be used again after another socket had them,
a socket can be inherited, and a packet can come from an address its socket does not have; five
ticks in `samples` are more than a process's predecessor can have used and still be exceeded.
Three services in
batches of two need a second `fetchMore`, and one of them may be appended while one is unloaded.
In `service_control` three changes of a unit are a job's passing state, its end and one more;
one poll (seven in the code) is both the first and the last.

Fairness. `ProcessTableModel`: `WF` on the loops, since a slot that was entered runs to its
end. `ProcessControl`: `WF` on the GUI thread's steps and on each controller's own steps, not on
pkexec's end, which waits for the user. `PriorityControl`: `WF` on the arrival of lists and on
`ReadList`: while the timer is active and the mode wants some process, not every scan is thrown
away. The code scans every 2 seconds and throws a scan away when the process with the last entry of /proc
exits just then, which need not end, but would take such an exit at each update. `StatsCollector`: `WF` on the timer while it is active and on the scan, which reads a
finite directory; not on `CacheUpdated`, which never comes without desktop files.
`ServiceControl`: `WF` on D-Bus calls (they return or time out), on timers and on the worker;
systemd and the user owe nothing. The other specifications are checked for safety only.
`ProcessControl` may stop (all requests answered, no process left), so its runs do not check
deadlock.

### What the violated properties say

* `TerminationNeverHangs` (`system_monitor.cpp:214`, "send SIGCONT first, otherwise signal will
  hang"): a SIGTERM promoted through pkexec is sent without the SIGCONT; a stopped process of
  another user is reported ended and stays stopped. What does hold is
  `DirectTerminationNeverHangs`.
* `FinalStateIsShown` (`service_manager.h:19`, "temporary solution to fix status column not shown
  final state after service start/stop/restart"): the state read right after a job was queued
  may be the one from before it, which is final as well, so nothing polls.

Other divergences were met and are not kept as runs:

* a process is removed with its last connection, before `PROCESSTIMEOUT` (`nethogs.h:46-48`), since
  `getLastPacket` is then 0;
* the first packet of a connection is looked up with the ends exchanged if it was sent from an address
  that no device had when the program started, and no process is found although the socket is open;
  "'1.2.3.4' should be the local address" (`packet.cpp:257`). `RightOwner` and `LatePacketsFindOwner`
  name this case and say that it is the only one;
* a new process with the id of another is at its first reading shown with what it used beyond the
  other's last sample, or with nothing (`stats_collector.cpp:188-189`, `572-582`): too little.
  `UseSinceLastSample` says exactly how much, and that the next reading is right;
* the priority of a process shown from a list that is followed by none (no process belongs to the
  display mode any more, or the timer never started) may be an old one;
* each connection without a known process gets a process of its own, not the "unknown" one
  (`process.cpp:270-271`);
* with `MaxGap = 3` in `NethogsMonitor`, as after a suspend, a process is deleted and its
  connections are not, though the walk is "throwing away connections that haven't received a
  package" (`libnethogs.cpp:169-171`); their later packets are counted for nobody;
* the traffic of a child that has a row of its own is added to its parent's row and stays in its
  own, though a comment says it is transferred (`stats_collector.cpp:481`);
* nethogs means to go on with a process that disappeared (`process.cpp:240-242`) and `read_file`
  ends the program instead (`SocketOwner`, `pc = "exited"`);
* `wdiff - cwdiff` (`stats_collector.cpp:608`) wraps when more was cancelled than written, though
  `CHANGELOG.md:61` reports the overflow of these rates fixed.

## 4. Proofs

Every invariant and every action property that a passing run checks is a theorem for all values
of the constants; only liveness is not (below). Constants are assumed to be what the
specification needs them to be and no more; the assumptions that say something about the code are
`SnapshotsAssumption` of `ProcessTableModel`, `PrioritiesAssumption` (a nice value is in -20..19),
`KindsAssumption` (a process that runs when the program starts has a smaller id than its
children), `SamplesAssumption` (the counters do not wrap), `StatesAssumption` (a process that is
stopped or continued shows "T" or "R", which are states), `EntriesAssumption` (what is read of a
unit is an entry of the table) and `TimeoutsAssumption` of `NethogsMonitor`. The others give
constants their types, keep the values that stand for "none" apart from real ones, or make a bound
finite (`BoundsAssumption`: there are finitely many local ends of connections).

### ProcessTableModel and ProcessTableView

`ProcessTableModelProofs` proves, for all sets of processes, states, nice values and snapshots
(from `SnapshotsAssumption` alone), that `Spec` implies `[]IInv`, and from it `TypeOK`,
`RowIndexConsistent`, `NoStaleRowBehindIterator`, `ReadEntriesOnDisplay` and the refinement
`TableSpec`. That the row announced by the removal loop is the one its iterator removes is part of
`RowIndexConsistent`.

`RowIndexConsistent` by itself is inductive only together with the types. The refinement
needs more: that the entries met so far are in their rows as the snapshot gave them, that
`hash` is the set of their ids, and that the iterator has passed only rows of that set. `IInv` is
the conjunction. Two lemmas on sequences (`RemoveAtProperties`, `AppendProperties`) and one on
the removal of a row (`RemoveRow`, cited by the loop and by the slots) carry the argument;
each action has a lemma, and `StepRefines` maps each to an abstract step or a stutter.

`UpdateDescends` is the part of `UpdateTerminates` that needs no fairness: inside of
`updateProcessList` every step is one of the loops', and lowers `StepsLeft`, a natural number
(`StepsLeftIsNatural`). The removal loop may leave its iterator in place, the first loop may append
rows for the second, so neither `next` nor the list's length alone goes down.

The view's theorems need nothing of the model's `IInv`: whatever rows a step takes out of the view,
Qt's reaction (`RowsLeaveStep`) keeps `ViewInv`. `SelectionIsRemembered` is one half of it; the
other, `NamedIsCurrent`, says that the process named when a dialog was opened is still the current and
the remembered one, unless its row has left the view. `ConfirmedProcessIsTheNamedOne` follows from
it, and `SelectionMovesOnlyWithItsRow` from `RowsLeaveStep`.

`ViewUsesModel` shows that the view, with its requests' outcomes, is a use of the model by its
slots (`ViewStepOfModel`, which needs that a process whose state is rewritten has a row). With
it every theorem about the model holds under the view: the one that says
the view looks rows up rightly is stated as `ViewReadsConsistentRows`, and the refinement of the
process table as `ViewRefinement`.

### ProcessSamples

`ShareIsBounded` (no process is shown with more than the machine has had) and `UseSinceLastSample`
(the use shown is exact, for the first process of an id and for those that follow). A share
is a difference of two differences read at four times. `UseIsBounded` orders them: a process
that has been read in the last scan (`UpToDate`) has used no more since then than the machine since
that scan began, and any other no more than the machine since the scan before. `SamplesKept` says
whose samples the maps hold: the living process's, or if it was not read yet that of the process
before it (`LastRead`), since `m_procMap` is never cleared; `Clocks` that no
reading is ahead of the machine. `NoWrap` turns the unsigned subtractions into differences.

### StatsCollector

`ParentsFormNoCycle`, `ListIsComplete` and `ListHasNoStrangers`. Ids may be given out again in any
order, so no order of ids excludes a cycle of parents; the order of births does. In the kernel
it holds at once (`ParentsAreOlder`). What was read of a parent and of its child was read
at different times, so the invariant follows both: an entry is about the process that has the id now
unless that ended (`ReadIsCurrent`), and of two entries read the parent is older (`ReadInOrder`).
A cycle of entries would have no oldest member. `PassedIsRead` (what stays through
the scan and was passed has an entry or is being read) and `WindowsKnown` give the completeness of the list.

### ProcessControl and PriorityControl

`OInv` relates the place a controller has reached to the outcomes its request has: none before
it is done (`NoEarlyOutcome`), none of success for a controller that lacks a program
(`UnableFails`), success only after the signal was delivered (`SuccessIsTrue`, and for exit codes
still to be reported `ExitCodeIsTrue`). Outcomes told and outcomes queued are counted alike
(`Outcomes`), so delivering an event is a stutter of them. From it follow `SuccessMeansDelivered`
and `NoMixedAnswers`. `DirectTerminationNeverHangs` needs that controllers are for
processes of others only and that a process found stopped after its SIGCONT was stopped by
someone else in between (`HInv`).

`PriorityControl` uses the same argument for `OneOutcome`. `ShownPriorityWasReal` is about four
places a nice value can be in: the kernel (`NiceWasHad`), a list on its way (`ListWasReal`), a
result on its way (`ResultsAreReal`) and the table; it is inductive over all four.

`Refinement` of `PriorityControl` says that it uses the table of `ProcessTable` as promised: a list
that arrives is a snapshot, and a result that arrives, however late, changes one entry or, if the
process has no row any more, nothing.

### ServiceTable and ServiceControl

`OneRowPerService` and the types are inductive together. `ProxyFollows` says that between loads the
proxy has a slot for every loaded row and shows exactly the loaded rows that match; the slots
matter because a search goes through them only. From it and `SelectedRow` follow
`ShowsLoadedMatches` and `SelectionIsRemembered`. `More` is the batch arithmetic of `fetchMore`
(`MoreEffect`); a refresh builds the map of the list it was given.

`ControlInv` does not rest on the table's invariant. `PassingStateIsPolled` needs that every entry
of the map has a row or is on its way to one (`EntriesHaveRows`). `ListIsNotOlderThanRefresh`
needs that only one list is being read (`OneListAtATime`: `m_loading` rejects further refreshes) and
that its readings are as young as the refresh that asked for them (`ResultIsFresh`).

`ControlUsesTable` composes the two: every step of `ServiceControl` is a step of `ServiceTable`,
taken with a list or an entry of the kind that module allows, or leaves the table alone; so
`TableStaysConsistent`. It needs an invariant of both, `UseInv`: nothing is selected, polled or under
way before the tab was opened (`BeforeOpening`, a theorem of its own, since `ServiceTable` lets
entries be updated only after that), the list in hand names each service once (`ListInHand`), and
the readings stay within the bound of the model (`Versions`).

`TimersRunOut` is the part of `PollingEnds` that needs no fairness: a firing lowers `PollsLeft` of
its timer, and no step raises it, so a timer that stopped is not started again.

### NethogsMonitor

`CInv` is about nodes and connections. A process is deleted as soon as it has no connection; if
it were deleted by its own timeout with connections, these would be left without an owner. `Fresh`
shows that it never is: a refresh leaves no connection that has stalled and the next one comes
within `MaxGap`, so the last packet of a process that has connections then is no older than
`MaxGap + ConnTimeout`. This is where `MaxGap + ConnTimeout <= ProcTimeout` is used; with 50 and 150 seconds it asks for a
refresh within 100 (the loop takes one each second). It is not true through a suspend, see section 3.

`RInv` is about the records. The row pending for a record is of that record, and of its node's
process unless it removes it (`RowsFollowRecords`). `NoUpdateLost` is proved as its two
halves: the last state of a living record (`LastStateReaches`) and the removal of a dead one
(`RemovalReaches`) is either pending or drained. `NewerRecordWins` needs `NoneOlder`: what the
collector has taken of a process is of a record no younger than the one its node has now.

`TypeCorrectness` has to show that the bytes of a record are a natural number. They are summed over
a set of connections by the recursive function of `MapThenSumSet`, and the induction theorems of the
library cannot be used. `SumsExist` gets around that with the least number of a set
(`LeastNumber`): were there sizes of sets for which no function adds up as the definition asks,
there would be a least one, and the function for the size below could be extended
(`AddsUpMore`). `SumOfBytes` says that the recursion has a solution and that its values are natural
numbers. Only finite sets have such a sum, hence `BoundsAssumption`.

### SocketOwner

`SocketOwnerProofs` proves the three properties of `SocketOwner` for any number of processes,
sockets, flows and addresses, from `SocketAssumption`. None of them is inductive, and none can be:
each speaks of the answer, which comes many steps after what was read for it.

* `OwnerTookPart`: `IInv` says that both caches, and the link about to be entered, hold only what
  was true once: a mapping of `conninode` leads to a socket of its flow (`ConninodeSound`), an
  entry of `inodeproc` to a process that has held the socket (`InodeprocSound`, `LinkSound`).
  The kernel only adds to the history (`KernelGrows`), so nothing read late becomes false of it.
* `RightOwner` needs that nothing is missed. `KeyExplained`: a key looked up in /proc/net/tcp has a
  row there if its socket is open. `WalkCovers`: the walk has found the socket it looks for with
  its only holder, if it came past that process and the process still has the socket. Descriptors
  are listed before their links are read, so the invariant follows the socket through `left` and
  `link`; the kernel cannot break it, because a socket that exists passes to another process only
  by `fork`, and then has two holders (`KernelGivesNoOldSocket`).
* `LatePacketsFindOwner` rests on `KnownFound`: where a process was found, both caches keep an
  answer. It fails as soon as `conninode` forgets, which the mutant of `Kept` shows.

The last two say that nobody is found for a packet looked up with its ends exchanged; it takes that no
such key is ever answered from a cache (`Answers`).

`SInv` is their conjunction (TLC checked it before it was proved). `Answers` lists the four ways an
answer is given; the theorems are about actions and follow from `SInv` with one lemma each.

### Only model-checked

* The liveness properties `UpdateTerminates`, `RequestsAreAnswered`, `LastingPriorityIsShown`,
  `FilterTakesEffect`, `PollingEnds` and `EveryLoadingEnds`: the prover does not reason about fairness.
  `UpdateDescends` and `TimersRunOut` are their safety halves for the loops and the timers.

## 5. Plan

1. Done: process table and view, signals, priorities, network traffic, socket owners, the
   statistics scan and the CPU shares, service table and service control.
2. Done: proofs of the invariants and action properties of all modules, and that
   `ProcessTableView`, `PriorityControl` and `ServiceControl` use the tables they are built on as
   promised (section 4).
3. To come: composition of `StatsCollector` with `ProcessTable`: the list emitted is the list shown.

### Not modelled

* Parsing of /proc, of packets and of desktop files, D-Bus marshalling, painting, the translation
  files (`translations/`), settings files: input, output and layout without behaviour of their own.
* Disk and system-wide rates: differences of two samples of one update, in one thread.
* The window killer: the process id of a window is taken when the killer opens and is handed by
  value through a confirmation to `killProcess`; nothing is read again on the way.
* The toolbar's delayed search, tabs, the monitors' history lists: single-threaded forwarding of
  one value or a list cut to its last entries.
* `nethogsmonitor_init`: its loop does not advance over a device that cannot be opened
  (`libnethogs.cpp:97`), which is plain without a model.
