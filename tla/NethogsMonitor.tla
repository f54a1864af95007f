--------------------------- MODULE NethogsMonitor ---------------------------
(***************************************************************************)
(* Traffic per process: the monitor thread of the bundled nethogs library    *)
(* (src/nethogs/src/libnethogs.cpp, process.cpp, connection.cpp), the table   *)
(* of pending rows it shares with the statistics thread                      *)
(* (src/src/network_traffic_filter.cpp), and the part of                     *)
(* StatsCollector::updateStatus that empties that table.                     *)
(*                                                                         *)
(* The monitor thread is cut at its callbacks, between which the statistics  *)
(* thread may take rows out under the filter's mutex.                        *)
(* A connection is known by its local endpoint: findConnection falls back on  *)
(* the source address, so there is one connection per endpoint.  Which        *)
(* process owns a new connection is what /proc says, here any.  Sent and      *)
(* received bytes are counted together and the average rate is left out.      *)
(* Nodes are addresses: what is freed may be allocated again.                 *)
(***************************************************************************)
EXTENDS Integers, Sequences, FiniteSets, SequencesExt

CONSTANTS
  Endpoints,    \* local ends of connections
  Pids,         \* process ids
  NoPid,        \* pid 0: no process was found
  Nodes,        \* addresses of ProcList nodes
  unknowntcp,   \* the node made by process_init
  ConnTimeout,  \* CONNTIMEOUT
  ProcTimeout,  \* PROCESSTIMEOUT
  MaxGap,       \* longest time between two refreshes
  MaxTime,      \* bound on the seconds that pass
  MaxBytes,     \* bound on the bytes of a connection
  MaxRecords    \* bound on the records made

ASSUME ConstantsAssumption ==
  /\ NoPid \notin Pids
  /\ unknowntcp \in Nodes
  /\ ConnTimeout \in Nat \ {0}
  /\ ProcTimeout \in Nat
  /\ MaxGap \in Nat \ {0}
  /\ MaxTime \in Nat

ASSUME BoundsAssumption == IsFiniteSet(Endpoints) /\ MaxRecords \in Nat

\* The library has 50 and 150 seconds: a refresh comes within the difference.
ASSUME TimeoutsAssumption == MaxGap + ConnTimeout <= ProcTimeout

VARIABLES
  curtime,             \* time of the last packet or of the last look at the clock
  refreshed,           \* monitor_last_refresh_time
  connections,         \* endpoint -> time of its last packet and bytes so far
  processes,           \* the nodes of the process list
  proc,                \* node -> pid and connections of its Process
  monitor_record_map,  \* node -> its record
  record_id,           \* id of the last record made
  curproc,             \* position in handle_update's walk, 0 outside of it
  m_row_updates_map,   \* record id -> pending row
  draining,            \* updateStatus is taking rows out
  m_procNetIO,         \* pid -> traffic, as far as drained
  taken                \* record id -> the last row taken out for it

monitorVars == <<curtime, refreshed, connections, processes, proc,
                 monitor_record_map, record_id, curproc>>
collectorVars == <<draining, m_procNetIO, taken>>
vars == <<monitorVars, m_row_updates_map, collectorVars>>

\* f with x mapped to y.
With(f, x, y) == [z \in DOMAIN f \cup {x} |-> IF z = x THEN y ELSE f[z]]

Without(f, S) == [z \in DOMAIN f \ S |-> f[z]]

Empty == [x \in {} |-> x]

\* The clock counts from the epoch, so it is past any timeout from the start.
Init ==
  /\ curtime = ProcTimeout
  /\ refreshed = ProcTimeout - 1
  /\ connections = Empty
  /\ processes = <<unknowntcp>>
  /\ proc = [n \in {unknowntcp} |-> [pid |-> NoPid, connections |-> {}]]
  /\ monitor_record_map = Empty
  /\ record_id = 0
  /\ curproc = 0
  /\ m_row_updates_map = Empty
  /\ draining = FALSE
  /\ m_procNetIO = Empty
  /\ taken = Empty

-----------------------------------------------------------------------------
(* Packets: dp_dispatch, process_tcp and process_udp                       *)

\* A second passes; a dispatch without packets looks at the clock.
Tick ==
  /\ curproc = 0
  /\ curtime < ProcTimeout + MaxTime
  /\ curtime - refreshed < MaxGap
  /\ curtime' = curtime + 1
  /\ UNCHANGED <<refreshed, connections, processes, proc, monitor_record_map,
                 record_id, curproc, m_row_updates_map, collectorVars>>

\* A packet of a known connection.
AddPacket(e) ==
  /\ curproc = 0
  /\ e \in DOMAIN connections
  /\ connections[e].bytes < MaxBytes
  /\ connections' = [connections EXCEPT ![e] = [lastpacket |-> curtime,
                                                bytes |-> @.bytes + 1]]
  /\ UNCHANGED <<curtime, refreshed, processes, proc, monitor_record_map, record_id,
                 curproc, m_row_updates_map, collectorVars>>

\* findProcess: the nodes with a pid.
FindProcess(pid) == {n \in ToSet(processes) : proc[n].pid = pid}

\* Mutant of GetProcess: the list is not searched for the pid.
GetProcessAlwaysNew(e, pid) ==
  \E n \in Nodes \ ToSet(processes) :
    /\ proc' = With(proc, n, [pid |-> pid, connections |-> {e}])
    /\ processes' = <<n>> \o processes

\* getProcess: the connection goes to the process of that pid.  If it has none in
\* the list, or no pid was found, a new one goes to the front.
GetProcess(e, pid) ==
  \/ \E n \in FindProcess(pid) :
       /\ pid # NoPid
       /\ proc' = [proc EXCEPT ![n].connections = @ \cup {e}]
       /\ UNCHANGED processes
  \/ \E n \in Nodes \ ToSet(processes) :
       /\ pid = NoPid \/ FindProcess(pid) = {}
       /\ proc' = With(proc, n, [pid |-> pid, connections |-> {e}])
       /\ processes' = <<n>> \o processes

\* A packet of no known connection.
NewConnection(e, pid) ==
  /\ curproc = 0
  /\ e \notin DOMAIN connections
  /\ connections' = With(connections, e, [lastpacket |-> curtime, bytes |-> 1])
  /\ GetProcess(e, pid)
  /\ UNCHANGED <<curtime, refreshed, monitor_record_map, record_id, curproc,
                 m_row_updates_map, collectorVars>>

-----------------------------------------------------------------------------
(* nethogsmonitor_handle_update                                            *)

\* Mutant of SetRowUpdate: std::map::insert, which keeps the pending row.
SetRowUpdateInsert(action, record) ==
  m_row_updates_map' =
    IF /\ action = "REMOVE" \/ record.bytes # 0
       /\ record.record_id \notin DOMAIN m_row_updates_map
    THEN With(m_row_updates_map, record.record_id, [action |-> action, record |-> record])
    ELSE m_row_updates_map

\* setRowUpdate: rows without traffic are dropped, a row replaces the pending one
\* of the same record.
SetRowUpdate(action, record) ==
  m_row_updates_map' =
    IF action = "REMOVE" \/ record.bytes # 0
    THEN With(m_row_updates_map, record.record_id, [action |-> action, record |-> record])
    ELSE m_row_updates_map

StartRefresh ==
  /\ curproc = 0
  /\ refreshed + 1 <= curtime
  /\ refreshed' = curtime
  /\ curproc' = 1
  /\ UNCHANGED <<curtime, connections, processes, proc, monitor_record_map,
                 record_id, m_row_updates_map, collectorVars>>

\* Mutants of TimedOut: the node of unknown traffic is not spared, or the timeout
\* is that of connections.
TimedOutUnknownToo(n) ==
  /\ ProcTimeout <= curtime
  /\ \A e \in proc[n].connections : connections[e].lastpacket + ProcTimeout <= curtime

TimedOutEarly(n) ==
  /\ n # unknowntcp
  /\ \A e \in proc[n].connections : connections[e].lastpacket + ConnTimeout <= curtime

\* getLastPacket is 0 for a process without connections.
TimedOut(n) ==
  /\ n # unknowntcp
  /\ ProcTimeout <= curtime
  /\ \A e \in proc[n].connections : connections[e].lastpacket + ProcTimeout <= curtime

\* Mutants of RemoveProcess: the record is not erased, or the Process not deleted.
RemoveProcessKeepingRecord ==
  /\ curproc \in 1..Len(processes)
  /\ LET n == processes[curproc] IN
       /\ TimedOut(n)
       /\ IF n \in DOMAIN monitor_record_map
          THEN SetRowUpdate("REMOVE", monitor_record_map[n])
          ELSE UNCHANGED m_row_updates_map
       /\ proc' = Without(proc, {n})
  /\ processes' = RemoveAt(processes, curproc)
  /\ UNCHANGED <<curtime, refreshed, connections, monitor_record_map, record_id, curproc,
                 collectorVars>>

RemoveProcessLeaking ==
  /\ curproc \in 1..Len(processes)
  /\ TimedOut(processes[curproc])
  /\ processes' = RemoveAt(processes, curproc)
  /\ UNCHANGED <<curtime, refreshed, connections, proc, monitor_record_map,
                 record_id, curproc, m_row_updates_map, collectorVars>>

\* The walk meets a timed-out process: node and Process are deleted.
RemoveProcess ==
  /\ curproc \in 1..Len(processes)
  /\ LET n == processes[curproc] IN
       /\ TimedOut(n)
       /\ IF n \in DOMAIN monitor_record_map
          THEN SetRowUpdate("REMOVE", monitor_record_map[n])
          ELSE UNCHANGED m_row_updates_map
       /\ monitor_record_map' = Without(monitor_record_map, {n})
       /\ proc' = Without(proc, {n})
  /\ processes' = RemoveAt(processes, curproc)
  /\ UNCHANGED <<curtime, refreshed, connections, record_id, curproc, collectorVars>>

\* getkbps deletes the connections that had no packet for ConnTimeout.
Stalled(n) ==
  {e \in proc[n].connections : connections[e].lastpacket <= curtime - ConnTimeout}

\* gettotal: the bytes of the connections that are left.
Total(n) ==
  MapThenSumSet(LAMBDA e : connections[e].bytes, proc[n].connections \ Stalled(n))

\* The record of a node, if it has one.
Recorded(n) == {monitor_record_map[m] : m \in {n} \cap DOMAIN monitor_record_map}

\* The record of a node as the walk leaves it; a new one gets the next id.
UpToDate(n) ==
  IF n \in DOMAIN monitor_record_map
  THEN [monitor_record_map[n] EXCEPT !.bytes = Total(n)]
  ELSE [record_id |-> record_id + 1, pid |-> proc[n].pid, bytes |-> Total(n)]

\* The walk meets any other process: its stalled connections are deleted, its
\* record is made or brought up to date, and reported if that changed it (the
\* rate, which is left out, may have changed when the bytes have not).
ReportProcess ==
  /\ curproc \in 1..Len(processes)
  /\ LET n == processes[curproc]
         record == UpToDate(n)
     IN
       /\ ~TimedOut(n)
       /\ record.record_id <= MaxRecords
       /\ connections' = Without(connections, Stalled(n))
       /\ proc' = [proc EXCEPT ![n].connections = @ \ Stalled(n)]
       /\ record_id' = IF n \in DOMAIN monitor_record_map THEN record_id
                                                        ELSE record_id + 1
       /\ monitor_record_map' = With(monitor_record_map, n, record)
       /\ \/ SetRowUpdate("SET", record)
          \/ record \in Recorded(n) /\ UNCHANGED m_row_updates_map
  /\ curproc' = curproc + 1
  /\ UNCHANGED <<curtime, refreshed, processes, collectorVars>>

EndRefresh ==
  /\ curproc > Len(processes)
  /\ curproc' = 0
  /\ UNCHANGED <<curtime, refreshed, connections, processes, proc,
                 monitor_record_map, record_id, m_row_updates_map, collectorVars>>

-----------------------------------------------------------------------------
(* StatsCollector::updateStatus                                            *)

StartDrain ==
  /\ ~draining
  /\ draining' = TRUE
  /\ m_procNetIO' = Empty
  /\ UNCHANGED <<monitorVars, m_row_updates_map, taken>>

\* getRowUpdate takes the row with the smallest record id.
DrainRow ==
  /\ draining
  /\ \E id \in DOMAIN m_row_updates_map :
       /\ \A other \in DOMAIN m_row_updates_map : id <= other
       /\ LET row == m_row_updates_map[id] IN
            /\ m_procNetIO' = IF row.action = "REMOVE" THEN m_procNetIO
                              ELSE With(m_procNetIO, row.record.pid, row.record)
            /\ taken' = With(taken, id, row)
       /\ m_row_updates_map' = Without(m_row_updates_map, {id})
  /\ UNCHANGED <<monitorVars, draining>>

EndDrain ==
  /\ draining
  /\ DOMAIN m_row_updates_map = {}
  /\ draining' = FALSE
  /\ UNCHANGED <<monitorVars, m_row_updates_map, m_procNetIO, taken>>

-----------------------------------------------------------------------------

Next ==
  \/ Tick
  \/ \E e \in Endpoints : AddPacket(e)
  \/ \E e \in Endpoints, pid \in Pids \cup {NoPid} : NewConnection(e, pid)
  \/ StartRefresh \/ RemoveProcess \/ ReportProcess \/ EndRefresh
  \/ StartDrain \/ DrainRow \/ EndDrain

Spec == Init /\ [][Next]_vars

-----------------------------------------------------------------------------
(* Properties *)

Record == [record_id : 1..MaxRecords, pid : Pids \cup {NoPid}, bytes : Nat]

Row == [action : {"SET", "REMOVE"}, record : Record]

TypeOK ==
  /\ curtime \in Nat
  /\ refreshed \in Int
  /\ DOMAIN connections \subseteq Endpoints
  /\ connections \in [DOMAIN connections -> [lastpacket : Nat, bytes : Nat]]
  /\ processes \in Seq(Nodes)
  /\ proc \in [ToSet(processes) -> [pid : Pids \cup {NoPid},
                                      connections : SUBSET Endpoints]]
  /\ DOMAIN monitor_record_map \subseteq Nodes
  /\ monitor_record_map \in [DOMAIN monitor_record_map -> Record]
  /\ record_id \in 0..MaxRecords
  /\ curproc \in Nat
  /\ DOMAIN m_row_updates_map \subseteq 1..MaxRecords
  /\ m_row_updates_map \in [DOMAIN m_row_updates_map -> Row]
  /\ draining \in BOOLEAN
  /\ DOMAIN m_procNetIO \subseteq Pids \cup {NoPid}
  /\ m_procNetIO \in [DOMAIN m_procNetIO -> Record]
  /\ DOMAIN taken \subseteq 1..MaxRecords
  /\ taken \in [DOMAIN taken -> Row]

\* A process has one node, whatever was removed and looked up again, and "we must
\* take care these never get removed from the list" (process.cpp:61): the node of
\* unknown traffic stays, at the end.
ProcessListWellFormed ==
  /\ processes # << >>
  /\ processes[Len(processes)] = unknowntcp
  /\ \A i, j \in 1..Len(processes) :
       i # j => /\ processes[i] # processes[j]
                /\ \/ proc[processes[i]].pid = NoPid
                   \/ proc[processes[i]].pid # proc[processes[j]].pid

\* Every connection packets are added to is in the list of exactly one process,
\* so its bytes are counted once; no process refers to a deleted connection.
ConnectionsOwned ==
  /\ \A e \in DOMAIN connections : \E n \in ToSet(processes) : e \in proc[n].connections
  /\ \A n \in ToSet(processes) : proc[n].connections \subseteq DOMAIN connections
  /\ \A m, n \in ToSet(processes) :
       m # n => proc[m].connections \cap proc[n].connections = {}

\* A record belongs to a listed node and has its pid, also when the address of a
\* deleted node is used again; no two nodes share a record id.
RecordsFollowNodes ==
  /\ DOMAIN monitor_record_map \subseteq ToSet(processes)
  /\ \A n \in DOMAIN monitor_record_map : monitor_record_map[n].pid = proc[n].pid
  /\ \A m, n \in DOMAIN monitor_record_map :
       m # n => monitor_record_map[m].record_id # monitor_record_map[n].record_id

\* What the statistics thread will have got for a record once it has emptied the
\* table.
Reaches(id) ==
  IF id \in DOMAIN m_row_updates_map THEN {m_row_updates_map[id]}
  ELSE {taken[i] : i \in {id} \cap DOMAIN taken}

\* Nothing is lost between the threads: the last state of a record with traffic,
\* and the removal of a record, are pending or were taken out last.
NoUpdateLost ==
  /\ \A n \in DOMAIN monitor_record_map :
       LET record == monitor_record_map[n] IN
         record.bytes # 0
           => Reaches(record.record_id) = {[action |-> "SET", record |-> record]}
  /\ \A id \in 1..record_id :
       id \notin {monitor_record_map[n].record_id : n \in DOMAIN monitor_record_map}
         => \E row \in Reaches(id) : row.action = "REMOVE"

\* When a process was removed and found again between two rows of it, the traffic
\* on display is that of the newer record.
NewerRecordWins ==
  [][\A pid \in Pids \cap DOMAIN m_procNetIO \cap DOMAIN m_procNetIO' :
       m_procNetIO'[pid].record_id >= m_procNetIO[pid].record_id]_vars
=============================================================================
