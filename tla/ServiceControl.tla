--------------------------- MODULE ServiceControl ---------------------------
(***************************************************************************)
(* Starting, stopping and enabling services: ServiceManager and CustomTimer   *)
(* (src/src/service/service_manager.cpp) and the worker that lists services   *)
(* (src/src/service/service_manager_worker.cpp), with the table of services   *)
(* they keep up to date (ServiceTable).                                       *)
(*                                                                         *)
(* systemd is external: it runs the job a request queues, and units end on    *)
(* their own.  A request is a series of D-Bus calls that block the GUI thread *)
(* while systemd goes on; the reads that make up one entry, and those that    *)
(* make up one list, are taken as one step.  Each change of a unit has a       *)
(* version, so that what is shown can be compared with what was.              *)
(***************************************************************************)
EXTENDS ServiceTable

CONSTANTS
  Units,        \* services whose state is controlled
  Template,     \* a template "name@": the user supplies the instance
  Instances,    \* the units that are instances of Template
  MaxPolls,     \* polls of a timer after its first, 6 in the code
  MaxRequests,  \* bound on the requests made
  MaxVersion    \* bound on the changes of a unit

ASSUME UnitAssumption ==
  /\ Instances \subseteq Units
  /\ Template \notin Units
  /\ Blank \notin Units
  /\ Names = Units \cup {Template, Blank}
  /\ MaxPolls \in Nat

VARIABLES
  unit,     \* u -> active state and version
  job,      \* u -> systemd's job for u, or None
  jobEnd,   \* u -> version at the end of its last requested job
  call,     \* the request the GUI thread is in, or None
  polls,    \* one CustomTimer per request that started one
  gaveUp,   \* units whose timer stopped at a state that is not final
  enabling, \* units with a pkexec systemctl running
  enabled,  \* units whose systemctl has exited, unheard of by the GUI
  result,   \* the list the worker has made, or None
  asked,    \* u -> version when a list was last asked for
  requests  \* number of requests made

systemVars == <<unit, job, jobEnd>>
pollVars   == <<polls, gaveUp>>
modeVars   == <<enabling, enabled>>
listVars   == <<result, asked>>
ctrlVars == <<systemVars, call, pollVars, modeVars, listVars, requests>>
allVars == <<tableVars, ctrlVars>>

ActiveStates == {"inactive", "activating", "active", "deactivating", "failed"}
Ops == {"start", "stop", "restart"}

\* What the table is told of a service, and by whom.
Entries == [state : ActiveStates \cup {""}, ver : 0..MaxVersion,
            by : {"list", "request", "poll", "mode"}]

ASSUME EntriesAssumption == MaxVersion \in Nat /\ Entries \subseteq Values

\* A D-Bus path that names a job, at which there is no unit.
JobPath == Blank

ControlInit ==
  /\ TableInit
  /\ unit = [u \in Units |-> [state |-> "inactive", ver |-> 0]]
  /\ job = [u \in Units |-> None]
  /\ jobEnd = [u \in Units |-> 0]
  /\ call = None
  /\ polls = << >>
  /\ gaveUp = {}
  /\ enabling = {}
  /\ enabled = {}
  /\ result = None
  /\ asked = [u \in Units |-> 0]
  /\ requests = 0

-----------------------------------------------------------------------------
(* systemd                                                                 *)

NextState(u, state) == [state |-> state, ver |-> unit[u].ver + 1]

\* The job goes on, and its operation becomes "start" in the middle of a restart.
JobStep(u, state, op) ==
  /\ unit' = [unit EXCEPT ![u] = NextState(u, state)]
  /\ job' = [job EXCEPT ![u] = op]
  /\ UNCHANGED jobEnd

JobEnds(u, state) ==
  /\ unit' = [unit EXCEPT ![u] = IF state = @.state THEN @ ELSE NextState(u, state)]
  /\ job' = [job EXCEPT ![u] = None]
  /\ jobEnd' = [jobEnd EXCEPT ![u] = unit'[u].ver]

RunJob(u) ==
  /\ job[u] # None
  /\ LET state == unit[u].state IN
       \/ job[u] \in {"stop", "restart"} /\ state \in {"active", "activating"}
            /\ JobStep(u, "deactivating", job[u])
       \/ job[u] \in {"start", "restart"} /\ state = "deactivating"
            /\ JobStep(u, "inactive", "start")
       \/ job[u] \in {"start", "restart"} /\ state \in {"inactive", "failed"}
            /\ JobStep(u, "activating", "start")
       \/ job[u] = "start" /\ state = "active" /\ JobEnds(u, "active")
       \/ job[u] = "start" /\ state = "activating"
            /\ \E end \in {"active", "failed"} : JobEnds(u, end)
       \/ job[u] = "stop" /\ state = "deactivating"
            /\ \E end \in {"inactive", "failed"} : JobEnds(u, end)
       \/ job[u] = "stop" /\ state \in {"inactive", "failed"} /\ JobEnds(u, state)

\* A service ends without being asked to.
EndsAlone(u) ==
  /\ job[u] = None
  /\ unit[u].state = "active"
  /\ \E state \in {"inactive", "failed"} : unit' = [unit EXCEPT ![u] = NextState(u, state)]
  /\ UNCHANGED <<job, jobEnd>>

\* systemctl enables or disables the unit file, or fails.
SystemctlRuns(u) ==
  /\ u \in enabling
  /\ enabling' = enabling \ {u}
  /\ \/ /\ unit' = [unit EXCEPT ![u] = NextState(u, @.state)]
        /\ enabled' = enabled \cup {u}
     \/ UNCHANGED <<unit, enabled>>
  /\ UNCHANGED <<job, jobEnd>>

Systemd ==
  /\ \E u \in Units :
       /\ unit[u].ver < MaxVersion
       /\ \/ (RunJob(u) \/ EndsAlone(u)) /\ UNCHANGED modeVars
          \/ SystemctlRuns(u)
  /\ UNCHANGED <<tableVars, call, pollVars, listVars, requests>>

-----------------------------------------------------------------------------
(* Requests                                                                *)

\* Mutants of IsFinalState: a state missing, or one too many.
IsFinalStateOrStopping(state) == state \in {"active", "inactive", "failed", "deactivating"}

IsFinalState(state) == state \in {"active", "inactive", "failed"}

\* What updateServiceEntry reads at a path; at the path of a job, getId and all
\* the other reads fail.
EntryAt(path, by) ==
  IF path = JobPath
  THEN [state |-> "", ver |-> 0, by |-> by]
  ELSE [state |-> unit[path].state, ver |-> unit[path].ver, by |-> by]

GuiIdle == call = None

\* The services a request may be about: that of m_selectedSName, and for a
\* template an instance the user names.
Requested ==
  IF m_selectedSName = Template THEN Instances ELSE {m_selectedSName} \cap Units

\* startService, stopService, restartService up to StartUnit, StopUnit and
\* RestartUnit.  (A call that fails changes nothing.)
Request(u, op) ==
  /\ GuiIdle
  /\ ~m_loading
  /\ requests < MaxRequests
  /\ u \in Requested
  /\ job' = [job EXCEPT ![u] = op]
  /\ call' = [unit |-> u, path |-> None]
  /\ requests' = requests + 1
  /\ UNCHANGED <<tableVars, unit, jobEnd, pollVars, modeVars, listVars>>

\* GetUnit.  Any error has code kErrorTypeDBus, so the path is then computed from
\* the name, in a variable of its own: o goes on holding the job's path.
GetUnit ==
  /\ call # None
  /\ call.path = None
  /\ \E path \in {call.unit, JobPath} : call' = [call EXCEPT !.path = path]
  /\ UNCHANGED <<tableVars, systemVars, pollVars, modeVars, listVars, requests>>

\* updateServiceEntry and, unless the state is final, a timer that polls o.
ReadEntry ==
  /\ call # None
  /\ call.path # None
  /\ LET u == call.unit
         entry == EntryAt(u, "request")
     IN
       /\ UpdateServiceEntry(u, entry)
       /\ polls' = IF IsFinalState(entry.state) THEN polls
                   ELSE Append(polls, [path |-> call.path, cnt |-> 0, on |-> TRUE])
       /\ gaveUp' = (gaveUp \ {u})
                      \cup (IF call.path = JobPath /\ ~IsFinalState(entry.state) THEN {u}
                            ELSE {})
  /\ call' = None
  /\ UNCHANGED <<systemVars, modeVars, listVars, requests>>

\* Mutant of MorePolls: m_cnt never stops the timer.
MorePollsForever(cnt) == TRUE

MorePolls(cnt) == cnt < MaxPolls

\* A CustomTimer fires.
Poll(i) ==
  /\ GuiIdle
  /\ polls[i].on
  /\ LET path == polls[i].path
         entry == EntryAt(path, "poll")
     IN
       /\ UpdateServiceEntry(path, entry)
       /\ \/ /\ ~IsFinalState(entry.state)
             /\ MorePolls(polls[i].cnt)
             /\ polls' = [polls EXCEPT ![i].cnt = IF @ < MaxPolls THEN @ + 1 ELSE @]
             /\ UNCHANGED gaveUp
          \/ /\ IsFinalState(entry.state) \/ ~MorePolls(polls[i].cnt)
             /\ polls' = [polls EXCEPT ![i].on = FALSE]
             /\ gaveUp' = IF IsFinalState(entry.state) THEN gaveUp ELSE gaveUp \cup {path}
  /\ UNCHANGED <<systemVars, call, modeVars, listVars, requests>>

\* setServiceStartupMode starts pkexec systemctl and returns.
SetServiceStartupMode(u) ==
  /\ GuiIdle
  /\ ~m_loading
  /\ requests < MaxRequests
  /\ u \in Requested
  /\ m_selectedSName # Template
  /\ enabling' = enabling \cup {u}
  /\ requests' = requests + 1
  /\ UNCHANGED <<tableVars, systemVars, call, pollVars, enabled, listVars>>

\* Its slot for finished, after success.
SystemctlFinished(u) ==
  /\ GuiIdle
  /\ u \in enabled
  /\ enabled' = enabled \ {u}
  /\ UpdateServiceEntry(u, EntryAt(u, "mode"))
  /\ UNCHANGED <<systemVars, call, pollVars, enabling, listVars, requests>>

-----------------------------------------------------------------------------
(* Lists                                                                   *)

\* Services with a unit file, and the others that are loaded.
Listed == {u \in Units : u \in Instances => unit[u].state # "inactive"} \cup {Template}

\* startJob; if D-Bus fails there are no services.
StartJob ==
  /\ jobs > 0
  /\ result = None
  /\ \E listed \in {{}, Listed} :
       result' = [i \in 1..Cardinality(listed) |->
                    LET name == SetToSeq(listed)[i] IN
                      [name |-> name,
                       value |-> IF name = Template
                                 THEN [state |-> "", ver |-> 0, by |-> "list"]
                                 ELSE EntryAt(name, "list")]]
  /\ UNCHANGED <<tableVars, systemVars, call, pollVars, modeVars, asked, requests>>

ListReady ==
  /\ GuiIdle
  /\ result # None
  /\ UpdateServiceList(result)
  /\ result' = None
  /\ UNCHANGED <<systemVars, call, pollVars, modeVars, asked, requests>>

\* A list is asked for.
AskForList ==
  /\ GuiIdle
  /\ OpenServiceTab \/ Refresh
  /\ asked' = [u \in Units |-> unit[u].ver]
  /\ UNCHANGED <<systemVars, call, pollVars, modeVars, result, requests>>

\* The table is scrolled, or a row is selected.
Browse ==
  /\ GuiIdle
  /\ FetchMore \/ \E row \in proxy.shown : Click(row)
  /\ UNCHANGED ctrlVars

-----------------------------------------------------------------------------

ControlNext ==
  \/ Systemd
  \/ \E u \in Units, op \in Ops : Request(u, op)
  \/ GetUnit
  \/ ReadEntry
  \/ \E i \in DOMAIN polls : Poll(i)
  \/ \E u \in Units : SetServiceStartupMode(u)
  \/ \E u \in Units : SystemctlFinished(u)
  \/ StartJob
  \/ ListReady
  \/ AskForList
  \/ Browse

\* D-Bus calls return or time out, timers fire, and queued signals are handled.
\* systemd and the user owe nothing.
ControlSpec ==
  /\ ControlInit
  /\ [][ControlNext]_allVars
  /\ WF_allVars(GetUnit)
  /\ WF_allVars(ReadEntry)
  /\ \A i \in 1..MaxRequests : WF_allVars(i \in DOMAIN polls /\ Poll(i))
  /\ WF_allVars(StartJob)
  /\ WF_allVars(ListReady)

-----------------------------------------------------------------------------
(* Properties *)

\* A service shown in passing, as a request or a poll found it, is under a timer
\* that will look again, unless its timer gave up or polls a job's path.
PassingStateIsPolled ==
  \A u \in Units \cap DOMAIN m_svcMap :
    /\ m_svcMap[u].by \in {"request", "poll"}
    /\ m_svcMap[u].state \notin {"active", "inactive", "failed"}
    => \/ \E i \in DOMAIN polls : polls[i].on /\ polls[i].path = u
       \/ u \in gaveUp

\* A list that arrives is no older than the last refresh: nothing in it was read
\* before the user asked.
ListIsNotOlderThanRefresh ==
  [][ListReady =>
       \A u \in Units \cap DOMAIN m_svcMap' : m_svcMap'[u].ver >= asked[u]]_allVars

\* Every timer stops, whatever systemd does.
PollingEnds ==
  \A i \in 1..MaxRequests : (i \in DOMAIN polls /\ polls[i].on)
                              ~> (i \in DOMAIN polls /\ ~polls[i].on)

\* Each wait for a list ends, with requests and polls going on.
EveryLoadingEnds == m_loading ~> ~m_loading

\* The comment on CustomTimer (service_manager.h) claims that it fixes a "status
\* column not shown final state after service start/stop/restart": once nothing is
\* under way, what is shown of a service is not older than the end of its job.
FinalStateIsShown ==
  /\ call = None
  /\ ~m_loading
  /\ \A i \in DOMAIN polls : ~polls[i].on
  => \A u \in Units \cap DOMAIN m_svcMap :
       job[u] = None => m_svcMap[u].ver >= jobEnd[u]
=============================================================================
