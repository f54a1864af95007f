--------------------------- MODULE ProcessSamples ---------------------------
(***************************************************************************)
(* The CPU shares of processes (src/src/process/stats_collector.cpp): every  *)
(* update compares the CPU time of the machine and of each process with the   *)
(* samples of the update before.  m_procMap keeps the sample of a process id    *)
(* for good: that of a process that has ended is taken for one of the process   *)
(* that was given its id.                                                     *)
(*                                                                         *)
(* Processes are external; in the kernel's accounts each tick of a CPU goes to *)
(* one process or none.  /proc is read in the order of ids, as in              *)
(* StatsCollector, which has the rest of updateStatus.                        *)
(***************************************************************************)
EXTENDS Integers

CONSTANTS
  MaxPid,     \* ids are 1..MaxPid
  MaxTicks,   \* bound on the ticks of all CPUs
  Word,       \* 2^64: the counters are unsigned
  None

Pids == 1..MaxPid

ASSUME SamplesAssumption ==
  /\ MaxPid \in Nat
  /\ MaxTicks \in Nat
  /\ Word \in Nat /\ Word > MaxTicks
  /\ None \notin Nat

VARIABLES
  ticks,          \* CPU time of the machine, idle time included
  proc,           \* living pid -> its CPU time, and what that was when read last
  former,         \* id -> what the CPU time of its former process was when read last
  phase,          \* "idle" or "scan"
  cursor,         \* the last id read
  young,          \* ids of processes that started during the scan
  m_cpuStat,      \* last and current CPU time of the machine
  m_procMap,      \* last and current CPU time by id
  m_procEntryMap  \* id -> CPU time to show, and that of the machine

osVars == <<ticks, proc, former>>
scanVars == <<phase, cursor, young, m_cpuStat, m_procMap, m_procEntryMap>>
vars == <<osVars, scanVars>>

With(f, x, y) == [z \in DOMAIN f \cup {x} |-> IF z = x THEN y ELSE f[z]]

NewProcess == [cpu |-> 0, seen |-> None]

Init ==
  /\ ticks = 0
  /\ proc = [pid \in Pids |-> NewProcess]
  /\ former = [pid \in Pids |-> 0]
  /\ phase = "idle"
  /\ cursor = 0
  /\ young = {}
  /\ m_cpuStat = [last |-> 0, current |-> 0]
  /\ m_procMap = [last |-> << >>, current |-> << >>]
  /\ m_procEntryMap = << >>

-----------------------------------------------------------------------------
(* The processes                                                           *)

Tick ==
  /\ ticks < MaxTicks
  /\ ticks' = ticks + 1
  /\ \/ UNCHANGED proc
     \/ \E pid \in DOMAIN proc : proc' = [proc EXCEPT ![pid].cpu = @ + 1]
  /\ UNCHANGED <<former, scanVars>>

Start(pid) ==
  /\ pid \in Pids \ DOMAIN proc
  /\ proc' = With(proc, pid, NewProcess)
  /\ young' = IF phase = "scan" THEN young \cup {pid} ELSE young
  /\ UNCHANGED <<ticks, former, phase, cursor, m_cpuStat, m_procMap, m_procEntryMap>>

\* Any process but init and this program ends.
Exit(pid) ==
  /\ pid \in DOMAIN proc \ {1}
  /\ proc' = [p \in DOMAIN proc \ {pid} |-> proc[p]]
  /\ former' = [former EXCEPT ![pid] = IF proc[pid].seen = None THEN @ ELSE proc[pid].seen]
  /\ young' = young \ {pid}
  /\ UNCHANGED <<ticks, phase, cursor, m_cpuStat, m_procMap, m_procEntryMap>>

-----------------------------------------------------------------------------
(* updateStatus                                                            *)

\* Mutant of LastSamples: the last samples stay.
LastSamplesKept == m_procMap

LastSamples == [m_procMap EXCEPT !.last = m_procMap.current]

\* Mutant of NextCPUStat: current is compared with itself, last stays.
NextCPUStatNewOnly == [m_cpuStat EXCEPT !.last = ticks, !.current = ticks]

NextCPUStat == [last |-> m_cpuStat.current, current |-> ticks]

\* updateStatus up to the scan, on the timer or a change of the display mode.  If
\* /proc/stat cannot be read, both samples of the machine stay.
UpdateStatus ==
  /\ phase = "idle"
  /\ phase' = "scan"
  /\ m_cpuStat' \in {NextCPUStat, m_cpuStat}
  /\ m_procMap' = LastSamples
  /\ m_procEntryMap' = << >>
  /\ cursor' = 0
  /\ young' = {}
  /\ UNCHANGED osVars

\* Mutant of Used: the difference of two unsigned numbers.
UsedUnsigned(before, now) == (now - before) % Word

\* What calcProcCPUStats takes for the process's share of the ticks.
Used(before, now) == IF now < before THEN 0 ELSE (now - before) % Word

Delta ==
  LET delta == (m_cpuStat.current - m_cpuStat.last) % Word IN
    IF delta = 0 THEN 1 ELSE delta

\* The next process in /proc is read, and readProcStatsCallback enters it.  One
\* that has just started may be missed.
ReadProc(pid) ==
  /\ phase = "scan"
  /\ pid \in DOMAIN proc
  /\ pid > cursor
  /\ \A p \in DOMAIN proc \ young : p <= cursor \/ p >= pid
  /\ LET now == proc[pid].cpu
         before == IF pid \in DOMAIN m_procMap.last THEN m_procMap.last[pid] ELSE 0
     IN /\ m_procEntryMap' =
             With(m_procEntryMap, pid, [cpu |-> Used(before, now), delta |-> Delta])
        /\ m_procMap' = [m_procMap EXCEPT !.current = With(@, pid, now)]
        /\ proc' = [proc EXCEPT ![pid].seen = now]
  /\ cursor' = pid
  /\ UNCHANGED <<ticks, former, phase, young, m_cpuStat>>

EndOfDir ==
  /\ phase = "scan"
  /\ \A pid \in DOMAIN proc \ young : pid <= cursor
  /\ phase' = "idle"
  /\ UNCHANGED <<osVars, cursor, young, m_cpuStat, m_procMap, m_procEntryMap>>

Next ==
  \/ Tick
  \/ \E pid \in Pids : Start(pid)
  \/ \E pid \in Pids : Exit(pid)
  \/ UpdateStatus
  \/ \E pid \in Pids : ReadProc(pid)
  \/ EndOfDir

Spec == Init /\ [][Next]_vars

-----------------------------------------------------------------------------
(* Properties *)

\* A process is shown with what it used since it was read last, whatever process had
\* its id before and whatever updates it was missing from.  Read for the first time, it
\* is shown with what it used beyond the last sample of the former process of its id,
\* which is subtracted as if it were its own: with too little, or nothing, never too much.
UseSinceLastSample ==
  [][\A pid \in Pids :
       ReadProc(pid) =>
         m_procEntryMap'[pid].cpu =
           IF proc[pid].seen # None THEN proc[pid].cpu - proc[pid].seen
           ELSE IF proc[pid].cpu < former[pid] THEN 0
           ELSE proc[pid].cpu - former[pid]]_vars

\* A share over 100% is no more than the scan took: no process is shown with more
\* CPU time than the machine has had since the update before this one began, or an
\* older one if /proc/stat could not be read.
ShareIsBounded ==
  \A pid \in DOMAIN m_procEntryMap :
    LET entry == m_procEntryMap[pid] IN
      entry.cpu <= entry.delta + (ticks - m_cpuStat.current)
=============================================================================
