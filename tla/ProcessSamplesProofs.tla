------------------------ MODULE ProcessSamplesProofs ------------------------
(***************************************************************************)
(* A process is shown with what it used since the last sample of its id, and    *)
(* with no more than the machine has had, for any number of ids and ticks.     *)
(***************************************************************************)
EXTENDS ProcessSamples, TLAPS

Process == [cpu : Nat, seen : Nat \cup {None}]
Maps(D, T) == UNION {[ids -> T] : ids \in SUBSET D}
Samples == Maps(Pids, Nat)

\* The counters are those of one machine: they never run ahead of its clock.
Types ==
  /\ ticks \in 0..MaxTicks
  /\ proc \in Maps(Pids, Process)
  /\ former \in [Pids -> Nat]
  /\ phase \in {"idle", "scan"}
  /\ cursor \in Nat
  /\ m_cpuStat \in [last : Nat, current : Nat]
  /\ m_procMap \in [last : Samples, current : Samples]

Clocks ==
  /\ m_cpuStat.last <= m_cpuStat.current
  /\ m_cpuStat.current <= ticks
  /\ \A pid \in DOMAIN proc :
       /\ proc[pid].cpu <= ticks
       /\ proc[pid].seen # None => proc[pid].seen <= proc[pid].cpu

\* What was read of the process with this id last, or of the one that had the id before.
LastRead(pid) ==
  IF pid \in DOMAIN proc /\ proc[pid].seen # None THEN proc[pid].seen ELSE former[pid]

SampleOf(samples, pid) == IF pid \in DOMAIN samples THEN samples[pid] ELSE 0

\* The map by process id has what was read last of every id; during a scan the last
\* samples have it too, until the id is read.
SamplesKept ==
  \A pid \in Pids :
    /\ SampleOf(m_procMap.current, pid) = LastRead(pid)
    /\ phase = "scan" /\ pid > cursor => SampleOf(m_procMap.last, pid) = LastRead(pid)

\* What a process has used since it was read, or since its start.
Since(pid) == proc[pid].cpu - (IF proc[pid].seen = None THEN 0 ELSE proc[pid].seen)

\* The process has been read in the current scan, or in the last one if none is
\* going on, or has started since.
UpToDate(pid) == phase = "idle" \/ pid <= cursor \/ pid \in young

\* No process has used more since than the machine since that scan began.
UseIsBounded ==
  \A pid \in DOMAIN proc :
    /\ UpToDate(pid) => Since(pid) <= ticks - m_cpuStat.current
    /\ Since(pid) <= ticks - m_cpuStat.last

Shown == [cpu : Nat, delta : Nat]

EntriesTyped == m_procEntryMap \in [DOMAIN m_procEntryMap -> Shown]

IInv == Types /\ Clocks /\ SamplesKept /\ UseIsBounded /\ EntriesTyped /\ ShareIsBounded

-----------------------------------------------------------------------------
(* The operators                                                           *)

\* The counters never wrap, so the remainders are the differences themselves.
LEMMA NoWrap == ASSUME NEW x \in 0..MaxTicks PROVE x % Word = x
BY SamplesAssumption, SMT

LEMMA UsedIsDifference ==
  ASSUME NEW before \in Nat, NEW now \in 0..MaxTicks
  PROVE  Used(before, now) = IF now < before THEN 0 ELSE now - before
<1>1. CASE now < before
  BY <1>1 DEF Used
<1>2. CASE ~(now < before)
  <2>1. now - before \in 0..MaxTicks
    BY <1>2, SamplesAssumption
  <2>2. QED
    BY <1>2, <2>1, NoWrap DEF Used
<1>3. QED
  BY <1>1, <1>2

LEMMA DeltaIsDifference ==
  ASSUME Types, Clocks
  PROVE  Delta \in Nat /\ Delta >= m_cpuStat.current - m_cpuStat.last
<1>1. m_cpuStat.current - m_cpuStat.last \in 0..MaxTicks
  BY SamplesAssumption DEF Types, Clocks
<1>2. QED
  BY <1>1, NoWrap, SamplesAssumption DEF Delta

-----------------------------------------------------------------------------

LEMMA InitHolds == Init => IInv
<1> SUFFICES ASSUME Init
             PROVE  IInv
  OBVIOUS
<1>1. /\ ticks = 0 /\ phase = "idle" /\ cursor = 0
      /\ proc = [pid \in Pids |-> NewProcess]
      /\ former = [pid \in Pids |-> 0]
      /\ m_cpuStat = [last |-> 0, current |-> 0]
      /\ m_procMap = [last |-> << >>, current |-> << >>]
      /\ m_procEntryMap = << >>
  BY DEF Init
<1>2. << >> \in Samples
  BY DEF Samples, Maps
<1>3. NewProcess \in Process /\ NewProcess.cpu = 0 /\ NewProcess.seen = None
  BY DEF NewProcess, Process
<1>4. proc \in [Pids -> Process]
  BY <1>1, <1>3
<1>5. Types
  BY <1>1, <1>2, <1>4, SamplesAssumption DEF Types, Maps
<1>6. Clocks /\ SamplesKept /\ UseIsBounded
  BY <1>1, <1>3 DEF Clocks, SamplesKept, SampleOf, LastRead, UseIsBounded, UpToDate, Since
<1>7. EntriesTyped /\ ShareIsBounded
  BY <1>1 DEF EntriesTyped, ShareIsBounded
<1>8. QED
  BY <1>5, <1>6, <1>7 DEF IInv

-----------------------------------------------------------------------------
(* The processes                                                           *)

LEMMA TickStep == IInv /\ Tick => IInv'
<1> SUFFICES ASSUME IInv, Tick
             PROVE  IInv'
  OBVIOUS
<1>1. /\ ticks < MaxTicks /\ ticks' = ticks + 1
      /\ UNCHANGED <<former, phase, cursor, young, m_cpuStat, m_procMap, m_procEntryMap>>
  BY DEF Tick, scanVars
<1>2. PICK ids \in SUBSET Pids : proc \in [ids -> Process]
  BY DEF IInv, Types, Maps
<1>3. /\ proc' \in [ids -> Process]
      /\ \A pid \in ids :
           /\ proc'[pid].seen = proc[pid].seen
           /\ proc'[pid].cpu \in {proc[pid].cpu, proc[pid].cpu + 1}
  <2>1. CASE proc' = proc
    BY <1>2, <2>1
  <2>2. CASE \E pid \in DOMAIN proc : proc' = [proc EXCEPT ![pid].cpu = @ + 1]
    BY <1>2, <2>2 DEF Process
  <2>3. QED
    BY <2>1, <2>2 DEF Tick
<1>4. Types'
  BY <1>1, <1>3, SamplesAssumption DEF IInv, Types, Maps
<1>5. Clocks'
  BY <1>1, <1>2, <1>3, SamplesAssumption DEF IInv, Types, Clocks, Process
<1>6. SamplesKept'
  <2>1. \A pid \in Pids : LastRead(pid)' = LastRead(pid)
    BY <1>1, <1>2, <1>3 DEF LastRead
  <2>2. QED
    BY <1>1, <2>1 DEF IInv, SamplesKept, SampleOf
<1>7. UseIsBounded'
  <2> SUFFICES ASSUME NEW pid \in DOMAIN proc'
               PROVE  /\ UpToDate(pid)' => Since(pid)' <= ticks' - m_cpuStat'.current
                      /\ Since(pid)' <= ticks' - m_cpuStat'.last
    BY DEF UseIsBounded
  <2>1. pid \in ids
    BY <1>3
  <2>2. UpToDate(pid)' <=> UpToDate(pid)
    BY <1>1 DEF UpToDate
  <2>3. Since(pid) \in Int /\ Since(pid)' \in {Since(pid), Since(pid) + 1}
    BY <1>2, <1>3, <2>1 DEF Since, Process
  <2>4. QED
    BY <1>1, <1>2, <2>1, <2>2, <2>3 DEF IInv, Types, UseIsBounded
<1>8. EntriesTyped' /\ ShareIsBounded'
  BY <1>1 DEF IInv, Types, EntriesTyped, Shown, ShareIsBounded
<1>9. QED
  BY <1>4, <1>5, <1>6, <1>7, <1>8 DEF IInv

\* A new process has used nothing, and nobody has read it: the sample of its id is
\* that of the process before it.
LEMMA StartStep == IInv /\ (\E pid \in Pids : Start(pid)) => IInv'
<1> SUFFICES ASSUME IInv, NEW new \in Pids, Start(new)
             PROVE  IInv'
  OBVIOUS
<1>1. /\ new \notin DOMAIN proc
      /\ proc' = With(proc, new, NewProcess)
      /\ young' = IF phase = "scan" THEN young \cup {new} ELSE young
      /\ UNCHANGED <<ticks, former, phase, cursor, m_cpuStat, m_procMap, m_procEntryMap>>
  BY DEF Start
<1>2. NewProcess \in Process /\ NewProcess.cpu = 0 /\ NewProcess.seen = None
  BY DEF NewProcess, Process
<1>3. /\ proc' \in Maps(Pids, Process)
      /\ DOMAIN proc' = DOMAIN proc \cup {new}
      /\ \A pid \in DOMAIN proc : proc'[pid] = proc[pid]
      /\ proc'[new] = NewProcess
  <2>1. PICK ids \in SUBSET Pids : proc \in [ids -> Process]
    BY DEF IInv, Types, Maps
  <2>2. proc' \in [ids \cup {new} -> Process]
    BY <1>1, <1>2, <2>1 DEF With
  <2>3. QED
    BY <1>1, <2>1, <2>2 DEF Maps, With
<1>4. Types'
  BY <1>1, <1>3 DEF IInv, Types, Maps
<1>5. Clocks' /\ SamplesKept'
  <2>1. Clocks'
    BY <1>1, <1>2, <1>3 DEF IInv, Types, Clocks
  <2>2. \A pid \in Pids : LastRead(pid)' = LastRead(pid)
    BY <1>1, <1>2, <1>3 DEF LastRead
  <2>3. QED
    BY <1>1, <2>1, <2>2 DEF IInv, SamplesKept, SampleOf
<1>6. UseIsBounded'
  <2>1. ASSUME NEW pid \in DOMAIN proc
        PROVE  /\ Since(pid)' = Since(pid)
               /\ UpToDate(pid)' => UpToDate(pid)
    BY <1>1, <1>3, <2>1 DEF Since, UpToDate
  <2>2. Since(new)' = 0
    BY <1>2, <1>3 DEF Since
  <2>3. 0 <= ticks - m_cpuStat.current /\ 0 <= ticks - m_cpuStat.last
    BY DEF IInv, Types, Clocks
  <2>4. QED
    BY <1>1, <1>3, <2>1, <2>2, <2>3 DEF IInv, UseIsBounded
<1>7. EntriesTyped' /\ ShareIsBounded'
  BY <1>1 DEF IInv, EntriesTyped, ShareIsBounded
<1>8. QED
  BY <1>4, <1>5, <1>6, <1>7 DEF IInv

LEMMA ExitStep == IInv /\ (\E pid \in Pids : Exit(pid)) => IInv'
<1> SUFFICES ASSUME IInv, NEW gone \in Pids, Exit(gone)
             PROVE  IInv'
  OBVIOUS
<1>1. /\ proc' = [p \in DOMAIN proc \ {gone} |-> proc[p]]
      /\ former' = [former EXCEPT ![gone] =
                      IF proc[gone].seen = None THEN @ ELSE proc[gone].seen]
      /\ gone \in DOMAIN proc
      /\ young' = young \ {gone}
      /\ UNCHANGED <<ticks, phase, cursor, m_cpuStat, m_procMap, m_procEntryMap>>
  BY DEF Exit
<1>2. PICK ids \in SUBSET Pids : proc \in [ids -> Process]
  BY DEF IInv, Types, Maps
<1>3. proc' \in [ids \ {gone} -> Process]
  BY <1>1, <1>2
<1>4. Types'
  <2>1. former' \in [Pids -> Nat]
    BY <1>1, <1>2 DEF IInv, Types, Process
  <2>2. QED
    BY <1>1, <1>3, <2>1 DEF IInv, Types, Maps
<1>5. Clocks' /\ SamplesKept'
  <2>1. Clocks'
    BY <1>1, <1>2 DEF IInv, Clocks
  <2>2. \A pid \in Pids : LastRead(pid)' = LastRead(pid)
    BY <1>1, <1>2 DEF IInv, Types, LastRead
  <2>3. QED
    BY <1>1, <2>1, <2>2 DEF IInv, SamplesKept, SampleOf
<1>6. UseIsBounded'
  BY <1>1, <1>2 DEF IInv, UseIsBounded, Since, UpToDate
<1>7. EntriesTyped' /\ ShareIsBounded'
  BY <1>1 DEF IInv, EntriesTyped, ShareIsBounded
<1>8. QED
  BY <1>4, <1>5, <1>6, <1>7 DEF IInv

-----------------------------------------------------------------------------
(* updateStatus                                                            *)

LEMMA UpdateStatusStep == IInv /\ UpdateStatus => IInv'
<1> SUFFICES ASSUME IInv, UpdateStatus
             PROVE  IInv'
  OBVIOUS
<1>1. /\ phase = "idle" /\ phase' = "scan" /\ cursor' = 0 /\ young' = {}
      /\ m_cpuStat' \in {[last |-> m_cpuStat.current, current |-> ticks], m_cpuStat}
      /\ m_procMap' = [m_procMap EXCEPT !.last = m_procMap.current]
      /\ m_procEntryMap' = << >>
      /\ UNCHANGED <<ticks, proc, former>>
  BY DEF UpdateStatus, NextCPUStat, LastSamples, osVars
<1>2. m_procMap'.last = m_procMap.current /\ m_procMap'.current = m_procMap.current
  BY <1>1 DEF IInv, Types
<1>3. Types'
  BY <1>1 DEF IInv, Types
<1>4. Clocks' /\ SamplesKept'
  <2>1. Clocks'
    BY <1>1 DEF IInv, Types, Clocks
  <2>2. \A pid \in Pids : LastRead(pid)' = LastRead(pid)
    BY <1>1 DEF LastRead
  <2>3. QED
    BY <1>1, <1>2, <2>1, <2>2 DEF IInv, SamplesKept, SampleOf
<1>5. UseIsBounded'
  <2> SUFFICES ASSUME NEW pid \in DOMAIN proc
               PROVE  ~UpToDate(pid)' /\ Since(pid)' <= ticks' - m_cpuStat'.last
    BY <1>1 DEF UseIsBounded
  <2>1. pid \in Pids
    BY DEF IInv, Types, Maps
  <2>2. ~UpToDate(pid)'
    BY <1>1, <2>1, SamplesAssumption DEF UpToDate, Pids
  <2>3. Since(pid)' <= ticks' - m_cpuStat'.last
    BY <1>1 DEF IInv, UseIsBounded, UpToDate, Since
  <2>4. QED
    BY <2>2, <2>3
<1>6. EntriesTyped' /\ ShareIsBounded'
  BY <1>1 DEF EntriesTyped, ShareIsBounded
<1>7. QED
  BY <1>3, <1>4, <1>5, <1>6 DEF IInv

\* What readProcStatsCallback enters for a process.
Before(pid) == IF pid \in DOMAIN m_procMap.last THEN m_procMap.last[pid] ELSE 0

\* It is what the process used since it was read last, or beyond what the process
\* that had its id before was read with.
LEMMA UsedSinceLastRead ==
  ASSUME IInv, NEW pid \in Pids, ReadProc(pid)
  PROVE  /\ proc[pid].cpu \in Nat
         /\ former[pid] \in Nat
         /\ Used(Before(pid), proc[pid].cpu) =
              IF proc[pid].seen # None THEN proc[pid].cpu - proc[pid].seen
              ELSE IF proc[pid].cpu < former[pid] THEN 0
              ELSE proc[pid].cpu - former[pid]
         /\ Used(Before(pid), proc[pid].cpu) \in Nat
<1>1. phase = "scan" /\ pid \in DOMAIN proc /\ pid > cursor
  BY DEF ReadProc
<1>2. proc[pid] \in Process /\ former[pid] \in Nat
  BY <1>1 DEF IInv, Types, Maps
<1>3. proc[pid].cpu \in 0..MaxTicks
  BY <1>1, <1>2, SamplesAssumption DEF IInv, Types, Clocks, Process
<1>4. Before(pid) = LastRead(pid) /\ Before(pid) \in Nat
  BY <1>1, <1>2 DEF IInv, SamplesKept, SampleOf, LastRead, Before, Process
<1>5. Used(Before(pid), proc[pid].cpu) =
        IF proc[pid].cpu < Before(pid) THEN 0 ELSE proc[pid].cpu - Before(pid)
  BY <1>3, <1>4, UsedIsDifference
<1>6. CASE proc[pid].seen = None
  BY <1>2, <1>3, <1>4, <1>5, <1>6 DEF LastRead
<1>7. CASE proc[pid].seen # None
  <2>1. Before(pid) = proc[pid].seen
    BY <1>1, <1>4, <1>7 DEF LastRead
  <2>2. proc[pid].seen <= proc[pid].cpu
    BY <1>1, <1>7 DEF IInv, Clocks
  <2>3. QED
    BY <1>2, <1>3, <1>4, <1>5, <1>7, <2>1, <2>2
<1>8. QED
  BY <1>6, <1>7

LEMMA ReadProcStep == IInv /\ (\E pid \in Pids : ReadProc(pid)) => IInv'
<1> SUFFICES ASSUME IInv, NEW read \in Pids, ReadProc(read)
             PROVE  IInv'
  OBVIOUS
<1> DEFINE now == proc[read].cpu
           entry == [cpu |-> Used(Before(read), now), delta |-> Delta]
<1>1. /\ phase = "scan" /\ read \in DOMAIN proc /\ read > cursor /\ cursor' = read
      /\ \A p \in DOMAIN proc \ young : p <= cursor \/ p >= read
      /\ m_procEntryMap' = With(m_procEntryMap, read, entry)
      /\ m_procMap' = [m_procMap EXCEPT !.current = With(@, read, now)]
      /\ proc' = [proc EXCEPT ![read].seen = now]
      /\ UNCHANGED <<ticks, former, phase, young, m_cpuStat>>
  BY DEF ReadProc, Before
<1>2. PICK ids \in SUBSET Pids : proc \in [ids -> Process]
  BY DEF IInv, Types, Maps
<1>3. now \in Nat /\ now # None
  BY <1>1, <1>2, SamplesAssumption DEF Process
<1>4. /\ proc' \in [ids -> Process]
      /\ \A pid \in ids : proc'[pid].cpu = proc[pid].cpu
      /\ \A pid \in ids \ {read} : proc'[pid].seen = proc[pid].seen
      /\ proc'[read].seen = now
  BY <1>1, <1>2, <1>3 DEF Process
<1>5. /\ m_procMap'.last = m_procMap.last
      /\ m_procMap'.current \in Samples
      /\ DOMAIN m_procMap'.current = DOMAIN m_procMap.current \cup {read}
      /\ m_procMap'.current[read] = now
      /\ \A pid \in DOMAIN m_procMap.current \ {read} :
           m_procMap'.current[pid] = m_procMap.current[pid]
      /\ m_procMap' \in [last : Samples, current : Samples]
  <2>1. m_procMap \in [last : Samples, current : Samples]
    BY DEF IInv, Types
  <2>2. m_procMap'.current = With(m_procMap.current, read, now)
    BY <1>1, <2>1
  <2>3. m_procMap'.current \in Samples
    <3>1. PICK last \in SUBSET Pids : m_procMap.current \in [last -> Nat]
      BY <2>1 DEF Samples, Maps
    <3>2. m_procMap'.current \in [last \cup {read} -> Nat]
      BY <1>3, <2>2, <3>1 DEF With
    <3>3. QED
      BY <3>2 DEF Samples, Maps
  <2>4. m_procMap'.last = m_procMap.last /\ m_procMap' \in [last : Samples, current : Samples]
    BY <1>1, <2>1, <2>2, <2>3
  <2>5. QED
    BY <2>2, <2>3, <2>4 DEF With
<1>6. Types'
  BY <1>1, <1>4, <1>5 DEF IInv, Types, Maps, Pids
<1>7. Clocks'
  BY <1>1, <1>2, <1>3, <1>4 DEF IInv, Clocks, Process
<1>8. SamplesKept'
  <2> SUFFICES ASSUME NEW pid \in Pids
               PROVE  /\ SampleOf(m_procMap.current, pid)' = LastRead(pid)'
                      /\ pid > read => SampleOf(m_procMap.last, pid)' = LastRead(pid)'
    BY <1>1 DEF SamplesKept
  <2>1. CASE pid = read
    <3>1. LastRead(pid)' = now
      BY <1>1, <1>2, <1>3, <1>4, <2>1 DEF LastRead
    <3>2. QED
      BY <1>5, <2>1, <3>1 DEF SampleOf, Pids
  <2>2. CASE pid # read
    <3>1. LastRead(pid)' = LastRead(pid)
      BY <1>1, <1>2, <1>4, <2>2 DEF LastRead
    <3>2. pid > read => pid > cursor
      BY <1>1 DEF IInv, Types, Pids
    <3>3. QED
      BY <1>1, <1>5, <2>2, <3>1, <3>2 DEF IInv, SamplesKept, SampleOf
  <2>3. QED
    BY <2>1, <2>2
<1>9. UseIsBounded'
  <2> SUFFICES ASSUME NEW pid \in ids
               PROVE  /\ UpToDate(pid)' => Since(pid)' <= ticks - m_cpuStat.current
                      /\ Since(pid)' <= ticks - m_cpuStat.last
    BY <1>1, <1>4 DEF UseIsBounded
  <2>1. CASE pid = read
    <3>1. Since(pid)' = 0
      BY <1>3, <1>4, <2>1 DEF Since
    <3>2. QED
      BY <3>1 DEF IInv, Types, Clocks
  <2>2. CASE pid # read
    <3>1. Since(pid)' = Since(pid)
      BY <1>4, <2>2 DEF Since
    <3>2. UpToDate(pid)' => UpToDate(pid)
      BY <1>1, <1>2, <2>2 DEF IInv, Types, UpToDate, Pids
    <3>3. QED
      BY <1>2, <3>1, <3>2 DEF IInv, UseIsBounded
  <2>3. QED
    BY <2>1, <2>2
<1>10. entry \in Shown /\ entry.cpu <= entry.delta + (ticks - m_cpuStat.current)
  <2>1. entry.cpu \in Nat /\ entry.cpu <= Since(read)
    BY <1>1, <1>2, UsedSinceLastRead DEF Since, Process
  <2>2. Delta \in Nat /\ Delta >= m_cpuStat.current - m_cpuStat.last
    BY DeltaIsDifference DEF IInv
  <2>3. Since(read) \in Int /\ Since(read) <= ticks - m_cpuStat.last
    BY <1>1, <1>2 DEF IInv, UseIsBounded, Since, Process
  <2>4. QED
    BY <2>1, <2>2, <2>3 DEF IInv, Types, Shown
<1>11. EntriesTyped' /\ ShareIsBounded'
  BY <1>1, <1>10 DEF IInv, EntriesTyped, ShareIsBounded, With
<1>12. QED
  BY <1>6, <1>7, <1>8, <1>9, <1>11 DEF IInv

LEMMA EndOfDirStep == IInv /\ EndOfDir => IInv'
<1> SUFFICES ASSUME IInv, EndOfDir
             PROVE  IInv'
  OBVIOUS
<1>1. /\ phase = "scan" /\ phase' = "idle"
      /\ \A pid \in DOMAIN proc \ young : pid <= cursor
      /\ UNCHANGED <<ticks, proc, former, cursor, young, m_cpuStat, m_procMap,
                     m_procEntryMap>>
  BY DEF EndOfDir, osVars
<1>2. \A pid \in DOMAIN proc : UpToDate(pid) /\ Since(pid)' = Since(pid)
  BY <1>1 DEF UpToDate, Since
<1>3. UseIsBounded'
  BY <1>1, <1>2 DEF IInv, UseIsBounded
<1>4. QED
  BY <1>1, <1>3 DEF IInv, Types, Clocks, SamplesKept, SampleOf, LastRead, EntriesTyped,
                    ShareIsBounded

-----------------------------------------------------------------------------

LEMMA NextStep == IInv /\ [Next]_vars => IInv'
<1> SUFFICES ASSUME IInv, [Next]_vars
             PROVE  IInv'
  OBVIOUS
<1>1. CASE Next
  BY <1>1, TickStep, StartStep, ExitStep, UpdateStatusStep, ReadProcStep, EndOfDirStep
     DEF Next
<1>2. CASE UNCHANGED vars
  BY <1>2 DEF vars, osVars, scanVars, IInv, Types, Clocks, SamplesKept, SampleOf,
              LastRead, UseIsBounded, UpToDate, Since, EntriesTyped, ShareIsBounded
<1>3. QED
  BY <1>1, <1>2

\* The inductive invariant holds in every reachable state.
THEOREM Invariance == Spec => []IInv
<1>1. QED
  BY InitHolds, NextStep, PTL DEF Spec

\* No process is shown with more CPU time than the machine has had since the update
\* before this one began.
THEOREM SharesAreBounded == Spec => []ShareIsBounded
<1>1. IInv => ShareIsBounded
  BY DEF IInv
<1>2. QED
  BY <1>1, Invariance, PTL

\* What is shown of a process is exactly what it used since it was read last; at its
\* first reading, what it used beyond the last sample of the process that had its id
\* before, and nothing if that is more.
THEOREM UseIsSinceLastSample == Spec => UseSinceLastSample
<1>1. ASSUME IInv, [Next]_vars
      PROVE  [\A pid \in Pids :
                ReadProc(pid) =>
                  m_procEntryMap'[pid].cpu =
                    IF proc[pid].seen # None THEN proc[pid].cpu - proc[pid].seen
                    ELSE IF proc[pid].cpu < former[pid] THEN 0
                    ELSE proc[pid].cpu - former[pid]]_vars
  <2> SUFFICES ASSUME NEW pid \in Pids, ReadProc(pid)
               PROVE  m_procEntryMap'[pid].cpu =
                        IF proc[pid].seen # None THEN proc[pid].cpu - proc[pid].seen
                        ELSE IF proc[pid].cpu < former[pid] THEN 0
                        ELSE proc[pid].cpu - former[pid]
    OBVIOUS
  <2>1. m_procEntryMap'[pid].cpu = Used(Before(pid), proc[pid].cpu)
    BY DEF ReadProc, Before, With
  <2>2. QED
    BY <1>1, <2>1, UsedSinceLastRead
<1>2. QED
  BY <1>1, Invariance, PTL DEF Spec, UseSinceLastSample
=============================================================================
