------------------------ MODULE StatsCollectorProofs ------------------------
(***************************************************************************)
(* The scan of /proc, for any number of processes that start and end during it: *)
(* parents form no cycle, no process that stays is missed, and none is listed    *)
(* that was gone before.                                                        *)
(***************************************************************************)
EXTENDS StatsCollector, TLAPS

Process == [birth : Nat, ppid : Pids \cup {0}, kind : [KindFields -> BOOLEAN]]

Types ==
  /\ DOMAIN proc \subseteq Pids
  /\ proc \in [DOMAIN proc -> Process]
  /\ births \in Nat /\ births <= MaxBirths
  /\ stayed \subseteq 1..births
  /\ phase \in {"idle", "scan"}
  /\ cursor \in Nat
  /\ reading # None => phase = "scan" /\ reading.pid \in Pids

\* A process is younger than its parent; what init is given is younger than init.
ParentsAreOlder ==
  /\ Init1 \in DOMAIN proc /\ proc[Init1].birth = Init1
  /\ \A pid \in DOMAIN proc :
       /\ proc[pid].birth \in 1..births
       /\ LET parent == proc[pid].ppid IN
            parent # 0 => parent \in DOMAIN proc /\ proc[parent].birth < proc[pid].birth

EntriesRead ==
  /\ DOMAIN m_pidCtoPMapping = DOMAIN m_procEntryMap
  /\ DOMAIN m_procEntryMap \subseteq Pids
  /\ \A pid \in DOMAIN m_procEntryMap :
       /\ m_pidCtoPMapping[pid] \in Pids \cup {0}
       /\ m_procEntryMap[pid].birth \in Nat
       /\ m_procEntryMap[pid].birth \in met

\* During the scan an entry is about the process that has its id, unless that ended,
\* and the parent in the map is the process that has its id, unless that ended.
ReadIsCurrent ==
  phase = "scan" =>
    /\ \A pid \in DOMAIN m_procEntryMap :
         /\ pid \in DOMAIN proc \cup freed
         /\ pid \in DOMAIN proc => /\ m_procEntryMap[pid].birth = proc[pid].birth
                                   /\ m_procEntryMap[pid].kind = proc[pid].kind
    /\ \A pid \in DOMAIN m_pidCtoPMapping :
         LET parent == m_pidCtoPMapping[pid] IN
           /\ parent \in DOMAIN proc \cup freed \cup {0}
           /\ parent \in DOMAIN proc => proc[parent].birth < m_procEntryMap[pid].birth

\* What was read of two processes agrees with the order of their births, although it
\* was read at different times.
ReadInOrder ==
  \A pid \in DOMAIN m_pidCtoPMapping :
    LET parent == m_pidCtoPMapping[pid] IN
      parent \in DOMAIN m_procEntryMap
        => m_procEntryMap[parent].birth < m_procEntryMap[pid].birth

\* The walk over /proc has met what it passed.
PassedIsRead ==
  phase = "scan" =>
    /\ \A pid \in DOMAIN proc : proc[pid].birth \in met
    /\ \A pid \in DOMAIN proc :
         proc[pid].birth \in stayed /\ pid <= cursor
           => pid \in DOMAIN m_procEntryMap \/ (reading # None /\ reading.pid = pid)

\* The windows of processes that stay were looked up.
WindowsKnown ==
  phase = "scan" =>
    \A pid \in DOMAIN proc :
      proc[pid].birth \in stayed =>
        /\ proc[pid].kind["window"] => pid \in m_guiPIDList
        /\ proc[pid].kind["tray"] => pid \in m_trayPIDs

IInv ==
  /\ Types /\ ParentsAreOlder /\ EntriesRead /\ ReadIsCurrent /\ ReadInOrder
  /\ PassedIsRead /\ WindowsKnown

-----------------------------------------------------------------------------
(* The processes                                                           *)

LEMMA ConstantsAre ==
  /\ MaxPid \in Nat /\ Init1 \in Pids /\ Self \in Pids /\ Init1 = 1 /\ Self = 2
  /\ 0 \notin Pids /\ Pids \subseteq Nat
BY KindsAssumption DEF Pids, Init1, Self

LEMMA InitHolds == Init => IInv
<1> SUFFICES ASSUME Init
             PROVE  IInv
  OBVIOUS
<1>1. /\ MaxPid \in Nat /\ Init1 \in Pids /\ Self \in Pids /\ Init1 = 1 /\ Self = 2
      /\ 0 \notin Pids /\ Pids \subseteq Nat
  BY ConstantsAre
<1>2. PICK first \in Firsts :
        proc = With(With([pid \in DOMAIN first |->
                           [birth |-> pid, ppid |-> first[pid].ppid, kind |-> first[pid].kind]],
                         Self, [birth |-> Self, ppid |-> Init1, kind |-> SelfKind]),
                    Init1, [birth |-> Init1, ppid |-> 0, kind |-> InitKind])
  BY DEF Init
<1>3. /\ DOMAIN first \subseteq Pids \ {Init1, Self}
      /\ \A pid \in DOMAIN first :
           /\ first[pid].ppid \in DOMAIN first \cup {Init1, Self}
           /\ first[pid].ppid < pid
           /\ first[pid].kind \in [KindFields -> BOOLEAN]
  BY <1>1, KindsAssumption DEF Pids
<1>4. DOMAIN proc = DOMAIN first \cup {Init1, Self}
  BY <1>2 DEF With
<1>5. /\ proc[Init1] = [birth |-> Init1, ppid |-> 0, kind |-> InitKind]
      /\ proc[Self] = [birth |-> Self, ppid |-> Init1, kind |-> SelfKind]
      /\ \A pid \in DOMAIN first :
           proc[pid] = [birth |-> pid, ppid |-> first[pid].ppid, kind |-> first[pid].kind]
  BY <1>1, <1>2, <1>3 DEF With
<1>6. InitKind \in [KindFields -> BOOLEAN] /\ SelfKind \in [KindFields -> BOOLEAN]
  BY DEF InitKind, SelfKind
<1>7. proc \in [DOMAIN proc -> Process]
  <2>1. ASSUME NEW pid \in DOMAIN proc
        PROVE  proc[pid] \in Process
    <3>1. CASE pid \in DOMAIN first
      <4>1. pid \in Nat /\ first[pid].ppid \in Pids
        BY <1>1, <1>3, <3>1
      <4>2. PICK p \in Pids, k \in [KindFields -> BOOLEAN] :
              proc[pid] = [birth |-> pid, ppid |-> p, kind |-> k]
        BY <1>3, <1>5, <3>1, <4>1
      <4>3. QED
        BY <4>1, <4>2 DEF Process
    <3>2. CASE pid \in {Init1, Self}
      BY <1>1, <1>5, <1>6, <3>2 DEF Process
    <3>3. QED
      BY <1>4, <3>1, <3>2
  <2>2. proc = [pid \in DOMAIN proc |-> proc[pid]]
    BY <1>2 DEF With
  <2>3. QED
    BY <2>1, <2>2
<1>8. births = MaxPid /\ stayed = {} /\ phase = "idle" /\ cursor = 0 /\ reading = None
  BY DEF Init
<1>9. Types
  BY <1>1, <1>3, <1>4, <1>7, <1>8, KindsAssumption DEF Types
<1>10. ParentsAreOlder
  <2>1. \A pid \in DOMAIN proc : proc[pid].birth = pid /\ pid \in 1..births
    BY <1>1, <1>3, <1>4, <1>5, <1>8 DEF Pids
  <2>2. \A pid \in DOMAIN proc :
          proc[pid].ppid # 0 => proc[pid].ppid \in DOMAIN proc /\ proc[pid].ppid < pid
    BY <1>1, <1>3, <1>4, <1>5
  <2>3. QED
    BY <1>4, <2>1, <2>2 DEF ParentsAreOlder
<1>11. EntriesRead /\ ReadInOrder
  BY DEF Init, EntriesRead, ReadInOrder
<1>12. ReadIsCurrent /\ PassedIsRead /\ WindowsKnown
  BY <1>8 DEF ReadIsCurrent, PassedIsRead, WindowsKnown
<1>13. QED
  BY <1>9, <1>10, <1>11, <1>12 DEF IInv

\* A process that starts takes no id the scan knows.
LEMMA StartStep ==
  ASSUME IInv, NEW pid \in Pids, NEW parent \in Pids, NEW kind \in Kinds,
         Start(pid, parent, kind)
  PROVE  IInv'
<1>1. /\ MaxPid \in Nat /\ 0 \notin Pids /\ Pids \subseteq Nat /\ Init1 = 1 /\ MaxBirths \in Nat
  BY ConstantsAre, KindsAssumption
<1>2. /\ births < MaxBirths /\ births' = births + 1
      /\ pid \notin DOMAIN proc /\ pid \notin freed /\ parent \in DOMAIN proc
      /\ proc' = With(proc, pid, [birth |-> births', ppid |-> parent, kind |-> kind])
      /\ met' = IF phase = "scan" THEN met \cup {births'} ELSE met
      /\ UNCHANGED <<stayed, freed, phase, cursor, reading, m_guiPIDList, m_trayPIDs,
                     m_pidCtoPMapping, m_procEntryMap>>
  BY DEF Start, scanVars
<1>3. /\ DOMAIN proc' = DOMAIN proc \cup {pid}
      /\ proc'[pid] = [birth |-> births + 1, ppid |-> parent, kind |-> kind]
      /\ \A p \in DOMAIN proc : proc'[p] = proc[p]
  BY <1>2 DEF With
<1>4. /\ DOMAIN proc \subseteq Pids /\ proc \in [DOMAIN proc -> Process]
      /\ births \in Nat /\ stayed \subseteq 1..births
  BY DEF IInv, Types
<1>5. Types'
  <2>1. proc'[pid] \in Process
    <3>1. kind \in [KindFields -> BOOLEAN] /\ births + 1 \in Nat /\ parent \in Pids \cup {0}
      BY <1>4, KindsAssumption
    <3>2. QED
      BY <1>3, <3>1 DEF Process
  <2>2. proc' \in [DOMAIN proc' -> Process]
    <3>1. \A p \in DOMAIN proc' : proc'[p] \in Process
      BY <1>3, <1>4, <2>1
    <3>2. proc' = [p \in DOMAIN proc' |-> proc'[p]]
      BY <1>2, <1>3 DEF With
    <3>3. QED
      BY <3>1, <3>2
  <2>3. stayed' \subseteq 1..births'
    BY <1>2, <1>4
  <2>4. births' \in Nat /\ births' <= MaxBirths
    BY <1>1, <1>2, <1>4
  <2>5. QED
    BY <1>2, <1>3, <1>4, <2>2, <2>3, <2>4 DEF IInv, Types
<1>6. ParentsAreOlder'
  BY <1>2, <1>3, <1>4 DEF IInv, ParentsAreOlder
<1>7. ReadInOrder'
  BY <1>2, <1>3 DEF IInv, ReadInOrder
<1>8. EntriesRead'
  BY <1>2 DEF IInv, EntriesRead
<1>9. ReadIsCurrent'
  <2> SUFFICES ASSUME phase = "scan"
               PROVE  ReadIsCurrent'
    BY <1>2 DEF ReadIsCurrent
  <2>1. pid \notin DOMAIN m_procEntryMap
    BY <1>2 DEF IInv, ReadIsCurrent
  <2>2. \A p \in DOMAIN m_pidCtoPMapping : m_pidCtoPMapping[p] # pid
    BY <1>1, <1>2 DEF IInv, ReadIsCurrent
  <2>3. QED
    BY <1>2, <1>3, <2>1, <2>2 DEF IInv, ReadIsCurrent
<1>10. PassedIsRead' /\ WindowsKnown'
  <2>1. births + 1 \notin stayed
    BY <1>4
  <2>2. PassedIsRead'
    BY <1>2, <1>3, <2>1 DEF IInv, PassedIsRead
  <2>3. WindowsKnown'
    BY <1>2, <1>3, <2>1 DEF IInv, WindowsKnown
  <2>4. QED
    BY <2>2, <2>3
<1>11. QED
  BY <1>5, <1>6, <1>7, <1>8, <1>9, <1>10 DEF IInv

\* A process that ends leaves its id to nobody during a scan, and its children to
\* init, the oldest of all.
LEMMA ExitStep ==
  ASSUME IInv, NEW pid \in Pids, Exit(pid)
  PROVE  IInv'
<1>1. /\ MaxPid \in Nat /\ 0 \notin Pids /\ Pids \subseteq Nat /\ Init1 = 1 /\ Init1 \in Pids
  BY ConstantsAre
<1>2. /\ pid \in DOMAIN proc /\ pid # Init1
      /\ proc' = [p \in DOMAIN proc \ {pid} |->
                    [proc[p] EXCEPT !.ppid = IF @ = pid THEN Init1 ELSE @]]
      /\ stayed' = stayed \ {proc[pid].birth}
      /\ freed' = IF phase = "scan" THEN freed \cup {pid} ELSE freed
      /\ UNCHANGED <<births, met, phase, cursor, reading, m_guiPIDList, m_trayPIDs,
                     m_pidCtoPMapping, m_procEntryMap>>
  BY DEF Exit, scanVars
<1>3. /\ DOMAIN proc \subseteq Pids /\ proc \in [DOMAIN proc -> Process]
      /\ births \in Nat /\ stayed \subseteq 1..births
  BY DEF IInv, Types
<1>4. /\ DOMAIN proc' = DOMAIN proc \ {pid}
      /\ \A p \in DOMAIN proc' :
           /\ proc'[p] \in Process
           /\ proc'[p].birth = proc[p].birth
           /\ proc'[p].kind = proc[p].kind
           /\ proc'[p].ppid = IF proc[p].ppid = pid THEN Init1 ELSE proc[p].ppid
  <2>1. ASSUME NEW p \in DOMAIN proc \ {pid}
        PROVE  /\ proc'[p] \in Process
               /\ proc'[p].birth = proc[p].birth
               /\ proc'[p].kind = proc[p].kind
               /\ proc'[p].ppid = IF proc[p].ppid = pid THEN Init1 ELSE proc[p].ppid
    <3>1. proc[p] \in Process
      BY <1>3
    <3>2. proc'[p] = [proc[p] EXCEPT !.ppid = IF @ = pid THEN Init1 ELSE @]
      BY <1>2
    <3>3. QED
      BY <1>1, <3>1, <3>2 DEF Process
  <2>2. QED
    BY <1>2, <2>1
<1>5. Types'
  BY <1>2, <1>3, <1>4 DEF IInv, Types
<1>6. ParentsAreOlder'
  <2>1. Init1 \in DOMAIN proc' /\ proc'[Init1].birth = Init1
    BY <1>2, <1>4 DEF IInv, ParentsAreOlder
  <2>2. ASSUME NEW p \in DOMAIN proc', proc'[p].ppid # 0
        PROVE  /\ proc'[p].ppid \in DOMAIN proc'
               /\ proc'[proc'[p].ppid].birth < proc'[p].birth
    <3>1. CASE proc[p].ppid = pid
      <4>1. proc[pid].birth < proc[p].birth /\ proc[pid].birth \in 1..births
        BY <1>1, <1>2, <1>4, <3>1 DEF IInv, ParentsAreOlder
      <4>2. 1 < proc[p].birth
        BY <1>3, <1>4, <4>1 DEF Process
      <4>3. QED
        BY <1>1, <1>4, <2>1, <3>1, <4>2
    <3>2. CASE proc[p].ppid # pid
      BY <1>4, <2>2, <3>2 DEF IInv, ParentsAreOlder
    <3>3. QED
      BY <3>1, <3>2
  <2>3. \A p \in DOMAIN proc' : proc'[p].birth \in 1..births'
    BY <1>2, <1>4 DEF IInv, ParentsAreOlder
  <2>4. QED
    BY <2>1, <2>2, <2>3 DEF ParentsAreOlder
<1>7. ReadInOrder' /\ EntriesRead'
  BY <1>2, <1>4 DEF IInv, ReadInOrder, EntriesRead
<1>8. ReadIsCurrent'
  <2> SUFFICES ASSUME phase = "scan"
               PROVE  ReadIsCurrent'
    BY <1>2 DEF ReadIsCurrent
  <2>1. freed' = freed \cup {pid}
    BY <1>2
  <2>2. ASSUME NEW p \in DOMAIN m_procEntryMap
        PROVE  /\ p \in DOMAIN proc' \cup freed'
               /\ p \in DOMAIN proc' => /\ m_procEntryMap[p].birth = proc'[p].birth
                                        /\ m_procEntryMap[p].kind = proc'[p].kind
    BY <1>4, <2>1 DEF IInv, ReadIsCurrent
  <2>3. ASSUME NEW p \in DOMAIN m_pidCtoPMapping
        PROVE  /\ m_pidCtoPMapping[p] \in DOMAIN proc' \cup freed' \cup {0}
               /\ m_pidCtoPMapping[p] \in DOMAIN proc'
                    => proc'[m_pidCtoPMapping[p]].birth < m_procEntryMap[p].birth
    BY <1>4, <2>1 DEF IInv, ReadIsCurrent
  <2>4. QED
    BY <1>2, <2>2, <2>3 DEF ReadIsCurrent
<1>9. PassedIsRead' /\ WindowsKnown'
  <2>1. stayed' \subseteq stayed
    BY <1>2
  <2>2. PassedIsRead'
    <3> SUFFICES ASSUME phase = "scan", NEW p \in DOMAIN proc'
                 PROVE  /\ proc'[p].birth \in met
                        /\ proc'[p].birth \in stayed' /\ p <= cursor
                             => \/ p \in DOMAIN m_procEntryMap
                                \/ reading # None /\ reading.pid = p
      BY <1>2 DEF PassedIsRead
    <3>1. p \in DOMAIN proc /\ proc'[p].birth = proc[p].birth
      BY <1>4
    <3>2. QED
      BY <2>1, <3>1 DEF IInv, PassedIsRead
  <2>3. WindowsKnown'
    BY <1>2, <1>4, <2>1 DEF IInv, WindowsKnown
  <2>4. QED
    BY <2>2, <2>3
<1>10. QED
  BY <1>5, <1>6, <1>7, <1>8, <1>9 DEF IInv

-----------------------------------------------------------------------------
(* The scan                                                                *)

\* A scan begins with empty maps, whatever the last one read.
LEMMA UpdateStep ==
  ASSUME IInv, UpdateStatus
  PROVE  IInv'
<1>1. /\ phase' = "scan" /\ cursor' = 0 /\ reading' = None
      /\ m_procEntryMap' = << >> /\ m_pidCtoPMapping' = << >>
      /\ m_guiPIDList' = {pid \in DOMAIN proc : proc[pid].kind["window"]}
      /\ m_trayPIDs' = {pid \in DOMAIN proc : proc[pid].kind["tray"]}
      /\ stayed' = Alive /\ met' = Alive /\ freed' = {}
      /\ UNCHANGED <<proc, births>>
  BY DEF UpdateStatus, ClearMaps
<1>2. \A pid \in DOMAIN proc : proc[pid].birth \in Alive
  BY DEF Alive
<1>3. Alive \subseteq 1..births
  BY DEF Alive, IInv, ParentsAreOlder
<1>4. Types'
  BY <1>1, <1>3 DEF IInv, Types
<1>5. ParentsAreOlder'
  BY <1>1 DEF IInv, ParentsAreOlder
<1>6. EntriesRead' /\ ReadInOrder' /\ ReadIsCurrent'
  BY <1>1 DEF EntriesRead, ReadInOrder, ReadIsCurrent
<1>7. PassedIsRead'
  <2>1. \A pid \in DOMAIN proc : ~(pid <= 0)
    BY ConstantsAre DEF IInv, Types, Pids
  <2>2. QED
    BY <1>1, <1>2, <2>1 DEF PassedIsRead
<1>8. WindowsKnown'
  BY <1>1 DEF WindowsKnown
<1>9. QED
  BY <1>4, <1>5, <1>6, <1>7, <1>8 DEF IInv

\* readdir leaves out nothing that stays.
LEMMA ReadDirStep ==
  ASSUME IInv, NEW pid \in Pids, ReadDir(pid)
  PROVE  IInv'
<1>1. /\ phase = "scan" /\ reading = None /\ pid \in DOMAIN proc
      /\ \A p \in DOMAIN proc : p > cursor /\ p < pid => proc[p].birth \notin stayed
      /\ cursor' = pid
      /\ reading' = [pid |-> pid, birth |-> proc[pid].birth]
      /\ UNCHANGED <<proc, births, stayed, met, freed, phase, m_guiPIDList, m_trayPIDs,
                     m_pidCtoPMapping, m_procEntryMap>>
  BY DEF ReadDir, osVars
<1>2. reading' # None /\ reading'.pid = pid
  <2>1. proc[pid].birth \in 1..MaxBirths
    BY <1>1, KindsAssumption DEF IInv, Types, ParentsAreOlder
  <2>2. reading' \in [pid : 1..MaxPid, birth : 1..MaxBirths]
    BY <1>1, <2>1 DEF Pids
  <2>3. QED
    BY <1>1, <2>2, NoneAssumption
<1>3. Types'
  BY <1>1, <1>2, ConstantsAre DEF IInv, Types
<1>4. PassedIsRead'
  <2> SUFFICES ASSUME NEW p \in DOMAIN proc, proc[p].birth \in stayed, p <= pid
               PROVE  p \in DOMAIN m_procEntryMap \/ p = pid
    BY <1>1, <1>2 DEF IInv, PassedIsRead
  <2>1. p \in Nat /\ pid \in Nat /\ cursor \in Nat
    BY ConstantsAre DEF IInv, Types
  <2>2. p <= cursor \/ p = pid
    BY <1>1, <2>1
  <2>3. QED
    BY <1>1, <2>2 DEF IInv, PassedIsRead
<1>5. ParentsAreOlder' /\ EntriesRead' /\ ReadInOrder'
  BY <1>1 DEF IInv, ParentsAreOlder, EntriesRead, ReadInOrder
<1>6. ReadIsCurrent' /\ WindowsKnown'
  BY <1>1 DEF IInv, ReadIsCurrent, WindowsKnown
<1>7. QED
  BY <1>3, <1>4, <1>5, <1>6 DEF IInv

\* The parent that is read is older than the process, and a child that was read
\* before is younger.
LEMMA ReadProcStep ==
  ASSUME IInv, ReadProc
  PROVE  IInv'
<1>1. PICK pid \in Pids :
        /\ reading # None /\ pid = reading.pid /\ pid \in DOMAIN proc /\ phase = "scan"
        /\ m_pidCtoPMapping' = With(m_pidCtoPMapping, pid, proc[pid].ppid)
        /\ m_procEntryMap' =
             With(m_procEntryMap, pid, [birth |-> proc[pid].birth, kind |-> proc[pid].kind])
        /\ reading' = None
        /\ UNCHANGED <<proc, births, stayed, met, freed, phase, cursor, m_guiPIDList,
                       m_trayPIDs>>
  BY DEF ReadProc, osVars, IInv, Types
<1>2. /\ DOMAIN m_pidCtoPMapping = DOMAIN m_procEntryMap
      /\ DOMAIN m_procEntryMap' = DOMAIN m_procEntryMap \cup {pid}
      /\ DOMAIN m_pidCtoPMapping' = DOMAIN m_pidCtoPMapping \cup {pid}
      /\ m_pidCtoPMapping'[pid] = proc[pid].ppid
      /\ m_procEntryMap'[pid] = [birth |-> proc[pid].birth, kind |-> proc[pid].kind]
      /\ \A p \in DOMAIN m_procEntryMap \ {pid} :
           /\ m_pidCtoPMapping'[p] = m_pidCtoPMapping[p]
           /\ m_procEntryMap'[p] = m_procEntryMap[p]
  BY <1>1 DEF With, IInv, EntriesRead
<1>3. PICK parent \in Pids \cup {0} :
        /\ parent = proc[pid].ppid
        /\ parent # 0 => parent \in DOMAIN proc /\ proc[parent].birth < proc[pid].birth
  BY <1>1 DEF IInv, Types, Process, ParentsAreOlder
<1>4. 0 \notin Pids /\ DOMAIN proc \subseteq Pids /\ proc[pid].birth \in Nat
  BY <1>1, ConstantsAre DEF IInv, Types, Process
<1>5. EntriesRead'
  <2>1. proc[pid].birth \in met
    BY <1>1 DEF IInv, PassedIsRead
  <2>2. QED
    BY <1>1, <1>2, <1>3, <1>4, <2>1 DEF IInv, EntriesRead
<1>6. ReadIsCurrent'
  <2>1. ASSUME NEW p \in DOMAIN m_procEntryMap'
        PROVE  /\ p \in DOMAIN proc \cup freed
               /\ p \in DOMAIN proc => /\ m_procEntryMap'[p].birth = proc[p].birth
                                       /\ m_procEntryMap'[p].kind = proc[p].kind
    BY <1>1, <1>2 DEF IInv, ReadIsCurrent
  <2>2. ASSUME NEW p \in DOMAIN m_pidCtoPMapping'
        PROVE  /\ m_pidCtoPMapping'[p] \in DOMAIN proc \cup freed \cup {0}
               /\ m_pidCtoPMapping'[p] \in DOMAIN proc
                    => proc[m_pidCtoPMapping'[p]].birth < m_procEntryMap'[p].birth
    <3>1. CASE p = pid
      BY <1>2, <1>3, <1>4, <3>1
    <3>2. CASE p # pid
      BY <1>1, <1>2, <3>2 DEF IInv, ReadIsCurrent
    <3>3. QED
      BY <3>1, <3>2
  <2>3. QED
    BY <1>1, <2>1, <2>2 DEF ReadIsCurrent
<1>7. ReadInOrder'
  <2> SUFFICES ASSUME NEW p \in DOMAIN m_pidCtoPMapping', NEW q, q = m_pidCtoPMapping'[p],
                      q \in DOMAIN m_procEntryMap'
               PROVE  m_procEntryMap'[q].birth < m_procEntryMap'[p].birth
    BY DEF ReadInOrder
  <2>1. CASE p = pid
    <3>1. q = parent /\ parent # 0 /\ parent # pid
      BY <1>2, <1>3, <1>4, <2>1 DEF IInv, EntriesRead
    <3>2. m_procEntryMap'[q].birth = proc[parent].birth
      BY <1>1, <1>2, <1>3, <3>1 DEF IInv, ReadIsCurrent
    <3>3. QED
      BY <1>2, <1>3, <2>1, <3>1, <3>2
  <2>2. CASE p # pid /\ q = pid
    <3>1. proc[pid].birth < m_procEntryMap[p].birth
      BY <1>1, <1>2, <2>2 DEF IInv, ReadIsCurrent
    <3>2. QED
      BY <1>2, <2>2, <3>1
  <2>3. CASE p # pid /\ q # pid
    BY <1>2, <2>3 DEF IInv, ReadInOrder
  <2>4. QED
    BY <2>1, <2>2, <2>3
<1>8. Types' /\ ParentsAreOlder'
  BY <1>1 DEF IInv, Types, ParentsAreOlder
<1>9. PassedIsRead' /\ WindowsKnown'
  BY <1>1, <1>2 DEF IInv, PassedIsRead, WindowsKnown
<1>10. QED
  BY <1>5, <1>6, <1>7, <1>8, <1>9 DEF IInv

\* The process is gone, the scan ends, or nothing changes.
LEMMA QuietStep ==
  ASSUME IInv, ReadProcFails \/ EndOfDir \/ UNCHANGED vars
  PROVE  IInv'
<1>1. UNCHANGED <<proc, births, stayed, met, freed, cursor, m_guiPIDList, m_trayPIDs,
                  m_pidCtoPMapping, m_procEntryMap>>
  BY DEF ReadProcFails, EndOfDir, vars, osVars, scanVars
<1>2. /\ phase' = phase \/ (phase' = "idle" /\ reading = None)
      /\ \/ reading' = reading
         \/ reading' = None /\ reading.pid \notin DOMAIN proc
  BY DEF ReadProcFails, EndOfDir, vars, osVars, scanVars
<1>3. Types'
  BY <1>1, <1>2 DEF IInv, Types
<1>4. ParentsAreOlder' /\ EntriesRead' /\ ReadInOrder'
  BY <1>1 DEF IInv, ParentsAreOlder, EntriesRead, ReadInOrder
<1>5. ReadIsCurrent' /\ WindowsKnown'
  BY <1>1, <1>2 DEF IInv, ReadIsCurrent, WindowsKnown
<1>6. PassedIsRead'
  BY <1>1, <1>2 DEF IInv, PassedIsRead
<1>7. QED
  BY <1>3, <1>4, <1>5, <1>6 DEF IInv

-----------------------------------------------------------------------------

LEMMA NextStep == IInv /\ [Next]_vars => IInv'
<1> SUFFICES ASSUME IInv, [Next]_vars
             PROVE  IInv'
  OBVIOUS
<1>1. CASE \E pid, parent \in Pids, kind \in Kinds : Start(pid, parent, kind)
  BY <1>1, StartStep
<1>2. CASE \E pid \in Pids : Exit(pid)
  BY <1>2, ExitStep
<1>3. CASE Timeout \/ CacheUpdated \/ \E type \in FilterTypes : SetFilterType(type)
  BY <1>3, UpdateStep DEF Timeout, CacheUpdated, SetFilterType
<1>4. CASE Scan
  BY <1>4, ReadDirStep, ReadProcStep, QuietStep DEF Scan
<1>5. CASE UNCHANGED vars
  BY <1>5, QuietStep
<1>6. QED
  BY <1>1, <1>2, <1>3, <1>4, <1>5 DEF Next

\* The inductive invariant holds in every reachable state.
THEOREM Invariance == Spec => []IInv
<1>1. QED
  BY InitHolds, NextStep, PTL DEF Spec

\* No process is its own ancestor in what was read: those that are older than it,
\* or were not read, hold its parent and the parents of all they hold, and not it.
THEOREM NoCycle == Spec => []ParentsFormNoCycle
<1>1. IInv => ParentsFormNoCycle
  <2> SUFFICES ASSUME IInv, NEW pid \in DOMAIN m_pidCtoPMapping,
                      pid \in Ancestors(m_pidCtoPMapping[pid])
               PROVE  FALSE
    BY DEF ParentsFormNoCycle
  <2> DEFINE Older == {q \in Pids \cup {0} :
                         q \in DOMAIN m_procEntryMap
                           => m_procEntryMap[q].birth < m_procEntryMap[pid].birth}
  <2>1. /\ DOMAIN m_pidCtoPMapping = DOMAIN m_procEntryMap
        /\ \A p \in DOMAIN m_procEntryMap : /\ m_pidCtoPMapping[p] \in Pids \cup {0}
                                            /\ m_procEntryMap[p].birth \in Nat
    BY DEF IInv, EntriesRead
  <2>2. m_pidCtoPMapping[pid] \in Older
    BY <2>1 DEF IInv, ReadInOrder
  <2>3. ASSUME NEW p \in Older \cap DOMAIN m_pidCtoPMapping
        PROVE  m_pidCtoPMapping[p] \in Older
    <3>1. m_procEntryMap[p].birth < m_procEntryMap[pid].birth
      BY <2>1
    <3>2. m_pidCtoPMapping[p] \in DOMAIN m_procEntryMap
            => m_procEntryMap[m_pidCtoPMapping[p]].birth < m_procEntryMap[p].birth
      BY DEF IInv, ReadInOrder
    <3>3. QED
      BY <2>1, <3>1, <3>2
  <2>4. pid \notin Older
    BY <2>1
  <2>5. Older \in SUBSET (Pids \cup {0})
    OBVIOUS
  <2> HIDE DEF Older
  <2>6. QED
    BY <2>2, <2>3, <2>4, <2>5 DEF Ancestors
<1>2. QED
  BY <1>1, Invariance, PTL

\* A list that is emitted misses no process that lived all through the scan.
THEOREM ListsAreComplete == Spec => ListIsComplete
<1>1. IInv /\ EndOfDir /\ Emits =>
        \A pid \in DOMAIN proc :
          proc[pid].birth \in stayed /\ Belongs(m_filterType, proc[pid].kind)
            => pid \in DOMAIN shown'.rows
  <2> SUFFICES ASSUME IInv, EndOfDir, Emits, NEW pid \in DOMAIN proc,
                      proc[pid].birth \in stayed, Belongs(m_filterType, proc[pid].kind)
               PROVE  pid \in DOMAIN shown'.rows
    OBVIOUS
  <2>1. phase = "scan" /\ reading = None /\ ~(pid > cursor)
    BY DEF EndOfDir
  <2>2. pid <= cursor
    BY <2>1, ConstantsAre DEF IInv, Types
  <2>3. pid \in DOMAIN m_procEntryMap /\ Kind(pid) = proc[pid].kind
    BY <2>1, <2>2 DEF IInv, PassedIsRead, ReadIsCurrent, Kind
  <2>4. /\ proc[pid].kind["window"] => pid \in m_guiPIDList
        /\ proc[pid].kind["tray"] => pid \in m_trayPIDs
    BY <2>1 DEF IInv, WindowsKnown
  <2>5. Needed(pid)
    BY <2>3, <2>4 DEF Belongs, Needed, Apps
  <2>6. pid \in FilteredList
    BY <2>3, <2>5 DEF FilteredList
  <2>7. DOMAIN shown'.rows = FilteredList
    BY DEF EndOfDir
  <2>8. QED
    BY <2>6, <2>7
<1>2. QED
  BY <1>1, Invariance, PTL DEF ListIsComplete

\* A list that is emitted has no process that was gone before, and outside of
\* AllProcess none of another user.
THEOREM ListsHaveNoStrangers == Spec => ListHasNoStrangers
<1>1. IInv /\ EndOfDir /\ Emits =>
        \A pid \in DOMAIN shown'.rows :
          /\ shown'.rows[pid] \in met
          /\ m_filterType # "AllProcess" => Kind(pid)["own"]
  <2> SUFFICES ASSUME IInv, EndOfDir, Emits, NEW pid \in DOMAIN shown'.rows
               PROVE  /\ shown'.rows[pid] \in met
                      /\ m_filterType # "AllProcess" => Kind(pid)["own"]
    OBVIOUS
  <2>1. pid \in FilteredList /\ shown'.rows[pid] = m_procEntryMap[pid].birth
    BY DEF EndOfDir
  <2>2. pid \in DOMAIN m_procEntryMap /\ Needed(pid)
    BY <2>1 DEF FilteredList
  <2>3. QED
    BY <2>1, <2>2 DEF IInv, EntriesRead, Needed
<1>2. QED
  BY <1>1, Invariance, PTL DEF ListHasNoStrangers
=============================================================================
