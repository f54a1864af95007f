------------------------ MODULE NethogsMonitorProofs ------------------------
(***************************************************************************)
(* The traffic of processes, for any number of connections, processes and        *)
(* addresses: who owns a connection and a record, what the statistics thread gets  *)
(* of it, and that a total of bytes is a natural number.                         *)
(***************************************************************************)
EXTENDS NethogsMonitor, SequenceTheorems, FiniteSetTheorems, WellFoundedInduction, TLAPS

Process == [pid : Pids \cup {NoPid}, connections : SUBSET Endpoints]

Types ==
  /\ curtime \in Nat
  /\ refreshed \in Int
  /\ DOMAIN connections \subseteq Endpoints
  /\ \A e \in DOMAIN connections : connections[e].lastpacket \in Nat
  /\ processes \in Seq(Nodes)
  /\ proc \in [ToSet(processes) -> Process]
  /\ curproc \in Nat
  /\ record_id \in Nat

-----------------------------------------------------------------------------
(* Connections                                                             *)

\* Refreshes come within MaxGap, and no time passes in one.
Clock ==
  /\ ProcTimeout <= curtime
  /\ refreshed <= curtime
  /\ curtime - refreshed <= MaxGap
  /\ curproc # 0 => refreshed = curtime

\* A refresh leaves no stalled connection behind it.  What it has not come to was
\* left by the refresh before.
Fresh ==
  \A i \in 1..Len(processes) :
    \A e \in proc[processes[i]].connections :
      connections[e].lastpacket + ConnTimeout
        > IF curproc = 0 \/ i < curproc THEN refreshed ELSE curtime - MaxGap

CInv == Types /\ Clock /\ ProcessListWellFormed /\ ConnectionsOwned /\ Fresh

-----------------------------------------------------------------------------
(* Records                                                                 *)

RecordsCounted == \A n \in DOMAIN monitor_record_map : monitor_record_map[n].record_id \in 1..record_id

\* A pending row is of a record that was made; unless it is the record's removal,
\* the node still has the record.
RowsFollowRecords ==
  \A id \in DOMAIN m_row_updates_map :
    /\ id \in 1..record_id
    /\ m_row_updates_map[id].record.record_id = id
    /\ m_row_updates_map[id].action # "REMOVE"
         => \E n \in DOMAIN monitor_record_map :
              /\ monitor_record_map[n].record_id = id
              /\ monitor_record_map[n].pid = m_row_updates_map[id].record.pid

\* No record of a process is older than the one its traffic on display is from.
NoneOlder ==
  \A pid \in Pids \cap DOMAIN m_procNetIO :
    /\ m_procNetIO[pid].record_id \in 1..record_id
    /\ \A n \in DOMAIN monitor_record_map :
         monitor_record_map[n].pid = pid
           => m_procNetIO[pid].record_id <= monitor_record_map[n].record_id

\* NoUpdateLost, for the last state of a record and for its removal.
LastStateReaches ==
  \A n \in DOMAIN monitor_record_map :
    LET id == monitor_record_map[n].record_id
        row == [action |-> "SET", record |-> monitor_record_map[n]]
    IN  monitor_record_map[n].bytes # 0
          => IF id \in DOMAIN m_row_updates_map THEN m_row_updates_map[id] = row
             ELSE id \in DOMAIN taken /\ taken[id] = row

RemovalReaches ==
  \A id \in 1..record_id :
    \/ \E n \in DOMAIN monitor_record_map : monitor_record_map[n].record_id = id
    \/ IF id \in DOMAIN m_row_updates_map THEN m_row_updates_map[id].action = "REMOVE"
       ELSE id \in DOMAIN taken /\ taken[id].action = "REMOVE"

RInv ==
  /\ RecordsFollowNodes /\ RecordsCounted /\ RowsFollowRecords /\ NoneOlder
  /\ LastStateReaches /\ RemovalReaches

IInv == CInv /\ RInv

-----------------------------------------------------------------------------
(* Lists of nodes                                                          *)

LEMMA ToSetIs ==
  ASSUME NEW S, NEW s \in Seq(S), NEW x
  PROVE  x \in ToSet(s) <=> \E i \in 1..Len(s) : s[i] = x
<1>1. DOMAIN s = 1..Len(s)
  OBVIOUS
<1>2. QED
  BY <1>1 DEF ToSet

InFront(x, s) == <<x>> \o s

\* t is the sequence s of elements of S with x in front.
HasInFront(S, x, s, t) ==
  /\ t \in Seq(S)
  /\ Len(t) = Len(s) + 1
  /\ t[1] = x
  /\ \A i \in 1..Len(s) : t[i + 1] = s[i]
  /\ \A i \in 1..Len(t) : i = 1 \/ (i - 1 \in 1..Len(s) /\ t[i] = s[i - 1])

\* A node is put in front.
LEMMA FrontAdded ==
  ASSUME NEW S, NEW s \in Seq(S), NEW x \in S
  PROVE  HasInFront(S, x, s, InFront(x, s))
<1> DEFINE f == <<x>>
           t == InFront(x, s)
<1>1. /\ Len(s) \in Nat
      /\ f \in Seq(S) /\ Len(f) = 1 /\ f[1] = x
  OBVIOUS
<1>2. /\ t \in Seq(S)
      /\ Len(t) = Len(s) + 1
      /\ \A i \in 1..Len(s) + 1 : t[i] = IF i <= 1 THEN f[i] ELSE s[i - 1]
  BY <1>1, ConcatProperties DEF InFront
<1> HIDE DEF t
<1>3. t[1] = x
  BY <1>1, <1>2
<1>4. \A i \in 1..Len(s) : t[i + 1] = s[i]
  <2> SUFFICES ASSUME NEW i \in 1..Len(s)
               PROVE  t[i + 1] = s[i]
    OBVIOUS
  <2>1. i + 1 \in 1..Len(s) + 1 /\ ~(i + 1 <= 1) /\ (i + 1) - 1 = i
    BY <1>1
  <2>2. QED
    BY <1>2, <2>1
<1>5. \A i \in 1..Len(t) : i = 1 \/ (i - 1 \in 1..Len(s) /\ t[i] = s[i - 1])
  BY <1>1, <1>2
<1>6. HasInFront(S, x, s, t)
  BY <1>2, <1>3, <1>4, <1>5 DEF HasInFront
<1>7. QED
  BY <1>6 DEF t

\* The nodes of a list with one in front.
LEMMA FrontMembers ==
  ASSUME NEW S, NEW s \in Seq(S), NEW x, NEW t, HasInFront(S, x, s, t)
  PROVE  ToSet(t) = ToSet(s) \cup {x}
<1> USE DEF HasInFront
<1> SUFFICES ASSUME NEW y
             PROVE  y \in ToSet(t) <=> y \in ToSet(s) \cup {x}
  OBVIOUS
<1>1. y \in ToSet(t) <=> \E i \in 1..Len(t) : t[i] = y
  BY ToSetIs
<1>2. y \in ToSet(s) <=> \E i \in 1..Len(s) : s[i] = y
  BY ToSetIs
<1>3. ASSUME NEW i \in 1..Len(s)
      PROVE  i + 1 \in 1..Len(t)
  BY LenProperties
<1>4. 1 \in 1..Len(t)
  BY LenProperties
<1>5. QED
  BY <1>1, <1>2, <1>3, <1>4

\* One node is taken out.
LEMMA OneRemoved ==
  ASSUME NEW S, NEW s \in Seq(S), NEW k \in 1..Len(s), NEW t, t = RemoveAt(s, k),
         \A i, j \in 1..Len(s) : s[i] = s[j] => i = j
  PROVE  /\ t \in Seq(S)
         /\ Len(t) = Len(s) - 1
         /\ \A i \in 1..Len(t) : i < k => i \in 1..Len(s) /\ t[i] = s[i]
         /\ \A i \in 1..Len(t) : i >= k => i + 1 \in 1..Len(s) /\ t[i] = s[i + 1]
         /\ ToSet(t) = ToSet(s) \ {s[k]}
<1> DEFINE front == SubSeq(s, 1, k - 1)
           back == SubSeq(s, k + 1, Len(s))
<1>1. Len(s) \in Nat
  BY LenProperties
<1>2. /\ front \in Seq(S)
      /\ Len(front) = k - 1
      /\ \A j \in 1..k - 1 : front[j] = s[j]
  <2>1. \A j \in 1..k - 1 : s[j] \in S
    BY <1>1, ElementOfSeq
  <2>2. QED
    BY <1>1, <2>1, SubSeqProperties
<1>3. /\ back \in Seq(S)
      /\ Len(back) = Len(s) - k
      /\ \A j \in 1..Len(s) - k : back[j] = s[j + k]
  <2>1. \A j \in k + 1..Len(s) : s[j] \in S
    BY <1>1, ElementOfSeq
  <2>2. QED
    BY <1>1, <2>1, SubSeqProperties
<1>4. t = front \o back
  BY DEF RemoveAt
<1> HIDE DEF front, back
<1>5. /\ t \in Seq(S)
      /\ Len(t) = Len(front) + Len(back)
      /\ \A j \in 1..Len(front) + Len(back) :
           t[j] = IF j <= Len(front) THEN front[j] ELSE back[j - Len(front)]
  <2>1. front \in Seq(S) /\ back \in Seq(S)
    BY <1>2, <1>3
  <2>2. /\ front \o back \in Seq(S)
        /\ Len(front \o back) = Len(front) + Len(back)
        /\ \A j \in 1..Len(front) + Len(back) :
             (front \o back)[j] = IF j <= Len(front) THEN front[j]
                                                     ELSE back[j - Len(front)]
    BY <2>1, ConcatProperties
  <2>3. QED
    BY <1>4, <2>2
<1>6. Len(t) = Len(s) - 1
  BY <1>1, <1>2, <1>3, <1>5
<1>7. ASSUME NEW i \in 1..Len(t), i < k
      PROVE  i \in 1..Len(s) /\ t[i] = s[i]
  BY <1>1, <1>2, <1>3, <1>5, <1>6, <1>7
<1>8. ASSUME NEW i \in 1..Len(t), i >= k
      PROVE  i + 1 \in 1..Len(s) /\ t[i] = s[i + 1]
  <2>1. i - (k - 1) \in 1..Len(s) - k /\ (i - (k - 1)) + k = i + 1
    BY <1>1, <1>6, <1>8
  <2>2. t[i] = back[i - (k - 1)]
    BY <1>1, <1>2, <1>3, <1>5, <1>6, <1>8
  <2>3. QED
    BY <1>1, <1>3, <1>6, <2>1, <2>2
<1>9. \A y : y \in ToSet(t) <=> y \in ToSet(s) \ {s[k]}
  <2> SUFFICES ASSUME NEW y
               PROVE  y \in ToSet(t) <=> y \in ToSet(s) \ {s[k]}
    OBVIOUS
  <2>1. y \in ToSet(t) <=> \E i \in 1..Len(t) : t[i] = y
    BY <1>5, ToSetIs
  <2>2. y \in ToSet(s) <=> \E i \in 1..Len(s) : s[i] = y
    BY ToSetIs
  <2>3. ASSUME NEW i \in 1..Len(t), t[i] = y
        PROVE  y \in ToSet(s) /\ y # s[k]
    <3>1. CASE i < k
      BY <1>7, <2>2, <2>3, <3>1
    <3>2. CASE i >= k
      <4>1. i + 1 \in 1..Len(s) /\ s[i + 1] = y /\ i + 1 # k
        BY <1>8, <2>3, <3>2
      <4>2. QED
        BY <2>2, <4>1
    <3>3. QED
      BY <3>1, <3>2
  <2>4. ASSUME NEW i \in 1..Len(s), s[i] = y, y # s[k]
        PROVE  y \in ToSet(t)
    <3>1. CASE i < k
      <4>1. i \in 1..Len(t)
        BY <1>1, <1>6, <3>1
      <4>2. QED
        BY <1>7, <2>1, <2>4, <3>1, <4>1
    <3>2. CASE i > k
      <4>1. i - 1 \in 1..Len(t) /\ i - 1 >= k /\ (i - 1) + 1 = i
        BY <1>1, <1>6, <3>2
      <4>2. t[i - 1] = y
        BY <1>8, <2>4, <4>1
      <4>3. QED
        BY <2>1, <4>1, <4>2
    <3>3. QED
      BY <2>4, <3>1, <3>2
  <2>5. QED
    BY <2>1, <2>2, <2>3, <2>4
<1>10. QED
  BY <1>5, <1>6, <1>7, <1>8, <1>9

-----------------------------------------------------------------------------
(* The list of processes                                                   *)

\* The facts about the list that the steps use.
LEMMA Listed ==
  ASSUME Types, ProcessListWellFormed
  PROVE  /\ Len(processes) \in Nat \ {0}
         /\ \A i \in 1..Len(processes) : processes[i] \in ToSet(processes)
         /\ \A n \in ToSet(processes) : \E i \in 1..Len(processes) : processes[i] = n
         /\ \A i, j \in 1..Len(processes) : processes[i] = processes[j] => i = j
         /\ ToSet(processes) \subseteq Nodes
         /\ unknowntcp \in ToSet(processes)
<1>1. processes \in Seq(Nodes) /\ processes # << >>
  BY DEF Types, ProcessListWellFormed
<1>2. Len(processes) \in Nat \ {0}
  BY <1>1, EmptySeq
<1>3. \A n : n \in ToSet(processes) <=> \E i \in 1..Len(processes) : processes[i] = n
  BY <1>1, ToSetIs
<1>4. \A i \in 1..Len(processes) : processes[i] \in Nodes
  BY <1>1, <1>2, ElementOfSeq
<1>5. \A i, j \in 1..Len(processes) : processes[i] = processes[j] => i = j
  BY DEF ProcessListWellFormed
<1>6. Len(processes) \in 1..Len(processes)
  BY <1>2
<1>7. unknowntcp \in ToSet(processes)
  BY <1>3, <1>6 DEF ProcessListWellFormed
<1>8. QED
  BY <1>2, <1>3, <1>4, <1>5, <1>7

\* A process has one node.
LEMMA OneNodePerProcess ==
  ASSUME Types, ProcessListWellFormed,
         NEW m \in ToSet(processes), NEW n \in ToSet(processes),
         proc[m].pid = proc[n].pid, proc[m].pid # NoPid
  PROVE  m = n
<1>1. PICK i \in 1..Len(processes) : processes[i] = m
  BY Listed
<1>2. PICK j \in 1..Len(processes) : processes[j] = n
  BY Listed
<1>3. QED
  BY <1>1, <1>2 DEF ProcessListWellFormed

-----------------------------------------------------------------------------
(* The invariant of connections                                            *)

LEMMA InitCInv == Init => CInv
<1> SUFFICES ASSUME Init
             PROVE  CInv
  OBVIOUS
<1>1. /\ processes = <<unknowntcp>>
      /\ processes \in Seq(Nodes)
      /\ Len(processes) = 1
      /\ processes[1] = unknowntcp
  BY ConstantsAssumption DEF Init
<1>2. DOMAIN processes = {1}
  BY <1>1
<1>3. ToSet(processes) = {unknowntcp}
  BY <1>1, <1>2 DEF ToSet
<1>4. proc[unknowntcp] = [pid |-> NoPid, connections |-> {}]
  BY DEF Init
<1>5. Types
  BY <1>1, <1>3, ConstantsAssumption DEF Init, Types, Process, Empty
<1>6. Clock
  BY ConstantsAssumption DEF Init, Clock
<1>7. ProcessListWellFormed
  BY <1>1 DEF ProcessListWellFormed
<1>8. ConnectionsOwned
  BY <1>3, <1>4 DEF Init, ConnectionsOwned, Empty
<1>9. Fresh
  BY <1>1, <1>4 DEF Fresh
<1>10. QED
  BY <1>5, <1>6, <1>7, <1>8, <1>9 DEF CInv

LEMMA TickCInv ==
  ASSUME CInv, Tick
  PROVE  CInv'
<1>1. UNCHANGED <<refreshed, connections, processes, proc, record_id, curproc>>
  BY DEF Tick
<1>2. curtime' = curtime + 1 /\ curproc = 0 /\ curtime - refreshed < MaxGap
  BY DEF Tick
<1>3. Types'
  BY <1>1, <1>2 DEF CInv, Types
<1>4. Clock'
  BY <1>1, <1>2, ConstantsAssumption DEF CInv, Clock, Types
<1>5. ProcessListWellFormed' /\ ConnectionsOwned'
  BY <1>1 DEF CInv, ProcessListWellFormed, ConnectionsOwned
<1>6. Fresh'
  BY <1>1, <1>2 DEF CInv, Fresh
<1>7. QED
  BY <1>3, <1>4, <1>5, <1>6 DEF CInv

LEMMA AddPacketCInv ==
  ASSUME CInv, NEW e \in Endpoints, AddPacket(e)
  PROVE  CInv'
<1>1. UNCHANGED <<curtime, refreshed, processes, proc, record_id, curproc>>
  BY DEF AddPacket
<1>2. curproc = 0 /\ e \in DOMAIN connections
  BY DEF AddPacket
<1>3. /\ DOMAIN connections' = DOMAIN connections
      /\ connections'[e].lastpacket = curtime
      /\ \A f \in DOMAIN connections \ {e} : connections'[f] = connections[f]
  BY <1>2 DEF AddPacket
<1>4. Types'
  BY <1>1, <1>3 DEF CInv, Types
<1>5. Clock' /\ ProcessListWellFormed'
  BY <1>1 DEF CInv, Clock, ProcessListWellFormed
<1>6. ConnectionsOwned'
  BY <1>1, <1>3 DEF CInv, ConnectionsOwned
<1>7. Fresh'
  <2> SUFFICES ASSUME NEW i \in 1..Len(processes),
                      NEW f \in proc[processes[i]].connections
               PROVE  connections'[f].lastpacket + ConnTimeout > refreshed
    BY <1>1, <1>2 DEF Fresh
  <2>1. processes[i] \in ToSet(processes)
    BY Listed DEF CInv
  <2>2. f \in DOMAIN connections
    BY <2>1 DEF CInv, ConnectionsOwned
  <2>3. CASE f = e
    BY <1>3, <2>3, ConstantsAssumption DEF CInv, Types, Clock
  <2>4. CASE f # e
    BY <1>2, <1>3, <2>2, <2>4 DEF CInv, Fresh
  <2>5. QED
    BY <2>3, <2>4
<1>8. QED
  BY <1>4, <1>5, <1>6, <1>7 DEF CInv

\* A new connection: its process is known, or gets a node at the front.
LEMMA NewConnectionCInv ==
  ASSUME CInv, NEW e \in Endpoints, NEW pid \in Pids \cup {NoPid}, NewConnection(e, pid)
  PROVE  CInv'
<1>1. UNCHANGED <<curtime, refreshed, record_id, curproc>>
  BY DEF NewConnection
<1>2. curproc = 0 /\ e \notin DOMAIN connections
  BY DEF NewConnection
<1>3. /\ DOMAIN connections' = DOMAIN connections \cup {e}
      /\ connections'[e].lastpacket = curtime
      /\ \A f \in DOMAIN connections : connections'[f] = connections[f]
  BY <1>2 DEF NewConnection, With
<1>4. /\ Types /\ Clock /\ ProcessListWellFormed /\ ConnectionsOwned /\ Fresh
      /\ processes \in Seq(Nodes)
      /\ proc \in [ToSet(processes) -> Process]
  BY DEF CInv, Types
<1>5. Clock'
  BY <1>1, <1>4 DEF Clock
<1>6. \A n \in ToSet(processes) :
        /\ proc[n] \in Process
        /\ proc[n].connections \subseteq DOMAIN connections
        /\ e \notin proc[n].connections
  BY <1>2, <1>4 DEF ConnectionsOwned
<1>7. \A i \in 1..Len(processes) : \A f \in proc[processes[i]].connections :
        /\ f \in DOMAIN connections
        /\ connections'[f].lastpacket + ConnTimeout > refreshed
  BY <1>2, <1>3, <1>4, <1>6, Listed DEF Fresh
<1>8. connections'[e].lastpacket + ConnTimeout > refreshed
  BY <1>3, <1>4, ConstantsAssumption DEF Types, Clock
<1>9. CASE \E n \in FindProcess(pid) :
             /\ pid # NoPid
             /\ proc' = [proc EXCEPT ![n].connections = @ \cup {e}]
             /\ UNCHANGED processes
  <2>1. PICK n \in ToSet(processes) :
               /\ proc' = [proc EXCEPT ![n].connections = @ \cup {e}]
               /\ UNCHANGED processes
    BY <1>9 DEF FindProcess
  <2>2. /\ DOMAIN proc' = ToSet(processes)
        /\ proc'[n].pid = proc[n].pid
        /\ proc'[n].connections = proc[n].connections \cup {e}
        /\ proc'[n] \in Process
        /\ \A m \in ToSet(processes) \ {n} : proc'[m] = proc[m]
    BY <1>4, <1>6, <2>1 DEF Process
  <2>3. Types'
    <3>1. proc' \in [ToSet(processes) -> Process]
      BY <1>4, <1>6, <2>1, <2>2
    <3>2. QED
      BY <1>1, <1>3, <1>4, <2>1, <3>1 DEF Types
  <2>4. ProcessListWellFormed'
    <3>1. \A m \in ToSet(processes) : proc'[m].pid = proc[m].pid
      BY <2>2
    <3>2. QED
      BY <1>4, <2>1, <3>1, Listed DEF ProcessListWellFormed
  <2>5. ConnectionsOwned'
    <3>1. \A f \in DOMAIN connections' : \E m \in ToSet(processes) : f \in proc'[m].connections
      BY <1>3, <1>4, <2>2 DEF ConnectionsOwned
    <3>2. \A m \in ToSet(processes) : proc'[m].connections \subseteq DOMAIN connections'
      BY <1>3, <1>6, <2>2
    <3>3. \A l, m \in ToSet(processes) :
            l # m => proc'[l].connections \cap proc'[m].connections = {}
      BY <1>4, <1>6, <2>2 DEF ConnectionsOwned
    <3>4. QED
      BY <2>1, <3>1, <3>2, <3>3 DEF ConnectionsOwned
  <2>6. Fresh'
    <3> SUFFICES ASSUME NEW i \in 1..Len(processes), NEW f \in proc'[processes[i]].connections
                 PROVE  connections'[f].lastpacket + ConnTimeout > refreshed
      BY <1>1, <1>2, <2>1 DEF Fresh
    <3>1. f = e \/ f \in proc[processes[i]].connections
      BY <1>4, <2>2, Listed
    <3>2. QED
      BY <1>7, <1>8, <3>1
  <2>7. QED
    BY <1>5, <2>3, <2>4, <2>5, <2>6 DEF CInv
<1>10. CASE \E n \in Nodes \ ToSet(processes) :
              /\ pid = NoPid \/ FindProcess(pid) = {}
              /\ proc' = With(proc, n, [pid |-> pid, connections |-> {e}])
              /\ processes' = <<n>> \o processes
  <2>1. PICK n \in Nodes \ ToSet(processes) :
              /\ pid = NoPid \/ FindProcess(pid) = {}
              /\ proc' = With(proc, n, [pid |-> pid, connections |-> {e}])
              /\ processes' = <<n>> \o processes
    BY <1>10
  <2>2. /\ processes' \in Seq(Nodes)
        /\ Len(processes') = Len(processes) + 1
        /\ processes'[1] = n
        /\ \A i \in 1..Len(processes) : processes'[i + 1] = processes[i]
        /\ \A i \in 1..Len(processes') :
             i = 1 \/ (i - 1 \in 1..Len(processes) /\ processes'[i] = processes[i - 1])
        /\ ToSet(processes') = ToSet(processes) \cup {n}
    <3>1. processes \in Seq(Nodes) /\ n \in Nodes
      BY <1>4, <2>1
    <3>2. HasInFront(Nodes, n, processes, InFront(n, processes))
      BY <3>1, FrontAdded
    <3>3. HasInFront(Nodes, n, processes, processes')
      BY <2>1, <3>2 DEF InFront
    <3>4. ToSet(processes') = ToSet(processes) \cup {n}
      BY <3>1, <3>3, FrontMembers
    <3>5. QED
      BY <3>3, <3>4 DEF HasInFront
  <2>3. /\ DOMAIN proc' = ToSet(processes')
        /\ proc'[n] = [pid |-> pid, connections |-> {e}]
        /\ proc'[n] \in Process
        /\ \A m \in ToSet(processes) : proc'[m] = proc[m]
    BY <1>4, <2>1, <2>2 DEF With, Process
  <2>4. Types'
    <3>1. proc' = [m \in ToSet(processes') |-> proc'[m]]
      BY <2>1, <2>3 DEF With
    <3>2. proc' \in [ToSet(processes') -> Process]
      BY <1>6, <2>2, <2>3, <3>1
    <3>3. QED
      BY <1>1, <1>3, <1>4, <2>2, <3>2 DEF Types
  <2>5. ProcessListWellFormed'
    <3>1. Len(processes) \in Nat \ {0} /\ Len(processes) \in 1..Len(processes)
      BY <1>4, Listed
    <3>2. processes'[Len(processes')] = unknowntcp
      BY <1>4, <2>2, <3>1 DEF ProcessListWellFormed
    <3>3. processes' # << >>
      BY <2>2, <3>1, EmptySeq
    <3>4. ASSUME NEW i \in 1..Len(processes)
          PROVE  /\ processes[i] # n
                 /\ pid = NoPid \/ proc[processes[i]].pid # pid
                 /\ proc'[processes[i]].pid = proc[processes[i]].pid
      <4>1. processes[i] \in ToSet(processes)
        BY <1>4, Listed
      <4>2. QED
        BY <2>1, <2>3, <4>1 DEF FindProcess
    <3>5. ASSUME NEW i \in 1..Len(processes'), NEW j \in 1..Len(processes'), i # j
          PROVE  /\ processes'[i] # processes'[j]
                 /\ \/ proc'[processes'[i]].pid = NoPid
                    \/ proc'[processes'[i]].pid # proc'[processes'[j]].pid
      <4>1. CASE i = 1
        <5>1. /\ j - 1 \in 1..Len(processes) /\ processes'[j] = processes[j - 1]
              /\ processes'[i] = n
          BY <2>2, <3>5, <4>1
        <5>2. proc'[processes'[i]].pid = pid
          BY <2>3, <5>1
        <5>3. QED
          BY <3>4, <5>1, <5>2
      <4>2. CASE j = 1
        <5>1. /\ i - 1 \in 1..Len(processes) /\ processes'[i] = processes[i - 1]
              /\ processes'[j] = n
          BY <2>2, <3>5, <4>2
        <5>2. proc'[processes'[j]].pid = pid
          BY <2>3, <5>1
        <5>3. QED
          BY <3>4, <5>1, <5>2
      <4>3. CASE i # 1 /\ j # 1
        <5>1. /\ i - 1 \in 1..Len(processes) /\ processes'[i] = processes[i - 1]
              /\ j - 1 \in 1..Len(processes) /\ processes'[j] = processes[j - 1]
              /\ i - 1 # j - 1
          BY <2>2, <3>5, <4>3
        <5>2. /\ processes[i - 1] # processes[j - 1]
              /\ \/ proc[processes[i - 1]].pid = NoPid
                 \/ proc[processes[i - 1]].pid # proc[processes[j - 1]].pid
          BY <1>4, <5>1 DEF ProcessListWellFormed
        <5>3. QED
          BY <3>4, <5>1, <5>2
      <4>4. QED
        BY <4>1, <4>2, <4>3
    <3>6. QED
      BY <3>2, <3>3, <3>5 DEF ProcessListWellFormed
  <2>6. ConnectionsOwned'
    <3>1. \A f \in DOMAIN connections' : \E m \in ToSet(processes') : f \in proc'[m].connections
      BY <1>3, <1>4, <2>2, <2>3 DEF ConnectionsOwned
    <3>2. \A m \in ToSet(processes') : proc'[m].connections \subseteq DOMAIN connections'
      BY <1>3, <1>6, <2>2, <2>3
    <3>3. \A l, m \in ToSet(processes') :
            l # m => proc'[l].connections \cap proc'[m].connections = {}
      BY <1>4, <1>6, <2>2, <2>3 DEF ConnectionsOwned
    <3>4. QED
      BY <3>1, <3>2, <3>3 DEF ConnectionsOwned
  <2>7. Fresh'
    <3> SUFFICES ASSUME NEW i \in 1..Len(processes'), NEW f \in proc'[processes'[i]].connections
                 PROVE  connections'[f].lastpacket + ConnTimeout > refreshed
      BY <1>1, <1>2 DEF Fresh
    <3>1. CASE i = 1
      BY <1>8, <2>2, <2>3, <3>1
    <3>2. CASE i # 1
      <4>1. i - 1 \in 1..Len(processes) /\ processes'[i] = processes[i - 1]
        BY <2>2, <3>2
      <4>2. f \in proc[processes[i - 1]].connections
        BY <1>4, <2>3, <4>1, Listed
      <4>3. QED
        BY <1>7, <4>1, <4>2
    <3>3. QED
      BY <3>1, <3>2
  <2>8. QED
    BY <1>5, <2>4, <2>5, <2>6, <2>7 DEF CInv
<1>11. QED
  BY <1>9, <1>10 DEF NewConnection, GetProcess

LEMMA StartRefreshCInv ==
  ASSUME CInv, StartRefresh
  PROVE  CInv'
<1>1. UNCHANGED <<curtime, connections, processes, proc, record_id>>
  BY DEF StartRefresh
<1>2. curproc = 0 /\ curproc' = 1 /\ refreshed' = curtime
  BY DEF StartRefresh
<1>3. Types'
  BY <1>1, <1>2 DEF CInv, Types
<1>4. Clock'
  BY <1>1, <1>2, ConstantsAssumption DEF CInv, Types, Clock
<1>5. ProcessListWellFormed' /\ ConnectionsOwned'
  BY <1>1 DEF CInv, ProcessListWellFormed, ConnectionsOwned
<1>6. Fresh'
  <2> SUFFICES ASSUME NEW i \in 1..Len(processes),
                      NEW f \in proc[processes[i]].connections
               PROVE  connections[f].lastpacket + ConnTimeout > curtime - MaxGap
    BY <1>1, <1>2 DEF Fresh
  <2>1. processes[i] \in ToSet(processes)
    BY Listed DEF CInv
  <2>2. connections[f].lastpacket \in Nat
    BY <2>1 DEF CInv, ConnectionsOwned, Types
  <2>3. connections[f].lastpacket + ConnTimeout > refreshed
    BY <1>2 DEF CInv, Fresh
  <2>4. QED
    BY <2>2, <2>3, ConstantsAssumption DEF CInv, Types, Clock
<1>7. QED
  BY <1>3, <1>4, <1>5, <1>6 DEF CInv

\* A process that is removed has no connection left: its connections timed out a
\* refresh ago at the latest.
LEMMA RemovedIsIdle ==
  ASSUME CInv, curproc \in 1..Len(processes), TimedOut(processes[curproc])
  PROVE  proc[processes[curproc]].connections = {}
<1> SUFFICES ASSUME NEW e \in proc[processes[curproc]].connections
             PROVE  FALSE
  OBVIOUS
<1>1. processes[curproc] \in ToSet(processes) /\ curproc # 0
  BY Listed DEF CInv
<1>2. connections[e].lastpacket \in Nat
  BY <1>1 DEF CInv, ConnectionsOwned, Types
<1>3. connections[e].lastpacket + ConnTimeout > curtime - MaxGap
  BY <1>1 DEF CInv, Fresh, Types
<1>4. connections[e].lastpacket + ProcTimeout <= curtime
  BY DEF TimedOut
<1>5. QED
  BY <1>2, <1>3, <1>4, ConstantsAssumption, TimeoutsAssumption DEF CInv, Types

\* What RemoveProcess does to list and processes.
LEMMA RemovedNode ==
  ASSUME CInv, RemoveProcess, NEW n, n = processes[curproc]
  PROVE  /\ curproc \in 1..Len(processes)
         /\ n \in ToSet(processes)
         /\ proc[n].connections = {}
         /\ processes' \in Seq(Nodes)
         /\ Len(processes') = Len(processes) - 1
         /\ \A i \in 1..Len(processes') :
              i < curproc => i \in 1..Len(processes) /\ processes'[i] = processes[i]
         /\ \A i \in 1..Len(processes') :
              i >= curproc => i + 1 \in 1..Len(processes) /\ processes'[i] = processes[i + 1]
         /\ ToSet(processes') = ToSet(processes) \ {n}
         /\ DOMAIN proc' = ToSet(processes')
         /\ \A m \in ToSet(processes') : proc'[m] = proc[m]
         /\ \A m \in ToSet(processes') : proc[m] \in Process
<1>1. /\ curproc \in 1..Len(processes)
      /\ TimedOut(n)
      /\ proc' = Without(proc, {n})
      /\ processes' = RemoveAt(processes, curproc)
  BY DEF RemoveProcess
<1>2. n \in ToSet(processes)
  BY <1>1, Listed DEF CInv
<1>3. proc[n].connections = {}
  BY <1>1, RemovedIsIdle
<1>4. /\ processes \in Seq(Nodes)
      /\ \A i, j \in 1..Len(processes) : processes[i] = processes[j] => i = j
      /\ proc \in [ToSet(processes) -> Process]
  BY Listed DEF CInv, Types
<1>5. /\ processes' \in Seq(Nodes)
      /\ Len(processes') = Len(processes) - 1
      /\ \A i \in 1..Len(processes') :
           i < curproc => i \in 1..Len(processes) /\ processes'[i] = processes[i]
      /\ \A i \in 1..Len(processes') :
           i >= curproc => i + 1 \in 1..Len(processes) /\ processes'[i] = processes[i + 1]
      /\ ToSet(processes') = ToSet(processes) \ {processes[curproc]}
  <2>1. PICK t : t = processes'
    OBVIOUS
  <2>2. t = RemoveAt(processes, curproc)
    BY <1>1, <2>1
  <2>3. /\ t \in Seq(Nodes)
        /\ Len(t) = Len(processes) - 1
        /\ \A i \in 1..Len(t) :
             i < curproc => i \in 1..Len(processes) /\ t[i] = processes[i]
        /\ \A i \in 1..Len(t) :
             i >= curproc => i + 1 \in 1..Len(processes) /\ t[i] = processes[i + 1]
        /\ ToSet(t) = ToSet(processes) \ {processes[curproc]}
    BY <1>1, <1>4, <2>2, OneRemoved
  <2>4. QED
    BY <2>1, <2>3
<1>6. /\ DOMAIN proc' = ToSet(processes')
      /\ \A m \in ToSet(processes') : proc'[m] = proc[m]
      /\ \A m \in ToSet(processes') : proc[m] \in Process
  BY <1>1, <1>4, <1>5 DEF Without
<1>7. QED
  BY <1>1, <1>2, <1>3, <1>5, <1>6

LEMMA RemoveProcessCInv ==
  ASSUME CInv, RemoveProcess
  PROVE  CInv'
<1> DEFINE n == processes[curproc]
<1>1. UNCHANGED <<curtime, refreshed, connections, record_id, curproc>>
  BY DEF RemoveProcess
<1>2. /\ curproc \in 1..Len(processes)
      /\ n \in ToSet(processes)
      /\ proc[n].connections = {}
      /\ processes' \in Seq(Nodes)
      /\ Len(processes') = Len(processes) - 1
      /\ \A i \in 1..Len(processes') :
           i < curproc => i \in 1..Len(processes) /\ processes'[i] = processes[i]
      /\ \A i \in 1..Len(processes') :
           i >= curproc => i + 1 \in 1..Len(processes) /\ processes'[i] = processes[i + 1]
      /\ ToSet(processes') = ToSet(processes) \ {n}
      /\ DOMAIN proc' = ToSet(processes')
      /\ \A m \in ToSet(processes') : proc'[m] = proc[m]
      /\ \A m \in ToSet(processes') : proc[m] \in Process
  BY RemovedNode
<1>3. n # unknowntcp
  BY DEF RemoveProcess, TimedOut
<1> HIDE DEF n
<1>4. /\ Types /\ Clock /\ ProcessListWellFormed /\ ConnectionsOwned /\ Fresh
      /\ Len(processes) \in Nat \ {0}
      /\ \A i \in 1..Len(processes) : processes[i] \in ToSet(processes)
  BY Listed DEF CInv
<1>5. Types'
  <2>1. proc' \in [ToSet(processes') -> Process]
    <3>1. proc' = [m \in ToSet(processes') |-> proc'[m]]
      BY <1>2 DEF RemoveProcess, Without
    <3>2. QED
      BY <1>2, <3>1
  <2>2. QED
    BY <1>1, <1>2, <1>4, <2>1 DEF Types
<1>6. Clock'
  BY <1>1, <1>4 DEF Clock
<1>7. ASSUME NEW i \in 1..Len(processes')
      PROVE  processes'[i] \in ToSet(processes')
  BY <1>2, ToSetIs
<1>8. ProcessListWellFormed'
  <2>1. Len(processes') \in Nat
    BY <1>2, LenProperties
  <2>2. processes' # << >> /\ processes'[Len(processes')] = unknowntcp
    <3>1. processes[Len(processes)] = unknowntcp
      BY <1>4 DEF ProcessListWellFormed
    <3>2. PICK i \in 1..Len(processes') : processes'[i] = unknowntcp
      <4>1. unknowntcp \in ToSet(processes')
        BY <1>2, <1>3, <1>4, Listed
      <4>2. QED
        BY <1>2, <4>1, ToSetIs
    <3>3. Len(processes') \in 1..Len(processes')
      BY <2>1, <3>2
    <3>4. Len(processes') + 1 = Len(processes)
      BY <1>2, <1>4, <2>1
    <3>5. CASE Len(processes') >= curproc
      BY <1>2, <3>1, <3>3, <3>4, <3>5, EmptySeq
    <3>6. CASE Len(processes') < curproc
      <4>1. curproc = Len(processes)
        <5>1. curproc \in Nat /\ curproc <= Len(processes) /\ Len(processes) \in Nat
          BY <1>2, <1>4
        <5>2. QED
          BY <2>1, <3>4, <3>6, <5>1
      <4>2. QED
        BY <1>3, <3>1, <4>1 DEF n
    <3>7. QED
      BY <1>2, <2>1, <3>5, <3>6
  <2>3. ASSUME NEW i \in 1..Len(processes'), NEW j \in 1..Len(processes'), i # j
        PROVE  /\ processes'[i] # processes'[j]
               /\ \/ proc'[processes'[i]].pid = NoPid
                  \/ proc'[processes'[i]].pid # proc'[processes'[j]].pid
    <3>1. PICK a \in 1..Len(processes) : /\ a = IF i < curproc THEN i ELSE i + 1
                                         /\ processes'[i] = processes[a]
      <4>1. CASE i < curproc
        BY <1>2, <2>1, <4>1
      <4>2. CASE ~(i < curproc)
        BY <1>2, <2>1, <4>2
      <4>3. QED
        BY <4>1, <4>2
    <3>2. PICK b \in 1..Len(processes) : /\ b = IF j < curproc THEN j ELSE j + 1
                                         /\ processes'[j] = processes[b]
      <4>1. CASE j < curproc
        BY <1>2, <2>1, <4>1
      <4>2. CASE ~(j < curproc)
        BY <1>2, <2>1, <4>2
      <4>3. QED
        BY <4>1, <4>2
    <3>3. a # b
      BY <1>2, <2>1, <2>3, <3>1, <3>2
    <3>4. proc'[processes'[i]] = proc[processes[a]] /\ proc'[processes'[j]] = proc[processes[b]]
      BY <1>2, <1>7, <3>1, <3>2
    <3>5. QED
      BY <1>4, <3>1, <3>2, <3>3, <3>4 DEF ProcessListWellFormed
  <2>4. QED
    BY <2>2, <2>3 DEF ProcessListWellFormed
<1>9. ConnectionsOwned'
  BY <1>1, <1>2, <1>4 DEF ConnectionsOwned
<1>10. Fresh'
  <2> SUFFICES ASSUME NEW i \in 1..Len(processes'), NEW f \in proc'[processes'[i]].connections
               PROVE  connections[f].lastpacket + ConnTimeout
                        > IF curproc = 0 \/ i < curproc THEN refreshed ELSE curtime - MaxGap
    BY <1>1 DEF Fresh
  <2>1. f \in proc[processes'[i]].connections
    BY <1>2, <1>7
  <2>2. CASE i < curproc
    BY <1>2, <1>4, <2>1, <2>2 DEF Fresh
  <2>3. CASE i >= curproc
    <3>1. i + 1 \in 1..Len(processes) /\ processes'[i] = processes[i + 1] /\ ~(i + 1 < curproc)
      BY <1>2, <2>3
    <3>2. curproc # 0 /\ ~(i < curproc)
      BY <1>2, <2>3
    <3>3. QED
      BY <1>4, <2>1, <3>1, <3>2 DEF Fresh
  <2>4. QED
    BY <1>2, <2>2, <2>3
<1>11. QED
  BY <1>5, <1>6, <1>8, <1>9, <1>10 DEF CInv

\* A process that is reported keeps the connections that had a packet of late.
LEMMA ReportProcessCInv ==
  ASSUME CInv, ReportProcess
  PROVE  CInv'
<1> DEFINE n == processes[curproc]
           stalled == Stalled(n)
<1>1. /\ UNCHANGED <<curtime, refreshed, processes>>
      /\ curproc' = curproc + 1
      /\ curproc \in 1..Len(processes)
  BY DEF ReportProcess
<1>2. /\ connections' = Without(connections, stalled)
      /\ proc' = [proc EXCEPT ![n].connections = @ \ stalled]
      /\ record_id' = IF n \in DOMAIN monitor_record_map THEN record_id ELSE record_id + 1
  BY DEF ReportProcess
<1>3. \A f \in proc[n].connections :
        f \in stalled <=> connections[f].lastpacket <= curtime - ConnTimeout
  BY DEF Stalled
<1>4. stalled \subseteq proc[n].connections
  BY DEF Stalled
<1>5. n \in ToSet(processes) /\ \A i \in 1..Len(processes) : processes[i] = n => i = curproc
  BY <1>1, Listed DEF CInv
<1> HIDE DEF n, stalled
<1>6. /\ Types /\ Clock /\ ProcessListWellFormed /\ ConnectionsOwned /\ Fresh
      /\ proc \in [ToSet(processes) -> Process]
      /\ curproc \in Nat
      /\ \A i \in 1..Len(processes) : processes[i] \in ToSet(processes)
  BY Listed DEF CInv, Types
<1>7. /\ DOMAIN connections' = DOMAIN connections \ stalled
      /\ \A f \in DOMAIN connections' : connections'[f] = connections[f]
  BY <1>2 DEF Without
<1>8. \A m \in ToSet(processes) :
        /\ proc[m] \in Process
        /\ proc[m].connections \subseteq DOMAIN connections
        /\ m # n => proc[m].connections \cap stalled = {}
  BY <1>4, <1>5, <1>6 DEF ConnectionsOwned
<1>9. /\ DOMAIN proc' = ToSet(processes)
      /\ proc'[n].pid = proc[n].pid
      /\ proc'[n].connections = proc[n].connections \ stalled
      /\ proc'[n] \in Process
      /\ \A m \in ToSet(processes) \ {n} : proc'[m] = proc[m]
  BY <1>2, <1>5, <1>6, <1>8 DEF Process
<1>10. Types'
  <2>1. proc' \in [ToSet(processes) -> Process]
    BY <1>2, <1>6, <1>8, <1>9
  <2>2. record_id' \in Nat
    BY <1>2, <1>6 DEF Types
  <2>3. QED
    BY <1>1, <1>6, <1>7, <2>1, <2>2 DEF Types
<1>11. Clock'
  BY <1>1, <1>6 DEF Clock
<1>12. ProcessListWellFormed'
  <2>1. \A m \in ToSet(processes) : proc'[m].pid = proc[m].pid
    BY <1>9
  <2>2. QED
    BY <1>1, <1>6, <2>1 DEF ProcessListWellFormed
<1>13. \A m \in ToSet(processes) : proc'[m].connections = proc[m].connections \ stalled
  BY <1>8, <1>9
<1>14. ConnectionsOwned'
  <2>1. \A f \in DOMAIN connections' : \E m \in ToSet(processes) : f \in proc'[m].connections
    BY <1>6, <1>7, <1>13 DEF ConnectionsOwned
  <2>2. \A m \in ToSet(processes) : proc'[m].connections \subseteq DOMAIN connections'
    BY <1>7, <1>8, <1>13
  <2>3. \A l, m \in ToSet(processes) :
          l # m => proc'[l].connections \cap proc'[m].connections = {}
    BY <1>6, <1>13 DEF ConnectionsOwned
  <2>4. QED
    BY <1>1, <2>1, <2>2, <2>3 DEF ConnectionsOwned
<1>15. Fresh'
  <2> SUFFICES ASSUME NEW i \in 1..Len(processes), NEW f \in proc'[processes[i]].connections
               PROVE  connections'[f].lastpacket + ConnTimeout
                        > IF curproc + 1 = 0 \/ i < curproc + 1 THEN refreshed
                                                               ELSE curtime - MaxGap
    BY <1>1 DEF Fresh
  <2>1. /\ f \in proc[processes[i]].connections
        /\ f \notin stalled
        /\ f \in DOMAIN connections
        /\ connections'[f] = connections[f]
        /\ connections[f].lastpacket \in Nat
    BY <1>6, <1>7, <1>8, <1>13 DEF Types
  <2>2. CASE i = curproc
    <3>1. ~(connections[f].lastpacket <= curtime - ConnTimeout)
      BY <1>3, <2>1, <2>2 DEF n
    <3>2. refreshed = curtime /\ i < curproc + 1
      BY <1>1, <1>6, <2>2 DEF Clock
    <3>3. QED
      BY <1>6, <2>1, <3>1, <3>2, ConstantsAssumption DEF Types
  <2>3. CASE i # curproc
    <3>1. /\ i < curproc + 1 <=> i < curproc
          /\ curproc # 0 /\ curproc + 1 # 0
      BY <1>1, <1>6, <2>3
    <3>2. QED
      BY <1>6, <2>1, <3>1 DEF Fresh
  <2>4. QED
    BY <2>2, <2>3
<1>16. QED
  BY <1>10, <1>11, <1>12, <1>14, <1>15 DEF CInv

LEMMA EndRefreshCInv ==
  ASSUME CInv, EndRefresh
  PROVE  CInv'
<1>1. UNCHANGED <<curtime, refreshed, connections, processes, proc, record_id>>
  BY DEF EndRefresh
<1>2. curproc > Len(processes) /\ curproc' = 0
  BY DEF EndRefresh
<1>3. Types'
  BY <1>1, <1>2 DEF CInv, Types
<1>4. Clock'
  BY <1>1, <1>2 DEF CInv, Clock
<1>5. ProcessListWellFormed' /\ ConnectionsOwned'
  BY <1>1 DEF CInv, ProcessListWellFormed, ConnectionsOwned
<1>6. Fresh'
  <2>1. \A i \in 1..Len(processes) : i < curproc
    BY <1>2, Listed DEF CInv, Types
  <2>2. QED
    BY <1>1, <1>2, <2>1 DEF CInv, Fresh
<1>7. QED
  BY <1>3, <1>4, <1>5, <1>6 DEF CInv

\* The statistics thread touches nothing of the monitor's.
LEMMA SameCInv ==
  ASSUME CInv, UNCHANGED monitorVars
  PROVE  CInv'
<1>1. UNCHANGED <<curtime, refreshed, connections, processes, proc, record_id, curproc>>
  BY DEF monitorVars
<1>2. Types' /\ Clock'
  BY <1>1 DEF CInv, Types, Clock
<1>3. ProcessListWellFormed' /\ ConnectionsOwned'
  BY <1>1 DEF CInv, ProcessListWellFormed, ConnectionsOwned
<1>4. Fresh'
  BY <1>1 DEF CInv, Fresh
<1>5. QED
  BY <1>2, <1>3, <1>4 DEF CInv

LEMMA NextCInv ==
  ASSUME CInv, [Next]_vars
  PROVE  CInv'
<1>1. CASE Tick
  BY <1>1, TickCInv
<1>2. ASSUME NEW e \in Endpoints, AddPacket(e)
      PROVE  CInv'
  BY <1>2, AddPacketCInv
<1>3. ASSUME NEW e \in Endpoints, NEW pid \in Pids \cup {NoPid}, NewConnection(e, pid)
      PROVE  CInv'
  BY <1>3, NewConnectionCInv
<1>4. CASE StartRefresh
  BY <1>4, StartRefreshCInv
<1>5. CASE RemoveProcess
  BY <1>5, RemoveProcessCInv
<1>6. CASE ReportProcess
  BY <1>6, ReportProcessCInv
<1>7. CASE EndRefresh
  BY <1>7, EndRefreshCInv
<1>8. CASE StartDrain \/ DrainRow \/ EndDrain \/ UNCHANGED vars
  <2>1. UNCHANGED monitorVars
    BY <1>8 DEF StartDrain, DrainRow, EndDrain, vars
  <2>2. QED
    BY <2>1, SameCInv
<1>9. QED
  BY <1>1, <1>2, <1>3, <1>4, <1>5, <1>6, <1>7, <1>8 DEF Next

-----------------------------------------------------------------------------
(* The invariant of records                                                *)

LEMMA InitRInv == Init => RInv
<1> SUFFICES ASSUME Init
             PROVE  RInv
  OBVIOUS
<1>1. /\ DOMAIN monitor_record_map = {}
      /\ DOMAIN m_row_updates_map = {}
      /\ DOMAIN m_procNetIO = {}
      /\ record_id = 0
  BY DEF Init, Empty
<1>2. RecordsFollowNodes /\ RecordsCounted /\ RowsFollowRecords /\ NoneOlder
  BY <1>1 DEF RecordsFollowNodes, RecordsCounted, RowsFollowRecords, NoneOlder
<1>3. LastStateReaches /\ RemovalReaches
  BY <1>1 DEF LastStateReaches, RemovalReaches
<1>4. QED
  BY <1>2, <1>3 DEF RInv

LEMMA RInvImplies ==
  ASSUME RInv
  PROVE  NoUpdateLost
<1>1. ASSUME NEW n \in DOMAIN monitor_record_map, NEW record,
             record = monitor_record_map[n], record.bytes # 0
      PROVE  Reaches(record.record_id) = {[action |-> "SET", record |-> record]}
  <2> DEFINE id == record.record_id
             row == [action |-> "SET", record |-> record]
  <2>1. IF id \in DOMAIN m_row_updates_map THEN m_row_updates_map[id] = row
        ELSE id \in DOMAIN taken /\ taken[id] = row
    BY <1>1 DEF RInv, LastStateReaches
  <2> HIDE DEF id, row
  <2>2. Reaches(id) = {row}
    <3>1. CASE id \in DOMAIN m_row_updates_map
      BY <2>1, <3>1 DEF Reaches
    <3>2. CASE id \notin DOMAIN m_row_updates_map
      <4>1. {id} \cap DOMAIN taken = {id} /\ taken[id] = row
        BY <2>1, <3>2
      <4>2. {taken[i] : i \in {id}} = {row}
        BY <4>1
      <4>3. QED
        BY <3>2, <4>1, <4>2 DEF Reaches
    <3>3. QED
      BY <3>1, <3>2
  <2>3. QED
    BY <2>2 DEF id, row
<1>2. ASSUME NEW id \in 1..record_id,
             id \notin {monitor_record_map[n].record_id : n \in DOMAIN monitor_record_map}
      PROVE  \E row \in Reaches(id) : row.action = "REMOVE"
  BY <1>2 DEF RInv, RemovalReaches, Reaches
<1>3. QED
  BY <1>1, <1>2 DEF NoUpdateLost

\* Steps that leave the records alone: a new node has none.
LEMMA SameRInv ==
  ASSUME RInv,
         UNCHANGED <<monitor_record_map, record_id, m_row_updates_map, taken>>,
         \A n \in ToSet(processes) : n \in ToSet(processes') /\ proc'[n].pid = proc[n].pid,
         m_procNetIO' = m_procNetIO \/ DOMAIN m_procNetIO' = {}
  PROVE  RInv'
<1>1. RecordsFollowNodes'
  BY DEF RInv, RecordsFollowNodes
<1>2. RecordsCounted' /\ RowsFollowRecords'
  BY DEF RInv, RecordsCounted, RowsFollowRecords
<1>3. NoneOlder'
  BY DEF RInv, NoneOlder
<1>4. LastStateReaches' /\ RemovalReaches'
  BY DEF RInv, LastStateReaches, RemovalReaches
<1>5. QED
  BY <1>1, <1>2, <1>3, <1>4 DEF RInv

LEMMA NewConnectionRInv ==
  ASSUME CInv, RInv, NEW e \in Endpoints, NEW pid \in Pids \cup {NoPid}, NewConnection(e, pid)
  PROVE  RInv'
<1>1. UNCHANGED <<monitor_record_map, record_id, m_row_updates_map, taken, m_procNetIO>>
  BY DEF NewConnection, collectorVars
<1>2. processes \in Seq(Nodes) /\ proc \in [ToSet(processes) -> Process]
  BY DEF CInv, Types
<1>3. ASSUME NEW m \in ToSet(processes)
      PROVE  m \in ToSet(processes') /\ proc'[m].pid = proc[m].pid
  <2>0. proc[m] \in Process
    BY <1>2
  <2>1. CASE \E n \in FindProcess(pid) :
               /\ pid # NoPid
               /\ proc' = [proc EXCEPT ![n].connections = @ \cup {e}]
               /\ UNCHANGED processes
    BY <1>2, <2>0, <2>1 DEF FindProcess, Process
  <2>2. CASE \E n \in Nodes \ ToSet(processes) :
               /\ pid = NoPid \/ FindProcess(pid) = {}
               /\ proc' = With(proc, n, [pid |-> pid, connections |-> {e}])
               /\ processes' = <<n>> \o processes
    <3>1. PICK n \in Nodes \ ToSet(processes) :
                /\ proc' = With(proc, n, [pid |-> pid, connections |-> {e}])
                /\ processes' = <<n>> \o processes
      BY <2>2
    <3>2. proc'[m] = proc[m]
      BY <1>2, <3>1 DEF With
    <3>3. PICK i \in 1..Len(processes) : processes[i] = m
      BY <1>2, ToSetIs
    <3>4. /\ processes' \in Seq(Nodes)
          /\ Len(processes') = Len(processes) + 1
          /\ \A j \in 1..Len(processes) : processes'[j + 1] = processes[j]
      <4>1. HasInFront(Nodes, n, processes, InFront(n, processes))
        BY <1>2, FrontAdded
      <4>2. HasInFront(Nodes, n, processes, processes')
        BY <3>1, <4>1 DEF InFront
      <4>3. QED
        BY <4>2 DEF HasInFront
    <3>5. i + 1 \in 1..Len(processes') /\ processes'[i + 1] = m
      BY <1>2, <3>3, <3>4, LenProperties
    <3>6. m \in ToSet(processes')
      BY <3>4, <3>5, ToSetIs
    <3>7. QED
      BY <3>2, <3>6
  <2>3. QED
    BY <2>1, <2>2 DEF NewConnection, GetProcess
<1>4. QED
  BY <1>1, <1>3, SameRInv

\* A node is removed: its record, if it has one, with a row that says so.
LEMMA RemoveProcessRInv ==
  ASSUME CInv, RInv, RemoveProcess
  PROVE  RInv'
<1> DEFINE n == processes[curproc]
<1>1. UNCHANGED <<record_id, taken, m_procNetIO>>
  BY DEF RemoveProcess, collectorVars
<1>2. /\ ToSet(processes') = ToSet(processes) \ {n}
      /\ \A m \in ToSet(processes') : proc'[m] = proc[m]
  BY RemovedNode
<1>3. /\ monitor_record_map' = Without(monitor_record_map, {n})
      /\ IF n \in DOMAIN monitor_record_map
         THEN SetRowUpdate("REMOVE", monitor_record_map[n])
         ELSE UNCHANGED m_row_updates_map
  BY DEF RemoveProcess
<1> HIDE DEF n
<1>4. /\ DOMAIN monitor_record_map' = DOMAIN monitor_record_map \ {n}
      /\ \A m \in DOMAIN monitor_record_map' : monitor_record_map'[m] = monitor_record_map[m]
  BY <1>3 DEF Without
<1>5. /\ RecordsFollowNodes /\ RecordsCounted /\ RowsFollowRecords /\ NoneOlder
      /\ LastStateReaches /\ RemovalReaches
  BY DEF RInv
<1>6. RecordsFollowNodes'
  BY <1>2, <1>4, <1>5 DEF RecordsFollowNodes
<1>7. RecordsCounted' /\ NoneOlder'
  BY <1>1, <1>4, <1>5 DEF RecordsCounted, NoneOlder
<1>8. CASE n \notin DOMAIN monitor_record_map
  <2>1. m_row_updates_map' = m_row_updates_map /\ DOMAIN monitor_record_map' = DOMAIN monitor_record_map
    BY <1>3, <1>4, <1>8
  <2>2. RowsFollowRecords'
    BY <1>1, <1>4, <1>5, <2>1 DEF RowsFollowRecords
  <2>3. LastStateReaches' /\ RemovalReaches'
    BY <1>1, <1>4, <1>5, <2>1 DEF LastStateReaches, RemovalReaches
  <2>4. QED
    BY <1>6, <1>7, <2>2, <2>3 DEF RInv
<1>9. CASE n \in DOMAIN monitor_record_map
  <2> DEFINE k == monitor_record_map[n].record_id
  <2>1. /\ DOMAIN m_row_updates_map' = DOMAIN m_row_updates_map \cup {k}
        /\ m_row_updates_map'[k] = [action |-> "REMOVE", record |-> monitor_record_map[n]]
        /\ \A id \in DOMAIN m_row_updates_map \ {k} : m_row_updates_map'[id] = m_row_updates_map[id]
    BY <1>3, <1>9 DEF SetRowUpdate, With
  <2>2. k \in 1..record_id
    BY <1>5, <1>9 DEF RecordsCounted
  <2>3. \A m \in DOMAIN monitor_record_map' : monitor_record_map[m].record_id # k
    BY <1>4, <1>5, <1>9 DEF RecordsFollowNodes
  <2>4. monitor_record_map[n].record_id = k
    OBVIOUS
  <2> HIDE DEF k
  <2>5. RowsFollowRecords'
    <3>1. ASSUME NEW id \in DOMAIN m_row_updates_map', id # k
          PROVE  /\ id \in 1..record_id
                 /\ m_row_updates_map'[id].record.record_id = id
                 /\ m_row_updates_map'[id].action # "REMOVE"
                      => \E m \in DOMAIN monitor_record_map' :
                           /\ monitor_record_map'[m].record_id = id
                           /\ monitor_record_map'[m].pid = m_row_updates_map'[id].record.pid
      <4>1. id \in DOMAIN m_row_updates_map /\ m_row_updates_map'[id] = m_row_updates_map[id]
        BY <2>1, <3>1
      <4>2. ASSUME m_row_updates_map[id].action # "REMOVE"
            PROVE  \E m \in DOMAIN monitor_record_map' :
                     /\ monitor_record_map'[m].record_id = id
                     /\ monitor_record_map'[m].pid = m_row_updates_map[id].record.pid
        <5>1. PICK m \in DOMAIN monitor_record_map :
                    /\ monitor_record_map[m].record_id = id
                    /\ monitor_record_map[m].pid = m_row_updates_map[id].record.pid
          BY <1>5, <4>1, <4>2 DEF RowsFollowRecords
        <5>2. m \in DOMAIN monitor_record_map'
          BY <1>4, <2>4, <3>1, <5>1
        <5>3. QED
          BY <1>4, <5>1, <5>2
      <4>3. QED
        BY <1>5, <4>1, <4>2 DEF RowsFollowRecords
    <3>2. /\ m_row_updates_map'[k].record.record_id = k
          /\ m_row_updates_map'[k].action = "REMOVE"
      BY <2>1, <2>4
    <3>3. QED
      BY <1>1, <2>2, <3>1, <3>2 DEF RowsFollowRecords
  <2>6. LastStateReaches'
    <3> SUFFICES ASSUME NEW m \in DOMAIN monitor_record_map', monitor_record_map'[m].bytes # 0,
                        NEW id, id = monitor_record_map'[m].record_id,
                        NEW row, row = [action |-> "SET", record |-> monitor_record_map'[m]]
                 PROVE  IF id \in DOMAIN m_row_updates_map' THEN m_row_updates_map'[id] = row
                        ELSE id \in DOMAIN taken' /\ taken'[id] = row
      BY DEF LastStateReaches
    <3>1. m \in DOMAIN monitor_record_map /\ monitor_record_map'[m] = monitor_record_map[m]
      BY <1>4
    <3>2. id # k
      BY <2>3, <3>1
    <3>3. IF id \in DOMAIN m_row_updates_map THEN m_row_updates_map[id] = row
          ELSE id \in DOMAIN taken /\ taken[id] = row
      BY <1>5, <3>1 DEF LastStateReaches
    <3>4. QED
      BY <1>1, <2>1, <3>2, <3>3
  <2>7. RemovalReaches'
    <3> SUFFICES ASSUME NEW id \in 1..record_id,
                        \A m \in DOMAIN monitor_record_map' : monitor_record_map'[m].record_id # id
                 PROVE  IF id \in DOMAIN m_row_updates_map'
                        THEN m_row_updates_map'[id].action = "REMOVE"
                        ELSE id \in DOMAIN taken /\ taken[id].action = "REMOVE"
      BY <1>1 DEF RemovalReaches
    <3>1. CASE id = k
      BY <2>1, <3>1
    <3>2. CASE id # k
      <4>1. \A m \in DOMAIN monitor_record_map : monitor_record_map[m].record_id # id
        BY <1>4, <2>4, <3>2
      <4>2. IF id \in DOMAIN m_row_updates_map THEN m_row_updates_map[id].action = "REMOVE"
            ELSE id \in DOMAIN taken /\ taken[id].action = "REMOVE"
        BY <1>5, <4>1 DEF RemovalReaches
      <4>3. QED
        BY <2>1, <3>2, <4>2
    <3>3. QED
      BY <3>1, <3>2
  <2>8. QED
    BY <1>6, <1>7, <2>5, <2>6, <2>7 DEF RInv
<1>10. QED
  BY <1>8, <1>9

\* A node is reported: it gets its record or an update of it, with a row unless it
\* had no traffic or its row is up to date.
LEMMA ReportProcessRInv ==
  ASSUME CInv, RInv, ReportProcess
  PROVE  RInv'
<1> DEFINE n == processes[curproc]
           record == UpToDate(n)
<1>1. UNCHANGED <<taken, m_procNetIO>> /\ processes' = processes
  BY DEF ReportProcess, collectorVars
<1>2. /\ proc' = [proc EXCEPT ![n].connections = @ \ Stalled(n)]
      /\ record_id' = IF n \in DOMAIN monitor_record_map THEN record_id ELSE record_id + 1
      /\ monitor_record_map' = With(monitor_record_map, n, record)
      /\ \/ SetRowUpdate("SET", record)
         \/ record \in Recorded(n) /\ UNCHANGED m_row_updates_map
  BY DEF ReportProcess
<1>3. /\ n \in ToSet(processes)
      /\ proc \in [ToSet(processes) -> Process]
      /\ record_id \in Nat
  BY Listed DEF CInv, Types, ReportProcess
<1>4. \A m \in ToSet(processes) : proc'[m].pid = proc[m].pid
  BY <1>2, <1>3 DEF Process
<1>5. /\ RecordsFollowNodes /\ RecordsCounted /\ RowsFollowRecords /\ NoneOlder
      /\ LastStateReaches /\ RemovalReaches
  BY DEF RInv
\* The record keeps its id and its pid.
<1>6. CASE n \in DOMAIN monitor_record_map
  <2>1. /\ record.record_id = monitor_record_map[n].record_id
        /\ record.pid = monitor_record_map[n].pid
    BY <1>6 DEF UpToDate
  <2>2. record_id' = record_id
    BY <1>2, <1>6
  <2>3. record \in Recorded(n) => record = monitor_record_map[n]
    BY DEF Recorded
  <2> HIDE DEF record, n
  <2>4. /\ DOMAIN monitor_record_map' = DOMAIN monitor_record_map
        /\ monitor_record_map'[n] = record
        /\ \A m \in DOMAIN monitor_record_map \ {n} : monitor_record_map'[m] = monitor_record_map[m]
    BY <1>2, <1>6 DEF With
  <2>5. ASSUME NEW m \in DOMAIN monitor_record_map
        PROVE  /\ monitor_record_map'[m].record_id = monitor_record_map[m].record_id
               /\ monitor_record_map'[m].pid = monitor_record_map[m].pid
    BY <2>1, <2>4
  <2>6. RecordsFollowNodes'
    BY <1>1, <1>4, <1>5, <2>4, <2>5 DEF RecordsFollowNodes
  <2>7. RecordsCounted' /\ NoneOlder'
    BY <1>1, <1>5, <2>2, <2>4, <2>5 DEF RecordsCounted, NoneOlder
  <2>8. CASE SetRowUpdate("SET", record) /\ record.bytes # 0
    <3> DEFINE k == record.record_id
    <3>1. /\ DOMAIN m_row_updates_map' = DOMAIN m_row_updates_map \cup {k}
          /\ m_row_updates_map'[k] = [action |-> "SET", record |-> record]
          /\ \A id \in DOMAIN m_row_updates_map \ {k} : m_row_updates_map'[id] = m_row_updates_map[id]
      BY <2>8 DEF SetRowUpdate, With
    <3>2. k \in 1..record_id
      BY <1>5, <1>6, <2>1 DEF RecordsCounted
    <3>3. \A m \in DOMAIN monitor_record_map \ {n} : monitor_record_map[m].record_id # k
      BY <1>5, <1>6, <2>1 DEF RecordsFollowNodes
    <3>4. monitor_record_map'[n].record_id = k /\ record.record_id = k
      BY <2>4
    <3> HIDE DEF k
    <3>5. RowsFollowRecords'
      <4>1. ASSUME NEW id \in DOMAIN m_row_updates_map', id # k
            PROVE  /\ id \in 1..record_id
                   /\ m_row_updates_map'[id].record.record_id = id
                   /\ m_row_updates_map'[id].action # "REMOVE"
                        => \E m \in DOMAIN monitor_record_map' :
                             /\ monitor_record_map'[m].record_id = id
                             /\ monitor_record_map'[m].pid = m_row_updates_map'[id].record.pid
        <5>1. id \in DOMAIN m_row_updates_map /\ m_row_updates_map'[id] = m_row_updates_map[id]
          BY <3>1, <4>1
        <5>2. QED
          BY <1>5, <2>4, <2>5, <5>1 DEF RowsFollowRecords
      <4>2. /\ m_row_updates_map'[k].record.record_id = k
            /\ monitor_record_map'[n].pid = m_row_updates_map'[k].record.pid
        BY <2>4, <3>1, <3>4
      <4>3. \E m \in DOMAIN monitor_record_map' :
              /\ monitor_record_map'[m].record_id = k
              /\ monitor_record_map'[m].pid = m_row_updates_map'[k].record.pid
        BY <1>6, <2>4, <3>4, <4>2
      <4>4. QED
        BY <2>2, <3>2, <4>1, <4>2, <4>3 DEF RowsFollowRecords
    <3>6. LastStateReaches'
      <4> SUFFICES ASSUME NEW m \in DOMAIN monitor_record_map', monitor_record_map'[m].bytes # 0,
                          NEW id, id = monitor_record_map'[m].record_id,
                          NEW row, row = [action |-> "SET", record |-> monitor_record_map'[m]]
                   PROVE  IF id \in DOMAIN m_row_updates_map' THEN m_row_updates_map'[id] = row
                          ELSE id \in DOMAIN taken' /\ taken'[id] = row
        BY DEF LastStateReaches
      <4>1. CASE m = n
        BY <2>4, <3>1, <3>4, <4>1
      <4>2. CASE m # n
        <5>1. m \in DOMAIN monitor_record_map \ {n} /\ monitor_record_map'[m] = monitor_record_map[m]
          BY <2>4, <4>2
        <5>2. id # k
          BY <3>3, <5>1
        <5>3. IF id \in DOMAIN m_row_updates_map THEN m_row_updates_map[id] = row
              ELSE id \in DOMAIN taken /\ taken[id] = row
          BY <1>5, <5>1 DEF LastStateReaches
        <5>4. QED
          BY <1>1, <3>1, <5>2, <5>3
      <4>3. QED
        BY <4>1, <4>2
    <3>7. RemovalReaches'
      <4> SUFFICES ASSUME NEW id \in 1..record_id,
                          \A m \in DOMAIN monitor_record_map' : monitor_record_map'[m].record_id # id
                   PROVE  IF id \in DOMAIN m_row_updates_map'
                          THEN m_row_updates_map'[id].action = "REMOVE"
                          ELSE id \in DOMAIN taken /\ taken[id].action = "REMOVE"
        BY <1>1, <2>2 DEF RemovalReaches
      <4>1. id # k
        BY <1>6, <2>4, <3>4
      <4>2. \A m \in DOMAIN monitor_record_map : monitor_record_map[m].record_id # id
        BY <2>4, <2>5
      <4>3. IF id \in DOMAIN m_row_updates_map THEN m_row_updates_map[id].action = "REMOVE"
            ELSE id \in DOMAIN taken /\ taken[id].action = "REMOVE"
        BY <1>5, <4>2 DEF RemovalReaches
      <4>4. QED
        BY <3>1, <4>1, <4>3
    <3>8. QED
      BY <2>6, <2>7, <3>5, <3>6, <3>7 DEF RInv
  <2>9. CASE m_row_updates_map' = m_row_updates_map
             /\ (record.bytes = 0 \/ record = monitor_record_map[n])
    <3>1. RowsFollowRecords'
      BY <1>5, <2>2, <2>4, <2>5, <2>9 DEF RowsFollowRecords
    <3>2. LastStateReaches'
      <4> SUFFICES ASSUME NEW m \in DOMAIN monitor_record_map', monitor_record_map'[m].bytes # 0,
                          NEW id, id = monitor_record_map'[m].record_id,
                          NEW row, row = [action |-> "SET", record |-> monitor_record_map'[m]]
                   PROVE  IF id \in DOMAIN m_row_updates_map' THEN m_row_updates_map'[id] = row
                          ELSE id \in DOMAIN taken' /\ taken'[id] = row
        BY DEF LastStateReaches
      <4>1. m \in DOMAIN monitor_record_map /\ monitor_record_map'[m] = monitor_record_map[m]
        BY <2>4, <2>9
      <4>2. IF id \in DOMAIN m_row_updates_map THEN m_row_updates_map[id] = row
            ELSE id \in DOMAIN taken /\ taken[id] = row
        BY <1>5, <4>1 DEF LastStateReaches
      <4>3. QED
        BY <1>1, <2>9, <4>2
    <3>3. RemovalReaches'
      BY <1>1, <1>5, <2>2, <2>4, <2>5, <2>9 DEF RemovalReaches
    <3>4. QED
      BY <2>6, <2>7, <3>1, <3>2, <3>3 DEF RInv
  <2>10. QED
    BY <1>2, <2>3, <2>8, <2>9 DEF SetRowUpdate
\* The record is new.
<1>7. CASE n \notin DOMAIN monitor_record_map
  <2> DEFINE k == record_id + 1
  <2>1. record.record_id = k /\ record.pid = proc[n].pid
    BY <1>7 DEF UpToDate
  <2>2. record_id' = k
    BY <1>2, <1>7
  <2>3. record \notin Recorded(n)
    BY <1>7 DEF Recorded
  <2> HIDE DEF record, n
  <2>4. /\ DOMAIN monitor_record_map' = DOMAIN monitor_record_map \cup {n}
        /\ monitor_record_map'[n] = record
        /\ \A m \in DOMAIN monitor_record_map : monitor_record_map'[m] = monitor_record_map[m]
    BY <1>2, <1>7 DEF With
  <2>5. /\ \A id \in 1..record_id : id \in 1..k /\ id # k /\ id <= k
        /\ \A id \in 1..k : id = k \/ id \in 1..record_id
        /\ k \in 1..k
    BY <1>3
  <2> HIDE DEF k
  <2>6. RecordsFollowNodes'
    <3>1. \A m \in DOMAIN monitor_record_map : monitor_record_map[m].record_id # k
      BY <1>5, <2>5 DEF RecordsCounted
    <3>2. DOMAIN monitor_record_map' \subseteq ToSet(processes')
      BY <1>1, <1>3, <1>5, <2>4 DEF RecordsFollowNodes
    <3>3. \A m \in DOMAIN monitor_record_map' : monitor_record_map'[m].pid = proc'[m].pid
      BY <1>3, <1>4, <1>5, <2>1, <2>4 DEF RecordsFollowNodes
    <3>4. ASSUME NEW l \in DOMAIN monitor_record_map', NEW m \in DOMAIN monitor_record_map', l # m
          PROVE  monitor_record_map'[l].record_id # monitor_record_map'[m].record_id
      BY <1>5, <2>1, <2>4, <3>1, <3>4 DEF RecordsFollowNodes
    <3>5. QED
      BY <3>2, <3>3, <3>4 DEF RecordsFollowNodes
  <2>7. RecordsCounted'
    BY <1>5, <2>1, <2>2, <2>4, <2>5 DEF RecordsCounted
  <2>8. NoneOlder'
    BY <1>1, <1>5, <2>1, <2>2, <2>4, <2>5 DEF NoneOlder
  <2>9. SetRowUpdate("SET", record)
    BY <1>2, <2>3
  <2>10. \A id \in DOMAIN m_row_updates_map : id \in 1..record_id /\ id # k
    BY <1>5, <2>5 DEF RowsFollowRecords
  <2>11. /\ \A id \in DOMAIN m_row_updates_map :
              id \in DOMAIN m_row_updates_map' /\ m_row_updates_map'[id] = m_row_updates_map[id]
         /\ \A id \in DOMAIN m_row_updates_map' :
              id \in DOMAIN m_row_updates_map \/ (id = k /\ record.bytes # 0)
         /\ record.bytes # 0 => /\ k \in DOMAIN m_row_updates_map'
                                /\ m_row_updates_map'[k] = [action |-> "SET", record |-> record]
    BY <2>1, <2>9, <2>10 DEF SetRowUpdate, With
  <2>12. RowsFollowRecords'
    <3>1. ASSUME NEW id \in DOMAIN m_row_updates_map
          PROVE  /\ id \in 1..k
                 /\ m_row_updates_map'[id].record.record_id = id
                 /\ m_row_updates_map'[id].action # "REMOVE"
                      => \E m \in DOMAIN monitor_record_map' :
                           /\ monitor_record_map'[m].record_id = id
                           /\ monitor_record_map'[m].pid = m_row_updates_map'[id].record.pid
      BY <1>5, <2>4, <2>5, <2>10, <2>11 DEF RowsFollowRecords
    <3>2. record.bytes # 0
            => /\ k \in 1..k
               /\ m_row_updates_map'[k].record.record_id = k
               /\ \E m \in DOMAIN monitor_record_map' :
                    /\ monitor_record_map'[m].record_id = k
                    /\ monitor_record_map'[m].pid = m_row_updates_map'[k].record.pid
      BY <2>1, <2>4, <2>5, <2>11
    <3>3. QED
      BY <2>2, <2>11, <3>1, <3>2 DEF RowsFollowRecords
  <2>13. LastStateReaches'
    <3> SUFFICES ASSUME NEW m \in DOMAIN monitor_record_map', monitor_record_map'[m].bytes # 0,
                        NEW id, id = monitor_record_map'[m].record_id,
                        NEW row, row = [action |-> "SET", record |-> monitor_record_map'[m]]
                 PROVE  IF id \in DOMAIN m_row_updates_map' THEN m_row_updates_map'[id] = row
                        ELSE id \in DOMAIN taken' /\ taken'[id] = row
      BY DEF LastStateReaches
    <3>1. CASE m = n
      BY <2>1, <2>4, <2>11, <3>1
    <3>2. CASE m # n
      <4>1. m \in DOMAIN monitor_record_map /\ monitor_record_map'[m] = monitor_record_map[m]
        BY <2>4, <3>2
      <4>2. id # k
        BY <1>5, <2>5, <4>1 DEF RecordsCounted
      <4>3. IF id \in DOMAIN m_row_updates_map THEN m_row_updates_map[id] = row
            ELSE id \in DOMAIN taken /\ taken[id] = row
        BY <1>5, <4>1 DEF LastStateReaches
      <4>4. QED
        BY <1>1, <2>11, <4>2, <4>3
    <3>3. QED
      BY <3>1, <3>2
  <2>14. RemovalReaches'
    <3> SUFFICES ASSUME NEW id \in 1..k,
                        \A m \in DOMAIN monitor_record_map' : monitor_record_map'[m].record_id # id
                 PROVE  IF id \in DOMAIN m_row_updates_map'
                        THEN m_row_updates_map'[id].action = "REMOVE"
                        ELSE id \in DOMAIN taken /\ taken[id].action = "REMOVE"
      BY <1>1, <2>2 DEF RemovalReaches
    <3>1. id # k
      BY <2>1, <2>4
    <3>2. id \in 1..record_id
      BY <2>5, <3>1
    <3>3. \A m \in DOMAIN monitor_record_map : monitor_record_map[m].record_id # id
      BY <2>4
    <3>4. IF id \in DOMAIN m_row_updates_map THEN m_row_updates_map[id].action = "REMOVE"
          ELSE id \in DOMAIN taken /\ taken[id].action = "REMOVE"
      BY <1>5, <3>2, <3>3 DEF RemovalReaches
    <3>5. QED
      BY <2>11, <3>1, <3>4
  <2>15. QED
    BY <2>6, <2>7, <2>8, <2>12, <2>13, <2>14 DEF RInv
<1>8. QED
  BY <1>6, <1>7

\* What taking a row out does, and for which process it shows traffic.
LEMMA DrainedRow ==
  ASSUME CInv, RInv, DrainRow
  PROVE  \E id \in DOMAIN m_row_updates_map :
           LET row == m_row_updates_map[id] IN
             /\ row.record.record_id = id
             /\ id \in 1..record_id
             /\ m_row_updates_map' = Without(m_row_updates_map, {id})
             /\ taken' = With(taken, id, row)
             /\ m_procNetIO' = IF row.action = "REMOVE" THEN m_procNetIO
                               ELSE With(m_procNetIO, row.record.pid, row.record)
             /\ row.action # "REMOVE" /\ row.record.pid # NoPid
                  => \A n \in DOMAIN monitor_record_map :
                       monitor_record_map[n].pid = row.record.pid
                         => monitor_record_map[n].record_id = id
             /\ row.action # "REMOVE"
                  => \E n \in DOMAIN monitor_record_map :
                       /\ monitor_record_map[n].pid = row.record.pid
                       /\ monitor_record_map[n].record_id = id
<1>1. PICK id \in DOMAIN m_row_updates_map :
            /\ m_row_updates_map' = Without(m_row_updates_map, {id})
            /\ taken' = With(taken, id, m_row_updates_map[id])
            /\ m_procNetIO' = IF m_row_updates_map[id].action = "REMOVE" THEN m_procNetIO
                              ELSE With(m_procNetIO, m_row_updates_map[id].record.pid,
                                        m_row_updates_map[id].record)
  BY DEF DrainRow
<1> DEFINE row == m_row_updates_map[id]
<1>2. /\ row.record.record_id = id
      /\ id \in 1..record_id
  BY DEF RInv, RowsFollowRecords
<1>3. ASSUME row.action # "REMOVE"
      PROVE  \E n \in DOMAIN monitor_record_map :
               /\ monitor_record_map[n].pid = row.record.pid
               /\ monitor_record_map[n].record_id = id
  BY <1>3 DEF RInv, RowsFollowRecords
<1>4. ASSUME row.action # "REMOVE", row.record.pid # NoPid,
             NEW n \in DOMAIN monitor_record_map, monitor_record_map[n].pid = row.record.pid
      PROVE  monitor_record_map[n].record_id = id
  <2>1. PICK m \in DOMAIN monitor_record_map :
               /\ monitor_record_map[m].pid = row.record.pid
               /\ monitor_record_map[m].record_id = id
    BY <1>3, <1>4
  <2>2. /\ m \in ToSet(processes) /\ n \in ToSet(processes)
        /\ proc[m].pid = row.record.pid /\ proc[n].pid = row.record.pid
    BY <1>4, <2>1 DEF RInv, RecordsFollowNodes
  <2>3. m = n
    BY <1>4, <2>2, OneNodePerProcess DEF CInv
  <2>4. QED
    BY <2>1, <2>3
<1>5. QED
  BY <1>1, <1>2, <1>3, <1>4

LEMMA DrainRowRInv ==
  ASSUME CInv, RInv, DrainRow
  PROVE  RInv'
<1>1. UNCHANGED <<processes, proc, monitor_record_map, record_id>>
  BY DEF DrainRow, monitorVars
<1>2. PICK id \in DOMAIN m_row_updates_map :
        LET row == m_row_updates_map[id] IN
          /\ row.record.record_id = id
          /\ id \in 1..record_id
          /\ m_row_updates_map' = Without(m_row_updates_map, {id})
          /\ taken' = With(taken, id, row)
          /\ m_procNetIO' = IF row.action = "REMOVE" THEN m_procNetIO
                            ELSE With(m_procNetIO, row.record.pid, row.record)
          /\ row.action # "REMOVE" /\ row.record.pid # NoPid
               => \A n \in DOMAIN monitor_record_map :
                    monitor_record_map[n].pid = row.record.pid
                      => monitor_record_map[n].record_id = id
  BY DrainedRow
<1> DEFINE row == m_row_updates_map[id]
<1>3. /\ DOMAIN m_row_updates_map' = DOMAIN m_row_updates_map \ {id}
      /\ \A k \in DOMAIN m_row_updates_map' : m_row_updates_map'[k] = m_row_updates_map[k]
      /\ DOMAIN taken' = DOMAIN taken \cup {id}
      /\ taken'[id] = m_row_updates_map[id]
      /\ \A k \in DOMAIN taken \ {id} : taken'[k] = taken[k]
  BY <1>2 DEF Without, With
<1>4. /\ RecordsFollowNodes /\ RecordsCounted /\ RowsFollowRecords /\ NoneOlder
      /\ LastStateReaches /\ RemovalReaches
      /\ record_id \in Nat
  BY DEF RInv, CInv, Types
<1>5. RecordsFollowNodes' /\ RecordsCounted'
  BY <1>1, <1>4 DEF RecordsFollowNodes, RecordsCounted
<1>6. RowsFollowRecords'
  BY <1>1, <1>3, <1>4 DEF RowsFollowRecords
<1>7. NoneOlder'
  <2> SUFFICES ASSUME NEW pid \in Pids \cap DOMAIN m_procNetIO'
               PROVE  /\ m_procNetIO'[pid].record_id \in 1..record_id
                      /\ \A n \in DOMAIN monitor_record_map :
                           monitor_record_map[n].pid = pid
                             => m_procNetIO'[pid].record_id <= monitor_record_map[n].record_id
    BY <1>1 DEF NoneOlder
  <2>1. CASE row.action # "REMOVE" /\ pid = row.record.pid
    <3>1. m_procNetIO'[pid] = row.record /\ row.record.record_id = id /\ id <= id
      BY <1>2, <2>1 DEF With
    <3>2. pid # NoPid
      BY ConstantsAssumption
    <3>3. QED
      BY <1>2, <2>1, <3>1, <3>2
  <2>2. CASE ~(row.action # "REMOVE" /\ pid = row.record.pid)
    <3>1. pid \in DOMAIN m_procNetIO /\ m_procNetIO'[pid] = m_procNetIO[pid]
      BY <1>2, <2>2 DEF With
    <3>2. QED
      BY <1>4, <3>1 DEF NoneOlder
  <2>3. QED
    BY <2>1, <2>2
<1>8. LastStateReaches'
  BY <1>1, <1>3, <1>4 DEF LastStateReaches
<1>9. RemovalReaches'
  BY <1>1, <1>3, <1>4 DEF RemovalReaches
<1>10. QED
  BY <1>5, <1>6, <1>7, <1>8, <1>9 DEF RInv

LEMMA NextRInv ==
  ASSUME CInv, RInv, [Next]_vars
  PROVE  RInv'
<1>1. CASE Tick \/ StartRefresh \/ EndRefresh \/ StartDrain \/ EndDrain \/ UNCHANGED vars
  <2>1. /\ UNCHANGED <<processes, proc, monitor_record_map, record_id, m_row_updates_map, taken>>
        /\ m_procNetIO' = m_procNetIO \/ DOMAIN m_procNetIO' = {}
    BY <1>1 DEF Tick, StartRefresh, EndRefresh, StartDrain, EndDrain, Empty,
                vars, monitorVars, collectorVars
  <2>2. QED
    BY <2>1, SameRInv
<1>2. ASSUME NEW e \in Endpoints, AddPacket(e)
      PROVE  RInv'
  <2>1. UNCHANGED <<processes, proc, monitor_record_map, record_id, m_row_updates_map,
                    taken, m_procNetIO>>
    BY <1>2 DEF AddPacket, collectorVars
  <2>2. QED
    BY <2>1, SameRInv
<1>3. ASSUME NEW e \in Endpoints, NEW pid \in Pids \cup {NoPid}, NewConnection(e, pid)
      PROVE  RInv'
  BY <1>3, NewConnectionRInv
<1>4. CASE RemoveProcess
  BY <1>4, RemoveProcessRInv
<1>5. CASE ReportProcess
  BY <1>5, ReportProcessRInv
<1>6. CASE DrainRow
  BY <1>6, DrainRowRInv
<1>7. QED
  BY <1>1, <1>2, <1>3, <1>4, <1>5, <1>6 DEF Next

-----------------------------------------------------------------------------
(* Theorems                                                                *)

\* The inductive invariant, for the library's two threads and any refreshes that
\* come before a process can time out with a connection that has not.
THEOREM Invariance == Spec => []IInv
<1>1. Init => IInv
  BY InitCInv, InitRInv DEF IInv
<1>2. IInv /\ [Next]_vars => IInv'
  BY NextCInv, NextRInv DEF IInv
<1>3. QED
  BY <1>1, <1>2, PTL DEF Spec

\* process.cpp:61: the node of unknown traffic is never removed, and the list has
\* at most one node of a process.
THEOREM ListIsWellFormed == Spec => []ProcessListWellFormed
<1>1. IInv => ProcessListWellFormed
  BY DEF IInv, CInv
<1>2. QED
  BY <1>1, Invariance, PTL

\* Every connection is in the list of exactly one process, and no process refers to
\* a deleted one: what getProcess, getkbps and the removal of processes keep.
THEOREM ConnectionsHaveOneOwner == Spec => []ConnectionsOwned
<1>1. IInv => ConnectionsOwned
  BY DEF IInv, CInv
<1>2. QED
  BY <1>1, Invariance, PTL

\* A record of monitor_record_map is of a listed node with its pid, whatever
\* addresses are used again.
THEOREM RecordsAreOfNodes == Spec => []RecordsFollowNodes
<1>1. IInv => RecordsFollowNodes
  BY DEF IInv, RInv
<1>2. QED
  BY <1>1, Invariance, PTL

\* However setRowUpdate and getRowUpdate interleave, the last state of a record and
\* its removal reach the statistics thread.
THEOREM UpdatesReachCollector == Spec => []NoUpdateLost
<1>1. IInv => NoUpdateLost
  BY RInvImplies DEF IInv
<1>2. QED
  BY <1>1, Invariance, PTL

\* updateStatus never puts the traffic of an older record of a process in the place
\* of a newer one's.
THEOREM NewerRecordStays == Spec => NewerRecordWins
<1> DEFINE A == \A pid \in Pids \cap DOMAIN m_procNetIO \cap DOMAIN m_procNetIO' :
                  m_procNetIO'[pid].record_id >= m_procNetIO[pid].record_id
<1>1. IInv /\ [Next]_vars => [A]_vars
  <2> SUFFICES ASSUME IInv, [Next]_vars
               PROVE  A
    OBVIOUS
  <2>1. CASE DrainRow
    <3> SUFFICES ASSUME NEW pid \in Pids \cap DOMAIN m_procNetIO \cap DOMAIN m_procNetIO'
                 PROVE  m_procNetIO'[pid].record_id >= m_procNetIO[pid].record_id
      OBVIOUS
    <3>1. CInv /\ RInv
      BY DEF IInv
    <3>2. PICK id \in DOMAIN m_row_updates_map :
            LET row == m_row_updates_map[id] IN
              /\ row.record.record_id = id
              /\ id \in 1..record_id
              /\ m_procNetIO' = IF row.action = "REMOVE" THEN m_procNetIO
                                ELSE With(m_procNetIO, row.record.pid, row.record)
              /\ row.action # "REMOVE"
                   => \E n \in DOMAIN monitor_record_map :
                        /\ monitor_record_map[n].pid = row.record.pid
                        /\ monitor_record_map[n].record_id = id
      BY <2>1, <3>1, DrainedRow
    <3>3. /\ record_id \in Nat
          /\ m_procNetIO[pid].record_id \in 1..record_id
          /\ \A n \in DOMAIN monitor_record_map :
               monitor_record_map[n].pid = pid
                 => m_procNetIO[pid].record_id <= monitor_record_map[n].record_id
      BY <3>1 DEF CInv, Types, RInv, NoneOlder
    <3> DEFINE row == m_row_updates_map[id]
    <3>4. CASE row.action # "REMOVE" /\ pid = row.record.pid
      <4>1. m_procNetIO'[pid].record_id = id
        BY <3>2, <3>4 DEF With
      <4>2. m_procNetIO[pid].record_id <= id
        BY <3>2, <3>3, <3>4
      <4>3. QED
        BY <3>2, <3>3, <4>1, <4>2
    <3>5. CASE ~(row.action # "REMOVE" /\ pid = row.record.pid)
      <4>1. m_procNetIO'[pid] = m_procNetIO[pid]
        BY <3>2, <3>5 DEF With
      <4>2. QED
        BY <3>3, <4>1
    <3>6. QED
      BY <3>4, <3>5
  <2>2. CASE ~DrainRow
    <3>1. m_procNetIO' = m_procNetIO \/ DOMAIN m_procNetIO' = {}
      BY <2>2 DEF Next, Tick, AddPacket, NewConnection, StartRefresh, RemoveProcess,
                  ReportProcess, EndRefresh, StartDrain, EndDrain, Empty, vars, collectorVars
    <3>2. \A pid \in Pids \cap DOMAIN m_procNetIO :
            m_procNetIO[pid].record_id >= m_procNetIO[pid].record_id
      BY DEF IInv, CInv, Types, RInv, NoneOlder
    <3>3. QED
      BY <3>1, <3>2
  <2>3. QED
    BY <2>1, <2>2
<1>2. QED
  BY <1>1, Invariance, PTL DEF Spec, NewerRecordWins

-----------------------------------------------------------------------------
(* Bytes.  gettotal adds up the bytes of a set of connections, in some order.   *)

\* A set of numbers has a least one.
LEMMA LeastNumber ==
  ASSUME NEW T \in SUBSET Nat, T # {}
  PROVE  \E n \in T : \A m \in T : n <= m
<1>1. PICK n \in T : \A m \in T : <<m, n>> \notin OpToRel(<, Nat)
  BY NatLessThanWellFounded, WFMin
<1>2. \A m \in T : ~(m < n)
  BY <1>1 DEF OpToRel
<1>3. QED
  BY <1>2

\* The element of a set of connections that is added next.
Chosen(s) == CHOOSE x \in s : TRUE

\* What a function adds up for s, from what it does for a smaller set.
Added(c, g, s) == IF s = {} THEN 0 ELSE c[Chosen(s)].bytes + g[s \ {Chosen(s)}]

\* The function that MapThenSumSet defines by recursion over the subsets of S.
Sums(c, S) == CHOOSE g : g = [s \in SUBSET S |-> Added(c, g, s)]

\* Without its chosen element a set is smaller by one.
LEMMA OneChosen ==
  ASSUME NEW s, IsFiniteSet(s), s # {}
  PROVE  /\ Chosen(s) \in s
         /\ IsFiniteSet(s \ {Chosen(s)})
         /\ Cardinality(s) \in Nat
         /\ Cardinality(s \ {Chosen(s)}) = Cardinality(s) - 1
<1>1. Chosen(s) \in s
  BY DEF Chosen
<1>2. QED
  BY <1>1, FS_RemoveElement, FS_CardinalityType

\* The sets of at most n of the connections S.
SetsUpTo(S, n) == {s \in SUBSET S : Cardinality(s) <= n}

\* g adds up the bytes of each set of at most n connections.
AddsUp(c, S, n, g) ==
  /\ g \in [SetsUpTo(S, n) -> Nat]
  /\ \A s \in SetsUpTo(S, n) : g[s] = Added(c, g, s)

LEMMA AddsUpMore ==
  ASSUME NEW c, NEW S, IsFiniteSet(S), \A x \in S : c[x].bytes \in Nat,
         NEW n \in Nat, NEW g, AddsUp(c, S, n, g)
  PROVE  AddsUp(c, S, n + 1, [s \in SetsUpTo(S, n + 1) |-> Added(c, g, s)])
<1> DEFINE h == [s \in SetsUpTo(S, n + 1) |-> Added(c, g, s)]
<1>1. ASSUME NEW s \in SetsUpTo(S, n + 1), s # {}
      PROVE  /\ Chosen(s) \in S
             /\ s \ {Chosen(s)} \in SetsUpTo(S, n)
             /\ s \ {Chosen(s)} \in SetsUpTo(S, n + 1)
  <2>1. IsFiniteSet(s) /\ s \subseteq S
    BY FS_Subset DEF SetsUpTo
  <2>2. /\ Chosen(s) \in s
        /\ Cardinality(s) \in Nat
        /\ Cardinality(s \ {Chosen(s)}) = Cardinality(s) - 1
    BY <1>1, <2>1, OneChosen
  <2>3. Cardinality(s) <= n + 1
    BY DEF SetsUpTo
  <2>4. QED
    BY <2>1, <2>2, <2>3 DEF SetsUpTo
<1>2. \A s \in SetsUpTo(S, n) : g[s] = Added(c, g, s) /\ g[s] \in Nat
  BY DEF AddsUp
<1>3. \A s \in SetsUpTo(S, n) : s \in SetsUpTo(S, n + 1) => h[s] = g[s]
  BY <1>2
<1>4. ASSUME NEW s \in SetsUpTo(S, n + 1)
      PROVE  h[s] \in Nat /\ h[s] = Added(c, h, s)
  <2>1. h[s] = Added(c, g, s)
    OBVIOUS
  <2> HIDE DEF h
  <2>2. CASE s = {}
    BY <2>1, <2>2 DEF Added
  <2>3. CASE s # {}
    <3>1. /\ Chosen(s) \in S
          /\ s \ {Chosen(s)} \in SetsUpTo(S, n)
          /\ h[s \ {Chosen(s)}] = g[s \ {Chosen(s)}]
      BY <1>1, <1>3, <2>3
    <3>2. c[Chosen(s)].bytes \in Nat /\ g[s \ {Chosen(s)}] \in Nat
      BY <1>2, <3>1
    <3>3. /\ Added(c, g, s) = c[Chosen(s)].bytes + g[s \ {Chosen(s)}]
          /\ Added(c, h, s) = c[Chosen(s)].bytes + h[s \ {Chosen(s)}]
      BY <2>3 DEF Added
    <3>4. QED
      BY <2>1, <3>1, <3>2, <3>3
  <2>4. QED
    BY <2>2, <2>3
<1>5. h \in [SetsUpTo(S, n + 1) -> Nat]
  BY <1>4
<1> HIDE DEF h
<1>6. AddsUp(c, S, n + 1, h)
  BY <1>4, <1>5 DEF AddsUp
<1>7. QED
  BY <1>6 DEF h

\* So there is a function that adds up the bytes of every set of connections.
LEMMA SumsExist ==
  ASSUME NEW c, NEW S, IsFiniteSet(S), \A x \in S : c[x].bytes \in Nat
  PROVE  \A n \in Nat : \E g : AddsUp(c, S, n, g)
<1> DEFINE Missing == {n \in Nat : ~\E g : AddsUp(c, S, n, g)}
<1> SUFFICES ASSUME Missing # {}
             PROVE  FALSE
  OBVIOUS
<1>1. PICK n \in Missing : \A m \in Missing : n <= m
  BY LeastNumber
<1>2. CASE n = 0
  <2> DEFINE g == [s \in SetsUpTo(S, 0) |-> 0]
  <2>1. ASSUME NEW s \in SetsUpTo(S, 0)
        PROVE  s = {}
    <3>1. IsFiniteSet(s) /\ Cardinality(s) \in Nat /\ Cardinality(s) <= 0
      BY FS_Subset, FS_CardinalityType DEF SetsUpTo
    <3>2. QED
      BY <3>1, FS_EmptySet
  <2>2. AddsUp(c, S, 0, g)
    BY <2>1 DEF AddsUp, Added
  <2>3. QED
    BY <1>2, <2>2
<1>3. CASE n # 0
  <2>1. n - 1 \in Nat /\ n - 1 \notin Missing /\ (n - 1) + 1 = n
    BY <1>1, <1>3
  <2>2. PICK g : AddsUp(c, S, n - 1, g)
    BY <2>1
  <2>3. AddsUp(c, S, n, [s \in SetsUpTo(S, n) |-> Added(c, g, s)])
    BY <2>1, <2>2, AddsUpMore
  <2>4. QED
    BY <2>3
<1>4. QED
  BY <1>2, <1>3

\* The recursion of MapThenSumSet defines a function, and what it adds up is a number.
LEMMA SumOfBytes ==
  ASSUME NEW c, NEW S, IsFiniteSet(S), \A x \in S : c[x].bytes \in Nat
  PROVE  Sums(c, S)[S] \in Nat
<1>1. Cardinality(S) \in Nat
  BY FS_CardinalityType
<1>2. \A s \in SUBSET S : IsFiniteSet(s) /\ Cardinality(s) \in Nat /\ Cardinality(s) <= Cardinality(S)
  BY FS_Subset, FS_CardinalityType
<1>3. SetsUpTo(S, Cardinality(S)) = SUBSET S
  BY <1>2 DEF SetsUpTo
<1>4. \E g : g = [s \in SUBSET S |-> Added(c, g, s)]
  <2>1. PICK g : AddsUp(c, S, Cardinality(S), g)
    BY <1>1, SumsExist
  <2>2. g = [s \in SUBSET S |-> Added(c, g, s)]
    BY <1>3, <2>1 DEF AddsUp
  <2>3. QED
    BY <2>2
<1>5. Sums(c, S) = [s \in SUBSET S |-> Added(c, Sums(c, S), s)]
  BY <1>4 DEF Sums
<1>6. \A s \in SUBSET S : Sums(c, S)[s] \in Nat
  <2> DEFINE Wrong == {n \in Nat : \E s \in SUBSET S : Cardinality(s) = n /\ Sums(c, S)[s] \notin Nat}
  <2> SUFFICES ASSUME Wrong # {}
               PROVE  FALSE
    BY <1>2
  <2>1. PICK n \in Wrong : \A m \in Wrong : n <= m
    BY LeastNumber
  <2>2. PICK s \in SUBSET S : Cardinality(s) = n /\ Sums(c, S)[s] \notin Nat
    BY <2>1
  <2>3. Sums(c, S)[s] = Added(c, Sums(c, S), s)
    BY <1>5
  <2>4. CASE s = {}
    BY <2>2, <2>3, <2>4 DEF Added
  <2>5. CASE s # {}
    <3>1. /\ Chosen(s) \in s
          /\ Cardinality(s \ {Chosen(s)}) = Cardinality(s) - 1
          /\ s \ {Chosen(s)} \in SUBSET S
      BY <1>2, <2>5, OneChosen
    <3>2. Sums(c, S)[s \ {Chosen(s)}] \in Nat
      BY <1>2, <2>1, <2>2, <3>1
    <3>3. c[Chosen(s)].bytes \in Nat
      BY <3>1
    <3>4. QED
      BY <2>2, <2>3, <2>5, <3>2, <3>3 DEF Added
  <2>6. QED
    BY <2>4, <2>5
<1>7. QED
  BY <1>6
-----------------------------------------------------------------------------
(* Types of what is counted and reported                                   *)

\* f maps elements of D to elements of R.
Maps(f, D, R) == DOMAIN f \subseteq D /\ f \in [DOMAIN f -> R]

LEMMA WithMaps ==
  ASSUME NEW D, NEW R, NEW f, Maps(f, D, R), NEW x \in D, NEW y \in R
  PROVE  Maps(With(f, x, y), D, R)
BY DEF Maps, With

LEMMA WithoutMaps ==
  ASSUME NEW D, NEW R, NEW f, Maps(f, D, R), NEW S
  PROVE  Maps(Without(f, S), D, R)
BY DEF Maps, Without

LEMMA EmptyMaps == \A D, R : Maps(Empty, D, R)
BY DEF Maps, Empty

Connection == [lastpacket : Nat, bytes : Nat]

TInv ==
  /\ Maps(connections, Endpoints, Connection)
  /\ Maps(monitor_record_map, Nodes, Record)
  /\ record_id \in 0..MaxRecords
  /\ Maps(m_row_updates_map, 1..MaxRecords, Row)
  /\ draining \in BOOLEAN
  /\ Maps(m_procNetIO, Pids \cup {NoPid}, Record)
  /\ Maps(taken, 1..MaxRecords, Row)

LEMMA TypesFollow == Types /\ TInv => TypeOK
BY DEF Types, TInv, TypeOK, Maps, Process, Connection

LEMMA InitTInv == Init => TInv
<1> SUFFICES ASSUME Init
             PROVE  TInv
  OBVIOUS
<1>1. record_id \in 0..MaxRecords
  BY BoundsAssumption DEF Init
<1>2. draining \in BOOLEAN
  BY DEF Init
<1>3. QED
  BY <1>1, <1>2, EmptyMaps DEF Init, TInv

\* The rows and records in m_row_updates_map, after setRowUpdate.
LEMMA SetRowUpdateMaps ==
  ASSUME TInv, NEW action \in {"SET", "REMOVE"}, NEW record \in Record,
         SetRowUpdate(action, record)
  PROVE  Maps(m_row_updates_map', 1..MaxRecords, Row)
<1>1. [action |-> action, record |-> record] \in Row /\ record.record_id \in 1..MaxRecords
  BY DEF Row, Record
<1>2. Maps(With(m_row_updates_map, record.record_id, [action |-> action, record |-> record]),
           1..MaxRecords, Row)
  BY <1>1, WithMaps DEF TInv
<1>3. QED
  BY <1>2 DEF SetRowUpdate, TInv

LEMMA PacketTInv ==
  ASSUME Types, TInv, NEW e \in Endpoints,
         AddPacket(e) \/ \E pid \in Pids \cup {NoPid} : NewConnection(e, pid)
  PROVE  TInv'
<1>1. UNCHANGED <<monitor_record_map, record_id, m_row_updates_map, draining, m_procNetIO, taken>>
  BY DEF AddPacket, NewConnection, collectorVars
<1>2. curtime \in Nat /\ Maps(connections, Endpoints, Connection)
  BY DEF Types, TInv
<1>3. Maps(connections', Endpoints, Connection)
  <2>1. CASE AddPacket(e)
    <3>1. /\ e \in DOMAIN connections
          /\ connections' = [connections EXCEPT ![e] = [lastpacket |-> curtime,
                                                        bytes |-> connections[e].bytes + 1]]
      BY <2>1 DEF AddPacket
    <3>2. [lastpacket |-> curtime, bytes |-> connections[e].bytes + 1] \in Connection
      <4>1. connections[e].bytes \in Nat
        BY <1>2, <3>1 DEF Maps, Connection
      <4>2. QED
        BY <1>2, <4>1 DEF Connection
    <3>3. QED
      BY <1>2, <3>1, <3>2 DEF Maps
  <2>2. CASE \E pid \in Pids \cup {NoPid} : NewConnection(e, pid)
    <3>1. connections' = With(connections, e, [lastpacket |-> curtime, bytes |-> 1])
      BY <2>2 DEF NewConnection
    <3>2. [lastpacket |-> curtime, bytes |-> 1] \in Connection
      BY <1>2 DEF Connection
    <3>3. QED
      BY <1>2, <3>1, <3>2, WithMaps
  <2>3. QED
    BY <2>1, <2>2
<1>4. QED
  BY <1>1, <1>3 DEF TInv

LEMMA RemoveProcessTInv ==
  ASSUME TInv, RemoveProcess
  PROVE  TInv'
<1> DEFINE n == processes[curproc]
<1>1. /\ UNCHANGED <<connections, record_id, draining, m_procNetIO, taken>>
      /\ monitor_record_map' = Without(monitor_record_map, {n})
      /\ IF n \in DOMAIN monitor_record_map
         THEN SetRowUpdate("REMOVE", monitor_record_map[n])
         ELSE UNCHANGED m_row_updates_map
  BY DEF RemoveProcess, collectorVars
<1> HIDE DEF n
<1>2. Maps(monitor_record_map', Nodes, Record)
  BY <1>1, WithoutMaps DEF TInv
<1>3. Maps(m_row_updates_map', 1..MaxRecords, Row)
  <2>1. n \in DOMAIN monitor_record_map => monitor_record_map[n] \in Record
    BY DEF TInv, Maps
  <2>2. QED
    BY <1>1, <2>1, SetRowUpdateMaps DEF TInv
<1>4. QED
  BY <1>1, <1>2, <1>3 DEF TInv

\* The total of a listed node is a number: its connections are some of finitely many.
LEMMA TotalIsNatural ==
  ASSUME TInv, ConnectionsOwned, NEW n \in ToSet(processes)
  PROVE  Total(n) \in Nat
<1> DEFINE S == proc[n].connections \ Stalled(n)
<1>1. S \subseteq DOMAIN connections
  BY DEF ConnectionsOwned
<1>2. Maps(connections, Endpoints, Connection)
  BY DEF TInv
<1>3. IsFiniteSet(S)
  <2>1. S \in SUBSET Endpoints
    BY <1>1, <1>2 DEF Maps
  <2>2. QED
    BY <2>1, BoundsAssumption, FS_Subset
<1>4. \A e \in S : connections[e].bytes \in Nat
  BY <1>1, <1>2 DEF Maps, Connection
<1>5. Total(n) = Sums(connections, S)[S]
  BY DEF Total, MapThenSumSet, MapThenFoldSet, Sums, Added, Chosen
<1> HIDE DEF S
<1>6. Sums(connections, S)[S] \in Nat
  BY <1>3, <1>4, SumOfBytes
<1>7. QED
  BY <1>5, <1>6

LEMMA ReportProcessTInv ==
  ASSUME CInv, TInv, ReportProcess
  PROVE  TInv'
<1> DEFINE n == processes[curproc]
           record == UpToDate(n)
<1>1. /\ curproc \in 1..Len(processes)
      /\ record.record_id <= MaxRecords
      /\ connections' = Without(connections, Stalled(n))
      /\ record_id' = IF n \in DOMAIN monitor_record_map THEN record_id ELSE record_id + 1
      /\ monitor_record_map' = With(monitor_record_map, n, record)
      /\ SetRowUpdate("SET", record) \/ UNCHANGED m_row_updates_map
      /\ UNCHANGED <<draining, m_procNetIO, taken>>
  BY DEF ReportProcess, collectorVars
<1>2. n \in ToSet(processes) /\ n \in Nodes /\ proc[n].pid \in Pids \cup {NoPid}
  <2>1. processes \in Seq(Nodes) /\ proc \in [ToSet(processes) -> Process]
    BY DEF CInv, Types
  <2>2. n \in ToSet(processes) /\ n \in Nodes
    BY <1>1, <2>1, ToSetIs
  <2>3. QED
    BY <2>1, <2>2 DEF Process
<1>3. Total(n) \in Nat
  BY <1>2, TotalIsNatural DEF CInv
<1>4. /\ record \in Record
      /\ n \notin DOMAIN monitor_record_map => record.record_id = record_id + 1
  <2>1. CASE n \in DOMAIN monitor_record_map
    <3>1. monitor_record_map[n] \in Record
      BY <2>1 DEF TInv, Maps
    <3>2. record = [monitor_record_map[n] EXCEPT !.bytes = Total(n)]
      BY <2>1 DEF UpToDate
    <3>3. QED
      BY <1>3, <2>1, <3>1, <3>2 DEF Record
  <2>2. CASE n \notin DOMAIN monitor_record_map
    <3>1. record = [record_id |-> record_id + 1, pid |-> proc[n].pid, bytes |-> Total(n)]
      BY <2>2 DEF UpToDate
    <3>2. record_id + 1 \in 1..MaxRecords
      BY <1>1, <3>1, BoundsAssumption DEF TInv
    <3>3. QED
      BY <1>2, <1>3, <3>1, <3>2 DEF Record
  <2>3. QED
    BY <2>1, <2>2
<1> HIDE DEF n, record
<1>5. Maps(connections', Endpoints, Connection)
  BY <1>1, WithoutMaps DEF TInv
<1>6. Maps(monitor_record_map', Nodes, Record)
  BY <1>1, <1>2, <1>4, WithMaps DEF TInv
<1>7. record_id' \in 0..MaxRecords
  BY <1>1, <1>4, BoundsAssumption DEF TInv, Record
<1>8. Maps(m_row_updates_map', 1..MaxRecords, Row)
  <2>1. CASE SetRowUpdate("SET", record)
    BY <1>4, <2>1, SetRowUpdateMaps
  <2>2. CASE UNCHANGED m_row_updates_map
    BY <2>2 DEF TInv
  <2>3. QED
    BY <1>1, <2>1, <2>2
<1>9. QED
  BY <1>1, <1>5, <1>6, <1>7, <1>8 DEF TInv

LEMMA DrainTInv ==
  ASSUME TInv, StartDrain \/ DrainRow \/ EndDrain
  PROVE  TInv'
<1>1. /\ UNCHANGED <<connections, monitor_record_map, record_id>>
      /\ draining' \in BOOLEAN
  BY DEF StartDrain, DrainRow, EndDrain, monitorVars, TInv
<1>2. CASE StartDrain \/ EndDrain
  <2>1. /\ UNCHANGED <<m_row_updates_map, taken>>
        /\ m_procNetIO' = Empty \/ UNCHANGED m_procNetIO
    BY <1>2 DEF StartDrain, EndDrain
  <2>2. QED
    BY <1>1, <2>1, EmptyMaps DEF TInv
<1>3. CASE DrainRow
  <2>1. PICK id \in DOMAIN m_row_updates_map : LET row == m_row_updates_map[id] IN
          /\ m_procNetIO' = IF row.action = "REMOVE" THEN m_procNetIO
                            ELSE With(m_procNetIO, row.record.pid, row.record)
          /\ taken' = With(taken, id, row)
          /\ m_row_updates_map' = Without(m_row_updates_map, {id})
    BY <1>3 DEF DrainRow
  <2> DEFINE row == m_row_updates_map[id]
  <2>2. id \in 1..MaxRecords /\ row \in Row
    BY <2>1 DEF TInv, Maps
  <2>3. row.record \in Record /\ row.record.pid \in Pids \cup {NoPid}
    BY <2>2 DEF Row, Record
  <2>4. Maps(taken', 1..MaxRecords, Row) /\ Maps(m_row_updates_map', 1..MaxRecords, Row)
    BY <2>1, <2>2, WithMaps, WithoutMaps DEF TInv
  <2>5. Maps(m_procNetIO', Pids \cup {NoPid}, Record)
    BY <2>1, <2>3, WithMaps DEF TInv
  <2>6. QED
    BY <1>1, <2>4, <2>5 DEF TInv
<1>4. QED
  BY <1>2, <1>3

LEMMA NextTInv ==
  ASSUME CInv, TInv, [Next]_vars
  PROVE  TInv'
<1>1. CASE Tick \/ StartRefresh \/ EndRefresh \/ UNCHANGED vars
  <2>1. UNCHANGED <<connections, monitor_record_map, record_id, m_row_updates_map, draining,
                    m_procNetIO, taken>>
    BY <1>1 DEF Tick, StartRefresh, EndRefresh, vars, monitorVars, collectorVars
  <2>2. QED
    BY <2>1 DEF TInv
<1>2. ASSUME NEW e \in Endpoints,
             AddPacket(e) \/ \E pid \in Pids \cup {NoPid} : NewConnection(e, pid)
      PROVE  TInv'
  BY <1>2, PacketTInv DEF CInv
<1>3. CASE RemoveProcess
  BY <1>3, RemoveProcessTInv
<1>4. CASE ReportProcess
  BY <1>4, ReportProcessTInv
<1>5. CASE StartDrain \/ DrainRow \/ EndDrain
  BY <1>5, DrainTInv
<1>6. QED
  BY <1>1, <1>2, <1>3, <1>4, <1>5 DEF Next

\* The types of the monitor's state, of the rows and of what was drained; a total is a
\* natural number, whatever connections it is added up from.
THEOREM TypeCorrectness == Spec => []TypeOK
<1>1. Init => IInv /\ TInv
  BY InitCInv, InitRInv, InitTInv DEF IInv
<1>2. IInv /\ TInv /\ [Next]_vars => IInv' /\ TInv'
  BY NextCInv, NextRInv, NextTInv DEF IInv
<1>3. IInv /\ TInv => TypeOK
  BY TypesFollow DEF IInv, CInv
<1>4. QED
  BY <1>1, <1>2, <1>3, PTL DEF Spec
=============================================================================
