---------------------- MODULE ProcessTableModelProofs ----------------------
(***************************************************************************)
(* Proofs about ProcessTableModel, and about ProcessTableView on top of it, *)
(* for any sets of processes, states and priorities and any snapshots in    *)
(* which no process id occurs twice.                                        *)
(***************************************************************************)
EXTENDS ProcessTableView, SequenceTheorems, TLAPS

-----------------------------------------------------------------------------
(* Sequences                                                               *)

\* What taking out one element does to a sequence.
LEMMA RemoveAtProperties ==
  ASSUME NEW S, NEW s \in Seq(S), NEW i \in 1..Len(s)
  PROVE  /\ RemoveAt(s, i) \in Seq(S)
         /\ Len(RemoveAt(s, i)) = Len(s) - 1
         /\ \A j \in 1..Len(s) - 1 :
              RemoveAt(s, i)[j] = IF j < i THEN s[j] ELSE s[j + 1]
<1> DEFINE front == SubSeq(s, 1, i - 1)
           back == SubSeq(s, i + 1, Len(s))
<1>1. Len(s) \in Nat
  BY LenProperties
<1>2. /\ front \in Seq(S)
      /\ Len(front) = i - 1
      /\ \A j \in 1..i - 1 : front[j] = s[j]
  <2>1. \A j \in 1..i - 1 : s[j] \in S
    BY <1>1, ElementOfSeq
  <2>2. QED
    BY <1>1, <2>1, SubSeqProperties
<1>3. /\ back \in Seq(S)
      /\ Len(back) = Len(s) - i
      /\ \A j \in 1..Len(s) - i : back[j] = s[j + i]
  <2>1. \A j \in i + 1..Len(s) : s[j] \in S
    BY <1>1, ElementOfSeq
  <2>2. QED
    BY <1>1, <2>1, SubSeqProperties
<1>4. RemoveAt(s, i) = front \o back
  BY DEF RemoveAt
<1> HIDE DEF front, back
<1>5. /\ front \o back \in Seq(S)
      /\ Len(front \o back) = Len(front) + Len(back)
      /\ \A j \in 1..Len(front) + Len(back) :
           (front \o back)[j] = IF j <= Len(front) THEN front[j]
                                                   ELSE back[j - Len(front)]
  BY <1>2, <1>3, ConcatProperties
<1>6. Len(front \o back) = Len(s) - 1
  BY <1>1, <1>2, <1>3, <1>5
<1>7. ASSUME NEW j \in 1..Len(s) - 1
      PROVE  (front \o back)[j] = IF j < i THEN s[j] ELSE s[j + 1]
  <2>1. (front \o back)[j] = IF j <= i - 1 THEN front[j] ELSE back[j - (i - 1)]
    BY <1>1, <1>2, <1>3, <1>5
  <2>2. CASE j < i
    BY <1>1, <1>2, <2>1, <2>2
  <2>3. CASE ~(j < i)
    <3>1. j - (i - 1) \in 1..Len(s) - i
      BY <1>1, <2>3
    <3>2. back[j - (i - 1)] = s[j - (i - 1) + i]
      BY <1>3, <3>1
    <3>3. QED
      BY <1>1, <2>1, <2>3, <3>2
  <2>4. QED
    BY <2>2, <2>3
<1>8. QED
  BY <1>4, <1>5, <1>6, <1>7

-----------------------------------------------------------------------------
(* The inductive invariant.                                                *)

\* The empty table satisfies the invariant.
LEMMA InitIInv == Init => IInv
  BY DEF Init, IInv, TypeOK, RowIndexConsistent, NoStaleRowBehindIterator,
         ReadEntriesOnDisplay, ReadPositions, DistinctPids

\* Taking a row out of the list together with MapWithoutRow keeps the two
\* consistent: the argument shared by the removal loop and removeProcessEntry.
LEMMA RemoveRow ==
  ASSUME TypeOK, RowIndexConsistent,
         NEW pid \in DOMAIN m_processMap,
         m_processList' = RemoveAt(m_processList, m_processMap[pid] + 1),
         m_processMap' = MapWithoutRow(pid, m_processMap[pid])
  PROVE  /\ m_processList' \in Seq(Entry)
         /\ DOMAIN m_processMap' = DOMAIN m_processMap \ {pid}
         /\ m_processMap' \in [DOMAIN m_processMap' -> Nat]
         /\ RowIndexConsistent'
         /\ Len(m_processList') = Len(m_processList) - 1
         /\ \A j \in 1..Len(m_processList) - 1 :
              m_processList'[j] = IF j < m_processMap[pid] + 1
                                  THEN m_processList[j] ELSE m_processList[j + 1]
         /\ \A p \in DOMAIN m_processMap' :
              m_processList'[m_processMap'[p] + 1] = m_processList[m_processMap[p] + 1]
<1> DEFINE row == m_processMap[pid]
<1>1. /\ row \in Nat
      /\ row + 1 \in 1..Len(m_processList)
      /\ Len(m_processList) \in Nat
  BY LenProperties DEF TypeOK, RowIndexConsistent
<1>2. /\ m_processList' \in Seq(Entry)
      /\ Len(m_processList') = Len(m_processList) - 1
      /\ \A j \in 1..Len(m_processList) - 1 :
           m_processList'[j] = IF j < row + 1 THEN m_processList[j]
                                              ELSE m_processList[j + 1]
  BY <1>1, RemoveAtProperties DEF TypeOK
<1>3. /\ DOMAIN m_processMap' = DOMAIN m_processMap \ {pid}
      /\ \A p \in DOMAIN m_processMap \ {pid} :
           m_processMap'[p] = IF m_processMap[p] > row THEN m_processMap[p] - 1
                                                       ELSE m_processMap[p]
  BY DEF MapWithoutRow
<1>4. ASSUME NEW p \in DOMAIN m_processMap \ {pid}
      PROVE  /\ m_processMap[p] \in Nat
             /\ m_processMap[p] # row
             /\ m_processMap[p] + 1 \in 1..Len(m_processList)
             /\ m_processList[m_processMap[p] + 1].pid = p
  BY <1>1 DEF TypeOK, RowIndexConsistent
<1>5. m_processMap' \in [DOMAIN m_processMap' -> Nat]
  BY <1>1, <1>3, <1>4 DEF MapWithoutRow
<1>6. ASSUME NEW p \in DOMAIN m_processMap \ {pid}
      PROVE  /\ m_processMap'[p] + 1 \in 1..Len(m_processList')
             /\ m_processList'[m_processMap'[p] + 1] = m_processList[m_processMap[p] + 1]
  <2>1. CASE m_processMap[p] > row
    <3>1. m_processMap'[p] = m_processMap[p] - 1
      BY <1>3, <1>6, <2>1
    <3>2. m_processMap[p] \in 1..Len(m_processList) - 1 /\ ~(m_processMap[p] < row + 1)
      BY <1>1, <1>4, <1>6, <2>1
    <3>3. m_processList'[m_processMap[p]] = m_processList[m_processMap[p] + 1]
      BY <1>2, <3>2
    <3>4. m_processMap'[p] + 1 = m_processMap[p]
      BY <3>1, <3>2
    <3>5. QED
      BY <1>1, <1>2, <3>2, <3>3, <3>4
  <2>2. CASE ~(m_processMap[p] > row)
    <3>1. m_processMap'[p] = m_processMap[p]
      BY <1>3, <1>6, <2>2
    <3>2. m_processMap[p] + 1 \in 1..Len(m_processList) - 1 /\ m_processMap[p] + 1 < row + 1
      BY <1>1, <1>4, <1>6, <2>2
    <3>3. m_processList'[m_processMap[p] + 1] = m_processList[m_processMap[p] + 1]
      BY <1>2, <3>2
    <3>4. QED
      BY <1>1, <1>2, <3>1, <3>2, <3>3
  <2>3. QED
    BY <2>1, <2>2
<1>7. ASSUME NEW j \in 1..Len(m_processList')
      PROVE  /\ m_processList'[j].pid \in DOMAIN m_processMap'
             /\ m_processMap'[m_processList'[j].pid] = j - 1
  <2>1. CASE j < row + 1
    <3>1. /\ m_processList'[j] = m_processList[j]
          /\ j \in 1..Len(m_processList)
      BY <1>1, <1>2, <2>1
    <3>2. /\ m_processList[j].pid \in DOMAIN m_processMap
          /\ m_processMap[m_processList[j].pid] = j - 1
      BY <3>1 DEF RowIndexConsistent
    <3>3. QED
      BY <1>1, <1>3, <2>1, <3>1, <3>2
  <2>2. CASE ~(j < row + 1)
    <3>1. /\ m_processList'[j] = m_processList[j + 1]
          /\ j + 1 \in 1..Len(m_processList)
      BY <1>1, <1>2, <2>2
    <3>2. /\ m_processList[j + 1].pid \in DOMAIN m_processMap
          /\ m_processMap[m_processList[j + 1].pid] = (j + 1) - 1
      BY <3>1 DEF RowIndexConsistent
    <3>3. QED
      BY <1>1, <1>3, <2>2, <3>1, <3>2
  <2>3. QED
    BY <2>1, <2>2
<1>8. RowIndexConsistent'
  <2>1. ASSUME NEW p \in DOMAIN m_processMap'
        PROVE  /\ m_processMap'[p] + 1 \in 1..Len(m_processList')
               /\ m_processList'[m_processMap'[p] + 1].pid = p
    BY <1>3, <1>4, <1>6
  <2>2. QED
    BY <1>7, <2>1 DEF RowIndexConsistent
<1>9. QED
  BY <1>2, <1>3, <1>5, <1>6, <1>8

\* Entering updateProcessList keeps the invariant: nothing has been read yet.
LEMMA UpdateProcessListStep ==
  ASSUME IInv, NEW entries \in Snapshots, UpdateProcessList(entries)
  PROVE  IInv'
<1>1. TypeOK'
  BY SnapshotsAssumption DEF IInv, TypeOK, UpdateProcessList
<1>2. RowIndexConsistent'
  BY DEF IInv, RowIndexConsistent, UpdateProcessList
<1>3. NoStaleRowBehindIterator' /\ ReadEntriesOnDisplay'
  <2>1. Len(entries) \in Nat
    BY <1>1 DEF TypeOK, UpdateProcessList
  <2>2. QED
    BY <2>1 DEF UpdateProcessList, NoStaleRowBehindIterator, ReadEntriesOnDisplay,
                ReadPositions
<1>4. QED
  BY <1>1, <1>2, <1>3 DEF IInv

\* What an iteration of the merging loop does to the table, whichever of its two
\* branches runs: the entry is on display and every other row is as it was.
LEMMA MergeEntryEffect ==
  ASSUME IInv, MergeEntry
  PROVE  /\ next \in 1..Len(list)
         /\ list[next] \in Entry
         /\ m_processList' \in Seq(Entry)
         /\ m_processMap' \in [DOMAIN m_processMap' -> Nat]
         /\ DOMAIN m_processMap' = DOMAIN m_processMap \cup {list[next].pid}
         /\ RowIndexConsistent'
         /\ m_processList'[m_processMap'[list[next].pid] + 1] = list[next]
         /\ \A p \in DOMAIN m_processMap \ {list[next].pid} :
              m_processList'[m_processMap'[p] + 1] = m_processList[m_processMap[p] + 1]
<1> DEFINE entry == list[next]
<1>1. /\ next \in 1..Len(list)
      /\ entry \in Entry
      /\ entry.pid \in Pids
      /\ Len(m_processList) \in Nat
  <2>1. /\ next \in 1..Len(list)
        /\ list \in Seq(Entry)
        /\ Len(m_processList) \in Nat
    BY LenProperties DEF IInv, TypeOK, MergeEntry
  <2>2. entry \in Entry
    BY <2>1, ElementOfSeq
  <2>3. QED
    BY <2>1, <2>2 DEF Entry
<1>2. CASE entry.pid \in DOMAIN m_processMap
  <2> DEFINE row == m_processMap[entry.pid]
  <2>1. /\ row \in Nat
        /\ row + 1 \in 1..Len(m_processList)
        /\ m_processList' = [m_processList EXCEPT ![row + 1] = entry]
        /\ m_processMap' = m_processMap
        /\ m_processList[row + 1].pid = entry.pid
    BY <1>2 DEF MergeEntry, IInv, TypeOK, RowIndexConsistent
  <2>2. /\ m_processList' \in Seq(Entry)
        /\ Len(m_processList') = Len(m_processList)
        /\ \A j \in 1..Len(m_processList) :
             m_processList'[j] = IF j = row + 1 THEN entry ELSE m_processList[j]
    BY <1>1, <2>1, ExceptSeq DEF IInv, TypeOK
  <2>3. \A p \in DOMAIN m_processMap \ {entry.pid} :
          /\ m_processMap[p] # row
          /\ m_processMap[p] \in Nat
          /\ m_processMap[p] + 1 \in 1..Len(m_processList)
    BY <2>1 DEF IInv, TypeOK, RowIndexConsistent
  <2>4. \A p \in DOMAIN m_processMap \ {entry.pid} :
          m_processList'[m_processMap'[p] + 1] = m_processList[m_processMap[p] + 1]
    BY <1>1, <2>1, <2>2, <2>3
  <2>5. RowIndexConsistent'
    <3>1. ASSUME NEW p \in DOMAIN m_processMap
          PROVE  /\ m_processMap'[p] + 1 \in 1..Len(m_processList')
                 /\ m_processList'[m_processMap'[p] + 1].pid = p
      <4>1. /\ m_processMap[p] + 1 \in 1..Len(m_processList)
            /\ m_processList[m_processMap[p] + 1].pid = p
        BY DEF IInv, RowIndexConsistent
      <4>2. QED
        BY <2>1, <2>2, <4>1
    <3>2. ASSUME NEW j \in 1..Len(m_processList)
          PROVE  m_processList'[j].pid = m_processList[j].pid
      BY <2>1, <2>2
    <3>3. QED
      BY <2>1, <2>2, <3>1, <3>2 DEF IInv, RowIndexConsistent
  <2>6. QED
    BY <1>1, <1>2, <2>1, <2>2, <2>4, <2>5 DEF IInv, TypeOK
<1>3. CASE entry.pid \notin DOMAIN m_processMap
  <2>1. /\ m_processList' = Append(m_processList, entry)
        /\ m_processMap' = [p \in DOMAIN m_processMap \cup {entry.pid} |->
                              IF p = entry.pid THEN Len(m_processList)
                                               ELSE m_processMap[p]]
    BY <1>3 DEF MergeEntry
  <2>2. /\ m_processList' \in Seq(Entry)
        /\ Len(m_processList') = Len(m_processList) + 1
        /\ \A j \in 1..Len(m_processList) : m_processList'[j] = m_processList[j]
        /\ m_processList'[Len(m_processList) + 1] = entry
    BY <1>1, <2>1, AppendProperties DEF IInv, TypeOK
  <2>3. /\ DOMAIN m_processMap' = DOMAIN m_processMap \cup {entry.pid}
        /\ m_processMap'[entry.pid] = Len(m_processList)
        /\ \A p \in DOMAIN m_processMap \ {entry.pid} :
             m_processMap'[p] = m_processMap[p]
    BY <2>1
  <2>4. m_processMap' \in [DOMAIN m_processMap' -> Nat]
    BY <1>1, <2>1 DEF IInv, TypeOK
  <2>5. \A p \in DOMAIN m_processMap :
          /\ p # entry.pid
          /\ m_processMap[p] + 1 \in 1..Len(m_processList)
          /\ m_processList[m_processMap[p] + 1].pid = p
    BY <1>3 DEF IInv, RowIndexConsistent
  <2>6. \A p \in DOMAIN m_processMap \ {entry.pid} :
          m_processList'[m_processMap'[p] + 1] = m_processList[m_processMap[p] + 1]
    BY <2>2, <2>3, <2>5
  <2>7. \A p \in DOMAIN m_processMap' :
          /\ m_processMap'[p] + 1 \in 1..Len(m_processList')
          /\ m_processList'[m_processMap'[p] + 1].pid = p
    BY <1>1, <2>2, <2>3, <2>5, <2>6
  <2>8. \A i \in 1..Len(m_processList') :
          /\ m_processList'[i].pid \in DOMAIN m_processMap'
          /\ m_processMap'[m_processList'[i].pid] = i - 1
    <3>1. SUFFICES ASSUME NEW i \in 1..Len(m_processList')
                   PROVE  /\ m_processList'[i].pid \in DOMAIN m_processMap'
                          /\ m_processMap'[m_processList'[i].pid] = i - 1
      OBVIOUS
    <3>2. CASE i = Len(m_processList) + 1
      BY <1>1, <2>2, <2>3, <3>2
    <3>3. CASE i # Len(m_processList) + 1
      <4>1. /\ i \in 1..Len(m_processList)
            /\ m_processList'[i] = m_processList[i]
        BY <1>1, <2>2, <3>3
      <4>2. /\ m_processList[i].pid \in DOMAIN m_processMap
            /\ m_processMap[m_processList[i].pid] = i - 1
        BY <4>1 DEF IInv, RowIndexConsistent
      <4>3. QED
        BY <1>3, <2>3, <4>1, <4>2
    <3>4. QED
      BY <3>2, <3>3
  <2>9. RowIndexConsistent'
    BY <2>7, <2>8 DEF RowIndexConsistent
  <2>10. QED
    BY <1>1, <2>2, <2>3, <2>4, <2>6, <2>9
<1>4. QED
  BY <1>2, <1>3

\* An iteration of the merging loop keeps the invariant.
LEMMA MergeEntryStep == ASSUME IInv, MergeEntry PROVE IInv'
<1>1. TypeOK'
  <2>1. /\ m_processList' \in Seq(Entry)
        /\ m_processMap' \in [DOMAIN m_processMap' -> Nat]
        /\ DOMAIN m_processMap' = DOMAIN m_processMap \cup {list[next].pid}
        /\ list[next].pid \in Pids
    BY MergeEntryEffect DEF Entry
  <2>2. /\ phase = "merge" /\ UNCHANGED <<phase, list>>
        /\ next' = next + 1
        /\ hash' = hash \cup {list[next].pid}
    BY DEF MergeEntry
  <2>3. QED
    BY <2>1, <2>2 DEF IInv, TypeOK
<1>2. NoStaleRowBehindIterator'
  BY DEF MergeEntry, NoStaleRowBehindIterator
<1>3. ReadEntriesOnDisplay'
  <2>1. /\ phase = "merge" /\ phase' = "merge" /\ list' = list
        /\ next' = next + 1
        /\ hash' = hash \cup {list[next].pid}
        /\ next \in Nat \ {0}
        /\ Len(list) \in Nat
        /\ next <= Len(list)
    BY LenProperties DEF MergeEntry, IInv, TypeOK
  <2>2. /\ ReadPositions = 1..(next - 1)
        /\ ReadPositions' = ReadPositions \cup {next}
    BY <2>1 DEF ReadPositions
  <2>3. hash' = {list'[i].pid : i \in ReadPositions'}
    BY <2>1, <2>2 DEF IInv, ReadEntriesOnDisplay
  <2>4. ASSUME NEW i \in ReadPositions'
        PROVE  /\ list'[i].pid \in DOMAIN m_processMap'
               /\ m_processList'[m_processMap'[list'[i].pid] + 1] = list'[i]
    <3>1. CASE i = next
      BY <2>1, <3>1, MergeEntryEffect
    <3>2. CASE i # next
      <4>1. /\ i \in ReadPositions
            /\ i \in 1..Len(list)
            /\ next \in 1..Len(list)
        BY <2>1, <2>2, <3>2
      <4>2. list[i].pid # list[next].pid
        BY <3>2, <4>1 DEF IInv, TypeOK, DistinctPids
      <4>3. /\ list[i].pid \in DOMAIN m_processMap
            /\ m_processList[m_processMap[list[i].pid] + 1] = list[i]
        BY <4>1 DEF IInv, ReadEntriesOnDisplay
      <4>4. QED
        BY <2>1, <4>2, <4>3, MergeEntryEffect
    <3>3. QED
      BY <3>1, <3>2
  <2>5. QED
    BY <2>1, <2>3, <2>4 DEF ReadEntriesOnDisplay
<1>4. QED
  BY <1>1, <1>2, <1>3, MergeEntryEffect DEF IInv

\* Going from the first loop to the second keeps the invariant.
LEMMA StartPruneStep == ASSUME IInv, StartPrune PROVE IInv'
<1>1. /\ phase = "merge" /\ phase' = "prune" /\ next' = 1
      /\ UNCHANGED <<m_processList, m_processMap, list, hash>>
      /\ Len(list) \in Nat
      /\ Len(m_processList) \in Nat
      /\ next = Len(list) + 1
  BY LenProperties DEF StartPrune, IInv, TypeOK, ReadEntriesOnDisplay
<1>2. ReadPositions' = ReadPositions
  BY <1>1 DEF ReadPositions
<1>3. QED
  BY <1>1, <1>2 DEF IInv, TypeOK, RowIndexConsistent, NoStaleRowBehindIterator,
                    ReadEntriesOnDisplay

\* An iteration of the removing loop keeps the invariant.
LEMMA PruneEntryStep == ASSUME IInv, PruneEntry PROVE IInv'
<1> DEFINE pid == m_processList[next].pid
<1>1. /\ phase = "prune"
      /\ UNCHANGED <<phase, list, hash>>
      /\ next \in 1..Len(m_processList)
      /\ Len(m_processList) \in Nat
      /\ ReadPositions' = ReadPositions
  BY LenProperties DEF PruneEntry, IInv, TypeOK, ReadPositions
<1>2. pid \in DOMAIN m_processMap /\ m_processMap[pid] = next - 1
  BY <1>1 DEF IInv, RowIndexConsistent
<1>3. CASE pid \in hash
  <2>1. next' = next + 1 /\ UNCHANGED <<m_processList, m_processMap>>
    BY <1>3 DEF PruneEntry
  <2>2. NoStaleRowBehindIterator'
    BY <1>1, <1>3, <2>1 DEF IInv, NoStaleRowBehindIterator
  <2>3. TypeOK'
    BY <1>1, <2>1 DEF IInv, TypeOK
  <2>4. RowIndexConsistent'
    BY <2>1 DEF IInv, RowIndexConsistent
  <2>5. ReadEntriesOnDisplay'
    BY <1>1, <2>1 DEF IInv, ReadEntriesOnDisplay
  <2>6. QED
    BY <2>2, <2>3, <2>4, <2>5 DEF IInv
<1>4. CASE pid \notin hash
  <2>1. /\ m_processList' = RemoveAt(m_processList, m_processMap[pid] + 1)
        /\ m_processMap' = MapWithoutRow(pid, m_processMap[pid])
        /\ next' = next
    BY <1>1, <1>2, <1>4 DEF PruneEntry
  <2>2. /\ m_processList' \in Seq(Entry)
        /\ DOMAIN m_processMap' = DOMAIN m_processMap \ {pid}
        /\ m_processMap' \in [DOMAIN m_processMap' -> Nat]
        /\ RowIndexConsistent'
        /\ Len(m_processList') = Len(m_processList) - 1
        /\ \A j \in 1..Len(m_processList) - 1 :
             m_processList'[j] = IF j < m_processMap[pid] + 1
                                 THEN m_processList[j] ELSE m_processList[j + 1]
        /\ \A p \in DOMAIN m_processMap' :
             m_processList'[m_processMap'[p] + 1] = m_processList[m_processMap[p] + 1]
    BY <1>2, <2>1, RemoveRow DEF IInv
  <2>3. TypeOK'
    BY <1>1, <2>1, <2>2 DEF IInv, TypeOK
  <2>4. NoStaleRowBehindIterator'
    <3>1. SUFFICES ASSUME NEW i \in 1..Len(m_processList'), i < next
                   PROVE  m_processList'[i].pid \in hash
      BY <1>1, <2>1 DEF NoStaleRowBehindIterator
    <3>2. /\ m_processList'[i] = m_processList[i]
          /\ i \in 1..Len(m_processList)
      BY <1>1, <1>2, <2>2, <3>1
    <3>3. QED
      BY <1>1, <3>1, <3>2 DEF IInv, NoStaleRowBehindIterator
  <2>5. ReadEntriesOnDisplay'
    <3>1. \A i \in ReadPositions : list[i].pid # pid
      BY <1>4 DEF IInv, ReadEntriesOnDisplay
    <3>2. \A i \in ReadPositions :
            /\ list[i].pid \in DOMAIN m_processMap'
            /\ m_processList'[m_processMap'[list[i].pid] + 1] = list[i]
      BY <2>2, <3>1 DEF IInv, ReadEntriesOnDisplay
    <3>3. phase' = "prune" => next' <= Len(m_processList') + 1
      <4>1. Len(m_processList') = Len(m_processList) - 1 /\ next' = next
        BY <2>1, <2>2
      <4>2. QED
        BY <1>1, <4>1
    <3>4. QED
      BY <1>1, <3>2, <3>3 DEF IInv, ReadEntriesOnDisplay
  <2>6. QED
    BY <2>2, <2>3, <2>4, <2>5 DEF IInv
<1>5. QED
  BY <1>3, <1>4

\* Leaving updateProcessList keeps the invariant.
LEMMA FinishUpdateStep == ASSUME IInv, FinishUpdate PROVE IInv'
<1>1. << >> \in Seq(Entry) /\ DistinctPids(<< >>)
  BY DEF DistinctPids
<1>2. QED
  BY <1>1 DEF FinishUpdate, IInv, TypeOK, RowIndexConsistent, ReadPositions,
              NoStaleRowBehindIterator, ReadEntriesOnDisplay

\* removeProcessEntry keeps the invariant.
LEMMA RemoveProcessEntryStep ==
  ASSUME IInv, NEW pid \in Pids, RemoveProcessEntry(pid)
  PROVE  IInv'
<1>1. /\ phase = "idle"
      /\ UNCHANGED <<phase, list, next, hash>>
      /\ pid \in DOMAIN m_processMap
      /\ m_processList' = RemoveAt(m_processList, m_processMap[pid] + 1)
      /\ m_processMap' = MapWithoutRow(pid, m_processMap[pid])
  BY DEF RemoveProcessEntry
<1>2. /\ m_processList' \in Seq(Entry)
      /\ DOMAIN m_processMap' = DOMAIN m_processMap \ {pid}
      /\ m_processMap' \in [DOMAIN m_processMap' -> Nat]
      /\ RowIndexConsistent'
  BY <1>1, RemoveRow DEF IInv
<1>3. TypeOK'
  BY <1>1, <1>2 DEF IInv, TypeOK
<1>4. NoStaleRowBehindIterator' /\ ReadEntriesOnDisplay'
  BY <1>1 DEF IInv, NoStaleRowBehindIterator, ReadEntriesOnDisplay, ReadPositions
<1>5. QED
  BY <1>2, <1>3, <1>4 DEF IInv

\* Writing an attribute of one row, as updateProcessState and
\* updateProcessPriority do, keeps the row its process.
Rewrite(pid, entry) ==
  /\ phase = "idle"
  /\ pid \in DOMAIN m_processMap
  /\ m_processList' = [m_processList EXCEPT ![m_processMap[pid] + 1] = entry]
  /\ UNCHANGED <<m_processMap, phase, list, next, hash>>

LEMMA RewriteRow ==
  ASSUME IInv, NEW pid, NEW entry \in Entry, entry.pid = pid, Rewrite(pid, entry)
  PROVE  /\ IInv'
         /\ m_processList'[m_processMap'[pid] + 1] = entry
         /\ \A p \in DOMAIN m_processMap \ {pid} :
              m_processList'[m_processMap'[p] + 1] = m_processList[m_processMap[p] + 1]
<1> DEFINE row == m_processMap[pid]
<1> USE DEF Rewrite
<1>1. /\ row \in Nat
      /\ row + 1 \in 1..Len(m_processList)
      /\ m_processList[row + 1].pid = pid
  BY DEF IInv, TypeOK, RowIndexConsistent
<1>2. /\ m_processList' \in Seq(Entry)
      /\ Len(m_processList') = Len(m_processList)
      /\ \A j \in 1..Len(m_processList) :
           m_processList'[j] = IF j = row + 1 THEN entry ELSE m_processList[j]
  BY <1>1, ExceptSeq DEF IInv, TypeOK
<1>3. \A j \in 1..Len(m_processList) : m_processList'[j].pid = m_processList[j].pid
  BY <1>1, <1>2
<1>4. RowIndexConsistent'
  <2>1. ASSUME NEW p \in DOMAIN m_processMap
        PROVE  /\ m_processMap'[p] + 1 \in 1..Len(m_processList')
               /\ m_processList'[m_processMap'[p] + 1].pid = p
    BY <1>2, <1>3 DEF IInv, RowIndexConsistent
  <2>2. ASSUME NEW i \in 1..Len(m_processList')
        PROVE  /\ m_processList'[i].pid \in DOMAIN m_processMap'
               /\ m_processMap'[m_processList'[i].pid] = i - 1
    BY <1>2, <1>3 DEF IInv, RowIndexConsistent
  <2>3. QED
    BY <2>1, <2>2 DEF RowIndexConsistent
<1>5. TypeOK' /\ NoStaleRowBehindIterator' /\ ReadEntriesOnDisplay'
  BY <1>2 DEF IInv, TypeOK, NoStaleRowBehindIterator, ReadEntriesOnDisplay,
              ReadPositions
<1>6. \A p \in DOMAIN m_processMap \ {pid} :
        /\ m_processMap[p] # row
        /\ m_processMap[p] \in Nat
        /\ m_processMap[p] + 1 \in 1..Len(m_processList)
  BY <1>1 DEF IInv, TypeOK, RowIndexConsistent
<1>7. QED
  BY <1>1, <1>2, <1>4, <1>5, <1>6 DEF IInv

\* updateProcessState keeps the invariant.
LEMMA UpdateProcessStateStep ==
  ASSUME IInv, NEW pid \in Pids, NEW state \in States, UpdateProcessState(pid, state)
  PROVE  /\ IInv'
         /\ pid \in DOMAIN m_processMap
         /\ m_processList'[m_processMap'[pid] + 1]
              = [m_processList[m_processMap[pid] + 1] EXCEPT !.state = state]
         /\ \A p \in DOMAIN m_processMap \ {pid} :
              m_processList'[m_processMap'[p] + 1] = m_processList[m_processMap[p] + 1]
<1> DEFINE old == m_processList[m_processMap[pid] + 1]
           entry == [old EXCEPT !.state = state]
<1>1. Rewrite(pid, entry)
  BY DEF UpdateProcessState, Rewrite
<1>2. old \in Entry /\ old.pid = pid
  BY <1>1, ElementOfSeq DEF Rewrite, IInv, TypeOK, RowIndexConsistent
<1>3. entry \in Entry /\ entry.pid = pid
  BY <1>2 DEF Entry
<1> HIDE DEF entry, old
<1>4. /\ IInv'
      /\ m_processList'[m_processMap'[pid] + 1] = entry
      /\ \A p \in DOMAIN m_processMap \ {pid} :
           m_processList'[m_processMap'[p] + 1] = m_processList[m_processMap[p] + 1]
  BY <1>1, <1>3, RewriteRow
<1>5. QED
  BY <1>1, <1>4 DEF Rewrite, entry, old

\* updateProcessPriority keeps the invariant.
LEMMA UpdateProcessPriorityStep ==
  ASSUME IInv, NEW pid \in Pids, NEW prio \in Priorities,
         UpdateProcessPriority(pid, prio)
  PROVE  /\ IInv'
         /\ pid \in DOMAIN m_processMap
         /\ m_processList'[m_processMap'[pid] + 1]
              = [m_processList[m_processMap[pid] + 1] EXCEPT !.prio = prio]
         /\ \A p \in DOMAIN m_processMap \ {pid} :
              m_processList'[m_processMap'[p] + 1] = m_processList[m_processMap[p] + 1]
<1> DEFINE old == m_processList[m_processMap[pid] + 1]
           entry == [old EXCEPT !.prio = prio]
<1>1. Rewrite(pid, entry)
  BY DEF UpdateProcessPriority, Rewrite
<1>2. old \in Entry /\ old.pid = pid
  BY <1>1, ElementOfSeq DEF Rewrite, IInv, TypeOK, RowIndexConsistent
<1>3. entry \in Entry /\ entry.pid = pid
  BY <1>2 DEF Entry
<1> HIDE DEF entry, old
<1>4. /\ IInv'
      /\ m_processList'[m_processMap'[pid] + 1] = entry
      /\ \A p \in DOMAIN m_processMap \ {pid} :
           m_processList'[m_processMap'[p] + 1] = m_processList[m_processMap[p] + 1]
  BY <1>1, <1>3, RewriteRow
<1>5. QED
  BY <1>1, <1>4 DEF Rewrite, entry, old

\* Every step keeps the invariant: one case per action.
LEMMA NextKeepsIInv == IInv /\ [Next]_vars => IInv'
<1> SUFFICES ASSUME IInv, [Next]_vars PROVE IInv'
  OBVIOUS
<1>1. CASE \E entries \in Snapshots : UpdateProcessList(entries)
  BY <1>1, UpdateProcessListStep
<1>2. CASE MergeEntry
  BY <1>2, MergeEntryStep
<1>3. CASE StartPrune
  BY <1>3, StartPruneStep
<1>4. CASE PruneEntry
  BY <1>4, PruneEntryStep
<1>5. CASE FinishUpdate
  BY <1>5, FinishUpdateStep
<1>6. CASE \E pid \in Pids : RemoveProcessEntry(pid)
  BY <1>6, RemoveProcessEntryStep
<1>7. CASE \E pid \in Pids, state \in States : UpdateProcessState(pid, state)
  BY <1>7, UpdateProcessStateStep
<1>8. CASE \E pid \in Pids, prio \in Priorities : UpdateProcessPriority(pid, prio)
  BY <1>8, UpdateProcessPriorityStep
<1>9. CASE UNCHANGED vars
  <2>1. TypeOK' /\ RowIndexConsistent' /\ NoStaleRowBehindIterator'
    BY <1>9 DEF vars, IInv, TypeOK, RowIndexConsistent, NoStaleRowBehindIterator
  <2>2. ReadEntriesOnDisplay'
    BY <1>9 DEF vars, IInv, ReadEntriesOnDisplay, ReadPositions
  <2>3. QED
    BY <2>1, <2>2 DEF IInv
<1>10. QED
  BY <1>1, <1>2, <1>3, <1>4, <1>5, <1>6, <1>7, <1>8, <1>9 DEF Next, UpdateLoop

\* The strengthened invariant holds in every reachable state.
THEOREM Invariance == Spec => []IInv
<1>1. QED
  BY InitIInv, NextKeepsIInv, PTL DEF Spec

\* The variables keep their types, whatever snapshots arrive and whatever the
\* user does to processes.
THEOREM TypeCorrectness == Spec => []TypeOK
<1>1. IInv => TypeOK
  BY DEF IInv
<1>2. QED
  BY <1>1, Invariance, PTL

\* m_processMap and m_processList describe the same table, inside the loops of
\* updateProcessList too.
THEOREM RowIndexStaysConsistent == Spec => []RowIndexConsistent
<1>1. IInv => RowIndexConsistent
  BY DEF IInv
<1>2. QED
  BY <1>1, Invariance, PTL

\* No row of a process outside the snapshot survives behind the iterator.
THEOREM PruningIsComplete == Spec => []NoStaleRowBehindIterator
<1>1. IInv => NoStaleRowBehindIterator
  BY DEF IInv
<1>2. QED
  BY <1>1, Invariance, PTL

\* In both loops of updateProcessList, what was read of the snapshot is on display
\* as it was read.
THEOREM SnapshotIsTakenOver == Spec => []ReadEntriesOnDisplay
<1>1. IInv => ReadEntriesOnDisplay
  BY DEF IInv
<1>2. QED
  BY <1>1, Invariance, PTL

-----------------------------------------------------------------------------
(* The bookkeeping implements ProcessTable.                                *)

\* In a list without repetition, the entry of a process is found by its id.
LEMMA EntryOfListedPid ==
  ASSUME NEW entries, DistinctPids(entries), NEW i \in 1..Len(entries)
  PROVE  entries[CHOOSE j \in 1..Len(entries) : entries[j].pid = entries[i].pid]
           = entries[i]
<1> DEFINE k == CHOOSE j \in 1..Len(entries) : entries[j].pid = entries[i].pid
<1>1. k \in 1..Len(entries) /\ entries[k].pid = entries[i].pid
  OBVIOUS
<1>2. k = i
  BY <1>1 DEF DistinctPids
<1>3. QED
  BY <1>2

\* Every iteration of either loop leaves what the table has settled on alone.
LEMMA MergeEntryStutters == ASSUME IInv, MergeEntry PROVE Settled' = Settled
<1> DEFINE listed == {list[i].pid : i \in 1..Len(list)}
           entryOf(p) == list[CHOOSE i \in 1..Len(list) : list[i].pid = p]
           at(p) == m_processList[m_processMap[p] + 1]
<1>1. /\ phase = "merge" /\ phase' = "merge" /\ list' = list
      /\ hash' = hash \cup {list[next].pid}
      /\ next \in 1..Len(list)
      /\ DistinctPids(list)
  BY MergeEntryEffect DEF MergeEntry, IInv, TypeOK
<1>2. Settled = [p \in listed |-> IF p \notin hash THEN entryOf(p) ELSE at(p)]
  BY <1>1 DEF Settled
<1>3. Settled' = [p \in listed |-> IF p \notin hash' THEN entryOf(p)
                                   ELSE m_processList'[m_processMap'[p] + 1]]
  BY <1>1 DEF Settled
<1>4. entryOf(list[next].pid) = list[next]
  BY <1>1, EntryOfListedPid
<1>5. \A p \in hash : p \in DOMAIN m_processMap
  BY DEF IInv, ReadEntriesOnDisplay
<1>6. list[next].pid \notin hash
  <2>1. ReadPositions = 1..(next - 1) /\ next \in Nat /\ Len(list) \in Nat
    BY <1>1, LenProperties DEF ReadPositions, IInv, TypeOK
  <2>2. \A i \in ReadPositions : i \in 1..Len(list) /\ i # next
    BY <1>1, <2>1
  <2>3. QED
    BY <1>1, <2>2 DEF IInv, ReadEntriesOnDisplay, DistinctPids
<1> HIDE DEF listed, entryOf
<1>7. ASSUME NEW p \in listed
      PROVE  (IF p \notin hash' THEN entryOf(p) ELSE m_processList'[m_processMap'[p] + 1])
               = (IF p \notin hash THEN entryOf(p) ELSE at(p))
  <2>1. CASE p = list[next].pid
    BY <1>1, <1>4, <1>6, <2>1, MergeEntryEffect
  <2>2. CASE p # list[next].pid
    BY <1>1, <1>5, <2>2, MergeEntryEffect
  <2>3. QED
    BY <2>1, <2>2
<1>8. QED
  BY <1>2, <1>3, <1>7

\* Going to the second loop leaves what the table has settled on alone.
LEMMA StartPruneStutters == ASSUME IInv, StartPrune PROVE Settled' = Settled
<1>1. /\ phase = "merge" /\ phase' = "prune"
      /\ UNCHANGED <<m_processList, m_processMap, list, hash>>
      /\ next = Len(list) + 1
      /\ Len(list) \in Nat
  BY LenProperties DEF StartPrune, IInv, TypeOK, ReadEntriesOnDisplay
<1>2. ReadPositions = 1..Len(list)
  BY <1>1 DEF ReadPositions
<1>3. hash = {list[i].pid : i \in 1..Len(list)}
  BY <1>2 DEF IInv, ReadEntriesOnDisplay
<1>4. QED
  BY <1>1, <1>3 DEF Settled

\* So does an iteration of the second loop: it removes rows not settled on.
LEMMA PruneEntryStutters == ASSUME IInv, PruneEntry PROVE Settled' = Settled
<1> DEFINE pid == m_processList[next].pid
<1>1. /\ phase = "prune" /\ phase' = "prune" /\ UNCHANGED <<list, hash>>
      /\ next \in 1..Len(m_processList)
      /\ ReadPositions = 1..Len(list)
  BY LenProperties DEF PruneEntry, IInv, TypeOK, ReadPositions
<1>2. \A i \in 1..Len(list) : list[i].pid \in hash /\ list[i].pid \in DOMAIN m_processMap
  BY <1>1 DEF IInv, ReadEntriesOnDisplay
<1>3. CASE pid \in hash
  BY <1>1, <1>3 DEF PruneEntry, Settled
<1>4. CASE pid \notin hash
  <2>1. /\ pid \in DOMAIN m_processMap
        /\ m_processMap[pid] + 1 = next
        /\ m_processList' = RemoveAt(m_processList, m_processMap[pid] + 1)
        /\ m_processMap' = MapWithoutRow(pid, m_processMap[pid])
    <3>1. /\ pid \in DOMAIN m_processMap
          /\ m_processMap[pid] = next - 1
      BY <1>1 DEF IInv, RowIndexConsistent
    <3>2. m_processMap[pid] + 1 = next
      BY <1>1, <3>1
    <3>3. QED
      BY <1>4, <3>1, <3>2 DEF PruneEntry
  <2>2. \A p \in DOMAIN m_processMap \ {pid} :
          m_processList'[m_processMap'[p] + 1] = m_processList[m_processMap[p] + 1]
    BY <2>1, RemoveRow DEF IInv
  <2>3. \A p \in {list[i].pid : i \in 1..Len(list)} : p \in DOMAIN m_processMap \ {pid}
    BY <1>2, <1>4
  <2>4. QED
    BY <1>1, <2>2, <2>3 DEF Settled
<1>5. QED
  BY <1>3, <1>4

\* When updateProcessList ends the table is what it had settled on.
LEMMA FinishUpdateStutters == ASSUME IInv, FinishUpdate PROVE Settled' = Settled
<1>1. /\ phase = "prune" /\ phase' = "idle"
      /\ UNCHANGED <<m_processList, m_processMap>>
      /\ Len(m_processList) \in Nat
      /\ next > Len(m_processList)
      /\ next \in Nat
      /\ ReadPositions = 1..Len(list)
  BY LenProperties DEF FinishUpdate, IInv, TypeOK, ReadPositions
<1>2. hash = {list[i].pid : i \in 1..Len(list)}
  BY <1>1 DEF IInv, ReadEntriesOnDisplay
<1>3. hash \subseteq DOMAIN m_processMap
  BY <1>1, <1>2 DEF IInv, ReadEntriesOnDisplay
<1>4. DOMAIN m_processMap \subseteq hash
  <2>1. SUFFICES ASSUME NEW p \in DOMAIN m_processMap PROVE p \in hash
    OBVIOUS
  <2>2. /\ m_processMap[p] + 1 \in 1..Len(m_processList)
        /\ m_processList[m_processMap[p] + 1].pid = p
    BY DEF IInv, RowIndexConsistent
  <2>3. QED
    BY <1>1, <2>2 DEF IInv, NoStaleRowBehindIterator
<1>5. QED
  BY <1>1, <1>2, <1>3, <1>4 DEF Settled

\* Every step of the model is a step of ProcessTable or leaves its table alone.
LEMMA StepRefines == IInv /\ [Next]_vars => [Table!Next]_Settled
<1> SUFFICES ASSUME IInv, [Next]_vars PROVE [Table!Next]_Settled
  OBVIOUS
<1>1. ASSUME NEW entries \in Snapshots, UpdateProcessList(entries)
      PROVE  Table!ShowSnapshot(entries)
  BY <1>1 DEF UpdateProcessList, Settled, Table!ShowSnapshot, Table!PidsIn, Table!IndexOf
<1>2. CASE UpdateLoop
  BY <1>2, MergeEntryStutters, StartPruneStutters, PruneEntryStutters,
     FinishUpdateStutters DEF UpdateLoop
<1>3. ASSUME NEW pid \in Pids, RemoveProcessEntry(pid)
      PROVE  Table!HideProcess(pid)
  <2>1. /\ phase = "idle" /\ phase' = "idle"
        /\ pid \in DOMAIN m_processMap
        /\ m_processList' = RemoveAt(m_processList, m_processMap[pid] + 1)
        /\ m_processMap' = MapWithoutRow(pid, m_processMap[pid])
    BY <1>3 DEF RemoveProcessEntry
  <2>2. /\ DOMAIN m_processMap' = DOMAIN m_processMap \ {pid}
        /\ \A p \in DOMAIN m_processMap' :
             m_processList'[m_processMap'[p] + 1] = m_processList[m_processMap[p] + 1]
    BY <2>1, RemoveRow DEF IInv
  <2>3. QED
    BY <2>1, <2>2 DEF Settled, Table!HideProcess
<1>4. ASSUME NEW pid \in Pids, NEW state \in States, UpdateProcessState(pid, state)
      PROVE  Table!ShowState(pid, state)
  <2>1. phase = "idle" /\ phase' = "idle" /\ m_processMap' = m_processMap
    BY <1>4 DEF UpdateProcessState
  <2>2. /\ Settled = [p \in DOMAIN m_processMap |-> m_processList[m_processMap[p] + 1]]
        /\ Settled' = [p \in DOMAIN m_processMap |-> m_processList'[m_processMap'[p] + 1]]
    BY <2>1 DEF Settled
  <2>3. /\ pid \in DOMAIN m_processMap
        /\ Settled'[pid] = [Settled[pid] EXCEPT !.state = state]
        /\ \A p \in DOMAIN m_processMap \ {pid} : Settled'[p] = Settled[p]
    BY <1>4, <2>2, UpdateProcessStateStep
  <2>4. Settled' = [Settled EXCEPT ![pid].state = state]
    BY <2>2, <2>3
  <2>5. QED
    BY <2>2, <2>3, <2>4 DEF Table!ShowState
<1>5. ASSUME NEW pid \in Pids, NEW prio \in Priorities, UpdateProcessPriority(pid, prio)
      PROVE  Table!ShowPriority(pid, prio)
  <2>1. phase = "idle" /\ phase' = "idle" /\ m_processMap' = m_processMap
    BY <1>5 DEF UpdateProcessPriority
  <2>2. /\ Settled = [p \in DOMAIN m_processMap |-> m_processList[m_processMap[p] + 1]]
        /\ Settled' = [p \in DOMAIN m_processMap |-> m_processList'[m_processMap'[p] + 1]]
    BY <2>1 DEF Settled
  <2>3. /\ pid \in DOMAIN m_processMap
        /\ Settled'[pid] = [Settled[pid] EXCEPT !.prio = prio]
        /\ \A p \in DOMAIN m_processMap \ {pid} : Settled'[p] = Settled[p]
    BY <1>5, <2>2, UpdateProcessPriorityStep
  <2>4. Settled' = [Settled EXCEPT ![pid].prio = prio]
    BY <2>2, <2>3
  <2>5. QED
    BY <2>2, <2>3, <2>4 DEF Table!ShowPriority
<1>6. CASE UNCHANGED vars
  BY <1>6 DEF vars, Settled
<1>7. QED
  BY <1>1, <1>2, <1>3, <1>4, <1>5, <1>6 DEF Next, Table!Next

\* ProcessTableModel implements ProcessTable: to its views a snapshot arrives as
\* one replacement, and requests touch only their process.
THEOREM Refinement == Spec => TableSpec
<1>1. Init => Table!Init
  BY DEF Init, Settled, Table!Init
<1>2. QED
  BY <1>1, Invariance, StepRefines, PTL DEF Spec, TableSpec, Table!Spec

-----------------------------------------------------------------------------
(* The end of an update. UpdateTerminates needs the fairness of the loops;  *)
(* what follows is the part of it that is true of every step.               *)

\* The iterations an update has before it, those that append a row counted with the
\* later one over that row.
StepsLeft ==
  CASE phase = "idle"  -> 0
    [] phase = "merge" -> 2 * (Len(list) + 1 - next) + Len(m_processList) + 2
    [] phase = "prune" -> Len(m_processList) + 2 - next

LEMMA StepsLeftIsNatural == IInv => StepsLeft \in Nat
<1> SUFFICES ASSUME IInv PROVE StepsLeft \in Nat
  OBVIOUS
<1>1. /\ Len(list) \in Nat /\ Len(m_processList) \in Nat /\ next \in Nat
      /\ phase \in {"idle", "merge", "prune"}
      /\ phase = "merge" => next <= Len(list) + 1
      /\ phase = "prune" => next <= Len(m_processList) + 1
  BY LenProperties DEF IInv, TypeOK, ReadEntriesOnDisplay
<1>2. /\ phase = "idle" => StepsLeft = 0
      /\ phase = "merge" => StepsLeft = 2 * (Len(list) + 1 - next) + Len(m_processList) + 2
      /\ phase = "prune" => StepsLeft = Len(m_processList) + 2 - next
  BY DEF StepsLeft
<1>3. CASE phase = "merge"
  <2>1. Len(list) + 1 - next \in Nat
    BY <1>1, <1>3
  <2>2. QED
    BY <1>1, <1>2, <1>3, <2>1
<1>4. CASE phase = "prune"
  BY <1>1, <1>2, <1>4
<1>5. QED
  BY <1>1, <1>2, <1>3, <1>4

LEMMA MergeEntryDescends == ASSUME IInv, MergeEntry PROVE StepsLeft' < StepsLeft
<1>1. /\ phase = "merge" /\ phase' = "merge" /\ list' = list /\ next' = next + 1
      /\ next \in Nat /\ Len(list) \in Nat /\ Len(m_processList) \in Nat
  BY LenProperties DEF MergeEntry, IInv, TypeOK
<1>2. Len(m_processList') \in {Len(m_processList), Len(m_processList) + 1}
  <2>1. m_processList \in Seq(Entry) /\ list[next] \in Entry
    BY MergeEntryEffect DEF IInv, TypeOK
  <2>2. CASE list[next].pid \in DOMAIN m_processMap
    <3>1. m_processList'
            = [m_processList EXCEPT ![m_processMap[list[next].pid] + 1] = list[next]]
      BY <2>2 DEF MergeEntry
    <3>2. DOMAIN m_processList' = DOMAIN m_processList /\ m_processList' \in Seq(Entry)
      BY <3>1, MergeEntryEffect
    <3>3. QED
      BY <2>1, <3>2, LenProperties
  <2>3. CASE list[next].pid \notin DOMAIN m_processMap
    <3>1. m_processList' = Append(m_processList, list[next])
      BY <2>3 DEF MergeEntry
    <3>2. QED
      BY <2>1, <3>1, AppendProperties
  <2>4. QED
    BY <2>2, <2>3
<1>3. /\ StepsLeft = 2 * (Len(list) + 1 - next) + Len(m_processList) + 2
      /\ StepsLeft' = 2 * (Len(list) + 1 - (next + 1)) + Len(m_processList') + 2
  BY <1>1 DEF StepsLeft
<1>4. QED
  BY <1>1, <1>2, <1>3

LEMMA PruneEntryDescends == ASSUME IInv, PruneEntry PROVE StepsLeft' < StepsLeft
<1>1. /\ phase = "prune" /\ phase' = "prune"
      /\ m_processList \in Seq(Entry) /\ Len(m_processList) \in Nat
      /\ next \in 1..Len(m_processList)
  BY LenProperties DEF PruneEntry, IInv, TypeOK
<1>2. \/ next' = next + 1 /\ m_processList' = m_processList
      \/ next' = next /\ m_processList' = RemoveAt(m_processList, next)
  BY DEF PruneEntry
<1>3. Len(RemoveAt(m_processList, next)) = Len(m_processList) - 1
  BY <1>1, RemoveAtProperties
<1>4. QED
  BY <1>1, <1>2, <1>3 DEF StepsLeft

\* An update makes progress with every step: nothing but the loops runs inside of
\* updateProcessList, no iteration repeats (the removal leaves the iterator in place, on
\* the row that moved up) and no entry or row makes more work for the loops than one
\* iteration each. With StepsLeftIsNatural: the loops end, whatever the lists.
THEOREM UpdateDescends == Spec => [][phase # "idle" => StepsLeft' < StepsLeft]_vars
<1>1. ASSUME IInv, Next, phase # "idle"
      PROVE  StepsLeft' < StepsLeft
  <2>1. UpdateLoop
    BY <1>1 DEF Next, UpdateProcessList, RemoveProcessEntry, UpdateProcessState,
                UpdateProcessPriority
  <2>2. CASE StartPrune
    <3>1. /\ phase = "merge" /\ phase' = "prune" /\ next' = 1
          /\ m_processList' = m_processList
          /\ Len(list) \in Nat /\ Len(m_processList) \in Nat
          /\ next = Len(list) + 1
      BY <1>1, <2>2, LenProperties DEF StartPrune, IInv, TypeOK, ReadEntriesOnDisplay
    <3>2. QED
      BY <3>1 DEF StepsLeft
  <2>3. CASE FinishUpdate
    <3>1. /\ phase = "prune" /\ phase' = "idle"
          /\ Len(m_processList) \in Nat
          /\ next = Len(m_processList) + 1
      BY <1>1, <2>3, LenProperties DEF FinishUpdate, IInv, TypeOK, ReadEntriesOnDisplay
    <3>2. QED
      BY <3>1 DEF StepsLeft
  <2>4. QED
    BY <1>1, <2>1, <2>2, <2>3, MergeEntryDescends, PruneEntryDescends DEF UpdateLoop
<1>2. IInv /\ [Next]_vars => [phase # "idle" => StepsLeft' < StepsLeft]_vars
  BY <1>1
<1>3. QED
  BY <1>2, Invariance, PTL DEF Spec

-----------------------------------------------------------------------------
(* The view: which process requests are about.                             *)

\* The process named by an open dialog is the current one: when its row leaves the
\* view, named is forgotten in the same step.
NamedIsCurrent ==
  named # None => dialog # None /\ named = current /\ named = m_selectedPID

ViewInv == SelectionIsRemembered /\ NamedIsCurrent

\* Qt's reaction to rows that leave the proxy model.
LEMMA RowsLeaveStep ==
  ASSUME ViewInv, RowsLeave(Visible \ Visible')
  PROVE  /\ SelectionIsRemembered'
         /\ m_selectedPID' # m_selectedPID => current \in Visible \ Visible'
         /\ named # None /\ named \notin Visible \ Visible'
              => current' = current /\ m_selectedPID' = m_selectedPID
<1>1. CASE current \in Visible \ Visible'
  <2>1. CASE \E pid \in Visible' : SelectRow(pid)
    <3>1. PICK pid \in Visible' : current' = pid /\ selected' = pid /\ m_selectedPID' = pid
      BY <2>1 DEF SelectRow
    <3>2. SelectionIsRemembered'
      BY <3>1 DEF SelectionIsRemembered
    <3>3. QED
      BY <1>1, <3>2 DEF ViewInv, NamedIsCurrent
  <2>2. CASE current' = None /\ selected' = None /\ UNCHANGED m_selectedPID
    <3>1. SelectionIsRemembered'
      BY <2>2 DEF SelectionIsRemembered
    <3>2. QED
      BY <1>1, <3>1 DEF ViewInv, NamedIsCurrent
  <2>3. QED
    BY <1>1, <2>1, <2>2 DEF RowsLeave
<1>2. CASE current \notin Visible \ Visible'
  <2>1. UNCHANGED <<m_selectedPID, current, selected>>
    BY <1>2 DEF RowsLeave
  <2>2. SelectionIsRemembered'
    BY <1>2, <2>1 DEF ViewInv, SelectionIsRemembered
  <2>3. QED
    BY <2>1, <2>2
<1>3. QED
  BY <1>1, <1>2

\* Steps that change neither the rows nor the selection.
LEMMA SameSelection ==
  ASSUME ViewInv, UNCHANGED <<m_processMap, m_selectedPID, current, selected, hidden>>
  PROVE  SelectionIsRemembered'
BY DEF ViewInv, SelectionIsRemembered, Visible

LEMMA ViewStep ==
  ASSUME ViewInv, [ViewNext]_<<vars, viewVars>>
  PROVE  ViewInv'
<1>1. CASE ModelStep
  <2>1. /\ RowsLeave(Visible \ Visible')
        /\ named' = IF named \in Visible \ Visible' THEN None ELSE named
        /\ UNCHANGED dialog
    BY <1>1 DEF ModelStep, StillNamed
  <2>2. /\ SelectionIsRemembered'
        /\ named # None /\ named \notin Visible \ Visible'
             => current' = current /\ m_selectedPID' = m_selectedPID
    BY <2>1, RowsLeaveStep
  <2>3. NamedIsCurrent'
    BY <2>1, <2>2 DEF ViewInv, NamedIsCurrent
  <2>4. QED
    BY <2>2, <2>3 DEF ViewInv
<1>2. CASE ModelUpdated
  <2>1. UNCHANGED <<m_processMap, hidden, dialog, named>>
    BY <1>2 DEF ModelUpdated, FinishUpdate
  <2>2. CASE m_selectedPID \in Visible /\ SelectRow(m_selectedPID)
    <3>1. SelectionIsRemembered'
      BY <2>1, <2>2 DEF SelectionIsRemembered, SelectRow, Visible
    <3>2. NamedIsCurrent'
      BY <2>1, <2>2 DEF ViewInv, NamedIsCurrent, SelectRow
    <3>3. QED
      BY <3>1, <3>2 DEF ViewInv
  <2>3. CASE UNCHANGED <<m_selectedPID, current, selected>>
    <3>1. SelectionIsRemembered'
      BY <2>1, <2>3, SameSelection
    <3>2. NamedIsCurrent'
      BY <2>1, <2>3 DEF ViewInv, NamedIsCurrent
    <3>3. QED
      BY <3>1, <3>2 DEF ViewInv
  <2>4. QED
    BY <1>2, <2>2, <2>3 DEF ModelUpdated
<1>3. ASSUME NEW pid \in Pids, Click(pid)
      PROVE  ViewInv'
  <2>1. SelectionIsRemembered'
    BY <1>3 DEF Click, SelectRow, SelectionIsRemembered, Visible, vars
  <2>2. NamedIsCurrent'
    BY <1>3 DEF Click, UserMayAct, ViewInv, NamedIsCurrent
  <2>3. QED
    BY <2>1, <2>2 DEF ViewInv
<1>4. CASE Deselect
  <2>1. SelectionIsRemembered'
    BY <1>4 DEF Deselect, ViewInv, SelectionIsRemembered, Visible, vars
  <2>2. NamedIsCurrent'
    BY <1>4 DEF Deselect, UserMayAct, ViewInv, NamedIsCurrent
  <2>3. QED
    BY <2>1, <2>2 DEF ViewInv
<1>5. CASE FocusIn
  <2>1. SelectionIsRemembered'
    BY <1>5 DEF FocusIn, ViewInv, SelectionIsRemembered, Visible, vars
  <2>2. NamedIsCurrent'
    BY <1>5 DEF FocusIn, UserMayAct, ViewInv, NamedIsCurrent
  <2>3. QED
    BY <2>1, <2>2 DEF ViewInv
<1>6. ASSUME NEW filtered \in SUBSET Pids, Search(filtered)
      PROVE  ViewInv'
  <2>1. SelectionIsRemembered'
    BY <1>6, RowsLeaveStep DEF Search
  <2>2. NamedIsCurrent'
    BY <1>6 DEF Search, UserMayAct, ViewInv, NamedIsCurrent
  <2>3. QED
    BY <2>1, <2>2 DEF ViewInv
<1>7. ASSUME NEW op, NEW state, RequestNow(op, state)
      PROVE  ViewInv'
  <2>1. UNCHANGED <<m_processMap, m_selectedPID, current, selected, hidden, dialog, named>>
    BY <1>7 DEF RequestNow, UpdateProcessState, vars
  <2>2. SelectionIsRemembered'
    BY <2>1, SameSelection
  <2>3. NamedIsCurrent'
    BY <2>1 DEF ViewInv, NamedIsCurrent
  <2>4. QED
    BY <2>2, <2>3 DEF ViewInv
<1>8. ASSUME NEW op \in {"end", "kill"}, OpenDialog(op), op # None
      PROVE  ViewInv'
  <2>1. SelectionIsRemembered'
    BY <1>8, SameSelection DEF OpenDialog, vars
  <2>2. NamedIsCurrent'
    BY <1>8 DEF OpenDialog, ViewInv, SelectionIsRemembered, NamedIsCurrent
  <2>3. QED
    BY <2>1, <2>2 DEF ViewInv
<1>9. CASE CancelDialog
  <2>1. SelectionIsRemembered'
    BY <1>9, SameSelection DEF CancelDialog, vars
  <2>2. NamedIsCurrent'
    BY <1>9 DEF CancelDialog, NamedIsCurrent
  <2>3. QED
    BY <2>1, <2>2 DEF ViewInv
<1>10. CASE ConfirmDialog
  <2>1. SelectionIsRemembered'
    BY <1>10, RowsLeaveStep DEF ConfirmDialog
  <2>2. NamedIsCurrent'
    BY <1>10 DEF ConfirmDialog, NamedIsCurrent
  <2>3. QED
    BY <2>1, <2>2 DEF ViewInv
<1>11. CASE UNCHANGED <<vars, viewVars>>
  <2>1. UNCHANGED <<m_processMap, m_selectedPID, current, selected, hidden, dialog, named>>
    BY <1>11 DEF vars, viewVars
  <2>2. SelectionIsRemembered'
    BY <2>1, SameSelection
  <2>3. NamedIsCurrent'
    BY <2>1 DEF ViewInv, NamedIsCurrent
  <2>4. QED
    BY <2>2, <2>3 DEF ViewInv
<1>12. QED
  BY <1>1, <1>2, <1>3, <1>4, <1>5, <1>6, <1>7, <1>8, <1>9, <1>10, <1>11, NoneAssumption DEF ViewNext

\* The inductive invariant of the view.
THEOREM ViewInvariance == ViewSpec => []ViewInv
<1>1. ViewInit => ViewInv
  BY DEF ViewInit, ViewInv, SelectionIsRemembered, NamedIsCurrent
<1>2. QED
  BY <1>1, ViewStep, PTL DEF ViewSpec

\* The highlighted row is that of the process pauseProcess, endProcess and the others
\* are about, whatever rows updates, searches and requests take out.
THEOREM HighlightIsRemembered == ViewSpec => []SelectionIsRemembered
<1>1. ViewInv => SelectionIsRemembered
  BY DEF ViewInv
<1>2. QED
  BY <1>1, ViewInvariance, PTL

\* m_selectedPID changes by a click or because the current row left the view.
THEOREM UpdatesKeepSelection == ViewSpec => SelectionMovesOnlyWithItsRow
<1> DEFINE Moves == m_selectedPID' # m_selectedPID
                      => \/ current \in Visible \ Visible'
                         \/ \E pid \in Pids : Click(pid)
<1>1. ViewInv /\ [ViewNext]_<<vars, viewVars>> => [Moves]_<<vars, viewVars>>
  <2> SUFFICES ASSUME ViewInv, [ViewNext]_<<vars, viewVars>>, m_selectedPID' # m_selectedPID
               PROVE  \/ current \in Visible \ Visible'
                      \/ \E pid \in Pids : Click(pid)
    OBVIOUS
  <2>1. CASE RowsLeave(Visible \ Visible')
    BY <2>1, RowsLeaveStep
  <2>2. CASE ~RowsLeave(Visible \ Visible')
    BY <2>2 DEF ViewNext, ModelStep, ModelUpdated, SelectRow, Deselect, FocusIn, Search,
                RequestNow, OpenDialog, CancelDialog, ConfirmDialog, viewVars
  <2>3. QED
    BY <2>1, <2>2
<1>2. QED
  BY <1>1, ViewInvariance, PTL DEF ViewSpec, SelectionMovesOnlyWithItsRow

\* Confirming the dialog of endProcess or killProcess signals the process that was
\* selected when it was opened, unless its row has left the view.
THEOREM DialogIsAboutItsProcess == ViewSpec => ConfirmedProcessIsTheNamedOne
<1>1. ViewInv /\ [ViewNext]_<<vars, viewVars>>
        => [ConfirmDialog /\ named # None => sent'.pid = named]_<<vars, viewVars>>
  BY DEF ViewInv, NamedIsCurrent, ConfirmDialog
<1>2. QED
  BY <1>1, ViewInvariance, PTL DEF ViewSpec, ConfirmedProcessIsTheNamedOne
-----------------------------------------------------------------------------
(* The model under the view.  The view reaches the model by its slots only,   *)
(* so what was proved of the model alone holds under the view as well.        *)

LEMMA ViewStepOfModel ==
  ASSUME IInv, [ViewNext]_<<vars, viewVars>>
  PROVE  [Next]_vars
<1>1. DOMAIN m_processMap \subseteq Pids
  BY DEF IInv, TypeOK
<1>2. CASE ModelStep
  BY <1>2 DEF ModelStep, Next, UpdateLoop
<1>3. CASE ModelUpdated
  BY <1>3 DEF ModelUpdated, Next, UpdateLoop
<1>4. ASSUME NEW pid \in Pids, Click(pid)
      PROVE  UNCHANGED vars
  BY <1>4 DEF Click
<1>5. CASE Deselect \/ FocusIn \/ CancelDialog
  BY <1>5 DEF Deselect, FocusIn, CancelDialog
<1>6. ASSUME NEW filtered \in SUBSET Pids, Search(filtered)
      PROVE  UNCHANGED vars
  BY <1>6 DEF Search
<1>7. ASSUME NEW op, NEW state \in States, RequestNow(op, state)
      PROVE  [Next]_vars
  <2>1. CASE UpdateProcessState(m_selectedPID, state)
    <3>1. m_selectedPID \in Pids
      BY <1>1, <2>1 DEF UpdateProcessState
    <3>2. QED
      BY <2>1, <3>1 DEF Next
  <2>2. QED
    BY <1>7, <2>1 DEF RequestNow
<1>8. ASSUME NEW op \in {"end", "kill"}, OpenDialog(op)
      PROVE  UNCHANGED vars
  BY <1>8 DEF OpenDialog
<1>9. CASE ConfirmDialog
  <2>1. CASE RemoveProcessEntry(m_selectedPID)
    <3>1. m_selectedPID \in Pids
      BY <1>1, <2>1 DEF RemoveProcessEntry
    <3>2. QED
      BY <2>1, <3>1 DEF Next
  <2>2. QED
    BY <1>9, <2>1 DEF ConfirmDialog
<1>10. CASE UNCHANGED <<vars, viewVars>>
  BY <1>10
<1>11. QED
  BY <1>2, <1>3, <1>4, <1>5, <1>6, <1>7, <1>8, <1>9, <1>10, StatesAssumption DEF ViewNext

\* The view and its user do to the model only what the model's slots do, dialogs,
\* searches and the selections Qt makes included.
THEOREM ViewUsesModel == ViewSpec => Spec
<1>1. ViewInit => Init /\ IInv
  BY InitIInv DEF ViewInit
<1>2. IInv /\ [ViewNext]_<<vars, viewVars>> => IInv' /\ [Next]_vars
  BY ViewStepOfModel, NextKeepsIInv
<1>3. QED
  BY <1>1, <1>2, PTL DEF ViewSpec, Spec

\* Under the view as well, rows and map agree in every state the view can read.
THEOREM ViewReadsConsistentRows == ViewSpec => []RowIndexConsistent
<1>1. QED
  BY ViewUsesModel, RowIndexStaysConsistent, PTL

\* The view shows a process table: a list replaces it, and a request changes one entry.
THEOREM ViewRefinement == ViewSpec => TableSpec
<1>1. QED
  BY ViewUsesModel, Refinement, PTL
=============================================================================
