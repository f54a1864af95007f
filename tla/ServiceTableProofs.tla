------------------------- MODULE ServiceTableProofs -------------------------
(***************************************************************************)
(* The table of services shows the loaded rows that match the search, one per   *)
(* service, and remembers the selected one, for any services, lists and batches. *)
(* The requests of ServiceControl leave no passing state without a timer, and a   *)
(* list is no older than its refresh, for any units, polls and requests.         *)
(***************************************************************************)
EXTENDS ServiceControl, FiniteSetTheorems, TLAPS

Proxy == [slots : Nat, shown : SUBSET (Nat \ {0})]

\* The loaded rows that match the search.
Matches(list, nr) == {row \in 1..nr : list[row] \in pattern}

\* Between loads the proxy has a slot for every loaded row: search goes through its
\* slots only, and it would miss a loaded row that has none.
ProxyFollows ==
  ~m_loading =>
    /\ m_nr <= Len(m_svcList)
    /\ m_nr <= proxy.slots
    /\ proxy.shown = Matches(m_svcList, m_nr)

\* The selected row is one of the list.  While a list is awaited the proxy may show
\* rows past its end: m_nr is not reset with the list.
SelectedRow ==
  selected # None =>
    /\ selected = m_selectedSName
    /\ \E row \in proxy.shown \cap 1..Len(m_svcList) : m_svcList[row] = selected

IInv == TableTypeOK /\ OneRowPerService /\ ProxyFollows /\ SelectedRow

-----------------------------------------------------------------------------
(* The rows fetched and announced                                          *)

LEMMA MoreEffect ==
  ASSUME NEW list \in Seq(Names), NEW nr \in Nat
  PROVE  /\ More(list, nr) \in Nat
         /\ nr < Len(list) => nr + More(list, nr) <= Len(list)
         /\ nr >= Len(list) => More(list, nr) = 0
<1>1. Len(list) \in Nat /\ Batch \in Nat \ {0}
  BY BatchAssumption
<1>2. QED
  BY <1>1 DEF More

LEMMA RowsInsertedType ==
  ASSUME NEW px \in Proxy, NEW list, NEW nr \in Nat, NEW start \in Nat \ {0}, NEW n \in Nat
  PROVE  RowsInserted(px, list, nr, start, n) \in Proxy
<1>1. px.slots \in Nat /\ px.shown \subseteq Nat \ {0}
  BY DEF Proxy
<1>2. AcceptedRows(list, nr, pattern, 1..nr) \subseteq Nat \ {0}
  BY DEF AcceptedRows
<1>3. AcceptedRows(list, nr, pattern, start..(start + n - 1)) \subseteq Nat \ {0}
  BY DEF AcceptedRows
<1>4. {IF row >= start THEN row + n ELSE row : row \in px.shown} \subseteq Nat \ {0}
  BY <1>1
<1>5. CASE start > px.slots + 1
  BY <1>2, <1>5 DEF RowsInserted, Proxy
<1>6. CASE ~(start > px.slots + 1)
  <2>1. px.slots + n \in Nat
    BY <1>1
  <2>2. QED
    BY <1>3, <1>4, <1>6, <2>1 DEF RowsInserted, Proxy
<1>7. QED
  BY <1>5, <1>6

LEMMA FetchedType ==
  ASSUME NEW px \in Proxy, NEW list \in Seq(Names), NEW nr \in Nat
  PROVE  Fetched(px, list, nr) \in Proxy
<1>1. More(list, nr) \in Nat
  BY MoreEffect
<1>2. PICK more \in Nat : more = More(list, nr)
  BY <1>1
<1>3. RowsInserted(px, list, nr + more, nr + 1, more) \in Proxy
  BY RowsInsertedType
<1>4. QED
  BY <1>2, <1>3 DEF Fetched

\* Rows of the list that are accepted match, and are loaded.
LEMMA AcceptedMatch ==
  ASSUME NEW list \in Seq(Names), NEW nr \in Nat, nr <= Len(list), NEW rows \in SUBSET (Nat \ {0})
  PROVE  AcceptedRows(list, nr, pattern, rows) = {row \in rows \cap 1..nr : list[row] \in pattern}
<1>1. \A row \in rows : row <= nr <=> row \in 1..nr
  OBVIOUS
<1>2. \A row \in 1..nr : Text(list, row) = list[row]
  BY DEF Text
<1>3. QED
  BY <1>1, <1>2 DEF AcceptedRows, FilterAcceptsRow

\* A proxy that shows the matching rows up to nr0 does so up to nr when rows are
\* announced behind them that are not counted yet (updateServiceEntry) or are
\* counted (fetchMore).
LEMMA RowsInsertedMatches ==
  ASSUME NEW px \in Proxy, NEW list \in Seq(Names),
         NEW nr0 \in Nat, NEW nr \in Nat, NEW start \in Nat \ {0}, NEW n \in Nat,
         nr <= Len(list), nr0 <= px.slots, px.shown = Matches(list, nr0),
         (nr = nr0 /\ nr < start) \/ (start = nr0 + 1 /\ nr = nr0 + n)
  PROVE  /\ RowsInserted(px, list, nr, start, n).shown = Matches(list, nr)
         /\ nr <= RowsInserted(px, list, nr, start, n).slots
<1>1. px.slots \in Nat
  BY DEF Proxy
<1>2. CASE start > px.slots + 1
  <2>1. 1..nr \in SUBSET (Nat \ {0})
    OBVIOUS
  <2>2. AcceptedRows(list, nr, pattern, 1..nr) = Matches(list, nr)
    BY <2>1, AcceptedMatch DEF Matches
  <2>3. QED
    BY <1>2, <2>2 DEF RowsInserted
<1>3. CASE ~(start > px.slots + 1)
  <2> DEFINE new == start..(start + n - 1)
  <2>1. new \in SUBSET (Nat \ {0})
    OBVIOUS
  <2>2. AcceptedRows(list, nr, pattern, new) = {row \in new \cap 1..nr : list[row] \in pattern}
    BY <2>1, AcceptedMatch
  <2>3. {IF row >= start THEN row + n ELSE row : row \in px.shown} = px.shown
    <3>1. \A row \in px.shown : row \in Nat /\ ~(row >= start)
      BY DEF Matches
    <3>2. QED
      BY <3>1
  <2>4. 1..nr = 1..nr0 \cup (new \cap 1..nr)
    OBVIOUS
  <2>5. Matches(list, nr) = Matches(list, nr0) \cup {row \in new \cap 1..nr : list[row] \in pattern}
    BY <2>4 DEF Matches
  <2>6. RowsInserted(px, list, nr, start, n) =
          [slots |-> px.slots + n,
           shown |-> px.shown \cup {row \in new \cap 1..nr : list[row] \in pattern}]
    BY <1>3, <2>2, <2>3 DEF RowsInserted
  <2>7. QED
    BY <1>1, <2>5, <2>6
<1>4. QED
  BY <1>2, <1>3

LEMMA FetchedMatches ==
  ASSUME NEW px \in Proxy, NEW list \in Seq(Names), NEW nr \in Nat,
         nr <= Len(list), nr <= px.slots, px.shown = Matches(list, nr)
  PROVE  /\ nr + More(list, nr) <= Len(list)
         /\ Fetched(px, list, nr).shown = Matches(list, nr + More(list, nr))
         /\ nr + More(list, nr) <= Fetched(px, list, nr).slots
<1>1. Len(list) \in Nat
  OBVIOUS
<1>2. PICK more \in Nat : more = More(list, nr) /\ nr + more <= Len(list)
  <2>1. /\ More(list, nr) \in Nat
        /\ nr < Len(list) => nr + More(list, nr) <= Len(list)
        /\ nr >= Len(list) => More(list, nr) = 0
    BY MoreEffect
  <2>2. nr + More(list, nr) <= Len(list)
    BY <1>1, <2>1
  <2>3. QED
    BY <2>1, <2>2
<1>3. CASE more = 0
  BY <1>2, <1>3 DEF Fetched
<1>4. CASE more # 0
  <2>1. /\ RowsInserted(px, list, nr + more, nr + 1, more).shown = Matches(list, nr + more)
        /\ nr + more <= RowsInserted(px, list, nr + more, nr + 1, more).slots
    <3>1. nr + 1 \in Nat \ {0} /\ nr + more \in Nat
      OBVIOUS
    <3>2. QED
      BY <1>2, <3>1, RowsInsertedMatches
  <2>2. QED
    BY <1>2, <1>4, <2>1 DEF Fetched
<1>5. QED
  BY <1>3, <1>4

-----------------------------------------------------------------------------
(* The list and the map                                                    *)

NoNameTwice(list) == \A r, s \in 1..Len(list) : list[r] = list[s] => r = s

\* A list in which no name occurs twice has as many rows as there are names at most.
LEMMA RowsBounded ==
  ASSUME NEW list \in Seq(Names), NoNameTwice(list)
  PROVE  Len(list) \in 0..Cardinality(Names)
<1>1. Len(list) \in Nat /\ list \in [1..Len(list) -> Names]
  OBVIOUS
<1>2. list \in Injection(1..Len(list), Names)
  BY <1>1 DEF NoNameTwice, Injection, IsInjective
<1>3. Cardinality(1..Len(list)) <= Cardinality(Names)
  <2>1. PICK rows : rows = 1..Len(list)
    OBVIOUS
  <2>2. list \in Injection(rows, Names)
    BY <1>2, <2>1
  <2>3. Cardinality(rows) <= Cardinality(Names)
    BY <2>2, NamesAssumption, FS_Injection
  <2>4. QED
    BY <2>1, <2>3
<1>4. Cardinality(1..Len(list)) = Len(list)
  <2>1. PICK n \in Nat : n = Len(list)
    BY <1>1
  <2>2. 1 \in Int /\ n \in Int
    OBVIOUS
  <2>3. Cardinality(1..n) = IF 1 > n THEN 0 ELSE n - 1 + 1
    BY <2>2, FS_Interval, Zenon
  <2>4. QED
    BY <2>1, <2>3
<1>5. Cardinality(Names) \in Nat
  BY NamesAssumption, FS_CardinalityType
<1>6. QED
  BY <1>1, <1>3, <1>4, <1>5

\* What OneRowPerService says, without Range and DOMAIN.
RowsAndEntries(list, map) ==
  /\ NoNameTwice(list)
  /\ \A r \in 1..Len(list) : list[r] \in DOMAIN map
  /\ \A name \in DOMAIN map : \E r \in 1..Len(list) : list[r] = name

LEMMA OneRowIs ==
  ASSUME NEW list \in Seq(Names), NEW map
  PROVE  RowsAndEntries(list, map)
           <=> /\ Range(list) = DOMAIN map
               /\ \A r, s \in DOMAIN list : list[r] = list[s] => r = s
<1>1. DOMAIN list = 1..Len(list)
  OBVIOUS
<1>2. \A name : name \in Range(list) <=> \E r \in 1..Len(list) : list[r] = name
  BY <1>1 DEF Range
<1>3. Range(list) = DOMAIN map
        <=> /\ \A r \in 1..Len(list) : list[r] \in DOMAIN map
            /\ \A name \in DOMAIN map : \E r \in 1..Len(list) : list[r] = name
  <2>1. Range(list) = DOMAIN map <=> \A name : name \in Range(list) <=> name \in DOMAIN map
    OBVIOUS
  <2>2. QED
    BY <1>2, <2>1
<1>4. QED
  BY <1>1, <1>3 DEF RowsAndEntries, NoNameTwice

LEMMA OneRow ==
  /\ m_svcList \in Seq(Names) =>
       (OneRowPerService <=> RowsAndEntries(m_svcList, m_svcMap))
  /\ m_svcList' \in Seq(Names) =>
       (OneRowPerService' <=> RowsAndEntries(m_svcList', m_svcMap'))
BY OneRowIs DEF OneRowPerService

\* The part of the type invariant about the list and the map.
MapTypes(list, map) ==
  /\ list \in Seq(Names)
  /\ DOMAIN map \subseteq Names
  /\ \A name \in DOMAIN map : map[name] \in Values

LEMMA EmptyRows == MapTypes(<< >>, << >>) /\ RowsAndEntries(<< >>, << >>)
BY DEF MapTypes, RowsAndEntries, NoNameTwice

\* updateServiceEntry of a new name keeps one row per service.
LEMMA AppendRows ==
  ASSUME TableTypeOK, OneRowPerService,
         NEW name \in Names, NEW value \in Values, AppendEntry(name, value)
  PROVE  MapTypes(m_svcList', m_svcMap') /\ RowsAndEntries(m_svcList', m_svcMap')
<1>1. /\ name \notin DOMAIN m_svcMap
      /\ m_svcList' = Append(m_svcList, name)
      /\ DOMAIN m_svcMap' = DOMAIN m_svcMap \cup {name}
      /\ \A known \in DOMAIN m_svcMap' :
           m_svcMap'[known] = IF known = name THEN value ELSE m_svcMap[known]
  BY DEF AppendEntry
<1>2. /\ m_svcList \in Seq(Names) /\ Len(m_svcList) \in Nat
      /\ RowsAndEntries(m_svcList, m_svcMap)
  BY OneRow DEF TableTypeOK
<1>3. /\ m_svcList' \in Seq(Names)
      /\ Len(m_svcList') = Len(m_svcList) + 1
      /\ \A r \in 1..Len(m_svcList) : m_svcList'[r] = m_svcList[r]
      /\ m_svcList'[Len(m_svcList) + 1] = name
  BY <1>1, <1>2
<1>4. MapTypes(m_svcList', m_svcMap')
  BY <1>1, <1>3 DEF MapTypes, TableTypeOK
<1>5. \A r \in 1..Len(m_svcList') : r \in 1..Len(m_svcList) \/ r = Len(m_svcList) + 1
  BY <1>2, <1>3
<1>6. NoNameTwice(m_svcList')
  BY <1>1, <1>2, <1>3, <1>5 DEF NoNameTwice, RowsAndEntries
<1>7. \A r \in 1..Len(m_svcList') : m_svcList'[r] \in DOMAIN m_svcMap'
  BY <1>1, <1>2, <1>3, <1>5 DEF RowsAndEntries
<1>8. ASSUME NEW known \in DOMAIN m_svcMap'
      PROVE  \E r \in 1..Len(m_svcList') : m_svcList'[r] = known
  <2>1. CASE known = name
    <3>1. Len(m_svcList) + 1 \in 1..Len(m_svcList')
      BY <1>2, <1>3
    <3>2. QED
      BY <1>3, <2>1, <3>1
  <2>2. CASE known # name
    <3>1. PICK r \in 1..Len(m_svcList) : m_svcList[r] = known
      BY <1>1, <1>2, <2>2 DEF RowsAndEntries
    <3>2. r \in 1..Len(m_svcList') /\ m_svcList'[r] = known
      BY <1>2, <1>3, <3>1
    <3>3. QED
      BY <3>2
  <2>3. QED
    BY <2>1, <2>2
<1>9. QED
  BY <1>4, <1>6, <1>7, <1>8 DEF RowsAndEntries

\* A list of the worker has one row per service.
LEMMA ListRows ==
  ASSUME NEW list \in Lists, UpdateServiceList(list)
  PROVE  MapTypes(m_svcList', m_svcMap') /\ RowsAndEntries(m_svcList', m_svcMap')
<1>1. PICK n \in Nat : list \in [1..n -> [name : Names, value : Values]]
  <2>1. \E n \in 0..Cardinality(Names) : list \in [1..n -> [name : Names, value : Values]]
    BY DEF Lists, BoundedSeq, SeqOf
  <2>2. Cardinality(Names) \in Nat
    BY NamesAssumption, FS_CardinalityType
  <2>3. QED
    BY <2>1, <2>2
<1>2. \A r, s \in 1..n : list[r].name = list[s].name => r = s
  BY <1>1 DEF Lists
<1>3. \A r \in 1..n : list[r].name \in Names /\ list[r].value \in Values
  BY <1>1
<1>4. m_svcList' = [row \in 1..n |-> list[row].name]
  BY <1>1 DEF UpdateServiceList
<1>5. /\ m_svcList' \in Seq(Names) /\ Len(m_svcList') = n
      /\ \A r \in 1..n : m_svcList'[r] = list[r].name
  BY <1>3, <1>4
<1>6. /\ DOMAIN m_svcMap' = {list[row].name : row \in 1..n}
      /\ \A name \in DOMAIN m_svcMap' :
           m_svcMap'[name] = list[CHOOSE r \in 1..n : list[r].name = name].value
  BY <1>1 DEF UpdateServiceList
<1>7. \A name \in DOMAIN m_svcMap' : \E r \in 1..n : list[r].name = name
  BY <1>6
<1>8. ASSUME NEW name \in DOMAIN m_svcMap'
      PROVE  name \in Names /\ m_svcMap'[name] \in Values
  <2>1. (CHOOSE r \in 1..n : list[r].name = name) \in 1..n
    BY <1>7
  <2>2. QED
    BY <1>3, <1>6, <1>7, <2>1
<1>9. MapTypes(m_svcList', m_svcMap')
  BY <1>5, <1>8 DEF MapTypes
<1>10. RowsAndEntries(m_svcList', m_svcMap')
  BY <1>2, <1>5, <1>6, <1>7 DEF RowsAndEntries, NoNameTwice
<1>11. QED
  BY <1>9, <1>10

-----------------------------------------------------------------------------
(* Every operation keeps the invariant                                     *)

\* The rest of the type invariant.
ViewTypes ==
  /\ m_nr \in 0..Cardinality(Names)
  /\ proxy \in Proxy
  /\ pattern \in Patterns
  /\ selected \in Names \cup {None}
  /\ m_selectedSName \in Names \cup {None}
  /\ defer_initialized \in BOOLEAN
  /\ m_loading \in BOOLEAN
  /\ jobs \in Nat

LEMMA TypesAre == TableTypeOK <=> MapTypes(m_svcList, m_svcMap) /\ ViewTypes
BY DEF TableTypeOK, MapTypes, ViewTypes, Proxy

LEMMA Opened ==
  ASSUME IInv
  PROVE  /\ MapTypes(m_svcList, m_svcMap) /\ RowsAndEntries(m_svcList, m_svcMap)
         /\ ViewTypes
         /\ m_svcList \in Seq(Names) /\ Len(m_svcList) \in 0..Cardinality(Names)
         /\ Cardinality(Names) \in Nat /\ m_nr \in Nat
<1>1. MapTypes(m_svcList, m_svcMap) /\ RowsAndEntries(m_svcList, m_svcMap) /\ ViewTypes
  BY TypesAre, OneRow DEF IInv, TableTypeOK
<1>2. Len(m_svcList) \in 0..Cardinality(Names)
  BY <1>1, RowsBounded DEF MapTypes, RowsAndEntries
<1>3. Cardinality(Names) \in Nat
  BY NamesAssumption, FS_CardinalityType
<1>4. QED
  BY <1>1, <1>2, <1>3 DEF MapTypes, ViewTypes

LEMMA Closed ==
  ASSUME MapTypes(m_svcList', m_svcMap'), RowsAndEntries(m_svcList', m_svcMap'),
         ViewTypes', ProxyFollows', SelectedRow'
  PROVE  IInv'
<1>1. TableTypeOK'
  BY DEF TableTypeOK, MapTypes, ViewTypes, Proxy
<1>2. OneRowPerService'
  BY OneRow DEF MapTypes
<1>3. QED
  BY <1>1, <1>2 DEF IInv

LEMMA ReplaceStep ==
  ASSUME IInv, NEW name \in Names, NEW value \in Values,
         ReplaceEntry(name, value), UNCHANGED <<pattern, loadVars>>
  PROVE  IInv'
<1>1. UNCHANGED <<m_svcList, m_nr, proxy, selected, m_selectedSName, pattern,
                  defer_initialized, m_loading, jobs>>
  BY DEF ReplaceEntry, loadVars
<1>2. /\ DOMAIN m_svcMap' = DOMAIN m_svcMap
      /\ \A known \in DOMAIN m_svcMap :
           m_svcMap'[known] = m_svcMap[known] \/ m_svcMap'[known] = value
  BY DEF ReplaceEntry
<1>3. MapTypes(m_svcList', m_svcMap') /\ RowsAndEntries(m_svcList', m_svcMap')
  BY <1>1, <1>2, Opened DEF MapTypes, RowsAndEntries
<1>4. ViewTypes'
  BY <1>1, Opened DEF ViewTypes
<1>5. ProxyFollows' /\ SelectedRow'
  BY <1>1 DEF IInv, ProxyFollows, SelectedRow, Matches
<1>6. QED
  BY <1>3, <1>4, <1>5, Closed

\* The row that is announced twice is shown once.
LEMMA AppendStep ==
  ASSUME IInv, NEW name \in Names, NEW value \in Values,
         AppendEntry(name, value), UNCHANGED <<pattern, loadVars>>
  PROVE  IInv'
<1>1. /\ MapTypes(m_svcList', m_svcMap') /\ RowsAndEntries(m_svcList', m_svcMap')
      /\ m_svcList' \in Seq(Names)
  BY AppendRows DEF IInv, MapTypes
<1>2. /\ m_svcList \in Seq(Names) /\ Len(m_svcList) \in Nat /\ m_nr \in Nat
      /\ Cardinality(Names) \in Nat
  BY Opened
<1>3. /\ m_svcList' = Append(m_svcList, name)
      /\ Len(m_svcList') = Len(m_svcList) + 1
      /\ \A r \in 1..Len(m_svcList) : m_svcList'[r] = m_svcList[r]
      /\ m_svcList'[Len(m_svcList) + 1] = name
  BY <1>2 DEF AppendEntry
<1>4. PICK row, px :
        /\ row \in Nat \ {0} /\ row = Len(m_svcList')
        /\ px = RowsInserted(proxy, m_svcList', m_nr, row, 1)
        /\ CurrentRowChanged(px, m_svcList', row)
  BY <1>2, <1>3 DEF AppendEntry
<1>5. UNCHANGED <<pattern, defer_initialized, m_loading, jobs>>
  BY DEF loadVars
<1>6. px \in Proxy
  <2>1. proxy \in Proxy
    BY Opened DEF ViewTypes
  <2>2. QED
    BY <1>2, <1>4, <2>1, RowsInsertedType
<1>7. /\ m_nr' = m_nr + More(m_svcList', m_nr)
      /\ proxy' = Fetched(px, m_svcList', m_nr)
      /\ proxy' \in Proxy
  BY <1>1, <1>2, <1>4, <1>6, FetchedType DEF CurrentRowChanged
<1>8. m_nr' \in 0..Cardinality(Names)
  <2>1. Len(m_svcList') \in 0..Cardinality(Names)
    BY <1>1, RowsBounded DEF RowsAndEntries
  <2>2. m_nr \in 0..Cardinality(Names)
    BY Opened DEF ViewTypes
  <2>3. CASE m_nr < Len(m_svcList')
    <3>1. PICK more \in Nat : more = More(m_svcList', m_nr) /\ m_nr + more <= Len(m_svcList')
      BY <1>1, <1>2, <2>3, MoreEffect
    <3>2. QED
      BY <1>2, <1>7, <2>1, <3>1
  <2>4. CASE ~(m_nr < Len(m_svcList'))
    <3>1. More(m_svcList', m_nr) = 0
      BY <1>1, <1>2, <2>1, <2>4, MoreEffect
    <3>2. QED
      BY <1>2, <1>7, <2>2, <3>1
  <2>5. QED
    BY <2>3, <2>4
<1>9. /\ selected' \in Names \cup {None}
      /\ m_selectedSName' \in Names \cup {None}
      /\ SelectedRow'
  <2>1. m_selectedSName \in Names \cup {None}
    BY Opened DEF ViewTypes
  <2>2. m_svcList'[row] = name /\ row \in 1..Len(m_svcList')
    BY <1>2, <1>3, <1>4
  <2>3. CASE /\ row \in proxy'.shown
             /\ selected' = m_svcList'[row]
             /\ m_selectedSName' = m_svcList'[row]
    BY <2>2, <2>3 DEF SelectedRow
  <2>4. CASE selected' = None /\ UNCHANGED m_selectedSName
    BY <2>1, <2>4 DEF SelectedRow
  <2>5. QED
    BY <1>4, <2>3, <2>4 DEF CurrentRowChanged
<1>10. ViewTypes'
  BY <1>5, <1>7, <1>8, <1>9, Opened DEF ViewTypes
<1>11. ProxyFollows'
  <2> SUFFICES ASSUME ~m_loading
               PROVE  /\ m_nr' <= Len(m_svcList')
                      /\ m_nr' <= proxy'.slots
                      /\ proxy'.shown = Matches(m_svcList', m_nr')
    BY <1>5 DEF ProxyFollows, Matches
  <2>1. /\ m_nr <= Len(m_svcList)
        /\ m_nr <= proxy.slots
        /\ proxy.shown = Matches(m_svcList, m_nr)
    BY DEF IInv, ProxyFollows
  <2>2. Matches(m_svcList', m_nr) = Matches(m_svcList, m_nr)
    BY <1>2, <1>3, <2>1 DEF Matches
  <2>3. m_nr < row /\ m_nr <= Len(m_svcList')
    BY <1>2, <1>3, <1>4, <2>1
  <2>4. proxy \in Proxy /\ 1 \in Nat
    BY Opened DEF ViewTypes
  <2>5. px.shown = Matches(m_svcList', m_nr) /\ m_nr <= px.slots
    BY <1>1, <1>2, <1>4, <2>1, <2>2, <2>3, <2>4, RowsInsertedMatches
  <2>6. QED
    BY <1>1, <1>2, <1>6, <1>7, <2>3, <2>5, FetchedMatches
<1>12. QED
  BY <1>1, <1>9, <1>10, <1>11, Closed

LEMMA ListStep ==
  ASSUME IInv, NEW list \in Lists, UpdateServiceList(list)
  PROVE  IInv'
<1>1. /\ jobs > 0 /\ jobs' = jobs - 1
      /\ m_nr' = 0 /\ proxy' = [slots |-> 0, shown |-> {}]
      /\ selected' = None /\ m_loading' = FALSE
      /\ UNCHANGED <<pattern, m_selectedSName, defer_initialized>>
  BY DEF UpdateServiceList
<1>2. MapTypes(m_svcList', m_svcMap') /\ RowsAndEntries(m_svcList', m_svcMap')
  BY ListRows
<1>3. ViewTypes'
  <2>1. ViewTypes /\ Cardinality(Names) \in Nat
    BY Opened
  <2>2. jobs' \in Nat
    BY <1>1, <2>1 DEF ViewTypes
  <2>3. m_nr' \in 0..Cardinality(Names) /\ proxy' \in Proxy
    BY <1>1, <2>1 DEF Proxy
  <2>4. QED
    BY <1>1, <2>1, <2>2, <2>3 DEF ViewTypes
<1>4. ProxyFollows'
  <2>1. m_svcList' \in Seq(Names) /\ 0 <= Len(m_svcList')
    BY <1>2 DEF MapTypes
  <2>2. Matches(m_svcList, m_nr)' = {}
    BY <1>1 DEF Matches
  <2>3. QED
    BY <1>1, <2>1, <2>2 DEF ProxyFollows
<1>5. SelectedRow'
  BY <1>1 DEF SelectedRow
<1>6. QED
  BY <1>2, <1>3, <1>4, <1>5, Closed

\* refresh() leaves no row on display: those of the proxy are all in the list.
LEMMA RefreshStep == IInv /\ Refresh => IInv'
<1> SUFFICES ASSUME IInv, Refresh
             PROVE  IInv'
  OBVIOUS
<1>1. /\ ~m_loading /\ m_svcList' = << >> /\ m_svcMap' = << >> /\ m_nr' = m_nr
      /\ m_loading' = TRUE /\ jobs' = jobs + 1
      /\ UNCHANGED <<pattern, defer_initialized, m_selectedSName>>
  BY DEF Refresh, MayRefresh, ResetRows, BeginUpdateList, KeepSelection
<1>2. PICK cut \in Nat : cut = Len(m_svcList)
  BY Opened
<1>3. \A row \in proxy.shown : ~(row > cut)
  BY <1>1, <1>2, Opened DEF IInv, ProxyFollows, Matches
<1>4. proxy' = [slots |-> IF proxy.slots > cut THEN proxy.slots - cut ELSE 0, shown |-> {}]
  <2>1. {row - cut : row \in {r \in proxy.shown : r > cut}} = {}
    BY <1>3
  <2>2. QED
    BY <1>2, <2>1 DEF Refresh
<1>5. selected' = None
  <2>1. proxy'.shown = {}
    BY <1>4
  <2>2. KeepSelection
    BY DEF Refresh
  <2>3. QED
    BY <2>1, <2>2 DEF KeepSelection
<1>6. proxy' \in Proxy
  <2>1. proxy.slots \in Nat
    BY Opened DEF ViewTypes, Proxy
  <2>2. QED
    BY <1>4, <2>1 DEF Proxy
<1>7. ViewTypes'
  BY <1>1, <1>5, <1>6, Opened DEF ViewTypes
<1>8. MapTypes(m_svcList', m_svcMap') /\ RowsAndEntries(m_svcList', m_svcMap')
  BY <1>1, EmptyRows
<1>9. ProxyFollows' /\ SelectedRow'
  BY <1>1, <1>5 DEF ProxyFollows, SelectedRow
<1>10. QED
  BY <1>7, <1>8, <1>9, Closed

LEMMA FetchMoreStep == IInv /\ FetchMore => IInv'
<1> SUFFICES ASSUME IInv, FetchMore
             PROVE  IInv'
  OBVIOUS
<1>1. /\ ~m_loading
      /\ m_nr' = m_nr + More(m_svcList, m_nr)
      /\ proxy' = Fetched(proxy, m_svcList, m_nr)
      /\ UNCHANGED <<m_svcList, m_svcMap, pattern, selected, m_selectedSName,
                     defer_initialized, m_loading, jobs>>
  BY DEF FetchMore, loadVars
<1>2. /\ m_svcList \in Seq(Names) /\ Len(m_svcList) \in 0..Cardinality(Names) /\ m_nr \in Nat
      /\ Cardinality(Names) \in Nat /\ proxy \in Proxy
  BY Opened DEF ViewTypes
<1>3. /\ m_nr <= Len(m_svcList) /\ m_nr <= proxy.slots
      /\ proxy.shown = Matches(m_svcList, m_nr)
  BY <1>1 DEF IInv, ProxyFollows
<1>4. /\ m_nr' <= Len(m_svcList)
      /\ proxy'.shown = Matches(m_svcList, m_nr')
      /\ m_nr' <= proxy'.slots
  BY <1>1, <1>2, <1>3, FetchedMatches
<1>5. m_nr <= m_nr' /\ m_nr' \in 0..Cardinality(Names)
  <2>1. PICK more \in Nat : more = More(m_svcList, m_nr)
    BY <1>2, MoreEffect
  <2>2. QED
    BY <1>1, <1>2, <1>4, <2>1
<1>6. ViewTypes'
  <2>1. proxy' \in Proxy
    BY <1>1, <1>2, FetchedType
  <2>2. QED
    BY <1>1, <1>5, <2>1, Opened DEF ViewTypes
<1>7. ProxyFollows'
  BY <1>1, <1>4 DEF ProxyFollows, Matches
<1>8. proxy.shown \subseteq proxy'.shown
  BY <1>2, <1>3, <1>4, <1>5 DEF Matches
<1>9. SelectedRow'
  BY <1>1, <1>8 DEF IInv, SelectedRow
<1>10. MapTypes(m_svcList', m_svcMap') /\ RowsAndEntries(m_svcList', m_svcMap')
  BY <1>1, Opened
<1>11. QED
  BY <1>6, <1>7, <1>9, <1>10, Closed

\* search() goes through the slots, which hold all loaded rows.
LEMMA SearchStep ==
  ASSUME IInv, NEW pat \in Patterns, Search(pat)
  PROVE  IInv'
<1>1. /\ ~m_loading /\ pattern' = pat
      /\ proxy' = [proxy EXCEPT !.shown = AcceptedRows(m_svcList, m_nr, pat, 1..proxy.slots)]
      /\ KeepSelection
      /\ UNCHANGED <<m_svcList, m_svcMap, m_nr, m_selectedSName, defer_initialized, m_loading,
                     jobs>>
  BY DEF Search, modelVars, loadVars, KeepSelection
<1>2. /\ m_svcList \in Seq(Names) /\ Len(m_svcList) \in Nat /\ m_nr \in Nat
      /\ proxy \in Proxy /\ proxy.slots \in Nat
  BY Opened DEF ViewTypes, Proxy
<1>3. m_nr <= Len(m_svcList) /\ m_nr <= proxy.slots
  BY <1>1 DEF IInv, ProxyFollows
<1>4. proxy' = [slots |-> proxy.slots,
                shown |-> AcceptedRows(m_svcList, m_nr, pat, 1..proxy.slots)]
  BY <1>1, <1>2 DEF Proxy
<1>5. proxy'.shown = {row \in 1..m_nr : m_svcList[row] \in pat}
  <2>1. \A row \in 1..m_nr : Text(m_svcList, row) = m_svcList[row]
    BY <1>2, <1>3 DEF Text
  <2>2. \A row \in 1..proxy.slots : row <= m_nr <=> row \in 1..m_nr
    BY <1>2
  <2>3. 1..m_nr \subseteq 1..proxy.slots
    BY <1>2, <1>3
  <2>4. QED
    BY <1>4, <2>1, <2>2, <2>3 DEF AcceptedRows, FilterAcceptsRow
<1>6. ProxyFollows'
  BY <1>1, <1>3, <1>4, <1>5 DEF ProxyFollows, Matches
<1>7. \/ selected' = None
      \/ selected' = selected /\ \E row \in proxy'.shown : Text(m_svcList, row) = selected
  BY <1>1 DEF KeepSelection
<1>8. ViewTypes'
  <2>1. proxy' \in Proxy
    BY <1>2, <1>4, <1>5 DEF Proxy
  <2>2. QED
    BY <1>1, <1>7, <2>1, Opened DEF ViewTypes
<1>9. SelectedRow'
  <2> SUFFICES ASSUME selected' # None
               PROVE  /\ selected' = m_selectedSName'
                      /\ \E row \in proxy'.shown \cap 1..Len(m_svcList') :
                           m_svcList'[row] = selected'
    BY DEF SelectedRow
  <2>1. selected' = selected /\ selected = m_selectedSName
    BY <1>7 DEF IInv, SelectedRow
  <2>2. PICK row \in proxy'.shown : Text(m_svcList, row) = selected
    BY <1>7
  <2>3. row \in 1..Len(m_svcList) /\ m_svcList[row] = selected
    BY <1>2, <1>3, <1>5, <2>2 DEF Text
  <2>4. QED
    BY <1>1, <2>1, <2>2, <2>3
<1>10. MapTypes(m_svcList', m_svcMap') /\ RowsAndEntries(m_svcList', m_svcMap')
  BY <1>1, Opened
<1>11. QED
  BY <1>6, <1>8, <1>9, <1>10, Closed

LEMMA ClickStep ==
  ASSUME IInv, NEW row \in proxy.shown, Click(row)
  PROVE  IInv'
<1>1. /\ ~m_loading
      /\ selected' = Text(m_svcList, row) /\ m_selectedSName' = Text(m_svcList, row)
      /\ UNCHANGED <<m_svcList, m_svcMap, m_nr, proxy, pattern, defer_initialized, m_loading,
                     jobs>>
  BY DEF Click, modelVars, loadVars
<1>2. row \in 1..Len(m_svcList)
  BY <1>1, Opened DEF IInv, ProxyFollows, Matches
<1>3. Text(m_svcList, row) = m_svcList[row] /\ m_svcList[row] \in Names
  BY <1>2, Opened DEF Text
<1>4. ViewTypes'
  BY <1>1, <1>3, Opened DEF ViewTypes
<1>5. ProxyFollows'
  BY <1>1 DEF IInv, ProxyFollows, Matches
<1>6. SelectedRow'
  BY <1>1, <1>2, <1>3 DEF SelectedRow
<1>7. MapTypes(m_svcList', m_svcMap') /\ RowsAndEntries(m_svcList', m_svcMap')
  BY <1>1, Opened
<1>8. QED
  BY <1>4, <1>5, <1>6, <1>7, Closed

\* The tab is opened, a row deselected, or nothing of the table changes.
LEMMA QuietStep ==
  ASSUME IInv, OpenServiceTab \/ Deselect \/ UNCHANGED tableVars
  PROVE  IInv'
<1>1. /\ UNCHANGED <<m_svcList, m_svcMap, m_nr, proxy, pattern, m_selectedSName>>
      /\ selected' = selected \/ selected' = None
      /\ m_loading' = m_loading \/ m_loading' = TRUE
      /\ defer_initialized' = defer_initialized \/ defer_initialized' = TRUE
      /\ jobs' = jobs \/ jobs' = jobs + 1
  BY DEF OpenServiceTab, BeginUpdateList, Deselect, tableVars, modelVars, loadVars
<1>2. ViewTypes'
  <2>1. ViewTypes
    BY Opened
  <2>2. jobs' \in Nat /\ selected' \in Names \cup {None}
    BY <1>1, <2>1 DEF ViewTypes
  <2>3. m_loading' \in BOOLEAN /\ defer_initialized' \in BOOLEAN
    BY <1>1, <2>1 DEF ViewTypes
  <2>4. QED
    BY <1>1, <2>1, <2>2, <2>3 DEF ViewTypes
<1>3. ProxyFollows'
  BY <1>1, Opened DEF IInv, ProxyFollows, Matches, ViewTypes
<1>4. SelectedRow'
  BY <1>1 DEF IInv, SelectedRow
<1>5. MapTypes(m_svcList', m_svcMap') /\ RowsAndEntries(m_svcList', m_svcMap')
  BY <1>1, Opened
<1>6. QED
  BY <1>2, <1>3, <1>4, <1>5, Closed

-----------------------------------------------------------------------------

LEMMA InitHolds == TableInit => IInv
<1> SUFFICES ASSUME TableInit
             PROVE  IInv
  OBVIOUS
<1>1. Cardinality(Names) \in Nat
  BY NamesAssumption, FS_CardinalityType
<1>2. ViewTypes
  <2>1. EmptyPattern \in Patterns
    BY DEF Patterns
  <2>2. [slots |-> 0, shown |-> {}] \in Proxy
    BY DEF Proxy
  <2>3. m_nr \in 0..Cardinality(Names) /\ jobs \in Nat
    BY <1>1 DEF TableInit
  <2>4. defer_initialized \in BOOLEAN /\ m_loading \in BOOLEAN
    BY DEF TableInit
  <2>5. QED
    BY <2>1, <2>2, <2>3, <2>4 DEF TableInit, ViewTypes
<1>3. TableTypeOK
  BY <1>2, TypesAre, EmptyRows DEF TableInit
<1>4. OneRowPerService
  BY <1>3, OneRow, EmptyRows DEF TableInit, TableTypeOK
<1>5. ProxyFollows
  BY DEF TableInit, ProxyFollows, Matches
<1>6. SelectedRow
  BY DEF TableInit, SelectedRow
<1>7. QED
  BY <1>3, <1>4, <1>5, <1>6 DEF IInv

LEMMA NextStep == IInv /\ [TableNext]_tableVars => IInv'
<1> SUFFICES ASSUME IInv, [TableNext]_tableVars
             PROVE  IInv'
  OBVIOUS
<1>1. CASE UseTable
  BY <1>1, RefreshStep, FetchMoreStep, SearchStep, ClickStep, QuietStep DEF UseTable
<1>2. CASE ListArrives
  BY <1>2, ListStep DEF ListArrives
<1>3. CASE \E name \in Names, value \in Values : UpdateServiceEntry(name, value)
  BY <1>3, ReplaceStep, AppendStep DEF UpdateServiceEntry
<1>4. CASE UNCHANGED tableVars
  BY <1>4, QuietStep
<1>5. QED
  BY <1>1, <1>2, <1>3, <1>4 DEF TableNext

\* The inductive invariant holds in every reachable state.
THEOREM Invariance == TableSpec => []IInv
<1>1. QED
  BY InitHolds, NextStep, PTL DEF TableSpec

\* The table's state has its types; the loaded rows are no more than there are names.
THEOREM TypeCorrectness == TableSpec => []TableTypeOK
<1>1. IInv => TableTypeOK
  BY DEF IInv
<1>2. QED
  BY <1>1, Invariance, PTL

\* Each service with an entry has one row, and each row an entry.
THEOREM ServicesHaveOneRow == TableSpec => []OneRowPerService
<1>1. IInv => OneRowPerService
  BY DEF IInv
<1>2. QED
  BY <1>1, Invariance, PTL

\* Between loads exactly the loaded rows that match the search are on display.
THEOREM LoadedMatchesAreShown == TableSpec => []ShowsLoadedMatches
<1>1. IInv => ShowsLoadedMatches
  BY DEF IInv, ProxyFollows, ShowsLoadedMatches, Matches
<1>2. QED
  BY <1>1, Invariance, PTL

\* The service that is highlighted is the one the view remembers.
THEOREM HighlightIsRemembered == TableSpec => []SelectionIsRemembered
<1>1. IInv => SelectionIsRemembered
  BY DEF IInv, SelectedRow, SelectionIsRemembered
<1>2. QED
  BY <1>1, Invariance, PTL

-----------------------------------------------------------------------------
(* ServiceControl: requests, polls and lists.                              *)

UnitState == [state : ActiveStates, ver : Nat]

Timer == [path : Units \cup {JobPath}, cnt : Nat, on : BOOLEAN]

\* What systemd and the calls of the GUI thread are.
Kinds ==
  /\ unit \in [Units -> UnitState]
  /\ polls \in Seq(Timer)
  /\ call # None => call.unit \in Units /\ call.path \in {None, call.unit, JobPath}

\* updateServiceEntry looks for the row of an entry to replace: there is one.
EntriesHaveRows ==
  /\ \E S : m_svcList \in Seq(S)
  /\ \A name \in DOMAIN m_svcMap : \E row \in DOMAIN m_svcList : m_svcList[row] = name

\* A list is asked for only when none is awaited.
OneListAtATime ==
  /\ m_loading \in BOOLEAN
  /\ jobs = IF m_loading THEN 1 ELSE 0
  /\ result # None => m_loading

\* Units change after the list was asked for, and it was read after that.
ResultIsFresh ==
  /\ asked \in [Units -> Nat]
  /\ \A u \in Units : asked[u] <= unit[u].ver
  /\ result # None =>
       /\ \E n \in Nat : DOMAIN result = 1..n
       /\ \A i \in DOMAIN result :
            /\ result[i].value.by = "list"
            /\ result[i].name \in Units => result[i].value.ver >= asked[result[i].name]

ControlInv ==
  Kinds /\ EntriesHaveRows /\ OneListAtATime /\ ResultIsFresh /\ PassingStateIsPolled

\* What an entry that updateServiceEntry is given does to the map.
LEMMA EntryUpdated ==
  ASSUME EntriesHaveRows, NEW name, NEW value, UpdateServiceEntry(name, value)
  PROVE  /\ EntriesHaveRows'
         /\ DOMAIN m_svcMap' = DOMAIN m_svcMap \cup {name}
         /\ m_svcMap'[name] = value
         /\ \A other \in DOMAIN m_svcMap \ {name} : m_svcMap'[other] = m_svcMap[other]
         /\ UNCHANGED <<m_loading, jobs>>
<1>1. UNCHANGED <<m_loading, jobs>>
  BY DEF UpdateServiceEntry, loadVars
<1>2. PICK S : m_svcList \in Seq(S)
  BY DEF EntriesHaveRows
<1>3. \A other \in DOMAIN m_svcMap : \E row \in DOMAIN m_svcList : m_svcList[row] = other
  BY DEF EntriesHaveRows
<1>4. CASE ReplaceEntry(name, value)
  <2>1. /\ name \in DOMAIN m_svcMap
        /\ m_svcMap' = [m_svcMap EXCEPT ![name] = value]
        /\ UNCHANGED m_svcList
    BY <1>3, <1>4 DEF ReplaceEntry
  <2>2. EntriesHaveRows'
    BY <1>2, <1>3, <2>1 DEF EntriesHaveRows
  <2>3. QED
    BY <1>1, <2>1, <2>2
<1>5. CASE AppendEntry(name, value)
  <2>1. /\ name \notin DOMAIN m_svcMap
        /\ m_svcList' = Append(m_svcList, name)
        /\ m_svcMap' = [known \in DOMAIN m_svcMap \cup {name} |->
                          IF known = name THEN value ELSE m_svcMap[known]]
    BY <1>5 DEF AppendEntry
  <2>2. /\ m_svcList' \in Seq(S \cup {name})
        /\ Len(m_svcList') = Len(m_svcList) + 1
        /\ m_svcList'[Len(m_svcList) + 1] = name
        /\ \A row \in 1..Len(m_svcList) : m_svcList'[row] = m_svcList[row]
    <3>1. m_svcList \in Seq(S \cup {name}) /\ name \in S \cup {name}
      BY <1>2
    <3>2. QED
      BY <2>1, <3>1
  <2>3. /\ Len(m_svcList) \in Nat
        /\ DOMAIN m_svcList = 1..Len(m_svcList)
        /\ DOMAIN m_svcList' = 1..Len(m_svcList) + 1
    BY <1>2, <2>2
  <2>4. \A other \in DOMAIN m_svcMap' : \E row \in DOMAIN m_svcList' : m_svcList'[row] = other
    <3> SUFFICES ASSUME NEW other \in DOMAIN m_svcMap'
                 PROVE  \E row \in DOMAIN m_svcList' : m_svcList'[row] = other
      OBVIOUS
    <3>1. CASE other = name
      BY <2>2, <2>3, <3>1
    <3>2. CASE other # name
      <4>1. PICK row \in 1..Len(m_svcList) : m_svcList[row] = other
        BY <1>3, <2>1, <2>3, <3>2
      <4>2. QED
        BY <2>2, <2>3, <4>1
    <3>3. QED
      BY <3>1, <3>2
  <2>5. EntriesHaveRows'
    BY <2>2, <2>4 DEF EntriesHaveRows
  <2>6. QED
    BY <1>1, <2>1, <2>5
<1>6. QED
  BY <1>4, <1>5 DEF UpdateServiceEntry

\* Steps that leave table and units alone; a timer or a unit given up stays.
LEMMA SameTable ==
  ASSUME ControlInv, Kinds',
         UNCHANGED <<m_svcList, m_svcMap, m_loading, jobs, unit, polls, gaveUp, asked, result>>
  PROVE  ControlInv'
<1>1. EntriesHaveRows' /\ OneListAtATime'
  BY DEF ControlInv, EntriesHaveRows, OneListAtATime
<1>2. ResultIsFresh'
  BY DEF ControlInv, ResultIsFresh
<1>3. PassingStateIsPolled'
  BY DEF ControlInv, PassingStateIsPolled
<1>4. QED
  BY <1>1, <1>2, <1>3 DEF ControlInv

\* An entry of one service is shown: if in passing, there is a timer for it or it was
\* given up, and the others lose neither.
LEMMA EntryShown ==
  ASSUME ControlInv, Kinds', NEW name, NEW value,
         UpdateServiceEntry(name, value),
         UNCHANGED <<unit, asked, result>>,
         \/ value.by \notin {"request", "poll"}
         \/ value.state \in {"active", "inactive", "failed"}
         \/ \E i \in DOMAIN polls' : polls'[i].on /\ polls'[i].path = name
         \/ name \in gaveUp',
         \A i \in DOMAIN polls : polls[i].path # name =>
           i \in DOMAIN polls' /\ polls'[i].path = polls[i].path /\ polls'[i].on = polls[i].on,
         gaveUp \ {name} \subseteq gaveUp'
  PROVE  ControlInv'
<1>1. /\ EntriesHaveRows'
      /\ DOMAIN m_svcMap' = DOMAIN m_svcMap \cup {name}
      /\ m_svcMap'[name] = value
      /\ \A other \in DOMAIN m_svcMap \ {name} : m_svcMap'[other] = m_svcMap[other]
      /\ UNCHANGED <<m_loading, jobs>>
  BY EntryUpdated DEF ControlInv
<1>2. OneListAtATime' /\ ResultIsFresh'
  BY <1>1 DEF ControlInv, OneListAtATime, ResultIsFresh
<1>3. PassingStateIsPolled'
  <2> SUFFICES ASSUME NEW u \in Units \cap DOMAIN m_svcMap',
                      m_svcMap'[u].by \in {"request", "poll"},
                      m_svcMap'[u].state \notin {"active", "inactive", "failed"}
               PROVE  \/ \E i \in DOMAIN polls' : polls'[i].on /\ polls'[i].path = u
                      \/ u \in gaveUp'
    BY DEF PassingStateIsPolled
  <2>1. CASE u = name
    BY <1>1, <2>1
  <2>2. CASE u # name
    <3>1. u \in DOMAIN m_svcMap /\ m_svcMap'[u] = m_svcMap[u]
      BY <1>1, <2>2
    <3>2. \/ \E i \in DOMAIN polls : polls[i].on /\ polls[i].path = u
          \/ u \in gaveUp
      BY <3>1 DEF ControlInv, PassingStateIsPolled
    <3>3. QED
      BY <2>2, <3>2
  <2>3. QED
    BY <2>1, <2>2
<1>4. QED
  BY <1>1, <1>2, <1>3 DEF ControlInv

LEMMA InitControlInv == ControlInit => ControlInv
<1> SUFFICES ASSUME ControlInit
             PROVE  ControlInv
  OBVIOUS
<1>1. Kinds
  BY DEF ControlInit, Kinds, UnitState, ActiveStates
<1>2. EntriesHaveRows
  BY DEF ControlInit, TableInit, EntriesHaveRows
<1>3. OneListAtATime /\ ResultIsFresh
  <2>1. \A u \in Units : unit[u].ver = 0 /\ asked[u] = 0
    BY DEF ControlInit
  <2>2. asked \in [Units -> Nat] /\ result = None /\ ~m_loading /\ m_loading \in BOOLEAN /\ jobs = 0
    BY DEF ControlInit, TableInit
  <2>3. QED
    BY <2>1, <2>2 DEF OneListAtATime, ResultIsFresh
<1>4. PassingStateIsPolled
  BY DEF ControlInit, TableInit, PassingStateIsPolled
<1>5. QED
  BY <1>1, <1>2, <1>3, <1>4 DEF ControlInv

\* Systemd changes one unit at a time, and its version by one at most.
LEMMA UnitChanges ==
  ASSUME Kinds, Systemd
  PROVE  \E u \in Units :
           /\ unit[u].ver < MaxVersion
           /\ \/ UNCHANGED unit
              \/ \E x \in UnitState : /\ x.ver >= unit[u].ver
                                      /\ x.ver <= unit[u].ver + 1
                                      /\ unit' = [unit EXCEPT ![u] = x]
<1>1. PICK u \in Units : /\ unit[u].ver < MaxVersion
                         /\ RunJob(u) \/ EndsAlone(u) \/ SystemctlRuns(u)
  BY DEF Systemd
<1> DEFINE Changes == \E x \in UnitState : /\ x.ver >= unit[u].ver
                                           /\ x.ver <= unit[u].ver + 1
                                           /\ unit' = [unit EXCEPT ![u] = x]
<1>2. /\ unit[u] \in UnitState
      /\ unit[u].ver \in Nat
      /\ unit[u].state \in ActiveStates
  BY DEF Kinds, UnitState
<1>3. \A state \in ActiveStates : /\ NextState(u, state) \in UnitState
                                  /\ NextState(u, state).ver >= unit[u].ver
                                  /\ NextState(u, state).ver <= unit[u].ver + 1
  BY <1>2 DEF NextState, UnitState
<1>4. \A state \in ActiveStates : \A op : JobStep(u, state, op) => Changes
  BY <1>3 DEF JobStep
<1>5. \A state \in ActiveStates : JobEnds(u, state) => Changes
  <2> SUFFICES ASSUME NEW state \in ActiveStates, JobEnds(u, state)
               PROVE  Changes
    OBVIOUS
  <2>1. unit' = [unit EXCEPT ![u] = IF state = unit[u].state THEN unit[u]
                                                             ELSE NextState(u, state)]
    BY DEF JobEnds
  <2>2. unit[u].ver >= unit[u].ver /\ unit[u].ver <= unit[u].ver + 1
    BY <1>2
  <2>3. QED
    BY <1>2, <1>3, <2>1, <2>2
<1> HIDE DEF Changes
<1>6. UNCHANGED unit \/ Changes
  <2>1. CASE RunJob(u)
    <3>1. \/ \E state \in ActiveStates : \E op : JobStep(u, state, op)
          \/ \E state \in ActiveStates : JobEnds(u, state)
      BY <1>2, <2>1 DEF RunJob, ActiveStates
    <3>2. QED
      BY <1>4, <1>5, <3>1
  <2>2. CASE EndsAlone(u)
    BY <1>3, <2>2 DEF EndsAlone, ActiveStates, Changes
  <2>3. CASE SystemctlRuns(u)
    BY <1>2, <1>3, <2>3 DEF SystemctlRuns, Changes
  <2>4. QED
    BY <1>1, <2>1, <2>2, <2>3
<1>7. QED
  BY <1>1, <1>6 DEF Changes

\* The version of a unit never goes back.
LEMMA SystemdControlInv ==
  ASSUME ControlInv, Systemd
  PROVE  ControlInv'
<1>1. UNCHANGED <<m_svcList, m_svcMap, m_loading, jobs, polls, gaveUp, asked, result, call>>
  BY DEF Systemd, tableVars, modelVars, loadVars, pollVars, listVars
<1>2. unit \in [Units -> UnitState]
  BY DEF ControlInv, Kinds
<1>3. UNCHANGED unit \/ \E u \in Units, x \in UnitState : /\ x.ver >= unit[u].ver
                                                          /\ unit' = [unit EXCEPT ![u] = x]
  BY UnitChanges DEF ControlInv
<1>4. /\ unit' \in [Units -> UnitState]
      /\ \A v \in Units : unit'[v].ver >= unit[v].ver /\ unit[v].ver \in Nat /\ unit'[v].ver \in Nat
  <2>1. \A v \in Units : unit[v].ver \in Nat
    BY <1>2 DEF UnitState
  <2>2. unit' \in [Units -> UnitState]
    BY <1>2, <1>3
  <2>3. \A v \in Units : unit'[v].ver \in Nat
    BY <2>2 DEF UnitState
  <2>4. \A v \in Units : unit'[v].ver >= unit[v].ver
    BY <1>2, <1>3, <2>1
  <2>5. QED
    BY <2>1, <2>2, <2>3, <2>4
<1>5. Kinds'
  BY <1>1, <1>4 DEF ControlInv, Kinds
<1>6. EntriesHaveRows' /\ OneListAtATime' /\ PassingStateIsPolled'
  BY <1>1 DEF ControlInv, EntriesHaveRows, OneListAtATime, PassingStateIsPolled
<1>7. ResultIsFresh'
  <2>1. asked \in [Units -> Nat] /\ \A v \in Units : asked[v] <= unit[v].ver
    BY DEF ControlInv, ResultIsFresh
  <2>2. \A v \in Units : asked[v] <= unit'[v].ver
    BY <1>4, <2>1
  <2>3. QED
    BY <1>1, <2>1, <2>2 DEF ControlInv, ResultIsFresh
<1>8. QED
  BY <1>5, <1>6, <1>7 DEF ControlInv

\* The end of a request.
LEMMA ReadEntryControlInv ==
  ASSUME ControlInv, ReadEntry
  PROVE  ControlInv'
<1> DEFINE u == call.unit
           entry == EntryAt(u, "request")
<1>1. /\ UpdateServiceEntry(u, entry)
      /\ polls' = IF IsFinalState(entry.state) THEN polls
                  ELSE Append(polls, [path |-> call.path, cnt |-> 0, on |-> TRUE])
      /\ gaveUp' = (gaveUp \ {u})
                     \cup (IF call.path = JobPath /\ ~IsFinalState(entry.state) THEN {u} ELSE {})
      /\ call' = None
      /\ UNCHANGED <<unit, asked, result>>
  BY DEF ReadEntry, systemVars, listVars
<1>2. /\ unit \in [Units -> UnitState]
      /\ polls \in Seq(Timer)
      /\ u \in Units
      /\ call.path \in {u, JobPath}
  BY DEF ReadEntry, ControlInv, Kinds
<1>3. CASE IsFinalState(entry.state)
  <2>1. polls' = polls /\ entry.state \in {"active", "inactive", "failed"}
    BY <1>1, <1>3 DEF IsFinalState
  <2>2. Kinds'
    BY <1>1, <1>2, <2>1 DEF Kinds
  <2>3. gaveUp \ {u} \subseteq gaveUp'
    BY <1>1
  <2> HIDE DEF u, entry
  <2>4. QED
    BY <1>1, <2>1, <2>2, <2>3, EntryShown
<1>4. CASE ~IsFinalState(entry.state)
  <2> DEFINE timer == [path |-> call.path, cnt |-> 0, on |-> TRUE]
  <2>1. polls' = Append(polls, timer) /\ timer \in Timer
    BY <1>1, <1>2, <1>4 DEF Timer
  <2>2. /\ polls' \in Seq(Timer)
        /\ Len(polls) + 1 \in DOMAIN polls'
        /\ polls'[Len(polls) + 1] = timer
        /\ \A i \in DOMAIN polls : i \in DOMAIN polls' /\ polls'[i] = polls[i]
    BY <1>2, <2>1
  <2>3. timer.on /\ timer.path = call.path
    OBVIOUS
  <2>4. Kinds'
    BY <1>1, <1>2, <2>2 DEF Kinds
  <2>5. gaveUp \ {u} \subseteq gaveUp'
    BY <1>1
  <2>6. call.path = JobPath => u \in gaveUp'
    BY <1>1, <1>4
  <2> HIDE DEF u, entry, timer
  <2>7. \/ \E i \in DOMAIN polls' : polls'[i].on /\ polls'[i].path = u
        \/ u \in gaveUp'
    BY <1>2, <2>2, <2>3, <2>6
  <2>8. \A i \in DOMAIN polls :
          i \in DOMAIN polls' /\ polls'[i].path = polls[i].path /\ polls'[i].on = polls[i].on
    BY <2>2
  <2>9. QED
    BY <1>1, <2>4, <2>5, <2>7, <2>8, EntryShown
<1>5. QED
  BY <1>3, <1>4

\* A poll goes on, ends with a final state, or gives its unit up.
LEMMA PollControlInv ==
  ASSUME ControlInv, NEW i \in DOMAIN polls, Poll(i)
  PROVE  ControlInv'
<1> DEFINE path == polls[i].path
           entry == EntryAt(path, "poll")
<1>1. /\ polls[i].on
      /\ UpdateServiceEntry(path, entry)
      /\ UNCHANGED <<unit, asked, result, call>>
  BY DEF Poll, systemVars, listVars
<1>2. polls \in Seq(Timer) /\ unit \in [Units -> UnitState]
  BY DEF ControlInv, Kinds
<1>3. CASE /\ ~IsFinalState(entry.state)
           /\ polls' = [polls EXCEPT ![i].cnt = IF @ < MaxPolls THEN @ + 1 ELSE @]
           /\ UNCHANGED gaveUp
  <2>1. polls[i] \in Timer
    BY <1>2
  <2>2. polls[i].cnt \in Nat
    BY <2>1 DEF Timer
  <2>3. /\ polls' \in Seq(Timer)
        /\ DOMAIN polls' = DOMAIN polls
        /\ polls'[i].path = path /\ polls'[i].on
        /\ \A j \in DOMAIN polls \ {i} : polls'[j] = polls[j]
    <3>1. PICK x \in Timer : /\ x.path = path /\ x.on
                             /\ polls' = [polls EXCEPT ![i] = x]
      <4>1. PICK c \in Nat : c = IF polls[i].cnt < MaxPolls THEN polls[i].cnt + 1 ELSE polls[i].cnt
        BY <2>2
      <4>2. [polls[i] EXCEPT !.cnt = c] \in Timer
        BY <2>1, <4>1 DEF Timer
      <4>3. /\ [polls[i] EXCEPT !.cnt = c].path = path
            /\ [polls[i] EXCEPT !.cnt = c].on
        BY <1>1, <2>1 DEF Timer
      <4>4. polls' = [polls EXCEPT ![i] = [polls[i] EXCEPT !.cnt = c]]
        BY <1>3, <4>1
      <4>5. QED
        BY <4>2, <4>3, <4>4
    <3>2. QED
      BY <1>2, <3>1
  <2>4. Kinds'
    BY <1>1, <1>2, <2>3 DEF ControlInv, Kinds
  <2> HIDE DEF path, entry
  <2>5. \E j \in DOMAIN polls' : polls'[j].on /\ polls'[j].path = path
    BY <2>3
  <2>6. \A j \in DOMAIN polls : polls[j].path # path =>
          j \in DOMAIN polls' /\ polls'[j].path = polls[j].path /\ polls'[j].on = polls[j].on
    BY <2>3 DEF path
  <2>7. gaveUp \ {path} \subseteq gaveUp'
    BY <1>3
  <2>8. QED
    BY <1>1, <2>4, <2>5, <2>6, <2>7, EntryShown
<1>4. CASE /\ polls' = [polls EXCEPT ![i].on = FALSE]
           /\ gaveUp' = IF IsFinalState(entry.state) THEN gaveUp ELSE gaveUp \cup {path}
  <2>1. polls[i] \in Timer
    BY <1>2
  <2>2. [polls[i] EXCEPT !.on = FALSE] \in Timer
    BY <2>1 DEF Timer
  <2>3. polls' = [polls EXCEPT ![i] = [polls[i] EXCEPT !.on = FALSE]]
    BY <1>4
  <2>4. /\ polls' \in Seq(Timer)
        /\ DOMAIN polls' = DOMAIN polls
        /\ \A j \in DOMAIN polls \ {i} : polls'[j] = polls[j]
    BY <1>2, <2>2, <2>3
  <2>5. Kinds'
    BY <1>1, <1>2, <2>4 DEF ControlInv, Kinds
  <2>6. entry.state \in {"active", "inactive", "failed"} \/ path \in gaveUp'
    BY <1>4 DEF IsFinalState
  <2> HIDE DEF path, entry
  <2>7. gaveUp \ {path} \subseteq gaveUp'
    BY <1>4
  <2>8. \A j \in DOMAIN polls : polls[j].path # path =>
          j \in DOMAIN polls' /\ polls'[j].path = polls[j].path /\ polls'[j].on = polls[j].on
    BY <2>4 DEF path
  <2>9. QED
    BY <1>1, <2>5, <2>6, <2>7, <2>8, EntryShown
<1>5. QED
  BY <1>3, <1>4 DEF Poll

\* The worker makes a list: of states no older than the refresh.
LEMMA StartJobControlInv ==
  ASSUME ControlInv, StartJob
  PROVE  ControlInv'
<1>1. /\ UNCHANGED <<m_svcList, m_svcMap, m_loading, jobs, unit, polls, gaveUp, asked, call>>
      /\ jobs > 0
  BY DEF StartJob, tableVars, modelVars, loadVars, systemVars, pollVars
<1>2. Kinds' /\ EntriesHaveRows' /\ PassingStateIsPolled'
  BY <1>1 DEF ControlInv, Kinds, EntriesHaveRows, PassingStateIsPolled
<1>3. OneListAtATime'
  BY <1>1 DEF ControlInv, OneListAtATime
<1>4. PICK listed \in {{}, Listed} :
        result' = [i \in 1..Cardinality(listed) |->
                     LET name == SetToSeq(listed)[i] IN
                       [name |-> name,
                        value |-> IF name = Template
                                  THEN [state |-> "", ver |-> 0, by |-> "list"]
                                  ELSE EntryAt(name, "list")]]
  BY DEF StartJob
<1>5. Cardinality(listed) \in Nat
  <2>1. listed \subseteq Names
    BY <1>4, UnitAssumption DEF Listed
  <2>2. QED
    BY <2>1, NamesAssumption, FS_Subset, FS_CardinalityType
<1>6. ASSUME NEW i \in DOMAIN result'
      PROVE  /\ result'[i].value.by = "list"
             /\ result'[i].name \in Units => result'[i].value.ver >= asked[result'[i].name]
  <2>1. PICK name, value :
          /\ name = SetToSeq(listed)[i]
          /\ value = IF name = Template THEN [state |-> "", ver |-> 0, by |-> "list"]
                     ELSE EntryAt(name, "list")
    OBVIOUS
  <2>2. result'[i] = [name |-> name, value |-> value]
    BY <1>4, <1>6, <2>1
  <2>3. result'[i].name = name /\ result'[i].value = value
    BY <2>2
  <2>4. value.by = "list"
    BY <2>1 DEF EntryAt
  <2>5. CASE name \in Units
    <3>1. name # Template /\ name # JobPath
      BY <2>5, UnitAssumption DEF JobPath
    <3>2. value.ver = unit[name].ver
      BY <2>1, <3>1 DEF EntryAt
    <3>3. unit[name].ver \in Nat /\ asked[name] \in Nat /\ asked[name] <= unit[name].ver
      BY <2>5 DEF ControlInv, Kinds, UnitState, ResultIsFresh
    <3>4. QED
      BY <2>3, <2>4, <3>2, <3>3
  <2>6. CASE name \notin Units
    BY <2>3, <2>4, <2>6
  <2>7. QED
    BY <2>5, <2>6
<1>7. ResultIsFresh'
  <2>1. \E n \in Nat : DOMAIN result' = 1..n
    BY <1>4, <1>5
  <2>2. asked \in [Units -> Nat] /\ \A u \in Units : asked[u] <= unit[u].ver
    BY DEF ControlInv, ResultIsFresh
  <2>3. QED
    BY <1>1, <1>6, <2>1, <2>2 DEF ResultIsFresh
<1>8. QED
  BY <1>2, <1>3, <1>7 DEF ControlInv

\* A list of the worker's becomes the table.
LEMMA ListTaken ==
  ASSUME ControlInv, ListReady
  PROVE  /\ ~m_loading' /\ jobs' = 0
         /\ EntriesHaveRows'
         /\ \A name \in DOMAIN m_svcMap' :
              /\ m_svcMap'[name].by = "list"
              /\ name \in Units => m_svcMap'[name].ver >= asked[name]
<1>1. /\ result # None
      /\ jobs > 0
      /\ jobs' = jobs - 1
      /\ m_svcList' = [row \in DOMAIN result |-> result[row].name]
      /\ m_svcMap' = [name \in {result[row].name : row \in DOMAIN result} |->
                        result[CHOOSE r \in DOMAIN result : result[r].name = name].value]
      /\ m_loading' = FALSE
  BY DEF ListReady, UpdateServiceList
<1>2. jobs' = 0
  BY <1>1 DEF ControlInv, OneListAtATime
<1>3. PICK n \in Nat : DOMAIN result = 1..n
  BY <1>1 DEF ControlInv, ResultIsFresh
<1>4. m_svcList' \in Seq({result[row].name : row \in DOMAIN result})
  BY <1>1, <1>3
<1>5. \A name \in DOMAIN m_svcMap' : \E row \in DOMAIN m_svcList' : m_svcList'[row] = name
  BY <1>1
<1>6. ASSUME NEW name \in DOMAIN m_svcMap'
      PROVE  /\ m_svcMap'[name].by = "list"
             /\ name \in Units => m_svcMap'[name].ver >= asked[name]
  <2>1. \E r \in DOMAIN result : result[r].name = name
    BY <1>1, <1>6
  <2>2. PICK r \in DOMAIN result : /\ r = CHOOSE q \in DOMAIN result : result[q].name = name
                                   /\ result[r].name = name
    BY <2>1
  <2>3. m_svcMap'[name] = result[r].value
    BY <1>1, <1>6, <2>2
  <2>4. QED
    BY <1>1, <2>2, <2>3 DEF ControlInv, ResultIsFresh
<1>7. EntriesHaveRows'
  BY <1>4, <1>5 DEF EntriesHaveRows
<1>8. QED
  BY <1>1, <1>2, <1>6, <1>7

LEMMA ListReadyControlInv ==
  ASSUME ControlInv, ListReady
  PROVE  ControlInv'
<1>1. /\ UNCHANGED <<unit, polls, call, gaveUp, asked>>
      /\ result' = None
  BY DEF ListReady, systemVars, pollVars
<1>2. /\ ~m_loading' /\ jobs' = 0
      /\ EntriesHaveRows'
      /\ \A name \in DOMAIN m_svcMap' : m_svcMap'[name].by = "list"
  BY ListTaken
<1>3. m_loading' \in BOOLEAN
  BY DEF ListReady, UpdateServiceList
<1>4. Kinds' /\ ResultIsFresh'
  BY <1>1 DEF ControlInv, Kinds, ResultIsFresh
<1>5. OneListAtATime'
  BY <1>1, <1>2, <1>3 DEF OneListAtATime
<1>6. PassingStateIsPolled'
  BY <1>2 DEF PassingStateIsPolled
<1>7. QED
  BY <1>2, <1>4, <1>5, <1>6 DEF ControlInv

\* A list is asked for while none is awaited, so none is there from before.
LEMMA AskForListControlInv ==
  ASSUME ControlInv, AskForList
  PROVE  ControlInv'
<1>1. /\ UNCHANGED <<unit, polls, call, gaveUp, result>>
      /\ asked' = [u \in Units |-> unit[u].ver]
      /\ ~m_loading /\ m_loading' = TRUE /\ jobs' = jobs + 1
      /\ \/ UNCHANGED <<m_svcList, m_svcMap>>
         \/ m_svcList' = << >> /\ m_svcMap' = << >>
  BY DEF AskForList, OpenServiceTab, Refresh, MayRefresh, ResetRows, BeginUpdateList,
         systemVars, pollVars, modelVars
<1>2. Kinds'
  BY <1>1 DEF ControlInv, Kinds
<1>3. EntriesHaveRows' /\ PassingStateIsPolled'
  <2>1. CASE UNCHANGED <<m_svcList, m_svcMap>>
    BY <1>1, <2>1 DEF ControlInv, EntriesHaveRows, PassingStateIsPolled
  <2>2. CASE m_svcList' = << >> /\ m_svcMap' = << >>
    <3>1. DOMAIN m_svcMap' = {} /\ m_svcList' \in Seq({})
      BY <2>2
    <3>2. QED
      BY <3>1 DEF EntriesHaveRows, PassingStateIsPolled
  <2>3. QED
    BY <1>1, <2>1, <2>2
<1>4. OneListAtATime'
  BY <1>1 DEF ControlInv, OneListAtATime
<1>5. ResultIsFresh'
  <2>1. \A u \in Units : unit[u].ver \in Nat
    BY DEF ControlInv, Kinds, UnitState
  <2>2. result' = None
    BY <1>1 DEF ControlInv, OneListAtATime
  <2>3. asked' \in [Units -> Nat] /\ \A u \in Units : asked'[u] <= unit'[u].ver
    BY <1>1, <2>1
  <2>4. QED
    BY <2>2, <2>3 DEF ResultIsFresh
<1>6. QED
  BY <1>2, <1>3, <1>4, <1>5 DEF ControlInv

LEMMA NextControlInv ==
  ASSUME ControlInv, [ControlNext]_allVars
  PROVE  ControlInv'
<1>1. CASE Systemd
  BY <1>1, SystemdControlInv
<1>2. ASSUME NEW u \in Units, NEW op \in Ops, Request(u, op)
      PROVE  ControlInv'
  <2>1. /\ UNCHANGED <<m_svcList, m_svcMap, m_loading, jobs, unit, polls, gaveUp, asked, result>>
        /\ call' = [unit |-> u, path |-> None]
    BY <1>2 DEF Request, tableVars, modelVars, loadVars, pollVars, listVars
  <2>2. Kinds'
    BY <2>1 DEF ControlInv, Kinds
  <2>3. QED
    BY <2>1, <2>2, SameTable
<1>3. CASE GetUnit
  <2>1. /\ UNCHANGED <<m_svcList, m_svcMap, m_loading, jobs, unit, polls, gaveUp, asked, result>>
        /\ call # None
        /\ \E path \in {call.unit, JobPath} : call' = [call EXCEPT !.path = path]
    BY <1>3 DEF GetUnit, tableVars, modelVars, loadVars, systemVars, pollVars, listVars
  <2>2. call'.unit = call.unit /\ call'.path \in {None, call.unit, JobPath}
    BY <2>1 DEF ControlInv, Kinds
  <2>3. Kinds'
    BY <2>1, <2>2 DEF ControlInv, Kinds
  <2>4. QED
    BY <2>1, <2>3, SameTable
<1>4. CASE ReadEntry
  BY <1>4, ReadEntryControlInv
<1>5. ASSUME NEW i \in DOMAIN polls, Poll(i)
      PROVE  ControlInv'
  BY <1>5, PollControlInv
<1>6. ASSUME NEW u \in Units, SetServiceStartupMode(u)
      PROVE  ControlInv'
  <2>1. UNCHANGED <<m_svcList, m_svcMap, m_loading, jobs, unit, polls, gaveUp, asked, result, call>>
    BY <1>6 DEF SetServiceStartupMode, tableVars, modelVars, loadVars, systemVars, pollVars, listVars
  <2>2. Kinds'
    BY <2>1 DEF ControlInv, Kinds
  <2>3. QED
    BY <2>1, <2>2, SameTable
<1>7. ASSUME NEW u \in Units, SystemctlFinished(u)
      PROVE  ControlInv'
  <2>1. /\ UpdateServiceEntry(u, EntryAt(u, "mode"))
        /\ UNCHANGED <<unit, polls, gaveUp, asked, result, call>>
        /\ EntryAt(u, "mode").by \notin {"request", "poll"}
    BY <1>7 DEF SystemctlFinished, systemVars, pollVars, listVars, EntryAt
  <2>2. Kinds'
    BY <2>1 DEF ControlInv, Kinds
  <2>3. QED
    BY <2>1, <2>2, EntryShown
<1>8. CASE StartJob
  BY <1>8, StartJobControlInv
<1>9. CASE ListReady
  BY <1>9, ListReadyControlInv
<1>10. CASE AskForList
  BY <1>10, AskForListControlInv
<1>11. CASE Browse \/ UNCHANGED allVars
  <2>1. UNCHANGED <<m_svcList, m_svcMap, m_loading, jobs, unit, polls, gaveUp, asked, result, call>>
    BY <1>11 DEF Browse, FetchMore, Click, allVars, ctrlVars, tableVars, modelVars, loadVars,
                 systemVars, pollVars, listVars
  <2>2. Kinds'
    BY <2>1 DEF ControlInv, Kinds
  <2>3. QED
    BY <2>1, <2>2, SameTable
<1>12. QED
  BY <1>1, <1>2, <1>3, <1>4, <1>5, <1>6, <1>7, <1>8, <1>9, <1>10, <1>11 DEF ControlNext

\* The inductive invariant of requests, polls and lists.
THEOREM ControlInvariance == ControlSpec => []ControlInv
<1>1. ControlInit /\ [][ControlNext]_allVars => []ControlInv
  BY InitControlInv, NextControlInv, PTL
<1>2. QED
  BY <1>1, PTL DEF ControlSpec

\* What isFinalState is for: a service shown in a passing state by a request or a poll
\* is polled again, unless its CustomTimer gave up or polls a job's path.
THEOREM PassingStatesArePolled == ControlSpec => []PassingStateIsPolled
<1>1. ControlInv => PassingStateIsPolled
  BY DEF ControlInv
<1>2. QED
  BY <1>1, ControlInvariance, PTL

\* The list that updateServiceList takes was read after the refresh that asked for it.
THEOREM ListsAreFresh == ControlSpec => ListIsNotOlderThanRefresh
<1> DEFINE Fresh == ListReady =>
                      \A u \in Units \cap DOMAIN m_svcMap' : m_svcMap'[u].ver >= asked[u]
<1>1. ControlInv /\ [ControlNext]_allVars => [Fresh]_allVars
  BY ListTaken
<1>2. QED
  BY <1>1, ControlInvariance, PTL DEF ControlSpec, ListIsNotOlderThanRefresh
-----------------------------------------------------------------------------
(* The table under the control of services.  What ServiceManager, its timers    *)
(* and the worker do to the table are operations of the table, so that what was *)
(* proved of the table alone holds while services are started and stopped.      *)

\* Nothing of the table is there to be asked about, and no request can have been
\* made, until the service tab is opened.
BeforeOpening ==
  ~defer_initialized =>
    /\ ~m_loading
    /\ m_svcList = << >>
    /\ proxy.shown = {}
    /\ m_selectedSName = None
    /\ call = None
    /\ polls = << >>
    /\ enabling = {}
    /\ enabled = {}

Versions == \A u \in Units : unit[u].ver <= MaxVersion

\* The list the worker has made names each service once.
ListInHand == result # None => result \in Lists

UseInv == IInv /\ ControlInv /\ BeforeOpening /\ Versions /\ ListInHand

\* What is read of a service, or at the path of a job, is an entry of the table.
LEMMA EntryRead ==
  ASSUME Kinds, Versions, NEW path \in Units \cup {JobPath},
         NEW by \in {"list", "request", "poll", "mode"}
  PROVE  path \in Names /\ EntryAt(path, by) \in Values
<1>1. path \in Names
  BY UnitAssumption DEF JobPath
<1>2. \A state \in ActiveStates \cup {""}, ver \in 0..MaxVersion :
        [state |-> state, ver |-> ver, by |-> by] \in Values
  BY EntriesAssumption DEF Entries
<1>3. PICK state \in ActiveStates \cup {""}, ver \in 0..MaxVersion :
        EntryAt(path, by) = [state |-> state, ver |-> ver, by |-> by]
  <2>1. CASE path = JobPath
    <3>1. 0 \in 0..MaxVersion
      BY EntriesAssumption
    <3>2. QED
      BY <2>1, <3>1 DEF EntryAt
  <2>2. CASE path # JobPath
    <3>1. unit[path] \in UnitState /\ unit[path].ver <= MaxVersion
      BY <2>2 DEF Kinds, Versions
    <3>2. unit[path].state \in ActiveStates /\ unit[path].ver \in 0..MaxVersion
      BY <3>1, EntriesAssumption DEF UnitState
    <3>3. QED
      BY <2>2, <3>2 DEF EntryAt
  <2>3. QED
    BY <2>1, <2>2
<1>4. QED
  BY <1>1, <1>2, <1>3

\* A step of a request, a timer or the worker is an operation of the table.
LEMMA ControlStepOfTable ==
  ASSUME UseInv, [ControlNext]_allVars
  PROVE  [TableNext]_tableVars
<1>1. Kinds /\ Versions
  BY DEF UseInv, ControlInv
<1>2. CASE UNCHANGED tableVars
  BY <1>2
<1>3. ASSUME NEW name \in Names, NEW value \in Values, UpdateServiceEntry(name, value),
             defer_initialized
      PROVE  TableNext
  BY <1>3 DEF TableNext
<1>4. CASE ReadEntry
  <2>1. /\ UpdateServiceEntry(call.unit, EntryAt(call.unit, "request"))
        /\ call # None
    BY <1>4 DEF ReadEntry
  <2>2. call.unit \in Units \cup {JobPath}
    BY <1>1, <2>1 DEF Kinds
  <2>3. defer_initialized
    BY <2>1 DEF UseInv, BeforeOpening
  <2>4. QED
    BY <1>1, <1>3, <2>1, <2>2, <2>3, EntryRead
<1>5. ASSUME NEW i \in DOMAIN polls, Poll(i)
      PROVE  TableNext
  <2>1. UpdateServiceEntry(polls[i].path, EntryAt(polls[i].path, "poll"))
    BY <1>5 DEF Poll
  <2>2. polls[i] \in Timer
    BY <1>1 DEF Kinds
  <2>3. polls[i].path \in Units \cup {JobPath}
    BY <2>2 DEF Timer
  <2>4. defer_initialized
    BY DEF UseInv, BeforeOpening
  <2>5. QED
    BY <1>1, <1>3, <2>1, <2>3, <2>4, EntryRead
<1>6. ASSUME NEW u \in Units, SystemctlFinished(u)
      PROVE  TableNext
  <2>1. UpdateServiceEntry(u, EntryAt(u, "mode")) /\ u \in enabled
    BY <1>6 DEF SystemctlFinished
  <2>2. defer_initialized
    BY <2>1 DEF UseInv, BeforeOpening
  <2>3. QED
    BY <1>1, <1>3, <2>1, <2>2, EntryRead
<1>7. CASE ListReady
  <2>1. result \in Lists /\ UpdateServiceList(result)
    BY <1>7 DEF ListReady, UseInv, ListInHand
  <2>2. QED
    BY <2>1 DEF TableNext, ListArrives
<1>8. CASE AskForList \/ Browse
  BY <1>8 DEF AskForList, Browse, TableNext, UseTable
<1>9. ASSUME NEW u \in Units, SetServiceStartupMode(u) \/ \E op \in Ops : Request(u, op)
      PROVE  UNCHANGED tableVars
  BY <1>9 DEF SetServiceStartupMode, Request
<1>10. CASE Systemd \/ GetUnit \/ StartJob \/ UNCHANGED allVars
  BY <1>10 DEF Systemd, GetUnit, StartJob, allVars
<1>11. QED
  BY <1>2, <1>4, <1>5, <1>6, <1>7, <1>8, <1>9, <1>10 DEF ControlNext

\* No request, poll or list comes before the tab is opened.
LEMMA BeforeOpeningStep ==
  ASSUME UseInv, [ControlNext]_allVars
  PROVE  BeforeOpening'
<1> SUFFICES ASSUME ~defer_initialized'
             PROVE  BeforeOpening'
  BY DEF BeforeOpening
<1>1. CASE defer_initialized
  <2>1. [TableNext]_tableVars
    BY ControlStepOfTable
  <2>2. defer_initialized' = defer_initialized \/ defer_initialized'
    BY <2>1 DEF TableNext, UseTable, OpenServiceTab, Refresh, FetchMore, Search, Click, Deselect,
                ListArrives, UpdateServiceList, UpdateServiceEntry, tableVars, loadVars
  <2>3. QED
    BY <1>1, <2>2
<1>2. CASE ~defer_initialized
  <2>1. /\ ~m_loading
        /\ m_svcList = << >>
        /\ proxy.shown = {}
        /\ m_selectedSName = None
        /\ call = None
        /\ polls = << >>
        /\ enabling = {}
        /\ enabled = {}
    BY <1>2 DEF UseInv, BeforeOpening
  <2>2. jobs = 0 /\ m_nr \in Nat
    BY <2>1, Opened DEF UseInv, ControlInv, OneListAtATime
  <2>3. Requested = {}
    BY <2>1, UnitAssumption, NoneAssumption DEF Requested
  <2>4. /\ ~GetUnit /\ ~ReadEntry /\ ~ListReady
        /\ \A u \in Units : /\ ~SetServiceStartupMode(u)
                            /\ ~SystemctlFinished(u)
                            /\ \A op \in Ops : ~Request(u, op)
        /\ \A i \in DOMAIN polls : ~Poll(i)
    BY <2>1, <2>2, <2>3 DEF GetUnit, ReadEntry, ListReady, UpdateServiceList,
                            SetServiceStartupMode, SystemctlFinished, Request
  <2>5. ~AskForList
    BY <1>2 DEF AskForList, OpenServiceTab, Refresh, MayRefresh
  <2>6. ~Browse
    BY <2>1, <2>2 DEF Browse, FetchMore, Click
  <2>7. UNCHANGED <<tableVars, call, polls, enabling, enabled>>
    <3>1. CASE Systemd
      BY <2>1, <3>1 DEF Systemd, SystemctlRuns, pollVars, modeVars
    <3>2. CASE StartJob
      BY <3>2 DEF StartJob, pollVars, modeVars
    <3>3. CASE UNCHANGED allVars
      BY <3>3 DEF allVars, ctrlVars, pollVars, modeVars
    <3>4. QED
      BY <2>4, <2>5, <2>6, <3>1, <3>2, <3>3 DEF ControlNext
  <2>8. UNCHANGED <<m_loading, m_svcList, proxy, m_selectedSName, call, polls, enabling, enabled>>
    BY <2>7 DEF tableVars, modelVars, loadVars
  <2>9. QED
    BY <2>1, <2>8 DEF BeforeOpening
<1>3. QED
  BY <1>1, <1>2

LEMMA VersionsStep ==
  ASSUME UseInv, [ControlNext]_allVars
  PROVE  Versions'
<1>1. CASE UNCHANGED unit
  BY <1>1 DEF UseInv, Versions
<1>2. CASE Systemd
  <2>1. Kinds /\ Versions
    BY DEF UseInv, ControlInv
  <2>2. PICK u \in Units :
          /\ unit[u].ver < MaxVersion
          /\ \/ UNCHANGED unit
             \/ \E x \in UnitState : /\ x.ver >= unit[u].ver
                                     /\ x.ver <= unit[u].ver + 1
                                     /\ unit' = [unit EXCEPT ![u] = x]
    BY <1>2, <2>1, UnitChanges
  <2>3. ASSUME NEW x \in UnitState, x.ver <= unit[u].ver + 1, unit' = [unit EXCEPT ![u] = x]
        PROVE  Versions'
    <3>1. x.ver <= MaxVersion
      <4>1. x.ver \in Nat /\ unit[u].ver \in Nat
        BY <2>1 DEF Kinds, UnitState
      <4>2. QED
        BY <2>2, <2>3, <4>1, EntriesAssumption
    <3>2. unit'[u] = x /\ \A v \in Units \ {u} : unit'[v] = unit[v]
      BY <2>1, <2>3 DEF Kinds
    <3>3. QED
      BY <2>1, <3>1, <3>2 DEF Versions
  <2>4. QED
    BY <1>1, <2>2, <2>3
<1>3. CASE ~Systemd
  <2>1. UNCHANGED unit
    BY <1>3 DEF ControlNext, Request, GetUnit, ReadEntry, Poll, SetServiceStartupMode,
                SystemctlFinished, StartJob, ListReady, AskForList, Browse, ctrlVars, systemVars,
                allVars
  <2>2. QED
    BY <1>1, <2>1
<1>4. QED
  BY <1>2, <1>3

\* The names of a finite set in some order, each once.
LEMMA InSomeOrder ==
  ASSUME NEW S, IsFiniteSet(S)
  PROVE  /\ Cardinality(S) \in Nat
         /\ SetToSeq(S) \in [1..Cardinality(S) -> S]
         /\ \A i, j \in 1..Cardinality(S) : SetToSeq(S)[i] = SetToSeq(S)[j] => i = j
<1>1. Cardinality(S) \in Nat /\ ExistsBijection(1..Cardinality(S), S)
  BY FS_CardinalityType
<1>2. \E f \in [1..Cardinality(S) -> S] : IsInjective(f)
  BY <1>1 DEF ExistsBijection, Bijection, Injection
<1>3. SetToSeq(S) \in [1..Cardinality(S) -> S] /\ IsInjective(SetToSeq(S))
  BY <1>2 DEF SetToSeq
<1>4. QED
  BY <1>1, <1>3 DEF IsInjective

\* startJob lists each service once, whichever of them are loaded.
LEMMA ListMade ==
  ASSUME Kinds, Versions, StartJob
  PROVE  result' \in Lists
<1> DEFINE Row == [name : Names, value : Values]
<1>1. PICK listed \in {{}, Listed} :
        result' = [i \in 1..Cardinality(listed) |->
                     LET name == SetToSeq(listed)[i] IN
                       [name |-> name,
                        value |-> IF name = Template
                                  THEN [state |-> "", ver |-> 0, by |-> "list"]
                                  ELSE EntryAt(name, "list")]]
  BY DEF StartJob
<1>2. listed \subseteq Units \cup {Template} /\ listed \in SUBSET Names
  BY UnitAssumption DEF Listed
<1>3. IsFiniteSet(listed) /\ Cardinality(listed) <= Cardinality(Names)
  BY <1>2, NamesAssumption, FS_Subset
<1>4. /\ Cardinality(listed) \in Nat /\ Cardinality(Names) \in Nat
      /\ SetToSeq(listed) \in [1..Cardinality(listed) -> listed]
      /\ \A i, j \in 1..Cardinality(listed) : SetToSeq(listed)[i] = SetToSeq(listed)[j] => i = j
  BY <1>3, NamesAssumption, FS_CardinalityType, InSomeOrder
<1>5. DOMAIN result' = 1..Cardinality(listed)
  BY <1>1
<1>6. ASSUME NEW i \in 1..Cardinality(listed)
      PROVE  result'[i] \in Row /\ result'[i].name = SetToSeq(listed)[i]
  <2>1. PICK name \in listed : name = SetToSeq(listed)[i]
    BY <1>4
  <2>2. PICK value : value = IF name = Template
                             THEN [state |-> "", ver |-> 0, by |-> "list"]
                             ELSE EntryAt(name, "list")
    OBVIOUS
  <2>3. result'[i] = [name |-> name, value |-> value]
    BY <1>1, <2>1, <2>2
  <2>4. value \in Values
    <3>1. CASE name = Template
      <4>1. 0 \in 0..MaxVersion
        BY EntriesAssumption
      <4>2. value = [state |-> "", ver |-> 0, by |-> "list"]
        BY <2>2, <3>1
      <4>3. QED
        BY <4>1, <4>2, EntriesAssumption DEF Entries
    <3>2. CASE name # Template
      BY <1>2, <2>2, <3>2, EntryRead
    <3>3. QED
      BY <3>1, <3>2
  <2>5. QED
    BY <1>2, <2>1, <2>3, <2>4
<1>7. result' \in BoundedSeq(Row, Cardinality(Names))
  <2>1. result' \in [1..Cardinality(listed) -> Row]
    <3>1. result' = [i \in 1..Cardinality(listed) |-> result'[i]]
      BY <1>1
    <3>2. QED
      BY <1>6, <3>1
  <2>2. Cardinality(listed) \in 0..Cardinality(Names)
    BY <1>3, <1>4
  <2>3. QED
    BY <2>1, <2>2 DEF BoundedSeq, SeqOf
<1>8. \A r, s \in DOMAIN result' : result'[r].name = result'[s].name => r = s
  BY <1>4, <1>5, <1>6
<1>9. QED
  BY <1>7, <1>8 DEF Lists

LEMMA ListInHandStep ==
  ASSUME UseInv, [ControlNext]_allVars
  PROVE  ListInHand'
<1>1. CASE result' = result
  <2>1. Lists' = Lists
    BY DEF Lists
  <2>2. QED
    BY <1>1, <2>1 DEF UseInv, ListInHand
<1>2. CASE result' = None
  BY <1>2 DEF ListInHand
<1>3. CASE StartJob
  BY <1>3, ListMade DEF UseInv, ControlInv, ListInHand, Lists
<1>4. CASE ~StartJob
  <2>1. result' = result \/ result' = None
    BY <1>4 DEF ControlNext, Systemd, Request, GetUnit, ReadEntry, Poll, SetServiceStartupMode,
                SystemctlFinished, ListReady, AskForList, Browse, ctrlVars, listVars, allVars
  <2>2. QED
    BY <1>1, <1>2, <2>1
<1>5. QED
  BY <1>3, <1>4

LEMMA InitUseInv == ControlInit => UseInv
<1> SUFFICES ASSUME ControlInit
             PROVE  UseInv
  OBVIOUS
<1>1. IInv /\ ControlInv
  BY InitHolds, InitControlInv DEF ControlInit
<1>2. BeforeOpening /\ ListInHand
  BY DEF ControlInit, TableInit, BeforeOpening, ListInHand
<1>3. Versions
  BY EntriesAssumption DEF ControlInit, Versions
<1>4. QED
  BY <1>1, <1>2, <1>3 DEF UseInv

LEMMA UseInvStep ==
  ASSUME UseInv, [ControlNext]_allVars
  PROVE  UseInv' /\ [TableNext]_tableVars
<1>1. [TableNext]_tableVars
  BY ControlStepOfTable
<1>2. IInv' /\ ControlInv'
  BY <1>1, NextStep, NextControlInv DEF UseInv
<1>3. BeforeOpening' /\ Versions' /\ ListInHand'
  BY BeforeOpeningStep, VersionsStep, ListInHandStep
<1>4. QED
  BY <1>1, <1>2, <1>3 DEF UseInv

\* Requests, timers, systemctl and the worker use the table as its view and any list or
\* entry may: none comes before the tab is opened, and no list names a service twice.
THEOREM ControlUsesTable == ControlSpec => TableSpec
<1>1. ControlInit /\ [][ControlNext]_allVars => TableSpec
  <2>1. ControlInit => TableInit /\ UseInv
    BY InitUseInv DEF ControlInit
  <2>2. QED
    BY <2>1, UseInvStep, PTL DEF TableSpec
<1>2. QED
  BY <1>1, PTL DEF ControlSpec

\* While services are started, polled, enabled and listed, the table keeps one row per
\* service, shows the loaded rows that match, and remembers the highlighted service.
THEOREM TableStaysConsistent ==
  ControlSpec => [](OneRowPerService /\ ShowsLoadedMatches /\ SelectionIsRemembered)
<1>1. QED
  BY ControlUsesTable, ServicesHaveOneRow, LoadedMatchesAreShown, HighlightIsRemembered, PTL

\* Nothing is requested, polled or taken from a list before the service tab is opened.
THEOREM NothingBeforeOpening == ControlSpec => []BeforeOpening
<1>1. ControlInit /\ [][ControlNext]_allVars => []BeforeOpening
  <2>1. UseInv => BeforeOpening
    BY DEF UseInv
  <2>2. QED
    BY <2>1, InitUseInv, UseInvStep, PTL
<1>2. QED
  BY <1>1, PTL DEF ControlSpec
-----------------------------------------------------------------------------
(* The timers.  That each stops at last needs that it fires (PollingEnds); that  *)
(* it can fire so often only, and that nothing starts it again, is true of every *)
(* step.                                                                         *)

PollsLeft(i) == IF polls[i].on THEN 1 + MaxPolls - polls[i].cnt ELSE 0

CountedTimer == [path : Units \cup {JobPath}, cnt : 0..MaxPolls, on : BOOLEAN]

TimersCount == polls \in Seq(CountedTimer)

\* What a firing does to the timers: the one that fired has a poll less before it, and
\* the others are as they were.
LEMMA PollDescends ==
  ASSUME TimersCount, NEW i \in DOMAIN polls, Poll(i)
  PROVE  /\ TimersCount'
         /\ DOMAIN polls' = DOMAIN polls
         /\ PollsLeft(i)' < PollsLeft(i)
         /\ \A j \in DOMAIN polls \ {i} : polls'[j] = polls[j]
<1>1. /\ MaxPolls \in Nat
      /\ polls \in Seq(CountedTimer)
      /\ polls[i] \in CountedTimer
      /\ polls[i].cnt \in 0..MaxPolls
      /\ polls[i].on
  <2>1. polls[i] \in CountedTimer
    BY DEF TimersCount
  <2>2. QED
    BY <2>1, UnitAssumption DEF TimersCount, CountedTimer, Poll
<1>2. CASE polls' = [polls EXCEPT ![i].on = FALSE]
  <2>1. TimersCount'
    <3>1. [polls[i] EXCEPT !.on = FALSE] \in CountedTimer
      BY <1>1 DEF CountedTimer
    <3>2. polls' = [polls EXCEPT ![i] = [polls[i] EXCEPT !.on = FALSE]]
      BY <1>2
    <3>3. QED
      BY <1>1, <3>1, <3>2 DEF TimersCount
  <2>2. DOMAIN polls' = DOMAIN polls /\ polls'[i].on = FALSE
    BY <1>1, <1>2 DEF CountedTimer
  <2>3. PollsLeft(i)' = 0 /\ PollsLeft(i) = 1 + MaxPolls - polls[i].cnt
    BY <1>1, <2>2 DEF PollsLeft
  <2>4. QED
    BY <1>1, <1>2, <2>1, <2>2, <2>3
<1>3. CASE /\ polls[i].cnt < MaxPolls
           /\ polls' = [polls EXCEPT ![i].cnt = polls[i].cnt + 1]
  <2>1. polls[i].cnt + 1 \in 0..MaxPolls
    BY <1>1, <1>3
  <2>2. TimersCount'
    <3>1. [polls[i] EXCEPT !.cnt = polls[i].cnt + 1] \in CountedTimer
      BY <1>1, <2>1 DEF CountedTimer
    <3>2. polls' = [polls EXCEPT ![i] = [polls[i] EXCEPT !.cnt = polls[i].cnt + 1]]
      BY <1>3
    <3>3. QED
      BY <1>1, <3>1, <3>2 DEF TimersCount
  <2>3. /\ DOMAIN polls' = DOMAIN polls
        /\ polls'[i].on = polls[i].on
        /\ polls'[i].cnt = polls[i].cnt + 1
    BY <1>1, <1>3 DEF CountedTimer
  <2>4. /\ PollsLeft(i)' = 1 + MaxPolls - (polls[i].cnt + 1)
        /\ PollsLeft(i) = 1 + MaxPolls - polls[i].cnt
    BY <1>1, <2>3 DEF PollsLeft
  <2>5. QED
    BY <1>1, <1>3, <2>2, <2>3, <2>4
<1>4. QED
  BY <1>1, <1>2, <1>3 DEF Poll, MorePolls

\* A request starts a timer of its own and leaves the others alone.
LEMMA TimerStarted ==
  ASSUME TimersCount, NEW path \in Units \cup {JobPath},
         polls' = Append(polls, [path |-> path, cnt |-> 0, on |-> TRUE])
  PROVE  TimersCount' /\ \A j \in DOMAIN polls : j \in DOMAIN polls' /\ polls'[j] = polls[j]
<1> DEFINE timer == [path |-> path, cnt |-> 0, on |-> TRUE]
<1>1. timer \in CountedTimer
  BY UnitAssumption DEF CountedTimer
<1>2. polls' = Append(polls, timer) /\ polls \in Seq(CountedTimer)
  BY DEF TimersCount
<1> HIDE DEF timer
<1>3. /\ Append(polls, timer) \in Seq(CountedTimer)
      /\ \A j \in 1..Len(polls) : Append(polls, timer)[j] = polls[j]
      /\ Len(Append(polls, timer)) = Len(polls) + 1
  BY <1>1, <1>2
<1>4. DOMAIN polls = 1..Len(polls) /\ DOMAIN polls' = 1..Len(polls') /\ Len(polls) \in Nat
  BY <1>2, <1>3
<1>5. QED
  BY <1>2, <1>3, <1>4 DEF TimersCount

\* The firings a timer has before it become fewer with each, and more with nothing.
Descent ==
  \A i \in DOMAIN polls :
    /\ i \in DOMAIN polls'
    /\ PollsLeft(i)' <= PollsLeft(i)
    /\ Poll(i) => PollsLeft(i)' < PollsLeft(i)

\* What every step does to the timers.
LEMMA TimersStep ==
  ASSUME ControlInv, TimersCount, [ControlNext]_allVars
  PROVE  TimersCount' /\ [Descent]_allVars
<1>1. ASSUME NEW i \in DOMAIN polls
      PROVE  PollsLeft(i) \in Nat
  <2>1. polls[i] \in CountedTimer
    BY <1>1 DEF TimersCount
  <2>2. polls[i].cnt \in 0..MaxPolls /\ MaxPolls \in Nat
    BY <2>1, UnitAssumption DEF CountedTimer
  <2>3. QED
    BY <2>2 DEF PollsLeft
<1>2. ASSUME NEW i \in DOMAIN polls, Poll(i)
      PROVE  TimersCount' /\ Descent
  <2>1. /\ TimersCount'
        /\ DOMAIN polls' = DOMAIN polls
        /\ PollsLeft(i)' < PollsLeft(i)
        /\ \A j \in DOMAIN polls \ {i} : polls'[j] = polls[j]
    BY <1>2, PollDescends
  <2>2. \A j \in DOMAIN polls \ {i} : PollsLeft(j)' = PollsLeft(j)
    BY <2>1 DEF PollsLeft
  <2>3. \A j \in DOMAIN polls : Poll(j) => PollsLeft(j)' < PollsLeft(j)
    BY PollDescends
  <2>4. PollsLeft(i)' <= PollsLeft(i)
    <3>1. polls'[i] \in CountedTimer
      BY <2>1 DEF TimersCount
    <3>2. polls'[i].cnt \in 0..MaxPolls /\ MaxPolls \in Nat
      BY <3>1, UnitAssumption DEF CountedTimer
    <3>3. PollsLeft(i)' \in Nat
      BY <3>2 DEF PollsLeft
    <3>4. QED
      BY <1>1, <2>1, <3>3
  <2>5. QED
    BY <1>1, <2>1, <2>2, <2>3, <2>4 DEF Descent
<1>3. ASSUME \A i \in DOMAIN polls : i \in DOMAIN polls' /\ polls'[i] = polls[i]
      PROVE  Descent
  <2>1. \A i \in DOMAIN polls : PollsLeft(i)' = PollsLeft(i)
    BY <1>3 DEF PollsLeft
  <2>2. \A j \in DOMAIN polls : Poll(j) => PollsLeft(j)' < PollsLeft(j)
    BY PollDescends
  <2>3. QED
    BY <1>1, <1>3, <2>1, <2>2 DEF Descent
<1>4. CASE UNCHANGED polls
  <2>1. TimersCount'
    BY <1>4 DEF TimersCount
  <2>2. QED
    BY <1>3, <1>4, <2>1
<1>5. CASE ReadEntry
  <2>1. \/ UNCHANGED polls
        \/ polls' = Append(polls, [path |-> call.path, cnt |-> 0, on |-> TRUE])
    BY <1>5 DEF ReadEntry
  <2>2. call.path \in Units \cup {JobPath}
    BY <1>5 DEF ReadEntry, ControlInv, Kinds
  <2>3. CASE polls' = Append(polls, [path |-> call.path, cnt |-> 0, on |-> TRUE])
    BY <1>3, <2>2, <2>3, TimerStarted
  <2>4. QED
    BY <1>4, <2>1, <2>3
<1>6. CASE \E i \in DOMAIN polls : Poll(i)
  BY <1>2, <1>6
<1>7. CASE /\ ControlNext
           /\ ~ReadEntry
           /\ ~ \E i \in DOMAIN polls : Poll(i)
  <2>1. UNCHANGED polls
    BY <1>7 DEF ControlNext, Systemd, Request, GetUnit, SetServiceStartupMode,
                SystemctlFinished, StartJob, ListReady, AskForList, Browse, ctrlVars, pollVars
  <2>2. QED
    BY <1>4, <2>1
<1>8. CASE UNCHANGED allVars
  BY <1>4, <1>8 DEF allVars, ctrlVars, pollVars
<1>9. QED
  BY <1>5, <1>6, <1>7, <1>8

\* A timer fires 1 + MaxPolls times at most (seven in the code), whatever systemd answers,
\* and one that has stopped stays stopped: a later request for the service starts a timer
\* of its own.
THEOREM TimersRunOut == ControlSpec => [][Descent]_allVars
<1>1. ControlInit => TimersCount
  BY DEF ControlInit, TimersCount
<1>2. ControlInv /\ TimersCount /\ [ControlNext]_allVars => TimersCount' /\ [Descent]_allVars
  BY TimersStep
<1>3. QED
  BY <1>1, <1>2, ControlInvariance, PTL DEF ControlSpec
=============================================================================
