---------------------------- MODULE ServiceTable ----------------------------
(***************************************************************************)
(* The table of services: SystemServiceTableModel                            *)
(* (src/src/model/system_service_table_model.cpp) and the loading, selecting *)
(* and searching of SystemServiceTableView                                   *)
(* (src/src/gui/system_service_table_view.cpp).                              *)
(*                                                                         *)
(* The model keeps a list of names and a map from name to entry, and lets    *)
(* the view have the rows in batches: m_nr of them are loaded.  Between the   *)
(* two stands a QSortFilterProxyModel (external), which keeps a slot for each *)
(* row it was told of and shows those its filter accepted when it was told.   *)
(*                                                                         *)
(* Rows are counted from 1.  Texts are model values: a search pattern is the  *)
(* set of texts that contain it, and Blank is the text of a row that has no   *)
(* entry.  The filter looks at the name only.                                *)
(***************************************************************************)
EXTENDS Integers, Sequences, FiniteSets, SequencesExt

CONSTANTS
  Names,   \* service names
  Values,  \* what an entry says of its service
  Batch,   \* rows loaded at a time, 100 in the code
  Blank,   \* the empty text
  None     \* no selection

ASSUME BatchAssumption == Batch \in Nat \ {0}

ASSUME NamesAssumption == IsFiniteSet(Names)

ASSUME NoneAssumption == None \notin Names

VARIABLES
  m_svcList,          \* names, in the order of their rows
  m_svcMap,           \* name -> entry
  m_nr,               \* number of loaded rows
  proxy,              \* the proxy model: its slots and the rows it shows
  pattern,            \* texts the search pattern matches
  selected,           \* service of the selected row
  m_selectedSName,    \* service of the last row selected
  defer_initialized,  \* the service tab has been opened
  m_loading,          \* the view is disabled, waiting for a list
  jobs                \* lists asked of the worker and not arrived

modelVars == <<m_svcList, m_svcMap, m_nr>>
loadVars  == <<defer_initialized, m_loading, jobs>>
tableVars == <<modelVars, proxy, pattern, selected, m_selectedSName, loadVars>>

EmptyPattern == Names \cup {Blank}
Patterns == (SUBSET Names) \cup {EmptyPattern}

TableInit ==
  /\ m_svcList = << >>
  /\ m_svcMap = << >>
  /\ m_nr = 0
  /\ proxy = [slots |-> 0, shown |-> {}]
  /\ pattern = EmptyPattern
  /\ selected = None
  /\ m_selectedSName = None
  /\ defer_initialized = FALSE
  /\ m_loading = FALSE
  /\ jobs = 0

-----------------------------------------------------------------------------
(* The proxy model                                                         *)

\* data() of a row: rows past the list have no text.
Text(list, row) == IF row \in 1..Len(list) THEN list[row] ELSE Blank

\* Mutant of FilterAcceptsRow: the validity of the index is not checked.
FilterAcceptsAnyRow(list, nr, pat, row) == Text(list, row) \in pat

\* filterAcceptsRow: index(row, column) is invalid from rowCount() on.
FilterAcceptsRow(list, nr, pat, row) == row <= nr /\ Text(list, row) \in pat

AcceptedRows(list, nr, pat, rows) ==
  {row \in rows : FilterAcceptsRow(list, nr, pat, row)}

\* rowsInserted(start, start + n - 1): rows past the slots make the proxy drop
\* its mapping and build it from rowCount() again.
RowsInserted(px, list, nr, start, n) ==
  IF start > px.slots + 1
  THEN [slots |-> nr, shown |-> AcceptedRows(list, nr, pattern, 1..nr)]
  ELSE [slots |-> px.slots + n,
        shown |-> {IF row >= start THEN row + n ELSE row : row \in px.shown}
                    \cup AcceptedRows(list, nr, pattern, start..(start + n - 1))]

\* Mutant of More: qMin is missing.
MoreInWholeBatches(list, nr) == IF Len(list) - nr <= 0 THEN 0 ELSE Batch

\* The rows fetchMore adds.  The proxy fetches all that is left under a search.
More(list, nr) ==
  LET left == Len(list) - nr IN
    IF left <= 0 THEN 0
    ELSE IF pattern = EmptyPattern /\ Batch < left THEN Batch ELSE left

\* The proxy after fetchMore announced those rows.
Fetched(px, list, nr) ==
  LET more == More(list, nr) IN
    IF more = 0 THEN px ELSE RowsInserted(px, list, nr + more, nr + 1, more)

\* The selection after a change of the shown rows: a row that left is not
\* selected, and selectionChanged does not note an empty selection.
KeepSelection ==
  /\ selected' = IF \E row \in proxy'.shown : Text(m_svcList', row) = selected
                 THEN selected ELSE None
  /\ UNCHANGED m_selectedSName

-----------------------------------------------------------------------------
(* The model's operations                                                  *)

\* updateServiceEntry of a name on the list.
ReplaceEntry(name, value) ==
  /\ name \in DOMAIN m_svcMap
  /\ m_svcMap' = IF \E row \in DOMAIN m_svcList : m_svcList[row] = name
                 THEN [m_svcMap EXCEPT ![name] = value] ELSE m_svcMap
  /\ UNCHANGED <<m_svcList, m_nr, proxy, selected, m_selectedSName>>

\* Mutant of CurrentRowChanged: the row that was last before is selected.
CurrentRowChangedByNumber(px, list, row) ==
  /\ m_nr' = m_nr + More(list, m_nr)
  /\ proxy' = Fetched(px, list, m_nr)
  /\ selected' = IF row - 1 \in proxy'.shown THEN list[row - 1] ELSE None
  /\ m_selectedSName' = list[row]

\* The slot of currentRowChanged: more rows are fetched and the new one is
\* selected, which clears the selection if it is not loaded or filtered out.
CurrentRowChanged(px, list, row) ==
  /\ m_nr' = m_nr + More(list, m_nr)
  /\ proxy' = Fetched(px, list, m_nr)
  /\ \/ /\ row \in proxy'.shown
        /\ selected' = list[row]
        /\ m_selectedSName' = list[row]
     \/ /\ row \notin proxy'.shown
        /\ selected' = None
        /\ UNCHANGED m_selectedSName

\* updateServiceEntry of a new name: the row is announced while rowCount() does
\* not count it yet, and again by the fetchMore that counts it.
AppendEntry(name, value) ==
  /\ name \notin DOMAIN m_svcMap
  /\ LET row == Len(m_svcList) + 1
         list == Append(m_svcList, name)
     IN
       /\ m_svcList' = list
       /\ m_svcMap' = [known \in DOMAIN m_svcMap \cup {name} |->
                         IF known = name THEN value ELSE m_svcMap[known]]
       /\ CurrentRowChanged(RowsInserted(proxy, list, m_nr, row, 1), list, row)

UpdateServiceEntry(name, value) ==
  /\ \/ ReplaceEntry(name, value)
     \/ AppendEntry(name, value)
  /\ UNCHANGED <<pattern, loadVars>>

\* Mutant of ResetRows: the map survives.
ResetRowsKeepingMap ==
  /\ m_svcList' = << >>
  /\ UNCHANGED <<m_svcMap, m_nr>>

\* reset(): the list and the map are emptied; m_nr is not.
ResetRows ==
  /\ m_svcList' = << >>
  /\ m_svcMap' = << >>
  /\ UNCHANGED m_nr

\* Mutant of UpdateServiceList: an empty list does not end the loading.
UpdateServiceListIfAny(list) ==
  /\ jobs > 0
  /\ jobs' = jobs - 1
  /\ m_svcList' = [row \in DOMAIN list |-> list[row].name]
  /\ m_svcMap' = [name \in {list[row].name : row \in DOMAIN list} |->
                    list[CHOOSE r \in DOMAIN list : list[r].name = name].value]
  /\ m_nr' = 0
  /\ proxy' = [slots |-> 0, shown |-> {}]
  /\ selected' = None
  /\ m_loading' = (list = << >>)
  /\ UNCHANGED <<pattern, m_selectedSName, defer_initialized>>

\* updateServiceList, with the modelReset that ends the loading.  The list is a
\* sequence of records, a name and what is said of it, with no name twice.
UpdateServiceList(list) ==
  /\ jobs > 0
  /\ jobs' = jobs - 1
  /\ m_svcList' = [row \in DOMAIN list |-> list[row].name]
  /\ m_svcMap' = [name \in {list[row].name : row \in DOMAIN list} |->
                    list[CHOOSE r \in DOMAIN list : list[r].name = name].value]
  /\ m_nr' = 0
  /\ proxy' = [slots |-> 0, shown |-> {}]
  /\ selected' = None
  /\ m_loading' = FALSE
  /\ UNCHANGED <<pattern, m_selectedSName, defer_initialized>>

-----------------------------------------------------------------------------
(* The view                                                                *)

\* updateServiceList of ServiceManager: beginUpdateList disables the view and
\* the toolbar in the call, and queues a job for the worker.
BeginUpdateList ==
  /\ m_loading' = TRUE
  /\ jobs' = jobs + 1

\* The service tab is opened for the first time.
OpenServiceTab ==
  /\ ~m_loading
  /\ ~defer_initialized
  /\ defer_initialized' = TRUE
  /\ BeginUpdateList
  /\ UNCHANGED <<modelVars, proxy, pattern, selected, m_selectedSName>>

\* Mutant of MayRefresh: loading does not stop another refresh.
MayRefreshAgain == defer_initialized

MayRefresh == defer_initialized /\ ~m_loading

\* refresh(), from the menu or F5: the rows 1 .. Len(m_svcList) are announced as
\* removed, of which the proxy knows its slots only.
Refresh ==
  /\ MayRefresh
  /\ ResetRows
  /\ proxy' = LET cut == Len(m_svcList) IN
                [slots |-> IF proxy.slots > cut THEN proxy.slots - cut ELSE 0,
                 shown |-> {row - cut : row \in {r \in proxy.shown : r > cut}}]
  /\ KeepSelection
  /\ BeginUpdateList
  /\ UNCHANGED <<pattern, defer_initialized>>

\* The view comes to the end of the loaded rows.
FetchMore ==
  /\ ~m_loading
  /\ m_nr < Len(m_svcList)
  /\ m_nr' = m_nr + More(m_svcList, m_nr)
  /\ proxy' = Fetched(proxy, m_svcList, m_nr)
  /\ UNCHANGED <<m_svcList, m_svcMap, pattern, selected, m_selectedSName, loadVars>>

\* search(): each slot goes through the filter again.
Search(pat) ==
  /\ ~m_loading
  /\ pattern' = pat
  /\ proxy' = [proxy EXCEPT !.shown =
                 AcceptedRows(m_svcList, m_nr, pat, 1..proxy.slots)]
  /\ UNCHANGED <<modelVars, loadVars>>
  /\ KeepSelection

\* A click selects a row, and with Ctrl on the selected row selects none.
Click(row) ==
  /\ ~m_loading
  /\ row \in proxy.shown
  /\ selected' = Text(m_svcList, row)
  /\ m_selectedSName' = Text(m_svcList, row)
  /\ UNCHANGED <<modelVars, proxy, pattern, loadVars>>

Deselect ==
  /\ ~m_loading
  /\ selected # None
  /\ selected' = None
  /\ UNCHANGED <<modelVars, proxy, pattern, m_selectedSName, loadVars>>

UseTable ==
  \/ OpenServiceTab
  \/ Refresh
  \/ FetchMore
  \/ \E pat \in Patterns : Search(pat)
  \/ \E row \in proxy.shown : Click(row)
  \/ Deselect

-----------------------------------------------------------------------------
(* The table alone, with any lists and entries                             *)

\* The worker lists each service once, in any order.
Lists ==
  {list \in BoundedSeq([name : Names, value : Values], Cardinality(Names)) :
     \A r, s \in DOMAIN list : list[r].name = list[s].name => r = s}

\* A list arrives.
ListArrives == \E list \in Lists : UpdateServiceList(list)

TableNext ==
  \/ UseTable
  \/ ListArrives
  \/ /\ defer_initialized
     /\ \E name \in Names, value \in Values : UpdateServiceEntry(name, value)

TableSpec == TableInit /\ [][TableNext]_tableVars

-----------------------------------------------------------------------------
(* Properties *)

TableTypeOK ==
  /\ m_svcList \in Seq(Names)
  /\ DOMAIN m_svcMap \subseteq Names
  /\ \A name \in DOMAIN m_svcMap : m_svcMap[name] \in Values
  /\ m_nr \in 0..Cardinality(Names)
  /\ proxy \in [slots : Nat, shown : SUBSET (Nat \ {0})]
  /\ pattern \in Patterns
  /\ selected \in Names \cup {None}
  /\ m_selectedSName \in Names \cup {None}
  /\ defer_initialized \in BOOLEAN
  /\ m_loading \in BOOLEAN
  /\ jobs \in Nat

\* Each service with an entry has one row and each row an entry, through
\* refreshes, lists and single entries that arrive before the list.
OneRowPerService ==
  /\ Range(m_svcList) = DOMAIN m_svcMap
  /\ \A r, s \in DOMAIN m_svcList : m_svcList[r] = m_svcList[s] => r = s

\* Unless a list is awaited, the proxy shows exactly the loaded rows that match
\* the search: no blank row although updateServiceEntry announces its row twice,
\* and none missing although the proxy may drop its mapping.
ShowsLoadedMatches ==
  ~m_loading =>
    /\ m_nr <= Len(m_svcList)
    /\ proxy.shown = {row \in 1..m_nr : m_svcList[row] \in pattern}

\* The service start, stop and restart are about is the one highlighted.
SelectionIsRemembered ==
  selected # None =>
    /\ selected = m_selectedSName
    /\ \E row \in proxy.shown : m_svcList[row] = selected
=============================================================================
