-------------------------- MODULE MCStatsCollector --------------------------
(* StatsCollector with init, the program itself and two more ids.            *)
EXTENDS StatsCollector

MCKind(fields) == [f \in KindFields |-> f \in fields]

\* A service of another user starts.
MCServices == {MCKind({})}

\* Process 4 was started by process 3.
MCFirst(kind3, kind4) ==
  (3 :> [ppid |-> Init1, kind |-> MCKind(kind3)])
    @@ (4 :> [ppid |-> 3, kind |-> MCKind(kind4)])

\* An application that was started by one with a window, or by a service; two
\* windows; and none of them.
MCFirsts ==
  {MCFirst({"own", "window"}, {"own", "app"}), MCFirst({}, {"own", "app"}),
   MCFirst({"own", "window"}, {"own", "window"}), << >>}
=============================================================================
