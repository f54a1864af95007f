------------------------ MODULE PriorityControlProofs ------------------------
(***************************************************************************)
(* The priority on display was real, and a request has one outcome, for any     *)
(* number of processes and requests, any priorities and any lists.              *)
(***************************************************************************)
EXTENDS PriorityControl, TLAPS

Request == [pid : Pids, prio : Priorities]
Event == [req : Requests, code : Int]

ShownTypes ==
  /\ shown \in [DOMAIN shown -> Table!Entry]
  /\ DOMAIN shown \subseteq Pids
  /\ nice \in [DOMAIN nice -> Priorities]
  /\ DOMAIN nice \subseteq Pids
  /\ had \in [Pids -> SUBSET Priorities]
  /\ list \in Snapshots \cup {None}

RequestTypes ==
  /\ request \in [Requests -> Request \cup {None}]
  /\ ctrl \in [Requests -> {"none", "checkPkexec", "checkRenice", "execute", "prompt",
                            "report", "finished"}]
  /\ rc \in [Requests -> Int]
  /\ events \in Seq(Event)
  /\ answers \in [Requests -> Seq({"changed", "error"})]

-----------------------------------------------------------------------------
(* Outcomes                                                                *)

Able == hasPkexec /\ hasRenice

HasEvent(r) == \E i \in 1..Len(events) : events[i].req = r

\* One outcome at most, told or on its way.
Single(r) ==
  /\ Len(answers[r]) <= 1
  /\ HasEvent(r) => answers[r] = << >>
  /\ \A i, j \in 1..Len(events) : events[i].req = r /\ events[j].req = r => i = j

\* Only errors, told or on their way.
Failing(r) ==
  /\ \A i \in 1..Len(answers[r]) : answers[r][i] = "error"
  /\ \A i \in 1..Len(events) : events[i].req = r => events[i].code # 0

\* Only controllers of requests that were made report.
NoOutcomeBefore ==
  \A r \in Requests :
    /\ request[r] = None => ctrl[r] = "none" /\ answers[r] = << >>
    /\ ctrl[r] = "none" => ~HasEvent(r)

\* A controller that finds its programs reports at its end only, one that does not
\* always fails.
ReportsAtEnd ==
  \A r \in Requests :
    Able /\ ctrl[r] \notin {"none", "finished"} => answers[r] = << >> /\ ~HasEvent(r)

AbleOnce == \A r \in Requests : ctrl[r] = "none" \/ Able => Single(r)

UnableFails == \A r \in Requests : ctrl[r] # "none" /\ ~Able => Failing(r)

ExitCodes ==
  \A r \in Requests :
    /\ ctrl[r] = "prompt" => hasPkexec
    /\ ctrl[r] = "report" /\ rc[r] = 0 => Able

OInv ==
  RequestTypes /\ NoOutcomeBefore /\ ReportsAtEnd /\ AbleOnce /\ UnableFails /\ ExitCodes

-----------------------------------------------------------------------------
(* Priorities                                                              *)

NiceWasHad == \A p \in DOMAIN nice : nice[p] \in had[p]

\* A list on its way says what was true when it was read.
ListWasReal ==
  list # None => \A i \in 1..Len(list) : list[i].prio \in had[list[i].pid]

\* The process has had the priority that was asked for.
Done(r) == request[r].prio \in had[request[r].pid]

ResultsAreReal ==
  /\ \A i \in 1..Len(events) : events[i].code = 0 => Done(events[i].req)
  /\ \A r \in Requests : ctrl[r] = "report" /\ rc[r] = 0 => Done(r)

PInv == ShownTypes /\ NiceWasHad /\ ListWasReal /\ ResultsAreReal /\ ShownPriorityWasReal

IInv == OInv /\ PInv
-----------------------------------------------------------------------------
(* How answers and events change what is known of a request's outcome       *)

\* What one request's outcomes look like depends on its answers and its events only.
LEMMA OutcomesKept ==
  UNCHANGED <<answers, events>> =>
    \A q \in Requests : /\ HasEvent(q)' = HasEvent(q)
                        /\ Single(q)' = Single(q)
                        /\ Failing(q)' = Failing(q)
BY DEF HasEvent, Single, Failing

LEMMA EmitEffect ==
  ASSUME RequestTypes, NEW r \in Requests, NEW code \in Int,
         Emit(r, code), answers' = answers
  PROVE  /\ events' \in Seq(Event)
         /\ \A i \in 1..Len(events') :
              \/ i \in 1..Len(events) /\ events'[i] = events[i]
              \/ i = Len(events) + 1 /\ events'[i] = [req |-> r, code |-> code]
         /\ \A q \in Requests \ {r} : /\ HasEvent(q)' = HasEvent(q)
                                      /\ Single(q) => Single(q)'
                                      /\ Failing(q) => Failing(q)'
         /\ answers[r] = << >> /\ ~HasEvent(r) => Single(r)'
         /\ Failing(r) /\ code # 0 => Failing(r)'
<1> DEFINE new == [req |-> r, code |-> code]
           n == Len(events)
<1>1. events \in Seq(Event) /\ new \in Event
  BY DEF RequestTypes, Event
<1>2. /\ events' \in Seq(Event)
      /\ n \in Nat /\ Len(events') = n + 1
      /\ \A i \in 1..n : events'[i] = events[i]
      /\ events'[n + 1] = new
  BY <1>1 DEF Emit
<1>3. \A i \in 1..Len(events') : \/ i \in 1..n /\ events'[i] = events[i]
                                 \/ i = n + 1 /\ events'[i] = new
  BY <1>2
<1>4. \A q \in Requests \ {r} : HasEvent(q)' = HasEvent(q)
  BY <1>2, <1>3 DEF HasEvent
<1>5. \A q \in Requests \ {r} : Single(q) => Single(q)'
  BY <1>3, <1>4 DEF Single
<1>6. \A q \in Requests \ {r} : Failing(q) => Failing(q)'
  BY <1>3 DEF Failing
<1>7. ASSUME answers[r] = << >>, ~HasEvent(r)
      PROVE  Single(r)'
  <2>1. answers'[r] = << >> /\ Len(answers'[r]) = 0
    BY <1>7
  <2>2. \A i \in 1..Len(events') : events'[i].req = r => i = n + 1
    BY <1>3, <1>7 DEF HasEvent
  <2>3. QED
    BY <2>1, <2>2 DEF Single
<1>8. Failing(r) /\ code # 0 => Failing(r)'
  BY <1>3 DEF Failing
<1>9. QED
  BY <1>2, <1>3, <1>4, <1>5, <1>6, <1>7, <1>8

LEMMA AnswerEffect ==
  ASSUME RequestTypes, NEW r \in Requests, NEW o \in {"changed", "error"},
         Answer(r, o)
  PROVE  /\ answers' \in [Requests -> Seq({"changed", "error"})]
         /\ \A q \in Requests \ {r} : answers'[q] = answers[q]
         /\ answers[r] = << >> => Len(answers'[r]) = 1
         /\ o = "error" /\ (\A i \in 1..Len(answers[r]) : answers[r][i] = "error")
              => \A i \in 1..Len(answers'[r]) : answers'[r][i] = "error"
<1>1. answers \in [Requests -> Seq({"changed", "error"})]
  BY DEF RequestTypes
<1>2. /\ answers' \in [Requests -> Seq({"changed", "error"})]
      /\ answers'[r] = Append(answers[r], o)
      /\ \A q \in Requests \ {r} : answers'[q] = answers[q]
  BY <1>1 DEF Answer
<1>3. /\ Len(Append(answers[r], o)) = Len(answers[r]) + 1
      /\ \A i \in 1..Len(answers[r]) : Append(answers[r], o)[i] = answers[r][i]
      /\ Append(answers[r], o)[Len(answers[r]) + 1] = o
      /\ Len(answers[r]) \in Nat
  BY <1>1
<1>4. QED
  BY <1>2, <1>3

\* An event that is handled moves its outcome to the answers.
LEMMA HandleEffect ==
  ASSUME RequestTypes, HandleResult
  PROVE  /\ answers' \in [Requests -> Seq({"changed", "error"})]
         /\ events' \in Seq(Event)
         /\ \A i \in 1..Len(events') : i + 1 \in 1..Len(events) /\ events'[i] = events[i + 1]
         /\ \A q \in Requests : /\ HasEvent(q)' => HasEvent(q)
                                /\ ~HasEvent(q) => answers'[q] = answers[q]
                                /\ Single(q) => Single(q)'
                                /\ Failing(q) => Failing(q)'
<1> DEFINE n == Len(events)
<1>1. events \in Seq(Event) /\ events # << >> /\ events' = Tail(events)
  BY DEF RequestTypes, HandleResult
<1>2. /\ Head(events) \in Event /\ Head(events) = events[1]
      /\ events' \in Seq(Event)
      /\ n \in Nat \ {0} /\ Len(events') = n - 1
      /\ \A i \in 1..(n - 1) : events'[i] = events[i + 1]
  BY <1>1
<1>3. /\ 1 \in 1..n
      /\ \A i \in 1..Len(events') : i + 1 \in 1..n /\ events'[i] = events[i + 1]
  BY <1>2
<1>4. PICK r \in Requests, o \in {"changed", "error"} :
        /\ Answer(r, o) /\ r = events[1].req
        /\ events[1].code # 0 => o = "error"
  BY <1>2 DEF HandleResult, Event
<1>5. /\ answers' \in [Requests -> Seq({"changed", "error"})]
      /\ \A q \in Requests \ {r} : answers'[q] = answers[q]
      /\ answers[r] = << >> => Len(answers'[r]) = 1
      /\ o = "error" /\ (\A i \in 1..Len(answers[r]) : answers[r][i] = "error")
           => \A i \in 1..Len(answers'[r]) : answers'[r][i] = "error"
  BY <1>4, AnswerEffect
<1>6. HasEvent(r)
  BY <1>3, <1>4 DEF HasEvent
<1>7. \A q \in Requests : HasEvent(q)' => HasEvent(q)
  BY <1>3 DEF HasEvent
<1>8. ASSUME NEW q \in Requests, Single(q)
      PROVE  Single(q)'
  <2>1. \A i, j \in 1..Len(events') : events'[i].req = q /\ events'[j].req = q => i = j
    <3> SUFFICES ASSUME NEW i \in 1..Len(events'), NEW j \in 1..Len(events'),
                        events'[i].req = q, events'[j].req = q
                 PROVE  i = j
      OBVIOUS
    <3>1. /\ i + 1 \in 1..Len(events) /\ events[i + 1].req = q
          /\ j + 1 \in 1..Len(events) /\ events[j + 1].req = q
      BY <1>3
    <3>2. i + 1 = j + 1
      BY <1>8, <3>1 DEF Single
    <3>3. QED
      BY <3>2
  <2>2. CASE q = r
    <3>1. Len(answers'[q]) = 1
      BY <1>5, <1>6, <1>8, <2>2 DEF Single
    <3>2. ~HasEvent(q)'
      <4> SUFFICES ASSUME NEW i \in 1..Len(events'), events'[i].req = q
                   PROVE  FALSE
        BY DEF HasEvent
      <4>1. i + 1 = 1
        BY <1>3, <1>4, <1>8, <2>2 DEF Single
      <4>2. QED
        BY <4>1
    <3>3. QED
      BY <2>1, <3>1, <3>2 DEF Single
  <2>3. CASE q # r
    BY <1>5, <1>7, <1>8, <2>1, <2>3 DEF Single
  <2>4. QED
    BY <2>2, <2>3
<1>9. ASSUME NEW q \in Requests, Failing(q)
      PROVE  Failing(q)'
  <2>1. \A i \in 1..Len(events') : events'[i].req = q => events'[i].code # 0
    BY <1>3, <1>9 DEF Failing
  <2>2. q = r => o = "error"
    BY <1>3, <1>4, <1>9 DEF Failing
  <2>3. \A i \in 1..Len(answers'[q]) : answers'[q][i] = "error"
    BY <1>5, <1>9, <2>2 DEF Failing
  <2>4. QED
    BY <2>1, <2>3 DEF Failing
<1>10. \A q \in Requests : ~HasEvent(q) => answers'[q] = answers[q]
  BY <1>5, <1>6
<1>11. QED
  BY <1>2, <1>3, <1>5, <1>7, <1>8, <1>9, <1>10

-----------------------------------------------------------------------------
(* Every step keeps what is known of the outcomes                           *)

LEMMA QuietOutcomes ==
  ASSUME OInv, UNCHANGED <<hasPkexec, hasRenice, request, ctrlVars, answers>>
  PROVE  OInv'
<1>1. UNCHANGED <<hasPkexec, hasRenice, request, ctrl, rc, events, answers>>
  BY DEF ctrlVars
<1>2. RequestTypes' /\ ExitCodes'
  BY <1>1 DEF OInv, RequestTypes, ExitCodes, Able
<1>3. NoOutcomeBefore' /\ ReportsAtEnd' /\ AbleOnce' /\ UnableFails'
  BY <1>1, OutcomesKept DEF OInv, NoOutcomeBefore, ReportsAtEnd, AbleOnce, UnableFails, Able
<1>4. QED
  BY <1>2, <1>3 DEF OInv

\* A controller that finds its programs reports when it ends, one that does not
\* reports failures.
LEMMA ReportingOutcomes ==
  ASSUME OInv, NEW r \in Requests, ctrl[r] \notin {"none", "finished"},
         NEW next \in {"checkRenice", "execute", "finished"},
         ctrl' = [ctrl EXCEPT ![r] = next],
         NEW code \in Int, events' = events \/ Emit(r, code),
         events' # events => /\ Able => next = "finished"
                             /\ ~Able => code # 0,
         UNCHANGED <<hasPkexec, hasRenice, request, rc, answers>>
  PROVE  OInv'
<1>1. /\ RequestTypes /\ request[r] # None
      /\ Able => answers[r] = << >> /\ ~HasEvent(r)
      /\ ~Able => Failing(r)
  BY DEF OInv, NoOutcomeBefore, ReportsAtEnd, UnableFails
<1>2. /\ ctrl'[r] = next /\ next # "none"
      /\ \A q \in Requests \ {r} : ctrl'[q] = ctrl[q]
      /\ Able' = Able
  BY <1>1 DEF RequestTypes, Able
<1>3. /\ events' \in Seq(Event)
      /\ \A q \in Requests \ {r} : /\ HasEvent(q)' = HasEvent(q)
                                   /\ Single(q) => Single(q)'
                                   /\ Failing(q) => Failing(q)'
      /\ events' = events => HasEvent(r)' = HasEvent(r)
      /\ Able => Single(r)'
      /\ ~Able => Failing(r)'
  <2>1. CASE events' = events
    BY <1>1, <2>1, OutcomesKept DEF RequestTypes, OInv, AbleOnce
  <2>2. CASE events' # events
    BY <1>1, <2>2, EmitEffect
  <2>3. QED
    BY <2>1, <2>2
<1>4. RequestTypes'
  BY <1>1, <1>2, <1>3 DEF RequestTypes
<1>5. NoOutcomeBefore'
  BY <1>1, <1>2, <1>3 DEF OInv, NoOutcomeBefore
<1>6. ReportsAtEnd'
  <2> SUFFICES ASSUME NEW q \in Requests, Able, ctrl'[q] \notin {"none", "finished"}
               PROVE  answers[q] = << >> /\ ~HasEvent(q)'
    BY <1>2 DEF ReportsAtEnd
  <2>1. CASE q = r
    BY <1>1, <1>2, <1>3, <2>1
  <2>2. CASE q # r
    BY <1>2, <1>3, <2>2 DEF OInv, ReportsAtEnd
  <2>3. QED
    BY <2>1, <2>2
<1>7. AbleOnce' /\ UnableFails'
  BY <1>2, <1>3 DEF OInv, AbleOnce, UnableFails
<1>8. ExitCodes'
  BY <1>2 DEF OInv, ExitCodes
<1>9. QED
  BY <1>4, <1>5, <1>6, <1>7, <1>8 DEF OInv

LEMMA CheckOutcomes ==
  ASSUME OInv, NEW r \in Requests, CheckPkexec(r) \/ CheckRenice(r)
  PROVE  OInv'
<1>1. ENOENT \in Int /\ ENOENT # 0
  BY DEF ENOENT
<1>2. CASE CheckPkexec(r)
  <2>1. events' = events \/ (Emit(r, ENOENT) /\ ~Able)
    BY <1>2 DEF CheckPkexec, Check, Able
  <2>2. QED
    BY <1>1, <1>2, <2>1, ReportingOutcomes DEF CheckPkexec, Check, kernelVars
<1>3. CASE CheckRenice(r)
  <2>1. events' = events \/ (Emit(r, ENOENT) /\ ~Able)
    BY <1>3 DEF CheckRenice, Check, Able
  <2>2. QED
    BY <1>1, <1>3, <2>1, ReportingOutcomes DEF CheckRenice, Check, kernelVars
<1>4. QED
  BY <1>2, <1>3

\* A controller with a program missing has no exit code 0 to report.
LEMMA ReportResultOutcomes ==
  ASSUME OInv, NEW r \in Requests, ReportResult(r)
  PROVE  OInv'
<1>1. ctrl[r] = "report" /\ Emit(r, ResultCode(rc[r])) /\ rc[r] \in Int
  BY DEF ReportResult, OInv, RequestTypes
<1>2. ResultCode(rc[r]) \in Int /\ (ResultCode(rc[r]) = 0 => Able)
  BY <1>1 DEF OInv, ExitCodes, ResultCode, EPERM
<1>3. QED
  BY <1>1, <1>2, ReportingOutcomes DEF ReportResult, kernelVars

LEMMA PkexecOutcomes ==
  ASSUME OInv, NEW r \in Requests, StartPkexec(r) \/ FinishPkexec(r)
  PROVE  OInv'
<1>1. RequestTypes /\ ctrl[r] \in {"execute", "prompt"}
  BY DEF OInv, StartPkexec, FinishPkexec
<1>2. UNCHANGED <<hasPkexec, hasRenice, request, events, answers>>
  BY DEF StartPkexec, FinishPkexec, kernelVars
<1>3. /\ ctrl'[r] \in {"prompt", "report"}
      /\ ctrl' = [ctrl EXCEPT ![r] = ctrl'[r]]
      /\ rc' \in [Requests -> Int]
      /\ \A q \in Requests \ {r} : rc'[q] = rc[q]
      /\ ctrl'[r] = "prompt" => hasPkexec
      /\ ctrl'[r] = "report" /\ rc'[r] = 0 => Able
  <2>1. CASE StartPkexec(r)
    BY <1>1, <2>1 DEF RequestTypes, StartPkexec
  <2>2. CASE FinishPkexec(r)
    <3>1. ctrl[r] = "prompt" /\ hasPkexec /\ ctrl' = [ctrl EXCEPT ![r] = "report"]
      BY <2>2 DEF FinishPkexec, OInv, ExitCodes
    <3>2. \E code \in {-1, 126, 127, 1, 0} :
            rc' = [rc EXCEPT ![r] = code] /\ (code = 0 => hasRenice)
      BY <2>2 DEF FinishPkexec
    <3>3. QED
      BY <1>1, <3>1, <3>2 DEF RequestTypes, Able
  <2>3. QED
    BY <2>1, <2>2
<1>4. \A q \in Requests \ {r} : ctrl'[q] = ctrl[q]
  BY <1>1, <1>3 DEF RequestTypes
<1>5. Able' = Able
  BY <1>2 DEF Able
<1>6. RequestTypes' 
  BY <1>1, <1>2, <1>3 DEF RequestTypes
<1>7. ExitCodes'
  BY <1>2, <1>3, <1>4, <1>5 DEF OInv, ExitCodes
<1>8. NoOutcomeBefore' /\ ReportsAtEnd' /\ AbleOnce' /\ UnableFails'
  BY <1>1, <1>2, <1>3, <1>4, <1>5, OutcomesKept
  DEF OInv, NoOutcomeBefore, ReportsAtEnd, AbleOnce, UnableFails
<1>9. QED
  BY <1>6, <1>7, <1>8 DEF OInv

LEMMA HandleOutcomes == OInv /\ HandleResult => OInv'
<1> SUFFICES ASSUME OInv, HandleResult
             PROVE  OInv'
  OBVIOUS
<1>1. UNCHANGED <<hasPkexec, hasRenice, request, ctrl, rc>>
  BY DEF HandleResult, kernelVars
<1>2. /\ answers' \in [Requests -> Seq({"changed", "error"})]
      /\ events' \in Seq(Event)
      /\ \A q \in Requests : /\ HasEvent(q)' => HasEvent(q)
                             /\ ~HasEvent(q) => answers'[q] = answers[q]
                             /\ Single(q) => Single(q)'
                             /\ Failing(q) => Failing(q)'
  BY HandleEffect DEF OInv
<1>3. Able' = Able
  BY <1>1 DEF Able
<1>4. RequestTypes' /\ ExitCodes'
  BY <1>1, <1>2, <1>3 DEF OInv, RequestTypes, ExitCodes
<1>5. NoOutcomeBefore'
  BY <1>1, <1>2 DEF OInv, NoOutcomeBefore
<1>6. ReportsAtEnd' /\ AbleOnce' /\ UnableFails'
  BY <1>1, <1>2, <1>3 DEF OInv, ReportsAtEnd, AbleOnce, UnableFails
<1>7. QED
  BY <1>4, <1>5, <1>6 DEF OInv

\* A request that is made is told at once, handed to a controller, or forgotten.
LEMMA ChangeOutcomes ==
  ASSUME OInv, NEW r \in Requests, NEW p \in Pids, NEW prio \in Priorities,
         ChangeProcessPriority(r, p, prio)
  PROVE  OInv'
<1>1. /\ RequestTypes /\ request[r] = None
      /\ request' = [request EXCEPT ![r] = [pid |-> p, prio |-> prio]]
      /\ UNCHANGED <<hasPkexec, hasRenice, rc, events>>
  BY DEF OInv, ChangeProcessPriority
<1>2. ctrl[r] = "none" /\ answers[r] = << >> /\ ~HasEvent(r)
  BY <1>1 DEF OInv, NoOutcomeBefore
<1>3. /\ request' \in [Requests -> Request \cup {None}]
      /\ request'[r] # None
      /\ \A q \in Requests \ {r} : request'[q] = request[q]
  BY <1>1, NoneAssumption DEF RequestTypes, Request
<1>4. \/ UNCHANGED <<ctrl, answers>>
      \/ ctrl' = [ctrl EXCEPT ![r] = "checkPkexec"] /\ UNCHANGED answers
      \/ UNCHANGED ctrl /\ \E o \in {"changed", "error"} : Answer(r, o)
  BY DEF ChangeProcessPriority, SetProcessPriority, Promote
<1>5. /\ ctrl' \in [Requests -> {"none", "checkPkexec", "checkRenice", "execute", "prompt",
                                 "report", "finished"}]
      /\ \A q \in Requests \ {r} : ctrl'[q] = ctrl[q]
      /\ ctrl'[r] \in {"none", "checkPkexec"}
  BY <1>1, <1>2, <1>4 DEF RequestTypes
<1>6. /\ answers' \in [Requests -> Seq({"changed", "error"})]
      /\ \A q \in Requests \ {r} : answers'[q] = answers[q]
      /\ answers'[r] = << >> \/ Len(answers'[r]) = 1
      /\ ctrl'[r] # "none" => answers'[r] = << >>
  <2>1. CASE UNCHANGED answers
    BY <1>1, <1>2, <2>1 DEF RequestTypes
  <2>2. CASE UNCHANGED ctrl /\ \E o \in {"changed", "error"} : Answer(r, o)
    BY <1>1, <1>2, <2>2, AnswerEffect
  <2>3. QED
    BY <1>4, <2>1, <2>2
<1>7. \A q \in Requests : HasEvent(q)' = HasEvent(q)
  BY <1>1 DEF HasEvent
<1>8. /\ Single(r)'
      /\ ctrl'[r] # "none" => Failing(r)'
      /\ \A q \in Requests \ {r} : Single(q)' = Single(q) /\ Failing(q)' = Failing(q)
  <2>1. \A i \in 1..Len(events') : events'[i].req # r
    BY <1>1, <1>2 DEF HasEvent
  <2>2. Len(answers'[r]) <= 1
    <3>1. CASE answers'[r] = << >>
      BY <3>1
    <3>2. CASE Len(answers'[r]) = 1
      BY <3>2
    <3>3. QED
      BY <1>6, <3>1, <3>2
  <2>3. Single(r)'
    BY <1>2, <1>7, <2>1, <2>2 DEF Single
  <2>4. ctrl'[r] # "none" => Failing(r)'
    BY <1>6, <2>1 DEF Failing
  <2>5. \A q \in Requests \ {r} : Single(q)' = Single(q)
    BY <1>1, <1>6, <1>7 DEF Single
  <2>6. \A q \in Requests \ {r} : Failing(q)' = Failing(q)
    BY <1>1, <1>6 DEF Failing
  <2>7. QED
    BY <2>3, <2>4, <2>5, <2>6
<1>9. Able' = Able
  BY <1>1 DEF Able
<1>10. RequestTypes'
  BY <1>1, <1>3, <1>5, <1>6 DEF RequestTypes
<1>11. NoOutcomeBefore'
  <2>1. /\ request'[r] # None
        /\ ~HasEvent(r)'
    BY <1>2, <1>3, <1>7
  <2>2. ASSUME NEW q \in Requests \ {r}
        PROVE  /\ request'[q] = None => ctrl'[q] = "none" /\ answers'[q] = << >>
               /\ ctrl'[q] = "none" => ~HasEvent(q)'
    BY <1>3, <1>5, <1>6, <1>7, <2>2 DEF OInv, NoOutcomeBefore
  <2>3. QED
    BY <2>1, <2>2 DEF NoOutcomeBefore
<1>12. ReportsAtEnd'
  BY <1>2, <1>5, <1>6, <1>7, <1>9 DEF OInv, ReportsAtEnd
<1>13. AbleOnce' /\ UnableFails'
  BY <1>5, <1>8, <1>9 DEF OInv, AbleOnce, UnableFails
<1>14. ExitCodes'
  BY <1>1, <1>5, <1>9 DEF OInv, ExitCodes
<1>15. QED
  BY <1>10, <1>11, <1>12, <1>13, <1>14 DEF OInv

-----------------------------------------------------------------------------
(* The table and the kernel                                                *)

LEMMA UpdateEffect ==
  ASSUME ShownTypes, ShownPriorityWasReal, NEW p \in Pids, NEW prio \in Priorities,
         UpdateProcessPriority(p, prio)
  PROVE  /\ DOMAIN shown' = DOMAIN shown
         /\ shown' \in [DOMAIN shown -> Table!Entry]
         /\ \A q \in DOMAIN shown :
              /\ shown'[q].pid = q
              /\ shown'[q].prio = shown[q].prio \/ (q = p /\ shown'[q].prio = prio)
<1>1. CASE p \in DOMAIN shown
  <2>1. shown' = [shown EXCEPT ![p].prio = prio]
    BY <1>1 DEF UpdateProcessPriority, Table!ShowPriority
  <2>2. shown[p] \in Table!Entry /\ [shown[p] EXCEPT !.prio = prio] \in Table!Entry
    BY <1>1 DEF ShownTypes, Table!Entry
  <2>3. /\ DOMAIN shown' = DOMAIN shown
        /\ shown'[p] = [shown[p] EXCEPT !.prio = prio]
        /\ \A q \in DOMAIN shown \ {p} : shown'[q] = shown[q]
    BY <1>1, <2>1 DEF ShownTypes
  <2>4. shown'[p].pid = p /\ shown'[p].prio = prio
    BY <1>1, <2>2, <2>3 DEF ShownPriorityWasReal, Table!Entry
  <2>5. shown' \in [DOMAIN shown -> Table!Entry]
    BY <1>1, <2>1, <2>2 DEF ShownTypes
  <2>6. QED
    BY <2>3, <2>4, <2>5 DEF ShownPriorityWasReal
<1>2. CASE p \notin DOMAIN shown
  BY <1>2 DEF UpdateProcessPriority, ShownTypes, ShownPriorityWasReal
<1>3. QED
  BY <1>1, <1>2

LEMMA SetNiceEffect ==
  ASSUME ShownTypes, NiceWasHad, NEW p \in DOMAIN nice, NEW prio \in Priorities,
         SetNice(p, prio)
  PROVE  /\ DOMAIN nice' = DOMAIN nice
         /\ nice' \in [DOMAIN nice -> Priorities]
         /\ had' \in [Pids -> SUBSET Priorities]
         /\ \A q \in Pids : had[q] \subseteq had'[q]
         /\ prio \in had'[p]
         /\ NiceWasHad'
<1>1. p \in Pids /\ nice \in [DOMAIN nice -> Priorities] /\ had \in [Pids -> SUBSET Priorities]
  BY DEF ShownTypes
<1>2. /\ nice' = [nice EXCEPT ![p] = prio]
      /\ had' = [had EXCEPT ![p] = @ \cup {prio}]
  BY DEF SetNice
<1>3. /\ DOMAIN nice' = DOMAIN nice
      /\ nice' \in [DOMAIN nice -> Priorities]
      /\ nice'[p] = prio
      /\ \A q \in DOMAIN nice \ {p} : nice'[q] = nice[q]
  BY <1>1, <1>2
<1>4. /\ had' \in [Pids -> SUBSET Priorities]
      /\ had'[p] = had[p] \cup {prio}
      /\ \A q \in Pids \ {p} : had'[q] = had[q]
  BY <1>1, <1>2
<1>5. NiceWasHad'
  BY <1>3, <1>4 DEF NiceWasHad, ShownTypes
<1>6. QED
  BY <1>3, <1>4, <1>5

\* The row of a process in a list that holds it.
LEMMA IndexOfEffect ==
  ASSUME NEW entries \in Seq(Table!Entry), NEW p \in Table!PidsIn(entries)
  PROVE  /\ Table!IndexOf(entries, p) \in 1..Len(entries)
         /\ entries[Table!IndexOf(entries, p)].pid = p
         /\ entries[Table!IndexOf(entries, p)] \in Table!Entry
         /\ p \in Pids
<1>1. \E i \in 1..Len(entries) : entries[i].pid = p
  BY DEF Table!PidsIn
<1>2. /\ Table!IndexOf(entries, p) \in 1..Len(entries)
      /\ entries[Table!IndexOf(entries, p)].pid = p
  BY <1>1 DEF Table!IndexOf
<1>3. entries[Table!IndexOf(entries, p)] \in Table!Entry
  BY <1>2
<1>4. QED
  BY <1>2, <1>3 DEF Table!Entry

-----------------------------------------------------------------------------
(* Every step keeps what is known of the priorities                        *)

\* What has been is not forgotten.
LEMMA DoneStays ==
  ASSUME RequestTypes, \A p \in Pids : had[p] \subseteq had'[p],
         NEW r \in Requests, request[r] # None, request'[r] = request[r], Done(r)
  PROVE  Done(r)'
<1>1. request[r].pid \in Pids
  BY DEF RequestTypes, Request
<1>2. QED
  BY <1>1 DEF Done

LEMMA ListStays ==
  ASSUME ShownTypes, ListWasReal, list' = list, \A p \in Pids : had[p] \subseteq had'[p]
  PROVE  ListWasReal'
<1> SUFFICES ASSUME list # None, NEW i \in 1..Len(list)
             PROVE  list[i].prio \in had'[list[i].pid]
  BY DEF ListWasReal
<1>1. list[i].prio \in had[list[i].pid]
  BY DEF ListWasReal
<1>2. list \in Seq(Table!Entry)
  BY SnapshotsAssumption DEF ShownTypes
<1>3. list[i] \in Table!Entry
  BY <1>2
<1>4. list[i].pid \in Pids
  BY <1>3 DEF Table!Entry
<1>5. QED
  BY <1>1, <1>4

LEMMA ResultsStay ==
  ASSUME OInv, ResultsAreReal, UNCHANGED <<rc, events>>,
         \A q \in Requests : ctrl'[q] = "report" => ctrl[q] = "report",
         \A p \in Pids : had[p] \subseteq had'[p],
         \A q \in Requests : request[q] # None => request'[q] = request[q]
  PROVE  ResultsAreReal'
<1>1. ASSUME NEW i \in 1..Len(events), events[i].code = 0
      PROVE  Done(events[i].req)'
  <2>1. events[i] \in Event /\ events[i].req \in Requests
    <3>1. events[i] \in Event
      BY DEF OInv, RequestTypes
    <3>2. QED
      BY <3>1 DEF Event
  <2>2. request[events[i].req] # None
    BY <2>1 DEF OInv, NoOutcomeBefore, HasEvent
  <2>3. Done(events[i].req)
    BY <1>1 DEF ResultsAreReal
  <2>4. PICK q \in Requests : q = events[i].req
    BY <2>1
  <2>5. Done(q)'
    BY <2>2, <2>3, <2>4, DoneStays DEF OInv
  <2>6. QED
    BY <2>4, <2>5 DEF Done
<1>2. ASSUME NEW r \in Requests, ctrl'[r] = "report", rc[r] = 0
      PROVE  Done(r)'
  <2>1. request[r] # None /\ Done(r)
    BY <1>2 DEF OInv, NoOutcomeBefore, ResultsAreReal
  <2>2. QED
    BY <2>1, DoneStays DEF OInv
<1>3. QED
  BY <1>1, <1>2 DEF ResultsAreReal, Done

\* The processes and the other programs.
LEMMA KernelStep ==
  ASSUME IInv, NEW p \in Pids, Exit(p) \/ \E prio \in Priorities : OtherRenice(p, prio)
  PROVE  IInv'
<1>1. UNCHANGED <<shown, hasPkexec, hasRenice, list, request, ctrlVars, answers>>
  BY DEF Exit, OtherRenice
<1>2. OInv'
  BY <1>1, QuietOutcomes DEF IInv
<1>3. /\ DOMAIN nice' \subseteq DOMAIN nice
      /\ nice' \in [DOMAIN nice' -> Priorities]
      /\ had' \in [Pids -> SUBSET Priorities]
      /\ \A q \in Pids : had[q] \subseteq had'[q]
      /\ NiceWasHad'
  <2>1. CASE Exit(p)
    BY <2>1 DEF Exit, IInv, PInv, ShownTypes, NiceWasHad
  <2>2. CASE \E prio \in Priorities : OtherRenice(p, prio)
    BY <2>2, SetNiceEffect DEF OtherRenice, IInv, PInv
  <2>3. QED
    BY <2>1, <2>2
<1>4. ShownTypes'
  BY <1>1, <1>3 DEF IInv, PInv, ShownTypes
<1>5. ListWasReal' /\ ResultsAreReal'
  BY <1>1, <1>3, ListStays, ResultsStay DEF IInv, PInv, ctrlVars
<1>6. ShownPriorityWasReal'
  BY <1>1, <1>3 DEF IInv, PInv, ShownPriorityWasReal, ShownTypes
<1>7. QED
  BY <1>2, <1>3, <1>4, <1>5, <1>6 DEF IInv, PInv

\* The window of a process, or its lack, is no matter of its priority.
LEMMA ToggleStep ==
  ASSUME IInv, NEW p \in Pids, ToggleWindow(p)
  PROVE  IInv'
<1>1. UNCHANGED <<shown, nice, had, hasPkexec, hasRenice, list, request, ctrlVars, ctrl, rc,
                  events, answers>>
  BY DEF ToggleWindow, ctrlVars
<1>2. OInv'
  BY <1>1, QuietOutcomes DEF IInv
<1>3. PInv'
  BY <1>1 DEF IInv, PInv, ShownTypes, NiceWasHad, ListWasReal, ResultsAreReal, Done,
              ShownPriorityWasReal
<1>4. QED
  BY <1>2, <1>3 DEF IInv

\* What a scan emits, if anything, is true when it is read.
LEMMA ScanEffect ==
  ASSUME ShownTypes, NiceWasHad, ListWasReal, NEW type, Scan(type), UNCHANGED had
  PROVE  list' \in Snapshots \cup {None} /\ ListWasReal'
<1>1. CASE EmitList(type)
  <2>1. PICK entries \in Snapshots :
          /\ Table!PidsIn(entries) = {p \in DOMAIN nice : Needed(p, type)}
          /\ \A i \in 1..Len(entries) : entries[i].prio = nice[entries[i].pid]
          /\ list' = entries
    BY <1>1 DEF EmitList
  <2>2. \A i \in 1..Len(entries) : entries[i].pid \in DOMAIN nice
    BY <2>1 DEF Table!PidsIn
  <2>3. QED
    BY <2>1, <2>2 DEF ListWasReal, NiceWasHad
<1>2. CASE UNCHANGED list
  BY <1>2 DEF ShownTypes, ListWasReal
<1>3. QED
  BY <1>1, <1>2 DEF Scan

\* The steps of the statistics thread, any of which may emit a list.
Collect == ReadList \/ CacheUpdated \/ \E type \in FilterTypes : SetFilterType(type)

\* A list says what is true when it is read, and what was true when it is shown.
LEMMA ListStep == IInv /\ (Collect \/ ListArrives) => IInv'
<1> SUFFICES ASSUME IInv, Collect \/ ListArrives
             PROVE  IInv'
  OBVIOUS
<1>1. UNCHANGED <<kernelVars, request, ctrlVars, answers>>
  BY DEF Collect, ReadList, CacheUpdated, SetFilterType, ListArrives
<1>2. UNCHANGED <<nice, had, hasPkexec, hasRenice, ctrl, rc, events>>
  BY <1>1 DEF kernelVars, ctrlVars
<1>3. OInv'
  BY <1>1, <1>2, QuietOutcomes DEF IInv
<1>4. NiceWasHad' /\ ResultsAreReal'
  <2>1. \A q \in Pids : had[q] \subseteq had'[q]
    BY <1>2
  <2>2. ResultsAreReal'
    BY <1>1, <1>2, <2>1, ResultsStay DEF IInv, PInv
  <2>3. QED
    BY <1>2, <2>2 DEF IInv, PInv, NiceWasHad
<1>5. CASE Collect
  <2>1. PICK type : Scan(type) /\ shown' = shown
    BY <1>5 DEF Collect, ReadList, CacheUpdated, SetFilterType, Scan
  <2>2. list' \in Snapshots \cup {None} /\ ListWasReal'
    BY <1>2, <2>1, ScanEffect DEF IInv, PInv
  <2>3. ShownTypes' /\ ShownPriorityWasReal'
    BY <1>2, <2>1, <2>2 DEF IInv, PInv, ShownTypes, ShownPriorityWasReal
  <2>4. QED
    BY <1>3, <1>4, <2>2, <2>3 DEF IInv, PInv
<1>6. CASE ListArrives
  <2>1. /\ list # None /\ list' = None
        /\ shown' = [p \in Table!PidsIn(list) |-> list[Table!IndexOf(list, p)]]
    BY <1>6 DEF ListArrives, Table!ShowSnapshot
  <2>2. list \in Seq(Table!Entry)
    BY <2>1, SnapshotsAssumption DEF IInv, PInv, ShownTypes
  <2>3. \A p \in Table!PidsIn(list) : /\ Table!IndexOf(list, p) \in 1..Len(list)
                                      /\ shown'[p].pid = p
                                      /\ shown'[p] \in Table!Entry
                                      /\ p \in Pids
    BY <2>1, <2>2, IndexOfEffect
  <2>4. ShownTypes'
    BY <1>2, <2>1, <2>3 DEF IInv, PInv, ShownTypes
  <2>5. ShownPriorityWasReal'
    <3> SUFFICES ASSUME NEW p \in DOMAIN shown'
                 PROVE  shown'[p].pid = p /\ shown'[p].prio \in had'[p]
      BY DEF ShownPriorityWasReal
    <3>1. PICK i \in 1..Len(list) : shown'[p] = list[i]
      BY <2>1, <2>3
    <3>2. list[i].prio \in had[list[i].pid] /\ list[i].pid = p
      BY <2>1, <2>3, <3>1 DEF IInv, PInv, ListWasReal
    <3>3. QED
      BY <1>2, <3>1, <3>2
  <2>6. ListWasReal'
    BY <2>1 DEF ListWasReal
  <2>7. QED
    BY <1>3, <1>4, <2>4, <2>5, <2>6 DEF IInv, PInv
<1>7. QED
  BY <1>5, <1>6

LEMMA ChangeStep ==
  ASSUME IInv, NEW r \in Requests, NEW p \in Pids, NEW prio \in Priorities,
         ChangeProcessPriority(r, p, prio)
  PROVE  IInv'
<1>1. /\ OInv' /\ RequestTypes /\ ShownTypes /\ NiceWasHad /\ ShownPriorityWasReal
  BY ChangeOutcomes DEF IInv, PInv, OInv
<1>2. /\ request[r] = None
      /\ request' = [request EXCEPT ![r] = [pid |-> p, prio |-> prio]]
      /\ UNCHANGED <<list, rc, events>>
  BY DEF ChangeProcessPriority
<1>3. \/ UNCHANGED <<shown, nice, had>>
      \/ /\ p \in DOMAIN nice
         /\ SetNice(p, prio)
         /\ UpdateProcessPriority(p, prio)
  BY DEF ChangeProcessPriority, SetProcessPriority, Promote
<1>4. \A q \in Requests : /\ request[q] # None => request'[q] = request[q]
                          /\ ctrl'[q] = "report" => ctrl[q] = "report"
  <2>1. UNCHANGED ctrl \/ ctrl' = [ctrl EXCEPT ![r] = "checkPkexec"]
    BY DEF ChangeProcessPriority, SetProcessPriority, Promote
  <2>2. QED
    BY <1>1, <1>2, <2>1 DEF RequestTypes
<1>5. CASE UNCHANGED <<shown, nice, had>>
  <2>1. \A q \in Pids : had[q] \subseteq had'[q]
    BY <1>5
  <2>2. ShownTypes' /\ NiceWasHad' /\ ShownPriorityWasReal'
    BY <1>1, <1>2, <1>5 DEF ShownTypes, NiceWasHad, ShownPriorityWasReal
  <2>3. ListWasReal' /\ ResultsAreReal'
    BY <1>2, <1>4, <2>1, ListStays, ResultsStay DEF IInv, PInv
  <2>4. QED
    BY <1>1, <2>2, <2>3 DEF IInv, PInv
<1>6. CASE p \in DOMAIN nice /\ SetNice(p, prio) /\ UpdateProcessPriority(p, prio)
  <2>1. /\ DOMAIN nice' = DOMAIN nice
        /\ nice' \in [DOMAIN nice -> Priorities]
        /\ had' \in [Pids -> SUBSET Priorities]
        /\ \A q \in Pids : had[q] \subseteq had'[q]
        /\ prio \in had'[p]
        /\ NiceWasHad'
    BY <1>1, <1>6, SetNiceEffect
  <2>2. /\ DOMAIN shown' = DOMAIN shown
        /\ shown' \in [DOMAIN shown -> Table!Entry]
        /\ \A q \in DOMAIN shown :
             /\ shown'[q].pid = q
             /\ shown'[q].prio = shown[q].prio \/ (q = p /\ shown'[q].prio = prio)
    BY <1>1, <1>6, UpdateEffect
  <2>3. ShownTypes'
    BY <1>1, <1>2, <2>1, <2>2 DEF ShownTypes
  <2>4. ShownPriorityWasReal'
    BY <1>1, <2>1, <2>2 DEF ShownPriorityWasReal, ShownTypes
  <2>5. ListWasReal' /\ ResultsAreReal'
    BY <1>2, <1>4, <2>1, ListStays, ResultsStay DEF IInv, PInv
  <2>6. QED
    BY <1>1, <2>1, <2>3, <2>4, <2>5 DEF IInv, PInv
<1>7. QED
  BY <1>3, <1>5, <1>6

\* A result that is late shows a priority the process has had.
LEMMA HandleStep == IInv /\ HandleResult => IInv'
<1> SUFFICES ASSUME IInv, HandleResult
             PROVE  IInv'
  OBVIOUS
<1>1. /\ OInv' /\ RequestTypes /\ ShownTypes /\ ShownPriorityWasReal
  BY HandleOutcomes DEF IInv, PInv, OInv
<1>2. UNCHANGED <<nice, had, list, request, ctrl, rc>>
  BY DEF HandleResult, kernelVars
<1>3. /\ events \in Seq(Event) /\ events # << >>
      /\ Head(events) = events[1] /\ 1 \in 1..Len(events) /\ events[1] \in Event
  BY <1>1 DEF RequestTypes, HandleResult
<1>4. PICK r \in Requests : r = events[1].req
  BY <1>3 DEF Event
<1>5. HasEvent(r) /\ request[r] # None
  BY <1>1, <1>3, <1>4 DEF HasEvent, IInv, OInv, NoOutcomeBefore
<1>6. PICK p \in Pids, prio \in Priorities : request[r] = [pid |-> p, prio |-> prio]
  BY <1>1, <1>5 DEF RequestTypes, Request
<1>7. \/ UNCHANGED shown
      \/ events[1].code = 0 /\ UpdateProcessPriority(p, prio)
  BY <1>3, <1>4, <1>6 DEF HandleResult
<1>8. ShownTypes' /\ ShownPriorityWasReal'
  <2>1. CASE UNCHANGED shown
    BY <1>1, <1>2, <2>1 DEF ShownTypes, ShownPriorityWasReal
  <2>2. CASE events[1].code = 0 /\ UpdateProcessPriority(p, prio)
    <3>1. prio \in had[p]
      BY <1>3, <1>4, <1>6, <2>2 DEF IInv, PInv, ResultsAreReal, Done
    <3>2. /\ DOMAIN shown' = DOMAIN shown
          /\ shown' \in [DOMAIN shown -> Table!Entry]
          /\ \A q \in DOMAIN shown :
               /\ shown'[q].pid = q
               /\ shown'[q].prio = shown[q].prio \/ (q = p /\ shown'[q].prio = prio)
      BY <1>1, <2>2, UpdateEffect
    <3>3. ShownTypes'
      BY <1>1, <1>2, <3>2 DEF ShownTypes
    <3>4. ShownPriorityWasReal'
      BY <1>1, <1>2, <3>1, <3>2 DEF ShownPriorityWasReal
    <3>5. QED
      BY <3>3, <3>4
  <2>3. QED
    BY <1>7, <2>1, <2>2
<1>9. ResultsAreReal'
  <2>1. \A i \in 1..Len(events') : i + 1 \in 1..Len(events) /\ events'[i] = events[i + 1]
    BY <1>1, HandleEffect
  <2>2. ASSUME NEW i \in 1..Len(events'), events'[i].code = 0
        PROVE  request'[events'[i].req].prio \in had'[request'[events'[i].req].pid]
    <3>1. PICK j \in 1..Len(events) : events'[i] = events[j]
      BY <2>1
    <3>2. Done(events[j].req)
      BY <2>2, <3>1 DEF IInv, PInv, ResultsAreReal
    <3>3. QED
      BY <1>2, <3>1, <3>2 DEF Done
  <2>3. \A q \in Requests : ctrl'[q] = "report" /\ rc'[q] = 0 => Done(q)'
    BY <1>2 DEF IInv, PInv, ResultsAreReal, Done
  <2>4. QED
    BY <2>2, <2>3 DEF ResultsAreReal, Done
<1>10. NiceWasHad' /\ ListWasReal'
  BY <1>2 DEF IInv, PInv, NiceWasHad, ListWasReal
<1>11. QED
  BY <1>1, <1>8, <1>9, <1>10 DEF IInv, PInv

\* What a controller reports as done has been done.
LEMMA ReportingStep ==
  ASSUME IInv, OInv', NEW r \in Requests, NEW code \in Int,
         events' = events \/ (Emit(r, code) /\ (code = 0 => Done(r))),
         \A q \in Requests : ctrl'[q] = "report" => ctrl[q] = "report" \/ rc'[q] # 0,
         \A q \in Requests : rc'[q] = 0 => rc[q] = 0,
         UNCHANGED <<shown, kernelVars, list, request, answers>>
  PROVE  IInv'
<1>1. UNCHANGED <<nice, had>>
  BY DEF kernelVars
<1>2. \A q \in Requests : Done(q)' = Done(q)
  BY <1>1 DEF Done
<1>3. ShownTypes' /\ NiceWasHad' /\ ListWasReal' /\ ShownPriorityWasReal'
  BY <1>1 DEF IInv, PInv, ShownTypes, NiceWasHad, ListWasReal, ShownPriorityWasReal
<1>4. ASSUME NEW i \in 1..Len(events'), events'[i].code = 0
      PROVE  request'[events'[i].req].prio \in had'[request'[events'[i].req].pid]
  <2>1. CASE events' = events
    BY <1>1, <1>4, <2>1 DEF IInv, PInv, ResultsAreReal, Done
  <2>2. CASE Emit(r, code) /\ (code = 0 => Done(r))
    <3>1. \/ i \in 1..Len(events) /\ events'[i] = events[i]
          \/ events'[i] = [req |-> r, code |-> code]
      BY <2>2, EmitEffect DEF IInv, OInv
    <3>2. Done(events'[i].req)
      BY <1>4, <2>2, <3>1 DEF IInv, PInv, ResultsAreReal, Done
    <3>3. QED
      BY <1>1, <3>2 DEF Done
  <2>3. QED
    BY <2>1, <2>2
<1>5. \A q \in Requests : ctrl'[q] = "report" /\ rc'[q] = 0 => Done(q)'
  BY <1>2 DEF IInv, PInv, ResultsAreReal
<1>6. ResultsAreReal'
  BY <1>4, <1>5 DEF ResultsAreReal, Done
<1>7. QED
  BY <1>3, <1>6 DEF IInv, PInv

LEMMA CheckStep ==
  ASSUME IInv, NEW r \in Requests, CheckPkexec(r) \/ CheckRenice(r)
  PROVE  IInv'
<1>1. ENOENT \in Int /\ ENOENT # 0
  BY DEF ENOENT
<1>2. OInv'
  BY CheckOutcomes DEF IInv
<1>3. PICK to \in {"checkRenice", "execute"} : ctrl' = [ctrl EXCEPT ![r] = to]
  BY DEF CheckPkexec, CheckRenice, Check
<1>4. /\ events' = events \/ Emit(r, ENOENT)
      /\ UNCHANGED <<shown, kernelVars, list, request, rc, answers>>
  BY DEF CheckPkexec, CheckRenice, Check
<1>5. \A q \in Requests : ctrl'[q] = "report" => ctrl[q] = "report"
  BY <1>3 DEF IInv, OInv, RequestTypes
<1>6. QED
  BY <1>1, <1>2, <1>4, <1>5, ReportingStep

LEMMA ReportResultStep ==
  ASSUME IInv, NEW r \in Requests, ReportResult(r)
  PROVE  IInv'
<1>1. /\ OInv'
      /\ ctrl[r] = "report" /\ Emit(r, ResultCode(rc[r])) /\ rc[r] \in Int
      /\ ctrl' = [ctrl EXCEPT ![r] = "finished"]
      /\ UNCHANGED <<shown, kernelVars, list, request, rc, answers>>
  BY ReportResultOutcomes DEF ReportResult, IInv, OInv, RequestTypes
<1>2. ResultCode(rc[r]) \in Int /\ (ResultCode(rc[r]) = 0 => Done(r))
  BY <1>1 DEF IInv, PInv, ResultsAreReal, ResultCode, EPERM
<1>3. \A q \in Requests : ctrl'[q] = "report" => ctrl[q] = "report"
  BY <1>1 DEF IInv, OInv, RequestTypes
<1>4. QED
  BY <1>1, <1>2, <1>3, ReportingStep

LEMMA StartPkexecStep ==
  ASSUME IInv, NEW r \in Requests, StartPkexec(r)
  PROVE  IInv'
<1>1. /\ OInv' /\ RequestTypes
      /\ UNCHANGED <<shown, kernelVars, list, request, events, answers>>
  BY PkexecOutcomes DEF StartPkexec, IInv, OInv
<1>2. \/ ctrl' = [ctrl EXCEPT ![r] = "prompt"] /\ UNCHANGED rc
      \/ ctrl' = [ctrl EXCEPT ![r] = "report"] /\ rc' = [rc EXCEPT ![r] = -2]
  BY DEF StartPkexec
<1>3. /\ \A q \in Requests : ctrl'[q] = "report" => ctrl[q] = "report" \/ rc'[q] # 0
      /\ \A q \in Requests : rc'[q] = 0 => rc[q] = 0
  BY <1>1, <1>2 DEF RequestTypes
<1>4. 0 \in Int
  OBVIOUS
<1>5. QED
  BY <1>1, <1>3, <1>4, ReportingStep

\* pkexec's exit code is 0 if renice has set the priority.
LEMMA FinishPkexecStep ==
  ASSUME IInv, NEW r \in Requests, FinishPkexec(r)
  PROVE  IInv'
<1>1. /\ OInv' /\ RequestTypes /\ ShownTypes /\ NiceWasHad
      /\ ctrl[r] = "prompt" /\ ctrl' = [ctrl EXCEPT ![r] = "report"]
      /\ UNCHANGED <<shown, list, request, events>>
  BY PkexecOutcomes DEF FinishPkexec, IInv, OInv, PInv
<1>2. request[r] # None
  BY <1>1 DEF IInv, OInv, NoOutcomeBefore
<1>3. PICK p \in Pids, prio \in Priorities : request[r] = [pid |-> p, prio |-> prio]
  BY <1>1, <1>2 DEF RequestTypes, Request
<1>4. /\ DOMAIN nice' = DOMAIN nice
      /\ nice' \in [DOMAIN nice -> Priorities]
      /\ had' \in [Pids -> SUBSET Priorities]
      /\ \A q \in Pids : had[q] \subseteq had'[q]
      /\ NiceWasHad'
      /\ \A q \in Requests \ {r} : rc'[q] = rc[q]
      /\ rc'[r] = 0 => prio \in had'[p]
  <2>1. CASE UNCHANGED <<nice, had>>
             /\ \E code \in {-1, 126, 127, 1} : rc' = [rc EXCEPT ![r] = code]
    BY <1>1, <2>1 DEF RequestTypes, ShownTypes, NiceWasHad
  <2>2. CASE p \in DOMAIN nice /\ SetNice(p, prio) /\ rc' = [rc EXCEPT ![r] = 0]
    BY <1>1, <2>2, SetNiceEffect DEF RequestTypes
  <2>3. QED
    BY <1>3, <2>1, <2>2 DEF FinishPkexec
<1>5. ShownTypes' /\ ShownPriorityWasReal'
  BY <1>1, <1>4 DEF IInv, PInv, ShownTypes, ShownPriorityWasReal
<1>6. ListWasReal'
  BY <1>1, <1>4, ListStays DEF IInv, PInv
<1>7. \A q \in Requests : request[q] # None /\ Done(q) => Done(q)'
  BY <1>1, <1>4, DoneStays
<1>8. Done(r)' \/ rc'[r] # 0
  BY <1>1, <1>3, <1>4 DEF Done
<1>9. ResultsAreReal'
  <2>1. ASSUME NEW i \in 1..Len(events), events[i].code = 0
        PROVE  request[events[i].req].prio \in had'[request[events[i].req].pid]
    <3>1. events[i] \in Event
      BY <1>1 DEF RequestTypes
    <3>2. PICK q \in Requests : q = events[i].req
      BY <3>1 DEF Event
    <3>3. request[q] # None /\ Done(q)
      BY <2>1, <3>2 DEF IInv, OInv, PInv, NoOutcomeBefore, HasEvent, ResultsAreReal
    <3>4. Done(q)'
      BY <1>7, <3>3
    <3>5. QED
      BY <1>1, <3>2, <3>4 DEF Done
  <2>2. ASSUME NEW q \in Requests, ctrl'[q] = "report", rc'[q] = 0
        PROVE  Done(q)'
    <3>1. CASE q = r
      BY <1>8, <2>2, <3>1
    <3>2. CASE q # r
      <4>1. ctrl[q] = "report" /\ rc[q] = 0
        BY <1>1, <1>4, <2>2, <3>2 DEF RequestTypes
      <4>2. request[q] # None /\ Done(q)
        BY <4>1 DEF IInv, OInv, PInv, NoOutcomeBefore, ResultsAreReal
      <4>3. QED
        BY <1>7, <4>2
    <3>3. QED
      BY <3>1, <3>2
  <2>3. QED
    BY <1>1, <2>1, <2>2 DEF ResultsAreReal, Done
<1>10. QED
  BY <1>1, <1>4, <1>5, <1>6, <1>9 DEF IInv, PInv

-----------------------------------------------------------------------------

LEMMA InitHolds == PriorityInit => IInv
<1> SUFFICES ASSUME PriorityInit
             PROVE  IInv
  OBVIOUS
<1>1. RequestTypes /\ ExitCodes
  BY DEF PriorityInit, RequestTypes, ExitCodes
<1>2. \A r \in Requests : ctrl[r] = "none" /\ answers[r] = << >> /\ ~HasEvent(r)
  BY DEF PriorityInit, HasEvent
<1>3. \A r \in Requests : Single(r)
  BY <1>2 DEF PriorityInit, Single
<1>4. OInv
  BY <1>1, <1>2, <1>3 DEF OInv, NoOutcomeBefore, ReportsAtEnd, AbleOnce, UnableFails
<1>5. ShownTypes /\ ShownPriorityWasReal
  BY DEF PriorityInit, Table!Init, ShownTypes, ShownPriorityWasReal
<1>6. NiceWasHad /\ ListWasReal /\ ResultsAreReal
  BY DEF PriorityInit, NiceWasHad, ListWasReal, ResultsAreReal
<1>7. QED
  BY <1>4, <1>5, <1>6 DEF IInv, PInv

LEMMA NextStep == IInv /\ [PriorityNext]_vars => IInv'
<1> SUFFICES ASSUME IInv, [PriorityNext]_vars
             PROVE  IInv'
  OBVIOUS
<1>1. CASE \E p \in Pids : Exit(p) \/ \E prio \in Priorities : OtherRenice(p, prio)
  BY <1>1, KernelStep
<1>2. CASE \/ ReadList \/ CacheUpdated \/ ListArrives
           \/ \E type \in FilterTypes : SetFilterType(type)
  BY <1>2, ListStep DEF Collect
<1>3. CASE \E r \in Requests, p \in Pids, prio \in Priorities : ChangeProcessPriority(r, p, prio)
  BY <1>3, ChangeStep
<1>4. CASE HandleResult
  BY <1>4, HandleStep
<1>5. CASE \E r \in Requests : ControllerStep(r)
  BY <1>5, CheckStep, StartPkexecStep, FinishPkexecStep, ReportResultStep DEF ControllerStep
<1>6. CASE UNCHANGED vars
  <2>1. UNCHANGED <<shown, nice, had, hasPkexec, hasRenice, list, request, ctrlVars, ctrl, rc,
                    events, answers>>
    BY <1>6 DEF vars, kernelVars, ctrlVars
  <2>2. OInv'
    BY <2>1, QuietOutcomes DEF IInv
  <2>3. PInv'
    BY <2>1 DEF IInv, PInv, ShownTypes, NiceWasHad, ListWasReal, ResultsAreReal, Done,
                ShownPriorityWasReal
  <2>4. QED
    BY <2>2, <2>3 DEF IInv
<1>7. CASE \E p \in Pids : ToggleWindow(p)
  BY <1>7, ToggleStep
<1>8. QED
  BY <1>1, <1>2, <1>3, <1>4, <1>5, <1>6, <1>7 DEF PriorityNext

\* The inductive invariant holds in every reachable state.
THEOREM Invariance == PrioritySpec => []IInv
<1>1. QED
  BY InitHolds, NextStep, PTL DEF PrioritySpec

\* The table shows only nice values that the process has had.
THEOREM ShownWasReal == PrioritySpec => []ShownPriorityWasReal
<1>1. IInv => ShownPriorityWasReal
  BY DEF IInv, PInv
<1>2. QED
  BY <1>1, Invariance, PTL

\* A request is told changed at most once, or failed, never both.
THEOREM OutcomesAgree == PrioritySpec => []OneOutcome
<1>1. IInv => OneOutcome
  <2> SUFFICES ASSUME IInv, NEW r \in Requests,
                      NEW i \in 1..Len(answers[r]), NEW j \in 1..Len(answers[r])
               PROVE  /\ answers[r][i] = answers[r][j]
                      /\ answers[r][i] = "changed" => i = j
    BY DEF OneOutcome
  <2>1. CASE Single(r)
    <3>1. answers[r] \in Seq({"changed", "error"}) /\ Len(answers[r]) <= 1
      BY <2>1 DEF Single, IInv, OInv, RequestTypes
    <3>2. QED
      BY <3>1
  <2>2. CASE Failing(r)
    BY <2>2 DEF Failing
  <2>3. QED
    BY <2>1, <2>2 DEF IInv, OInv, AbleOnce, UnableFails
<1>2. QED
  BY <1>1, Invariance, PTL
-----------------------------------------------------------------------------
(* The table the requests and the lists act on is the one ProcessTable promises. *)

\* The slot of processPriorityChanged shows a new priority of one process.
LEMMA UpdateOfTable ==
  ASSUME NEW p \in Pids, NEW prio \in Priorities, UpdateProcessPriority(p, prio)
  PROVE  [Table!Next]_shown
BY DEF UpdateProcessPriority, Table!Next

\* A queued result is about a process and a priority that were asked for.
LEMMA HandleOfTable == IInv /\ HandleResult => [Table!Next]_shown
<1> SUFFICES ASSUME IInv, HandleResult, shown' # shown
             PROVE  Table!Next
  OBVIOUS
<1>1. RequestTypes /\ NoOutcomeBefore
  BY DEF IInv, OInv
<1>2. /\ events \in Seq(Event) /\ events # << >>
      /\ Head(events) = events[1] /\ 1 \in 1..Len(events) /\ events[1] \in Event
  BY <1>1 DEF RequestTypes, HandleResult
<1>3. PICK r \in Requests : r = events[1].req
  BY <1>2 DEF Event
<1>4. request[r] # None
  BY <1>1, <1>2, <1>3 DEF HasEvent, NoOutcomeBefore
<1>5. PICK p \in Pids, prio \in Priorities : request[r] = [pid |-> p, prio |-> prio]
  BY <1>1, <1>4 DEF RequestTypes, Request
<1>6. UpdateProcessPriority(p, prio)
  BY <1>2, <1>3, <1>5 DEF HandleResult
<1>7. QED
  BY <1>6, UpdateOfTable

LEMMA TableStep == IInv /\ [PriorityNext]_vars => [Table!Next]_shown
<1> SUFFICES ASSUME IInv, [PriorityNext]_vars
             PROVE  [Table!Next]_shown
  OBVIOUS
<1>1. CASE \/ \E p \in Pids : Exit(p) \/ \E prio \in Priorities : OtherRenice(p, prio)
           \/ \E p \in Pids : ToggleWindow(p)
           \/ ReadList \/ CacheUpdated \/ \E type \in FilterTypes : SetFilterType(type)
  BY <1>1 DEF Exit, OtherRenice, ToggleWindow, ReadList, CacheUpdated, SetFilterType
<1>2. CASE ListArrives
  <2>1. list \in Snapshots /\ Table!ShowSnapshot(list)
    BY <1>2 DEF ListArrives, IInv, PInv, ShownTypes
  <2>2. QED
    BY <2>1 DEF Table!Next
<1>3. ASSUME NEW r \in Requests, NEW p \in Pids, NEW prio \in Priorities,
             ChangeProcessPriority(r, p, prio)
      PROVE  [Table!Next]_shown
  <2>1. UNCHANGED shown \/ UpdateProcessPriority(p, prio)
    BY <1>3 DEF ChangeProcessPriority, SetProcessPriority, Promote
  <2>2. QED
    BY <2>1, UpdateOfTable
<1>4. CASE HandleResult
  BY <1>4, HandleOfTable
<1>5. ASSUME NEW r \in Requests, ControllerStep(r)
      PROVE  UNCHANGED shown
  BY <1>5 DEF ControllerStep, CheckPkexec, CheckRenice, Check, StartPkexec, FinishPkexec,
              ReportResult
<1>6. CASE UNCHANGED vars
  BY <1>6 DEF vars
<1>7. QED
  BY <1>1, <1>2, <1>3, <1>4, <1>5, <1>6 DEF PriorityNext

\* Requests, controllers and lists together keep the promise of ProcessTable: what is
\* shown changes by a whole list, or in the priority of one process that has a row.
THEOREM Refinement == PrioritySpec => Table!Spec
<1>1. PriorityInit => Table!Init
  BY DEF PriorityInit
<1>2. QED
  BY <1>1, TableStep, Invariance, PTL DEF PrioritySpec, Table!Spec
=============================================================================
