------------------------ MODULE ProcessControlProofs ------------------------
(***************************************************************************)
(* What the user is told of a signal is true, and a SIGTERM of the GUI's own    *)
(* does not hang, for any number of processes and requests.                    *)
(***************************************************************************)
EXTENDS ProcessControl, TLAPS

Request == [pid : Pids, signal : Signals]
Event == [req : Requests, code : Int]

Types ==
  /\ proc \in [Pids -> {"running", "stopped", "gone"}]
  /\ request \in [Requests -> Request \cup {None}]
  /\ sending \in Requests \cup {None}
  /\ ctrl \in [Requests -> {"none", "checkPkexec", "checkKill", "execute", "prompt",
                            "report", "finished"}]
  /\ rc \in [Requests -> Int]
  /\ events \in Seq(Event)
  /\ answers \in [Requests -> Seq({"success", "error"})]
  /\ delivered \subseteq Requests

-----------------------------------------------------------------------------
(* The outcome of a request, told or on its way                             *)

OutcomeOf(code) == IF code = 0 THEN "success" ELSE "error"

Told(r) == {answers[r][i] : i \in 1..Len(answers[r])}

Queued(r) == {OutcomeOf(events[i].code) : i \in {j \in 1..Len(events) : events[j].req = r}}

Outcomes(r) == Told(r) \cup Queued(r)

\* Nothing has been decided yet: the request is not made, or its SIGCONT is sent and
\* its signal is not.
Undecided(r) == request[r] = None \/ sending = r

\* The controllers find their programs.
Able == hasPkexec /\ hasKill

\* Requests are sent, and controllers run, only for requests that were made.
RequestsMade ==
  /\ sending # None => request[sending] # None
  /\ \A r \in Requests : Undecided(r) => ctrl[r] = "none" /\ r \notin delivered

\* A controller that can do its work reports at its end only.
NoEarlyOutcome ==
  \A r \in Requests :
    Undecided(r) \/ (Able /\ ctrl[r] \notin {"none", "finished"}) => Outcomes(r) = {}

\* One that cannot do it may report several times, and always fails.
UnableFails == \A r \in Requests : ~Able /\ ctrl[r] # "none" => Outcomes(r) \subseteq {"error"}

OneOutcome == \A r \in Requests : \A a, b \in Outcomes(r) : a = b

SuccessIsTrue == \A r \in Requests : "success" \in Outcomes(r) => r \in delivered

\* An exit code 0 is kill's, run as root by pkexec.
ExitCodeIsTrue ==
  \A r \in Requests :
    /\ ctrl[r] = "prompt" => hasPkexec
    /\ ctrl[r] = "report" /\ rc[r] = 0 => Able /\ r \in delivered

OInv ==
  /\ Types /\ RequestsMade /\ NoEarlyOutcome /\ UnableFails /\ OneOutcome
  /\ SuccessIsTrue /\ ExitCodeIsTrue

-----------------------------------------------------------------------------
(* Processes that are stopped                                               *)

\* Controllers run for processes of others only; a process of another user does not
\* become one's own.
ControllersForForeign == \A r \in Requests : ctrl[r] # "none" => request[r].pid \in foreign

\* An own process that is found stopped after the SIGCONT was stopped by a shell.
StoppedAfterCont ==
  \A r \in Requests :
    sending = r /\ request[r].pid \notin foreign /\ proc[request[r].pid] = "stopped"
      => r \in overtaken

HInv == ControllersForForeign /\ StoppedAfterCont /\ DirectTerminationNeverHangs

IInv == OInv /\ HInv

-----------------------------------------------------------------------------
(* How answers and events change the outcomes                               *)

LEMMA OutcomesKept ==
  UNCHANGED <<answers, events>> => \A q \in Requests : Outcomes(q)' = Outcomes(q)
BY DEF Outcomes, Told, Queued

LEMMA AnswerTold ==
  ASSUME Types, NEW r \in Requests, NEW o \in {"success", "error"},
         Answer(r, o)
  PROVE  /\ answers' \in [Requests -> Seq({"success", "error"})]
         /\ \A q \in Requests \ {r} : Told(q)' = Told(q)
         /\ Told(r)' = Told(r) \cup {o}
<1>1. answers \in [Requests -> Seq({"success", "error"})]
  BY DEF Types
<1>2. /\ answers' \in [Requests -> Seq({"success", "error"})]
      /\ answers'[r] = Append(answers[r], o)
      /\ \A q \in Requests \ {r} : answers'[q] = answers[q]
  BY <1>1 DEF Answer
<1>3. /\ Len(Append(answers[r], o)) = Len(answers[r]) + 1
      /\ \A i \in 1..Len(answers[r]) : Append(answers[r], o)[i] = answers[r][i]
      /\ Append(answers[r], o)[Len(answers[r]) + 1] = o
      /\ Len(answers[r]) \in Nat
  BY <1>1
<1>4. Told(r)' = Told(r) \cup {o}
  <2>1. Told(r)' = {Append(answers[r], o)[i] : i \in 1..(Len(answers[r]) + 1)}
    BY <1>2, <1>3 DEF Told
  <2>2. 1..(Len(answers[r]) + 1) = (1..Len(answers[r])) \cup {Len(answers[r]) + 1}
    BY <1>3
  <2>3. {Append(answers[r], o)[i] : i \in 1..Len(answers[r])} = Told(r)
    BY <1>3 DEF Told
  <2>4. QED
    BY <1>3, <2>1, <2>2, <2>3
<1>5. \A q \in Requests \ {r} : Told(q)' = Told(q)
  BY <1>2 DEF Told
<1>6. QED
  BY <1>2, <1>4, <1>5

LEMMA AnswerOutcomes ==
  ASSUME Types, NEW r \in Requests, NEW o \in {"success", "error"},
         Answer(r, o), events' = events
  PROVE  /\ answers' \in [Requests -> Seq({"success", "error"})]
         /\ \A q \in Requests \ {r} : Outcomes(q)' = Outcomes(q)
         /\ Outcomes(r)' = Outcomes(r) \cup {o}
BY AnswerTold DEF Outcomes, Queued

LEMMA EmitOutcomes ==
  ASSUME Types, NEW r \in Requests, NEW code \in Int,
         Emit(r, code), answers' = answers
  PROVE  /\ events' \in Seq(Event)
         /\ \A q \in Requests \ {r} : Outcomes(q)' = Outcomes(q)
         /\ Outcomes(r)' = Outcomes(r) \cup {OutcomeOf(code)}
<1> DEFINE new == [req |-> r, code |-> code]
           n == Len(events)
<1>1. events \in Seq(Event) /\ new \in Event
  BY DEF Types, Event
<1>2. /\ events' \in Seq(Event)
      /\ n \in Nat /\ Len(events') = n + 1
      /\ \A i \in 1..n : events'[i] = events[i]
      /\ events'[n + 1] = new
  BY <1>1 DEF Emit
<1>3. \A q \in Requests \ {r} : Queued(q)' = Queued(q)
  <2> SUFFICES ASSUME NEW q \in Requests \ {r}
               PROVE  Queued(q)' = Queued(q)
    OBVIOUS
  <2>1. {j \in 1..Len(events') : events'[j].req = q} = {j \in 1..n : events[j].req = q}
    BY <1>2
  <2>2. \A i \in {j \in 1..n : events[j].req = q} : events'[i] = events[i]
    BY <1>2
  <2>3. QED
    BY <2>1, <2>2 DEF Queued
<1>4. Queued(r)' = Queued(r) \cup {OutcomeOf(code)}
  <2>1. {j \in 1..Len(events') : events'[j].req = r}
          = {j \in 1..n : events[j].req = r} \cup {n + 1}
    BY <1>2
  <2>2. \A i \in {j \in 1..n : events[j].req = r} : events'[i] = events[i]
    BY <1>2
  <2>3. QED
    BY <1>2, <2>1, <2>2 DEF Queued
<1>5. \A q \in Requests : Told(q)' = Told(q)
  BY DEF Told
<1>6. QED
  BY <1>2, <1>3, <1>4, <1>5 DEF Outcomes

\* An event that is handled moves its outcome to the answers.
LEMMA HandleOutcomes ==
  ASSUME Types, HandleResult
  PROVE  /\ answers' \in [Requests -> Seq({"success", "error"})]
         /\ events' \in Seq(Event)
         /\ \A q \in Requests : Outcomes(q)' = Outcomes(q)
<1> DEFINE n == Len(events)
<1>1. events \in Seq(Event) /\ events # << >> /\ events' = Tail(events)
  BY DEF Types, HandleResult
<1>2. /\ Head(events) \in Event /\ Head(events) = events[1]
      /\ events' \in Seq(Event)
      /\ n \in Nat \ {0} /\ Len(events') = n - 1
      /\ \A i \in 1..(n - 1) : events'[i] = events[i + 1]
  BY <1>1
<1>3. Head(events).req \in Requests /\ OutcomeOf(Head(events).code) \in {"success", "error"}
  BY <1>2 DEF Event, OutcomeOf
<1>4. PICK r \in Requests, o \in {"success", "error"} :
        Answer(r, o) /\ r = events[1].req /\ o = OutcomeOf(events[1].code)
  BY <1>2, <1>3 DEF HandleResult, OutcomeOf
<1>5. /\ answers' \in [Requests -> Seq({"success", "error"})]
      /\ \A q \in Requests \ {r} : Told(q)' = Told(q)
      /\ Told(r)' = Told(r) \cup {o}
  BY <1>4, AnswerTold
<1>6. \A q \in Requests : Queued(q) = Queued(q)' \cup (IF q = r THEN {o} ELSE {})
  <2> SUFFICES ASSUME NEW q \in Requests
               PROVE  Queued(q) = Queued(q)' \cup (IF q = r THEN {o} ELSE {})
    OBVIOUS
  <2>1. ASSUME NEW x \in Queued(q)
        PROVE  x \in Queued(q)' \cup (IF q = r THEN {o} ELSE {})
    <3>1. PICK i \in 1..n : events[i].req = q /\ x = OutcomeOf(events[i].code)
      BY <2>1 DEF Queued
    <3>2. CASE i = 1
      BY <1>4, <3>1, <3>2
    <3>3. CASE i # 1
      <4>1. i - 1 \in 1..Len(events') /\ events'[i - 1] = events[i]
        BY <1>2, <3>3
      <4>2. QED
        BY <3>1, <4>1 DEF Queued
    <3>4. QED
      BY <3>2, <3>3
  <2>2. ASSUME NEW x \in Queued(q)'
        PROVE  x \in Queued(q)
    <3>1. PICK i \in 1..Len(events') : events'[i].req = q /\ x = OutcomeOf(events'[i].code)
      BY <2>2 DEF Queued
    <3>2. i + 1 \in 1..n /\ events[i + 1] = events'[i]
      BY <1>2
    <3>3. QED
      BY <3>1, <3>2 DEF Queued
  <2>3. ASSUME q = r
        PROVE  o \in Queued(q)
    <3>1. 1 \in 1..n
      BY <1>2
    <3>2. QED
      BY <1>4, <2>3, <3>1 DEF Queued
  <2>4. QED
    BY <2>1, <2>2, <2>3
<1>7. QED
  BY <1>2, <1>3, <1>5, <1>6 DEF Outcomes

-----------------------------------------------------------------------------
(* The kernel                                                              *)

LEMMA DeliverEffect ==
  ASSUME Types, NEW p \in Pids, NEW signal \in Signals, Deliver(p, signal)
  PROVE  /\ proc' \in [Pids -> {"running", "stopped", "gone"}]
         /\ \A q \in Pids \ {p} : proc'[q] = proc[q]
         /\ proc'[p] = "stopped" => signal = "SIGSTOP" \/ (proc[p] = "stopped" /\ signal # "SIGCONT")
         /\ termPending' \subseteq termPending \cup {p}
         /\ p \in termPending' \ termPending => signal = "SIGTERM" /\ proc[p] = "stopped"
<1> USE DEF Types
<1>1. CASE signal = "SIGKILL"
  BY <1>1 DEF Deliver
<1>2. CASE signal = "SIGSTOP"
  BY <1>2 DEF Deliver
<1>3. CASE signal = "SIGCONT"
  BY <1>3 DEF Deliver
<1>4. CASE signal = "SIGTERM"
  BY <1>4 DEF Deliver
<1>5. QED
  BY <1>1, <1>2, <1>3, <1>4 DEF Signals

LEMMA InitHolds == Init => IInv
<1> SUFFICES ASSUME Init
             PROVE  IInv
  OBVIOUS
<1>1. Types
  BY DEF Init, Types
<1>2. \A r \in Requests : ctrl[r] = "none" /\ Outcomes(r) = {}
  BY DEF Init, Outcomes, Told, Queued
<1>3. OInv
  BY <1>1, <1>2 DEF Init, OInv, RequestsMade, NoEarlyOutcome, UnableFails, OneOutcome,
                    SuccessIsTrue, ExitCodeIsTrue
<1>4. HInv
  BY <1>2, RequestsAssumption DEF Init, HInv, ControllersForForeign, StoppedAfterCont,
                                  DirectTerminationNeverHangs
<1>5. QED
  BY <1>3, <1>4 DEF IInv

\* A step that decides nothing leaves what is known of the outcomes.
LEMMA QuietStep ==
  ASSUME OInv, Types', UNCHANGED <<binVars, request, sending, ctrl, rc, delivered>>,
         \A q \in Requests : Outcomes(q)' = Outcomes(q)
  PROVE  OInv'
<1>1. RequestsMade' /\ ExitCodeIsTrue'
  BY DEF OInv, RequestsMade, ExitCodeIsTrue, Undecided, Able, binVars
<1>2. NoEarlyOutcome' /\ UnableFails'
  BY DEF OInv, NoEarlyOutcome, UnableFails, Undecided, Able, binVars
<1>3. OneOutcome' /\ SuccessIsTrue'
  BY DEF OInv, OneOutcome, SuccessIsTrue
<1>4. QED
  BY <1>1, <1>2, <1>3 DEF OInv

LEMMA ProcessStep ==
  ASSUME IInv, NEW p \in Pids, Exit(p) \/ JobStop(p) \/ BecomeForeign(p)
  PROVE  IInv'
<1>1. UNCHANGED <<termPending, binVars, request, sending, ctrl, rc, events, answers, delivered>>
  BY DEF Exit, JobStop, BecomeForeign
<1>2. Types'
  BY <1>1 DEF IInv, OInv, Types, Exit, JobStop, BecomeForeign
<1>3. OInv'
  BY <1>1, <1>2, QuietStep, OutcomesKept DEF IInv
<1>4. foreign \subseteq foreign' /\ overtaken \subseteq overtaken'
  BY DEF Exit, JobStop, BecomeForeign
<1>5. ControllersForForeign' /\ DirectTerminationNeverHangs'
  BY <1>1, <1>4 DEF IInv, HInv, ControllersForForeign, DirectTerminationNeverHangs
<1>6. StoppedAfterCont'
  <2> SUFFICES ASSUME NEW r \in Requests, sending = r, request[r].pid \notin foreign',
                      proc'[request[r].pid] = "stopped"
               PROVE  r \in overtaken'
    BY <1>1 DEF StoppedAfterCont
  <2>1. request[r] # None
    BY RequestsAssumption DEF IInv, OInv, RequestsMade
  <2>2. request[r].pid \in Pids
    BY <2>1 DEF IInv, OInv, Types, Request
  <2>3. CASE proc[request[r].pid] = "stopped"
    BY <1>4, <2>3 DEF IInv, HInv, StoppedAfterCont
  <2>4. CASE proc[request[r].pid] # "stopped"
    <3>1. JobStop(p) /\ request[r].pid = p
      BY <2>2, <2>4 DEF IInv, OInv, Types, Exit, JobStop, BecomeForeign
    <3>2. QED
      BY <3>1 DEF JobStop
  <2>5. QED
    BY <2>3, <2>4
<1>7. QED
  BY <1>3, <1>5, <1>6 DEF IInv, HInv

-----------------------------------------------------------------------------
(* The GUI thread                                                          *)

LEMMA HandleResultStep == IInv /\ HandleResult => IInv'
<1> SUFFICES ASSUME IInv, HandleResult
             PROVE  IInv'
  OBVIOUS
<1>1. UNCHANGED <<proc, foreign, termPending, binVars, request, sending, ctrl, rc, delivered,
                  overtaken>>
  BY DEF HandleResult, procVars
<1>2. /\ answers' \in [Requests -> Seq({"success", "error"})]
      /\ events' \in Seq(Event)
      /\ \A q \in Requests : Outcomes(q)' = Outcomes(q)
  BY HandleOutcomes DEF IInv, OInv
<1>3. Types'
  BY <1>1, <1>2 DEF IInv, OInv, Types
<1>4. OInv'
  BY <1>1, <1>2, <1>3, QuietStep DEF IInv
<1>5. HInv'
  BY <1>1 DEF IInv, HInv, ControllersForForeign, StoppedAfterCont, DirectTerminationNeverHangs
<1>6. QED
  BY <1>4, <1>5 DEF IInv

\* kill(2) decides the request, or leaves it to a controller.
LEMMA PkillStep ==
  ASSUME IInv, NEW r \in Requests, NEW p \in Pids, NEW signal \in Signals,
         Undecided(r), sending \in {None, r}, Pkill(r, p, signal),
         request' = [request EXCEPT ![r] = [pid |-> p, signal |-> signal]],
         KillErrno(p) = 0 /\ signal = "SIGTERM" /\ proc[p] = "stopped" => r \in overtaken,
         sending' = None, UNCHANGED <<foreign, binVars, rc, events, overtaken>>
  PROVE  IInv'
<1>1. Types /\ ctrl[r] = "none" /\ Outcomes(r) = {} /\ r \notin delivered
  BY DEF IInv, OInv, RequestsMade, NoEarlyOutcome
<1>2. /\ request' \in [Requests -> Request \cup {None}]
      /\ request'[r] = [pid |-> p, signal |-> signal] /\ request'[r] # None
      /\ \A q \in Requests \ {r} : request'[q] = request[q]
  BY <1>1, RequestsAssumption DEF Types, Request
<1>3. \A q \in Requests : Undecided(q)' => q # r /\ Undecided(q)
  BY <1>2, RequestsAssumption DEF Undecided
<1>4. StoppedAfterCont'
  BY RequestsAssumption DEF StoppedAfterCont
<1>5. Able' <=> Able
  BY DEF Able, binVars
<1>6. CASE KillErrno(p) = EPERM /\ Promote(r)
  <2>1. /\ p \in foreign
        /\ ctrl' = [ctrl EXCEPT ![r] = "checkPkexec"]
        /\ UNCHANGED <<proc, termPending, answers, delivered>>
    BY <1>6 DEF KillErrno, EPERM, ESRCH, Promote
  <2>2. /\ ctrl'[r] = "checkPkexec" /\ \A q \in Requests \ {r} : ctrl'[q] = ctrl[q]
        /\ \A q \in Requests : Outcomes(q)' = Outcomes(q)
    BY <1>1, <2>1, OutcomesKept DEF Types
  <2>3. Types'
    BY <1>1, <1>2, <2>1 DEF Types
  <2>4. RequestsMade'
    BY <1>2, <1>3, <2>1, <2>2 DEF IInv, OInv, RequestsMade
  <2>5. NoEarlyOutcome' /\ UnableFails' /\ OneOutcome' /\ SuccessIsTrue' /\ ExitCodeIsTrue'
    BY <1>1, <1>3, <1>5, <2>1, <2>2 DEF IInv, OInv, NoEarlyOutcome, UnableFails, OneOutcome,
                                  SuccessIsTrue, ExitCodeIsTrue, binVars
  <2>6. ControllersForForeign'
    BY <1>2, <2>1, <2>2 DEF IInv, HInv, ControllersForForeign
  <2>7. DirectTerminationNeverHangs'
    BY <1>1, <1>2, <2>1, <2>2 DEF IInv, HInv, DirectTerminationNeverHangs, Types
  <2>8. QED
    BY <1>4, <2>3, <2>4, <2>5, <2>6, <2>7 DEF IInv, OInv, HInv
<1>7. CASE KillErrno(p) \notin {0, EPERM} /\ Fail(r)
  <2>1. Answer(r, "error") /\ UNCHANGED <<proc, termPending, ctrl, delivered>>
    BY <1>7 DEF Fail
  <2>2. /\ answers' \in [Requests -> Seq({"success", "error"})]
        /\ \A q \in Requests \ {r} : Outcomes(q)' = Outcomes(q)
        /\ Outcomes(r)' = {"error"}
    BY <1>1, <2>1, AnswerOutcomes
  <2>3. Types'
    BY <1>1, <1>2, <2>1, <2>2 DEF Types
  <2>4. RequestsMade'
    BY <1>2, <1>3, <2>1 DEF IInv, OInv, RequestsMade
  <2>5. NoEarlyOutcome' /\ UnableFails'
    BY <1>1, <1>3, <1>5, <2>1, <2>2 DEF IInv, OInv, NoEarlyOutcome, UnableFails
  <2>9. OneOutcome' /\ SuccessIsTrue' /\ ExitCodeIsTrue'
    <3>1. OneOutcome'
      BY <1>1, <2>2 DEF IInv, OInv, OneOutcome
    <3>2. SuccessIsTrue'
      BY <1>1, <2>1, <2>2 DEF IInv, OInv, SuccessIsTrue
    <3>3. ExitCodeIsTrue'
      BY <1>1, <1>5, <2>1 DEF IInv, OInv, ExitCodeIsTrue, binVars
    <3>4. QED
      BY <3>1, <3>2, <3>3
  <2>6. ControllersForForeign' /\ DirectTerminationNeverHangs'
    BY <1>1, <1>2, <2>1 DEF IInv, HInv, ControllersForForeign, DirectTerminationNeverHangs, Types
  <2>7. QED
    BY <1>4, <2>3, <2>4, <2>5, <2>6, <2>9 DEF IInv, OInv, HInv
<1>8. CASE /\ KillErrno(p) = 0
           /\ Deliver(p, signal)
           /\ delivered' = delivered \cup {r}
           /\ Answer(r, "success")
           /\ UNCHANGED ctrl
  <2>1. /\ proc' \in [Pids -> {"running", "stopped", "gone"}]
        /\ termPending' \subseteq termPending \cup {p}
        /\ p \in termPending' \ termPending => signal = "SIGTERM" /\ proc[p] = "stopped"
    BY <1>1, <1>8, DeliverEffect
  <2>2. /\ answers' \in [Requests -> Seq({"success", "error"})]
        /\ \A q \in Requests \ {r} : Outcomes(q)' = Outcomes(q)
        /\ Outcomes(r)' = {"success"}
    BY <1>1, <1>8, AnswerOutcomes
  <2>3. Types'
    BY <1>1, <1>2, <1>8, <2>1, <2>2 DEF Types
  <2>4. RequestsMade'
    BY <1>2, <1>3, <1>8 DEF IInv, OInv, RequestsMade
  <2>5. NoEarlyOutcome' /\ UnableFails'
    BY <1>1, <1>3, <1>5, <1>8, <2>2 DEF IInv, OInv, NoEarlyOutcome, UnableFails
  <2>9. OneOutcome' /\ SuccessIsTrue' /\ ExitCodeIsTrue'
    <3>1. OneOutcome'
      BY <1>1, <2>2 DEF IInv, OInv, OneOutcome
    <3>2. SuccessIsTrue'
      BY <1>1, <1>8, <2>2 DEF IInv, OInv, SuccessIsTrue
    <3>3. ExitCodeIsTrue'
      BY <1>1, <1>5, <1>8 DEF IInv, OInv, ExitCodeIsTrue, binVars
    <3>4. QED
      BY <3>1, <3>2, <3>3
  <2>6. ControllersForForeign'
    BY <1>1, <1>2, <1>8 DEF IInv, HInv, ControllersForForeign
  <2>7. DirectTerminationNeverHangs'
    <3> SUFFICES ASSUME NEW q \in termPending'
                 PROVE  \E s \in delivered' :
                          /\ request'[s] = [pid |-> q, signal |-> "SIGTERM"]
                          /\ ctrl'[s] # "none" \/ s \in overtaken
      BY DEF DirectTerminationNeverHangs
    <3>1. CASE q \in termPending
      BY <1>1, <1>2, <1>8, <3>1 DEF IInv, HInv, DirectTerminationNeverHangs, Types
    <3>2. CASE q \notin termPending
      <4>1. q = p /\ signal = "SIGTERM" /\ r \in overtaken
        BY <1>8, <2>1, <3>2
      <4>2. QED
        BY <1>2, <1>8, <4>1
    <3>3. QED
      BY <3>1, <3>2
  <2>8. QED
    BY <1>4, <2>3, <2>4, <2>5, <2>6, <2>7, <2>9 DEF IInv, OInv, HInv
<1>9. QED
  BY <1>6, <1>7, <1>8 DEF Pkill

LEMMA SendAfterContStep == IInv /\ (\E r \in Requests : SendAfterCont(r)) => IInv'
<1> SUFFICES ASSUME IInv, NEW r \in Requests, SendAfterCont(r)
             PROVE  IInv'
  OBVIOUS
<1>1. /\ sending = r /\ sending' = None
      /\ Pkill(r, request[r].pid, request[r].signal)
      /\ UNCHANGED <<foreign, binVars, request, rc, events, overtaken>>
  BY DEF SendAfterCont
<1>2. request[r] \in Request /\ request \in [Requests -> Request \cup {None}]
  BY <1>1, RequestsAssumption DEF IInv, OInv, Types, RequestsMade
<1>3. PICK p \in Pids, signal \in Signals : request[r] = [pid |-> p, signal |-> signal]
  BY <1>2 DEF Request
<1>4. request' = [request EXCEPT ![r] = [pid |-> p, signal |-> signal]]
  BY <1>1, <1>2, <1>3
<1>5. KillErrno(p) = 0 /\ proc[p] = "stopped" => r \in overtaken
  BY <1>1, <1>3 DEF KillErrno, EPERM, ESRCH, IInv, HInv, StoppedAfterCont
<1>6. Pkill(r, p, signal)
  BY <1>1, <1>3
<1>7. QED
  BY <1>1, <1>4, <1>5, <1>6, PkillStep DEF Undecided

LEMMA SendSignalStep ==
  ASSUME IInv, NEW r \in Requests, NEW p \in Pids, NEW signal \in Signals,
         SendSignalToProcess(r, p, signal)
  PROVE  IInv'
<1>1. /\ sending = None /\ request[r] = None
      /\ request' = [request EXCEPT ![r] = [pid |-> p, signal |-> signal]]
      /\ UNCHANGED <<foreign, binVars, rc, events, overtaken>>
  BY DEF SendSignalToProcess
<1>2. Undecided(r)
  BY <1>1 DEF Undecided
<1>3. CASE /\ signal \in {"SIGTERM", "SIGKILL"}
           /\ \/ KillErrno(p) = EPERM /\ Promote(r)
              \/ KillErrno(p) \notin {0, EPERM} /\ Fail(r)
           /\ sending' = None
  <2>1. Pkill(r, p, signal) /\ KillErrno(p) # 0
    BY <1>3 DEF Pkill, EPERM
  <2>2. QED
    BY <1>1, <1>2, <1>3, <2>1, PkillStep
<1>4. CASE signal \notin {"SIGTERM", "SIGKILL"} /\ Pkill(r, p, signal) /\ sending' = None
  BY <1>1, <1>2, <1>4, PkillStep
<1>5. CASE /\ Deliver(p, "SIGCONT") /\ sending' = r
           /\ UNCHANGED <<ctrl, answers, delivered>>
  <2>1. /\ proc' \in [Pids -> {"running", "stopped", "gone"}]
        /\ proc'[p] # "stopped"
        /\ termPending' \subseteq termPending
    BY <1>5, DeliverEffect DEF IInv, OInv, Signals
  <2>2. /\ request' \in [Requests -> Request \cup {None}]
        /\ request'[r] = [pid |-> p, signal |-> signal] /\ request'[r] # None
        /\ \A q \in Requests \ {r} : request'[q] = request[q]
    BY <1>1, RequestsAssumption DEF IInv, OInv, Types, Request
  <2>3. Types'
    BY <1>1, <1>5, <2>1, <2>2 DEF IInv, OInv, Types
  <2>4. \A q \in Requests : Undecided(q)' => Undecided(q)
    BY <1>1, <1>5, <2>2 DEF Undecided
  <2>5. \A q \in Requests : Outcomes(q)' = Outcomes(q)
    BY <1>1, <1>5, OutcomesKept
  <2>6. RequestsMade' /\ ExitCodeIsTrue'
    BY <1>1, <1>5, <2>2, <2>4 DEF IInv, OInv, RequestsMade, ExitCodeIsTrue, Able, binVars
  <2>7. NoEarlyOutcome' /\ UnableFails' /\ OneOutcome' /\ SuccessIsTrue'
    BY <1>1, <1>5, <2>4, <2>5 DEF IInv, OInv, NoEarlyOutcome, UnableFails, OneOutcome,
                                  SuccessIsTrue, Able, binVars
  <2>8. StoppedAfterCont'
    BY <1>5, <2>1, <2>2 DEF StoppedAfterCont
  <2>9. r \notin delivered /\ ctrl[r] = "none" /\ delivered \subseteq Requests
    BY <1>2 DEF IInv, OInv, RequestsMade, Types
  <2>10. ControllersForForeign' /\ DirectTerminationNeverHangs'
    BY <1>1, <1>5, <2>1, <2>2, <2>9 DEF IInv, HInv, ControllersForForeign, DirectTerminationNeverHangs
  <2>11. QED
    BY <2>3, <2>6, <2>7, <2>8, <2>10 DEF IInv, OInv, HInv
<1>6. QED
  BY <1>3, <1>4, <1>5 DEF SendSignalToProcess

-----------------------------------------------------------------------------
(* The controller threads                                                  *)

\* A controller goes on, and may report: a failure if a program is missing, else only
\* at its end.
LEMMA ReportingStep ==
  ASSUME IInv, NEW r \in Requests, ctrl[r] \notin {"none", "finished"},
         NEW next \in {"checkKill", "execute", "finished"},
         ctrl' = [ctrl EXCEPT ![r] = next],
         NEW code \in Int, events' = events \/ Emit(r, code),
         events' # events => /\ Able => next = "finished"
                             /\ ~Able => code # 0
                             /\ code = 0 => r \in delivered,
         UNCHANGED <<procVars, binVars, request, sending, rc, answers, delivered, overtaken>>
  PROVE  IInv'
<1>1. Types /\ ~Undecided(r)
  BY DEF IInv, OInv, RequestsMade
<1>2. /\ ctrl'[r] = next /\ next # "none"
      /\ \A q \in Requests \ {r} : ctrl'[q] = ctrl[q]
      /\ Able' = Able
      /\ \A q \in Requests : Undecided(q)' = Undecided(q)
      /\ UNCHANGED <<proc, foreign, termPending>>
  BY <1>1 DEF Types, Able, binVars, Undecided, procVars
<1>3. /\ events' \in Seq(Event)
      /\ \A q \in Requests \ {r} : Outcomes(q)' = Outcomes(q)
      /\ \/ Outcomes(r)' = Outcomes(r)
         \/ events' # events /\ Outcomes(r)' = Outcomes(r) \cup {OutcomeOf(code)}
  <2>1. CASE events' = events
    BY <1>1, <2>1, OutcomesKept DEF Types
  <2>2. CASE events' # events /\ Emit(r, code)
    BY <1>1, <2>2, EmitOutcomes
  <2>3. QED
    BY <2>1, <2>2
<1>4. Types'
  BY <1>1, <1>2, <1>3 DEF Types
<1>5. RequestsMade'
  BY <1>1, <1>2 DEF IInv, OInv, RequestsMade
<1>6. ExitCodeIsTrue'
  BY <1>2 DEF IInv, OInv, ExitCodeIsTrue, binVars
<1>7. NoEarlyOutcome'
  <2> SUFFICES ASSUME NEW q \in Requests,
                      Undecided(q) \/ (Able /\ ctrl'[q] \notin {"none", "finished"})
               PROVE  Outcomes(q)' = {}
    BY <1>2 DEF NoEarlyOutcome
  <2>1. CASE q = r
    <3>1. Able /\ next # "finished" /\ events' = events
      BY <1>1, <1>2, <2>1
    <3>2. Outcomes(r) = {}
      BY <3>1 DEF IInv, OInv, NoEarlyOutcome
    <3>3. QED
      BY <1>3, <2>1, <3>1, <3>2
  <2>2. CASE q # r
    BY <1>2, <1>3, <2>2 DEF IInv, OInv, NoEarlyOutcome
  <2>3. QED
    BY <2>1, <2>2
<1>8. UnableFails'
  <2> SUFFICES ASSUME NEW q \in Requests, ~Able, ctrl'[q] # "none"
               PROVE  Outcomes(q)' \subseteq {"error"}
    BY <1>2 DEF UnableFails
  <2>1. Outcomes(q) \subseteq {"error"}
    BY <1>2 DEF IInv, OInv, UnableFails
  <2>2. QED
    BY <1>3, <2>1 DEF OutcomeOf
<1>9. OneOutcome' /\ SuccessIsTrue'
  <2>1. Outcomes(r) = {} \/ (~Able /\ Outcomes(r) \subseteq {"error"})
    BY DEF IInv, OInv, NoEarlyOutcome, UnableFails
  <2>2. OneOutcome'
    BY <1>3, <2>1 DEF IInv, OInv, OneOutcome, OutcomeOf
  <2>3. SuccessIsTrue'
    BY <1>3 DEF IInv, OInv, SuccessIsTrue, OutcomeOf
  <2>4. QED
    BY <2>2, <2>3
<1>10. HInv'
  BY <1>1, <1>2 DEF IInv, HInv, ControllersForForeign, StoppedAfterCont,
                    DirectTerminationNeverHangs, Types
<1>11. QED
  BY <1>4, <1>5, <1>6, <1>7, <1>8, <1>9, <1>10 DEF IInv, OInv

LEMMA CheckStep ==
  ASSUME IInv, NEW r \in Requests, CheckPkexec(r) \/ CheckKill(r)
  PROVE  IInv'
<1>1. ENOENT \in Int /\ ENOENT # 0
  BY DEF ENOENT
<1>2. CASE CheckPkexec(r)
  <2>1. events' = events \/ (Emit(r, ENOENT) /\ ~Able)
    BY <1>2 DEF CheckPkexec, Able
  <2>2. QED
    BY <1>1, <1>2, <2>1, ReportingStep DEF CheckPkexec
<1>3. CASE CheckKill(r)
  <2>1. events' = events \/ (Emit(r, ENOENT) /\ ~Able)
    BY <1>3 DEF CheckKill, Able
  <2>2. QED
    BY <1>1, <1>3, <2>1, ReportingStep DEF CheckKill
<1>4. QED
  BY <1>2, <1>3

\* The exit code is reported as it came, as far as 0 is concerned.
LEMMA ReportResultStep ==
  ASSUME IInv, NEW r \in Requests, ReportResult(r)
  PROVE  IInv'
<1>1. ctrl[r] = "report" /\ Emit(r, ResultCode(rc[r]))
  BY DEF ReportResult
<1>2. rc[r] \in Int /\ (rc[r] = 0 => Able /\ r \in delivered)
  BY <1>1 DEF IInv, OInv, Types, ExitCodeIsTrue
<1>3. ResultCode(rc[r]) \in Int /\ (ResultCode(rc[r]) = 0 => Able /\ r \in delivered)
  BY <1>2 DEF ResultCode, ESRCH, EPERM
<1>4. QED
  BY <1>1, <1>3, ReportingStep DEF ReportResult

LEMMA PkexecStep ==
  ASSUME IInv, NEW r \in Requests, StartPkexec(r) \/ FinishPkexec(r)
  PROVE  IInv'
<1>1. Types /\ ctrl[r] \notin {"none", "finished"} /\ ~Undecided(r)
  BY DEF IInv, OInv, RequestsMade, StartPkexec, FinishPkexec
<1>2. PICK p \in Pids, signal \in Signals : request[r] = [pid |-> p, signal |-> signal]
  BY <1>1 DEF Types, Request, Undecided
<1>3. /\ UNCHANGED <<foreign, binVars, request, sending, events, answers, overtaken>>
      /\ \E next \in {"prompt", "report"} : ctrl' = [ctrl EXCEPT ![r] = next]
  BY DEF StartPkexec, FinishPkexec, procVars
<1>4. /\ ctrl'[r] \in {"prompt", "report"}
      /\ ctrl' \in [Requests -> {"none", "checkPkexec", "checkKill", "execute", "prompt",
                                 "report", "finished"}]
      /\ \A q \in Requests \ {r} : ctrl'[q] = ctrl[q]
      /\ Able' = Able
      /\ \A q \in Requests : Undecided(q)' = Undecided(q)
      /\ \A q \in Requests : Outcomes(q)' = Outcomes(q)
  BY <1>1, <1>3, OutcomesKept DEF Types, Able, binVars, Undecided
<1>5. /\ delivered \subseteq delivered' /\ delivered' \subseteq delivered \cup {r}
      /\ rc' \in [Requests -> Int]
      /\ \A q \in Requests \ {r} : rc'[q] = rc[q]
      /\ ctrl'[r] = "prompt" => hasPkexec
      /\ ctrl'[r] = "report" /\ rc'[r] = 0 => Able /\ r \in delivered'
  <2>1. CASE StartPkexec(r)
    BY <1>1, <2>1 DEF Types, StartPkexec
  <2>2. CASE FinishPkexec(r)
    BY <1>1, <2>2 DEF Types, FinishPkexec, IInv, OInv, ExitCodeIsTrue, Able
  <2>3. QED
    BY <2>1, <2>2
<1>6. /\ proc' \in [Pids -> {"running", "stopped", "gone"}]
      /\ \A q \in Pids \ {p} : proc'[q] = proc[q]
      /\ termPending' \subseteq termPending \cup {p}
      /\ p \in termPending' \ termPending => signal = "SIGTERM" /\ r \in delivered'
  <2>1. CASE UNCHANGED <<proc, termPending>>
    BY <1>1, <2>1 DEF Types
  <2>2. CASE Deliver(p, signal) /\ delivered' = delivered \cup {r}
    BY <1>1, <2>2, DeliverEffect
  <2>3. QED
    BY <1>2, <2>1, <2>2 DEF StartPkexec, FinishPkexec, procVars
<1>7. Types'
  BY <1>1, <1>3, <1>4, <1>5, <1>6 DEF Types
<1>8. RequestsMade' /\ ExitCodeIsTrue'
  BY <1>1, <1>3, <1>4, <1>5 DEF IInv, OInv, RequestsMade, ExitCodeIsTrue, binVars
<1>9. NoEarlyOutcome' /\ UnableFails'
  BY <1>1, <1>4 DEF IInv, OInv, NoEarlyOutcome, UnableFails
<1>10. OneOutcome' /\ SuccessIsTrue'
  BY <1>4, <1>5 DEF IInv, OInv, OneOutcome, SuccessIsTrue
<1>11. p \in foreign
  BY <1>1, <1>2 DEF IInv, HInv, ControllersForForeign
<1>12. ControllersForForeign'
  BY <1>2, <1>3, <1>4, <1>11 DEF IInv, HInv, ControllersForForeign
<1>13. StoppedAfterCont'
  <2> SUFFICES ASSUME NEW q \in Requests, sending = q, request[q].pid \notin foreign,
                      proc'[request[q].pid] = "stopped"
               PROVE  q \in overtaken
    BY <1>3 DEF StoppedAfterCont
  <2>1. request[q] # None
    BY RequestsAssumption DEF IInv, OInv, RequestsMade
  <2>2. request[q].pid \in Pids \ {p}
    BY <1>1, <1>11, <2>1 DEF Types, Request
  <2>3. QED
    BY <1>6, <2>2 DEF IInv, HInv, StoppedAfterCont
<1>14. DirectTerminationNeverHangs'
  <2> SUFFICES ASSUME NEW q \in termPending'
               PROVE  \E s \in delivered' :
                        /\ request[s] = [pid |-> q, signal |-> "SIGTERM"]
                        /\ ctrl'[s] # "none" \/ s \in overtaken
    BY <1>3 DEF DirectTerminationNeverHangs
  <2>1. CASE q \in termPending
    BY <1>1, <1>4, <1>5, <2>1 DEF IInv, HInv, DirectTerminationNeverHangs, Types
  <2>2. CASE q \notin termPending
    BY <1>2, <1>4, <1>6, <2>2
  <2>3. QED
    BY <2>1, <2>2
<1>15. QED
  BY <1>7, <1>8, <1>9, <1>10, <1>12, <1>13, <1>14 DEF IInv, OInv, HInv

-----------------------------------------------------------------------------

LEMMA NextStep == IInv /\ [Next]_vars => IInv'
<1> SUFFICES ASSUME IInv, [Next]_vars
             PROVE  IInv'
  OBVIOUS
<1>1. CASE \E p \in Pids : Exit(p) \/ JobStop(p) \/ BecomeForeign(p)
  BY <1>1, ProcessStep
<1>2. CASE \E r \in Requests, p \in Pids, signal \in Signals : SendSignalToProcess(r, p, signal)
  BY <1>2, SendSignalStep
<1>3. CASE (\E r \in Requests : SendAfterCont(r)) \/ HandleResult
  BY <1>3, SendAfterContStep, HandleResultStep
<1>4. CASE \E r \in Requests : ControllerStep(r) \/ FinishPkexec(r)
  BY <1>4, CheckStep, PkexecStep, ReportResultStep DEF ControllerStep
<1>5. CASE UNCHANGED vars
  <2>1. UNCHANGED <<proc, foreign, termPending, binVars, request, sending, ctrl, rc, events,
                    answers, delivered, overtaken>>
    BY <1>5 DEF vars, procVars
  <2>2. Types'
    BY <2>1 DEF IInv, OInv, Types
  <2>3. OInv'
    BY <2>1, <2>2, QuietStep, OutcomesKept DEF IInv
  <2>4. HInv'
    BY <2>1 DEF IInv, HInv, ControllersForForeign, StoppedAfterCont, DirectTerminationNeverHangs
  <2>5. QED
    BY <2>3, <2>4 DEF IInv
<1>6. QED
  BY <1>1, <1>2, <1>3, <1>4, <1>5 DEF Next

\* The inductive invariant holds in every reachable state.
THEOREM Invariance == Spec => []IInv
<1>1. QED
  BY InitHolds, NextStep, PTL DEF Spec

LEMMA AnsweredIsTold ==
  ASSUME NEW r \in Requests, NEW outcome, Answered(r, outcome)
  PROVE  outcome \in Outcomes(r)
BY DEF Answered, Outcomes, Told

\* Success is told only of a signal that reached its process.
THEOREM SuccessIsDelivered == Spec => []SuccessMeansDelivered
<1>1. IInv => SuccessMeansDelivered
  BY AnsweredIsTold DEF IInv, OInv, SuccessIsTrue, SuccessMeansDelivered
<1>2. QED
  BY <1>1, Invariance, PTL

\* No request is told both done and failed, although a controller may report more
\* than once.
THEOREM AnswersAgree == Spec => []NoMixedAnswers
<1>1. IInv => NoMixedAnswers
  <2>1. OneOutcome => NoMixedAnswers
    <3> SUFFICES ASSUME OneOutcome, NEW r \in Requests,
                        Answered(r, "success"), Answered(r, "error")
                 PROVE  FALSE
      BY DEF NoMixedAnswers
    <3>1. "success" \in Outcomes(r) /\ "error" \in Outcomes(r)
      BY AnsweredIsTold
    <3>2. QED
      BY <3>1 DEF OneOutcome
  <2>2. QED
    BY <2>1 DEF IInv, OInv
<1>2. QED
  BY <1>1, Invariance, PTL

\* A SIGTERM that hangs was sent by a controller, or overtaken by a shell.
THEOREM DirectTermination == Spec => []DirectTerminationNeverHangs
<1>1. IInv => DirectTerminationNeverHangs
  BY DEF IInv, HInv
<1>2. QED
  BY <1>1, Invariance, PTL
=============================================================================
