--------------------------- MODULE ProcessControl ---------------------------
(***************************************************************************)
(* Sending a signal to a process on the user's behalf:                      *)
(* SystemMonitor::sendSignalToProcess (src/src/process/system_monitor.cpp),  *)
(* which runs in the GUI thread and tries kill(2), and ProcessController     *)
(* (src/src/process/process_controller.cpp), a thread per request that runs  *)
(* kill through pkexec when the GUI's own attempt is refused.  A controller  *)
(* reports by resultReady, an event queued for the GUI thread.               *)
(*                                                                         *)
(* The processes themselves are external: they exit when they like, may      *)
(* handle SIGTERM, are stopped by the job control of their shell, and an own *)
(* process may execute a set-uid program, after which the user may not       *)
(* signal it any more.  Ids are not reused.                                  *)
(***************************************************************************)
EXTENDS Integers, Sequences, FiniteSets, SequencesExt

CONSTANTS
  Pids,      \* processes
  Requests,  \* one element per request the user may make
  None       \* no request

VARIABLES
  proc,         \* p -> "running", "stopped" or "gone"
  foreign,      \* the processes of other users
  termPending,  \* the stopped processes a SIGTERM is waiting for
  hasPkexec,    \* /usr/bin/pkexec exists
  hasKill,      \* /usr/bin/kill exists
  request,      \* r -> None, or the process and signal asked for
  sending,      \* the request whose SIGCONT is sent and whose signal is not
  ctrl,         \* r -> what the controller thread of r does next
  rc,           \* r -> exit code of its pkexec
  events,       \* queued resultReady signals: the request and the code
  answers,      \* r -> outcomes told to the GUI, in order
  delivered,    \* the requests whose signal reached the process
  overtaken     \* the requests between whose SIGCONT and signal a shell stopped
                \* the process

procVars == <<proc, foreign, termPending>>
binVars  == <<hasPkexec, hasKill>>
vars == <<procVars, binVars, request, sending, ctrl, rc, events, answers, delivered,
          overtaken>>

Signals == {"SIGTERM", "SIGSTOP", "SIGCONT", "SIGKILL"}

ASSUME RequestsAssumption ==
  /\ None \notin Requests
  /\ None \notin [pid : Pids, signal : Signals]

\* errno values and pkexec's exit codes: kill(1) fails with 1, pkexec with 126
\* (dismissed) or 127 (not authorized, not found), QProcess with -1 (crashed)
\* or -2 (not started).
EPERM == 1
ENOENT == 2
ESRCH == 3

Init ==
  /\ proc = [p \in Pids |-> "running"]
  /\ foreign \in SUBSET Pids
  /\ termPending = {}
  /\ hasPkexec \in BOOLEAN
  /\ hasKill \in BOOLEAN
  /\ request = [r \in Requests |-> None]
  /\ sending = None
  /\ ctrl = [r \in Requests |-> "none"]
  /\ rc = [r \in Requests |-> 0]
  /\ events = << >>
  /\ answers = [r \in Requests |-> << >>]
  /\ delivered = {}
  /\ overtaken = {}

-----------------------------------------------------------------------------
(* The kernel                                                              *)

\* errno of kill(2) called by the GUI, 0 for success.
KillErrno(p) ==
  CASE proc[p] = "gone" -> ESRCH
    [] proc[p] # "gone" /\ p \in foreign -> EPERM
    [] OTHER -> 0

\* A signal reaches a live process.  SIGTERM ends it unless it is handled; a
\* stopped process does not even see it before SIGCONT.
Deliver(p, signal) ==
  \/ /\ signal = "SIGKILL"
     /\ proc' = [proc EXCEPT ![p] = "gone"]
     /\ termPending' = termPending \ {p}
  \/ /\ signal = "SIGSTOP"
     /\ proc' = [proc EXCEPT ![p] = "stopped"]
     /\ UNCHANGED termPending
  \/ /\ signal = "SIGCONT"
     /\ \/ proc' = [proc EXCEPT ![p] = "running"]
        \/ p \in termPending /\ proc' = [proc EXCEPT ![p] = "gone"]
     /\ termPending' = termPending \ {p}
  \/ /\ signal = "SIGTERM"
     /\ IF proc[p] = "stopped"
        THEN termPending' = termPending \cup {p} /\ UNCHANGED proc
        ELSE /\ \/ proc' = [proc EXCEPT ![p] = "gone"]
                \/ UNCHANGED proc
             /\ UNCHANGED termPending

\* A process leaves by itself.
Exit(p) ==
  /\ proc[p] = "running"
  /\ proc' = [proc EXCEPT ![p] = "gone"]
  /\ UNCHANGED <<foreign, termPending, binVars, request, sending, ctrl, rc, events,
                 answers, delivered, overtaken>>

\* The job control of a shell stops a process.
JobStop(p) ==
  /\ proc[p] = "running"
  /\ proc' = [proc EXCEPT ![p] = "stopped"]
  /\ overtaken' = overtaken \cup {r \in Requests : sending = r /\ request[r].pid = p}
  /\ UNCHANGED <<foreign, termPending, binVars, request, sending, ctrl, rc, events,
                 answers, delivered>>

\* An own process executes a set-uid program.
BecomeForeign(p) ==
  /\ proc[p] = "running"
  /\ foreign' = foreign \cup {p}
  /\ UNCHANGED <<proc, termPending, binVars, request, sending, ctrl, rc, events,
                 answers, delivered, overtaken>>

-----------------------------------------------------------------------------
(* SystemMonitor::sendSignalToProcess, in the GUI thread                   *)

Answer(r, outcome) == answers' = [answers EXCEPT ![r] = Append(@, outcome)]

\* pctl: a controller thread is created and started.
Promote(r) ==
  /\ ctrl' = [ctrl EXCEPT ![r] = "checkPkexec"]
  /\ UNCHANGED <<proc, termPending, answers, delivered>>

\* errfmt and processControlResultReady.
Fail(r) ==
  /\ Answer(r, "error")
  /\ UNCHANGED <<proc, termPending, ctrl, delivered>>

\* Mutant of Pkill: no return between the promotion and the success report.
PkillFallingThrough(r, p, signal) ==
  \/ /\ KillErrno(p) = EPERM
     /\ ctrl' = [ctrl EXCEPT ![r] = "checkPkexec"]
     /\ Answer(r, "success")
     /\ UNCHANGED <<proc, termPending, delivered>>
  \/ KillErrno(p) \notin {0, EPERM} /\ Fail(r)
  \/ /\ KillErrno(p) = 0
     /\ Deliver(p, signal)
     /\ delivered' = delivered \cup {r}
     /\ Answer(r, "success")
     /\ UNCHANGED ctrl

\* pkill: kill(2) with the signal asked for, and what its errno leads to.
Pkill(r, p, signal) ==
  \/ KillErrno(p) = EPERM /\ Promote(r)
  \/ KillErrno(p) \notin {0, EPERM} /\ Fail(r)
  \/ /\ KillErrno(p) = 0
     /\ Deliver(p, signal)
     /\ delivered' = delivered \cup {r}
     /\ Answer(r, "success")
     /\ UNCHANGED ctrl

\* Mutant of SendSignalToProcess: no SIGCONT first.
SendWithoutCont(r, p, signal) ==
  /\ sending = None
  /\ request[r] = None
  /\ request' = [request EXCEPT ![r] = [pid |-> p, signal |-> signal]]
  /\ Pkill(r, p, signal)
  /\ UNCHANGED <<foreign, binVars, sending, rc, events, overtaken>>

\* Up to the first kill(2): SIGTERM and SIGKILL are preceded by a SIGCONT.
SendSignalToProcess(r, p, signal) ==
  /\ sending = None
  /\ request[r] = None
  /\ request' = [request EXCEPT ![r] = [pid |-> p, signal |-> signal]]
  /\ \/ /\ signal \in {"SIGTERM", "SIGKILL"}
        /\ \/ KillErrno(p) = EPERM /\ Promote(r) /\ sending' = None
           \/ KillErrno(p) \notin {0, EPERM} /\ Fail(r) /\ sending' = None
           \/ /\ KillErrno(p) = 0
              /\ Deliver(p, "SIGCONT")
              /\ sending' = r
              /\ UNCHANGED <<ctrl, answers, delivered>>
     \/ /\ signal \notin {"SIGTERM", "SIGKILL"}
        /\ Pkill(r, p, signal)
        /\ sending' = None
  /\ UNCHANGED <<foreign, binVars, rc, events, overtaken>>

\* The rest of the call, after the SIGCONT.
SendAfterCont(r) ==
  /\ sending = r
  /\ Pkill(r, request[r].pid, request[r].signal)
  /\ sending' = None
  /\ UNCHANGED <<foreign, binVars, request, rc, events, overtaken>>

\* Mutant of HandleResult: only a success is told.
HandleSuccessOnly ==
  /\ sending = None
  /\ events # << >>
  /\ IF Head(events).code = 0 THEN Answer(Head(events).req, "success")
                              ELSE UNCHANGED answers
  /\ events' = Tail(events)
  /\ UNCHANGED <<procVars, binVars, request, sending, ctrl, rc, delivered,
                 overtaken>>

\* The slot of resultReady.
HandleResult ==
  /\ sending = None
  /\ events # << >>
  /\ Answer(Head(events).req, IF Head(events).code = 0 THEN "success" ELSE "error")
  /\ events' = Tail(events)
  /\ UNCHANGED <<procVars, binVars, request, sending, ctrl, rc, delivered,
                 overtaken>>

-----------------------------------------------------------------------------
(* ProcessController::run                                                  *)

Emit(r, code) == events' = Append(events, [req |-> r, code |-> code])

\* QThread::exit does not leave run: after reporting a missing program the
\* thread goes on.
CheckPkexec(r) ==
  /\ ctrl[r] = "checkPkexec"
  /\ IF hasPkexec THEN UNCHANGED events ELSE Emit(r, ENOENT)
  /\ ctrl' = [ctrl EXCEPT ![r] = "checkKill"]
  /\ UNCHANGED <<procVars, binVars, request, sending, rc, answers, delivered,
                 overtaken>>

CheckKill(r) ==
  /\ ctrl[r] = "checkKill"
  /\ IF hasKill THEN UNCHANGED events ELSE Emit(r, ENOENT)
  /\ ctrl' = [ctrl EXCEPT ![r] = "execute"]
  /\ UNCHANGED <<procVars, binVars, request, sending, rc, answers, delivered,
                 overtaken>>

\* Mutant of StartPkexec: that pkexec did not start is not noticed.
StartPkexecUnchecked(r) ==
  /\ ctrl[r] = "execute"
  /\ ctrl' = [ctrl EXCEPT ![r] = IF hasPkexec THEN "prompt" ELSE "report"]
  /\ UNCHANGED <<procVars, binVars, request, sending, rc, events, answers, delivered,
                 overtaken>>

\* QProcess::execute: pkexec is started and shows its prompt, or cannot be.
StartPkexec(r) ==
  /\ ctrl[r] = "execute"
  /\ \/ hasPkexec /\ ctrl' = [ctrl EXCEPT ![r] = "prompt"] /\ UNCHANGED rc
     \/ ~hasPkexec /\ ctrl' = [ctrl EXCEPT ![r] = "report"] /\ rc' = [rc EXCEPT ![r] = -2]
  /\ UNCHANGED <<procVars, binVars, request, sending, events, answers, delivered,
                 overtaken>>

\* pkexec ends: refused or crashed, or authorized and kill(1) run as root.
FinishPkexec(r) ==
  /\ ctrl[r] = "prompt"
  /\ LET p == request[r].pid IN
       \/ /\ \E code \in {-1, 126, 127} : rc' = [rc EXCEPT ![r] = code]
          /\ UNCHANGED <<proc, termPending, delivered>>
       \/ /\ hasKill
          /\ proc[p] = "gone"
          /\ rc' = [rc EXCEPT ![r] = 1]
          /\ UNCHANGED <<proc, termPending, delivered>>
       \/ /\ hasKill
          /\ proc[p] # "gone"
          /\ Deliver(p, request[r].signal)
          /\ delivered' = delivered \cup {r}
          /\ rc' = [rc EXCEPT ![r] = 0]
  /\ ctrl' = [ctrl EXCEPT ![r] = "report"]
  /\ UNCHANGED <<foreign, binVars, request, sending, events, answers, overtaken>>

\* What run makes of pkexec's exit code.
ResultCode(code) == IF code \in {0, ESRCH} THEN code ELSE EPERM

ReportResult(r) ==
  /\ ctrl[r] = "report"
  /\ Emit(r, ResultCode(rc[r]))
  /\ ctrl' = [ctrl EXCEPT ![r] = "finished"]
  /\ UNCHANGED <<procVars, binVars, request, sending, rc, answers, delivered,
                 overtaken>>

-----------------------------------------------------------------------------

\* The steps a controller takes without waiting for the user.
ControllerStep(r) ==
  CheckPkexec(r) \/ CheckKill(r) \/ StartPkexec(r) \/ ReportResult(r)

Next ==
  \/ \E p \in Pids : Exit(p) \/ JobStop(p) \/ BecomeForeign(p)
  \/ \E r \in Requests, p \in Pids, signal \in Signals : SendSignalToProcess(r, p, signal)
  \/ \E r \in Requests : SendAfterCont(r)
  \/ HandleResult
  \/ \E r \in Requests : ControllerStep(r) \/ FinishPkexec(r)

Spec == Init /\ [][Next]_vars

\* The GUI thread and the controllers keep running.  Nothing makes the user
\* answer pkexec's prompt.
FairSpec ==
  /\ Spec
  /\ WF_vars(\E r \in Requests : SendAfterCont(r))
  /\ WF_vars(HandleResult)
  /\ \A r \in Requests : WF_vars(ControllerStep(r))

-----------------------------------------------------------------------------
(* Properties *)

Answered(r, outcome) == \E i \in 1..Len(answers[r]) : answers[r][i] = outcome

\* Success is told only of a signal that was sent, although the telling runs
\* through a thread, a child process, an exit code and a queue.
SuccessMeansDelivered ==
  \A r \in Requests : Answered(r, "success") => r \in delivered

\* No request is reported both done and failed: the thread that goes on after
\* reporting a missing program can only fail again.
NoMixedAnswers ==
  \A r \in Requests : ~(Answered(r, "success") /\ Answered(r, "error"))

\* A SIGTERM sent by the GUI itself finds the process running, even one that was
\* stopped when the user asked: it is left hanging only by a controller, or when
\* a shell stops the process in between.
DirectTerminationNeverHangs ==
  \A p \in termPending : \E r \in delivered :
    /\ request[r] = [pid |-> p, signal |-> "SIGTERM"]
    /\ ctrl[r] # "none" \/ r \in overtaken

\* Every request is answered, unless the user leaves pkexec's prompt open.
RequestsAreAnswered ==
  \A r \in Requests :
    \/ <>[](ctrl[r] = "prompt")
    \/ request[r] # None ~> answers[r] # << >>

\* "send SIGCONT first, otherwise signal will hang" (system_monitor.cpp:214):
\* no process is left stopped with a SIGTERM it will not see, unless a shell
\* stopped it after that SIGCONT.
TerminationNeverHangs ==
  \A p \in termPending : \E r \in delivered \cap overtaken :
    request[r] = [pid |-> p, signal |-> "SIGTERM"]
=============================================================================
