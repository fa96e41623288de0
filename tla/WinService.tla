----------------------------- MODULE WinService -----------------------------
(***************************************************************************)
(* internal/winsvc and cmd/setup: the service process (serviceMain, the    *)
(* control handler and the application it runs), and the commands that     *)
(* install, start, stop, upgrade and uninstall it through the service      *)
(* control manager (SCM) of Windows.                                       *)
(*                                                                         *)
(* What the code relies on is time: the handler sleeps before it lets the  *)
(* process end, setup sleeps before it overwrites the program, and         *)
(* uninstall polls up to a deadline.  Tick lets a unit of time pass        *)
(* whenever no thread of the service process has something to do.          *)
(*                                                                         *)
(* Of the SCM the model has what the code uses.  A stop is refused unless  *)
(* the last status reported is RUNNING with SERVICE_CONTROL_STOP accepted; *)
(* the service is handed one control at a time, and ControlService returns *)
(* when its handler has.  A service that is deleted while it runs is only  *)
(* marked, and the file of a running program cannot be written: limiz.exe  *)
(* is run by the service and by every command line, setup's own included.  *)
(* The command lines are taken to run the installed file.                  *)
(***************************************************************************)
EXTENDS Naturals

CONSTANTS Admins,       \* command lines: limiz install, uninstall, start, stop
          Setup,        \* the setup wizard
          HandlerSleep, \* the sleep of serviceHandler
          SetupWait,    \* the sleep of setup after its stop
          DeleteWait,   \* the deadline of Uninstall
          MaxShutdown,  \* bound: time the application takes to shut down
          NoOne         \* no client

Clients == Admins \cup {Setup}

ASSUME ConstantsAssumption ==
    /\ Setup \notin Admins
    /\ NoOne \notin Clients
    /\ {HandlerSleep, SetupWait, DeleteWait, MaxShutdown} \subseteq Nat
    /\ SetupWait > 0 /\ DeleteWait > 0

VARIABLES
    \* the SCM
    installed, \* the service is registered
    marked,    \* ... and marked for deletion
    status,    \* the last status reported for it
    accepts,   \* with SERVICE_CONTROL_STOP among the controls accepted
    control,   \* the client whose stop is being handled, or NoOne
    \* the service process
    svc,       \* where serviceMain is; "none" when there is no process
    handler,   \* where serviceHandler is
    sleeping,  \* what is left of its sleep
    stopCh,    \* stopCh is closed
    stoppedCh, \* stoppedCh is closed
    app,       \* the goroutine runFunc(stopCh)
    appLeft,   \* what is left of its shutdown
    quick,     \* its shutdown takes less than HandlerSleep
    \* the commands
    task,      \* task[c]: the command c runs
    pc,        \* pc[c]: its next step
    left,      \* left[c]: what is left of its sleep or deadline
    \* history
    stopping,  \* stopping[c]: the stop of c was taken, nobody has started since
    panicked,  \* a channel was closed twice
    cut        \* the process ended before a quick shutdown did

scmVars     == <<installed, marked, status, accepts, control>>
threadVars  == <<svc, handler, sleeping, stopCh, stoppedCh, app, appLeft, quick>>
clientVars  == <<task, pc, left, stopping>>
vars == <<scmVars, threadVars, clientVars, panicked, cut>>

\* A machine with or without an older release, which is not running.
Init ==
    /\ installed \in BOOLEAN /\ marked = FALSE
    /\ status = "stopped" /\ accepts = FALSE
    /\ control = NoOne
    /\ svc = "none" /\ handler = "idle" /\ sleeping = 0
    /\ stopCh = FALSE /\ stoppedCh = FALSE
    /\ app = "none" /\ appLeft = 0 /\ quick = FALSE
    /\ task = [c \in Clients |-> "none"]
    /\ pc = [c \in Clients |-> "idle"]
    /\ left = [c \in Clients |-> 0]
    /\ stopping = [c \in Clients |-> FALSE]
    /\ panicked = FALSE /\ cut = FALSE

-----------------------------------------------------------------------------
(* The service process: serviceMain and the application.                   *)

\* RegisterServiceCtrlHandlerEx fails: serviceMain returns and reports nothing.
RegisterFails ==
    /\ svc = "register"
    /\ svc' = "returned"
    /\ UNCHANGED <<scmVars, handler, sleeping, stopCh, stoppedCh, app, appLeft,
                   quick, clientVars, panicked, cut>>

\* setServiceStatus(SERVICE_START_PENDING), setServiceStatus(SERVICE_RUNNING):
\* from now on a stop is accepted, before the application has been started.
ReportRunning ==
    /\ svc = "register"
    /\ svc' = "launch"
    /\ status' = "running"
    /\ accepts' = TRUE
    /\ UNCHANGED <<installed, marked, control, handler, sleeping, stopCh,
                   stoppedCh, app, appLeft, quick, clientVars, panicked, cut>>

\* go runFunc(stopCh)
Launch ==
    /\ svc = "launch"
    /\ svc' = "wait"
    /\ app' = "serving"
    /\ UNCHANGED <<scmVars, handler, sleeping, stopCh, stoppedCh, appLeft, quick,
                   clientVars, panicked, cut>>

\* <-stoppedCh; setServiceStatus(SERVICE_STOPPED): a service marked for
\* deletion goes with it.
ReportStopped ==
    /\ svc = "wait"
    /\ stoppedCh
    /\ svc' = "returned"
    /\ status' = "stopped"
    /\ accepts' = FALSE
    /\ installed' = (installed /\ ~marked)
    /\ marked' = FALSE
    /\ UNCHANGED <<control, handler, sleeping, stopCh, stoppedCh, app, appLeft,
                   quick, clientVars, panicked, cut>>

\* RunService returns when serviceMain and the handler have, and the process
\* ends with whatever the application is doing.  A service whose process has
\* ended is stopped for the SCM, whatever it has reported.
ProcessEnds ==
    /\ svc = "returned"
    /\ handler = "idle"
    /\ svc' = "none"
    /\ status' = "stopped"
    /\ accepts' = FALSE
    /\ installed' = (installed /\ ~marked)
    /\ marked' = FALSE
    /\ stopCh' = FALSE
    /\ stoppedCh' = FALSE
    /\ app' = "none"
    /\ appLeft' = 0
    /\ quick' = FALSE
    /\ cut' = (cut \/ (app = "stopping" /\ quick))
    /\ UNCHANGED <<control, handler, sleeping, clientVars, panicked>>

\* The application sees stopCh closed and takes its time.
AppStops ==
    /\ app = "serving"
    /\ stopCh
    /\ \E t \in 0 .. MaxShutdown :
           /\ appLeft' = t
           /\ quick' = (t < HandlerSleep)
    /\ app' = "stopping"
    /\ UNCHANGED <<scmVars, svc, handler, sleeping, stopCh, stoppedCh, clientVars,
                   panicked, cut>>

\* It returns, after its shutdown or, when it cannot serve, before.
AppReturns ==
    /\ app = "serving" \/ (app = "stopping" /\ appLeft = 0)
    /\ app' = "returned"
    /\ UNCHANGED <<scmVars, svc, handler, sleeping, stopCh, stoppedCh, appLeft, quick,
                   clientVars, panicked, cut>>

-----------------------------------------------------------------------------
(* serviceHandler(SERVICE_CONTROL_STOP).                                   *)

\* Mutant: the status goes on to say that a stop is accepted.
ReportStopPendingLate ==
    /\ handler = "idle"
    /\ control # NoOne
    /\ handler' = "close"
    /\ UNCHANGED <<scmVars, svc, sleeping, stopCh, stoppedCh, app, appLeft, quick,
                   clientVars, panicked, cut>>

\* setServiceStatus(SERVICE_STOP_PENDING, 0)
ReportStopPending ==
    /\ handler = "idle"
    /\ control # NoOne
    /\ handler' = "close"
    /\ status' = "stop_pending"
    /\ accepts' = FALSE
    /\ UNCHANGED <<installed, marked, control, svc, sleeping, stopCh, stoppedCh,
                   app, appLeft, quick, clientVars, panicked, cut>>

\* Mutant: the sleep is prolonged by another second.
CloseStopChSleepsLonger ==
    /\ handler = "close"
    /\ panicked' = (panicked \/ stopCh)
    /\ stopCh' = TRUE
    /\ handler' = "sleep"
    /\ sleeping' = HandlerSleep + 1
    /\ UNCHANGED <<scmVars, svc, stoppedCh, app, appLeft, quick, clientVars, cut>>

\* close(stopCh); time.Sleep(3 * time.Second)
CloseStopCh ==
    /\ handler = "close"
    /\ panicked' = (panicked \/ stopCh)
    /\ stopCh' = TRUE
    /\ handler' = "sleep"
    /\ sleeping' = HandlerSleep
    /\ UNCHANGED <<scmVars, svc, stoppedCh, app, appLeft, quick, clientVars, cut>>

\* Mutant: stoppedCh is closed before the sleep is over.
CloseStoppedChAtOnce ==
    /\ handler = "sleep"
    /\ panicked' = (panicked \/ stoppedCh)
    /\ stoppedCh' = TRUE
    /\ handler' = "return"
    /\ sleeping' = 0
    /\ UNCHANGED <<scmVars, svc, stopCh, app, appLeft, quick, clientVars, cut>>

\* Mutant: stoppedCh is forgotten.
CloseStoppedChNever ==
    /\ handler = "sleep"
    /\ sleeping = 0
    /\ handler' = "return"
    /\ UNCHANGED <<scmVars, svc, sleeping, stopCh, stoppedCh, app, appLeft, quick,
                   clientVars, panicked, cut>>

\* close(stoppedCh)
CloseStoppedCh ==
    /\ handler = "sleep"
    /\ sleeping = 0
    /\ panicked' = (panicked \/ stoppedCh)
    /\ stoppedCh' = TRUE
    /\ handler' = "return"
    /\ UNCHANGED <<scmVars, svc, sleeping, stopCh, app, appLeft, quick, clientVars, cut>>

-----------------------------------------------------------------------------
(* The commands.                                                           *)

\* The client goes to its next step, or ends.
Then(c, step, wait) ==
    /\ pc' = [pc EXCEPT ![c] = step]
    /\ left' = [left EXCEPT ![c] = wait]
    /\ task' = IF step = "idle" THEN [task EXCEPT ![c] = "none"] ELSE task

End(c) == Then(c, "idle", 0)

\* Mutant: setup does not wait after its stop.
AfterStopNoWait(c) ==
    CASE task[c] = "setup"     -> Then(c, "sleep", 0)
      [] task[c] = "uninstall" -> Then(c, "poll", DeleteWait)
      [] OTHER                 -> End(c)

\* What follows procControlService, whatever it returned.
AfterStop(c) ==
    CASE task[c] = "setup"     -> Then(c, "sleep", SetupWait)
      [] task[c] = "uninstall" -> Then(c, "poll", DeleteWait)
      [] OTHER                 -> End(c)

\* The handler returns, and with it ControlService.
HandlerReturns ==
    /\ handler = "return"
    /\ handler' = "idle"
    /\ control' = NoOne
    /\ AfterStop(control)
    /\ UNCHANGED <<installed, marked, status, accepts, svc, sleeping, stopCh,
                   stoppedCh, app, appLeft, quick, stopping, panicked, cut>>

\* HandleServiceCommands
Command(c, cmd) ==
    /\ c \in Admins
    /\ pc[c] = "idle"
    /\ task' = [task EXCEPT ![c] = cmd]
    /\ pc' = [pc EXCEPT ![c] = IF cmd = "uninstall" THEN "stop" ELSE cmd]
    /\ UNCHANGED <<scmVars, threadVars, left, stopping, panicked, cut>>

\* setup: directories and base.config.json, then "limiz stop".
RunSetup ==
    /\ pc[Setup] = "idle"
    /\ task' = [task EXCEPT ![Setup] = "setup"]
    /\ pc' = [pc EXCEPT ![Setup] = "stop"]
    /\ UNCHANGED <<scmVars, threadVars, left, stopping, panicked, cut>>

\* Stop and Uninstall: ControlService hands the stop to the service ...
StopTaken(c) ==
    /\ pc[c] = "stop"
    /\ installed /\ status = "running" /\ accepts
    /\ control = NoOne
    /\ control' = c
    /\ pc' = [pc EXCEPT ![c] = "control"]
    /\ stopping' = [stopping EXCEPT ![c] = TRUE]
    /\ UNCHANGED <<installed, marked, status, accepts, threadVars, task, left,
                   panicked, cut>>

\* ... or refuses it, which Uninstall and setup ignore.  Without a service
\* OpenService fails, and Uninstall ends.
StopRefused(c) ==
    /\ pc[c] = "stop"
    /\ ~(installed /\ status = "running" /\ accepts)
    /\ stopping' = [stopping EXCEPT ![c] = FALSE]
    /\ IF task[c] = "uninstall" /\ ~installed THEN End(c) ELSE AfterStop(c)
    /\ UNCHANGED <<scmVars, threadVars, panicked, cut>>

\* Mutant: Uninstall does not wait for the service to stop.
PollNothing(c) ==
    /\ pc[c] = "poll"
    /\ Then(c, "delete", 0)
    /\ UNCHANGED <<scmVars, threadVars, stopping, panicked, cut>>

\* Uninstall: after each sleep the status is asked for, up to the deadline.
Poll(c) ==
    /\ pc[c] = "poll"
    /\ left[c] = 0 \/ (left[c] < DeleteWait /\ status = "stopped")
    /\ Then(c, "delete", 0)
    /\ UNCHANGED <<scmVars, threadVars, stopping, panicked, cut>>

\* DeleteService
Delete(c) ==
    /\ pc[c] = "delete"
    /\ End(c)
    /\ installed' = (installed /\ status # "stopped")
    /\ marked' = (installed /\ status # "stopped")
    /\ UNCHANGED <<status, accepts, control, threadVars, stopping, panicked, cut>>

\* setup: time.Sleep(2 * time.Second) is over.
SetupWakes ==
    /\ pc[Setup] = "sleep"
    /\ left[Setup] = 0
    /\ Then(Setup, "write", 0)
    /\ UNCHANGED <<scmVars, threadVars, stopping, panicked, cut>>

\* The commands that are running limiz.exe: a command line from its start to
\* its end, setup while it waits for one that it has started.
Commands == {c \in Clients : pc[c] \notin {"idle", "sleep", "write"}}

\* os.WriteFile(dstExe), which fails while a process runs the program.
Write ==
    /\ pc[Setup] = "write"
    /\ IF svc = "none" /\ Commands = {} THEN Then(Setup, "install", 0) ELSE End(Setup)
    /\ UNCHANGED <<scmVars, threadVars, stopping, panicked, cut>>

\* Install: CreateService, or ChangeServiceConfig on the one there is; both
\* fail when it is marked for deletion.
Install(c) ==
    /\ pc[c] = "install"
    /\ installed' = TRUE
    /\ IF task[c] = "setup" /\ ~marked THEN Then(c, "start", 0) ELSE End(c)
    /\ UNCHANGED <<marked, status, accepts, control, threadVars, stopping,
                   panicked, cut>>

\* Start: StartService launches the process, which connects and runs
\* serviceMain, and returns.
Start(c) ==
    /\ pc[c] = "start"
    /\ End(c)
    /\ IF installed /\ ~marked /\ status = "stopped" /\ svc = "none"
       THEN /\ status' = "start_pending"
            /\ svc' = "register"
            /\ stopping' = [d \in Clients |-> FALSE]
       ELSE UNCHANGED <<status, svc, stopping>>
    /\ UNCHANGED <<installed, marked, accepts, control, handler, sleeping,
                   stopCh, stoppedCh, app, appLeft, quick, panicked, cut>>

-----------------------------------------------------------------------------
\* No thread of the service process can run: each waits for a channel, for a
\* control, or for its time.
Quiet ==
    /\ svc = "none" \/ (svc = "wait" /\ ~stoppedCh)
    /\ handler = "idle" => control = NoOne
    /\ handler # "idle" => handler = "sleep" /\ sleeping > 0
    /\ app = "serving" => ~stopCh
    /\ app = "stopping" => appLeft > 0

Less(n) == IF n > 0 THEN n - 1 ELSE 0

Tick ==
    /\ Quiet
    /\ sleeping' = Less(sleeping)
    /\ appLeft' = Less(appLeft)
    /\ left' = [c \in Clients |-> Less(left[c])]
    /\ UNCHANGED <<scmVars, svc, handler, stopCh, stoppedCh, app, quick, task, pc,
                   stopping, panicked, cut>>

Service == \/ RegisterFails \/ ReportRunning \/ Launch \/ ReportStopped \/ ProcessEnds
           \/ ReportStopPending \/ CloseStopCh \/ CloseStoppedCh \/ HandlerReturns

Client(c) == \/ \E cmd \in {"install", "uninstall", "start", "stop"} : Command(c, cmd)
             \/ StopTaken(c) \/ StopRefused(c) \/ Poll(c) \/ Delete(c)
             \/ Install(c) \/ Start(c)

Next == \/ Service \/ AppStops \/ AppReturns
        \/ RunSetup \/ SetupWakes \/ Write \/ Tick
        \/ \E c \in Clients : Client(c)

Spec == Init /\ [][Next]_vars

\* The threads of the service process run and time passes; the application
\* need not notice stopCh, and nobody has to type a command.
FairSpec == Spec /\ WF_vars(Service) /\ WF_vars(AppStops \/ AppReturns) /\ SF_vars(Tick)
-----------------------------------------------------------------------------
(* Properties.                                                             *)

TypeOK ==
    /\ {installed, marked, accepts, stopCh, stoppedCh, quick, panicked, cut} \subseteq BOOLEAN
    /\ status \in {"stopped", "start_pending", "running", "stop_pending"}
    /\ control \in Clients \cup {NoOne}
    /\ svc \in {"none", "register", "launch", "wait", "returned"}
    /\ handler \in {"idle", "close", "sleep", "return"}
    /\ sleeping \in 0 .. HandlerSleep
    /\ app \in {"none", "serving", "stopping", "returned"}
    /\ appLeft \in 0 .. MaxShutdown
    /\ task \in [Clients -> {"none", "install", "uninstall", "start", "stop", "setup"}]
    /\ pc \in [Clients -> {"idle", "stop", "control", "sleep", "poll", "write",
                           "delete", "install", "start"}]
    /\ left \in [Clients -> Nat]
    /\ stopping \in [Clients -> BOOLEAN]

\* "Give the app time to shutdown gracefully": a shutdown that takes less
\* than the handler's sleep is never cut off by the end of the process,
\* whenever the stop comes.
ShutdownNotCut == ~cut

\* No channel is closed twice, which would be a panic: a second stop cannot
\* reach the handler, although two commands may send one at the same time.
ChannelsClosedOnce == ~panicked

\* "Wait for the service to release file locks" (cmd/setup): when setup's stop
\* was taken and nobody has started the service since, neither the service nor
\* a command of setup holds limiz.exe when it is written.  What may still hold
\* it, and make the write fail, is another command line: an uninstall that
\* polls, for one.
UnlockedForSetup ==
    pc[Setup] = "write" /\ stopping[Setup] => svc = "none" /\ Commands \subseteq Admins

\* "Servisin tam olarak durmasini bekledikten sonra siler" (waits for the
\* service to have stopped, then deletes it): so it does when its stop was
\* taken and nobody has started the service since.
DeletedWhenStopped ==
    \A c \in Clients : pc[c] = "delete" /\ stopping[c] => status = "stopped"

\* A stop that was taken ends the process and gives the command back, whatever
\* the application does.
StopEnds ==
    \A c \in Clients : pc[c] = "control" ~> pc[c] # "control" /\ svc = "none"
=============================================================================
