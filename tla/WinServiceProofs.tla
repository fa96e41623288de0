-------------------------- MODULE WinServiceProofs --------------------------
(***************************************************************************)
(* Proofs about WinService for any number of command lines and any times.  *)
(***************************************************************************)
EXTENDS WinService, TLAPS

USE DEF scmVars, threadVars, clientVars

(***************************************************************************)
(* 1. Types.                                                               *)
(***************************************************************************)
Steps == {"idle", "stop", "control", "sleep", "poll", "write", "delete", "install", "start"}
Tasks == {"none", "install", "uninstall", "start", "stop", "setup"}

ClientsTyped == /\ task \in [Clients -> Tasks]
                /\ pc \in [Clients -> Steps]
                /\ left \in [Clients -> Nat]

LEMMA ConstantsTyped ==
    /\ HandlerSleep \in Nat /\ SetupWait \in Nat /\ DeleteWait \in Nat /\ MaxShutdown \in Nat
    /\ DeleteWait > 0 /\ SetupWait > 0
    /\ NoOne \notin Clients /\ Setup \in Clients
  BY ConstantsAssumption DEF Clients

LEMMA TypedClients == TypeOK => ClientsTyped
  BY DEF TypeOK, ClientsTyped, Steps, Tasks

LEMMA ThenTyped ==
    ASSUME ClientsTyped, NEW c, NEW step \in Steps, NEW wait \in Nat, Then(c, step, wait)
    PROVE  ClientsTyped'
  BY DEF ClientsTyped, Then, Tasks

LEMMA EndTyped ==
    ASSUME ClientsTyped, NEW c, End(c)
    PROVE  ClientsTyped'
  BY ThenTyped DEF End, Steps

LEMMA AfterStopTyped ==
    ASSUME ClientsTyped, NEW c, AfterStop(c)
    PROVE  ClientsTyped'
<1> USE ConstantsTyped
<1>1. CASE Then(c, "sleep", SetupWait)
  BY <1>1, ThenTyped DEF Steps
<1>2. CASE Then(c, "poll", DeleteWait)
  BY <1>2, ThenTyped DEF Steps
<1>3. CASE End(c)
  BY <1>3, EndTyped
<1> QED BY <1>1, <1>2, <1>3 DEF AfterStop

\* What a step leaves typed besides the commands.
RestTyped ==
    /\ {installed, marked, accepts, stopCh, stoppedCh, quick, panicked, cut} \subseteq BOOLEAN
    /\ status \in {"stopped", "start_pending", "running", "stop_pending"}
    /\ control \in Clients \cup {NoOne}
    /\ svc \in {"none", "register", "launch", "wait", "returned"}
    /\ handler \in {"idle", "close", "sleep", "return"}
    /\ sleeping \in 0 .. HandlerSleep
    /\ app \in {"none", "serving", "stopping", "returned"}
    /\ appLeft \in 0 .. MaxShutdown
    /\ stopping \in [Clients -> BOOLEAN]

LEMMA TypeParts == TypeOK <=> ClientsTyped /\ RestTyped
  BY DEF TypeOK, ClientsTyped, RestTyped, Steps, Tasks

LEMMA TypeInit == Init => TypeOK
<1> SUFFICES ASSUME Init PROVE TypeOK
  OBVIOUS
<1>1. {installed, marked, accepts, stopCh, stoppedCh, quick, panicked, cut} \subseteq BOOLEAN
  BY Zenon DEF Init
<1>2. sleeping \in 0 .. HandlerSleep /\ appLeft \in 0 .. MaxShutdown
  BY ConstantsTyped DEF Init
<1>3. /\ task \in [Clients -> {"none", "install", "uninstall", "start", "stop", "setup"}]
      /\ pc \in [Clients -> {"idle", "stop", "control", "sleep", "poll", "write",
                            "delete", "install", "start"}]
      /\ left \in [Clients -> Nat]
      /\ stopping \in [Clients -> BOOLEAN]
  BY DEF Init
<1> QED BY <1>1, <1>2, <1>3 DEF Init, TypeOK

LEMMA RestStep == TypeOK /\ [Next]_vars => RestTyped'
<1> SUFFICES ASSUME TypeOK, [Next]_vars PROVE RestTyped'
  OBVIOUS
<1> USE ConstantsTyped DEF TypeOK, RestTyped
<1>0. CASE RegisterFails
  BY <1>0 DEF RegisterFails
<1>1. CASE ReportRunning
  BY <1>1 DEF ReportRunning
<1>2. CASE Launch
  BY <1>2 DEF Launch
<1>3. CASE ReportStopped
  BY <1>3 DEF ReportStopped
<1>4. CASE ProcessEnds
  <2>1. {installed, marked, accepts, stopCh, stoppedCh, quick, panicked, cut}' \subseteq BOOLEAN
    <3>1. {installed', marked', accepts', stopCh', stoppedCh', quick', cut'} \subseteq BOOLEAN
      BY <1>4, Zenon DEF ProcessEnds
    <3>2. UNCHANGED panicked
      BY <1>4, Zenon DEF ProcessEnds
    <3> QED BY <3>1, <3>2
  <2>2. /\ svc' = "none" /\ app' = "none" /\ appLeft' = 0 /\ status' = "stopped"
        /\ UNCHANGED <<control, handler, sleeping, stopping>>
    BY <1>4, Zenon DEF ProcessEnds
  <2> QED BY <2>1, <2>2
<1>5. CASE ReportStopPending
  BY <1>5 DEF ReportStopPending
<1>6. CASE CloseStopCh
  BY <1>6 DEF CloseStopCh
<1>7. CASE CloseStoppedCh
  BY <1>7 DEF CloseStoppedCh
<1>8. CASE HandlerReturns
  BY <1>8 DEF HandlerReturns
<1>9. CASE AppStops
  BY <1>9 DEF AppStops
<1>10. CASE AppReturns
  BY <1>10 DEF AppReturns
<1>11. CASE RunSetup \/ SetupWakes \/ Write
  BY <1>11 DEF RunSetup, SetupWakes, Write
<1>12. CASE Tick
  BY <1>12 DEF Tick, Less
<1>13. ASSUME NEW c \in Clients, Client(c) PROVE RestTyped'
  <2>1. CASE \E cmd \in {"install", "uninstall", "start", "stop"} : Command(c, cmd)
    BY <2>1 DEF Command
  <2>2. CASE StopTaken(c)
    BY <2>2 DEF StopTaken
  <2>3. CASE StopRefused(c)
    BY <2>3 DEF StopRefused
  <2>4. CASE Poll(c)
    BY <2>4 DEF Poll
  <2>5. CASE Delete(c)
    BY <2>5 DEF Delete
  <2>6. CASE Install(c)
    BY <2>6 DEF Install
  <2>7. CASE Start(c)
    BY <2>7 DEF Start
  <2> QED BY <1>13, <2>1, <2>2, <2>3, <2>4, <2>5, <2>6, <2>7 DEF Client
<1>14. CASE UNCHANGED vars
  BY <1>14 DEF vars
<1> QED BY <1>0, <1>1, <1>2, <1>3, <1>4, <1>5, <1>6, <1>7, <1>8, <1>9, <1>10, <1>11, <1>12,
           <1>13, <1>14 DEF Next, Service

LEMMA ClientsStep == TypeOK /\ [Next]_vars => ClientsTyped'
<1> SUFFICES ASSUME ClientsTyped, [Next]_vars PROVE ClientsTyped'
  BY TypedClients
<1> USE ConstantsTyped
<1>1. CASE UNCHANGED clientVars
  BY <1>1 DEF ClientsTyped
<1>2. CASE HandlerReturns
  BY <1>2, AfterStopTyped DEF HandlerReturns
<1>3. CASE RunSetup
  BY <1>3 DEF RunSetup, ClientsTyped, Steps, Tasks
<1>4. CASE SetupWakes
  BY <1>4, ThenTyped DEF SetupWakes, Steps
<1>5. CASE Write
  BY <1>5, ThenTyped, EndTyped DEF Write, Steps
<1>6. CASE Tick
  BY <1>6 DEF Tick, Less, ClientsTyped
<1>7. ASSUME NEW c \in Clients, Client(c) PROVE ClientsTyped'
  <2>1. CASE \E cmd \in {"install", "uninstall", "start", "stop"} : Command(c, cmd)
    BY <2>1 DEF Command, ClientsTyped, Steps, Tasks
  <2>2. CASE StopTaken(c)
    BY <2>2 DEF StopTaken, ClientsTyped, Steps
  <2>3. CASE StopRefused(c)
    BY <2>3, EndTyped, AfterStopTyped DEF StopRefused
  <2>4. CASE Poll(c)
    BY <2>4, ThenTyped DEF Poll, Steps
  <2>5. CASE Delete(c)
    BY <2>5, EndTyped DEF Delete
  <2>6. CASE Install(c)
    BY <2>6, ThenTyped, EndTyped DEF Install, Steps
  <2>7. CASE Start(c)
    BY <2>7, EndTyped DEF Start
  <2> QED BY <1>7, <2>1, <2>2, <2>3, <2>4, <2>5, <2>6, <2>7 DEF Client
<1>8. CASE RegisterFails \/ ReportRunning \/ Launch \/ ReportStopped \/ ProcessEnds
  BY <1>1, <1>8 DEF RegisterFails, ReportRunning, Launch, ReportStopped, ProcessEnds
<1>9. CASE ReportStopPending \/ CloseStopCh \/ CloseStoppedCh \/ AppStops \/ AppReturns
  BY <1>1, <1>9 DEF ReportStopPending, CloseStopCh, CloseStoppedCh, AppStops, AppReturns
<1>10. CASE UNCHANGED vars
  BY <1>1, <1>10 DEF vars
<1> QED BY <1>2, <1>3, <1>4, <1>5, <1>6, <1>7, <1>8, <1>9, <1>10 DEF Next, Service

\* Every variable keeps its type, for every number of command lines and
\* whatever the times are.
THEOREM TypeCorrect == Spec => []TypeOK
<1>1. TypeOK /\ [Next]_vars => TypeOK'
  <2>1. (TypeOK <=> ClientsTyped /\ RestTyped)'
    BY TypeParts, PTL
  <2> QED BY <2>1, ClientsStep, RestStep
<1> QED BY <1>1, TypeInit, PTL DEF Spec

(***************************************************************************)
(* 2. The channels.                                                        *)
(***************************************************************************)
\* A stop is accepted only while both channels are open and the handler waits,
\* the handler closes them in their order, and the end of the process is the
\* only way back.
ChannelInv ==
    /\ ~panicked
    /\ accepts => handler = "idle" /\ ~stopCh /\ ~stoppedCh /\ svc \in {"launch", "wait"}
    /\ control # NoOne /\ handler = "idle" => accepts
    /\ handler # "idle" => control # NoOne /\ svc \notin {"none", "register"}
    /\ handler = "close" => ~stopCh /\ ~stoppedCh
    /\ handler = "sleep" => stopCh /\ ~stoppedCh
    /\ handler = "return" => stoppedCh
    /\ stoppedCh => stopCh
    /\ stopCh => handler = "sleep" \/ stoppedCh
    /\ svc \in {"none", "register"} => ~stopCh
    /\ svc = "returned" => IF stoppedCh THEN app # "none" ELSE app = "none" /\ handler = "idle"
    /\ svc = "none" => status = "stopped"
    /\ svc \in {"none", "register", "launch"} => app = "none"
    /\ svc = "wait" => app # "none"

LEMMA ChannelInvStep == TypeOK /\ ChannelInv /\ [Next]_vars => ChannelInv'
<1> SUFFICES ASSUME TypeOK, ChannelInv, [Next]_vars PROVE ChannelInv'
  OBVIOUS
<1> USE ConstantsTyped DEF ChannelInv, TypeOK
<1>0. CASE RegisterFails
  BY <1>0 DEF RegisterFails
<1>1. CASE ReportRunning
  BY <1>1 DEF ReportRunning
<1>2. CASE Launch
  BY <1>2 DEF Launch
<1>3. CASE ReportStopped
  BY <1>3 DEF ReportStopped
<1>4. CASE ProcessEnds
  BY <1>4 DEF ProcessEnds
<1>5. CASE ReportStopPending
  BY <1>5 DEF ReportStopPending
<1>6. CASE CloseStopCh
  BY <1>6 DEF CloseStopCh
<1>7. CASE CloseStoppedCh
  BY <1>7 DEF CloseStoppedCh
<1>8. CASE HandlerReturns
  BY <1>8 DEF HandlerReturns
<1>9. CASE AppStops
  BY <1>9 DEF AppStops
<1>10. CASE AppReturns
  BY <1>10 DEF AppReturns
<1>11. CASE RunSetup \/ SetupWakes \/ Write
  BY <1>11 DEF RunSetup, SetupWakes, Write
<1>12. CASE Tick
  BY <1>12 DEF Tick, Quiet, Less
<1>13. ASSUME NEW c \in Clients, Client(c) PROVE ChannelInv'
  <2>1. CASE \E cmd \in {"install", "uninstall", "start", "stop"} : Command(c, cmd)
    BY <2>1 DEF Command
  <2>2. CASE StopTaken(c)
    BY <2>2 DEF StopTaken
  <2>3. CASE StopRefused(c)
    BY <2>3 DEF StopRefused
  <2>4. CASE Poll(c)
    BY <2>4 DEF Poll
  <2>5. CASE Delete(c)
    BY <2>5 DEF Delete
  <2>6. CASE Install(c)
    BY <2>6 DEF Install
  <2>7. CASE Start(c)
    BY <2>7 DEF Start
  <2> QED BY <1>13, <2>1, <2>2, <2>3, <2>4, <2>5, <2>6, <2>7 DEF Client
<1>14. CASE UNCHANGED vars
  BY <1>14 DEF vars
<1> QED BY <1>0, <1>1, <1>2, <1>3, <1>4, <1>5, <1>6, <1>7, <1>8, <1>9, <1>10, <1>11, <1>12, <1>13, <1>14
        DEF Next, Service

\* No channel is closed twice, however many command lines stop the service.
THEOREM ChannelsClosedOnceCorrect == Spec => []ChannelsClosedOnce
<1>1. Init => ChannelInv
  BY Zenon DEF Init, ChannelInv
<1>2. ChannelInv => ChannelsClosedOnce
  BY DEF ChannelInv, ChannelsClosedOnce
<1> QED BY <1>1, <1>2, ChannelInvStep, TypeCorrect, PTL DEF Spec

(***************************************************************************)
(* 3. The shutdown of the application.                                     *)
(***************************************************************************)
\* The application notices stopCh before the handler's sleep gets shorter, so
\* that a shutdown that is quicker than the sleep has less left than it.
ShutdownInv ==
    /\ ~cut
    /\ app = "stopping" => stopCh
    /\ handler = "sleep" /\ app \in {"none", "serving"} => sleeping = HandlerSleep
    /\ handler = "sleep" /\ app = "stopping" /\ quick => appLeft < sleeping
    /\ stoppedCh /\ app = "stopping" => ~quick
    /\ stoppedCh /\ app \in {"none", "serving"} => HandlerSleep = 0

LEMMA ShutdownInvStep == TypeOK /\ ChannelInv /\ ShutdownInv /\ [Next]_vars => ShutdownInv'
<1> SUFFICES ASSUME TypeOK, ChannelInv, ShutdownInv, [Next]_vars PROVE ShutdownInv'
  OBVIOUS
<1> USE ConstantsTyped DEF ShutdownInv, TypeOK, ChannelInv
<1>0. CASE RegisterFails
  BY <1>0 DEF RegisterFails
<1>1. CASE ReportRunning
  BY <1>1 DEF ReportRunning
<1>2. CASE Launch
  BY <1>2 DEF Launch
<1>3. CASE ReportStopped
  BY <1>3 DEF ReportStopped
<1>4. CASE ProcessEnds
  BY <1>4 DEF ProcessEnds
<1>5. CASE ReportStopPending
  BY <1>5 DEF ReportStopPending
<1>6. CASE CloseStopCh
  BY <1>6 DEF CloseStopCh
<1>7. CASE CloseStoppedCh
  BY <1>7 DEF CloseStoppedCh
<1>8. CASE HandlerReturns
  BY <1>8 DEF HandlerReturns
<1>9. CASE AppStops
  BY <1>9 DEF AppStops
<1>10. CASE AppReturns
  BY <1>10 DEF AppReturns
<1>11. CASE RunSetup \/ SetupWakes \/ Write
  BY <1>11 DEF RunSetup, SetupWakes, Write
<1>12. CASE Tick
  BY <1>12 DEF Tick, Quiet, Less
<1>13. ASSUME NEW c \in Clients, Client(c) PROVE ShutdownInv'
  <2>1. CASE \E cmd \in {"install", "uninstall", "start", "stop"} : Command(c, cmd)
    BY <2>1 DEF Command
  <2>2. CASE StopTaken(c)
    BY <2>2 DEF StopTaken
  <2>3. CASE StopRefused(c)
    BY <2>3 DEF StopRefused
  <2>4. CASE Poll(c)
    BY <2>4 DEF Poll
  <2>5. CASE Delete(c)
    BY <2>5 DEF Delete
  <2>6. CASE Install(c)
    BY <2>6 DEF Install
  <2>7. CASE Start(c)
    BY <2>7 DEF Start
  <2> QED BY <1>13, <2>1, <2>2, <2>3, <2>4, <2>5, <2>6, <2>7 DEF Client
<1>14. CASE UNCHANGED vars
  BY <1>14 DEF vars
<1> QED BY <1>0, <1>1, <1>2, <1>3, <1>4, <1>5, <1>6, <1>7, <1>8, <1>9, <1>10, <1>11, <1>12, <1>13, <1>14
        DEF Next, Service

\* A shutdown quicker than the handler's sleep is not cut off, for every length
\* of both.
THEOREM ShutdownNotCutCorrect == Spec => []ShutdownNotCut
<1>1. Init => ChannelInv
  BY Zenon DEF Init, ChannelInv
<1>2. Init => ShutdownInv
  BY Zenon DEF Init, ShutdownInv
<1>3. ShutdownInv => ShutdownNotCut
  BY DEF ShutdownInv, ShutdownNotCut
<1> QED BY <1>1, <1>2, <1>3, ChannelInvStep, ShutdownInvStep, TypeCorrect, PTL DEF Spec

(***************************************************************************)
(* 4. What the commands do after their stop.                               *)
(***************************************************************************)
\* No time passes between the end of the handler and the end of the process:
\* a command whose stop was taken has its whole wait before it, or the process
\* has ended.
WaitInv ==
    \A c \in Clients : stopping[c] =>
        /\ pc[c] = "sleep" => svc = "none" \/ (stoppedCh /\ left[c] = SetupWait)
        /\ pc[c] = "poll" => svc = "none" \/ (stoppedCh /\ left[c] = DeleteWait)
        /\ pc[c] \in {"write", "delete"} => svc = "none"

LEMMA ThenGoes ==
    ASSUME ClientsTyped, NEW c \in Clients, NEW step, NEW wait, Then(c, step, wait)
    PROVE  /\ pc'[c] = step /\ left'[c] = wait
           /\ \A d \in Clients \ {c} : pc'[d] = pc[d] /\ left'[d] = left[d]
  BY DEF ClientsTyped, Then

LEMMA EndGoes ==
    ASSUME ClientsTyped, NEW c \in Clients, End(c)
    PROVE  /\ pc'[c] = "idle"
           /\ \A d \in Clients \ {c} : pc'[d] = pc[d] /\ left'[d] = left[d]
  BY ThenGoes DEF End

LEMMA AfterStopGoes ==
    ASSUME ClientsTyped, NEW c \in Clients, AfterStop(c)
    PROVE  /\ \/ pc'[c] = "sleep" /\ left'[c] = SetupWait
              \/ pc'[c] = "poll" /\ left'[c] = DeleteWait
              \/ pc'[c] = "idle"
           /\ \A d \in Clients \ {c} : pc'[d] = pc[d] /\ left'[d] = left[d]
<1>1. CASE Then(c, "sleep", SetupWait)
  BY <1>1, ThenGoes
<1>2. CASE Then(c, "poll", DeleteWait)
  BY <1>2, ThenGoes
<1>3. CASE End(c)
  BY <1>3, EndGoes
<1> QED BY <1>1, <1>2, <1>3 DEF AfterStop

LEMMA WaitInvStep == TypeOK /\ ChannelInv /\ WaitInv /\ [Next]_vars => WaitInv'
<1> SUFFICES ASSUME TypeOK, ChannelInv, WaitInv, [Next]_vars PROVE WaitInv'
  OBVIOUS
<1>0. ClientsTyped
  BY TypedClients
<1> USE ConstantsTyped DEF WaitInv, TypeOK
<1>1. CASE RegisterFails \/ ReportRunning
  BY <1>1 DEF RegisterFails, ReportRunning
<1>2. CASE Launch
  BY <1>2 DEF Launch
<1>3. CASE ReportStopped
  BY <1>3 DEF ReportStopped
<1>4. CASE ProcessEnds
  BY <1>4 DEF ProcessEnds
<1>5. CASE ReportStopPending
  BY <1>5 DEF ReportStopPending
<1>6. CASE CloseStopCh
  BY <1>6 DEF CloseStopCh
<1>7. CASE CloseStoppedCh
  BY <1>7 DEF CloseStoppedCh
<1>8. CASE HandlerReturns
  <2>1. control \in Clients /\ stoppedCh /\ stoppedCh' /\ UNCHANGED <<svc, stopping>>
    BY <1>8 DEF HandlerReturns, ChannelInv
  <2>2. AfterStop(control)
    BY <1>8 DEF HandlerReturns
  <2> QED BY <1>0, <2>1, <2>2, AfterStopGoes
<1>9. CASE AppStops
  BY <1>9 DEF AppStops
<1>10. CASE AppReturns
  BY <1>10 DEF AppReturns
<1>11. CASE RunSetup \/ SetupWakes \/ Write
  <2>1. UNCHANGED <<svc, stoppedCh, stopping>>
    BY <1>11 DEF RunSetup, SetupWakes, Write
  <2>2. CASE RunSetup
    BY <2>1, <2>2 DEF RunSetup
  <2>3. CASE SetupWakes
    BY <1>0, <2>1, <2>3, ThenGoes DEF SetupWakes
  <2>4. CASE Write /\ svc = "none"
    BY <1>0, <2>1, <2>4, ThenGoes DEF Write
  <2>5. CASE Write /\ svc # "none"
    BY <1>0, <2>1, <2>5, EndGoes DEF Write
  <2> QED BY <1>11, <2>2, <2>3, <2>4, <2>5
<1>12. CASE Tick
  BY <1>12 DEF Tick, Quiet, Less
<1>13. ASSUME NEW c \in Clients, Client(c) PROVE WaitInv'
  <2>1. CASE \E cmd \in {"install", "uninstall", "start", "stop"} : Command(c, cmd)
    BY <2>1 DEF Command
  <2>2. CASE StopTaken(c)
    BY <2>2 DEF StopTaken
  <2>3. CASE StopRefused(c)
    <3>1. ~stopping'[c] /\ \A d \in Clients \ {c} : stopping'[d] = stopping[d]
      BY <2>3 DEF StopRefused
    <3>2. UNCHANGED <<svc, stoppedCh>>
      BY <2>3 DEF StopRefused
    <3>3. \A d \in Clients \ {c} : pc'[d] = pc[d] /\ left'[d] = left[d]
      BY <1>0, <2>3, EndGoes, AfterStopGoes DEF StopRefused
    <3> QED BY <3>1, <3>2, <3>3
  <2>4. CASE Poll(c)
    BY <1>0, <2>4, ThenGoes DEF Poll
  <2>5. CASE Delete(c)
    BY <1>0, <2>5, EndGoes DEF Delete
  <2>6. CASE Install(c)
    BY <1>0, <2>6, ThenGoes, EndGoes DEF Install
  <2>7. CASE Start(c)
    <3>1. CASE \A d \in Clients : ~stopping'[d]
      BY <3>1
    <3>2. CASE UNCHANGED <<svc, stopping>>
      BY <1>0, <2>7, <3>2, EndGoes DEF Start
    <3> QED BY <2>7, <3>1, <3>2 DEF Start
  <2> QED BY <1>13, <2>1, <2>2, <2>3, <2>4, <2>5, <2>6, <2>7 DEF Client
<1>14. CASE UNCHANGED vars
  BY <1>14 DEF vars
<1> QED BY <1>1, <1>2, <1>3, <1>4, <1>5, <1>6, <1>7, <1>8, <1>9, <1>10, <1>11, <1>12, <1>13, <1>14
        DEF Next, Service

LEMMA WaitCorrect == Spec => [](ChannelInv /\ WaitInv)
<1>1. Init => ChannelInv
  BY Zenon DEF Init, ChannelInv
<1>2. Init => WaitInv
  BY DEF Init, WaitInv
<1> QED BY <1>1, <1>2, ChannelInvStep, WaitInvStep, TypeCorrect, PTL DEF Spec

\* When setup overwrites the program after its stop was taken, neither the
\* service nor a command of setup holds it, for every positive wait of setup.
THEOREM UnlockedForSetupCorrect == Spec => []UnlockedForSetup
<1>1. WaitInv => UnlockedForSetup
  BY ConstantsTyped DEF WaitInv, UnlockedForSetup, Commands, Clients
<1> QED BY <1>1, WaitCorrect, PTL

\* A service whose stop was taken has stopped when it is deleted, for every
\* positive deadline of Uninstall.
THEOREM DeletedWhenStoppedCorrect == Spec => []DeletedWhenStopped
<1>1. ChannelInv /\ WaitInv => DeletedWhenStopped
  BY DEF ChannelInv, WaitInv, DeletedWhenStopped
<1> QED BY <1>1, WaitCorrect, PTL
=============================================================================
