------------------------ MODULE ControlChannelProofs ------------------------
(***************************************************************************)
(* The Control channel of the runtime, for any clients.                    *)
(*                                                                         *)
(* The channel makes the calls of the bridge, so the invariant of the      *)
(* bridge holds in it (DispatchBridgeProofs, with the pipe worker as the   *)
(* one background thread). What is added is where the worker is with the   *)
(* call of its client, and what the exit of the application has joined.    *)
(***************************************************************************)
EXTENDS ControlChannel, TLAPS

P == INSTANCE DispatchBridgeProofs WITH
        Threads <- {Main, Worker}, MainThread <- Main, Calls <- Clients,
        Caller <- [c \in Clients |-> Worker], NoCall <- NoClient

-----------------------------------------------------------------------------
(* The steps of the bridge.                                                *)

LEMMA CallsAreMade == P!CallsAssumption /\ P!OneBackgroundThread
BY ClientsAssumption DEF P!CallsAssumption, P!OneBackgroundThread

LEMMA CallSteps ==
    ASSUME NEW c \in Clients,
           \/ B!RefuseAtEntry(c) \/ B!Enqueue(c) \/ B!WakeSucceeds(c) \/ B!WakeFails(c)
           \/ B!EraseUnwoken(c) \/ B!CompleteUnwoken(c) \/ B!Return(c)
    PROVE  P!Next
<1>1. P!CallStep(c)
  BY DEF P!CallStep, B!RefuseAtEntry, P!RefuseAtEntry, B!Enqueue, P!Enqueue, B!WakeSucceeds,
     P!WakeSucceeds, B!WakeFails, P!WakeFails, B!EraseUnwoken, P!EraseUnwoken,
     B!CompleteUnwoken, P!CompleteUnwoken, B!Return, P!Return, B!Free, P!Free,
     B!Inside, P!Inside, B!Complete, P!Complete, B!Completed, P!Completed
<1> QED BY <1>1 DEF P!Next

LEMMA InductiveInChannel ==
    ASSUME P!SInv, [P!Next]_bridgeVars
    PROVE  P!SInv'
BY CallsAreMade, P!NextSInv DEF P!vars, bridgeVars

LEMMA StepsRefine ==
    ASSUME P!SInv, [P!Next]_bridgeVars
    PROVE  [P!Service!Next]_P!Service!svars
BY CallsAreMade, P!StepRefines DEF P!vars, bridgeVars

LEMMA MainSteps ==
    ASSUME \/ B!Start \/ B!StopSwap \/ B!StopEnd \/ B!Drain
           \/ \E c \in Clients : B!StopComplete(c)
    PROVE  P!Next
<1>1. CASE B!Start \/ B!StopSwap \/ B!StopEnd
  BY <1>1 DEF P!Next, P!Stop, B!Start, P!Start, B!StopSwap, P!StopSwap, B!StopEnd, P!StopEnd,
     B!Free, P!Free, B!Inside, P!Inside
<1>2. ASSUME NEW c \in Clients, B!StopComplete(c)
      PROVE  P!Next
  <2>1. P!StopComplete(c)
    BY <1>2 DEF B!StopComplete, P!StopComplete, B!IsFront, P!IsFront, B!Complete, P!Complete,
       B!Completed, P!Completed
  <2> QED BY <2>1 DEF P!Next, P!Stop
<1>3. CASE B!Drain
  <2>1. P!Drain
    BY <1>3 DEF B!Drain, P!Drain, B!DrainSwap, P!DrainSwap, B!Looping, P!Looping, B!Free, P!Free,
       B!Inside, P!Inside, B!Handle, P!Handle, B!CompleteHandled, P!CompleteHandled,
       B!Complete, P!Complete, B!Completed, P!Completed, B!DrainEnd, P!DrainEnd,
       B!SkipCompleted, P!SkipCompleted, B!TakeForHandler, P!TakeForHandler,
       B!IsFront, P!IsFront
  <2> QED BY <2>1 DEF P!Next
<1> QED BY <1>1, <1>2, <1>3

-----------------------------------------------------------------------------
(* Where everybody is.                                                     *)

Typed ==
    /\ app \in AppStates
    /\ worker \in WorkerStates
    /\ pipe \in BOOLEAN
    /\ peer \in Clients \cup {NoClient}
    /\ stopEvent \in BOOLEAN
    /\ armed \in BOOLEAN
    /\ shutdownPosts \in Nat
    /\ client \in [Clients -> ClientStates]
    /\ frame \in [Clients -> Frames \cup {"none"}]
    /\ response \in [Clients -> Responses]

\* The application starts the bridge, then the pipe, and stops the bridge before
\* it joins the worker.
AppFollows ==
    /\ app = "starting" => main = "created"
    /\ app = "bridgeStarted" => main = "loop"
    /\ app = "running" => main \in {"loop", "draining", "handling", "handled"}
    /\ app = "stopping" => main \in {"stopping", "stopped"}
    /\ app \in {"joining", "down"} => main = "stopped"
    /\ worker # "none" => app \notin {"starting", "bridgeStarted"}
    /\ app = "down" => worker \in {"none", "exited"}
    /\ stopEvent => app \in {"joining", "down"}

\* A client is connected to an instance that the worker serves.
PeerFollows ==
    /\ peer # NoClient => pipe /\ client[peer] # "away"
    /\ worker \in {"none", "create", "arm", "post", "exited"} => ~pipe
    /\ worker = "connected" => peer # NoClient \/ stopEvent
    /\ worker \in {"session", "read", "dispatch", "write", "drain", "close"} => peer # NoClient

BeforeService == {"none", "top", "create", "listen", "connected", "session", "read"}

\* The call of a client is made while the worker serves it, and what it is
\* answered is what the call returned.
CallFollows(c) ==
    /\ client[c] \in {"away", "connected"} => frame[c] = "none"
    /\ client[c] = "away" \/ (peer = c /\ worker \in BeforeService) =>
           pc[c] = "idle" /\ response[c] = "none"
    /\ pc[c] \notin {"idle", "returned"} => worker = "dispatch" /\ peer = c
    /\ worker = "dispatch" /\ peer = c =>
           pc[c] # "returned" /\ frame[c] \in Operations /\ response[c] = "none"
    /\ worker = "write" /\ peer = c =>
           /\ response[c] = "none"
           /\ \/ frame[c] \in Operations /\ pc[c] = "returned"
              \/ frame[c] = "BadPayload" /\ pc[c] = "idle"
    /\ worker = "drain" /\ peer = c => response[c] # "none"
    /\ response[c] # "none" =>
           \/ frame[c] \in Operations /\ pc[c] = "returned" /\ response[c] = answer[c]
           \/ frame[c] = "BadPayload" /\ pc[c] = "idle" /\ response[c] = "DecodeError"
    /\ client[c] \in {"answered", "done"} => response[c] # "none"

RefusedFollows == \A c \in Clients : answer[c] = "ShuttingDown" => Exiting

\* A shutdown is armed by a request for it that succeeded, and whose client was
\* told so.
Acknowledged(c) ==
    /\ frame[c] = "RequestShutdown" /\ pc[c] = "returned"
    /\ answer[c] = "Executed" /\ response[c] = "Executed"

ArmFollows ==
    /\ worker \notin {"close", "arm", "post"} => ~armed
    /\ worker \in {"arm", "post"} => armed
    /\ armed => \E c \in Clients : Acknowledged(c)

Follows == Typed /\ AppFollows /\ PeerFollows /\ (\A c \in Clients : CallFollows(c))
           /\ RefusedFollows /\ ArmFollows

ChannelInv == P!SInv /\ Follows

\* What is used of the bridge.
LEMMA BridgeFacts ==
    ASSUME P!SInv
    PROVE  /\ pc \in [Clients -> B!CallStates]
           /\ answer \in [Clients -> B!Statuses]
           /\ accepting <=> main \in {"loop", "draining", "handling", "handled"}
           /\ \A c \in Clients : pc[c] = "returned" => answer[c] # "none"
BY DEF P!SInv, P!IInv, P!TypeOK, P!CallStates, P!Statuses, B!CallStates, B!Statuses,
   P!ReturnedCompleted, P!Completed

LEMMA StepOfBridge ==
    ASSUME ChannelInv, [Next]_vars
    PROVE  [P!Next]_bridgeVars
<1>1. CASE UNCHANGED vars
  BY <1>1 DEF vars
<1>2. CASE \E c \in Clients : ClientStep(c)
  BY <1>2 DEF ClientStep, Connect, Send, ReadResponse, Leave
<1>3. CASE EnterDispatch \/ InsideDispatch \/ LeaveDispatch
  <2>1. peer \in Clients
    BY <1>3 DEF EnterDispatch, InsideDispatch, LeaveDispatch, ChannelInv, Follows, Typed, PeerFollows
  <2> QED BY <1>3, <2>1, CallSteps DEF EnterDispatch, InsideDispatch, LeaveDispatch
<1>4. CASE WorkerStep /\ ~(EnterDispatch \/ InsideDispatch \/ LeaveDispatch)
  BY <1>4 DEF WorkerStep, LoopTop, ExitLoop, CreateInstance, AwaitClient, StopWhileListening,
     BeginService, CheckSession, ReadOperation, ReadBadPayload, ReadNothing, WriteResponse,
     WriteFails, DrainResponse, CloseInstance, CheckStopBeforePost, PostShutdownReady,
     Proceed, Abandon
<1>5. CASE MainStep
  BY <1>5, MainSteps DEF MainStep, StartBridge, StartPipe, StartPipeFails, AbortStartup, MainDrain,
     UserExit, HandleShutdownReady, BeginExit, ExitStep, StopBridge, StopPipe, JoinWorker
<1> QED BY <1>1, <1>2, <1>3, <1>4, <1>5 DEF Next

LEMMA ClientKeeps ==
    ASSUME ChannelInv, NEW c \in Clients, ClientStep(c)
    PROVE  Follows'
<1> USE ClientsAssumption
    DEF ChannelInv, Follows, Typed, AppFollows, PeerFollows, CallFollows, RefusedFollows,
        ArmFollows, Acknowledged, BeforeService, Exiting, clientVars, serverVars, bridgeVars,
        ClientStates, Frames, Operations, AppStates, WorkerStates
<1>1. CASE Connect(c)
  BY <1>1 DEF Connect
<1>2. CASE Send(c)
  BY <1>2 DEF Send
<1>3. CASE ReadResponse(c)
  BY <1>3 DEF ReadResponse
<1>4. CASE Leave(c)
  BY <1>4 DEF Leave
<1> QED BY <1>1, <1>2, <1>3, <1>4 DEF ClientStep

LEMMA WorkerKeeps ==
    ASSUME ChannelInv, WorkerStep, ~(EnterDispatch \/ InsideDispatch \/ LeaveDispatch)
    PROVE  Follows'
<1> USE ClientsAssumption
    DEF Follows, Typed, AppFollows, PeerFollows, CallFollows, RefusedFollows,
        ArmFollows, Acknowledged, BeforeService, Exiting, clientVars, serverVars, bridgeVars,
        ClientStates, Frames, Operations, AppStates, WorkerStates, Responses, B!Statuses,
        GoTo, Proceed, Abandon
<1>0. Follows /\ answer \in [Clients -> B!Statuses]
      /\ \A c \in Clients : pc[c] = "returned" => answer[c] # "none"
  BY BridgeFacts DEF ChannelInv
<1>1. CASE LoopTop
  BY <1>0, <1>1 DEF LoopTop
<1>2. CASE ExitLoop
  BY <1>0, <1>2 DEF ExitLoop
<1>3. CASE CreateInstance
  <2>1. CASE worker' = "listen" /\ pipe' = TRUE
    BY <1>0, <1>3, <2>1 DEF CreateInstance
  <2>2. CASE worker' = "exited" /\ UNCHANGED pipe
    BY <1>0, <1>3, <2>2 DEF CreateInstance
  <2> QED BY <1>3, <2>1, <2>2 DEF CreateInstance
<1>4. CASE AwaitClient
  BY <1>0, <1>4 DEF AwaitClient
<1>5. CASE StopWhileListening
  BY <1>0, <1>5 DEF StopWhileListening
<1>6. CASE BeginService
  BY <1>0, <1>6 DEF BeginService
<1>7. CASE CheckSession
  BY <1>0, <1>7 DEF CheckSession
<1>8. CASE ReadOperation
  BY <1>0, <1>8 DEF ReadOperation
<1>9. CASE ReadBadPayload
  BY <1>0, <1>9 DEF ReadBadPayload
<1>10. CASE ReadNothing
  BY <1>0, <1>10 DEF ReadNothing
<1>11. CASE WriteResponse
  BY <1>0, <1>11 DEF WriteResponse, Status
<1>12. CASE WriteFails
  BY <1>0, <1>12 DEF WriteFails
<1>13. CASE DrainResponse
  BY <1>0, <1>13 DEF DrainResponse, ShutdownApproved
<1>14. CASE CloseInstance
  <2>a. Typed' /\ AppFollows' /\ PeerFollows'
    BY <1>0, <1>14 DEF CloseInstance
  <2>b. \A c \in Clients : CallFollows(c)'
    BY <1>0, <1>14 DEF CloseInstance
  <2>c. RefusedFollows' /\ ArmFollows'
    BY <1>0, <1>14 DEF CloseInstance
  <2> QED BY <2>a, <2>b, <2>c
<1>15. CASE CheckStopBeforePost
  <2>0. peer = NoClient /\ ~pipe
    BY <1>0, <1>15 DEF CheckStopBeforePost
  <2>1. CASE stopEvent
    <3>a. Typed' /\ AppFollows' /\ PeerFollows'
      BY <1>0, <1>15, <2>0, <2>1 DEF CheckStopBeforePost, Disarm
    <3>b. \A c \in Clients : CallFollows(c)'
      BY <1>0, <1>15, <2>0, <2>1 DEF CheckStopBeforePost, Disarm
    <3>c. RefusedFollows' /\ ArmFollows'
      BY <1>0, <1>15, <2>0, <2>1 DEF CheckStopBeforePost, Disarm
    <3> QED BY <3>a, <3>b, <3>c
  <2>2. CASE ~stopEvent
    BY <1>0, <1>15, <2>2 DEF CheckStopBeforePost, Disarm
  <2> QED BY <2>1, <2>2
<1>16. CASE PostShutdownReady
  <2>0. peer = NoClient /\ ~pipe
    BY <1>0, <1>16 DEF PostShutdownReady
  <2>1. shutdownPosts' \in Nat
    BY <1>0, <1>16 DEF PostShutdownReady
  <2>2. /\ worker = "post" /\ worker' = "top" /\ armed' = FALSE
        /\ UNCHANGED <<bridgeVars, clientVars, pipe, peer, stopEvent, response, app>>
    BY <1>16 DEF PostShutdownReady, Disarm
  <2>a. Typed' /\ AppFollows' /\ PeerFollows'
    BY <1>0, <2>0, <2>1, <2>2
  <2>b. \A c \in Clients : CallFollows(c)'
    BY <1>0, <2>0, <2>1, <2>2
  <2>c. RefusedFollows' /\ ArmFollows'
    BY <1>0, <2>0, <2>1, <2>2
  <2> QED BY <2>a, <2>b, <2>c
<1> QED BY <1>1, <1>2, <1>3, <1>4, <1>5, <1>6, <1>7, <1>8, <1>9, <1>10, <1>11, <1>12, <1>13,
           <1>14, <1>15, <1>16 DEF WorkerStep

LEMMA DispatchKeeps ==
    ASSUME ChannelInv, EnterDispatch \/ InsideDispatch \/ LeaveDispatch
    PROVE  Follows'
<1> USE ClientsAssumption
    DEF Follows, Typed, AppFollows, PeerFollows, CallFollows, RefusedFollows,
        ArmFollows, Acknowledged, BeforeService, Exiting, clientVars, serverVars,
        ClientStates, Frames, Operations, AppStates, WorkerStates, GoTo
<1>0. /\ Follows
      /\ pc \in [Clients -> B!CallStates] /\ answer \in [Clients -> B!Statuses]
      /\ accepting <=> main \in {"loop", "draining", "handling", "handled"}
      /\ \A c \in Clients : pc[c] = "returned" => answer[c] # "none"
  BY BridgeFacts DEF ChannelInv
<1>1. /\ worker = "dispatch" /\ peer \in Clients
      /\ app \notin {"starting", "bridgeStarted", "down"}
  BY <1>0 DEF EnterDispatch, InsideDispatch, LeaveDispatch
<1>2. CASE EnterDispatch
  <2>1. CASE B!RefuseAtEntry(peer) /\ worker' = "write"
    <3>1. Exiting
      BY <1>0, <1>1, <2>1 DEF B!RefuseAtEntry
    <3> QED BY <1>0, <1>1, <1>2, <2>1, <3>1 DEF EnterDispatch, B!RefuseAtEntry
  <2>2. CASE B!Enqueue(peer) /\ UNCHANGED worker
    BY <1>0, <1>1, <1>2, <2>2 DEF EnterDispatch, B!Enqueue
  <2> QED BY <1>2, <2>1, <2>2 DEF EnterDispatch
<1>3. CASE InsideDispatch
  <2>1. CASE B!WakeSucceeds(peer)
    BY <1>0, <1>1, <1>3, <2>1 DEF InsideDispatch, B!WakeSucceeds
  <2>2. CASE B!WakeFails(peer)
    BY <1>0, <1>1, <1>3, <2>2 DEF InsideDispatch, B!WakeFails
  <2>3. CASE B!EraseUnwoken(peer)
    BY <1>0, <1>1, <1>3, <2>3 DEF InsideDispatch, B!EraseUnwoken
  <2>4. CASE B!CompleteUnwoken(peer)
    BY <1>0, <1>1, <1>3, <2>4 DEF InsideDispatch, B!CompleteUnwoken, B!Complete, B!Completed
  <2> QED BY <1>3, <2>1, <2>2, <2>3, <2>4 DEF InsideDispatch
<1>4. CASE LeaveDispatch
  BY <1>0, <1>1, <1>4 DEF LeaveDispatch, B!Return, B!Completed
<1> QED BY <1>2, <1>3, <1>4

\* The main thread of the bridge changes no answer that was returned.
LEMMA MainKeeps ==
    ASSUME ChannelInv, MainStep
    PROVE  Follows'
<1> USE ClientsAssumption
    DEF Follows, Typed, AppFollows, PeerFollows, CallFollows, RefusedFollows,
        ArmFollows, Acknowledged, BeforeService, Exiting, clientVars, serverVars, bridgeVars,
        ClientStates, Frames, Operations, AppStates, WorkerStates
<1>0. /\ Follows
      /\ pc \in [Clients -> B!CallStates] /\ answer \in [Clients -> B!Statuses]
      /\ \A c \in Clients : pc[c] = "returned" => answer[c] # "none"
  BY BridgeFacts DEF ChannelInv
<1>1. CASE StartBridge
  BY <1>0, <1>1 DEF StartBridge, B!Start
<1>2. CASE StartPipe
  BY <1>0, <1>2 DEF StartPipe
<1>3. CASE StartPipeFails
  BY <1>0, <1>3 DEF StartPipeFails
<1>4. CASE AbortStartup
  BY <1>0, <1>4 DEF AbortStartup, B!StopSwap
<1>5. CASE MainDrain
  BY <1>0, <1>5 DEF MainDrain, B!Drain, B!DrainSwap, B!Handle, B!CompleteHandled, B!DrainEnd,
     B!SkipCompleted, B!TakeForHandler, B!Complete, B!Completed
<1>6. CASE UserExit \/ HandleShutdownReady
  <2>1. shutdownPosts' \in Nat
    BY <1>0, <1>6 DEF UserExit, HandleShutdownReady
  <2> QED BY <1>0, <1>6, <2>1 DEF UserExit, HandleShutdownReady, BeginExit, B!StopSwap
<1>7. CASE StopBridge
  <2>1. CASE B!StopEnd
    BY <1>0, <1>7, <2>1 DEF StopBridge, B!StopEnd
  <2>2. ASSUME NEW c \in Clients, B!StopComplete(c)
        PROVE  Follows'
    BY <1>0, <1>7, <2>2 DEF StopBridge, B!StopComplete, B!IsFront, B!Complete, B!Completed
  <2> QED BY <1>7, <2>1, <2>2 DEF StopBridge
<1>8. CASE StopPipe
  BY <1>0, <1>8 DEF StopPipe
<1>9. CASE JoinWorker
  BY <1>0, <1>9 DEF JoinWorker
<1> QED BY <1>1, <1>2, <1>3, <1>4, <1>5, <1>6, <1>7, <1>8, <1>9 DEF MainStep, ExitStep

LEMMA NextKeeps ==
    ASSUME ChannelInv, [Next]_vars
    PROVE  ChannelInv'
<1>1. P!SInv'
  BY StepOfBridge, InductiveInChannel DEF ChannelInv
<1>2. Follows'
  <2>1. CASE UNCHANGED vars
    BY <2>1 DEF ChannelInv, Follows, Typed, AppFollows, PeerFollows, CallFollows, RefusedFollows,
       ArmFollows, Acknowledged, Exiting, vars, bridgeVars, clientVars, serverVars
  <2>2. CASE Next
    BY <2>2, ClientKeeps, WorkerKeeps, DispatchKeeps, MainKeeps DEF Next
  <2> QED BY <2>1, <2>2
<1> QED BY <1>1, <1>2 DEF ChannelInv

LEMMA InitFollows ==
    ASSUME Init
    PROVE  ChannelInv
<1>1. P!Init
  BY DEF Init, B!Init, P!Init
<1>2. P!SInv
  BY <1>1, CallsAreMade, P!InitSInv
<1>3. /\ answer = [c \in Clients |-> "none"] /\ pc = [c \in Clients |-> "idle"]
      /\ main = "created"
  BY DEF Init, B!Init
<1>4. Typed
  <2>1. /\ client \in [Clients -> ClientStates]
        /\ frame \in [Clients -> Frames \cup {"none"}]
        /\ response \in [Clients -> Responses]
    BY DEF Init, ClientStates, Responses, B!Statuses
  <2> QED BY <2>1 DEF Init, Typed, AppStates, WorkerStates
<1>5. Follows
  BY <1>3, <1>4 DEF Init, Follows, AppFollows, PeerFollows, CallFollows, RefusedFollows, ArmFollows
<1> QED BY <1>2, <1>5 DEF ChannelInv

-----------------------------------------------------------------------------
(* The specification.                                                      *)

\* The bridge keeps its invariant in the channel, the worker serves one client at a
\* time through one call, and the application stops them in order.
THEOREM ChannelIsSound == Spec => []ChannelInv
<1>1. Init => ChannelInv
  BY InitFollows
<1>2. ChannelInv /\ [Next]_vars => ChannelInv'
  BY NextKeeps
<1> QED BY <1>1, <1>2, PTL DEF Spec

\* The variables of the channel and of the bridge keep their types.
THEOREM ChannelTypeCorrect == Spec => []TypeOK
<1>1. ChannelInv => TypeOK
  <2> SUFFICES ASSUME ChannelInv PROVE TypeOK
    OBVIOUS
  <2>1. P!TypeOK
    BY DEF ChannelInv, P!SInv, P!IInv
  <2>2. B!TypeOK
    BY <2>1 DEF B!TypeOK, P!TypeOK, B!Statuses, P!Statuses, B!CallStates, P!CallStates,
       B!MainStates, P!MainStates
  <2> QED BY <2>2 DEF ChannelInv, Follows, Typed, TypeOK
<1> QED BY <1>1, ChannelIsSound, PTL

\* What a client has read about its request is true and stays true, through the
\* bridge, the pipe and the shutdown.
THEOREM ClientIsAlwaysToldTheTruth == Spec => []ClientIsToldTheTruth
<1>1. ChannelInv => ClientIsToldTheTruth
  <2> SUFFICES ASSUME ChannelInv, NEW c \in Clients
               PROVE  /\ client[c] \in {"answered", "done"} =>
                             executed[c] = IF response[c] = "Executed" THEN 1 ELSE 0
                      /\ response[c] = "ShuttingDown" => Exiting
    BY DEF ClientIsToldTheTruth
  <2>1. CallFollows(c) /\ RefusedFollows
    BY DEF ChannelInv, Follows
  <2>2. /\ pc[c] = "idle" => executed[c] = 0
        /\ answer[c] = "Executed" => executed[c] = 1
        /\ answer[c] \in {"ShuttingDown", "RuntimeUnavailable"} => executed[c] = 0
    BY DEF ChannelInv, P!SInv, P!IInv, P!NotYetCalled, P!AnswersMatch, P!UnwokenNotRun
  <2>3. answer[c] \in {"none", "Executed", "ShuttingDown", "RuntimeUnavailable"}
    BY BridgeFacts DEF ChannelInv, B!Statuses
  <2>4. client[c] \in {"answered", "done"} =>
             executed[c] = IF response[c] = "Executed" THEN 1 ELSE 0
    BY <2>1, <2>2, <2>3 DEF CallFollows
  <2>5. response[c] = "ShuttingDown" => Exiting
    BY <2>1 DEF CallFollows, RefusedFollows
  <2> QED BY <2>4, <2>5
<1> QED BY <1>1, ChannelIsSound, PTL

\* The shutdown-ready message is posted only when a RequestShutdown ran, its success
\* was written, and that connection is closed on the server side.
THEOREM ShutdownIsAcknowledged == Spec => ShutdownPostedAfterAcknowledgement
<1>1. ChannelInv /\ [Next]_vars =>
        [shutdownPosts' > shutdownPosts =>
           \E c \in Clients : /\ frame[c] = "RequestShutdown"
                              /\ executed[c] = 1
                              /\ response[c] = "Executed"
                              /\ peer # c /\ ~pipe]_vars
  <2> SUFFICES ASSUME ChannelInv, Next, shutdownPosts' > shutdownPosts
               PROVE  \E c \in Clients : /\ frame[c] = "RequestShutdown"
                                         /\ executed[c] = 1
                                         /\ response[c] = "Executed"
                                         /\ peer # c /\ ~pipe
    BY DEF vars, serverVars
  <2>0. shutdownPosts \in Nat
    BY DEF ChannelInv, Follows, Typed
  <2>1. PostShutdownReady
    <3>1. CASE \E c \in Clients : ClientStep(c)
      BY <2>0, <3>1 DEF ClientStep, Connect, Send, ReadResponse, Leave, serverVars
    <3>2. CASE MainStep
      BY <2>0, <3>2 DEF MainStep, StartBridge, StartPipe, StartPipeFails, AbortStartup, MainDrain,
         UserExit, HandleShutdownReady, BeginExit, ExitStep, StopBridge, StopPipe, JoinWorker,
         serverVars
    <3>3. CASE WorkerStep
      BY <2>0, <3>3 DEF WorkerStep, LoopTop, ExitLoop, CreateInstance, AwaitClient,
         StopWhileListening, BeginService, CheckSession, ReadOperation, ReadBadPayload,
         ReadNothing, EnterDispatch, InsideDispatch, LeaveDispatch, WriteResponse,
         WriteFails, DrainResponse, CloseInstance, CheckStopBeforePost, Proceed, Abandon,
         serverVars
    <3> QED BY <3>1, <3>2, <3>3 DEF Next
  <2>2. armed /\ ~pipe /\ peer = NoClient
    BY <2>1 DEF PostShutdownReady, ChannelInv, Follows, ArmFollows, PeerFollows
  <2>3. PICK c \in Clients : Acknowledged(c)
    BY <2>2 DEF ChannelInv, Follows, ArmFollows
  <2>4. executed[c] = 1
    BY <2>3 DEF Acknowledged, ChannelInv, P!SInv, P!IInv, P!AnswersMatch
  <2> QED BY <2>2, <2>3, <2>4, ClientsAssumption DEF Acknowledged
<1> QED BY <1>1, ChannelIsSound, PTL DEF Spec, ShutdownPostedAfterAcknowledgement

\* No thread posts to the runtime window once it is destroyed, and no handler runs
\* on the sources that are torn down.
THEOREM TeardownIsFinal == Spec => NothingAfterTeardown
<1>1. ChannelInv /\ [Next]_vars =>
        [/\ app = "down" => wakes' = wakes /\ shutdownPosts' <= shutdownPosts
         /\ Exiting => executed' = executed]_vars
  <2> SUFFICES ASSUME ChannelInv, Next
               PROVE  /\ app = "down" => wakes' = wakes /\ shutdownPosts' <= shutdownPosts
                      /\ Exiting => executed' = executed
    OBVIOUS
  <2>0. /\ shutdownPosts \in Nat
        /\ app = "down" => worker \in {"none", "exited"}
    BY DEF ChannelInv, Follows, Typed, AppFollows
  <2>1. CASE \E c \in Clients : ClientStep(c)
    BY <2>0, <2>1 DEF ClientStep, Connect, Send, ReadResponse, Leave, serverVars, bridgeVars
  <2>2. CASE EnterDispatch \/ InsideDispatch \/ LeaveDispatch
    BY <2>0, <2>2 DEF EnterDispatch, InsideDispatch, LeaveDispatch, B!RefuseAtEntry, B!Enqueue,
       B!WakeSucceeds, B!WakeFails, B!EraseUnwoken, B!CompleteUnwoken, B!Return, serverVars
  <2>3. CASE WorkerStep /\ ~(EnterDispatch \/ InsideDispatch \/ LeaveDispatch)
    BY <2>0, <2>3 DEF WorkerStep, LoopTop, ExitLoop, CreateInstance, AwaitClient,
       StopWhileListening, BeginService, CheckSession, ReadOperation, ReadBadPayload,
       ReadNothing, WriteResponse, WriteFails, DrainResponse, CloseInstance,
       CheckStopBeforePost, PostShutdownReady, Proceed, Abandon, bridgeVars
  <2>4. CASE MainStep
    BY <2>0, <2>4 DEF MainStep, StartBridge, StartPipe, StartPipeFails, AbortStartup, MainDrain,
       UserExit, HandleShutdownReady, BeginExit, ExitStep, StopBridge, StopPipe, JoinWorker,
       B!Start, B!StopSwap, B!StopEnd, B!StopComplete, Exiting, serverVars, bridgeVars
  <2> QED BY <2>1, <2>2, <2>3, <2>4 DEF Next
<1> QED BY <1>1, ChannelIsSound, PTL DEF Spec, NothingAfterTeardown

\* The bridge in the runtime is an implementation of ControlService as far as safety
\* goes: what a client asks is applied at one moment between its call and its answer,
\* and every refusal is final.
THEOREM ChannelRefinesService ==
    Spec => P!Service!Init /\ [][P!Service!Next]_P!Service!svars
<1>1. Init => P!Service!Init
  BY DEF Init, B!Init, P!Service!Init, P!StateOf, P!OutcomeOf, P!Inside
<1>2. ChannelInv /\ [Next]_vars => [P!Service!Next]_P!Service!svars
  BY StepOfBridge, StepsRefine DEF ChannelInv
<1> QED BY <1>1, <1>2, ChannelIsSound, PTL DEF Spec
=============================================================================
