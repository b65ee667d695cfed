--------------------------- MODULE ControlChannel ---------------------------
(***************************************************************************)
(* The Control channel of the runtime: clients of the named pipe, the pipe *)
(* worker of RuntimeControlPipeServer, the dispatch bridge and the main    *)
(* thread from App::Run to the end of StopRuntimeSources.                  *)
(*                                                                         *)
(* Each client makes one connection. The pipe has a single instance, so    *)
(* the worker serves one client at a time and a client that neither sends  *)
(* nor leaves holds up the others. A request executes on the main thread,  *)
(* through DispatchBridge; the worker is its only producer.                *)
(***************************************************************************)
EXTENDS Naturals

CONSTANTS Clients,        \* the processes that connect, once each
          NoClient,
          Main, Worker    \* the two threads of the runtime

ASSUME ClientsAssumption == NoClient \notin Clients /\ Main # Worker

VARIABLES
    accepting, queue, ticket, nextTicket, wakes, pc, answer, executed, main,
    batch, current,
    app,            \* the main thread in App: where startup or Exit() is
    worker,         \* where the pipe worker is
    pipe,           \* a pipe instance exists
    peer,           \* the client connected to it
    stopEvent,      \* stopEvent_ is set
    armed,          \* armShutdown of the iteration
    shutdownPosts,  \* shutdown-ready messages posted and not yet handled
    client,         \* where each client is
    frame,          \* the frame a client has written
    response        \* the response the worker has written to a client

bridgeVars == <<accepting, queue, ticket, nextTicket, wakes, pc, answer,
                executed, main, batch, current>>
clientVars == <<client, frame>>
serverVars == <<worker, pipe, peer, stopEvent, armed, shutdownPosts, response>>
vars == <<bridgeVars, clientVars, serverVars, app>>

\* The pipe worker makes one Dispatch call per connection: the call is named
\* by the client.
B == INSTANCE DispatchBridge WITH
        Threads <- {Main, Worker}, MainThread <- Main, Calls <- Clients,
        Caller <- [c \in Clients |-> Worker], NoCall <- NoClient

\* What DecodeControlRequest makes of a frame: an operation, an error with the
\* identity of the request, or nothing that can be answered.
Operations == {"Mutation", "RequestShutdown"}
Frames == Operations \cup {"BadPayload", "Garbage"}
Responses == B!Statuses \cup {"DecodeError"}

AppStates == {"starting", "bridgeStarted", "running", "stopping", "joining",
              "down"}
WorkerStates == {"none", "top", "create", "listen", "connected", "session",
                 "read", "dispatch", "write", "drain", "close", "arm", "post",
                 "exited"}
\* "done" has read its response and closed its end, "gone" closed it before.
ClientStates == {"away", "connected", "sent", "answered", "done", "gone"}

TypeOK == /\ B!TypeOK
          /\ app \in AppStates
          /\ worker \in WorkerStates
          /\ pipe \in BOOLEAN
          /\ peer \in Clients \cup {NoClient}
          /\ stopEvent \in BOOLEAN
          /\ armed \in BOOLEAN
          /\ shutdownPosts \in Nat
          /\ client \in [Clients -> ClientStates]
          /\ frame \in [Clients -> Frames \cup {"none"}]
          /\ response \in [Clients -> Responses]

Init == /\ B!Init
        /\ app = "starting"
        /\ worker = "none"
        /\ pipe = FALSE
        /\ peer = NoClient
        /\ stopEvent = FALSE
        /\ armed = FALSE
        /\ shutdownPosts = 0
        /\ client = [c \in Clients |-> "away"]
        /\ frame = [c \in Clients |-> "none"]
        /\ response = [c \in Clients |-> "none"]

(***************************************************************************)
(* Clients (external processes).                                           *)
(***************************************************************************)

Connect(c) == /\ client[c] = "away"
              /\ pipe /\ peer = NoClient
              /\ client' = [client EXCEPT ![c] = "connected"]
              /\ peer' = c
              /\ UNCHANGED <<bridgeVars, app, worker, pipe, stopEvent, armed,
                             shutdownPosts, frame, response>>

Send(c) == /\ client[c] = "connected" /\ peer = c
           /\ client' = [client EXCEPT ![c] = "sent"]
           /\ \E f \in Frames : frame' = [frame EXCEPT ![c] = f]
           /\ UNCHANGED <<bridgeVars, serverVars, app>>

\* A response can be read until the server disconnects the instance.
ReadResponse(c) == /\ client[c] = "sent" /\ peer = c
                   /\ response[c] # "none"
                   /\ client' = [client EXCEPT ![c] = "answered"]
                   /\ UNCHANGED <<bridgeVars, serverVars, app, frame>>

\* A client closes its end after its answer, at its time-out, or by dying.
Leave(c) == /\ client[c] \in {"connected", "sent", "answered"}
            /\ client' = [client EXCEPT ![c] = IF @ = "answered" THEN "done"
                                                              ELSE "gone"]
            /\ UNCHANGED <<bridgeVars, serverVars, app, frame>>

HasLeft(c) == client[c] \in {"done", "gone"}

(***************************************************************************)
(* The pipe worker: WorkerMain and ServeClient.                            *)
(***************************************************************************)

GoTo(w) == worker' = w

\* The end of an iteration without an answer to deliver.
Abandon == /\ GoTo("close")
           /\ UNCHANGED <<bridgeVars, clientVars, pipe, peer, stopEvent, armed,
                          shutdownPosts, response, app>>

Proceed(from, to) == /\ worker = from
                     /\ GoTo(to)
                     /\ UNCHANGED <<bridgeVars, clientVars, pipe, peer,
                                    stopEvent, armed, shutdownPosts, response,
                                    app>>

LoopTop == \/ ~stopEvent /\ ~pipe /\ Proceed("top", "create")
           \/ ~stopEvent /\ pipe /\ Proceed("top", "listen")

\* The instance that is left, if any, is closed when the worker leaves.
ExitLoop == /\ worker = "top" /\ stopEvent
            /\ GoTo("exited")
            /\ pipe' = FALSE /\ peer' = NoClient
            /\ UNCHANGED <<bridgeVars, clientVars, stopEvent, armed,
                           shutdownPosts, response, app>>

\* Another process can hold the pipe name: the worker then gives up for good.
CreateInstance == /\ worker = "create"
                  /\ \/ GoTo("listen") /\ pipe' = TRUE
                     \/ GoTo("exited") /\ UNCHANGED pipe
                  /\ UNCHANGED <<bridgeVars, clientVars, peer, stopEvent,
                                 armed, shutdownPosts, response, app>>

\* ConnectNamedPipe ends with a client or with the stop event.
AwaitClient == /\ peer # NoClient \/ stopEvent
               /\ Proceed("listen", "connected")

StopWhileListening == /\ worker = "connected" /\ stopEvent
                      /\ GoTo("exited")
                      /\ pipe' = FALSE /\ peer' = NoClient
                      /\ UNCHANGED <<bridgeVars, clientVars, stopEvent, armed,
                                     shutdownPosts, response, app>>

\* A client that is already gone makes ConnectNamedPipe fail.
BeginService == /\ worker = "connected" /\ ~stopEvent
                /\ \/ Proceed("connected", "session")
                   \/ HasLeft(peer) /\ Abandon

CheckSession == Proceed("session", "read") \/ (worker = "session" /\ Abandon)

\* What the client has written can be read even after it has left.
ReadOperation == /\ worker = "read"
                 /\ frame[peer] \in Operations
                 /\ Proceed("read", "dispatch")

ReadBadPayload == /\ worker = "read"
                  /\ frame[peer] = "BadPayload"
                  /\ Proceed("read", "write")

ReadNothing == /\ worker = "read"
               /\ \/ frame[peer] = "Garbage"
                  \/ frame[peer] = "none" /\ (HasLeft(peer) \/ stopEvent)
               /\ Abandon

\* dispatch_ is RuntimeControlDispatchBridge::Dispatch on the worker's thread.
EnterDispatch == /\ worker = "dispatch"
                 /\ \/ B!RefuseAtEntry(peer) /\ GoTo("write")
                    \/ B!Enqueue(peer) /\ UNCHANGED worker
                 /\ UNCHANGED <<clientVars, pipe, peer, stopEvent, armed,
                                shutdownPosts, response, app>>

InsideDispatch == /\ worker = "dispatch"
                  /\ \/ B!WakeSucceeds(peer) \/ B!WakeFails(peer)
                     \/ B!EraseUnwoken(peer) \/ B!CompleteUnwoken(peer)
                  /\ UNCHANGED <<clientVars, serverVars, app>>

LeaveDispatch == /\ worker = "dispatch"
                 /\ B!Return(peer)
                 /\ GoTo("write")
                 /\ UNCHANGED <<clientVars, pipe, peer, stopEvent, armed,
                                shutdownPosts, response, app>>

\* The status of the response: the bridge's, or that of the decode error.
Status == IF frame[peer] \in Operations THEN answer[peer] ELSE "DecodeError"

WriteResponse == /\ worker = "write"
                 /\ ~HasLeft(peer)
                 /\ response' = [response EXCEPT ![peer] = Status]
                 /\ GoTo("drain")
                 /\ UNCHANGED <<bridgeVars, clientVars, pipe, peer, stopEvent,
                                armed, shutdownPosts, app>>

\* The encoding failed, the client is gone, or the stop event came first.
WriteFails == worker = "write" /\ Abandon

\* Mutant of ShutdownApproved: the status of the response is not looked at.
ShutdownAsked == frame[peer] = "RequestShutdown"

\* shutdownAfterResponse of the execution result.
ShutdownApproved == frame[peer] = "RequestShutdown" /\ answer[peer] = "Executed"

\* The drain read ends when the client closes its end, or with the stop event;
\* its result is not looked at.
DrainResponse == /\ worker = "drain"
                 /\ HasLeft(peer) \/ stopEvent
                 /\ armed' = ShutdownApproved
                 /\ GoTo("close")
                 /\ UNCHANGED <<bridgeVars, clientVars, pipe, peer, stopEvent,
                                shutdownPosts, response, app>>

\* Disconnect and close: what the client has not read is lost.
CloseInstance == /\ worker = "close"
                 /\ pipe' = FALSE /\ peer' = NoClient
                 /\ GoTo(IF armed THEN "arm" ELSE "top")
                 /\ UNCHANGED <<bridgeVars, clientVars, stopEvent, armed,
                                shutdownPosts, response, app>>

Disarm == armed' = FALSE

CheckStopBeforePost == /\ worker = "arm"
                       /\ IF stopEvent THEN GoTo("top") /\ Disarm
                                       ELSE GoTo("post") /\ UNCHANGED armed
                       /\ UNCHANGED <<bridgeVars, clientVars, pipe, peer,
                                      stopEvent, shutdownPosts, response, app>>

\* PostMessage may fail: the runtime then stays alive.
PostShutdownReady == /\ worker = "post"
                     /\ shutdownPosts' \in {shutdownPosts, shutdownPosts + 1}
                     /\ GoTo("top") /\ Disarm
                     /\ UNCHANGED <<bridgeVars, clientVars, pipe, peer,
                                    stopEvent, response, app>>

WorkerStep == \/ LoopTop \/ ExitLoop \/ CreateInstance \/ AwaitClient
              \/ StopWhileListening \/ BeginService \/ CheckSession
              \/ ReadOperation \/ ReadBadPayload \/ ReadNothing
              \/ EnterDispatch \/ InsideDispatch \/ LeaveDispatch
              \/ WriteResponse \/ WriteFails \/ DrainResponse \/ CloseInstance
              \/ CheckStopBeforePost \/ PostShutdownReady

(***************************************************************************)
(* The main thread: App::Run, the message loop, Exit().                    *)
(***************************************************************************)

StartBridge == /\ app = "starting"
               /\ B!Start
               /\ app' = "bridgeStarted"
               /\ UNCHANGED <<clientVars, serverVars>>

StartPipe == /\ app = "bridgeStarted"
             /\ app' = "running"
             /\ worker' = "top"
             /\ pipe' = TRUE
             /\ UNCHANGED <<bridgeVars, clientVars, peer, stopEvent, armed,
                            shutdownPosts, response>>

\* The pipe does not start. Standalone goes on without external control;
\* Managed fails its startup (AbortStartup). Nothing else in the channel
\* depends on the launch mode, so both are in the model.
StartPipeFails == /\ app = "bridgeStarted"
                  /\ app' = "running"
                  /\ UNCHANGED <<bridgeVars, clientVars, serverVars>>

\* A startup that fails (a Managed one also when the pipe does not start) goes
\* through the destructor: StopRuntimeSources.
AbortStartup == /\ app \in {"starting", "bridgeStarted"}
                /\ B!StopSwap
                /\ app' = "stopping"
                /\ UNCHANGED <<clientVars, serverVars>>

MainDrain == /\ app = "running"
             /\ B!Drain
             /\ UNCHANGED <<clientVars, serverVars, app>>

\* Mutant of BeginExit: the pipe server is stopped before the bridge.
BeginExitPipeFirst == /\ app = "running" /\ main = "loop"
                      /\ stopEvent' = (worker # "none")
                      /\ app' = "joining"
                      /\ UNCHANGED <<bridgeVars, clientVars, worker, pipe,
                                     peer, armed, response>>

\* Exit() from the tray, from a session end, or from the shutdown-ready
\* message; exiting_ makes it happen once.
BeginExit == /\ app = "running"
             /\ B!StopSwap
             /\ app' = "stopping"
             /\ UNCHANGED <<clientVars, worker, pipe, peer, stopEvent, armed,
                            response>>

UserExit == BeginExit /\ UNCHANGED shutdownPosts

\* Mutant of HandleShutdownReady: Exit() does not need the message.
ShutdownReadySpurious == shutdownPosts' = shutdownPosts - 1 /\ BeginExit

HandleShutdownReady == /\ shutdownPosts > 0
                       /\ shutdownPosts' = shutdownPosts - 1
                       /\ BeginExit

StopBridge == /\ app = "stopping"
              /\ B!StopEnd \/ \E c \in Clients : B!StopComplete(c)
              /\ UNCHANGED <<clientVars, serverVars, app>>

\* RuntimeControlPipeServer::Stop(): set the event, then join the worker.
StopPipe == /\ app = "stopping" /\ main = "stopped"
            /\ stopEvent' = (worker # "none")
            /\ app' = IF worker = "none" THEN "down" ELSE "joining"
            /\ UNCHANGED <<bridgeVars, clientVars, worker, pipe, peer, armed,
                           shutdownPosts, response>>

\* Mutant of JoinWorker: the worker is detached.
DetachWorker == /\ app = "joining"
                /\ app' = "down"
                /\ UNCHANGED <<bridgeVars, clientVars, serverVars>>

\* The join returns; the window is destroyed and the message loop ends.
JoinWorker == /\ app = "joining"
              /\ worker = "exited"
              /\ app' = "down"
              /\ UNCHANGED <<bridgeVars, clientVars, serverVars>>

ExitStep == StopBridge \/ StopPipe \/ JoinWorker

MainStep == \/ StartBridge \/ StartPipe \/ StartPipeFails \/ AbortStartup
            \/ MainDrain \/ UserExit \/ HandleShutdownReady \/ ExitStep

ClientStep(c) == Connect(c) \/ Send(c) \/ ReadResponse(c) \/ Leave(c)

Next == WorkerStep \/ MainStep \/ \E c \in Clients : ClientStep(c)

\* The two threads of the runtime run; the message queue is first in, first
\* out, so each kind of posted message is handled. Clients owe nothing.
Fairness == /\ WF_vars(WorkerStep)
            /\ WF_vars(MainDrain)
            /\ WF_vars(ExitStep)
            /\ WF_vars(HandleShutdownReady)
            /\ WF_vars(StartBridge \/ StartPipe \/ StartPipeFails)

Spec == Init /\ [][Next]_vars /\ Fairness

(***************************************************************************)
(* Properties.                                                             *)
(***************************************************************************)

Exiting == app \in {"stopping", "joining", "down"}

\* What a client has read about its request is true and stays true, through
\* the bridge, the pipe and the shutdown: Executed means executed exactly
\* once, every other status means that it never executes, and ShuttingDown is
\* never answered by a runtime that stays up (the bridge accepts before the pipe
\* exists and stops only when the runtime exits).
ClientIsToldTheTruth ==
    \A c \in Clients :
        /\ client[c] \in {"answered", "done"} =>
               executed[c] = IF response[c] = "Executed" THEN 1 ELSE 0
        /\ response[c] = "ShuttingDown" => Exiting

\* The shutdown-ready message is posted only when a RequestShutdown ran, its
\* success was written, and that connection is closed on the server side:
\* the teardown cannot cut off its own acknowledgement.
ShutdownPostedAfterAcknowledgement ==
    [][shutdownPosts' > shutdownPosts =>
          \E c \in Clients : /\ frame[c] = "RequestShutdown"
                             /\ executed[c] = 1
                             /\ response[c] = "Executed"
                             /\ peer # c /\ ~pipe]_vars

\* No thread posts to the runtime window once it is destroyed, and no handler
\* runs on the sources that are torn down: the worker is joined before.
NothingAfterTeardown ==
    [][/\ app = "down" => wakes' = wakes /\ shutdownPosts' <= shutdownPosts
       /\ Exiting => executed' = executed]_vars

\* An exit, and an acknowledged shutdown whose message was posted, takes place:
\* the join cannot deadlock with a worker that waits in Dispatch, for a client, or
\* in any of its pipe operations.
ExitEnds == (Exiting \/ shutdownPosts > 0) ~> app = "down"

\* A request that reached the worker is settled, whatever its client does
\* next: it is answered or its connection is closed.
RequestIsSettled ==
    \A c \in Clients :
        (peer = c /\ frame[c] # "none" /\ worker # "none") ~>
            (response[c] # "none" \/ peer # c)

\* CH_RTF_7 section 10.4: "Only a successfully delivered/consumed response may
\* arm the post-response shutdown message".
ShutdownPostedOnlyAfterConsumption ==
    [][shutdownPosts' > shutdownPosts =>
          \E c \in Clients : /\ frame[c] = "RequestShutdown"
                             /\ client[c] = "done"]_vars

\* The bridge in the runtime, whose one producer is the pipe worker and whose
\* stop is the exit of App, is the abstract service: what a client asks is
\* applied at one moment between its call and its answer, every refusal is
\* final, and a call that was made is answered.
ImplementsService == B!ImplementsService

\* The channel stays well formed, and neither the exit nor a request that reached
\* the worker waits for ever.
ChannelSettles == []TypeOK /\ ExitEnds /\ RequestIsSettled
=============================================================================
