------------------------------ MODULE EcHelper ------------------------------
(***************************************************************************)
(* The elevated EC helper: EcHelperClient on the UI thread, which launches *)
(* the helper with a UAC prompt and exchanges one request at a time with   *)
(* it over a private pipe; the helper process (ClawHUD.EcHelper/main.cpp); *)
(* and the sample of ReadEcTelemetry, a sequence of reads.                 *)
(*                                                                         *)
(* Each launch has a pipe of its own (a random name), so the pipe is named *)
(* by the helper process launched for it. What is in a pipe is the set of  *)
(* messages written and not read; closing the server's end discards it.    *)
(***************************************************************************)
EXTENDS Naturals

CONSTANTS Helpers,    \* bound on the helper processes that exist at once
          Requests,   \* identities of requests, used again when out of use
          None

ASSUME NoneAssumption == None \notin Helpers /\ None \notin Requests

VARIABLES
    \* EcHelperClient
    at,          \* where the UI thread is in Send
    read,        \* which read of the sample it makes, 0 between samples
    pipe,        \* pipe_
    attempted,   \* attempted_
    stage,       \* stage_: no failure, one of the session, or of a method
    request,     \* the request of this Send
    payload,     \* the request whose result is in the payload
    prompts,     \* history: launches since the last Close()
    timeouts,    \* history: time-outs of the pipe since the last Close()
    \* helper processes and pipes
    helper,      \* where each process is
    serving,     \* the request it works on
    toHelper, toClient

clientVars == <<at, read, pipe, attempted, stage, request, payload, prompts,
                timeouts>>
pipeVars == <<toHelper, toClient>>
helperVars == <<helper, serving>>
vars == <<clientVars, helperVars, pipeVars>>

ClientStates == {"idle", "ensure", "prompt", "connect", "write", "read"}
Stages == {"None", "session", "method"}

\* "absent": no process, or one that never opened its pipe; "left": one that
\* has opened it and closed its end.
HelperStates == {"absent", "starting", "opened", "ready", "working", "left"}

\* Results: data; a method that failed; a session that could not be set up
\* (HelperNotElevated or a failed MsiEcReader::Initialize), which answers no
\* request; a response of another protocol version.
Responses == [request: Requests \cup {None},
              result: {"data", "method", "session", "foreign"}]

\* Temperature, fan and package power; then, on battery, the two bytes of the
\* current and of the voltage.
LastRead == 7

TypeOK ==
    /\ at \in ClientStates
    /\ read \in 0 .. LastRead
    /\ pipe \in Helpers \cup {None}
    /\ attempted \in BOOLEAN
    /\ stage \in Stages
    /\ request \in Requests \cup {None}
    /\ payload \in Requests \cup {None}
    /\ prompts \in Nat
    /\ timeouts \in Nat
    /\ helper \in [Helpers -> HelperStates]
    /\ serving \in [Helpers -> Requests \cup {None}]
    /\ toHelper \in [Helpers -> SUBSET Requests]
    /\ toClient \in [Helpers -> SUBSET Responses]

Init ==
    /\ at = "idle" /\ read = 0
    /\ pipe = None /\ attempted = FALSE
    /\ stage = "None" /\ request = None /\ payload = None
    /\ prompts = 0 /\ timeouts = 0
    /\ helper = [h \in Helpers |-> "absent"]
    /\ serving = [h \in Helpers |-> None]
    /\ toHelper = [h \in Helpers |-> {}]
    /\ toClient = [h \in Helpers |-> {}]

(***************************************************************************)
(* The sample: ReadEcTelemetry.                                            *)
(***************************************************************************)

StartSample ==
    /\ at = "idle"
    /\ read' = 1 /\ at' = "ensure"
    /\ UNCHANGED <<pipe, attempted, stage, request, payload, prompts, timeouts,
                   helperVars, pipeVars>>

\* A failed read among the first three ends the sample only if the session has
\* failed (ShouldAbortEcTelemetrySample); a failed battery read always does.
Continues(ok) == ok \/ (read <= 3 /\ stage' # "session")

\* Mutant of NextRead: one read too many.
NextReadPastEnd(ok) ==
    \/ Continues(ok) /\ read' = read + 1 /\ at' = "ensure"
    \/ /\ ~Continues(ok) \/ read >= 3
       /\ read' = 0 /\ at' = "idle"

\* The next read, or the end of the sample: after the last read, after the third
\* one on mains power, and after one of the battery that has no byte.
NextRead(ok) ==
    \/ /\ Continues(ok) /\ read < LastRead
       /\ read' = read + 1 /\ at' = "ensure"
    \/ /\ ~Continues(ok) \/ read >= 3
       /\ read' = 0 /\ at' = "idle"

(***************************************************************************)
(* EcHelperClient.                                                         *)
(***************************************************************************)

\* Closing the server's end of a pipe discards what is in it.
ClosePipe ==
    /\ pipe' = None
    /\ toHelper' = [h \in Helpers |-> IF h = pipe THEN {} ELSE toHelper[h]]
    /\ toClient' = [h \in Helpers |-> IF h = pipe THEN {} ELSE toClient[h]]

\* Mutants of CloseTransport: a pipe that is connected is kept for the next
\* request; the launch becomes eligible again.
CloseTransportKeepsPipe ==
    IF at = "read" THEN UNCHANGED <<pipe, pipeVars, attempted>>
                   ELSE ClosePipe /\ UNCHANGED attempted
CloseTransportRearms == ClosePipe /\ attempted' = FALSE

CloseTransport == ClosePipe /\ UNCHANGED attempted

\* A failure of the pipe or of the launch: the transport is closed, the launch
\* attempt stays consumed.
SessionFails ==
    /\ CloseTransport
    /\ stage' = "session" /\ NextRead(FALSE)
    /\ payload' = None
    /\ UNCHANGED <<request, prompts, helperVars>>

AlreadyConnected ==
    /\ at = "ensure" /\ pipe # None
    /\ at' = "write" /\ payload' = None
    /\ UNCHANGED <<read, pipe, attempted, stage, request, prompts, timeouts,
                   helperVars, pipeVars>>

AlreadyAttempted ==
    /\ at = "ensure" /\ pipe = None /\ attempted
    /\ UNCHANGED stage
    /\ NextRead(FALSE) /\ payload' = None
    /\ UNCHANGED <<pipe, attempted, request, prompts, timeouts, helperVars,
                   pipeVars>>

\* CreateNamedPipe with a fresh name, then ShellExecuteEx("runas").
Launch(h) ==
    /\ at = "ensure" /\ pipe = None /\ ~attempted
    /\ helper[h] \in {"absent", "left"}
    /\ attempted' = TRUE
    /\ pipe' = h /\ helper' = [helper EXCEPT ![h] = "absent"]
    /\ at' = "prompt" /\ prompts' = prompts + 1
    /\ payload' = None
    /\ UNCHANGED <<read, stage, request, timeouts, serving, pipeVars>>

CreatePipeFails ==
    /\ at = "ensure" /\ pipe = None /\ ~attempted
    /\ attempted' = TRUE
    /\ stage' = "session"
    /\ NextRead(FALSE) /\ payload' = None
    /\ UNCHANGED <<pipe, request, prompts, timeouts, helperVars, pipeVars>>

\* The prompt is declined or withdrawn, or the helper is missing.
LaunchFails == at = "prompt" /\ SessionFails /\ UNCHANGED timeouts

LaunchSucceeds ==
    /\ at = "prompt"
    /\ helper' = [helper EXCEPT ![pipe] = "starting"]
    /\ at' = "connect"
    /\ UNCHANGED <<read, pipe, attempted, stage, request, payload, prompts,
                   timeouts, serving, pipeVars>>

ConnectSucceeds ==
    /\ at = "connect"
    /\ helper[pipe] \in {"opened", "ready", "working", "left"}
    /\ stage' = "None"
    /\ at' = "write"
    /\ UNCHANGED <<read, pipe, attempted, request, payload, prompts, timeouts,
                   helperVars, pipeVars>>

ConnectTimesOut ==
    /\ at = "connect" /\ helper[pipe] \in {"absent", "starting"}
    /\ timeouts' = timeouts + 1
    /\ SessionFails

\* The identity of a request is one that nothing refers to any more.
InUse(q) ==
    \/ q = request
    \/ \E h \in Helpers :
          \/ q = serving[h] \/ q \in toHelper[h]
          \/ \E r \in toClient[h] : r.request = q

WriteRequest(q) ==
    /\ at = "write" /\ ~InUse(q)
    /\ helper[pipe] \in {"opened", "ready", "working"}
    /\ request' = q
    /\ toHelper' = [toHelper EXCEPT ![pipe] = @ \cup {q}]
    /\ at' = "read"
    /\ UNCHANGED <<read, pipe, attempted, stage, payload, prompts, timeouts,
                   helperVars, toClient>>

WriteFails ==
    /\ at = "write" /\ helper[pipe] = "left"
    /\ SessionFails /\ UNCHANGED timeouts

\* What Send makes of a response. One of another version leaves the transport
\* open: it has been read to its end.
ReadResponse(r) ==
    /\ at = "read" /\ r \in toClient[pipe]
    /\ toClient' = [toClient EXCEPT ![pipe] = @ \ {r}]
    /\ stage' = CASE r.result = "data" -> "None"
                  [] r.result = "session" -> "session"
                  [] OTHER -> "method"
    /\ NextRead(r.result = "data")
    /\ payload' = IF r.result = "data" THEN r.request ELSE None
    /\ UNCHANGED <<pipe, attempted, request, prompts, timeouts, helperVars,
                   toHelper>>

\* Mutant of ReadTimesOut: the wait has no limit.
ReadWaits == at = "read" /\ toClient[pipe] = {} /\ UNCHANGED vars

\* The helper is stuck or slow.
ReadTimesOut ==
    /\ at = "read" /\ toClient[pipe] = {}
    /\ helper[pipe] # "left"
    /\ timeouts' = timeouts + 1
    /\ SessionFails

\* The helper has left without a response.
ReadFails ==
    /\ at = "read" /\ toClient[pipe] = {} /\ helper[pipe] = "left"
    /\ SessionFails /\ UNCHANGED timeouts

\* Any other error of the pipe or of an event.
PipeFails ==
    /\ at \in {"connect", "write", "read"}
    /\ SessionFails /\ UNCHANGED timeouts

\* The pipe is closed and a new client has its launch to make.
Restart ==
    /\ ClosePipe
    /\ attempted' = FALSE /\ stage' = "None" /\ payload' = None
    /\ prompts' = 0 /\ timeouts' = 0
    /\ at' = "idle" /\ read' = 0
    /\ UNCHANGED <<request, helperVars>>

\* ReleaseEcHelper: the HUD is disabled, or the runtime shuts down.
Release == at = "idle" /\ Restart

\* The runtime dies inside a sample, and is started again.
RuntimeDies == at # "idle" /\ Restart

(***************************************************************************)
(* The helper process.                                                     *)
(***************************************************************************)

OpenPipe(h) ==
    /\ helper[h] = "starting"
    /\ helper' = [helper EXCEPT ![h] = IF pipe = h THEN "opened" ELSE "absent"]
    /\ UNCHANGED <<clientVars, serving, pipeVars>>

Initialize(h) ==
    /\ helper[h] = "opened"
    /\ helper' = [helper EXCEPT ![h] = "ready"]
    /\ UNCHANGED <<clientVars, serving, pipeVars>>

\* Writes to a pipe whose server's end is closed fail.
Write(h, r) ==
    toClient' = IF pipe = h THEN [toClient EXCEPT ![h] = @ \cup {r}] ELSE toClient

\* Not elevated, or Initialize fails: a response to no request, and the end.
InitializeFails(h) ==
    /\ helper[h] = "opened"
    /\ Write(h, [request |-> None, result |-> "session"])
    /\ helper' = [helper EXCEPT ![h] = "left"]
    /\ UNCHANGED <<clientVars, serving, toHelper>>

ReadRequest(h, q) ==
    /\ helper[h] = "ready" /\ q \in toHelper[h]
    /\ toHelper' = [toHelper EXCEPT ![h] = @ \ {q}]
    /\ serving' = [serving EXCEPT ![h] = q]
    /\ helper' = [helper EXCEPT ![h] = "working"]
    /\ UNCHANGED <<clientVars, toClient>>

\* Mutant of ReadRequestFails: the loop goes on after a failed read.
ReadRequestRetries(h) ==
    helper[h] = "ready" /\ pipe # h /\ UNCHANGED vars

ReadRequestFails(h) ==
    /\ helper[h] = "ready" /\ pipe # h
    /\ helper' = [helper EXCEPT ![h] = "left"]
    /\ UNCHANGED <<clientVars, serving, pipeVars>>

\* MsiEcReader::Read ends, with data or without; the helper goes on if its
\* response could be written.
Respond(h, result) ==
    /\ helper[h] = "working"
    /\ Write(h, [request |-> serving[h], result |-> result])
    /\ serving' = [serving EXCEPT ![h] = None]
    /\ helper' = [helper EXCEPT ![h] = IF pipe = h THEN "ready" ELSE "left"]
    /\ UNCHANGED <<clientVars, toHelper>>

\* The process is ended from outside or crashes.
Die(h) ==
    /\ helper[h] \in {"starting", "opened", "ready", "working"}
    /\ helper' = [helper EXCEPT ![h] = IF @ = "starting" THEN "absent" ELSE "left"]
    /\ serving' = [serving EXCEPT ![h] = None]
    /\ UNCHANGED <<clientVars, pipeVars>>

-----------------------------------------------------------------------------

\* What a UI thread inside a sample does next.
ClientStep ==
    \/ AlreadyConnected \/ AlreadyAttempted
    \/ CreatePipeFails \/ \E h \in Helpers : Launch(h)
    \/ LaunchFails \/ LaunchSucceeds
    \/ ConnectSucceeds \/ ConnectTimesOut
    \/ WriteFails \/ \E q \in Requests : WriteRequest(q)
    \/ ReadTimesOut \/ ReadFails \/ \E r \in Responses : ReadResponse(r)

HelperStep(h) ==
    \/ OpenPipe(h) \/ Initialize(h) \/ InitializeFails(h)
    \/ ReadRequestFails(h) \/ \E q \in Requests : ReadRequest(h, q)
    \/ \E result \in {"data", "method", "foreign"} : Respond(h, result)

Next ==
    \/ StartSample \/ ClientStep \/ PipeFails \/ Release \/ RuntimeDies
    \/ \E h \in Helpers : HelperStep(h) \/ Die(h)

\* The UI thread inside a sample goes on: a wait of the client times out, and
\* Windows withdraws a prompt that nobody answers. No sample has to start, no
\* error of the pipe has to occur, and the helper owes nothing: a call into WMI
\* may never return.
Spec == Init /\ [][Next]_vars /\ WF_vars(ClientStep)

-----------------------------------------------------------------------------
(* Properties.                                                             *)

\* A value that ReadEcTelemetry gets is the helper's answer to the request it
\* made: neither a late response after a time-out, nor one from an earlier
\* helper, nor one written before any request is taken for it.
AnswerIsOwn == payload # None => payload = request

\* CLEANUP_1 (elevated helper lifetime): however launches, time-outs and broken pipes follow one
\* another, one lifetime of the client raises one prompt, and keeps the UI
\* thread waiting for the full time of the pipe at most once.
FailsOnce == prompts <= 1 /\ timeouts <= 1

\* The sample that runs on the UI thread comes to an end, whatever the helper
\* does.
SampleEnds == at # "idle" ~> at = "idle"

\* Where its calls into WMI return, an elevated helper does not outlive its
\* client: once its pipe is closed it ends, wherever it is in its start-up or in
\* a request.
Running(h) == helper[h] \in {"starting", "opened", "ready", "working"}
HelperEnds ==
    (\A h \in Helpers : WF_vars(HelperStep(h))) =>
        \A h \in Helpers : (Running(h) /\ pipe # h) ~> ~Running(h)
=============================================================================
