-------------------------- MODULE PresentMonSession --------------------------
(***************************************************************************)
(* The PresentMon API2 session of the ClawHUD runtime: the reference       *)
(* counts of PresentMonApi2Client, the FPS query of                        *)
(* PresentMonProcessTelemetry, the frame query of PresentMonFrameTelemetry *)
(* and the one of PresentMonDebugFrameTelemetry, behind                    *)
(* PresentMonTelemetryProvider, whose mutex makes each of its methods one  *)
(* step.  An operation is an operator from the session to the set of       *)
(* sessions, or of results with a session, that the service may leave.     *)
(*                                                                         *)
(* A number measured by PresentMon is represented by the process instance  *)
(* it was measured from: Windows reuses PIDs, and what matters is whose    *)
(* frames a value was made of.                                             *)
(***************************************************************************)
EXTENDS Naturals

CONSTANTS
    Instances,   \* process instances
    Pids,        \* their PIDs: positive numbers
    PidOf,       \* the PID of an instance
    NoInstance   \* nobody, or no measured value

ASSUME PidAssumption ==
    /\ Pids \subseteq Nat \ {0}
    /\ PidOf \in [Instances -> Pids]
    /\ NoInstance \notin Instances

NoPid == 0
Measured == Instances \cup {NoInstance}
Targets == Pids \cup {NoPid}

Sessions ==
    [ready: BOOLEAN, processReady: BOOLEAN, frameReady: BOOLEAN,
     refs: [Pids -> 0 .. 3],         \* ProcessTrackingRefCounts: three holders
     query: Targets,                 \* the PID of the dynamic query
     sources: SUBSET Instances,      \* whose frames that query may average
     armed: Targets, seen: Measured, \* armedProcessId_, the detector's latch
     tracked: SUBSET Pids,           \* what the service tracks
     queued: [Pids -> SUBSET Instances]] \* displayed frames it has queued

Done(s) == [ok |-> TRUE, session |-> s]
NotDone(s) == [ok |-> FALSE, session |-> s]

Closed == \* after PresentMonTelemetryProvider::ShutdownUnlocked
    [ready |-> FALSE, processReady |-> FALSE, frameReady |-> FALSE,
     refs |-> [p \in Pids |-> 0], query |-> NoPid, sources |-> {},
     armed |-> NoPid, seen |-> NoInstance, tracked |-> {},
     queued |-> [p \in Pids |-> {}]]

\* The client loads and resolves the API, opens the session and copies its
\* introspection, or the provider is not ready; then each of the telemetries
\* finds its metrics and registers its query, or stays unavailable.  FPS also
\* needs the ETW flush period.
ClientOpens == BOOLEAN
ProcessTelemetryReady(opened) == IF opened THEN BOOLEAN ELSE {FALSE}
FrameTelemetryReady(opened) == IF opened THEN BOOLEAN ELSE {FALSE}

Initialized ==
    UNION {{[Closed EXCEPT !.ready = opened, !.processReady = process,
                           !.frameReady = frame] :
              process \in ProcessTelemetryReady(opened),
              frame \in FrameTelemetryReady(opened)} : opened \in ClientOpens}

-----------------------------------------------------------------------------
(* Tracking, shared by three holders and counted per PID.                  *)

StartTrackingNoAbort(s, p) == \* mutant: AbortAcquire dropped
    IF s.refs[p] > 0
      THEN {Done([s EXCEPT !.refs[p] = @ + 1])}
      ELSE {Done([s EXCEPT !.refs[p] = 1, !.tracked = @ \cup {p}]),
            NotDone([s EXCEPT !.refs[p] = 1])}

StartTracking(s, p) ==
    IF s.refs[p] > 0
      THEN {Done([s EXCEPT !.refs[p] = @ + 1])}
      ELSE {Done([s EXCEPT !.refs[p] = 1, !.tracked = @ \cup {p}]), NotDone(s)}

StopTracking(s, p) ==
    CASE s.refs[p] = 0 -> s
      [] s.refs[p] = 1 -> [s EXCEPT !.refs[p] = 0, !.tracked = @ \ {p},
                                    !.queued[p] = {}]
      [] OTHER -> [s EXCEPT !.refs[p] = @ - 1]

-----------------------------------------------------------------------------
(* PresentMonProcessTelemetry.  The query and the tracking are released    *)
(* together.                                                               *)

ReleaseTargetKeepsTracking(s) == \* mutant: the query is freed, its tracking is not
    [s EXCEPT !.query = NoPid, !.sources = {}]

ReleaseTarget(s) ==
    IF s.query = NoPid
      THEN s
      ELSE StopTracking([s EXCEPT !.query = NoPid, !.sources = {}], s.query)

RetargetProcess(s, p, owners) ==
    UNION {IF ~r.ok
             THEN {r}
             ELSE {Done([r.session EXCEPT !.query = p, !.sources = owners]),
                   NotDone(StopTracking(r.session, p))} :
             r \in StartTracking(ReleaseTarget(s), p)}

Value(i, s) == [fps |-> i, session |-> s]

\* A poll averages frames of the instances that had the PID since the query
\* was registered, has nothing to say, or finds the PID gone.
PollQuery(s) ==
    {Value(NoInstance, s), Value(NoInstance, ReleaseTarget(s))}
    \cup {Value(i, s) : i \in s.sources}

ReadProcess(s, p, owners) ==
    IF ~s.ready \/ ~s.processReady
      THEN {Value(NoInstance, s)}
      ELSE CASE p = NoPid -> {Value(NoInstance, ReleaseTarget(s))}
             [] p # NoPid /\ s.query = p -> PollQuery(s)
             [] OTHER -> UNION {IF r.ok THEN PollQuery(r.session)
                                        ELSE {Value(NoInstance, r.session)} :
                                  r \in RetargetProcess(s, p, owners)}

ReleaseQuery(s) == CHOOSE t \in {r.session : r \in ReadProcess(s, NoPid, {})} : TRUE

-----------------------------------------------------------------------------
(* Leases, PresentMonFrameTelemetry and PresentMonDebugFrameTelemetry.     *)

AcquireProcess(s, p) == IF s.ready THEN StartTracking(s, p) ELSE {NotDone(s)}
ReleaseProcess(s, p) == IF s.ready THEN StopTracking(s, p) ELSE s

BeginVerificationUnflushed(s, p) == \* mutant: a failed flush is ignored
    {Done([s EXCEPT !.armed = p, !.seen = NoInstance, !.queued[p] = {}]),
     Done([s EXCEPT !.armed = p, !.seen = NoInstance])}

\* Frames queued before the attempt are dropped, or it is not armed.
BeginVerification(s, p) ==
    {Done([s EXCEPT !.armed = p, !.seen = NoInstance, !.queued[p] = {}]),
     NotDone([s EXCEPT !.armed = NoPid, !.seen = NoInstance])}

BeginGameRenderVerification(s, p) ==
    IF ~s.ready \/ ~s.frameReady
      THEN {NotDone(s)}
      ELSE UNION {IF ~r.ok
                    THEN {r}
                    ELSE {IF b.ok THEN b ELSE NotDone(StopTracking(b.session, p)) :
                            b \in BeginVerification(r.session, p)} :
                    r \in StartTracking(s, p)}

\* The first displayed frame is latched; until then the queue is consumed,
\* and a batch may be invalid, or hold only frames that were not displayed.
PollDisplayedFrame(s, p) ==
    IF ~s.ready \/ s.armed # p \/ s.seen # NoInstance
      THEN {s}
      ELSE {s, [s EXCEPT !.queued[p] = {}]}
           \cup {[s EXCEPT !.queued[p] = {}, !.seen = i] : i \in s.queued[p]}

\* The debug log flushes the queue when its target changes and consumes it:
\* the frames it reads are not there for the verifier any more.
ReadDebugFrameActivity(s, p) ==
    {s} \cup IF s.ready THEN {[s EXCEPT !.queued[p] = {}]} ELSE {}

=============================================================================
