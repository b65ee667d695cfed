---------------------------- MODULE FpsTelemetry ----------------------------
(***************************************************************************)
(* Whose frames per second the HUD shows.  The UI thread owns the FPS      *)
(* target (ProductionTelemetryController, with AlwaysModeFpsTarget and     *)
(* FpsStaleHold); the render verifier and the present-activity source are  *)
(* worker threads.  All of them share the PresentMon session, and processes*)
(* come and go under them, reusing PIDs.                                   *)
(*                                                                         *)
(* A handler of the UI thread that changes the authority or its target     *)
(* ends in a reconciliation, which samples at once, stops sampling or does *)
(* nothing; workers run between the two.  When the HUD is shown is the     *)
(* subject of HudLifecycle, which process is the game that of GameSession: *)
(* here any reconciliation may show or hide, and any running process may   *)
(* become the game.                                                        *)
(***************************************************************************)
EXTENDS PresentMonSession, FiniteSets

CONSTANTS
    HoldTicks,     \* kFpsStaleHoldMs in sampling intervals of 500 ms
    Lasting,       \* instances that run from the start to the end
    VerifiedPids,  \* PIDs that game detection asks the verifier about
    WatchedPids    \* PIDs that the debug observation watches

ASSUME HoldAssumption == HoldTicks \in Nat \ {0}
ASSUME LastingAssumption ==
    /\ Lasting \subseteq Instances
    /\ \A i, j \in Lasting : PidOf[i] = PidOf[j] => i = j
ASSUME WorkerAssumption == VerifiedPids \subseteq Pids /\ WatchedPids \subseteq Pids

VARIABLES
    session,   \* the PresentMon session
    owner,     \* the instance that has a PID, or NoInstance
    exited,    \* instances that have ended
    fps,       \* ProductionTelemetryController's FPS members
    shown,     \* App: the HUD is enabled, visible and not suspended
    ui,        \* "idle", or "reconcile": a handler is about to reconcile
    adopted,   \* history: who had the target's PID since it was adopted
    verifier,  \* GameRenderVerifier and its worker
    activity   \* PresentActivitySource and its worker

fpsVars == <<session, owner, exited, fps, shown, ui, adopted, verifier, activity>>
world == <<owner, exited>>
workers == <<verifier, activity>>

FpsModes == {"Always", "InGameOnly"}
Unused == [of |-> NoInstance, age |-> 0]

\* The number shown is what it was measured from, with its age in sampling
\* intervals when it was last shown; hold.tick is lastValidTick_, relative.
FpsStates ==
    [mode: FpsModes, always: Targets, ingame: Targets,
     latest: [of: Measured, age: 0 .. HoldTicks],
     hold: [pid: Targets, of: Measured, age: 0 .. HoldTicks, tick: 0 .. HoldTicks]]

NoHold == [pid |-> NoPid, of |-> NoInstance, age |-> 0, tick |-> 0]
OwnersOf(p) == IF p = NoPid THEN {} ELSE {owner[p]} \ {NoInstance}

ResolveTarget(f) == IF f.mode = "Always" THEN f.always ELSE f.ingame

Invalidate(f) == [f EXCEPT !.latest = Unused, !.hold = NoHold]

-----------------------------------------------------------------------------
(* FpsStaleHold, AlwaysModeFpsTarget and SampleFps.                        *)

ObserveRearmed(h, p, fresh) == \* mutant: showing the held value renews it
    LET kept == IF h.pid = p THEN h ELSE [NoHold EXCEPT !.pid = p]
    IN  IF fresh # NoInstance
          THEN [pid |-> p, of |-> fresh, age |-> 0, tick |-> 0]
          ELSE IF kept.of # NoInstance /\ kept.tick < HoldTicks
                 THEN [kept EXCEPT !.tick = 0]
                 ELSE [NoHold EXCEPT !.pid = p]

\* The hold after a poll; its value, if any, is what is shown.
Observe(h, p, fresh) ==
    LET kept == IF h.pid = p THEN h ELSE [NoHold EXCEPT !.pid = p]
    IN  IF fresh # NoInstance
          THEN [pid |-> p, of |-> fresh, age |-> 0, tick |-> 0]
          ELSE IF kept.of # NoInstance /\ kept.tick < HoldTicks
                 THEN kept
                 ELSE [NoHold EXCEPT !.pid = p]

\* A sample counts in Always mode only for the current target.  What
\* AlwaysModeFpsTarget published is read at once and never again.
AcceptSample(f, p, fresh) ==
    IF f.mode = "Always" /\ p # f.always THEN NoInstance ELSE fresh

Shown(h) == [of |-> h.of, age |-> h.age]

SampleFps(f, s) ==
    LET p == ResolveTarget(f)
    IN  IF p = NoPid
          THEN {[fps |-> Invalidate(f), session |-> ReleaseQuery(s)]}
          ELSE {LET h == Observe(f.hold, p, AcceptSample(f, p, r.fps))
                IN  [fps |-> [f EXCEPT !.hold = h, !.latest = Shown(h)],
                     session |-> r.session] :
                  r \in ReadProcess(s, p, OwnersOf(p))}

-----------------------------------------------------------------------------
(* The UI thread: the authority and its target.                            *)

SetForegroundProcess(p) ==
    IF p = fps.always
      THEN UNCHANGED <<fps, adopted>>
      ELSE IF fps.mode = "Always"
             THEN /\ fps' = [Invalidate(fps) EXCEPT !.always = p]
                  /\ adopted' = OwnersOf(p) \cup
                                 (IF session.query = p THEN session.sources ELSE {})
             ELSE fps' = [fps EXCEPT !.always = p] /\ UNCHANGED adopted

\* ResolveAlwaysFpsForegroundTarget: ClawHUD itself, an excluded program and
\* an empty foreground are no target.
ForegroundTargets == {PidOf[i] : i \in {j \in Instances : owner[PidOf[j]] = j}} \cup {NoPid}

OnForegroundProcessChanged(p) ==
    /\ ui = "idle"
    /\ p \in ForegroundTargets
    /\ SetForegroundProcess(p)
    /\ ui' = "reconcile"
    /\ UNCHANGED <<session, shown, world, workers>>

SetInGameKeepsQuery(i) == \* mutant: the PID-bound query is not released
    /\ owner[PidOf[i]] = i
    /\ IF fps.mode = "InGameOnly"
         THEN /\ fps' = [Invalidate(fps) EXCEPT !.ingame = PidOf[i]]
              /\ adopted' = {i}
         ELSE fps' = [fps EXCEPT !.ingame = PidOf[i]] /\ UNCHANGED adopted
    /\ ui' = "reconcile"
    /\ UNCHANGED <<session, shown, world, workers>>

SetInGameForegroundProcess(i) ==
    /\ owner[PidOf[i]] = i
    /\ IF fps.mode = "InGameOnly"
         THEN /\ fps' = [Invalidate(fps) EXCEPT !.ingame = PidOf[i]]
              /\ adopted' = {i}
              /\ session' = ReleaseQuery(session)
         ELSE /\ fps' = [fps EXCEPT !.ingame = PidOf[i]]
              /\ UNCHANGED <<adopted, session>>
    /\ ui' = "reconcile"
    /\ UNCHANGED <<shown, world, workers>>

ClearInGameForegroundProcess ==
    /\ fps.ingame # NoPid
    /\ IF fps.mode = "InGameOnly"
         THEN /\ fps' = [Invalidate(fps) EXCEPT !.ingame = NoPid]
              /\ adopted' = {}
              /\ session' = ReleaseQuery(session)
         ELSE /\ fps' = [fps EXCEPT !.ingame = NoPid]
              /\ UNCHANGED <<adopted, session>>
    /\ ui' = "reconcile"
    /\ UNCHANGED <<shown, world, workers>>

SetVisibilityMode(mode, p) ==
    /\ ui = "idle"
    /\ mode # fps.mode
    /\ p \in IF mode = "Always" THEN ForegroundTargets ELSE {NoPid}
    /\ fps' = [Invalidate(fps) EXCEPT !.mode = mode, !.always = p]
    /\ adopted' = OwnersOf(ResolveTarget(fps'))
    /\ session' = ReleaseQuery(session)
    /\ ui' = "reconcile"
    /\ UNCHANGED <<shown, world, workers>>

\* StartProductionSampling of a visible HUD: StartFpsSampling samples at once
\* when the provider can.
ReconcileShow ==
    /\ shown' = TRUE
    /\ ui' = "idle"
    /\ IF session.ready /\ session.processReady
         THEN \E r \in SampleFps(fps, session) : fps' = r.fps /\ session' = r.session
         ELSE UNCHANGED <<fps, session>>
    /\ UNCHANGED <<adopted, world, workers>>

StopKeepsQuery == \* mutant: StopFpsSampling only kills the timer
    /\ shown' = FALSE
    /\ ui' = "idle"
    /\ fps' = Invalidate(fps)
    /\ UNCHANGED <<session, adopted, world, workers>>

\* Hidden, disabled or suspended: StopSamplingTimersAndFps.
ReconcileHide ==
    /\ shown' = FALSE
    /\ ui' = "idle"
    /\ fps' = Invalidate(fps)
    /\ session' = ReleaseQuery(session)
    /\ UNCHANGED <<adopted, world, workers>>

\* No presentation, or its Show failed: nothing is sampled.
ReconcileNothing ==
    /\ ui = "reconcile"
    /\ ui' = "idle"
    /\ UNCHANGED <<session, world, fps, shown, adopted, workers>>

\* A timer message, a stale one included, samples if the HUD is shown.
FpsTimer ==
    /\ ui = "idle"
    /\ shown
    /\ \E r \in SampleFps(fps, session) : fps' = r.fps /\ session' = r.session
    /\ UNCHANGED <<world, shown, ui, adopted, workers>>

-----------------------------------------------------------------------------
(* GameRenderVerifier.                                                     *)

NoVerification == [pid |-> NoPid, found |-> NoInstance, armedFor |-> {}]

\* Stop joins the worker, whose lease goes with it.
StoppedVerifier ==
    IF verifier.pid = NoPid THEN session ELSE ReleaseProcess(session, verifier.pid)

VerifierStart(p) ==
    /\ p \in VerifiedPids
    /\ \E r \in BeginGameRenderVerification(StoppedVerifier, p) :
          /\ session' = r.session
          /\ verifier' = IF r.ok THEN [NoVerification EXCEPT !.pid = p,
                                                             !.armedFor = OwnersOf(p)]
                                 ELSE NoVerification
    /\ UNCHANGED <<world, fps, shown, ui, adopted, activity>>

VerifierStop ==
    /\ verifier.pid # NoPid
    /\ session' = StoppedVerifier
    /\ verifier' = NoVerification
    /\ UNCHANGED <<world, fps, shown, ui, adopted, activity>>

\* The worker polls every 100 ms; on the first displayed frame it reports the
\* process and leaves the loop.
VerifierPoll ==
    /\ verifier.pid # NoPid
    /\ verifier.found = NoInstance
    /\ \E s \in PollDisplayedFrame(session, verifier.pid) :
          session' = s /\ verifier' = [verifier EXCEPT !.found = s.seen]
    /\ UNCHANGED <<world, fps, shown, ui, adopted, activity>>

VerifierWorkerEnds ==
    /\ verifier.found # NoInstance
    /\ session' = ReleaseProcess(session, verifier.pid)
    /\ verifier' = NoVerification
    /\ UNCHANGED <<world, fps, shown, ui, adopted, activity>>

-----------------------------------------------------------------------------
(* PresentActivitySource.                                                  *)

Watch(p) ==
    /\ p \in WatchedPids \cup {NoPid}
    /\ p # activity.watched
    /\ activity' = [activity EXCEPT !.watched = p]
    /\ UNCHANGED <<session, world, fps, shown, ui, adopted, verifier>>

\* The top of PollLoop: another PID's lease is given back before the watched
\* one is tracked, which may fail and is tried again.
PollLease ==
    /\ activity.watched # activity.leased
    /\ LET free == IF activity.leased = NoPid THEN session
                     ELSE ReleaseProcess(session, activity.leased)
       IN  \E r \in IF activity.watched = NoPid THEN {NotDone(free)}
                      ELSE AcquireProcess(free, activity.watched) :
             /\ session' = r.session
             /\ activity' = [activity EXCEPT !.leased =
                                IF r.ok THEN activity.watched ELSE NoPid]
    /\ UNCHANGED <<world, fps, shown, ui, adopted, verifier>>

PollRead ==
    /\ activity.leased # NoPid
    /\ session' \in ReadDebugFrameActivity(session, activity.leased)
    /\ UNCHANGED <<world, fps, shown, ui, adopted, workers>>

-----------------------------------------------------------------------------
(* The world: processes, frames and time.                                  *)

ProcessStarts(i) ==
    LET p == PidOf[i]
    IN  /\ owner[p] = NoInstance /\ i \notin exited
        /\ owner' = [owner EXCEPT ![p] = i]
        /\ session' = IF session.query = p
                        THEN [session EXCEPT !.sources = @ \cup {i}]
                        ELSE session
        /\ adopted' = IF ResolveTarget(fps) = p THEN adopted \cup {i} ELSE adopted
        /\ verifier' = IF verifier.pid = p
                         THEN [verifier EXCEPT !.armedFor = @ \cup {i}]
                         ELSE verifier
        /\ UNCHANGED <<exited, fps, shown, ui, activity>>

Exit(i) ==
    /\ owner[PidOf[i]] = i /\ i \notin Lasting
    /\ owner' = [owner EXCEPT ![PidOf[i]] = NoInstance]
    /\ exited' = exited \cup {i}
    /\ UNCHANGED <<session, fps, shown, ui, adopted, workers>>

Display(i) ==
    LET p == PidOf[i]
    IN  /\ owner[p] = i /\ p \in session.tracked \cap VerifiedPids /\ i \notin session.queued[p]
        /\ session' = [session EXCEPT !.queued[p] = @ \cup {i}]
        /\ UNCHANGED <<world, fps, shown, ui, adopted, workers>>

Older(n) == IF n < HoldTicks THEN n + 1 ELSE n

Tick ==
    /\ fps.hold.of # NoInstance
    /\ fps' = [fps EXCEPT !.hold.age = Older(@), !.hold.tick = Older(@)]
    /\ UNCHANGED <<session, world, shown, ui, adopted, workers>>

-----------------------------------------------------------------------------
FpsInit ==
    /\ session \in Initialized
    /\ owner = [p \in Pids |-> IF \E i \in Lasting : PidOf[i] = p
                                THEN CHOOSE i \in Lasting : PidOf[i] = p
                                ELSE NoInstance]
    /\ exited = {}
    /\ \E m \in FpsModes :
          fps = [mode |-> m, always |-> NoPid, ingame |-> NoPid,
                 latest |-> Unused, hold |-> NoHold]
    /\ shown = FALSE
    /\ ui = "idle"
    /\ adopted = {}
    /\ verifier = NoVerification
    /\ activity = [watched |-> NoPid, leased |-> NoPid]

FpsNext ==
    \/ \E p \in Targets : OnForegroundProcessChanged(p)
    \/ \E i \in Instances : SetInGameForegroundProcess(i)
    \/ ClearInGameForegroundProcess
    \/ \E m \in FpsModes, p \in Targets : SetVisibilityMode(m, p)
    \/ ReconcileShow \/ ReconcileHide \/ ReconcileNothing
    \/ FpsTimer
    \/ \E p \in Pids : VerifierStart(p)
    \/ VerifierStop \/ VerifierPoll \/ VerifierWorkerEnds
    \/ \E p \in Targets : Watch(p)
    \/ PollLease \/ PollRead
    \/ \E i \in Instances : ProcessStarts(i) \/ Exit(i) \/ Display(i)
    \/ Tick

FpsSpec == FpsInit /\ [][FpsNext]_fpsVars

-----------------------------------------------------------------------------
\* The variables hold values the code can hold.
FpsTypeOK ==
    /\ session \in Sessions
    /\ fps \in FpsStates

\* What the HUD shows was measured from a process that had the target's PID
\* at some time since that target was adopted: never a value of the previous
\* target, of the other mode, or of an earlier process with the same PID.
FpsIsTargets ==
    fps.latest.of # NoInstance => fps.latest.of \in adopted

\* A value that PresentMon stopped delivering is shown for less than
\* kFpsStaleHoldMs, however the samples are spaced.
HoldExpires == fps.latest.of # NoInstance => fps.latest.age < HoldTicks

\* A frame that proves a game renders was displayed by a process that had the
\* PID after the verification began, not by one of the frames that another
\* user of the session left in the queue.
EvidenceIsFresh ==
    verifier.found # NoInstance => verifier.found \in verifier.armedFor

Holders(p) == {h \in {"query", "verifier", "activity"} :
                 p = CASE h = "query" -> session.query
                       [] h = "verifier" -> verifier.pid
                       [] OTHER -> activity.leased}

\* Three users of one session start and stop tracking in any order: a process
\* is tracked as long as one of them holds it and no longer, and a HUD that is
\* not shown holds no query.
TrackingMatchesHolders ==
    /\ \A p \in Pids : session.refs[p] = Cardinality(Holders(p))
    /\ session.tracked = {p \in Pids : Holders(p) # {}}
    /\ ui = "idle" /\ ~shown => session.query = NoPid

\* The numbers on the HUD and the frames that count as evidence were measured
\* from the process they are taken for, and are not shown longer than the hold;
\* the session and its users are well formed.
MeasurementsAreOwn == FpsTypeOK /\ FpsIsTargets /\ HoldExpires /\ EvidenceIsFresh
=============================================================================
