---------------------------- MODULE HudLifecycle ----------------------------
(***************************************************************************)
(* The HUD of the ClawHUD runtime: App's HUD orchestration (App.cpp), the  *)
(* HudController and the HudPresentation it owns, the sampling timers of   *)
(* ProductionTelemetryController, and the [HUD] section of settings.ini.   *)
(*                                                                         *)
(* Everything here runs on the UI thread, one window message at a time, so *)
(* a message handler is one action.  What makes it hard is that a handler  *)
(* calls a dozen fallible operations in a row, and that the messages are   *)
(* timers, hotkeys, power broadcasts, control requests and foreground      *)
(* changes in any order.  An operation is therefore an operator from the   *)
(* state `app' to the SET of states it can leave behind, one per outcome   *)
(* of the Win32, Direct3D and foreground calls it makes; where the caller  *)
(* looks at the result, to a set of outcomes [ok, app].  A handler is the  *)
(* composition of its calls, in the order of the code.                     *)
(***************************************************************************)
EXTENDS Naturals

CONSTANTS
    Options,      \* values of (font, size, alignment, background): what a
                  \* live presentation is built from
    Opacities,    \* opacity levels
    MaxAttempts,  \* kResumeRecoveryMaxAttempts
    Platforms     \* sets of FailureKinds: what may fail on a machine

\* init: HudPresentation::Initialize fails; show, hide: making the content
\* visible or invisible fails; frame: Render fails; busy: Render finds no
\* free buffer (S_FALSE); opacity: SetLayeredWindowAttributes fails.
FailureKinds == {"init", "show", "hide", "frame", "busy", "opacity"}

ASSUME OptionsAssumption == Options # {} /\ Opacities # {}
ASSUME MaxAttemptsAssumption == MaxAttempts \in Nat \ {0}
ASSUME PlatformsAssumption == Platforms # {} /\ Platforms \subseteq SUBSET FailureKinds

VARIABLE
    app   \* the members of App and of the objects it owns

Modes == {"Always", "InGameOnly"}
TimerIds == {"ec", "fps", "resume"}

\* "none": no HudPresentation object; "dead": an object that is not
\* initialised; "live": an initialised one, with its window and surface.
Presentations == {"none", "dead", "live"}

States ==
    [failures: Platforms, running: BOOLEAN,
     enabled: BOOLEAN, override: {"none", "show", "hide"}, mode: Modes,
     option: Options, opacity: Opacities,
     pres: Presentations, visible: BOOLEAN, displayChanged: BOOLEAN,
     built: Options, layered: Opacities,
     suspended: BOOLEAN, recovering: BOOLEAN, attempts: 0 .. MaxAttempts - 1,
     game: BOOLEAN, sampling: BOOLEAN, ec: BOOLEAN,
     timers: SUBSET TimerIds, ticks: SUBSET TimerIds,
     saved: [enabled: BOOLEAN, mode: Modes, option: Options, opacity: Opacities]]

Ok(s) == [ok |-> TRUE, app |-> s]
Failed(s) == [ok |-> FALSE, app |-> s]
MayFail(s, kind, outcomes) == IF kind \in s.failures THEN outcomes ELSE {}

-----------------------------------------------------------------------------
(* HudPresentation                                                         *)

Initialize(s) ==
    IF s.pres = "live"
      THEN {Ok(s)}
      ELSE LET down == [s EXCEPT !.pres = "dead", !.visible = FALSE,
                                 !.displayChanged = FALSE]
           IN  {Ok([down EXCEPT !.pres = "live", !.built = s.option,
                                !.layered = s.opacity])}
               \cup MayFail(s, "init", {Failed(down)})

Shutdown(s) ==
    [s EXCEPT !.pres = IF @ = "live" THEN "dead" ELSE @, !.visible = FALSE,
              !.displayChanged = FALSE]

\* A display change rebuilds the presentation from the options it was built
\* with, and shows it again if it was visible.
RefreshDisplayIfNeeded(s) ==
    IF ~s.displayChanged
      THEN {Ok(s)}
      ELSE LET up == [s EXCEPT !.visible = FALSE, !.displayChanged = FALSE]
           IN  MayFail(s, "init", {Failed([up EXCEPT !.pres = "dead"])})
               \cup IF s.visible
                      THEN {Ok([up EXCEPT !.visible = TRUE])}
                           \cup MayFail(s, "show", {Failed(up)})
                      ELSE {Ok(up)}

ShowPresentation(s) ==
    IF s.pres # "live"
      THEN {Failed(s)}
      ELSE UNION {IF r.ok
                    THEN {Ok([r.app EXCEPT !.visible = TRUE])}
                         \cup MayFail(s, "show", {Failed(r.app)})
                    ELSE {r} : r \in RefreshDisplayIfNeeded(s)}

HidePresentation(s) ==
    {[s EXCEPT !.visible = FALSE]}
    \cup IF s.visible THEN MayFail(s, "hide", {s}) ELSE {}

-----------------------------------------------------------------------------
(* HudController                                                           *)

Resolve(s) == \* ResolveHudVisible
    /\ s.enabled
    /\ CASE s.override = "show" -> TRUE
         [] s.override = "hide" -> FALSE
         [] OTHER -> s.mode = "Always" \/ s.game

Ensure(s) == Initialize(s)

RecreateAlwaysShows(s, restoreVisible) == \* mutant: forgets it was hidden
    IF s.pres = "none" \/ (s.pres = "dead" /\ ~s.enabled)
      THEN {Ok(s)}
      ELSE UNION {IF r.ok THEN {Ok([r.app EXCEPT !.visible = TRUE])} ELSE {r} :
                    r \in Initialize(Shutdown(s))}

Recreate(s, restoreVisible) ==
    IF s.pres = "none" \/ (s.pres = "dead" /\ ~s.enabled)
      THEN {Ok(s)}
      ELSE UNION {IF r.ok /\ restoreVisible
                    THEN {Ok([r.app EXCEPT !.visible = TRUE])}
                         \cup MayFail(s, "show", {Failed(r.app)})
                    ELSE {r} : r \in Initialize(Shutdown(s))}

\* A render outside recovery changes no state but the display refresh's.
Render(s) ==
    IF s.enabled /\ s.visible
      THEN {r.app : r \in RefreshDisplayIfNeeded(s)}
      ELSE {s}

RenderRecoveryFrame(s) ==
    IF s.pres # "live"
      THEN {[frame |-> "failed", app |-> s]}
      ELSE UNION {IF ~r.ok
                    THEN {[frame |-> "failed", app |-> r.app]}
                    ELSE {[frame |-> "presented", app |-> r.app]}
                         \cup MayFail(s, "frame", {[frame |-> "failed", app |-> r.app]})
                         \cup MayFail(s, "busy", {[frame |-> "busy", app |-> r.app]}) :
                    r \in RefreshDisplayIfNeeded(s)}

-----------------------------------------------------------------------------
(* ProductionTelemetryController: the sampling timers.  "ec" stands for    *)
(* the EC and battery timers, which are set and killed together.           *)

SystemEcSampled(s) == Render([s EXCEPT !.ec = TRUE])

\* Renders unless there is no FPS target.
FpsSampled(s) == {s} \cup Render(s)

BaseSamplingStarted(s) ==
    IF s.sampling
      THEN {s}
      ELSE UNION {Render([t EXCEPT !.timers = @ \cup {"ec"}]) :
                    t \in SystemEcSampled([s EXCEPT !.sampling = TRUE])}

\* The PresentMon provider may not be ready.
StartFpsSampling(s) ==
    {s} \cup {[t EXCEPT !.timers = @ \cup {"fps"}] : t \in FpsSampled(s)}

StopSampling(s) ==
    [s EXCEPT !.timers = @ \ {"ec", "fps"}, !.sampling = FALSE]

-----------------------------------------------------------------------------
(* App: sampling and visibility, and what game detection calls back.       *)

StartSamplingWithGame(s) == \* the foreground game needs no verification
    IF s.suspended \/ ~s.visible
      THEN {s}
      ELSE UNION {StartFpsSampling(t) : t \in BaseSamplingStarted(s)}

HideAndStop(s) == {StopSampling(t) : t \in HidePresentation(s)}

ReconcileEvaluated(s) == \* called from an evaluation, or behind the gate
    IF s.pres = "none"
      THEN {s}
      ELSE IF s.suspended \/ s.recovering
             THEN HidePresentation(s)
             ELSE IF Resolve(s)
                    THEN UNION {IF r.ok THEN StartSamplingWithGame(r.app) ELSE {r.app} :
                                  r \in ShowPresentation(s)}
                    ELSE HideAndStop(s)

\* The current foreground becomes the In-Game Only target: another game, or
\* the first one.
TargetSet(s) ==
    UNION {ReconcileEvaluated(t) :
             t \in StartSamplingWithGame([s EXCEPT !.game = TRUE])}

TargetClearedUnnoticed(s) == {[s EXCEPT !.game = FALSE]} \* mutant: no reconcile

TargetCleared(s) == ReconcileEvaluated([s EXCEPT !.game = FALSE])

\* EvaluateCurrentForeground: the foreground may be the same target, another
\* game, or no game.
Evaluate(s) ==
    {s} \cup
    IF s.enabled /\ ~s.suspended
      THEN TargetSet(s) \cup (IF s.game THEN TargetCleared(s) ELSE {})
      ELSE {}

\* A foreground waiting for verification may have become a known game.
EnsureRenderVerification(s) ==
    {s} \cup IF s.enabled /\ ~s.suspended /\ ~s.game THEN TargetSet(s) ELSE {}

StartProductionSampling(s) ==
    IF s.suspended \/ ~s.visible
      THEN {s}
      ELSE UNION {UNION {StartFpsSampling(u) : u \in EnsureRenderVerification(t)} :
                    t \in BaseSamplingStarted(s)}

\* The target's process may be gone when it is revalidated.
Revalidate(s) == IF s.game THEN Evaluate(s) ELSE {s}

ReconcileRevalidated(s) ==
    IF Resolve(s)
      THEN UNION {IF r.ok THEN StartProductionSampling(r.app) ELSE {r.app} :
                    r \in ShowPresentation(s)}
      ELSE HideAndStop(s)

ReconcileHudVisibility(s) ==
    IF s.pres = "none" \/ s.suspended \/ s.recovering
      THEN ReconcileEvaluated(s)
      ELSE UNION {ReconcileRevalidated(t) : t \in Revalidate(s)}

ForegroundChanged(s) ==
    UNION {UNION {Evaluate(u) : u \in ReconcileHudVisibility(t)} :
             t \in {s} \cup Render(s)}

SaveHudSettings(s) ==
    [s EXCEPT !.saved = [@ EXCEPT !.mode = s.mode, !.option = s.option,
                                  !.opacity = s.opacity]]

SaveEnabled(s) == [s EXCEPT !.saved.enabled = s.enabled]

-----------------------------------------------------------------------------
(* Suspend, resume and the recovery it starts.                             *)

CancelResumeRecovery(s) ==
    [s EXCEPT !.timers = @ \ {"resume"}, !.recovering = FALSE, !.attempts = 0]

SuspendKeepsRecovery(s) == \* mutant: CancelResumeRecovery dropped
    IF s.suspended THEN {s} ELSE HideAndStop([s EXCEPT !.suspended = TRUE])

SuspendKeepsSampling(s) == \* mutant: PauseProductionSampling dropped
    IF s.suspended
      THEN {s}
      ELSE HidePresentation(CancelResumeRecovery([s EXCEPT !.suspended = TRUE]))

Suspend(s) ==
    IF s.suspended
      THEN {s}
      ELSE HideAndStop(CancelResumeRecovery([s EXCEPT !.suspended = TRUE]))

Resume(s) ==
    IF s.recovering
      THEN {s}
      ELSE {[t EXCEPT !.suspended = FALSE, !.recovering = TRUE, !.attempts = 0,
                      !.timers = @ \cup {"resume"}] :
              t \in IF s.suspended THEN {s} ELSE HideAndStop(s)}

RetryOnceMore(s) == \* mutant: off by one
    IF s.attempts <= MaxAttempts
      THEN [s EXCEPT !.recovering = TRUE, !.timers = @ \cup {"resume"}]
      ELSE CancelResumeRecovery(s)

RetryAfresh(s) == \* mutant: every retry is a first attempt
    [s EXCEPT !.recovering = TRUE, !.attempts = 0, !.timers = @ \cup {"resume"}]

RetryOrGiveUp(s) ==
    IF s.attempts < MaxAttempts
      THEN [s EXCEPT !.recovering = TRUE, !.timers = @ \cup {"resume"}]
      ELSE CancelResumeRecovery(s)

\* Whether a visible HUD would show a fresh frame, as [ok, app].  Only the
\* first attempt rebuilds a presentation that cannot draw.
FreshFrame(s, expected) ==
    IF ~expected
      THEN {Ok(s)}
      ELSE IF s.pres = "none"
             THEN {Failed(s)}
             ELSE UNION {IF f.frame = "failed" /\ s.attempts = 1
                           THEN Recreate(f.app, FALSE)
                           ELSE {[ok |-> f.frame = "presented", app |-> f.app]} :
                           f \in RenderRecoveryFrame(s)}

\* The gate is lifted and the HUD reconciled; the first attempt rebuilds a
\* presentation that will not show.
LiftGate(s, expected) ==
    UNION {IF expected /\ ~t.visible /\ t.attempts = 1
             THEN UNION {ReconcileHudVisibility(r.app) : r \in Recreate(t, TRUE)}
             ELSE {t} : t \in ReconcileHudVisibility([s EXCEPT !.recovering = FALSE])}

FinishRecovery(s, expected) ==
    UNION {IF expected /\ ~t.visible
             THEN {RetryOrGiveUp(t)}
             ELSE Evaluate(CancelResumeRecovery(t)) : t \in LiftGate(s, expected)}

\* The wait for a live game that is not in the foreground (418-425) asks for
\* a current game process and for no current game, which are one variable:
\* it never happens.
TryResumeRecovery(s) ==
    IF ~s.recovering
      THEN {s}
      ELSE LET tried == [s EXCEPT !.attempts = @ + 1]
               seen == UNION {Evaluate(t) : t \in {tried} \cup ForegroundChanged(tried)}
           IN  UNION {UNION {IF r.ok THEN FinishRecovery(r.app, Resolve(t))
                                     ELSE {RetryOrGiveUp(r.app)} :
                               r \in FreshFrame(t, Resolve(t))} : t \in seen}

-----------------------------------------------------------------------------
(* Settings and the hotkey.                                                *)

StopHud(s) ==
    LET off == [StopSampling([s EXCEPT !.enabled = FALSE, !.override = "none"])
                  EXCEPT !.ec = FALSE, !.game = FALSE]
    IN  {[Shutdown(u) EXCEPT !.pres = "none"] :
           u \in UNION {ReconcileHudVisibility(t) : t \in ReconcileHudVisibility(off)}}

EnableHud(s) ==
    UNION {IF r.ok
             THEN {SaveEnabled(u) : u \in
                     UNION {ReconcileHudVisibility([t EXCEPT !.override = "none"]) :
                              t \in Evaluate([r.app EXCEPT !.enabled = TRUE])}}
             ELSE {r.app} : r \in Ensure(s)}

SetHudEnabled(s, on) ==
    IF on THEN EnableHud(s) ELSE {SaveEnabled(t) : t \in StopHud(s)}

\* A new option is tried on the presentation, and taken back if it fails.
\* Font and size are saved only if they succeeded, alignment and background
\* in either case.
SetOptionKeepsBuilt(s, v, saveRollback) == \* mutant: rolled back, not rebuilt
    UNION {IF r.ok THEN {SaveHudSettings(r.app)}
                   ELSE {[r.app EXCEPT !.option = s.option]} :
             r \in Recreate([s EXCEPT !.option = v], s.visible)}

SetOptionSavesFirst(s, v, saveRollback) == \* mutant: saved before it is rolled back
    UNION {IF r.ok THEN {SaveHudSettings(r.app)}
                   ELSE {q.app : q \in Recreate([SaveHudSettings(r.app)
                                          EXCEPT !.option = s.option], s.visible)} :
             r \in Recreate([s EXCEPT !.option = v], s.visible)}

SetOption(s, v, saveRollback) ==
    IF v = s.option
      THEN {s}
      ELSE UNION {IF r.ok
                    THEN {SaveHudSettings(r.app)}
                    ELSE {IF saveRollback THEN SaveHudSettings(q.app) ELSE q.app :
                            q \in Recreate([r.app EXCEPT !.option = s.option], s.visible)} :
                    r \in Recreate([s EXCEPT !.option = v], s.visible)}

SetHudOpacity(s, v, persist) ==
    LET Kept(t) == IF persist THEN SaveHudSettings(t) ELSE t IN
    CASE v = s.opacity -> {Kept(s)}
      [] s.pres # "live" -> {Kept([s EXCEPT !.opacity = v])}
      [] OTHER -> {Kept([s EXCEPT !.opacity = v, !.layered = v])}
                  \cup MayFail(s, "opacity", {s})

SetHudVisibilityMode(s, m) ==
    LET chosen == [s EXCEPT !.mode = m, !.override = "none"]
        seen == IF m # s.mode /\ m = "InGameOnly" THEN Evaluate(chosen) ELSE {chosen}
        sampled == IF m = s.mode THEN seen
                   ELSE UNION {IF t.suspended THEN {t} ELSE FpsSampled(t) : t \in seen}
    IN  UNION {ReconcileHudVisibility(SaveHudSettings(t)) : t \in sampled}

HandleHudToggleHotkey(s) ==
    IF ~s.enabled
      THEN {s}
      ELSE ReconcileHudVisibility(
             [s EXCEPT !.override = IF s.visible THEN "hide" ELSE "show"])

-----------------------------------------------------------------------------
(* The process.                                                            *)

NotRunning(failures, saved) ==
    [failures |-> failures, running |-> FALSE, enabled |-> FALSE,
     override |-> "none", mode |-> saved.mode,
     option |-> saved.option, opacity |-> saved.opacity,
     pres |-> "none", visible |-> FALSE, displayChanged |-> FALSE,
     built |-> saved.option, layered |-> saved.opacity,
     suspended |-> FALSE, recovering |-> FALSE, attempts |-> 0,
     game |-> FALSE, sampling |-> FALSE, ec |-> FALSE,
     timers |-> {}, ticks |-> {}, saved |-> saved]

\* LoadHudSettings, foreground tracking, and the restore of an enabled HUD.
\* A restore that fails is abandoned without being saved.
StartUp(s) ==
    UNION {IF ~t.enabled
             THEN {t}
             ELSE UNION {IF r.ok
                           THEN UNION {ReconcileHudVisibility(u) : u \in Evaluate(r.app)}
                           ELSE {[r.app EXCEPT !.enabled = FALSE]} : r \in Ensure(t)} :
             t \in Evaluate([s EXCEPT !.running = TRUE, !.enabled = s.saved.enabled])}

HandleTimerUnguarded(s, t) == \* mutant: a stale tick samples
    CASE t = "resume" -> TryResumeRecovery(s)
      [] t = "ec" -> SystemEcSampled(s)
      [] t = "fps" -> FpsSampled(s)

HandleTimer(s, t) ==
    LET sampleAllowed == ~s.suspended /\ s.enabled /\ s.visible IN
    CASE t = "resume" -> TryResumeRecovery(s)
      [] t = "ec" /\ sampleAllowed -> SystemEcSampled(s)
      [] t = "fps" /\ sampleAllowed -> FpsSampled(s)
      [] OTHER -> {s}

Init ==
    \E f \in Platforms, e \in BOOLEAN, m \in Modes, o \in Options, p \in Opacities :
        app = NotRunning(f, [enabled |-> e, mode |-> m, option |-> o, opacity |-> p])

Start == ~app.running /\ app' \in StartUp(app)

\* A normal exit or a crash: only settings.ini survives.
Quit == app.running /\ app' = NotRunning(app.failures, app.saved)

ControlRequest ==
    /\ app.running
    /\ \/ \E on \in BOOLEAN : app' \in SetHudEnabled(app, on)
       \/ \E v \in Options, b \in BOOLEAN : app' \in SetOption(app, v, b)
       \/ \E v \in Opacities, b \in BOOLEAN : app' \in SetHudOpacity(app, v, b)
       \/ \E m \in Modes : app' \in SetHudVisibilityMode(app, m)

Hotkey == app.running /\ app' \in HandleHudToggleHotkey(app)

ForegroundMessage == app.running /\ app' \in ForegroundChanged(app)

\* A window event, Steam's running application, Microsoft evidence or a
\* renderer completion asks for an evaluation.
DetectionMessage == app.running /\ app' \in Evaluate(app)

PowerBroadcast == app.running /\ (app' \in Suspend(app) \/ app' \in Resume(app))

DisplayChange == app.pres = "live" /\ app' = [app EXCEPT !.displayChanged = TRUE]

\* A tick stays in the message queue when its timer is killed.
TimerElapses ==
    \E t \in app.timers : app' = [app EXCEPT !.ticks = @ \cup {t}]

TimerMessage(t) ==
    t \in app.ticks /\ app' \in HandleTimer([app EXCEPT !.ticks = @ \ {t}], t)

Next ==
    \/ Start \/ Quit \/ ControlRequest \/ Hotkey
    \/ ForegroundMessage \/ DetectionMessage \/ PowerBroadcast
    \/ DisplayChange \/ TimerElapses \/ \E t \in TimerIds : TimerMessage(t)

Spec == Init /\ [][Next]_app

ResumeTimerElapses ==
    "resume" \in app.timers /\ app' = [app EXCEPT !.ticks = @ \cup {"resume"}]

\* The message loop keeps dispatching, and an armed timer goes off.
FairSpec == Spec /\ WF_app(ResumeTimerElapses) /\ WF_app(TimerMessage("resume"))

-----------------------------------------------------------------------------
(* Properties.                                                             *)

\* Type correctness of the whole HUD state.  No attempt is left pending once the
\* last of MaxAttempts is used up.
TypeOK == app \in States

\* A disabled HUD is off: StopHud and a failed restore leave nothing shown,
\* no sampling timer armed and no elevated EC helper, whatever tick or
\* foreground message is still in the queue.
DisabledIsQuiet ==
    ~app.enabled =>
        /\ ~app.visible /\ ~app.sampling /\ ~app.ec
        /\ app.timers \subseteq {"resume"}

\* The HUD is on the screen only when the policy (enabled, F8 override, mode
\* and foreground game) asks for it, through every recreation, display change
\* and recovery, and never while the machine is suspended or the resume recovery
\* is running, whatever the user or game detection does (unless hiding it failed).
ShownOnlyByPolicy ==
    app.visible =>
        \/ Resolve(app) /\ ~app.suspended /\ ~app.recovering
        \/ "hide" \in app.failures

\* Where the platform does what it is asked, the HUD is on the screen exactly
\* when the policy asks for it, after every handler outside the gate.
ShownByPolicy ==
    app.failures = {} /\ app.running /\ ~app.suspended /\ ~app.recovering
        => app.visible = Resolve(app)

\* What is shown is sampled. A visible HUD is never frozen: its EC timer is armed
\* from the handler that shows it to the one that hides it, presentations failing
\* to initialise, to draw or to find a buffer in between. And where the platform
\* does what it is asked, nothing is sampled for a hidden HUD, in the gate or out
\* of it.
NoFrozenHud ==
    app.failures \cap {"show", "hide"} = {} =>
        /\ app.visible => app.sampling
        /\ app.sampling <=> "ec" \in app.timers
SampledAsShown ==
    /\ NoFrozenHud
    /\ app.failures = {} => (app.sampling <=> app.visible)

\* The gate of a resume recovery cannot be left closed: its retry timer is
\* armed exactly while it is running, and a suspend ends it.
RecoveryIsDriven ==
    /\ app.recovering <=> "resume" \in app.timers
    /\ app.recovering => ~app.suspended
    /\ ~app.recovering => app.attempts = 0

\* After a failed change and its rollback, a live presentation is the one the
\* settings describe: same options, same opacity.
PresentationMatchesSettings ==
    app.pres = "live" => app.built = app.option /\ app.layered = app.opacity

\* A restart brings back what the user chose: options and mode are saved as
\* they are, and an enabled HUD is saved as enabled.  (A previewed opacity is
\* not.)
SettingsArePersisted ==
    app.running =>
        /\ app.saved.option = app.option
        /\ app.saved.mode = app.mode
        /\ app.enabled => app.saved.enabled

\* README.md:75, "Always keeps the HUD visible without depending on game
\* detection": in Always mode, with no F8 override and outside the gate, a HUD
\* whose presentation is initialised is on the screen.
AlwaysKeepsHudVisible ==
    (/\ app.enabled /\ app.mode = "Always" /\ app.override = "none"
     /\ ~app.suspended /\ ~app.recovering /\ app.pres = "live")
        => app.visible

\* A foreground change outside the gate leaves a live presentation shown exactly
\* when the policy asks for it (where making it visible does not fail), whatever a
\* recovery that was given up, a failed frame or a lost device left behind.
ForegroundSettles ==
    [][(/\ ForegroundMessage
        /\ app.failures \cap {"show", "hide"} = {}
        /\ ~app'.suspended /\ ~app'.recovering /\ app'.pres = "live")
          => app'.visible = Resolve(app')]_app

\* Every recovery ends: presented, superseded by a suspend, or given up.  One
\* that was given up may leave the HUD hidden against the policy, but no longer
\* than until the next foreground change.
RecoveryEnds ==
    /\ app.recovering ~> ~app.recovering
    /\ ForegroundSettles

\* The policy and the screen agree, in both directions, around a gate that cannot
\* stay closed; the state is well formed, its attempts bounded.
HudFollowsPolicy == TypeOK /\ RecoveryIsDriven /\ ShownOnlyByPolicy /\ ShownByPolicy

\* A change of a setting, its failure and its rollback leave memory, the live
\* presentation and settings.ini in agreement.
ChangeIsWhole == PresentationMatchesSettings /\ SettingsArePersisted
=============================================================================
