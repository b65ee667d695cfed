------------------------- MODULE HudLifecycleProofs -------------------------
(***************************************************************************)
(* The HUD of the runtime, for any options, opacities, number of attempts  *)
(* and any machine on which anything may fail.                             *)
(*                                                                         *)
(* A handler is a composition of operators on the state, so the proof is   *)
(* one of sequential programs: every operator has a lemma that says what   *)
(* holds of the states it can leave behind, and a handler's lemma cites    *)
(* those of the operators it calls, in the order it calls them.            *)
(***************************************************************************)
EXTENDS HudLifecycle, TLAPS

\* States, but for the attempts: a recovery counts the attempt it makes before
\* it looks at the bound.
Wide ==
    [failures: Platforms, running: BOOLEAN,
     enabled: BOOLEAN, override: {"none", "show", "hide"}, mode: Modes,
     option: Options, opacity: Opacities,
     pres: Presentations, visible: BOOLEAN, displayChanged: BOOLEAN,
     built: Options, layered: Opacities,
     suspended: BOOLEAN, recovering: BOOLEAN, attempts: Nat,
     game: BOOLEAN, sampling: BOOLEAN, ec: BOOLEAN,
     timers: SUBSET TimerIds, ticks: SUBSET TimerIds,
     saved: [enabled: BOOLEAN, mode: Modes, option: Options, opacity: Opacities]]

Gated(s) == s.suspended \/ s.recovering

-----------------------------------------------------------------------------
(* What every operator leaves behind.                                      *)

\* What the operators below a handler leave alone: the settings, the gate, the
\* queue and what is saved.  A presentation can only be lost, and only where one
\* can fail to initialise.
Steady(s, t) ==
    /\ t \in Wide
    /\ t.failures = s.failures /\ t.running = s.running /\ t.enabled = s.enabled
    /\ t.override = s.override /\ t.mode = s.mode /\ t.option = s.option
    /\ t.opacity = s.opacity /\ t.built = s.built /\ t.layered = s.layered
    /\ t.suspended = s.suspended /\ t.recovering = s.recovering
    /\ t.attempts = s.attempts /\ t.ticks = s.ticks /\ t.saved = s.saved
    /\ "resume" \in t.timers <=> "resume" \in s.timers
    /\ t.pres = s.pres \/ (s.pres = "live" /\ t.pres = "dead" /\ "init" \in s.failures)

\* Only what is on the screen has changed, and only by failing.
Screen(s, t) ==
    /\ Steady(s, t)
    /\ t.game = s.game /\ t.sampling = s.sampling /\ t.ec = s.ec /\ t.timers = s.timers
    /\ t.visible => t.pres = "live"

\* Nothing is shown that was not, and what is no longer shown has lost its
\* presentation or failed to show.
Paint(s, t) ==
    /\ t.visible => s.visible
    /\ "show" \notin s.failures => t.visible = s.visible \/ t.pres # "live"

LEMMA SteadyTransitive ==
    ASSUME NEW s, NEW t, NEW u, Steady(s, t), Steady(t, u)
    PROVE  Steady(s, u)
BY DEF Steady

LEMMA SteadyReflexive ==
    ASSUME NEW s \in Wide
    PROVE  Steady(s, s)
BY DEF Steady

LEMMA RefreshLeaves ==
    ASSUME NEW s \in Wide, s.pres = "live", NEW r \in RefreshDisplayIfNeeded(s)
    PROVE  /\ Screen(s, r.app) /\ Paint(s, r.app)
           /\ r.ok \in BOOLEAN
           /\ r.ok => r.app.visible = s.visible /\ r.app.pres = "live"
           /\ ~r.ok => r.app.pres = "dead" \/ "show" \in s.failures
           /\ ~r.ok => ~r.app.visible
<1> DEFINE up == [s EXCEPT !.visible = FALSE, !.displayChanged = FALSE]
<1>1. /\ Screen(s, up) /\ up.pres = "live" /\ up.visible = FALSE
  BY DEF Wide, Screen, Steady
<1>2. CASE ~s.displayChanged
  <2>1. r = Ok(s)
    BY <1>2 DEF RefreshDisplayIfNeeded
  <2> QED BY <2>1 DEF Ok, Wide, Steady, Screen, Paint
<1>3. CASE s.displayChanged
  <2>1. \/ "init" \in s.failures /\ r = Failed([up EXCEPT !.pres = "dead"])
        \/ s.visible /\ r = Ok([up EXCEPT !.visible = TRUE])
        \/ "show" \in s.failures /\ r = Failed(up)
        \/ ~s.visible /\ r = Ok(up)
    BY <1>3 DEF RefreshDisplayIfNeeded, MayFail
  <2> HIDE DEF up
  <2> DEFINE dead == [up EXCEPT !.pres = "dead"]
             shown == [up EXCEPT !.visible = TRUE]
  <2>2. "init" \in s.failures => Screen(s, dead) /\ dead.pres = "dead" /\ ~dead.visible
    BY <1>1 DEF Screen, Steady, Wide, Presentations
  <2>3. Screen(s, shown) /\ shown.visible /\ shown.pres = "live"
    BY <1>1 DEF Screen, Steady, Wide
  <2>4. CASE "init" \in s.failures /\ r = Failed(dead)
    BY <2>2, <2>4 DEF Failed, Paint
  <2>5. CASE s.visible /\ r = Ok(shown)
    <3> HIDE DEF shown
    <3> QED BY <2>3, <2>5 DEF Ok, Paint, Wide
  <2>6. CASE "show" \in s.failures /\ r = Failed(up)
    BY <1>1, <2>6 DEF Failed, Paint
  <2>7. CASE ~s.visible /\ r = Ok(up)
    BY <1>1, <2>7 DEF Ok, Paint, Wide
  <2> QED BY <2>1, <2>4, <2>5, <2>6, <2>7
<1> QED BY <1>2, <1>3

LEMMA ShowLeaves ==
    ASSUME NEW s \in Wide, s.visible => s.pres = "live", NEW r \in ShowPresentation(s)
    PROVE  /\ Screen(s, r.app)
           /\ r.ok \in BOOLEAN
           /\ r.ok => r.app.visible /\ r.app.pres = "live"
           /\ ~r.ok /\ "show" \notin s.failures => ~r.app.visible /\ r.app.pres # "live"
<1>1. CASE s.pres # "live"
  <2>1. r = Failed(s)
    BY <1>1 DEF ShowPresentation
  <2> QED BY <1>1, <2>1 DEF Failed, Screen, Steady, Wide
<1>2. CASE s.pres = "live"
  <2>1. PICK q \in RefreshDisplayIfNeeded(s) :
               \/ q.ok /\ r = Ok([q.app EXCEPT !.visible = TRUE])
               \/ q.ok /\ "show" \in s.failures /\ r = Failed(q.app)
               \/ ~q.ok /\ r = q
    <3>1. PICK q \in RefreshDisplayIfNeeded(s) :
                 r \in IF q.ok
                         THEN {Ok([q.app EXCEPT !.visible = TRUE])}
                              \cup MayFail(s, "show", {Failed(q.app)})
                         ELSE {q}
      BY <1>2 DEF ShowPresentation
    <3> QED BY <3>1 DEF MayFail
  <2>2. /\ Screen(s, q.app) /\ Paint(s, q.app)
        /\ q.ok \in BOOLEAN
        /\ q.ok => q.app.visible = s.visible /\ q.app.pres = "live"
        /\ ~q.ok => q.app.pres = "dead" \/ "show" \in s.failures
        /\ ~q.ok => ~q.app.visible
    BY <1>2, RefreshLeaves
  <2> DEFINE u == q.app
             shown == [u EXCEPT !.visible = TRUE]
  <2> HIDE DEF u
  <2>3. Screen(s, u) /\ u.pres = "live" => Screen(s, shown) /\ shown.visible /\ shown.pres = "live"
    BY DEF Screen, Steady, Wide
  <2> HIDE DEF shown
  <2>4. CASE q.ok /\ r = Ok(shown)
    BY <2>2, <2>3, <2>4 DEF Ok, u
  <2>5. CASE q.ok /\ "show" \in s.failures /\ r = Failed(q.app)
    BY <2>2, <2>5 DEF Failed
  <2>6. CASE ~q.ok /\ r = q
    BY <2>2, <2>6
  <2> QED BY <2>1, <2>4, <2>5, <2>6 DEF shown, u
<1> QED BY <1>1, <1>2

LEMMA HideLeaves ==
    ASSUME NEW s \in Wide, s.visible => s.pres = "live", NEW t \in HidePresentation(s)
    PROVE  /\ Screen(s, t) /\ t.pres = s.pres
           /\ t.visible => s.visible /\ "hide" \in s.failures
<1>1. t = [s EXCEPT !.visible = FALSE] \/ (s.visible /\ "hide" \in s.failures /\ t = s)
  BY DEF HidePresentation, MayFail
<1>2. CASE t = [s EXCEPT !.visible = FALSE]
  BY <1>2 DEF Screen, Steady, Wide
<1>3. CASE s.visible /\ "hide" \in s.failures /\ t = s
  BY <1>3 DEF Screen, Steady
<1> QED BY <1>1, <1>2, <1>3

LEMMA RenderLeaves ==
    ASSUME NEW s \in Wide, s.visible => s.pres = "live", NEW t \in Render(s)
    PROVE  Screen(s, t) /\ Paint(s, t)
<1>1. CASE s.enabled /\ s.visible
  <2>1. PICK r \in RefreshDisplayIfNeeded(s) : t = r.app
    BY <1>1 DEF Render
  <2> QED BY <1>1, <2>1, RefreshLeaves
<1>2. CASE ~(s.enabled /\ s.visible)
  <2>1. t = s
    BY <1>2 DEF Render
  <2> QED BY <2>1 DEF Screen, Steady, Paint
<1> QED BY <1>1, <1>2

-----------------------------------------------------------------------------
(* Sampling.                                                               *)

\* What holds before and after every operator below a handler: the two flags
\* that say the same of the EC timer agree, a disabled HUD samples nothing, and
\* on a machine on which nothing fails the gate keeps the HUD dark and every
\* enabled HUD has its presentation.
Calm(s) ==
    /\ s \in Wide
    /\ s.visible => s.pres = "live"
    /\ s.sampling <=> "ec" \in s.timers
    /\ ~s.enabled => ~s.sampling /\ ~s.ec /\ s.timers \subseteq {"resume"}
    /\ s.failures = {} /\ Gated(s) => ~s.visible /\ ~s.sampling
Ready(s) ==
    /\ Calm(s)
    /\ s.failures = {} /\ s.enabled => s.pres = "live"

\* A run of operators from s to t.
Runs(s, t) ==
    /\ Steady(s, t)
    /\ Ready(t)
    /\ ~s.enabled /\ t.visible => s.visible

LEMMA RunsTransitive ==
    ASSUME NEW s, NEW t, NEW u, Runs(s, t), Runs(t, u)
    PROVE  Runs(s, u)
<1>1. Steady(s, u)
  BY SteadyTransitive DEF Runs
<1>2. t.enabled = s.enabled
  BY DEF Runs, Steady
<1> QED BY <1>1, <1>2 DEF Runs

LEMMA RunsReflexive ==
    ASSUME NEW s, Ready(s)
    PROVE  Runs(s, s)
BY SteadyReflexive DEF Runs, Ready, Calm

LEMMA ScreenRuns ==
    ASSUME NEW s, NEW t, Ready(s), Screen(s, t), Gated(s) \/ ~s.enabled => (t.visible => s.visible)
    PROVE  Runs(s, t)
BY DEF Runs, Ready, Calm, Screen, Steady, Gated

\* A sampling timer more for an enabled HUD.
Samples(s, t) ==
    /\ Runs(s, t) /\ Paint(s, t)
    /\ t.game = s.game
    /\ s.sampling => t.sampling

LEMMA StartBaseLeaves ==
    ASSUME NEW s, Ready(s), s.enabled, s.visible, NEW t \in BaseSamplingStarted(s)
    PROVE  Samples(s, t) /\ t.sampling
<1>1. CASE s.sampling
  <2>1. t = s
    BY <1>1 DEF BaseSamplingStarted
  <2> QED BY <1>1, <2>1, RunsReflexive DEF Samples, Paint
<1>2. CASE ~s.sampling
  <2> DEFINE a == [s EXCEPT !.sampling = TRUE]
             b == [a EXCEPT !.ec = TRUE]
  <2>1. PICK c \in Render(b) : t \in Render([c EXCEPT !.timers = @ \cup {"ec"}])
    BY <1>2 DEF BaseSamplingStarted, SystemEcSampled
  <2>2. /\ Steady(s, b) /\ b.sampling /\ b.game = s.game /\ b.visible = s.visible
        /\ b.timers = s.timers /\ b.pres = s.pres
    BY DEF Ready, Calm, Steady, Wide
  <2> HIDE DEF b
  <2>3. Screen(b, c) /\ Paint(b, c)
    BY <2>1, <2>2, RenderLeaves DEF Ready, Calm, Steady
  <2> DEFINE e == [c EXCEPT !.timers = @ \cup {"ec"}]
  <2>4. /\ Steady(c, e) /\ e.sampling = c.sampling /\ e.game = c.game /\ e.visible = c.visible
        /\ "ec" \in e.timers /\ e.pres = c.pres
    BY <2>3 DEF Screen, Steady, Wide, TimerIds
  <2> HIDE DEF e
  <2>5. Screen(e, t) /\ Paint(e, t)
    <3>1. t \in Render(e)
      BY <2>1 DEF e
    <3>2. e \in Wide /\ (e.visible => e.pres = "live")
      BY <2>3, <2>4 DEF Screen, Steady
    <3> QED BY <3>1, <3>2, RenderLeaves
  <2>6. Steady(s, t)
    BY <2>2, <2>3, <2>4, <2>5, SteadyTransitive DEF Screen
  <2>7. /\ t.sampling /\ "ec" \in t.timers /\ t.game = s.game
        /\ t.visible => t.pres = "live"
        /\ b.failures = s.failures /\ c.failures = s.failures /\ e.failures = s.failures
    BY <2>2, <2>3, <2>4, <2>5 DEF Screen, Steady
  <2>8. Paint(s, t)
    <3>1. t.pres = c.pres \/ c.pres = "live"
      BY <2>4, <2>5 DEF Screen, Steady
    <3> QED BY <3>1, <2>2, <2>3, <2>4, <2>5, <2>7 DEF Paint
  <2>9. Ready(t)
    BY <2>6, <2>7, <2>8 DEF Ready, Calm, Steady, Paint, Gated
  <2> QED BY <2>6, <2>7, <2>8, <2>9, <1>2 DEF Samples, Runs
<1> QED BY <1>1, <1>2

LEMMA StartFpsLeaves ==
    ASSUME NEW s, Ready(s), s.enabled, NEW t \in StartFpsSampling(s)
    PROVE  Samples(s, t) /\ t.sampling = s.sampling
<1>1. CASE t = s
  BY <1>1, RunsReflexive DEF Samples, Paint
<1>2. CASE t # s
  <2>1. PICK c \in FpsSampled(s) : t = [c EXCEPT !.timers = @ \cup {"fps"}]
    BY <1>2 DEF StartFpsSampling
  <2>2. Screen(s, c) /\ Paint(s, c)
    BY RenderLeaves DEF FpsSampled, Screen, Steady, Paint, Ready, Calm
  <2>3. /\ Steady(c, t) /\ t.sampling = c.sampling /\ t.game = c.game /\ t.visible = c.visible
        /\ "ec" \in t.timers <=> "ec" \in c.timers
        /\ t.pres = c.pres
    BY <2>1, <2>2 DEF Screen, Steady, Wide, TimerIds
  <2>4. Steady(s, t)
    BY <2>2, <2>3, SteadyTransitive DEF Screen
  <2>5. Paint(s, t) /\ t.sampling = s.sampling /\ t.game = s.game
    BY <2>2, <2>3 DEF Paint, Screen
  <2>6. Ready(t)
    BY <2>2, <2>3, <2>4, <2>5 DEF Ready, Calm, Screen, Steady, Paint, Gated
  <2> QED BY <2>4, <2>5, <2>6 DEF Samples, Runs
<1> QED BY <1>1, <1>2

-----------------------------------------------------------------------------
(* The policy.                                                             *)

\* What a reconciliation achieves: the screen and the sampling are those the
\* policy asks for, as far as the machine lets them be.
OnlyByPolicy(s) ==
    s.visible => (Resolve(s) /\ ~Gated(s)) \/ "hide" \in s.failures
Fits(s) ==
    s.failures \cap {"show", "hide"} = {} /\ ~Gated(s) /\ s.pres = "live"
        => s.visible = Resolve(s)
SampledWhenShown(s) ==
    /\ s.failures \cap {"show", "hide"} = {} /\ s.visible => s.sampling
    /\ s.failures = {} /\ s.sampling => s.visible
Settled(s) == OnlyByPolicy(s) /\ Fits(s) /\ SampledWhenShown(s)

\* The policy does not look at what an operator below a handler changes, except
\* the game.
LEMMA SamePolicy ==
    ASSUME NEW s, NEW t, Steady(s, t), t.game = s.game
    PROVE  (Resolve(t) <=> Resolve(s)) /\ (Gated(t) <=> Gated(s)) /\ t.failures = s.failures
BY DEF Resolve, Gated, Steady

LEMMA SamplesKeepsSettled ==
    ASSUME NEW s, NEW t, Samples(s, t), t.sampling = s.sampling, Ready(s), Settled(s)
    PROVE  Settled(t)
<1>1. Steady(s, t) /\ Paint(s, t) /\ Ready(t) /\ t.game = s.game
  BY DEF Samples, Runs
<1>2. (Resolve(t) <=> Resolve(s)) /\ (Gated(t) <=> Gated(s)) /\ t.failures = s.failures
  BY <1>1, SamePolicy
<1>3. t.pres = "live" => s.pres = "live"
  BY <1>1 DEF Steady
<1>4. t.visible \in BOOLEAN /\ Resolve(t) \in BOOLEAN /\ s.visible \in BOOLEAN
  BY <1>1 DEF Ready, Calm, Wide, Resolve
<1>5. s.failures = {} => t.visible = s.visible
  BY <1>1, <1>4 DEF Paint, Ready, Calm, Steady
<1> QED BY <1>1, <1>2, <1>3, <1>4, <1>5 DEF Settled, OnlyByPolicy, Fits, SampledWhenShown, Paint

LEMMA SamplingSettles ==
    ASSUME NEW s, NEW t, Samples(s, t), t.sampling, Ready(s), s.visible, Resolve(s), ~Gated(s)
    PROVE  Settled(t)
<1>1. Steady(s, t) /\ Paint(s, t) /\ Ready(t) /\ t.game = s.game
  BY DEF Samples, Runs
<1>2. (Resolve(t) <=> Resolve(s)) /\ (Gated(t) <=> Gated(s)) /\ t.failures = s.failures
  BY <1>1, SamePolicy
<1>3. t.visible \in BOOLEAN /\ Resolve(t) \in BOOLEAN /\ s.visible \in BOOLEAN
  BY <1>1 DEF Ready, Calm, Wide, Resolve
<1>4. s.failures = {} => t.visible
  BY <1>1, <1>3 DEF Paint, Ready, Calm, Steady
<1> QED BY <1>1, <1>2, <1>3, <1>4 DEF Settled, OnlyByPolicy, Fits, SampledWhenShown, Paint

LEMMA StartWithGameLeaves ==
    ASSUME NEW s, Ready(s), s.enabled, NEW t \in StartSamplingWithGame(s)
    PROVE  /\ Samples(s, t)
           /\ s.visible /\ Resolve(s) /\ ~Gated(s) => Settled(t)
<1>1. CASE s.suspended \/ ~s.visible
  <2>1. t = s
    BY <1>1 DEF StartSamplingWithGame
  <2> QED BY <1>1, <2>1, RunsReflexive DEF Samples, Paint, Gated
<1>2. CASE ~(s.suspended \/ ~s.visible)
  <2>1. PICK u \in BaseSamplingStarted(s) : t \in StartFpsSampling(u)
    BY <1>2 DEF StartSamplingWithGame
  <2>2. Samples(s, u) /\ u.sampling
    BY <1>2, <2>1, StartBaseLeaves
  <2>3. Ready(u) /\ u.enabled
    BY <2>2 DEF Samples, Runs, Steady
  <2>4. Samples(u, t) /\ t.sampling = u.sampling
    BY <2>1, <2>3, StartFpsLeaves
  <2>5. Samples(s, t)
    <3>1. Runs(s, t)
      BY <2>2, <2>4, RunsTransitive DEF Samples
    <3>2. Paint(s, t)
      BY <2>2, <2>4 DEF Samples, Paint, Runs, Steady
    <3> QED BY <3>1, <3>2, <2>2, <2>4 DEF Samples
  <2>6. s.visible /\ Resolve(s) /\ ~Gated(s) => Settled(t)
    BY <2>2, <2>3, <2>4, SamplingSettles, SamplesKeepsSettled
  <2> QED BY <2>5, <2>6
<1> QED BY <1>1, <1>2

LEMMA HideAndStopLeaves ==
    ASSUME NEW s \in Wide, s.visible => s.pres = "live", NEW t \in HideAndStop(s)
    PROVE  /\ Steady(s, t) /\ t.pres = s.pres /\ t.game = s.game
           /\ t.visible => s.visible /\ "hide" \in s.failures
           /\ ~t.sampling /\ "ec" \notin t.timers /\ t.timers \subseteq s.timers
           /\ s.ec = t.ec
<1>1. PICK u \in HidePresentation(s) : t = StopSampling(u)
  BY DEF HideAndStop
<1>2. Screen(s, u) /\ u.pres = s.pres /\ (u.visible => s.visible /\ "hide" \in s.failures)
  BY HideLeaves
<1>3. /\ Steady(u, t) /\ t.pres = u.pres /\ t.visible = u.visible /\ t.game = u.game
      /\ ~t.sampling /\ t.timers = u.timers \ {"ec", "fps"} /\ t.ec = u.ec
  BY <1>1, <1>2 DEF StopSampling, Screen, Steady, Wide, TimerIds
<1>4. Steady(s, t)
  BY <1>2, <1>3, SteadyTransitive DEF Screen
<1> QED BY <1>2, <1>3, <1>4 DEF Screen

LEMMA HideAndStopRuns ==
    ASSUME NEW s, Ready(s), NEW t \in HideAndStop(s)
    PROVE  Runs(s, t)
<1>1. /\ Steady(s, t) /\ t.pres = s.pres /\ t.game = s.game
      /\ t.visible => s.visible /\ "hide" \in s.failures
      /\ ~t.sampling /\ "ec" \notin t.timers /\ t.timers \subseteq s.timers
      /\ s.ec = t.ec
  BY HideAndStopLeaves DEF Ready, Calm
<1> QED BY <1>1 DEF Runs, Ready, Calm, Steady, Gated

\* Behind the gate, or where the policy wants it so, the HUD is hidden.
LEMMA HiddenSettles ==
    ASSUME NEW t, Ready(t), t.visible => "hide" \in t.failures,
           Gated(t) \/ ~t.sampling, Gated(t) \/ ~Resolve(t)
    PROVE  Settled(t)
<1>1. t.visible \in BOOLEAN /\ Resolve(t) \in BOOLEAN
  BY DEF Ready, Calm, Wide, Resolve
<1> QED BY <1>1 DEF Ready, Calm, Settled, OnlyByPolicy, Fits, SampledWhenShown

LEMMA ReconcileEvaluatedSettles ==
    ASSUME NEW s, Ready(s), NEW t \in ReconcileEvaluated(s)
    PROVE  Runs(s, t) /\ t.game = s.game /\ Settled(t)
<1>0. s \in Wide /\ (s.visible => s.pres = "live") /\ s.visible \in BOOLEAN /\ Resolve(s) \in BOOLEAN
  BY DEF Ready, Calm, Wide, Resolve
<1>1. CASE s.pres = "none"
  <2>1. t = s
    BY <1>1 DEF ReconcileEvaluated
  <2>2. ~s.visible /\ (s.failures = {} => ~s.sampling)
    BY <1>0, <1>1 DEF Ready, Calm
  <2>3. Settled(t)
    BY <1>1, <2>1, <2>2 DEF Settled, OnlyByPolicy, Fits, SampledWhenShown
  <2> QED BY <2>1, <2>3, RunsReflexive
<1>2. CASE s.pres # "none" /\ Gated(s)
  <2>1. t \in HidePresentation(s)
    BY <1>2 DEF ReconcileEvaluated, Gated
  <2>2. Screen(s, t) /\ (t.visible => s.visible /\ "hide" \in s.failures)
    BY <1>0, <2>1, HideLeaves
  <2>3. Runs(s, t)
    BY <2>2, ScreenRuns
  <2>4. Gated(t) /\ t.failures = s.failures
    BY <1>2, <2>2, SamePolicy DEF Screen
  <2>5. Settled(t)
    BY <2>2, <2>3, <2>4, HiddenSettles DEF Runs
  <2> QED BY <2>2, <2>3, <2>5 DEF Screen
<1>3. CASE s.pres # "none" /\ ~Gated(s) /\ Resolve(s)
  <2>0. s.enabled
    BY <1>3 DEF Resolve
  <2>1. PICK r \in ShowPresentation(s) : t \in IF r.ok THEN StartSamplingWithGame(r.app) ELSE {r.app}
    BY <1>3 DEF ReconcileEvaluated, Gated
  <2> DEFINE u == r.app
  <2>2. /\ Screen(s, u)
        /\ r.ok \in BOOLEAN
        /\ r.ok => u.visible /\ u.pres = "live"
        /\ ~r.ok /\ "show" \notin s.failures => ~u.visible /\ u.pres # "live"
    BY <1>0, <2>1, ShowLeaves
  <2> HIDE DEF u
  <2>3. Runs(s, u)
    BY <1>3, <2>0, <2>2, ScreenRuns
  <2>4. /\ Resolve(u) /\ ~Gated(u) /\ u.failures = s.failures /\ u.enabled /\ u.game = s.game
        /\ Ready(u)
    BY <1>3, <2>2, <2>3, <2>0, SamePolicy DEF Screen, Steady, Runs
  <2>5. CASE r.ok
    <3>1. t \in StartSamplingWithGame(u)
      BY <2>1, <2>5 DEF u
    <3>2. Samples(u, t) /\ Settled(t)
      BY <2>2, <2>4, <2>5, <3>1, StartWithGameLeaves
    <3> QED BY <2>3, <2>4, <3>2, RunsTransitive DEF Samples
  <2>6. CASE ~r.ok
    <3>1. t = u
      BY <2>1, <2>6 DEF u
    <3>2. Settled(u)
      <4>1. s.failures = {} => ~u.sampling
        BY <2>2, <2>3, <2>4, <2>6 DEF Ready, Calm
      <4> QED BY <2>2, <2>4, <2>6, <4>1 DEF Settled, OnlyByPolicy, Fits, SampledWhenShown
    <3> QED BY <2>3, <2>4, <3>1, <3>2
  <2> QED BY <2>2, <2>5, <2>6
<1>4. CASE s.pres # "none" /\ ~Gated(s) /\ ~Resolve(s)
  <2>1. t \in HideAndStop(s)
    BY <1>4 DEF ReconcileEvaluated, Gated
  <2>2. Runs(s, t)
    BY <2>1, HideAndStopRuns
  <2>3. t.game = s.game /\ (t.visible => "hide" \in s.failures) /\ ~t.sampling /\ Steady(s, t)
    BY <1>0, <2>1, HideAndStopLeaves
  <2>4. ~Resolve(t) /\ t.failures = s.failures
    BY <1>4, <2>3, SamePolicy
  <2>5. Settled(t)
    BY <2>2, <2>3, <2>4, HiddenSettles DEF Runs
  <2> QED BY <2>2, <2>3, <2>5
<1> QED BY <1>0, <1>1, <1>2, <1>3, <1>4

\* What game detection calls back leaves the state as it was, or reconciled.
Reconciled(s, t) ==
    /\ Runs(s, t)
    /\ t = s \/ Settled(t)

LEMMA ReconciledTransitive ==
    ASSUME NEW s, NEW t, NEW u, Reconciled(s, t), Reconciled(t, u)
    PROVE  Reconciled(s, u)
BY RunsTransitive DEF Reconciled

LEMMA GameChanges ==
    ASSUME NEW s, Ready(s), NEW g \in BOOLEAN
    PROVE  LET t == [s EXCEPT !.game = g]
           IN  Runs(s, t) /\ t.game = g /\ t.visible = s.visible
BY DEF Runs, Steady, Ready, Calm, Wide, Gated

LEMMA TargetSetSettles ==
    ASSUME NEW s, Ready(s), s.enabled, NEW t \in TargetSet(s)
    PROVE  Runs(s, t) /\ Settled(t)
<1> DEFINE g == [s EXCEPT !.game = TRUE]
<1>1. PICK u \in StartSamplingWithGame(g) : t \in ReconcileEvaluated(u)
  BY DEF TargetSet
<1>2. Runs(s, g)
  BY GameChanges
<1> HIDE DEF g
<1>3. Ready(g) /\ g.enabled
  BY <1>2 DEF Runs, Steady
<1>4. Runs(g, u)
  BY <1>1, <1>3, StartWithGameLeaves DEF Samples
<1>5. Runs(u, t) /\ Settled(t)
  BY <1>1, <1>4, ReconcileEvaluatedSettles DEF Runs
<1> QED BY <1>2, <1>4, <1>5, RunsTransitive

LEMMA TargetClearedSettles ==
    ASSUME NEW s, Ready(s), NEW t \in TargetCleared(s)
    PROVE  Runs(s, t) /\ Settled(t)
<1> DEFINE g == [s EXCEPT !.game = FALSE]
<1>1. t \in ReconcileEvaluated(g)
  BY DEF TargetCleared
<1>2. Runs(s, g)
  BY GameChanges
<1> HIDE DEF g
<1> QED BY <1>1, <1>2, ReconcileEvaluatedSettles, RunsTransitive DEF Runs

LEMMA EvaluateSettles ==
    ASSUME NEW s, Ready(s), NEW t \in Evaluate(s)
    PROVE  Reconciled(s, t) /\ (t = s \/ s.enabled)
<1>1. t = s \/ (s.enabled /\ (t \in TargetSet(s) \/ t \in TargetCleared(s)))
  BY DEF Evaluate
<1> QED BY <1>1, RunsReflexive, TargetSetSettles, TargetClearedSettles DEF Reconciled

LEMMA EnsureSettles ==
    ASSUME NEW s, Ready(s), NEW t \in EnsureRenderVerification(s)
    PROVE  Reconciled(s, t)
<1>1. t = s \/ (s.enabled /\ t \in TargetSet(s))
  BY DEF EnsureRenderVerification
<1> QED BY <1>1, RunsReflexive, TargetSetSettles DEF Reconciled

LEMMA StartProductionSettles ==
    ASSUME NEW s, Ready(s), s.visible, Resolve(s), ~Gated(s), NEW t \in StartProductionSampling(s)
    PROVE  Runs(s, t) /\ Settled(t)
<1>0. s.enabled
  BY DEF Resolve
<1>a. PICK v \in BaseSamplingStarted(s) :
             t \in UNION {StartFpsSampling(u) : u \in EnsureRenderVerification(v)}
  BY DEF StartProductionSampling, Gated
<1>1. PICK u \in EnsureRenderVerification(v) : t \in StartFpsSampling(u)
  BY <1>a
<1>2. Samples(s, v) /\ v.sampling
  BY <1>0, <1>a, StartBaseLeaves
<1>3. Settled(v) /\ Ready(v)
  BY <1>2, SamplingSettles DEF Samples, Runs
<1>4. Runs(v, u) /\ Settled(u)
  BY <1>1, <1>3, EnsureSettles DEF Reconciled
<1>5. Ready(u) /\ u.enabled
  BY <1>0, <1>2, <1>4 DEF Samples, Runs, Steady
<1>6. Samples(u, t) /\ t.sampling = u.sampling
  BY <1>1, <1>5, StartFpsLeaves
<1>7. Settled(t)
  BY <1>4, <1>5, <1>6, SamplesKeepsSettled
<1>8. Runs(s, v) /\ Runs(v, u) /\ Runs(u, t)
  BY <1>2, <1>4, <1>6 DEF Samples
<1> QED BY <1>7, <1>8, RunsTransitive

LEMMA ReconcileRevalidatedSettles ==
    ASSUME NEW s, Ready(s), ~Gated(s), NEW t \in ReconcileRevalidated(s)
    PROVE  Runs(s, t) /\ Settled(t)
<1>0. s \in Wide /\ (s.visible => s.pres = "live") /\ Resolve(s) \in BOOLEAN
  BY DEF Ready, Calm, Wide, Resolve
<1>1. CASE Resolve(s)
  <2>0. s.enabled
    BY <1>1 DEF Resolve
  <2>1. PICK r \in ShowPresentation(s) : t \in IF r.ok THEN StartProductionSampling(r.app) ELSE {r.app}
    BY <1>1 DEF ReconcileRevalidated
  <2> DEFINE u == r.app
  <2>2. /\ Screen(s, u)
        /\ r.ok \in BOOLEAN
        /\ r.ok => u.visible /\ u.pres = "live"
        /\ ~r.ok /\ "show" \notin s.failures => ~u.visible /\ u.pres # "live"
    BY <1>0, <2>1, ShowLeaves
  <2> HIDE DEF u
  <2>3. Runs(s, u)
    BY <2>0, <2>2, ScreenRuns
  <2>4. /\ Resolve(u) /\ ~Gated(u) /\ u.failures = s.failures /\ u.enabled
        /\ Ready(u)
    BY <1>1, <2>2, <2>3, <2>0, SamePolicy DEF Screen, Steady, Runs
  <2>5. CASE r.ok
    <3>1. t \in StartProductionSampling(u)
      BY <2>1, <2>5 DEF u
    <3>2. Runs(u, t) /\ Settled(t)
      BY <2>2, <2>4, <2>5, <3>1, StartProductionSettles
    <3> QED BY <2>3, <3>2, RunsTransitive
  <2>6. CASE ~r.ok
    <3>1. t = u
      BY <2>1, <2>6 DEF u
    <3>2. Settled(u)
      <4>1. s.failures = {} => ~u.sampling
        BY <2>2, <2>3, <2>4, <2>6 DEF Ready, Calm
      <4> QED BY <2>2, <2>4, <2>6, <4>1 DEF Settled, OnlyByPolicy, Fits, SampledWhenShown
    <3> QED BY <2>3, <3>1, <3>2
  <2> QED BY <2>2, <2>5, <2>6
<1>2. CASE ~Resolve(s)
  <2>1. t \in HideAndStop(s)
    BY <1>2 DEF ReconcileRevalidated
  <2>2. Runs(s, t)
    BY <2>1, HideAndStopRuns
  <2>3. t.game = s.game /\ (t.visible => "hide" \in s.failures) /\ ~t.sampling /\ Steady(s, t)
    BY <1>0, <2>1, HideAndStopLeaves
  <2>4. ~Resolve(t) /\ t.failures = s.failures
    BY <1>2, <2>3, SamePolicy
  <2>5. Settled(t)
    BY <2>2, <2>3, <2>4, HiddenSettles DEF Runs
  <2> QED BY <2>2, <2>5
<1> QED BY <1>0, <1>1, <1>2

LEMMA ReconcileSettles ==
    ASSUME NEW s, Ready(s), NEW t \in ReconcileHudVisibility(s)
    PROVE  Runs(s, t) /\ Settled(t)
<1>1. CASE s.pres = "none" \/ Gated(s)
  <2>1. t \in ReconcileEvaluated(s)
    BY <1>1 DEF ReconcileHudVisibility, Gated
  <2> QED BY <2>1, ReconcileEvaluatedSettles
<1>2. CASE ~(s.pres = "none" \/ Gated(s))
  <2>1. PICK u \in Revalidate(s) : t \in ReconcileRevalidated(u)
    BY <1>2 DEF ReconcileHudVisibility, Gated
  <2>2. Runs(s, u)
    BY <2>1, EvaluateSettles, RunsReflexive DEF Revalidate, Reconciled
  <2>3. Ready(u) /\ ~Gated(u)
    BY <1>2, <2>2 DEF Runs, Steady, Gated
  <2> QED BY <2>1, <2>2, <2>3, ReconcileRevalidatedSettles, RunsTransitive
<1> QED BY <1>1, <1>2

LEMMA RenderRuns ==
    ASSUME NEW s, Ready(s), NEW t \in Render(s)
    PROVE  Runs(s, t)
<1>1. Screen(s, t) /\ Paint(s, t)
  BY RenderLeaves DEF Ready, Calm
<1> QED BY <1>1, ScreenRuns DEF Paint

LEMMA ForegroundChangedSettles ==
    ASSUME NEW s, Ready(s), NEW t \in ForegroundChanged(s)
    PROVE  Runs(s, t) /\ Settled(t)
<1>a. PICK u \in {s} \cup Render(s) : t \in UNION {Evaluate(v) : v \in ReconcileHudVisibility(u)}
  BY DEF ForegroundChanged
<1>1. PICK v \in ReconcileHudVisibility(u) : t \in Evaluate(v)
  BY <1>a
<1>2. Runs(s, u)
  BY <1>a, RenderRuns, RunsReflexive
<1>3. Runs(u, v) /\ Settled(v)
  BY <1>1, <1>2, ReconcileSettles DEF Runs
<1>4. Reconciled(v, t)
  BY <1>1, <1>3, EvaluateSettles DEF Runs
<1> QED BY <1>2, <1>3, <1>4, RunsTransitive DEF Reconciled

-----------------------------------------------------------------------------
(* The state between two handlers.                                         *)

Matches(s) == s.pres = "live" => s.built = s.option /\ s.layered = s.opacity

\* What a run of operators keeps: a disabled HUD stays dark, and memory, the
\* live presentation and settings.ini agree.
Fixed(s) ==
    /\ ~s.enabled => ~s.visible
    /\ Matches(s)
    /\ s.running =>
         /\ s.saved.option = s.option /\ s.saved.mode = s.mode
         /\ s.enabled => s.saved.enabled

ByPolicy(s) ==
    s.failures = {} /\ s.running /\ ~Gated(s) => s.visible = Resolve(s)
Policy(s) == OnlyByPolicy(s) /\ SampledWhenShown(s) /\ ByPolicy(s)

Driven(s) ==
    /\ s.recovering <=> "resume" \in s.timers
    /\ s.recovering => ~s.suspended
    /\ ~s.recovering => s.attempts = 0
    /\ s.attempts < MaxAttempts

Sound(s) == Ready(s) /\ Fixed(s) /\ Policy(s) /\ Driven(s)

HudInv ==
    /\ Sound(app)
    /\ ~app.running => app = NotRunning(app.failures, app.saved)

LEMMA RunsKeepsFixed ==
    ASSUME NEW s, NEW t, Runs(s, t), Fixed(s)
    PROVE  Fixed(t)
BY DEF Runs, Steady, Fixed, Matches

LEMMA RunsKeepsDriven ==
    ASSUME NEW s, NEW t, Runs(s, t), Driven(s)
    PROVE  Driven(t)
BY DEF Runs, Steady, Driven

LEMMA SettledIsPolicy ==
    ASSUME NEW t, Ready(t), Settled(t)
    PROVE  Policy(t)
<1>1. t.visible \in BOOLEAN /\ Resolve(t) \in BOOLEAN
  BY DEF Ready, Calm, Wide, Resolve
<1>2. t.failures = {} /\ ~t.enabled => t.visible = Resolve(t)
  BY <1>1 DEF Settled, OnlyByPolicy, Resolve
<1>3. t.failures = {} /\ t.enabled /\ ~Gated(t) => t.visible = Resolve(t)
  BY <1>1 DEF Settled, Fits, Ready
<1> QED BY <1>2, <1>3 DEF Settled, Policy, ByPolicy

LEMMA ReconciledIsSound ==
    ASSUME NEW s, NEW t, Reconciled(s, t), Sound(s)
    PROVE  Sound(t)
BY SettledIsPolicy, RunsKeepsFixed, RunsKeepsDriven DEF Reconciled, Sound, Runs

LEMMA SettledIsSound ==
    ASSUME NEW s, NEW t, Runs(s, t), Settled(t), Fixed(s), Driven(s)
    PROVE  Sound(t)
BY SettledIsPolicy, RunsKeepsFixed, RunsKeepsDriven DEF Sound, Runs

LEMMA PaintKeepsPolicy ==
    ASSUME NEW s, NEW t, Runs(s, t), Paint(s, t), t.game = s.game, t.sampling = s.sampling,
           Ready(s), Policy(s)
    PROVE  Policy(t)
<1>1. Steady(s, t) /\ Ready(t)
  BY DEF Runs
<1>2. (Resolve(t) <=> Resolve(s)) /\ (Gated(t) <=> Gated(s)) /\ t.failures = s.failures
  BY <1>1, SamePolicy
<1>3. t.running = s.running
  BY <1>1 DEF Steady
<1>4. t.visible \in BOOLEAN /\ Resolve(t) \in BOOLEAN /\ s.visible \in BOOLEAN /\ Resolve(s) \in BOOLEAN
  BY <1>1 DEF Ready, Calm, Wide, Resolve
<1>5. s.failures = {} => t.visible = s.visible
  BY <1>1, <1>4 DEF Paint, Ready, Calm, Steady
<1>6. OnlyByPolicy(t)
  BY <1>2 DEF Policy, OnlyByPolicy, Paint
<1>7. SampledWhenShown(t)
  BY <1>2, <1>5 DEF Policy, SampledWhenShown, Paint
<1>8. ByPolicy(t)
  BY <1>2, <1>3, <1>4, <1>5 DEF Policy, ByPolicy
<1> QED BY <1>6, <1>7, <1>8 DEF Policy

-----------------------------------------------------------------------------
(* Presentations.                                                          *)

\* Only the presentation is another.
Rebuilt(s, t) ==
    /\ t \in Wide
    /\ t.failures = s.failures /\ t.running = s.running /\ t.enabled = s.enabled
    /\ t.override = s.override /\ t.mode = s.mode /\ t.option = s.option
    /\ t.opacity = s.opacity
    /\ t.suspended = s.suspended /\ t.recovering = s.recovering
    /\ t.attempts = s.attempts /\ t.ticks = s.ticks /\ t.saved = s.saved
    /\ t.game = s.game /\ t.sampling = s.sampling /\ t.ec = s.ec /\ t.timers = s.timers
    /\ t.visible => t.pres = "live"
    /\ Matches(t)

LEMMA InitializeLeaves ==
    ASSUME NEW s \in Wide, s.visible => s.pres = "live", Matches(s), NEW r \in Initialize(s)
    PROVE  /\ Rebuilt(s, r.app)
           /\ r.ok \in BOOLEAN
           /\ r.ok => r.app.pres = "live"
           /\ ~r.ok => "init" \in s.failures /\ r.app.pres = "dead"
           /\ r.app.visible => s.visible
           /\ s.pres = "live" => r.ok /\ r.app = s
           /\ s.pres # "live" => ~r.app.visible
<1>1. CASE s.pres = "live"
  <2>1. r = Ok(s)
    BY <1>1 DEF Initialize
  <2> QED BY <1>1, <2>1 DEF Ok, Rebuilt, Wide
<1>2. CASE s.pres # "live"
  <2> DEFINE down == [s EXCEPT !.pres = "dead", !.visible = FALSE, !.displayChanged = FALSE]
             up == [down EXCEPT !.pres = "live", !.built = s.option, !.layered = s.opacity]
  <2>1. r = Ok(up) \/ ("init" \in s.failures /\ r = Failed(down))
    BY <1>2 DEF Initialize, MayFail
  <2>2. Rebuilt(s, down) /\ down.pres = "dead" /\ ~down.visible
    BY DEF Rebuilt, Wide, Matches, Presentations
  <2> HIDE DEF down
  <2>3. Rebuilt(s, up) /\ up.pres = "live" /\ ~up.visible
    <3> HIDE DEF up
    <3>1. down \in Wide /\ s.option \in Options /\ s.opacity \in Opacities
      BY <2>2 DEF Rebuilt, Wide
    <3>2. /\ up \in Wide /\ up.pres = "live" /\ up.built = s.option /\ up.layered = s.opacity
          /\ \A f \in {"failures", "running", "enabled", "override", "mode", "option", "opacity",
                       "visible", "suspended", "recovering", "attempts", "ticks", "saved",
                       "game", "sampling", "ec", "timers"} : up[f] = down[f]
      BY <3>1 DEF up, Wide, Presentations
    <3> QED BY <2>2, <3>2 DEF Rebuilt, Matches
  <2> HIDE DEF up
  <2>4. CASE r = Ok(up)
    <3>1. r.ok = TRUE /\ r.app = up
      BY <2>4 DEF Ok
    <3> QED BY <1>2, <2>3, <3>1
  <2>5. CASE "init" \in s.failures /\ r = Failed(down)
    <3>1. r.ok = FALSE /\ r.app = down
      BY <2>5 DEF Failed
    <3> QED BY <1>2, <2>2, <2>5, <3>1
  <2> QED BY <2>1, <2>4, <2>5
<1> QED BY <1>1, <1>2

LEMMA RecreateLeaves ==
    ASSUME NEW s \in Wide, s.visible => s.pres = "live", NEW restore \in BOOLEAN,
           NEW r \in Recreate(s, restore)
    PROVE  /\ Rebuilt(s, r.app)
           /\ r.ok \in BOOLEAN
           /\ r.app.visible => restore
           /\ s.failures = {} => r.ok
           /\ s.failures = {} /\ s.pres = "live" => r.app.pres = "live" /\ r.app.visible = restore
<1>1. CASE s.pres = "none" \/ (s.pres = "dead" /\ ~s.enabled)
  <2>1. r = Ok(s)
    BY <1>1 DEF Recreate
  <2> QED BY <1>1, <2>1 DEF Ok, Rebuilt, Wide, Matches
<1>2. CASE ~(s.pres = "none" \/ (s.pres = "dead" /\ ~s.enabled))
  <2> DEFINE off == Shutdown(s)
  <2>1. Rebuilt(s, off) /\ off.pres # "live" /\ ~off.visible
    BY DEF Shutdown, Rebuilt, Wide, Matches, Presentations
  <2>2. PICK q \in Initialize(off) :
               \/ q.ok /\ restore /\ r = Ok([q.app EXCEPT !.visible = TRUE])
               \/ q.ok /\ restore /\ "show" \in s.failures /\ r = Failed(q.app)
               \/ ~(q.ok /\ restore) /\ r = q
    <3>1. PICK q \in Initialize(off) :
                 r \in IF q.ok /\ restore
                         THEN {Ok([q.app EXCEPT !.visible = TRUE])}
                              \cup MayFail(s, "show", {Failed(q.app)})
                         ELSE {q}
      BY <1>2 DEF Recreate, MayFail
    <3> QED BY <3>1 DEF MayFail
  <2> HIDE DEF off
  <2> DEFINE u == q.app
             shown == [u EXCEPT !.visible = TRUE]
  <2>3. /\ Rebuilt(off, u)
        /\ q.ok \in BOOLEAN
        /\ q.ok => u.pres = "live"
        /\ ~q.ok => "init" \in s.failures
        /\ ~u.visible
    BY <2>1, InitializeLeaves DEF Rebuilt
  <2> HIDE DEF u
  <2>4. Rebuilt(s, u)
    BY <2>1, <2>3 DEF Rebuilt
  <2>5. u.pres = "live" => Rebuilt(s, shown) /\ shown.visible /\ shown.pres = "live"
    BY <2>4 DEF Rebuilt, Wide, Matches
  <2> HIDE DEF shown
  <2>6. CASE q.ok /\ restore /\ r = Ok(shown)
    BY <2>3, <2>5, <2>6 DEF Ok
  <2>7. CASE q.ok /\ restore /\ "show" \in s.failures /\ r = Failed(u)
    BY <2>3, <2>4, <2>7 DEF Failed
  <2>8. CASE ~(q.ok /\ restore) /\ r = q
    <3>1. r.app = u /\ r.ok = q.ok
      BY <2>8 DEF u
    <3>2. u.visible \in BOOLEAN
      BY <2>4 DEF Rebuilt, Wide
    <3> QED BY <2>3, <2>4, <2>8, <3>1, <3>2
  <2> QED BY <2>2, <2>6, <2>7, <2>8 DEF shown, u
<1> QED BY <1>1, <1>2

-----------------------------------------------------------------------------
(* Suspend and resume.                                                     *)

LEMMA SoundShape ==
    ASSUME NEW s, Sound(s)
    PROVE  /\ s \in Wide /\ Ready(s) /\ Matches(s)
           /\ s.visible => s.pres = "live"
           /\ s.visible \in BOOLEAN /\ Resolve(s) \in BOOLEAN
BY DEF Sound, Ready, Calm, Wide, Fixed, Resolve

LEMMA SuspendIsSound ==
    ASSUME NEW s, Sound(s), NEW t \in Suspend(s)
    PROVE  Sound(t) /\ t.running = s.running
<1>1. CASE s.suspended
  BY <1>1 DEF Suspend
<1>2. CASE ~s.suspended
  <2> DEFINE a == [s EXCEPT !.suspended = TRUE]
             b == CancelResumeRecovery(a)
  <2>1. t \in HideAndStop(b)
    BY <1>2 DEF Suspend
  <2>2. /\ b \in Wide /\ b.suspended /\ ~b.recovering /\ b.attempts = 0 /\ "resume" \notin b.timers
        /\ b.timers \subseteq s.timers /\ b.visible = s.visible /\ b.pres = s.pres
        /\ b.failures = s.failures /\ b.enabled = s.enabled /\ b.ec = s.ec
        /\ b.running = s.running /\ b.built = s.built /\ b.option = s.option
        /\ b.layered = s.layered /\ b.opacity = s.opacity /\ b.saved = s.saved /\ b.mode = s.mode
    <3>1. s \in Wide
      BY SoundShape
    <3>2. /\ a \in Wide /\ a.suspended
          /\ \A f \in {"failures", "running", "enabled", "mode", "option", "opacity", "pres",
                       "visible", "built", "layered", "ec", "timers", "saved"} : a[f] = s[f]
      BY <3>1 DEF Wide
    <3> HIDE DEF a
    <3>3. /\ b \in Wide /\ ~b.recovering /\ b.attempts = 0 /\ b.timers = a.timers \ {"resume"}
          /\ \A f \in {"failures", "running", "enabled", "mode", "option", "opacity", "pres",
                       "visible", "built", "layered", "ec", "suspended", "saved"} : b[f] = a[f]
      BY <3>2 DEF CancelResumeRecovery, Wide
    <3> QED BY <3>2, <3>3
  <2> HIDE DEF b
  <2>3. /\ Steady(b, t) /\ t.pres = b.pres
        /\ t.visible => b.visible /\ "hide" \in b.failures
        /\ ~t.sampling /\ "ec" \notin t.timers /\ t.timers \subseteq b.timers
        /\ b.ec = t.ec
    BY <2>1, <2>2, SoundShape, HideAndStopLeaves
  <2>4. Ready(t)
    BY <2>2, <2>3 DEF Sound, Ready, Calm, Steady, Gated
  <2>5. Fixed(t)
    BY <2>2, <2>3 DEF Sound, Fixed, Matches, Steady
  <2>6. Gated(t)
    BY <2>2, <2>3 DEF Gated, Steady
  <2>7. Policy(t)
    BY <2>2, <2>3, <2>4, <2>6, HiddenSettles, SettledIsPolicy DEF Steady
  <2>8. Driven(t)
    BY <2>2, <2>3, MaxAttemptsAssumption DEF Driven, Steady
  <2> QED BY <2>2, <2>3, <2>4, <2>5, <2>7, <2>8 DEF Sound, Steady
<1> QED BY <1>1, <1>2

LEMMA ResumeIsSound ==
    ASSUME NEW s, Sound(s), NEW t \in Resume(s)
    PROVE  Sound(t) /\ t.running = s.running
<1>1. CASE s.recovering
  BY <1>1 DEF Resume
<1>2. CASE ~s.recovering
  <2>1. PICK u \in (IF s.suspended THEN {s} ELSE HideAndStop(s)) :
               t = [u EXCEPT !.suspended = FALSE, !.recovering = TRUE, !.attempts = 0,
                             !.timers = @ \cup {"resume"}]
    BY <1>2 DEF Resume
  <2>2. /\ Ready(u) /\ Fixed(u) /\ u.running = s.running
        /\ u.visible => "hide" \in u.failures
        /\ u.failures = {} => ~u.sampling
    <3>1. CASE s.suspended
      BY <2>1, <3>1 DEF Sound, Policy, OnlyByPolicy, Ready, Calm, Gated
    <3>2. CASE ~s.suspended
      <4>1. u \in HideAndStop(s)
        BY <2>1, <3>2
      <4>2. Runs(s, u)
        BY <4>1, SoundShape, HideAndStopRuns
      <4>3. Fixed(u)
        BY <4>2, RunsKeepsFixed DEF Sound
      <4>4. (u.visible => "hide" \in s.failures) /\ ~u.sampling
        BY <4>1, SoundShape, HideAndStopLeaves
      <4> QED BY <4>2, <4>3, <4>4 DEF Runs, Steady
    <3> QED BY <3>1, <3>2
  <2>3. /\ t \in Wide /\ ~t.suspended /\ t.recovering /\ t.attempts = 0
        /\ t.timers = u.timers \cup {"resume"} /\ t.visible = u.visible /\ t.pres = u.pres
        /\ t.failures = u.failures /\ t.enabled = u.enabled /\ t.ec = u.ec
        /\ t.running = u.running /\ t.built = u.built /\ t.option = u.option /\ t.sampling = u.sampling
        /\ t.layered = u.layered /\ t.opacity = u.opacity /\ t.saved = u.saved /\ t.mode = u.mode
    BY <2>1, <2>2 DEF Ready, Calm, Wide, TimerIds
  <2>4. u.visible \in BOOLEAN
    BY <2>2 DEF Ready, Calm, Wide
  <2>5. Ready(t)
    BY <2>2, <2>3, <2>4 DEF Ready, Calm, Gated
  <2>6. Fixed(t)
    BY <2>2, <2>3 DEF Fixed, Matches
  <2>7. Gated(t)
    BY <2>3 DEF Gated
  <2>8. Policy(t)
    BY <2>2, <2>3, <2>5, <2>7, HiddenSettles, SettledIsPolicy
  <2>9. Driven(t)
    BY <2>3, MaxAttemptsAssumption DEF Driven
  <2> QED BY <2>2, <2>3, <2>5, <2>6, <2>8, <2>9 DEF Sound
<1> QED BY <1>1, <1>2

-----------------------------------------------------------------------------
(* The recovery a resume starts.                                           *)

\* The state in the middle of an attempt: the gate is closed, and the attempt is
\* already counted.
Trying(s) ==
    /\ Ready(s) /\ Fixed(s) /\ Policy(s)
    /\ s.recovering /\ ~s.suspended /\ "resume" \in s.timers
    /\ s.attempts \in Nat /\ s.attempts <= MaxAttempts

LEMMA RunsKeepsTrying ==
    ASSUME NEW s, NEW t, Trying(s), Runs(s, t), Policy(t)
    PROVE  Trying(t) /\ t.running = s.running
<1>1. Fixed(t)
  BY RunsKeepsFixed DEF Trying
<1> QED BY <1>1 DEF Trying, Runs, Steady

LEMMA ReconciledKeepsTrying ==
    ASSUME NEW s, NEW t, Trying(s), Reconciled(s, t)
    PROVE  Trying(t) /\ t.running = s.running
BY RunsKeepsTrying, SettledIsPolicy DEF Trying, Reconciled, Runs

LEMMA RecoveryFrameKeepsTrying ==
    ASSUME NEW s, Trying(s), NEW f \in RenderRecoveryFrame(s)
    PROVE  /\ Trying(f.app) /\ f.app.running = s.running /\ f.app.enabled = s.enabled
           /\ f.app.failures = s.failures
           /\ s.failures = {} /\ s.enabled => f.frame = "presented"
<1>1. CASE s.pres # "live"
  <2>1. f.frame = "failed" /\ f.app = s
    BY <1>1 DEF RenderRecoveryFrame
  <2> QED BY <1>1, <2>1 DEF Trying, Ready
<1>2. CASE s.pres = "live"
  <2>1. PICK r \in RefreshDisplayIfNeeded(s) :
               /\ f.app = r.app
               /\ \/ ~r.ok
                  \/ r.ok /\ (f.frame = "presented" \/ s.failures # {})
    <3>1. PICK r \in RefreshDisplayIfNeeded(s) :
                 f \in IF ~r.ok
                    THEN {[frame |-> "failed", app |-> r.app]}
                    ELSE {[frame |-> "presented", app |-> r.app]}
                         \cup MayFail(s, "frame", {[frame |-> "failed", app |-> r.app]})
                         \cup MayFail(s, "busy", {[frame |-> "busy", app |-> r.app]})
      BY <1>2 DEF RenderRecoveryFrame
    <3> QED BY <3>1 DEF MayFail
  <2>2. /\ Screen(s, r.app) /\ Paint(s, r.app) /\ r.ok \in BOOLEAN
        /\ ~r.ok => r.app.pres = "dead" \/ "show" \in s.failures
    BY <1>2, RefreshLeaves DEF Trying, Ready, Calm
  <2>3. Runs(s, r.app)
    BY <2>2, ScreenRuns DEF Trying, Paint
  <2>4. Policy(r.app)
    BY <2>2, <2>3, PaintKeepsPolicy DEF Screen, Trying
  <2>5. Trying(r.app) /\ r.app.running = s.running
    BY <2>3, <2>4, RunsKeepsTrying
  <2>6. s.failures = {} => r.ok
    BY <1>2, <2>2 DEF Screen, Steady
  <2> QED BY <2>1, <2>2, <2>5, <2>6 DEF Screen, Steady
<1> QED BY <1>1, <1>2

LEMMA FreshFrameKeepsTrying ==
    ASSUME NEW s, Trying(s), NEW expected \in BOOLEAN, expected => s.enabled,
           NEW r \in FreshFrame(s, expected)
    PROVE  /\ Trying(r.app) /\ r.app.running = s.running /\ r.app.enabled = s.enabled
           /\ r.ok \in BOOLEAN
           /\ r.app.failures = s.failures
           /\ s.failures = {} => r.ok
<1>1. CASE ~expected
  <2>1. r = Ok(s)
    BY <1>1 DEF FreshFrame
  <2> QED BY <2>1 DEF Ok
<1>2. CASE expected /\ s.pres = "none"
  <2>1. r = Failed(s)
    BY <1>2 DEF FreshFrame
  <2> QED BY <1>2, <2>1 DEF Failed, Trying, Ready
<1>3. CASE expected /\ s.pres # "none"
  <2>1. PICK f \in RenderRecoveryFrame(s) :
               r \in IF f.frame = "failed" /\ s.attempts = 1
                       THEN Recreate(f.app, FALSE)
                       ELSE {[ok |-> f.frame = "presented", app |-> f.app]}
    BY <1>3 DEF FreshFrame
  <2> DEFINE u == f.app
  <2>2. /\ Trying(u) /\ u.running = s.running /\ u.enabled = s.enabled /\ u.failures = s.failures
        /\ s.failures = {} /\ s.enabled => f.frame = "presented"
    BY <2>1, RecoveryFrameKeepsTrying
  <2>3. CASE f.frame = "failed" /\ s.attempts = 1
    <3> HIDE DEF u
    <3>1. r \in Recreate(u, FALSE)
      BY <2>1, <2>3 DEF u
    <3>2. Rebuilt(u, r.app) /\ r.ok \in BOOLEAN /\ ~r.app.visible /\ u.failures # {}
      BY <1>3, <2>2, <2>3, <3>1, RecreateLeaves DEF Trying, Ready, Calm
    <3> DEFINE w == r.app
    <3> HIDE DEF w
    <3>3. Rebuilt(u, w) /\ ~w.visible
      BY <3>2 DEF w
    <3>4. Ready(w)
      BY <2>2, <3>2, <3>3 DEF Rebuilt, Trying, Ready, Calm
    <3>5. Fixed(w)
      BY <2>2, <3>3 DEF Rebuilt, Trying, Fixed
    <3>6. Gated(w) /\ w.failures = u.failures
      BY <2>2, <3>3 DEF Rebuilt, Trying, Gated
    <3>7. Policy(w)
      BY <3>3, <3>4, <3>6, HiddenSettles, SettledIsPolicy
    <3>8. Trying(w) /\ w.running = u.running /\ w.enabled = u.enabled
      BY <2>2, <3>3, <3>4, <3>5, <3>7 DEF Rebuilt, Trying
    <3> QED BY <2>2, <3>2, <3>6, <3>8 DEF w
  <2>4. CASE ~(f.frame = "failed" /\ s.attempts = 1)
    <3>1. r = [ok |-> f.frame = "presented", app |-> f.app]
      BY <2>1, <2>4
    <3> QED BY <1>3, <2>2, <3>1
  <2> QED BY <2>3, <2>4
<1> QED BY <1>1, <1>2, <1>3

\* The gate lifted and the HUD reconciled, the retry timer still as it was.
Lifted(s) ==
    /\ Ready(s) /\ Fixed(s) /\ Settled(s)
    /\ ~s.recovering /\ ~s.suspended
    /\ s.attempts \in Nat /\ s.attempts <= MaxAttempts

LEMMA LiftGateLeaves ==
    ASSUME NEW s, Trying(s), NEW expected \in BOOLEAN, expected => s.enabled,
           NEW t \in LiftGate(s, expected)
    PROVE  Lifted(t) /\ t.running = s.running
<1> DEFINE a == [s EXCEPT !.recovering = FALSE]
<1>1. PICK u \in ReconcileHudVisibility(a) :
             t \in IF expected /\ ~u.visible /\ u.attempts = 1
                     THEN UNION {ReconcileHudVisibility(r.app) : r \in Recreate(u, TRUE)}
                     ELSE {u}
  BY DEF LiftGate
<1>2. /\ a \in Wide /\ ~a.recovering
      /\ \A f \in {"failures", "running", "enabled", "override", "mode", "option", "opacity", "pres",
                   "visible", "built", "layered", "suspended", "attempts", "game", "sampling", "ec",
                   "timers", "saved"} : a[f] = s[f]
  BY DEF Trying, Ready, Calm, Wide
<1> HIDE DEF a
<1>3. Ready(a) /\ Fixed(a) /\ ~a.suspended /\ a.attempts \in Nat /\ a.attempts <= MaxAttempts
  BY <1>2 DEF Trying, Ready, Calm, Fixed, Matches, Gated
<1>4. Runs(a, u) /\ Settled(u)
  BY <1>1, <1>3, ReconcileSettles
<1>5. Fixed(u) /\ Ready(u)
  BY <1>3, <1>4, RunsKeepsFixed DEF Runs
<1>6. /\ ~u.recovering /\ ~u.suspended /\ u.running = s.running /\ u.enabled = s.enabled
      /\ u.attempts \in Nat /\ u.attempts <= MaxAttempts
  BY <1>2, <1>3, <1>4 DEF Runs, Steady
<1>7. CASE expected /\ ~u.visible /\ u.attempts = 1
  <2>1. PICK r \in Recreate(u, TRUE) : t \in ReconcileHudVisibility(r.app)
    BY <1>1, <1>7
  <2> DEFINE w == r.app
  <2>2. Rebuilt(u, w) /\ (u.failures = {} /\ u.pres = "live" => w.pres = "live")
    BY <1>5, RecreateLeaves DEF Ready, Calm
  <2> HIDE DEF w
  <2>3. Ready(w)
    BY <1>5, <1>6, <2>2 DEF Rebuilt, Ready, Calm, Gated
  <2>4. w.enabled
    BY <1>6, <1>7, <2>2 DEF Rebuilt
  <2>5. Fixed(w)
    BY <1>5, <2>2, <2>4 DEF Rebuilt, Fixed
  <2>6. Runs(w, t) /\ Settled(t)
    BY <2>1, <2>3, ReconcileSettles DEF w
  <2>7. Fixed(t)
    BY <2>5, <2>6, RunsKeepsFixed
  <2> QED BY <1>6, <2>2, <2>6, <2>7 DEF Lifted, Rebuilt, Runs, Steady
<1>8. CASE ~(expected /\ ~u.visible /\ u.attempts = 1)
  <2>1. t = u
    BY <1>1, <1>8
  <2> QED BY <1>4, <1>5, <1>6, <2>1 DEF Lifted
<1> QED BY <1>7, <1>8

\* What is true of the state a recovery gives up in, or that it completes.
LEMMA CancelIsSound ==
    ASSUME NEW s, Ready(s), Fixed(s), Policy(s), ~s.suspended,
           s.recovering => s.failures # {}
    PROVE  Sound(CancelResumeRecovery(s)) /\ CancelResumeRecovery(s).running = s.running
<1> DEFINE t == CancelResumeRecovery(s)
<1>1. /\ t \in Wide /\ ~t.recovering /\ t.attempts = 0 /\ t.timers = s.timers \ {"resume"}
      /\ \A f \in {"failures", "running", "enabled", "override", "mode", "option", "opacity", "pres",
                   "visible", "built", "layered", "suspended", "game", "sampling", "ec",
                   "saved"} : t[f] = s[f]
  BY DEF Ready, Calm, Wide, CancelResumeRecovery
<1> HIDE DEF t
<1>2. Ready(t)
  BY <1>1 DEF Ready, Calm, Gated
<1>3. Fixed(t)
  BY <1>1 DEF Fixed, Matches
<1>4. (Resolve(t) <=> Resolve(s)) /\ (Gated(t) => Gated(s))
  BY <1>1 DEF Resolve, Gated
<1>5. s.failures = {} => (Gated(t) <=> Gated(s))
  BY <1>1 DEF Gated
<1>6. Resolve(t) \in BOOLEAN /\ Resolve(s) \in BOOLEAN
  BY <1>2 DEF Resolve, Ready, Calm, Wide
<1>7. OnlyByPolicy(t)
  BY <1>1, <1>4 DEF Policy, OnlyByPolicy
<1>8. SampledWhenShown(t)
  BY <1>1 DEF Policy, SampledWhenShown
<1>9. ByPolicy(t)
  BY <1>1, <1>4, <1>5, <1>6 DEF Policy, ByPolicy
<1>10. Driven(t)
  BY <1>1, MaxAttemptsAssumption DEF Driven
<1> QED BY <1>1, <1>2, <1>3, <1>7, <1>8, <1>9, <1>10 DEF Sound, Policy, t

\* A retry closes the gate again over a HUD that is not shown.
LEMMA RetryIsSound ==
    ASSUME NEW s, Ready(s), Fixed(s), Policy(s), ~s.suspended,
           ~s.recovering => ~s.visible, s.recovering => s.failures # {},
           s.attempts \in Nat
    PROVE  Sound(RetryOrGiveUp(s)) /\ RetryOrGiveUp(s).running = s.running
<1>1. CASE s.attempts < MaxAttempts
  <2> DEFINE t == [s EXCEPT !.recovering = TRUE, !.timers = @ \cup {"resume"}]
  <2>0. RetryOrGiveUp(s) = t
    BY <1>1 DEF RetryOrGiveUp
  <2>1. /\ t \in Wide /\ t.recovering /\ t.timers = s.timers \cup {"resume"}
        /\ \A f \in {"failures", "running", "enabled", "override", "mode", "option", "opacity", "pres",
                   "visible", "built", "layered", "suspended", "attempts", "game", "sampling", "ec",
                   "saved"} : t[f] = s[f]
    BY DEF Ready, Calm, Wide, TimerIds
  <2> HIDE DEF t
  <2>2. t.failures = {} => ~t.visible /\ ~t.sampling
    BY <2>1 DEF Policy, SampledWhenShown
  <2>3. Ready(t)
    BY <2>1, <2>2 DEF Ready, Calm, Gated
  <2>4. Fixed(t)
    BY <2>1 DEF Fixed, Matches
  <2>5. Gated(t)
    BY <2>1 DEF Gated
  <2>6. t.visible => "hide" \in t.failures
    BY <2>1 DEF Policy, OnlyByPolicy, Gated
  <2>7. Policy(t)
    BY <2>3, <2>5, <2>6, HiddenSettles, SettledIsPolicy
  <2>8. Driven(t)
    BY <1>1, <2>1 DEF Driven
  <2> QED BY <2>0, <2>1, <2>3, <2>4, <2>7, <2>8 DEF Sound
<1>2. CASE ~(s.attempts < MaxAttempts)
  <2>1. RetryOrGiveUp(s) = CancelResumeRecovery(s)
    BY <1>2 DEF RetryOrGiveUp
  <2> QED BY <2>1, CancelIsSound
<1> QED BY <1>1, <1>2

LEMMA FinishRecoveryIsSound ==
    ASSUME NEW s, Trying(s), NEW expected \in BOOLEAN, expected => s.enabled,
           NEW t \in FinishRecovery(s, expected)
    PROVE  Sound(t) /\ t.running = s.running
<1>1. PICK u \in LiftGate(s, expected) :
             t \in IF expected /\ ~u.visible THEN {RetryOrGiveUp(u)}
                                             ELSE Evaluate(CancelResumeRecovery(u))
  BY DEF FinishRecovery
<1>2. Lifted(u) /\ u.running = s.running
  BY <1>1, LiftGateLeaves
<1>3. Policy(u)
  BY <1>2, SettledIsPolicy DEF Lifted
<1>4. CASE expected /\ ~u.visible
  BY <1>1, <1>2, <1>3, <1>4, RetryIsSound DEF Lifted
<1>5. CASE ~(expected /\ ~u.visible)
  <2> DEFINE c == CancelResumeRecovery(u)
  <2>1. Sound(c) /\ c.running = u.running
    BY <1>2, <1>3, CancelIsSound DEF Lifted
  <2> HIDE DEF c
  <2>2. t \in Evaluate(c)
    BY <1>1, <1>5 DEF c
  <2>3. Reconciled(c, t)
    BY <2>1, <2>2, EvaluateSettles DEF Sound
  <2> QED BY <1>2, <2>1, <2>3, ReconciledIsSound DEF Reconciled, Runs, Steady
<1> QED BY <1>4, <1>5

LEMMA TryResumeRecoveryIsSound ==
    ASSUME NEW s, Sound(s), NEW t \in TryResumeRecovery(s)
    PROVE  Sound(t) /\ t.running = s.running
<1>1. CASE ~s.recovering
  BY <1>1 DEF TryResumeRecovery
<1>2. CASE s.recovering
  <2> DEFINE tried == [s EXCEPT !.attempts = @ + 1]
  <2>1. PICK u \in UNION {Evaluate(v) : v \in {tried} \cup ForegroundChanged(tried)} :
               t \in UNION {IF r.ok THEN FinishRecovery(r.app, Resolve(u))
                                    ELSE {RetryOrGiveUp(r.app)} : r \in FreshFrame(u, Resolve(u))}
    BY <1>2 DEF TryResumeRecovery
  <2>2. /\ tried \in Wide /\ tried.attempts = s.attempts + 1
        /\ \A f \in {"failures", "running", "enabled", "override", "mode", "option", "opacity", "pres",
                   "visible", "built", "layered", "suspended", "recovering", "game", "sampling", "ec",
                   "timers", "saved"} : tried[f] = s[f]
    BY DEF Sound, Ready, Calm, Wide
  <2> HIDE DEF tried
  <2>3. (Resolve(tried) <=> Resolve(s)) /\ (Gated(tried) <=> Gated(s))
    BY <2>2 DEF Resolve, Gated
  <2>4. s.attempts \in Nat
    BY DEF Sound, Ready, Calm, Wide
  <2>5. Ready(tried)
    BY <2>2, <2>3 DEF Sound, Ready, Calm
  <2>6. Fixed(tried)
    BY <2>2 DEF Sound, Fixed, Matches
  <2>7. Policy(tried)
    BY <1>2, <2>2, <2>3 DEF Sound, Policy, OnlyByPolicy, SampledWhenShown, ByPolicy, Gated
  <2>8. Trying(tried)
    BY <1>2, <2>2, <2>4, <2>5, <2>6, <2>7, MaxAttemptsAssumption DEF Trying, Sound, Driven
  <2>9. PICK v \in {tried} \cup ForegroundChanged(tried) : u \in Evaluate(v)
    BY <2>1
  <2>10. Trying(v) /\ v.running = s.running
    BY <2>2, <2>5, <2>8, <2>9, ForegroundChangedSettles, ReconciledKeepsTrying DEF Reconciled
  <2>11. Trying(u) /\ u.running = s.running
    BY <2>9, <2>10, EvaluateSettles, ReconciledKeepsTrying DEF Trying
  <2>12. Resolve(u) \in BOOLEAN /\ (Resolve(u) => u.enabled)
    BY <2>11 DEF Resolve, Trying, Ready, Calm, Wide
  <2>13. PICK r \in FreshFrame(u, Resolve(u)) :
                t \in IF r.ok THEN FinishRecovery(r.app, Resolve(u)) ELSE {RetryOrGiveUp(r.app)}
    BY <2>1
  <2> DEFINE e == Resolve(u)
  <2> HIDE DEF e
  <2>14. /\ Trying(r.app) /\ r.app.running = u.running /\ r.app.enabled = u.enabled
         /\ r.ok \in BOOLEAN
         /\ r.app.failures = u.failures
         /\ u.failures = {} => r.ok
    <3>1. e \in BOOLEAN /\ (e => u.enabled) /\ r \in FreshFrame(u, e)
      BY <2>12, <2>13 DEF e
    <3> QED BY <2>11, <3>1, FreshFrameKeepsTrying
  <2>15. CASE r.ok
    <3>1. t \in FinishRecovery(r.app, e) /\ e \in BOOLEAN /\ (e => r.app.enabled)
      BY <2>12, <2>13, <2>14, <2>15 DEF e
    <3> QED BY <2>11, <2>14, <3>1, FinishRecoveryIsSound
  <2>16. CASE ~r.ok
    <3>1. t = RetryOrGiveUp(r.app)
      BY <2>13, <2>16
    <3> QED BY <2>11, <2>14, <2>16, <3>1, RetryIsSound DEF Trying
  <2> QED BY <2>14, <2>15, <2>16
<1> QED BY <1>1, <1>2

-----------------------------------------------------------------------------
(* Settings and the hotkey.                                                *)

\* Everything but what is saved.
Fields == {"failures", "running", "enabled", "override", "mode", "option", "opacity", "pres",
           "visible", "displayChanged", "built", "layered", "suspended", "recovering", "attempts",
           "game", "sampling", "ec", "timers", "ticks"}

LEMMA SaveHudLeaves ==
    ASSUME NEW s \in Wide
    PROVE  LET t == SaveHudSettings(s)
           IN  /\ t \in Wide
               /\ \A f \in Fields : t[f] = s[f]
               /\ t.saved.enabled = s.saved.enabled /\ t.saved.mode = s.mode
               /\ t.saved.option = s.option
<1> DEFINE v == [s.saved EXCEPT !.mode = s.mode, !.option = s.option, !.opacity = s.opacity]
<1>1. /\ v \in [enabled: BOOLEAN, mode: Modes, option: Options, opacity: Opacities]
      /\ v.enabled = s.saved.enabled /\ v.mode = s.mode /\ v.option = s.option
  BY DEF Wide
<1> HIDE DEF v
<1>2. SaveHudSettings(s) = [s EXCEPT !.saved = v]
  BY DEF SaveHudSettings, v
<1> QED BY <1>1, <1>2 DEF Wide, Fields

LEMMA SaveEnabledLeaves ==
    ASSUME NEW s \in Wide
    PROVE  LET t == SaveEnabled(s)
           IN  /\ t \in Wide
               /\ \A f \in Fields : t[f] = s[f]
               /\ t.saved.enabled = s.enabled /\ t.saved.mode = s.saved.mode
               /\ t.saved.option = s.saved.option
<1> DEFINE v == [s.saved EXCEPT !.enabled = s.enabled]
<1>1. /\ v \in [enabled: BOOLEAN, mode: Modes, option: Options, opacity: Opacities]
      /\ v.enabled = s.enabled /\ v.mode = s.saved.mode /\ v.option = s.saved.option
  BY DEF Wide
<1> HIDE DEF v
<1>2. SaveEnabled(s) = [s EXCEPT !.saved = v]
  BY DEF SaveEnabled, v
<1> QED BY <1>1, <1>2 DEF Wide, Fields

\* Saving, and a new opacity, change nothing the policy or the gate looks at.
LEMMA SameIsSound ==
    ASSUME NEW s, NEW t \in Wide, Ready(s), Policy(s), Driven(s), Fixed(t),
           \A f \in Fields \ {"opacity", "option", "built", "layered", "displayChanged", "ticks"} :
               t[f] = s[f]
    PROVE  Sound(t) /\ t.running = s.running
<1>1. /\ t.failures = s.failures /\ t.running = s.running /\ t.enabled = s.enabled
      /\ t.override = s.override /\ t.mode = s.mode /\ t.pres = s.pres /\ t.visible = s.visible
      /\ t.suspended = s.suspended /\ t.recovering = s.recovering /\ t.attempts = s.attempts
      /\ t.game = s.game /\ t.sampling = s.sampling /\ t.ec = s.ec /\ t.timers = s.timers
  BY DEF Fields
<1>2. (Resolve(t) <=> Resolve(s)) /\ (Gated(t) <=> Gated(s))
  BY <1>1 DEF Resolve, Gated
<1>3. Ready(t)
  BY <1>1, <1>2 DEF Ready, Calm
<1>4. Policy(t)
  <2>1. Resolve(t) \in BOOLEAN /\ Resolve(s) \in BOOLEAN
    BY <1>3 DEF Resolve, Ready, Calm, Wide
  <2> QED BY <1>1, <1>2, <2>1 DEF Policy, OnlyByPolicy, SampledWhenShown, ByPolicy
<1>5. Driven(t)
  BY <1>1 DEF Driven
<1> QED BY <1>1, <1>3, <1>4, <1>5 DEF Sound

LEMMA SaveHudIsSound ==
    ASSUME NEW s, Ready(s), Policy(s), Driven(s), ~s.enabled => ~s.visible, Matches(s),
           s.running /\ s.enabled => s.saved.enabled
    PROVE  Sound(SaveHudSettings(s)) /\ SaveHudSettings(s).running = s.running
<1> DEFINE t == SaveHudSettings(s)
<1>1. /\ t \in Wide
      /\ \A f \in Fields : t[f] = s[f]
      /\ t.saved.enabled = s.saved.enabled /\ t.saved.mode = s.mode
      /\ t.saved.option = s.option
  BY SaveHudLeaves DEF Ready, Calm
<1> HIDE DEF t
<1>2. /\ t.enabled = s.enabled /\ t.visible = s.visible /\ t.pres = s.pres /\ t.built = s.built
      /\ t.layered = s.layered /\ t.option = s.option /\ t.opacity = s.opacity /\ t.mode = s.mode
      /\ t.running = s.running
  BY <1>1 DEF Fields
<1>3. Fixed(t)
  BY <1>1, <1>2 DEF Fixed, Matches
<1> QED BY <1>1, <1>3, SameIsSound DEF t

LEMMA SaveEnabledIsSound ==
    ASSUME NEW s, Ready(s), Policy(s), Driven(s), ~s.enabled => ~s.visible, Matches(s),
           s.running => s.saved.option = s.option /\ s.saved.mode = s.mode
    PROVE  Sound(SaveEnabled(s)) /\ SaveEnabled(s).running = s.running
<1> DEFINE t == SaveEnabled(s)
<1>1. /\ t \in Wide
      /\ \A f \in Fields : t[f] = s[f]
      /\ t.saved.enabled = s.enabled /\ t.saved.mode = s.saved.mode
      /\ t.saved.option = s.saved.option
  BY SaveEnabledLeaves DEF Ready, Calm
<1> HIDE DEF t
<1>2. /\ t.enabled = s.enabled /\ t.visible = s.visible /\ t.pres = s.pres /\ t.built = s.built
      /\ t.layered = s.layered /\ t.option = s.option /\ t.opacity = s.opacity /\ t.mode = s.mode
      /\ t.running = s.running
  BY <1>1 DEF Fields
<1>3. Fixed(t)
  BY <1>1, <1>2 DEF Fixed, Matches
<1> QED BY <1>1, <1>3, SameIsSound DEF t

\* A setting of a running HUD that it is reconciled with.
LEMMA StopHudIsSound ==
    ASSUME NEW s, Sound(s), NEW t \in StopHud(s)
    PROVE  Sound(t) /\ t.running = s.running
<1> DEFINE a == [s EXCEPT !.enabled = FALSE, !.override = "none"]
           b == StopSampling(a)
           c == [b EXCEPT !.ec = FALSE, !.game = FALSE]
<1>1. PICK u \in UNION {ReconcileHudVisibility(v) : v \in ReconcileHudVisibility(c)} :
             t = [Shutdown(u) EXCEPT !.pres = "none"]
  BY DEF StopHud
<1>2. PICK v \in ReconcileHudVisibility(c) : u \in ReconcileHudVisibility(v)
  BY <1>1
<1>3. /\ a \in Wide /\ ~a.enabled
      /\ \A f \in Fields \ {"enabled", "override"} : a[f] = s[f]
      /\ a.saved = s.saved
  <2>1. s \in Wide
    BY SoundShape
  <2> QED BY <2>1 DEF Wide, Fields
<1> HIDE DEF a
<1>4. /\ b \in Wide /\ ~b.sampling /\ b.timers = a.timers \ {"ec", "fps"}
      /\ \A f \in Fields \ {"sampling", "timers"} : b[f] = a[f]
      /\ b.saved = a.saved
  BY <1>3 DEF Wide, Fields, StopSampling
<1> HIDE DEF b
<1>5. /\ c \in Wide /\ ~c.ec
      /\ \A f \in Fields \ {"ec", "game"} : c[f] = b[f]
      /\ c.saved = b.saved
  BY <1>4 DEF Wide, Fields
<1> HIDE DEF c
<1>6. /\ c.failures = s.failures /\ c.running = s.running /\ ~c.enabled
      /\ c.mode = s.mode /\ c.option = s.option /\ c.opacity = s.opacity
      /\ c.pres = s.pres /\ c.visible = s.visible /\ c.built = s.built /\ c.layered = s.layered
      /\ c.suspended = s.suspended /\ c.recovering = s.recovering /\ c.attempts = s.attempts
      /\ ~c.sampling /\ c.timers = s.timers \ {"ec", "fps"} /\ c.saved = s.saved
  BY <1>3, <1>4, <1>5 DEF Fields
<1>7. c.timers \subseteq {"resume"}
  BY <1>5, <1>6 DEF Wide, TimerIds
<1>8. Ready(c)
  BY <1>5, <1>6, <1>7 DEF Sound, Ready, Calm, Gated
<1>9. Runs(c, v) /\ Runs(v, u)
  BY <1>2, <1>8, ReconcileSettles DEF Runs
<1>10. Runs(c, u)
  BY <1>9, RunsTransitive
<1>11. u.failures = s.failures /\ u.running = s.running /\ ~u.enabled
       /\ u.mode = s.mode /\ u.option = s.option /\ u.saved = s.saved
  BY <1>6, <1>10 DEF Runs, Steady
<1>12. Driven(u)
  <2>1. Driven(c)
    BY <1>6 DEF Sound, Driven
  <2> QED BY <1>10, <2>1, RunsKeepsDriven
<1> DEFINE d == Shutdown(u)
<1>13. d \in Wide /\ ~d.visible /\ \A f \in Fields \ {"pres", "visible", "displayChanged"} : d[f] = u[f]
  BY <1>10 DEF Runs, Ready, Calm, Wide, Fields, Shutdown, Presentations
<1>14. d.saved = u.saved
  BY <1>10 DEF Runs, Ready, Calm, Wide, Shutdown
<1> HIDE DEF d
<1>15. /\ t \in Wide /\ t.pres = "none" /\ ~t.visible
       /\ t.failures = u.failures /\ t.running = u.running /\ t.enabled = u.enabled
       /\ t.mode = u.mode /\ t.option = u.option /\ t.opacity = u.opacity
       /\ t.suspended = u.suspended /\ t.recovering = u.recovering /\ t.attempts = u.attempts
       /\ t.sampling = u.sampling /\ t.ec = u.ec /\ t.timers = u.timers /\ t.saved = u.saved
  <2>1. t = [d EXCEPT !.pres = "none"]
    BY <1>1 DEF d
  <2>2. t \in Wide /\ t.pres = "none" /\ (\A f \in Fields \ {"pres"} : t[f] = d[f]) /\ t.saved = d.saved
    BY <1>13, <2>1 DEF Wide, Fields, Presentations
  <2> QED BY <1>13, <1>14, <2>2 DEF Fields
<1>16. Ready(t)
  BY <1>10, <1>11, <1>15 DEF Runs, Ready, Calm, Gated
<1>17. Fixed(t)
  BY <1>11, <1>15 DEF Sound, Fixed, Matches
<1>18. Policy(t)
  <2>1. ~Resolve(t) /\ ~t.sampling
    BY <1>11, <1>15, <1>16 DEF Resolve, Ready, Calm
  <2> QED BY <1>15, <1>16, <2>1, HiddenSettles, SettledIsPolicy
<1>19. Driven(t)
  BY <1>12, <1>15 DEF Driven
<1> QED BY <1>11, <1>15, <1>16, <1>17, <1>18, <1>19 DEF Sound

\* A presentation that initialises for a HUD that is being enabled or restored.
LEMMA EnsureLeaves ==
    ASSUME NEW s, Calm(s), Matches(s), NEW r \in Ensure(s)
    PROVE  /\ Calm(r.app) /\ Matches(r.app)
           /\ Rebuilt(s, r.app)
           /\ r.ok \in BOOLEAN
           /\ r.ok => r.app.pres = "live"
           /\ ~r.ok => s.failures # {} /\ r.app.pres = "dead"
           /\ r.app.visible => s.visible
           /\ s.pres = "live" => r.ok /\ r.app = s
<1> DEFINE u == r.app
<1>1. /\ Rebuilt(s, u)
      /\ r.ok \in BOOLEAN
      /\ r.ok => u.pres = "live"
      /\ ~r.ok => "init" \in s.failures /\ u.pres = "dead"
      /\ u.visible => s.visible
      /\ s.pres = "live" => r.ok /\ u = s
  BY InitializeLeaves DEF Ensure, Calm
<1> HIDE DEF u
<1>2. Calm(u)
  BY <1>1 DEF Rebuilt, Calm, Gated
<1> QED BY <1>1, <1>2 DEF Rebuilt, u

LEMMA EnableHudIsSound ==
    ASSUME NEW s, Sound(s), NEW t \in EnableHud(s)
    PROVE  Sound(t) /\ t.running = s.running
<1>1. PICK r \in Ensure(s) :
             t \in IF r.ok
                     THEN {SaveEnabled(u) : u \in
                             UNION {ReconcileHudVisibility([v EXCEPT !.override = "none"]) :
                                      v \in Evaluate([r.app EXCEPT !.enabled = TRUE])}}
                     ELSE {r.app}
  BY DEF EnableHud
<1> DEFINE w == r.app
<1>2. /\ Calm(w) /\ Matches(w)
      /\ Rebuilt(s, w)
      /\ r.ok \in BOOLEAN
      /\ r.ok => w.pres = "live"
      /\ ~r.ok => s.failures # {} /\ w.pres = "dead"
      /\ w.visible => s.visible
      /\ s.pres = "live" => r.ok /\ w = s
  BY <1>1, EnsureLeaves DEF Sound, Ready, Fixed
<1> HIDE DEF w
<1>3. Driven(w)
  BY <1>2 DEF Sound, Driven, Rebuilt
<1>4. CASE r.ok
  <2> DEFINE x == [w EXCEPT !.enabled = TRUE]
  <2>1. /\ x \in Wide /\ x.enabled /\ x.saved = w.saved
        /\ \A f \in Fields \ {"enabled"} : x[f] = w[f]
    BY <1>2 DEF Calm, Wide, Fields
  <2>2. PICK v \in Evaluate(x) :
               t \in {SaveEnabled(u) : u \in ReconcileHudVisibility([v EXCEPT !.override = "none"])}
    BY <1>1, <1>4 DEF w
  <2> HIDE DEF x
  <2>3. Ready(x)
    BY <1>2, <1>4, <2>1 DEF Ready, Calm, Fields, Gated
  <2>4. Driven(x) /\ Matches(x)
    BY <1>2, <1>3, <2>1 DEF Driven, Fields, Matches
  <2>5. Runs(x, v) /\ Ready(v)
    BY <2>2, <2>3, EvaluateSettles DEF Reconciled, Runs
  <2> DEFINE y == [v EXCEPT !.override = "none"]
  <2>6. PICK u \in ReconcileHudVisibility(y) : t = SaveEnabled(u)
    BY <2>2
  <2>7. /\ y \in Wide /\ y.saved = v.saved
        /\ \A f \in Fields \ {"override"} : y[f] = v[f]
    BY <2>5 DEF Ready, Calm, Wide, Fields
  <2> HIDE DEF y
  <2>8. Ready(y)
    BY <2>5, <2>7 DEF Ready, Calm, Fields, Gated
  <2>9. Driven(v) /\ Matches(v)
    BY <2>4, <2>5, RunsKeepsDriven DEF Runs, Steady, Matches
  <2>10. Driven(y) /\ Matches(y)
    BY <2>7, <2>9 DEF Driven, Fields, Matches
  <2>11. Runs(y, u) /\ Settled(u)
    BY <2>6, <2>8, ReconcileSettles
  <2>12. Driven(u) /\ Matches(u)
    BY <2>10, <2>11, RunsKeepsDriven DEF Runs, Steady, Matches
  <2>13. /\ u.saved = s.saved /\ u.option = s.option /\ u.mode = s.mode /\ u.running = s.running
         /\ u.enabled
    <3>1. w.saved = s.saved /\ w.option = s.option /\ w.mode = s.mode /\ w.running = s.running
      BY <1>2 DEF Rebuilt
    <3>2. x.saved = w.saved /\ x.option = w.option /\ x.mode = w.mode /\ x.running = w.running
      BY <2>1 DEF Fields
    <3>3. /\ v.saved = x.saved /\ v.option = x.option /\ v.mode = x.mode /\ v.running = x.running
          /\ v.enabled
      BY <2>1, <2>5 DEF Runs, Steady
    <3>4. /\ y.saved = v.saved /\ y.option = v.option /\ y.mode = v.mode /\ y.running = v.running
          /\ y.enabled
      BY <2>7, <3>3 DEF Fields
    <3>5. /\ u.saved = y.saved /\ u.option = y.option /\ u.mode = y.mode /\ u.running = y.running
          /\ u.enabled
      BY <2>11, <3>4 DEF Runs, Steady
    <3> QED BY <3>1, <3>2, <3>3, <3>4, <3>5
  <2>14. Ready(u) /\ Policy(u)
    BY <2>11, SettledIsPolicy DEF Runs
  <2>15. u.running => u.saved.option = u.option /\ u.saved.mode = u.mode
    BY <2>13 DEF Sound, Fixed
  <2> QED BY <2>6, <2>12, <2>13, <2>14, <2>15, SaveEnabledIsSound
<1>5. CASE ~r.ok
  <2>1. t = w /\ ~w.visible
    BY <1>1, <1>2, <1>5 DEF w, Rebuilt
  <2>2. Ready(w)
    BY <1>2, <1>5 DEF Ready, Rebuilt
  <2>3. Policy(w)
    <3>1. Resolve(w) \in BOOLEAN
      BY <2>2 DEF Resolve, Ready, Calm, Wide
    <3> QED BY <1>2, <1>5, <2>1 DEF Policy, OnlyByPolicy, SampledWhenShown, ByPolicy, Rebuilt
  <2>4. Fixed(w)
    BY <1>2, <2>1 DEF Sound, Fixed, Rebuilt
  <2> QED BY <1>2, <1>3, <2>1, <2>2, <2>3, <2>4 DEF Sound, Rebuilt
<1> QED BY <1>2, <1>4, <1>5

LEMMA SetHudEnabledIsSound ==
    ASSUME NEW s, Sound(s), NEW on \in BOOLEAN, NEW t \in SetHudEnabled(s, on)
    PROVE  Sound(t) /\ t.running = s.running
<1>1. CASE on
  BY <1>1, EnableHudIsSound DEF SetHudEnabled
<1>2. CASE ~on
  <2>1. PICK u \in StopHud(s) : t = SaveEnabled(u)
    BY <1>2 DEF SetHudEnabled
  <2>2. Sound(u) /\ u.running = s.running
    BY <2>1, StopHudIsSound
  <2>3. Sound(SaveEnabled(u)) /\ SaveEnabled(u).running = u.running
    BY <2>2, SaveEnabledIsSound DEF Sound, Fixed
  <2> QED BY <2>1, <2>2, <2>3
<1> QED BY <1>1, <1>2

\* A presentation built again for the HUD of s.
Remade(s, w) ==
    /\ w \in Wide
    /\ w.failures = s.failures /\ w.running = s.running /\ w.enabled = s.enabled
    /\ w.override = s.override /\ w.mode = s.mode /\ w.opacity = s.opacity
    /\ w.suspended = s.suspended /\ w.recovering = s.recovering
    /\ w.attempts = s.attempts /\ w.saved = s.saved /\ w.ticks = s.ticks
    /\ w.game = s.game /\ w.sampling = s.sampling /\ w.ec = s.ec /\ w.timers = s.timers
    /\ w.visible => w.pres = "live" /\ s.visible
    /\ s.failures = {} => w.visible = s.visible /\ (s.pres = "live" => w.pres = "live")

LEMMA RemadeIsFine ==
    ASSUME NEW s, Sound(s), NEW w, Remade(s, w)
    PROVE  Ready(w) /\ Policy(w) /\ Driven(w) /\ (~w.enabled => ~w.visible)
<1>1. Ready(w)
  BY DEF Remade, Sound, Ready, Calm, Gated
<1>2. (Resolve(w) <=> Resolve(s)) /\ (Gated(w) <=> Gated(s))
  BY DEF Remade, Resolve, Gated
<1>3. Resolve(w) \in BOOLEAN /\ Resolve(s) \in BOOLEAN
  BY <1>1 DEF Resolve, Sound, Ready, Calm, Wide
<1>4. OnlyByPolicy(w)
  BY <1>2 DEF Remade, Sound, Policy, OnlyByPolicy
<1>5. SampledWhenShown(w)
  BY DEF Remade, Sound, Policy, SampledWhenShown
<1>6. ByPolicy(w)
  BY <1>2, <1>3 DEF Remade, Sound, Policy, ByPolicy
<1>7. Driven(w)
  BY DEF Remade, Sound, Driven
<1> QED BY <1>1, <1>4, <1>5, <1>6, <1>7 DEF Policy, Remade, Sound, Fixed

LEMMA RecreateRemakes ==
    ASSUME NEW s, Sound(s), NEW a \in Wide, NEW r \in Recreate(a, s.visible),
           a.visible => a.pres = "live",
           \A f \in Fields \ {"option", "pres", "visible", "displayChanged", "built", "layered"} :
               a[f] = s[f],
           a.saved = s.saved,
           s.failures = {} => a.pres = s.pres
    PROVE  /\ Remade(s, r.app) /\ Matches(r.app) /\ r.app.option = a.option
           /\ r.ok \in BOOLEAN /\ (s.failures = {} => r.ok)
<1> DEFINE w == r.app
<1>1. /\ Rebuilt(a, w)
      /\ r.ok \in BOOLEAN
      /\ w.visible => s.visible
      /\ a.failures = {} => r.ok
      /\ a.failures = {} /\ a.pres = "live" => w.pres = "live" /\ w.visible = s.visible
  BY RecreateLeaves, SoundShape
<1> HIDE DEF w
<1>2. /\ a.failures = s.failures /\ a.running = s.running /\ a.enabled = s.enabled
      /\ a.override = s.override /\ a.mode = s.mode /\ a.opacity = s.opacity
      /\ a.suspended = s.suspended /\ a.recovering = s.recovering
      /\ a.attempts = s.attempts /\ a.ticks = s.ticks
      /\ a.game = s.game /\ a.sampling = s.sampling /\ a.ec = s.ec /\ a.timers = s.timers
  BY DEF Fields
<1>3. w.visible \in BOOLEAN /\ s.visible \in BOOLEAN /\ (s.visible => s.pres = "live")
  BY <1>1, SoundShape DEF Rebuilt, Wide
<1> QED BY <1>1, <1>2, <1>3 DEF Rebuilt, Remade, w

LEMMA SetOptionIsSound ==
    ASSUME NEW s, Sound(s), NEW v \in Options, NEW b \in BOOLEAN, NEW t \in SetOption(s, v, b)
    PROVE  Sound(t) /\ t.running = s.running
<1>1. CASE v = s.option
  BY <1>1 DEF SetOption
<1>2. CASE v # s.option
  <2> DEFINE a == [s EXCEPT !.option = v]
  <2>1. PICK r \in Recreate(a, s.visible) :
               t \in IF r.ok
                       THEN {SaveHudSettings(r.app)}
                       ELSE {IF b THEN SaveHudSettings(q.app) ELSE q.app :
                               q \in Recreate([r.app EXCEPT !.option = s.option], s.visible)}
    BY <1>2 DEF SetOption
  <2>2. /\ a \in Wide /\ a.option = v /\ a.saved = s.saved
        /\ \A f \in Fields \ {"option"} : a[f] = s[f]
    <3>1. s \in Wide
      BY SoundShape
    <3> QED BY <3>1 DEF Wide, Fields
  <2> HIDE DEF a
  <2>3. a.visible = s.visible /\ a.pres = s.pres
    BY <2>2 DEF Fields
  <2> DEFINE u == r.app
  <2>4. Remade(s, u) /\ Matches(u) /\ r.ok \in BOOLEAN /\ (s.failures = {} => r.ok)
    BY <2>1, <2>2, <2>3, SoundShape, RecreateRemakes
  <2> HIDE DEF u
  <2>5. Ready(u) /\ Policy(u) /\ Driven(u) /\ (~u.enabled => ~u.visible)
    BY <2>4, RemadeIsFine
  <2>6. s.running => (s.enabled => s.saved.enabled)
    BY DEF Sound, Fixed
  <2>7. CASE r.ok
    <3>1. t = SaveHudSettings(u)
      BY <2>1, <2>7 DEF u
    <3> QED BY <2>4, <2>5, <2>6, <3>1, SaveHudIsSound DEF Remade
  <2>8. CASE ~r.ok
    <3> DEFINE c == [u EXCEPT !.option = s.option]
    <3>1. PICK q \in Recreate(c, s.visible) : t = IF b THEN SaveHudSettings(q.app) ELSE q.app
      BY <2>1, <2>8 DEF u
    <3>2. /\ c \in Wide /\ c.option = s.option /\ c.saved = u.saved
          /\ \A f \in Fields \ {"option"} : c[f] = u[f]
      <4>1. u \in Wide /\ s.option \in Options
        BY <2>4, SoundShape DEF Remade, Wide
      <4> QED BY <4>1 DEF Wide, Fields
    <3> HIDE DEF c
    <3>3. c.visible = u.visible /\ c.pres = u.pres
      BY <3>2 DEF Fields
    <3> DEFINE w == q.app
    <3>4. Remade(s, w) /\ Matches(w) /\ w.option = s.option
      <4>1. c.visible => c.pres = "live"
        BY <2>4, <3>3 DEF Remade
      <4>2. \A f \in Fields \ {"option", "pres", "visible", "displayChanged", "built", "layered"} :
               c[f] = s[f]
        <5>1. /\ c.failures = u.failures /\ c.running = u.running /\ c.enabled = u.enabled
              /\ c.override = u.override /\ c.mode = u.mode /\ c.opacity = u.opacity
              /\ c.suspended = u.suspended /\ c.recovering = u.recovering
              /\ c.attempts = u.attempts /\ c.ticks = u.ticks
              /\ c.game = u.game /\ c.sampling = u.sampling /\ c.ec = u.ec /\ c.timers = u.timers
          BY <3>2 DEF Fields
        <5> QED BY <2>4, <5>1 DEF Remade, Fields
      <4>3. c.saved = s.saved /\ s.failures # {}
        BY <2>4, <2>8, <3>2 DEF Remade
      <4> QED BY <3>1, <3>2, <4>1, <4>2, <4>3, RecreateRemakes
    <3> HIDE DEF w
    <3>5. Ready(w) /\ Policy(w) /\ Driven(w) /\ (~w.enabled => ~w.visible)
      BY <3>4, RemadeIsFine
    <3>6. CASE b
      <4>1. t = SaveHudSettings(w)
        BY <3>1, <3>6 DEF w
      <4> QED BY <2>6, <3>4, <3>5, <4>1, SaveHudIsSound DEF Remade
    <3>7. CASE ~b
      <4>1. t = w
        BY <3>1, <3>7 DEF w
      <4>2. Fixed(w)
        BY <3>4, <3>5 DEF Sound, Fixed, Remade
      <4> QED BY <3>4, <3>5, <4>1, <4>2 DEF Sound, Remade
    <3> QED BY <3>6, <3>7
  <2> QED BY <2>4, <2>7, <2>8
<1> QED BY <1>1, <1>2

LEMMA SetHudOpacityIsSound ==
    ASSUME NEW s, Sound(s), NEW v \in Opacities, NEW b \in BOOLEAN, NEW t \in SetHudOpacity(s, v, b)
    PROVE  Sound(t) /\ t.running = s.running
<1>0. s \in Wide
  BY SoundShape
<1> DEFINE a == [s EXCEPT !.opacity = v]
           c == [s EXCEPT !.opacity = v, !.layered = v]
<1>1. PICK u \in {s, a, c} :
             /\ t = s \/ t = (IF b THEN SaveHudSettings(u) ELSE u)
             /\ u = s \/ u = c \/ s.pres # "live"
  <2>1. CASE v = s.opacity /\ s.pres = "live"
    BY <2>1 DEF SetHudOpacity
  <2>2. CASE v = s.opacity /\ s.pres # "live"
    BY <2>2 DEF SetHudOpacity
  <2>3. CASE v # s.opacity /\ s.pres # "live"
    BY <2>3 DEF SetHudOpacity
  <2>4. CASE v # s.opacity /\ s.pres = "live"
    <3>1. SetHudOpacity(s, v, b) = {IF b THEN SaveHudSettings(c) ELSE c} \cup MayFail(s, "opacity", {s})
      BY <2>4 DEF SetHudOpacity
    <3>2. t = s \/ t = (IF b THEN SaveHudSettings(c) ELSE c)
      BY <3>1 DEF MayFail
    <3> HIDE DEF a, c
    <3> QED BY <3>2
  <2> QED BY <2>1, <2>2, <2>3, <2>4
<1>2. /\ a \in Wide /\ a.saved = s.saved /\ a.opacity = v
      /\ \A f \in Fields \ {"opacity"} : a[f] = s[f]
  BY <1>0 DEF Wide, Fields
<1>3. /\ c \in Wide /\ c.saved = s.saved /\ c.opacity = v /\ c.layered = v
      /\ \A f \in Fields \ {"opacity", "layered"} : c[f] = s[f]
  BY <1>0 DEF Wide, Fields
<1> HIDE DEF a, c
<1>4. Sound(u) /\ u.running = s.running
  <2>1. CASE u = s
    BY <2>1
  <2>2. CASE u = a /\ s.pres # "live"
    <3>1. /\ a.enabled = s.enabled /\ a.visible = s.visible /\ a.pres = s.pres /\ a.built = s.built
          /\ a.layered = s.layered /\ a.option = s.option /\ a.mode = s.mode
          /\ a.running = s.running
      BY <1>2 DEF Fields
    <3>2. Fixed(a)
      BY <1>1, <1>2, <2>2, <3>1 DEF Sound, Fixed, Matches
    <3> QED BY <1>2, <2>2, <3>2, SameIsSound DEF Sound
  <2>3. CASE u = c
    <3>1. /\ c.enabled = s.enabled /\ c.visible = s.visible /\ c.pres = s.pres /\ c.built = s.built
          /\ c.option = s.option /\ c.mode = s.mode
          /\ c.running = s.running
      BY <1>3 DEF Fields
    <3>2. Fixed(c)
      BY <1>3, <3>1 DEF Sound, Fixed, Matches
    <3> QED BY <1>3, <2>3, <3>2, SameIsSound DEF Sound
  <2> QED BY <1>1, <2>1, <2>2, <2>3
<1>5. Sound(SaveHudSettings(u)) /\ SaveHudSettings(u).running = u.running
  BY <1>4, SaveHudIsSound DEF Sound, Fixed
<1> QED BY <1>1, <1>4, <1>5

LEMMA SampleFpsRuns ==
    ASSUME NEW s, Ready(s), NEW t \in FpsSampled(s)
    PROVE  Runs(s, t)
BY RenderRuns, RunsReflexive DEF FpsSampled

LEMMA SetHudVisibilityModeIsSound ==
    ASSUME NEW s, Sound(s), NEW m \in Modes, NEW t \in SetHudVisibilityMode(s, m)
    PROVE  Sound(t) /\ t.running = s.running
<1>0. s \in Wide
  BY SoundShape
<1> DEFINE a == [s EXCEPT !.mode = m, !.override = "none"]
           seen == IF m # s.mode /\ m = "InGameOnly" THEN Evaluate(a) ELSE {a}
           sampled == IF m = s.mode THEN seen
                      ELSE UNION {IF v.suspended THEN {v} ELSE FpsSampled(v) : v \in seen}
<1>1. PICK u \in sampled : t \in ReconcileHudVisibility(SaveHudSettings(u))
  BY DEF SetHudVisibilityMode
<1>2. /\ a \in Wide /\ a.saved = s.saved /\ a.mode = m
      /\ \A f \in Fields \ {"mode", "override"} : a[f] = s[f]
  BY <1>0 DEF Wide, Fields
<1> HIDE DEF a
<1>3. Ready(a)
  BY <1>2 DEF Sound, Ready, Calm, Fields, Gated
<1>4. \A v \in seen : Runs(a, v)
  BY <1>3, EvaluateSettles, RunsReflexive DEF Reconciled
<1>5. Runs(a, u)
  <2>1. CASE m = s.mode
    BY <1>1, <1>4, <2>1
  <2>2. CASE m # s.mode
    <3> HIDE DEF seen
    <3>1. PICK v \in seen : u \in IF v.suspended THEN {v} ELSE FpsSampled(v)
      BY <1>1, <2>2
    <3>2. Runs(a, v)
      BY <1>4, <3>1
    <3>3. Runs(v, u)
      BY <3>1, <3>2, SampleFpsRuns, RunsReflexive DEF Runs
    <3> QED BY <3>2, <3>3, RunsTransitive
  <2> QED BY <2>1, <2>2
<1> DEFINE w == SaveHudSettings(u)
<1>6. /\ w \in Wide
      /\ \A f \in Fields : w[f] = u[f]
      /\ w.saved.enabled = u.saved.enabled /\ w.saved.mode = u.mode
      /\ w.saved.option = u.option
  BY <1>5, SaveHudLeaves DEF Runs, Ready, Calm
<1> HIDE DEF w
<1>7. /\ w.mode = u.mode /\ w.option = u.option /\ w.running = u.running /\ w.enabled = u.enabled
      /\ w.visible = u.visible /\ w.pres = u.pres /\ w.built = u.built /\ w.layered = u.layered
      /\ w.opacity = u.opacity /\ w.recovering = u.recovering /\ w.suspended = u.suspended
      /\ w.attempts = u.attempts /\ w.timers = u.timers /\ w.failures = u.failures
      /\ w.sampling = u.sampling /\ w.ec = u.ec
  BY <1>6 DEF Fields
<1>8. /\ a.running = s.running /\ a.enabled = s.enabled /\ a.visible = s.visible
      /\ a.pres = s.pres /\ a.built = s.built /\ a.layered = s.layered
      /\ a.opacity = s.opacity /\ a.option = s.option
      /\ a.recovering = s.recovering /\ a.suspended = s.suspended
      /\ a.attempts = s.attempts /\ a.timers = s.timers
  BY <1>2 DEF Fields
<1>9. Ready(w)
  BY <1>5, <1>6, <1>7 DEF Runs, Ready, Calm, Gated
<1>10. Driven(w)
  <2>1. Driven(a)
    BY <1>8 DEF Sound, Driven
  <2>2. Driven(u)
    BY <1>5, <2>1, RunsKeepsDriven
  <2> QED BY <1>7, <2>2 DEF Driven
<1>11. Fixed(w)
  <2>1. Matches(a) /\ (~a.enabled => ~a.visible) /\ (a.running /\ a.enabled => a.saved.enabled)
    BY <1>2, <1>8 DEF Sound, Fixed, Matches
  <2>2. /\ Matches(u) /\ (~u.enabled => ~u.visible) /\ (u.running /\ u.enabled => u.saved.enabled)
    BY <1>5, <2>1 DEF Runs, Steady, Matches
  <2> QED BY <1>6, <1>7, <2>2 DEF Fixed, Matches
<1>12. Runs(w, t) /\ Settled(t)
  BY <1>1, <1>9, ReconcileSettles DEF w
<1>13. w.running = s.running /\ t.running = w.running
  BY <1>5, <1>7, <1>8, <1>12 DEF Runs, Steady
<1> QED BY <1>10, <1>11, <1>12, <1>13, SettledIsSound

LEMMA HotkeyIsSound ==
    ASSUME NEW s, Sound(s), NEW t \in HandleHudToggleHotkey(s)
    PROVE  Sound(t) /\ t.running = s.running
<1>1. CASE ~s.enabled
  BY <1>1 DEF HandleHudToggleHotkey
<1>2. CASE s.enabled
  <2>0. s \in Wide
    BY SoundShape
  <2> DEFINE a == [s EXCEPT !.override = IF s.visible THEN "hide" ELSE "show"]
  <2>1. t \in ReconcileHudVisibility(a)
    BY <1>2 DEF HandleHudToggleHotkey
  <2>2. /\ a \in Wide /\ a.saved = s.saved
        /\ \A f \in Fields \ {"override"} : a[f] = s[f]
    BY <2>0 DEF Wide, Fields
  <2> HIDE DEF a
  <2>3. /\ a.mode = s.mode /\ a.option = s.option /\ a.running = s.running /\ a.enabled = s.enabled
      /\ a.visible = s.visible /\ a.pres = s.pres /\ a.built = s.built /\ a.layered = s.layered
      /\ a.opacity = s.opacity /\ a.recovering = s.recovering /\ a.suspended = s.suspended
      /\ a.attempts = s.attempts /\ a.timers = s.timers /\ a.failures = s.failures
      /\ a.sampling = s.sampling /\ a.ec = s.ec
    BY <2>2 DEF Fields
  <2>4. Ready(a) /\ Fixed(a) /\ Driven(a)
    BY <2>2, <2>3 DEF Sound, Ready, Calm, Gated, Fixed, Matches, Driven
  <2>5. Runs(a, t) /\ Settled(t)
    BY <2>1, <2>4, ReconcileSettles
  <2>6. t.running = s.running
    BY <2>3, <2>5 DEF Runs, Steady
  <2> QED BY <2>4, <2>5, <2>6, SettledIsSound
<1> QED BY <1>1, <1>2

-----------------------------------------------------------------------------
(* Timers.                                                                 *)

LEMMA RenderIsSound ==
    ASSUME NEW s, Sound(s), NEW t \in Render(s)
    PROVE  Sound(t) /\ t.running = s.running
<1>1. Runs(s, t)
  BY RenderRuns DEF Sound
<1>2. Screen(s, t) /\ Paint(s, t)
  BY RenderLeaves DEF Sound, Ready, Calm
<1>3. Policy(t)
  BY <1>1, <1>2, PaintKeepsPolicy DEF Sound, Screen
<1>4. Fixed(t) /\ Driven(t)
  BY <1>1, RunsKeepsFixed, RunsKeepsDriven DEF Sound
<1> QED BY <1>1, <1>3, <1>4 DEF Sound, Runs, Steady

LEMMA SampleSystemEcIsSound ==
    ASSUME NEW s, Sound(s), s.enabled, NEW t \in SystemEcSampled(s)
    PROVE  Sound(t) /\ t.running = s.running
<1> DEFINE a == [s EXCEPT !.ec = TRUE]
<1>0. s \in Wide
  BY SoundShape
<1>1. t \in Render(a)
  BY DEF SystemEcSampled
<1>2. /\ a \in Wide /\ a.saved = s.saved
      /\ \A f \in Fields \ {"ec"} : a[f] = s[f]
  BY <1>0 DEF Wide, Fields
<1> HIDE DEF a
<1>3. /\ a.failures = s.failures /\ a.running = s.running /\ a.enabled = s.enabled
      /\ a.override = s.override /\ a.mode = s.mode /\ a.option = s.option
      /\ a.opacity = s.opacity /\ a.pres = s.pres /\ a.visible = s.visible
      /\ a.built = s.built /\ a.layered = s.layered /\ a.suspended = s.suspended
      /\ a.recovering = s.recovering /\ a.attempts = s.attempts /\ a.game = s.game
      /\ a.sampling = s.sampling /\ a.timers = s.timers
  BY <1>2 DEF Fields
<1>4. (Resolve(a) <=> Resolve(s)) /\ (Gated(a) <=> Gated(s))
  BY <1>3 DEF Resolve, Gated
<1>5. Resolve(a) \in BOOLEAN /\ Resolve(s) \in BOOLEAN
  BY <1>0, <1>2 DEF Resolve, Wide
<1>6. Ready(a) /\ Fixed(a) /\ Driven(a)
  BY <1>2, <1>3, <1>4 DEF Sound, Ready, Calm, Fixed, Matches, Driven
<1>7. Policy(a)
  BY <1>3, <1>4, <1>5 DEF Sound, Policy, OnlyByPolicy, SampledWhenShown, ByPolicy
<1> QED BY <1>1, <1>3, <1>6, <1>7, RenderIsSound DEF Sound

LEMMA HandleTimerIsSound ==
    ASSUME NEW s, Sound(s), NEW k \in TimerIds, NEW t \in HandleTimer(s, k)
    PROVE  Sound(t) /\ t.running = s.running
<1> DEFINE allowed == ~s.suspended /\ s.enabled /\ s.visible
<1>1. CASE k = "resume"
  BY <1>1, TryResumeRecoveryIsSound DEF HandleTimer
<1>2. CASE k = "ec" /\ allowed
  BY <1>2, SampleSystemEcIsSound DEF HandleTimer
<1>3. CASE k = "fps" /\ allowed
  <2>1. t = s \/ t \in Render(s)
    BY <1>3 DEF HandleTimer, FpsSampled
  <2> QED BY <2>1, RenderIsSound
<1>4. CASE k # "resume" /\ ~allowed
  BY <1>4 DEF HandleTimer
<1> QED BY <1>1, <1>2, <1>3, <1>4 DEF TimerIds

-----------------------------------------------------------------------------
(* The process.                                                            *)

\* The foreground a process sees before its HUD is restored is only noted.
LEMMA NotedBeforeRestore ==
    ASSUME NEW s \in Wide, s.pres = "none", ~s.visible, NEW t \in Evaluate(s)
    PROVE  t = s \/ \E b \in BOOLEAN : t = [s EXCEPT !.game = b]
<1> DEFINE g == [s EXCEPT !.game = TRUE]
           n == [s EXCEPT !.game = FALSE]
<1>1. g.pres = "none" /\ ~g.visible /\ n.pres = "none"
  BY DEF Wide
<1>2. t = s \/ t \in TargetSet(s) \/ t \in TargetCleared(s)
  BY DEF Evaluate
<1>3. TargetSet(s) = UNION {ReconcileEvaluated(u) : u \in StartSamplingWithGame(g)}
  BY DEF TargetSet
<1>4. TargetCleared(s) = ReconcileEvaluated(n)
  BY DEF TargetCleared
<1> HIDE DEF g, n
<1>5. StartSamplingWithGame(g) = {g} /\ ReconcileEvaluated(g) = {g} /\ ReconcileEvaluated(n) = {n}
  BY <1>1 DEF StartSamplingWithGame, ReconcileEvaluated
<1>6. t = s \/ t = g \/ t = n
  BY <1>2, <1>3, <1>4, <1>5
<1> QED BY <1>6 DEF g, n

\* A process that does not run is what its settings say, and nothing else.
LEMMA NotRunningIsSound ==
    ASSUME NEW f \in Platforms,
           NEW saved \in [enabled: BOOLEAN, mode: Modes, option: Options, opacity: Opacities]
    PROVE  Sound(NotRunning(f, saved)) /\ ~NotRunning(f, saved).running
<1> DEFINE s == NotRunning(f, saved)
<1>1. /\ s \in Wide
      /\ ~s.running /\ ~s.enabled /\ s.pres = "none" /\ ~s.visible /\ ~s.sampling /\ ~s.ec
      /\ s.timers = {} /\ ~s.recovering /\ ~s.suspended /\ s.attempts = 0
  BY MaxAttemptsAssumption DEF NotRunning, Wide, Modes, Presentations, TimerIds
<1> HIDE DEF s
<1>2. Ready(s) /\ Fixed(s)
  BY <1>1 DEF Ready, Calm, Fixed, Matches
<1>3. Policy(s) /\ Driven(s)
  BY <1>1, MaxAttemptsAssumption DEF Policy, OnlyByPolicy, SampledWhenShown, ByPolicy, Driven
<1> QED BY <1>1, <1>2, <1>3 DEF Sound, s

\* What a process that starts has read and noted, its HUD not yet restored.
Started(s) ==
    /\ s \in Wide
    /\ s.running /\ s.pres = "none" /\ ~s.visible /\ ~s.sampling /\ ~s.ec /\ s.timers = {}
    /\ ~s.recovering /\ ~s.suspended /\ s.attempts = 0
    /\ s.saved.option = s.option /\ s.saved.mode = s.mode /\ s.enabled = s.saved.enabled

LEMMA DarkIsSound ==
    ASSUME NEW s, s \in Wide, s.running, ~s.enabled, s.pres # "live", ~s.visible, ~s.sampling,
           ~s.ec, s.timers = {}, ~s.recovering, ~s.suspended, s.attempts = 0,
           s.saved.option = s.option, s.saved.mode = s.mode
    PROVE  Sound(s)
<1>1. Ready(s) /\ Fixed(s)
  BY DEF Ready, Calm, Fixed, Matches
<1>2. Driven(s)
  BY MaxAttemptsAssumption DEF Driven
<1>3. Policy(s)
  BY DEF Policy, OnlyByPolicy, SampledWhenShown, ByPolicy, Resolve, Wide
<1> QED BY <1>1, <1>2, <1>3 DEF Sound

LEMMA StartUpIsSound ==
    ASSUME NEW s \in Wide, s = NotRunning(s.failures, s.saved), NEW t \in StartUp(s)
    PROVE  Sound(t) /\ t.running
<1> DEFINE a == [s EXCEPT !.running = TRUE, !.enabled = s.saved.enabled]
<1>1. PICK v \in Evaluate(a) :
             t \in IF ~v.enabled
                     THEN {v}
                     ELSE UNION {IF r.ok
                                   THEN UNION {ReconcileHudVisibility(u) : u \in Evaluate(r.app)}
                                   ELSE {[r.app EXCEPT !.enabled = FALSE]} : r \in Ensure(v)}
  BY DEF StartUp
<1>2. /\ ~s.visible /\ s.pres = "none" /\ ~s.sampling /\ ~s.ec /\ s.timers = {}
      /\ ~s.recovering /\ ~s.suspended /\ s.attempts = 0
      /\ s.option = s.saved.option /\ s.mode = s.saved.mode
  BY DEF NotRunning
<1>3. Started(a)
  BY <1>2 DEF Started, Wide
<1> HIDE DEF a
<1>4. Started(v)
  <2>1. v = a \/ \E b \in BOOLEAN : v = [a EXCEPT !.game = b]
    BY <1>1, <1>3, NotedBeforeRestore DEF Started
  <2> QED BY <1>3, <2>1 DEF Started, Wide
<1>5. CASE ~v.enabled
  BY <1>1, <1>4, <1>5, DarkIsSound DEF Started
<1>6. CASE v.enabled
  <2>1. PICK r \in Ensure(v) :
               t \in IF r.ok THEN UNION {ReconcileHudVisibility(u) : u \in Evaluate(r.app)}
                             ELSE {[r.app EXCEPT !.enabled = FALSE]}
    BY <1>1, <1>6
  <2> DEFINE w == r.app
  <2>2. Calm(v) /\ Matches(v)
    BY <1>4, <1>6 DEF Started, Calm, Matches
  <2>3. /\ Calm(w) /\ Matches(w)
        /\ Rebuilt(v, w)
        /\ r.ok \in BOOLEAN
        /\ r.ok => w.pres = "live"
        /\ ~r.ok => w.pres = "dead"
        /\ w.visible => v.visible
    BY <2>1, <2>2, EnsureLeaves
  <2> HIDE DEF w
  <2>4. /\ w \in Wide /\ w.running /\ ~w.visible /\ ~w.sampling /\ ~w.ec /\ w.timers = {}
        /\ ~w.recovering /\ ~w.suspended /\ w.attempts = 0
        /\ w.saved.option = w.option /\ w.saved.mode = w.mode /\ w.enabled = w.saved.enabled
    BY <1>4, <2>3 DEF Started, Rebuilt
  <2>5. CASE r.ok
    <3>1. PICK u \in Evaluate(w) : t \in ReconcileHudVisibility(u)
      BY <2>1, <2>5 DEF w
    <3>2. Ready(w) /\ Fixed(w) /\ Driven(w)
      BY <2>3, <2>4, <2>5, MaxAttemptsAssumption DEF Ready, Fixed, Driven
    <3>3. Runs(w, u)
      BY <3>1, <3>2, EvaluateSettles DEF Reconciled
    <3>4. Runs(u, t) /\ Settled(t)
      BY <3>1, <3>3, ReconcileSettles DEF Runs
    <3>5. Runs(w, t)
      BY <3>3, <3>4, RunsTransitive
    <3> QED BY <2>4, <3>2, <3>4, <3>5, SettledIsSound DEF Runs, Steady
  <2>6. CASE ~r.ok
    <3> DEFINE d == [w EXCEPT !.enabled = FALSE]
    <3>1. t = d
      BY <2>1, <2>6 DEF w
    <3>2. /\ d \in Wide /\ d.running /\ ~d.enabled /\ d.pres # "live" /\ ~d.visible
          /\ ~d.sampling /\ ~d.ec /\ d.timers = {} /\ ~d.recovering /\ ~d.suspended
          /\ d.attempts = 0 /\ d.saved.option = d.option /\ d.saved.mode = d.mode
      BY <2>3, <2>4, <2>6 DEF Wide
    <3> HIDE DEF d
    <3> QED BY <3>1, <3>2, DarkIsSound
  <2> QED BY <2>3, <2>5, <2>6
<1> QED BY <1>5, <1>6

\* The queue and a pending display change are nothing the policy looks at.
LEMMA QueueIsSound ==
    ASSUME NEW s, Sound(s), NEW q \in SUBSET TimerIds, NEW b \in BOOLEAN
    PROVE  LET t == [s EXCEPT !.ticks = q]
               d == [s EXCEPT !.displayChanged = b]
           IN  /\ Sound(t) /\ t.running = s.running
               /\ Sound(d) /\ d.running = s.running
<1> DEFINE t == [s EXCEPT !.ticks = q]
           d == [s EXCEPT !.displayChanged = b]
<1>0. s \in Wide
  BY SoundShape
<1>1. /\ t \in Wide /\ t.saved = s.saved /\ \A f \in Fields \ {"ticks"} : t[f] = s[f]
      /\ d \in Wide /\ d.saved = s.saved /\ \A f \in Fields \ {"displayChanged"} : d[f] = s[f]
  BY <1>0 DEF Wide, Fields
<1> HIDE DEF t, d
<1>2. Fixed(t)
  <2>1. /\ t.running = s.running /\ t.enabled = s.enabled /\ t.visible = s.visible
        /\ t.pres = s.pres /\ t.built = s.built /\ t.option = s.option
        /\ t.layered = s.layered /\ t.opacity = s.opacity /\ t.mode = s.mode
    BY <1>1 DEF Fields
  <2> QED BY <1>1, <2>1 DEF Sound, Fixed, Matches
<1>3. Fixed(d)
  <2>1. /\ d.running = s.running /\ d.enabled = s.enabled /\ d.visible = s.visible
        /\ d.pres = s.pres /\ d.built = s.built /\ d.option = s.option
        /\ d.layered = s.layered /\ d.opacity = s.opacity /\ d.mode = s.mode
    BY <1>1 DEF Fields
  <2> QED BY <1>1, <2>1 DEF Sound, Fixed, Matches
<1>4. Sound(t) /\ t.running = s.running
  BY <1>1, <1>2, SameIsSound DEF Sound
<1>5. Sound(d) /\ d.running = s.running
  BY <1>1, <1>3, SameIsSound DEF Sound
<1> QED BY <1>4, <1>5 DEF t, d

-----------------------------------------------------------------------------
(* The theorems.                                                           *)

LEMMA InitIsSound ==
    ASSUME Init
    PROVE  HudInv
<1>1. PICK f \in Platforms, e \in BOOLEAN, m \in Modes, o \in Options, p \in Opacities :
             app = NotRunning(f, [enabled |-> e, mode |-> m, option |-> o, opacity |-> p])
  BY DEF Init
<1> DEFINE saved == [enabled |-> e, mode |-> m, option |-> o, opacity |-> p]
<1>2. saved \in [enabled: BOOLEAN, mode: Modes, option: Options, opacity: Opacities]
  OBVIOUS
<1> HIDE DEF saved
<1>3. app = NotRunning(f, saved)
  BY <1>1 DEF saved
<1>4. app.failures = f /\ app.saved = saved
  BY <1>3 DEF NotRunning
<1> QED BY <1>2, <1>3, <1>4, NotRunningIsSound DEF HudInv

LEMMA OnlyRunning ==
    ASSUME HudInv, app.pres = "live" \/ app.timers # {} \/ app.ticks # {}
    PROVE  app.running
BY DEF HudInv, NotRunning

LEMMA StepIsSound ==
    ASSUME HudInv, Next
    PROVE  HudInv'
<1>0. Sound(app) /\ app \in Wide
  BY SoundShape DEF HudInv
<1>1. CASE Start
  <2>1. app = NotRunning(app.failures, app.saved) /\ app' \in StartUp(app)
    BY <1>1 DEF Start, HudInv
  <2>2. Sound(app') /\ app'.running
    BY <1>0, <2>1, StartUpIsSound
  <2> QED BY <2>2 DEF HudInv
<1>2. CASE Quit
  <2>1. Sound(app') /\ ~app'.running
    BY <1>0, <1>2, NotRunningIsSound DEF Quit, Wide
  <2> QED BY <1>2, <2>1 DEF Quit, HudInv, NotRunning
<1>3. CASE ControlRequest
  <2>1. Sound(app') /\ app'.running = app.running
    BY <1>0, <1>3, SetHudEnabledIsSound, SetOptionIsSound, SetHudOpacityIsSound,
       SetHudVisibilityModeIsSound DEF ControlRequest
  <2> QED BY <1>3, <2>1 DEF ControlRequest, HudInv
<1>4. CASE Hotkey
  <2>1. Sound(app') /\ app'.running = app.running
    BY <1>0, <1>4, HotkeyIsSound DEF Hotkey
  <2> QED BY <1>4, <2>1 DEF Hotkey, HudInv
<1>5. CASE ForegroundMessage
  <2>1. Runs(app, app') /\ Settled(app')
    BY <1>0, <1>5, ForegroundChangedSettles DEF ForegroundMessage, Sound
  <2>2. Sound(app')
    BY <1>0, <2>1, SettledIsSound DEF Sound
  <2>3. app'.running = app.running
    BY <2>1 DEF Runs, Steady
  <2> QED BY <1>5, <2>2, <2>3 DEF ForegroundMessage, HudInv
<1>6. CASE DetectionMessage
  <2>1. Reconciled(app, app')
    BY <1>0, <1>6, EvaluateSettles DEF DetectionMessage, Sound
  <2>2. Sound(app')
    BY <1>0, <2>1, ReconciledIsSound
  <2>3. app'.running = app.running
    BY <2>1 DEF Reconciled, Runs, Steady
  <2> QED BY <1>6, <2>2, <2>3 DEF DetectionMessage, HudInv
<1>7. CASE PowerBroadcast
  <2>1. Sound(app') /\ app'.running = app.running
    BY <1>0, <1>7, SuspendIsSound, ResumeIsSound DEF PowerBroadcast
  <2> QED BY <1>7, <2>1 DEF PowerBroadcast, HudInv
<1>8. CASE DisplayChange
  <2>1. Sound(app') /\ app'.running = app.running
    BY <1>0, <1>8, QueueIsSound DEF DisplayChange
  <2> QED BY <1>8, <2>1, OnlyRunning DEF DisplayChange, HudInv
<1>9. CASE TimerElapses
  <2>1. PICK t \in app.timers : app' = [app EXCEPT !.ticks = @ \cup {t}]
    BY <1>9 DEF TimerElapses
  <2>2. app.ticks \cup {t} \in SUBSET TimerIds
    BY <1>0, <2>1 DEF Wide
  <2>3. Sound(app') /\ app'.running = app.running
    BY <1>0, <2>1, <2>2, QueueIsSound
  <2> QED BY <2>1, <2>3, OnlyRunning DEF HudInv
<1>10. CASE \E t \in TimerIds : TimerMessage(t)
  <2>1. PICK t \in TimerIds : TimerMessage(t)
    BY <1>10
  <2> DEFINE s == [app EXCEPT !.ticks = @ \ {t}]
  <2>2. t \in app.ticks /\ app' \in HandleTimer(s, t)
    BY <2>1 DEF TimerMessage
  <2>3. app.ticks \ {t} \in SUBSET TimerIds
    BY <1>0 DEF Wide
  <2>4. Sound(s) /\ s.running = app.running
    BY <1>0, <2>3, QueueIsSound
  <2> HIDE DEF s
  <2>5. Sound(app') /\ app'.running = s.running
    BY <2>2, <2>4, HandleTimerIsSound
  <2>6. app.running
    BY <2>2, OnlyRunning
  <2> QED BY <2>4, <2>5, <2>6 DEF HudInv
<1> QED
  BY <1>1, <1>2, <1>3, <1>4, <1>5, <1>6, <1>7, <1>8, <1>9, <1>10 DEF Next

\* The invariant every other theorem follows from: between two messages, on any
\* machine, the HUD's flags, timers, presentation and settings are sound, and a
\* runtime that does not run is what settings.ini says.
THEOREM HudIsSound == Spec => []HudInv
<1>1. Init => HudInv
  BY InitIsSound
<1>2. HudInv /\ [Next]_app => HudInv'
  BY StepIsSound DEF HudInv
<1> QED BY <1>1, <1>2, PTL DEF Spec

\* A HUD that is off is off: whatever failed while StopHud or a restore ran, and
\* whatever tick or foreground message arrives later, nothing is shown, no
\* sampling timer is armed and the elevated EC helper does not run.
THEOREM DisabledIsAlwaysQuiet == Spec => []DisabledIsQuiet
<1>1. HudInv => DisabledIsQuiet
  BY DEF HudInv, Sound, Ready, Calm, Fixed, DisabledIsQuiet
<1> QED BY <1>1, HudIsSound, PTL

\* The screen and the policy of App::ReconcileHudVisibility agree in both
\* directions, around a recovery whose retry timer is armed as long as its gate is
\* closed and whose attempts are bounded.
THEOREM HudAlwaysFollowsPolicy == Spec => []HudFollowsPolicy
<1>1. HudInv => HudFollowsPolicy
  <2> SUFFICES ASSUME HudInv PROVE HudFollowsPolicy
    OBVIOUS
  <2>1. Sound(app) /\ app \in Wide
    BY SoundShape DEF HudInv
  <2>2. app.attempts \in 0 .. MaxAttempts - 1
    BY <2>1, MaxAttemptsAssumption DEF Sound, Driven, Wide
  <2>3. TypeOK
    BY <2>1, <2>2 DEF TypeOK, States, Wide
  <2>4. RecoveryIsDriven
    BY <2>1 DEF Sound, Driven, RecoveryIsDriven
  <2>5. ShownOnlyByPolicy
    BY <2>1 DEF Sound, Policy, OnlyByPolicy, Gated, ShownOnlyByPolicy
  <2>6. ShownByPolicy
    BY <2>1 DEF Sound, Policy, ByPolicy, Gated, ShownByPolicy
  <2> QED BY <2>3, <2>4, <2>5, <2>6 DEF HudFollowsPolicy
<1> QED BY <1>1, HudIsSound, PTL

\* A visible HUD is never frozen: wherever showing and hiding do not fail, its
\* sampling and its EC timer are those of the screen, whatever else fails.
THEOREM HudIsSampledAsShown == Spec => []SampledAsShown
<1>1. HudInv => SampledAsShown
  <2> SUFFICES ASSUME HudInv PROVE SampledAsShown
    OBVIOUS
  <2>1. Sound(app) /\ app \in Wide
    BY SoundShape DEF HudInv
  <2>2. NoFrozenHud
    BY <2>1 DEF Sound, Ready, Calm, Policy, SampledWhenShown, NoFrozenHud
  <2>3. app.failures = {} => (app.sampling <=> app.visible)
    BY <2>1 DEF Sound, Policy, SampledWhenShown
  <2> QED BY <2>2, <2>3 DEF SampledAsShown
<1> QED BY <1>1, HudIsSound, PTL

\* A change of an option or of the opacity, its failure and its rollback leave
\* memory, the live presentation and settings.ini in agreement.
THEOREM ChangesAreWhole == Spec => []ChangeIsWhole
<1>1. HudInv => ChangeIsWhole
  BY DEF HudInv, Sound, Fixed, Matches, ChangeIsWhole, PresentationMatchesSettings,
         SettingsArePersisted
<1> QED BY <1>1, HudIsSound, PTL

\* The next foreground change repairs what a recovery that was given up left
\* behind: outside the gate, it shows a live presentation exactly when the policy
\* asks for it.
THEOREM ForegroundRepairs == Spec => ForegroundSettles
<1> DEFINE Repaired ==
             (/\ ForegroundMessage
              /\ app.failures \cap {"show", "hide"} = {}
              /\ ~app'.suspended /\ ~app'.recovering /\ app'.pres = "live")
                => app'.visible = Resolve(app')
<1>1. HudInv /\ [Next]_app => [Repaired]_app
  <2> SUFFICES ASSUME HudInv, ForegroundMessage PROVE Repaired
    OBVIOUS
  <2>1. Runs(app, app') /\ Settled(app')
    BY ForegroundChangedSettles DEF ForegroundMessage, HudInv, Sound
  <2>2. app'.failures = app.failures
    BY <2>1 DEF Runs, Steady
  <2> QED BY <2>1, <2>2 DEF Settled, Fits, Gated
<1>2. Spec => [][Repaired]_app
  BY <1>1, HudIsSound, PTL DEF Spec
<1> QED BY <1>2 DEF ForegroundSettles
=============================================================================
