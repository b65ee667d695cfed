---------------------------- MODULE GameSession ----------------------------
(***************************************************************************)
(* Foreground-first game detection: GameSessionController, the             *)
(* ForegroundGameDetector and the KnownGameProcessCache it asks, and the   *)
(* GameRenderVerifier with its worker thread.                              *)
(*                                                                         *)
(* A process instance (GameProcessInstance: PID and creation time) is a    *)
(* member of Processes; its PID may be reused by a later instance.  An     *)
(* instance has one top-level window, named by the instance.               *)
(* A message handler runs on the UI thread and is one action; as in        *)
(* HudLifecycle it is a composition of operators from a state of the       *)
(* controller to the set of states it can leave behind.  The worker thread *)
(* and the machine (processes, windows, foreground) move between handlers; *)
(* the worker can also post its frame while the UI thread waits in join.   *)
(***************************************************************************)
EXTENDS Naturals, FiniteSets

CONSTANTS
    Processes,   \* process instances
    Pids,
    Scenarios,   \* what the machine may be; see Machines
    MaxPosted,   \* bound on the verifier updates in the message queue
    MaxEvents,   \* bound on the window events in the message queue
    None

\* "app" displays no frames, "game" does, and "store" also has a readable
\* Microsoft game identity.
Kinds == {"app", "game", "store"}

\* The PIDs and kinds of the instances, which of them start, resize and exit
\* while the runtime looks on (the others run at full screen throughout),
\* whether Steam runs games, and whether events, posts, verifier starts and
\* recoveries may fail.
Machines == [pid: [Processes -> Pids], kind: [Processes -> Kinds],
             transient: SUBSET Processes, steam: BOOLEAN, faulty: BOOLEAN]

ASSUME ScenarioAssumption == Scenarios \subseteq Machines
ASSUME BoundsAssumption == MaxPosted \in Nat /\ MaxEvents \in Nat
\* Two processes that run do not have the same PID.
ASSUME DistinctAssumption ==
    \A m \in Scenarios : \A p, q \in Processes \ m.transient :
        m.pid[p] = m.pid[q] => p = q

VARIABLES
    session,      \* the members of the controller and of what it owns
    life,         \* of each instance
    fullscreen,   \* instances whose window covers its monitor, uncloaked and shown
    foreground,   \* GetForegroundWindow(): an instance, or None
    machine       \* chosen from Scenarios

world == <<life, fullscreen, foreground, machine>>
vars == <<session, world>>

PidOf(p) == machine.pid[p]
Alive(p) == p # None /\ life[p] = "alive"

\* Requests are only compared for equality, identity and process together, so
\* an identity that no request for the process uses any more is used again (the
\* code counts 64 bits up).
Ids == 1 .. MaxPosted + 5
Requests == [id: Ids, process: Processes]
Entries == [process: Processes, verified: BOOLEAN, store: BOOLEAN]
WindowEvents == Processes \X {"show", "change"}

ASSUME NoneAssumption == None \notin Processes /\ None \notin Requests /\ None \notin Entries

Sessions ==
    [enabled: BOOLEAN, suspended: BOOLEAN, recovering: BOOLEAN, steam: BOOLEAN,
     tracked: Processes \cup {None},
     decision: {"Hidden", "NeedsRendererVerification", "Eligible"},
     window: Processes \cup {None},
     target: Processes \cup {None},
     cache: [Pids -> Entries \cup {None}],
     outstanding: Requests \cup {None}, active: Requests \cup {None},
     worker: {"none", "polling", "posted", "ended"},
     polled: Requests \cup {None},
     posted: SUBSET Requests,
     messages: SUBSET {"foreground", "evidence"},
     windows: SUBSET WindowEvents]

-----------------------------------------------------------------------------
(* KnownGameProcessCache and ForegroundGameDetector.                       *)

Entry(p) == [process |-> p, verified |-> FALSE, store |-> FALSE]
IsKnownGame(e) == e # None /\ (e.verified \/ e.store)

\* Drops an entry that belongs to another instance with this PID.
Lookup(s, p) ==
    [s EXCEPT !.cache[PidOf(p)] = IF @ # None /\ @.process = p THEN @ ELSE None]

Mark(s, p) ==
    [s EXCEPT !.cache[PidOf(p)] = IF @ # None /\ @.process = p THEN @ ELSE Entry(p)]

MarkMicrosoftGame(s, p) == [Mark(s, p) EXCEPT !.cache[PidOf(p)].store = TRUE]

\* Refuses an entry that belongs to another instance with this PID.
TryMarkRendererVerified(s, p) ==
    LET e == s.cache[PidOf(p)]
    IN  IF e # None /\ e.process # p
          THEN s
          ELSE [s EXCEPT !.cache[PidOf(p)] =
                  [(IF e = None THEN Entry(p) ELSE e) EXCEPT !.verified = TRUE]]

CompleteRendererVerification(s, r, verified) ==
    LET t == IF verified THEN TryMarkRendererVerified(s, r.process) ELSE s
    IN  [t EXCEPT !.outstanding = IF @ = r THEN None ELSE @]

Referred(s) == ({s.active, s.outstanding, s.polled} \ {None}) \cup s.posted
FreshRequest(s, p) ==
    [id |-> CHOOSE i \in Ids : [id |-> i, process |-> p] \notin Referred(s), process |-> p]

RequestFor(s, p) ==
    IF s.outstanding # None /\ s.outstanding.process = p
      THEN s.outstanding
      ELSE FreshRequest(s, p)

\* EvaluateGameScreenAdmission, and the query of the process' creation time.
Admitted(w) == Alive(w) /\ w \in fullscreen

\* ForegroundGameDetector::Evaluate of the screen that window w shows.  A
\* process seen while Steam runs games is marked as seen.
JudgeByPid(s, w) == \* mutant: evidence of the PID, whoever earned it
    IF ~Admitted(w)
      THEN [s EXCEPT !.decision = "Hidden", !.window = w]
      ELSE IF IsKnownGame(s.cache[PidOf(w)])
             THEN [s EXCEPT !.decision = "Eligible", !.window = w]
             ELSE [s EXCEPT !.decision = "NeedsRendererVerification",
                            !.window = w, !.outstanding = RequestFor(s, w)]

Judge(s, w) ==
    IF ~Admitted(w)
      THEN [s EXCEPT !.decision = "Hidden", !.window = w]
      ELSE LET t == [Lookup(IF s.steam THEN Mark(s, w) ELSE s, w) EXCEPT !.window = w]
           IN  IF IsKnownGame(t.cache[PidOf(w)])
                 THEN [t EXCEPT !.decision = "Eligible"]
                 ELSE [t EXCEPT !.decision = "NeedsRendererVerification",
                                !.outstanding = RequestFor(t, w)]

-----------------------------------------------------------------------------
(* GameRenderVerifier.  The worker polls by PID, and finds a frame when    *)
(* the process that now has the PID displays one.  It posts its request,   *)
(* and only then lowers running_.                                          *)

DisplaysFrame(pid) == \E p \in Processes : PidOf(p) = pid /\ Alive(p) /\ machine.kind[p] # "app"
Running(s) == s.worker \in {"polling", "posted"}

StopKeepsProcessId(s) == \* mutant: processId_ is not reset
    {[s EXCEPT !.worker = "none"]}

\* Stop() waits for the worker, which may be posting its frame.
StopWorker(s) ==
    LET off == [s EXCEPT !.worker = "none", !.polled = None]
    IN  {off} \cup
        IF s.worker = "polling" /\ DisplaysFrame(PidOf(s.polled.process))
              /\ Cardinality(s.posted) <= MaxPosted
          THEN {[off EXCEPT !.posted = @ \cup {s.polled}]}
          ELSE {}

StopRenderVerification(s) ==
    {IF s.active = None THEN t
     ELSE CompleteRendererVerification([t EXCEPT !.active = None], s.active, FALSE) :
       t \in StopWorker(s)}

StartVerifier(s, r) ==
    UNION {{[t EXCEPT !.active = r, !.worker = "polling", !.polled = r]}
           \cup IF machine.faulty
                  THEN {[CompleteRendererVerification(t, r, FALSE) EXCEPT !.active = None]}
                  ELSE {} :
             t \in StopWorker(s)}

StartOncePerRequest(s, r) == \* mutant: a verifier that has ended is not restarted
    IF s.active = r
      THEN {s}
      ELSE UNION {StartVerifier(t, r) :
                    t \in IF s.active = None THEN {s} ELSE StopRenderVerification(s)}

StartIfNeeded(s, r) ==
    IF s.active = r /\ Running(s)
      THEN {s}
      ELSE UNION {StartVerifier(t, r) :
                    t \in IF s.active = None THEN {s} ELSE StopRenderVerification(s)}

-----------------------------------------------------------------------------
(* GameSessionController.                                                  *)

\* ApplyForegroundEvaluation.  Clearing the target reconciles a HUD that may
\* stay visible, which asks for the verification (EnsureRenderVerification)
\* before the handler does; setting it changes nothing more here.
ApplyKeepsTarget(s) == \* mutant: an unknown foreground keeps the old target
    CASE s.decision = "Eligible" ->
            IF s.active = None THEN {[s EXCEPT !.target = s.window]}
            ELSE StopRenderVerification([s EXCEPT !.target = s.window])
      [] s.decision = "Hidden" -> {[s EXCEPT !.target = None]}
      [] OTHER -> StartIfNeeded(s, s.outstanding)

Apply(s) ==
    CASE s.decision = "Eligible" ->
            IF s.active = None THEN {[s EXCEPT !.target = s.window]}
            ELSE StopRenderVerification([s EXCEPT !.target = s.window])
      [] s.decision = "Hidden" -> {[s EXCEPT !.target = None]}
      [] OTHER ->
            LET cleared == [s EXCEPT !.target = None]
                ensured == IF s.target = None THEN {cleared}
                           ELSE {cleared} \cup StartIfNeeded(cleared, s.outstanding)
            IN  UNION {StartIfNeeded(t, s.outstanding) : t \in ensured}

EvaluateWindowOnly(s) == \* mutant: no foreground window, no evaluation
    IF s.enabled /\ ~s.suspended /\ foreground # None THEN Apply(Judge(s, foreground)) ELSE {s}

Evaluate(s) ==
    IF s.enabled /\ ~s.suspended THEN Apply(Judge(s, foreground)) ELSE {s}

EnsureRenderVerification(s) ==
    IF s.enabled /\ ~s.suspended /\ s.decision = "NeedsRendererVerification"
      THEN Apply(Judge(s, s.window))
      ELSE {s}

Revalidate(s) == IF s.target # None /\ ~Alive(s.target) THEN Evaluate(s) ELSE {s}

\* What App::ReconcileHudVisibility calls back: nothing behind the suspend
\* and recovery gate, and EnsureRenderVerification if the HUD is visible.
ReconcileHudVisibility(s) ==
    IF ~s.enabled \/ s.suspended \/ s.recovering
      THEN {s}
      ELSE UNION {{t} \cup EnsureRenderVerification(t) : t \in Revalidate(s)}

\* ForegroundTracker::Reconcile and its callback.
ReconcileForeground(s) ==
    IF s.tracked = foreground
      THEN {s}
      ELSE UNION {Evaluate(t) :
                    t \in ReconcileHudVisibility([s EXCEPT !.tracked = foreground])}

DiscardPendingSuspendEvents(s) ==
    [s EXCEPT !.posted = {}, !.windows = {}, !.messages = @ \ {"evidence"}]

\* The instance whose window event this is may be gone, and its PID reused:
\* what is inspected is the process that has the PID now.
InspectWindowEvent(s, e) ==
    LET now == {p \in Processes : PidOf(p) = PidOf(e[1]) /\ Alive(p)} IN
    IF e[2] = "change" \/ now = {}
      THEN s
      ELSE LET p == CHOOSE p \in now : TRUE IN
           IF machine.kind[p] = "store"
             THEN [MarkMicrosoftGame(s, p) EXCEPT !.messages = @ \cup {"evidence"}]
             ELSE Lookup(s, p)

ProductionWindowEvent(s, e) ==
    UNION {IF e[1] \in {foreground, t.window} THEN Evaluate(t) ELSE {t} :
             t \in ReconcileForeground(InspectWindowEvent(s, e))}

\* HandleGameRenderVerifierUpdate.
VerifierUpdateClearsAny(s, r) == \* mutant: a stale completion clears the request
    LET t == [CompleteRendererVerification(s, r, TRUE) EXCEPT !.active = None]
    IN  IF s.suspended \/ s.recovering THEN {t} ELSE Evaluate(t)

VerifierUpdateSelects(s, r) == \* mutant: the process it names becomes the target
    LET t == [CompleteRendererVerification(s, r, TRUE)
                EXCEPT !.active = IF @ = r THEN None ELSE @]
    IN  IF s.suspended \/ s.recovering THEN {t} ELSE Apply(Judge(t, r.process))

VerifierUpdate(s, r) ==
    LET t == [CompleteRendererVerification(s, r, TRUE)
                EXCEPT !.active = IF @ = r THEN None ELSE @]
    IN  IF s.suspended \/ s.recovering THEN {t} ELSE Evaluate(t)

ResetForegroundGameSession(s) ==
    {[t EXCEPT !.target = None] : t \in StopRenderVerification(s)}

-----------------------------------------------------------------------------
Init ==
    /\ session =
         [enabled |-> FALSE, suspended |-> FALSE, recovering |-> FALSE, steam |-> FALSE,
          tracked |-> None, decision |-> "Hidden", window |-> None, target |-> None,
          cache |-> [n \in Pids |-> None], outstanding |-> None, active |-> None,
          worker |-> "none", polled |-> None, posted |-> {}, messages |-> {},
          windows |-> {}]
    /\ machine \in Scenarios
    /\ life = [p \in Processes |-> IF p \in machine.transient THEN "unborn" ELSE "alive"]
    /\ fullscreen = Processes \ machine.transient
    /\ foreground = None

Handle(S) == session' \in S /\ UNCHANGED world

HudOn == Handle(UNION {ReconcileHudVisibility(t) :
                         t \in Evaluate([session EXCEPT !.enabled = TRUE])})

HudOff == /\ session.enabled
          /\ Handle(ResetForegroundGameSession([session EXCEPT !.enabled = FALSE]))

ForegroundMessage ==
    /\ "foreground" \in session.messages
    /\ Handle(ReconcileForeground([session EXCEPT !.messages = @ \ {"foreground"}]))

EvidenceMessage ==
    /\ "evidence" \in session.messages
    /\ Handle(Evaluate([session EXCEPT !.messages = @ \ {"evidence"}]))

WindowMessage(e) ==
    /\ e \in session.windows
    /\ Handle(ProductionWindowEvent([session EXCEPT !.windows = @ \ {e}], e))

SteamMessage ==
    /\ machine.steam
    /\ Handle(Evaluate([session EXCEPT !.steam = ~@]))

VerifierMessage(r) ==
    /\ r \in session.posted
    /\ Handle(VerifierUpdate([session EXCEPT !.posted = @ \ {r}], r))

\* What a suspend and a resume without one do: the worker is joined before its
\* queue is drained.
QuiesceDrainsFirst(s) == \* mutant: what the worker posts in join survives
    StopRenderVerification(DiscardPendingSuspendEvents(s))

Quiesce(s) == {DiscardPendingSuspendEvents(t) : t \in StopRenderVerification(s)}

SystemSuspend ==
    /\ ~session.suspended
    /\ Handle(Quiesce([session EXCEPT !.suspended = TRUE, !.recovering = FALSE]))

SystemResume ==
    /\ ~session.recovering
    /\ Handle({[t EXCEPT !.suspended = FALSE, !.recovering = TRUE] :
                  t \in IF session.suspended THEN {session} ELSE Quiesce(session)})

\* One TryResumeRecovery: it completes, or it retries or is exhausted because
\* no fresh frame is presented or the HUD does not show.
ResumeRecovery ==
    /\ session.recovering
    /\ LET seen == {[t EXCEPT !.posted = {}] :
                      t \in UNION {Evaluate(u) : u \in ReconcileForeground(session)}}
           lifted == {[t EXCEPT !.recovering = FALSE] : t \in seen}
           shown == UNION {ReconcileHudVisibility(t) : t \in lifted}
           retried == {[t EXCEPT !.recovering = TRUE] : t \in shown}
       IN  Handle((UNION {Evaluate(t) : t \in shown})
                  \cup IF machine.faulty
                         THEN seen \cup lifted \cup shown \cup retried ELSE {})

\* The verifier's worker.
WorkerFindsFrame ==
    /\ session.worker = "polling"
    /\ DisplaysFrame(PidOf(session.polled.process))
    /\ Cardinality(session.posted) < MaxPosted
    /\ LET s == [session EXCEPT !.worker = "posted"]
       IN  Handle({[s EXCEPT !.posted = @ \cup {session.polled}]}
                  \cup IF machine.faulty THEN {s} ELSE {})

WorkerEnds ==
    /\ session.worker = "posted"
    /\ Handle({[session EXCEPT !.worker = "ended"]})

\* The machine.  Its events reach the message queue, unless they are lost.
Tell(messages, windows) ==
    \/ /\ Cardinality(session.windows \cup windows) <= MaxEvents
       /\ session' = [session EXCEPT !.messages = @ \cup messages,
                                     !.windows = @ \cup windows]
    \/ machine.faulty /\ UNCHANGED session

Launch(p) ==
    /\ life[p] = "unborn"
    /\ \A q \in Processes : PidOf(q) = PidOf(p) => ~Alive(q)
    /\ life' = [life EXCEPT ![p] = "alive"]
    /\ Tell({}, {<<p, "show">>})
    /\ UNCHANGED <<fullscreen, foreground, machine>>

Exit(p) ==
    /\ p \in machine.transient /\ Alive(p)
    /\ life' = [life EXCEPT ![p] = "dead"]
    /\ fullscreen' = fullscreen \ {p}
    /\ foreground' = IF foreground = p THEN None ELSE foreground
    /\ Tell(IF foreground = p THEN {"foreground"} ELSE {}, {<<p, "change">>})
    /\ UNCHANGED machine

Switch(p) ==
    /\ foreground # p
    /\ p = None \/ Alive(p)
    /\ foreground' = p
    /\ Tell({"foreground"}, {})
    /\ UNCHANGED <<life, fullscreen, machine>>

Resize(p) ==
    /\ p \in machine.transient /\ Alive(p)
    /\ fullscreen' = IF p \in fullscreen THEN fullscreen \ {p} ELSE fullscreen \cup {p}
    /\ Tell({}, {<<p, "change">>})
    /\ UNCHANGED <<life, foreground, machine>>

\* A name or location change of the foreground window that leaves the screen as
\* it is.
Retitle(p) ==
    /\ p = foreground
    /\ Tell({}, {<<p, "change">>})
    /\ UNCHANGED world

Messages ==
    \/ ForegroundMessage \/ EvidenceMessage
    \/ \E e \in WindowEvents : WindowMessage(e)
    \/ \E r \in Requests : VerifierMessage(r)

Machine ==
    \/ \E p \in Processes : Launch(p) \/ Exit(p) \/ Resize(p) \/ Retitle(p)
    \/ \E p \in Processes \cup {None} : Switch(p)

Next ==
    \/ HudOn \/ HudOff \/ SteamMessage \/ Messages
    \/ SystemSuspend \/ SystemResume \/ ResumeRecovery
    \/ WorkerFindsFrame \/ WorkerEnds
    \/ Machine

\* The message queue is first in, first out and the loop keeps dispatching, so
\* whatever is posted leaves the queue; a recovery comes to an end (the timer
\* is fair and the attempts are bounded, see HudLifecycle); the worker polls.
\* The machine owes nothing.
Fairness ==
    /\ []<>("foreground" \notin session.messages)
    /\ []<>("evidence" \notin session.messages)
    /\ \A e \in WindowEvents : []<>(e \notin session.windows)
    /\ \A r \in Requests : []<>(r \notin session.posted)
    /\ []<>~session.recovering
    /\ WF_vars(WorkerFindsFrame) /\ WF_vars(WorkerEnds)

Spec == Init /\ [][Next]_vars /\ Fairness

-----------------------------------------------------------------------------
(* Properties.                                                             *)

Gated == session.suspended \/ session.recovering

\* Type correctness; the verifier has a request exactly when it has a worker.
TypeOK ==
    /\ session \in Sessions
    /\ session.polled = None <=> session.worker = "none"
    /\ life \in [Processes -> {"unborn", "alive", "dead"}]
    /\ fullscreen \subseteq Processes
    /\ foreground \in Processes \cup {None}
    /\ machine \in Scenarios

\* The In-Game Only target that the controller gives to telemetry and to the
\* HUD, and the decision the detector keeps, are two variables of two classes:
\* outside the gate of an enabled HUD the target is the eligible process of the
\* last evaluation, or none.
TargetFollowsEvaluation ==
    session.enabled /\ ~Gated =>
        session.target = IF session.decision = "Eligible" THEN session.window ELSE None

\* A process becomes the target only while it is in the foreground of an
\* enabled, running HUD: neither a late completion nor evidence for another
\* window nor a verification asked for an earlier foreground selects it.
TargetIsSelectedInForeground ==
    [][session'.target \notin {session.target, None} =>
         /\ session'.target = foreground
         /\ session'.enabled /\ ~session'.suspended]_vars

\* A process that displays no frames is never the target, whatever its PID has
\* earned before: evidence does not pass from one process instance to the next.
TargetIsGame ==
    Alive(session.target) => machine.kind[session.target] # "app"

\* The detector's outstanding request is the controller's active one, and the
\* controller's active one is what the worker was started for: a stale
\* completion or a handoff leaves no request that nobody works on.
RequestsAgree ==
    /\ session.outstanding # None => session.outstanding = session.active
    /\ session.active # None => session.polled = session.active

\* A suspended machine and a disabled HUD run no verifier (whose PresentMon
\* lease would keep tracing), and no completion from before a suspend is
\* handled after it, not even one posted while the suspend handler was joining
\* the worker.
SuspendIsQuiet ==
    /\ session.suspended \/ ~session.enabled => session.worker = "none"
    /\ session.suspended => session.posted = {}

\* A game that stays at full screen in the foreground, and whose window is
\* heard of from time to time, becomes the target and stays it, although
\* completions are discarded, verifiers handed off and evaluations refused on
\* the way there.
Playing(p) ==
    /\ session.enabled /\ ~Gated
    /\ foreground = p /\ p \in fullscreen /\ machine.kind[p] # "app"

GameIsDetected ==
    \A p \in Processes :
        (/\ <>[](Playing(p) /\ ~machine.faulty)
         /\ []<>(<<p, "change">> \in session.windows))
            => <>[](session.target = p)

\* The target does not outlive its process, unless the machine is suspended.
DeadTargetIsDropped ==
    \A p \in Processes :
        (session.target = p /\ ~Alive(p) /\ ~machine.faulty)
            ~> (session.target # p \/ Gated)

\* GameSessionCutoverPolicy.h:19: "The target is only ever the currently eligible
\* foreground game process generation". Once the messages about foreground
\* changes are handled, outside the gate, no background process is the target.
TargetIsForeground ==
    (session.enabled /\ ~Gated /\ "foreground" \notin session.messages /\ ~machine.faulty)
        => session.target \in {foreground, None}

\* The controller, its detector and its verifier, which are updated one after
\* the other by nested handlers, are well formed and agree on the target and on
\* the open request.
ControllerAgreesWithDetector == TypeOK /\ TargetFollowsEvaluation /\ RequestsAgree

\* Detection catches up: a game in the foreground is found, and a target whose
\* process is gone is dropped.
DetectionKeepsUp == GameIsDetected /\ DeadTargetIsDropped
=============================================================================
