------------------------------ MODULE FrontEnd ------------------------------
(***************************************************************************)
(* The Settings window (ClawHUD.Settings): MainWindow, MainViewModel, the  *)
(* opacity coordinator and the client side of the Control pipe, against    *)
(* the runtime it controls.                                                *)
(*                                                                         *)
(* Everything in the window happens on its UI thread; what can interleave  *)
(* is the user, the answers to the requests, other clients of the pipe, and*)
(* the fate of the runtime.  The pipe has one instance: a request waits    *)
(* until the one before it is over, also when the client has given that    *)
(* one up.  Opacity has a preview and a commit; the settings of the other  *)
(* controls are one, "other", whose HUD-size slider has a gesture too.     *)
(***************************************************************************)
EXTENDS Naturals

CONSTANTS
    Opacities,    \* the steps of the opacity slider
    Others,       \* the values of the other setting
    MaxActs,      \* bound: what the user does
    MaxFaults     \* bound: time-outs, refusals and changes by other clients

ASSUME OpacitiesAssumption == Opacities \subseteq Nat \ {0}
ASSUME ActsAssumption == MaxActs \in Nat /\ MaxFaults \in Nat

VARIABLES
    rt,        \* the runtime: "up", "stopping", "down"
    live,      \* the opacity it shows
    saved,     \* the opacity in settings.ini
    other,     \* its other setting
    slot,      \* the request the pipe instance holds, and whose it is
    call,      \* the request each flow of the window is waiting for
    load,      \* OnLoadedAsync: "info", "snapshot", "done"
    window,    \* "open", "lost" (a close is posted), "closed"
    snapshot,  \* _snapshot of the view model
    g,         \* the opacity coordinator
    flags,     \* _mutationInFlight, _refreshInFlight, _hudSizeGestureActive
    size,      \* _hudSizeGestureValue
    hand,      \* what the user drags
    thumb,     \* where the opacity slider stands
    wanted,    \* the last opacity the window accepted from the user
    failed,    \* an opacity request failed since a commit was answered
    stale,     \* the runtime changed without telling the window
    acts, faults

runtimeVars == <<rt, live, saved, other>>
windowVars == <<load, window, snapshot, g, flags, size, hand, thumb>>
ghosts == <<wanted, failed, stale>>
vars == <<runtimeVars, slot, call, windowVars, ghosts, acts, faults>>

-----------------------------------------------------------------------------
None == 0
NoSnapshot == [opacity |-> None, other |-> None]
Snapshots == [opacity : Opacities, other : Others]

(* One request at most is awaited by each of these flows.                  *)
Flows == {"load", "pump", "commit", "mutation", "refresh"}
Operations == {"GetRuntimeInfo", "GetSettingsSnapshot", "PreviewHudOpacity",
               "CommitHudOpacity", "Set"}
(* How a request ends for the window; the last two are terminal, the two   *)
(* before leave the window open.                                           *)
Outcomes == {"Success", "OperationFailed", "TimedOut", "ShuttingDown", "TransportUnavailable"}

Idle == [stage |-> "idle", operation |-> "none", value |-> None,
         outcome |-> "none", snapshot |-> NoSnapshot]
Request(o, v) == [Idle EXCEPT !.stage = "connecting", !.operation = o, !.value = v]
Calls == [stage : {"idle", "connecting", "sent", "answered"},
          operation : Operations \cup {"none"}, value : Opacities \cup Others \cup {None},
          outcome : Outcomes \cup {"none"}, snapshot : Snapshots \cup {NoSnapshot}]

Free == [owner |-> "nobody", operation |-> "none", value |-> None]

Coordinators == [active : BOOLEAN, ending : {"no", "draining", "committing"},
                 discrete : BOOLEAN, dirty : BOOLEAN, pumping : BOOLEAN,
                 value : Opacities \cup {None}, pending : Opacities \cup {None},
                 last : Opacities \cup {None}]
NoGesture == [active |-> FALSE, ending |-> "no", discrete |-> FALSE, dirty |-> FALSE,
              pumping |-> FALSE, value |-> None, pending |-> None, last |-> None]

Flags == [mutation : BOOLEAN, refresh : BOOLEAN, sizing : BOOLEAN]
NoFlags == [mutation |-> FALSE, refresh |-> FALSE, sizing |-> FALSE]

TypeOK ==
    /\ rt \in {"up", "stopping", "down"}
    /\ live \in Opacities /\ saved \in Opacities /\ other \in Others
    /\ slot \in [owner : Flows \cup {"nobody", "orphan"}, operation : Operations \cup {"none"},
                 value : Opacities \cup Others \cup {None}]
    /\ call \in [Flows -> Calls]
    /\ load \in {"info", "snapshot", "done"}
    /\ window \in {"open", "lost", "closed"}
    /\ snapshot \in Snapshots \cup {NoSnapshot}
    /\ g \in Coordinators
    /\ flags \in Flags
    /\ size \in Others
    /\ hand \in {"off", "opacity", "size"}
    /\ thumb \in Opacities
    /\ wanted \in Opacities
    /\ failed \in BOOLEAN /\ stale \in BOOLEAN
    /\ acts \in 0..MaxActs /\ faults \in 0..MaxFaults

MinOpacityPercent == CHOOSE v \in Opacities : \A w \in Opacities : v <= w

Init ==
    /\ rt = "up"
    /\ live \in Opacities /\ saved = live
    /\ other \in Others
    /\ slot = Free
    /\ call = [f \in Flows |-> IF f = "load" THEN Request("GetRuntimeInfo", None) ELSE Idle]
    /\ load = "info"
    /\ window = "open"
    /\ snapshot = NoSnapshot
    /\ g = NoGesture
    /\ flags = NoFlags
    /\ size = other
    /\ hand = "off"
    /\ thumb = MinOpacityPercent
    /\ wanted = live
    /\ failed = FALSE /\ stale = FALSE
    /\ acts = 0 /\ faults = 0

(***************************************************************************)
(* The runtime and the pipe.                                               *)
(***************************************************************************)

(* What an operation that is executed does.  A commit persists also what   *)
(* a preview has already applied.  A setter can fail and roll back; a      *)
(* setter that changed something saves every setting.  That the write of   *)
(* the file fails, which App::SaveHudSettings only logs, is left out: no   *)
(* answer tells of it.                                                     *)
Execute(o, v) ==
    CASE o = "PreviewHudOpacity" -> live' = v /\ UNCHANGED <<saved, other>>
      [] o = "CommitHudOpacity" -> live' = v /\ saved' = v /\ UNCHANGED other
      [] o = "Set" -> /\ other' \in {v, other}
                      /\ saved' = IF other' # other THEN live ELSE saved
                      /\ UNCHANGED live
      [] OTHER -> UNCHANGED <<live, saved, other>>

(* ConnectAsync: the instance is free and the pipe is still there.         *)
Connect(f) ==
    /\ call[f].stage = "connecting"
    /\ slot = Free /\ rt # "down"
    /\ call' = [call EXCEPT ![f].stage = "sent"]
    /\ slot' = [owner |-> f, operation |-> call[f].operation, value |-> call[f].value]
    /\ UNCHANGED <<runtimeVars, windowVars, ghosts, acts, faults>>

Answered(f, outcome) ==
    call' = [call EXCEPT ![f].stage = "answered", ![f].outcome = outcome,
                         ![f].snapshot = IF outcome = "Success"
                                         THEN [opacity |-> live', other |-> other']
                                         ELSE NoSnapshot]

(* The main thread executes the request and the answer reaches the client. *)
Serve(f) ==
    /\ slot.owner = f
    /\ slot' = Free
    /\ UNCHANGED <<rt, windowVars, wanted, failed, acts>>
    /\ \/ /\ rt = "up"
          /\ Execute(slot.operation, slot.value)
          /\ Answered(f, "Success")
          /\ stale' = (slot.operation = "GetRuntimeInfo" /\ stale)
          /\ UNCHANGED faults
       \/ /\ rt = "up" /\ faults < MaxFaults
          /\ faults' = faults + 1
          /\ slot.operation # "GetRuntimeInfo"
          /\ UNCHANGED <<live, saved, other, stale>>
          /\ Answered(f, "OperationFailed")
       \/ /\ rt # "up"
          /\ UNCHANGED <<live, saved, other, stale, faults>>
          /\ Answered(f, IF rt = "stopping" THEN "ShuttingDown" ELSE "TransportUnavailable")

(* Three seconds pass.  A request that was sent stays with the runtime.    *)
TimeOut(f) ==
    /\ \/ faults < MaxFaults /\ faults' = faults + 1
       \/ rt = "down" /\ UNCHANGED faults
    /\ \/ call[f].stage = "connecting" /\ UNCHANGED slot
       \/ call[f].stage = "sent" /\ slot' = [slot EXCEPT !.owner = "orphan"]
    /\ call' = [call EXCEPT ![f].stage = "answered", ![f].outcome = "TimedOut"]
    /\ UNCHANGED <<runtimeVars, windowVars, ghosts, acts>>

(* A request whose client is gone is executed late, or not at all.         *)
ServeOrphan ==
    /\ slot.owner = "orphan"
    /\ slot' = Free
    /\ \/ rt = "up" /\ Execute(slot.operation, slot.value) /\ stale' = TRUE
       \/ UNCHANGED <<live, saved, other, stale>>
    /\ UNCHANGED <<rt, call, windowVars, wanted, failed, acts, faults>>

(* Another client of the pipe switches the HUD (App::SetHudEnabled): only  *)
(* that setting is saved.  The menu of the tray changes no setting.        *)
OtherClientChange ==
    /\ rt = "up" /\ slot = Free
    /\ faults < MaxFaults
    /\ faults' = faults + 1
    /\ other' \in Others \ {other}
    /\ stale' = TRUE
    /\ UNCHANGED <<rt, live, saved, slot, call, windowVars, wanted, failed, acts>>

RuntimeStops ==
    /\ rt # "down"
    /\ rt' = IF rt = "up" THEN "stopping" ELSE "down"
    /\ UNCHANGED <<live, saved, other, slot, call, windowVars, ghosts, acts, faults>>

(***************************************************************************)
(* The window.                                                             *)
(***************************************************************************)

IsBusy(c) == c.active \/ c.ending # "no" \/ c.discrete
Occupied == flags # NoFlags \/ IsBusy(g)
CanStartInteraction == snapshot # NoSnapshot /\ ~Occupied
IsOpacitySliderEnabled == snapshot # NoSnapshot /\ flags = NoFlags
IsHudSizeSliderEnabled ==
    /\ snapshot # NoSnapshot /\ ~flags.mutation /\ ~flags.refresh
    /\ flags.sizing \/ ~IsBusy(g)

SliderOpacityValue(c, s) ==
    IF c.active THEN c.value ELSE IF s = NoSnapshot THEN MinOpacityPercent ELSE s.opacity
(* PropertyChanged puts the opacity slider where the view model has it.    *)
RaiseAllChanged == thumb' = SliderOpacityValue(g', snapshot')

(* What a flow makes of its answer: the snapshot it carries, or a close    *)
(* that is posted when the answer proves the runtime lost.                 *)
IsTerminal(outcome) == outcome \in {"ShuttingDown", "TransportUnavailable"}
Accept(answer) ==
    IF answer.outcome = "Success"
    THEN snapshot' = answer.snapshot /\ UNCHANGED window
    ELSE /\ UNCHANGED snapshot
         /\ window' = IF IsTerminal(answer.outcome) THEN "lost" ELSE window

Issue(f, o, v) == call' = [call EXCEPT ![f] = Request(o, v)]
Finish(f) == call' = [call EXCEPT ![f] = Idle]

(* The user acts on an open window.                                        *)
Acting ==
    /\ window = "open" /\ acts < MaxActs
    /\ acts' = acts + 1
    /\ UNCHANGED <<runtimeVars, slot, load, window, snapshot, failed, stale, faults>>

(* The process ends: what it has sent stays with the runtime.              *)
Close ==
    /\ window' = "closed"
    /\ call' = [f \in Flows |-> Idle]
    /\ slot' = IF slot.owner \in Flows THEN [slot EXCEPT !.owner = "orphan"] ELSE slot
    /\ snapshot' = NoSnapshot /\ g' = NoGesture /\ flags' = NoFlags
    /\ hand' = "off" /\ thumb' = MinOpacityPercent
    /\ UNCHANGED <<runtimeVars, load, size, ghosts, acts, faults>>

CloseWindow == window = "open" /\ acts < MaxActs /\ Close
CloseFromRuntimeLoss == window = "lost" /\ Close

(* OnLoadedAsync: any failure, and a runtime of another protocol version,  *)
(* closes the window.                                                      *)
OnLoaded ==
    /\ call["load"].stage = "answered"
    /\ IF call["load"].outcome # "Success"
       THEN Close
       ELSE /\ \/ /\ load = "info"
                  /\ load' = "snapshot"
                  /\ Issue("load", "GetSettingsSnapshot", None)
                  /\ UNCHANGED <<snapshot, thumb>>
               \/ /\ load = "snapshot"
                  /\ load' = "done"
                  /\ Finish("load")
                  /\ snapshot' = call["load"].snapshot
                  /\ thumb' = SliderOpacityValue(g, snapshot')
            /\ UNCHANGED <<runtimeVars, slot, window, g, flags, size, hand, ghosts, acts, faults>>

IncompatibleRuntime ==
    /\ load = "info" /\ call["load"].outcome = "Success"
    /\ Close

(* A discrete control: SelectVisibilityModeAsync and its like, the toggles *)
(* and ChangeHudSizeAsync.                                                 *)
Mutate(v) ==
    IF v = snapshot.other \/ ~CanStartInteraction
    THEN UNCHANGED <<call, flags>>
    ELSE /\ flags' = [flags EXCEPT !.mutation = TRUE]
         /\ Issue("mutation", "Set", v)

Choose(v) ==
    /\ Acting
    /\ hand = "off"
    /\ CanStartInteraction
    /\ Mutate(v)
    /\ UNCHANGED <<g, size, hand, wanted>>
    /\ RaiseAllChanged

BeginHudSizeInteraction ==
    /\ Acting
    /\ hand = "off" /\ IsHudSizeSliderEnabled
    /\ hand' = "size"
    /\ IF CanStartInteraction
       THEN flags' = [flags EXCEPT !.sizing = TRUE] /\ size' = snapshot.other
       ELSE UNCHANGED <<flags, size>>
    /\ UNCHANGED <<call, g, thumb, wanted>>

OnHudSizeValueChanged(v) ==
    /\ Acting
    /\ hand = "size" /\ IsHudSizeSliderEnabled
    /\ IF flags.sizing
       THEN size' = v /\ UNCHANGED <<call, flags>>
       ELSE Mutate(v) /\ UNCHANGED size
    /\ UNCHANGED <<g, hand, wanted>>
    /\ RaiseAllChanged

(* The hand comes off by itself: this is not counted as an act.            *)
EndHudSizeInteraction ==
    /\ window = "open" /\ hand = "size"
    /\ hand' = "off"
    /\ IF ~flags.sizing
       THEN UNCHANGED <<flags, call>>
       ELSE IF size = snapshot.other
       THEN flags' = [flags EXCEPT !.sizing = FALSE] /\ UNCHANGED call
       ELSE flags' = [flags EXCEPT !.mutation = TRUE] /\ Issue("mutation", "Set", size)
    /\ UNCHANGED <<runtimeVars, slot, load, window, snapshot, g, size, ghosts, acts, faults>>
    /\ RaiseAllChanged

(* The rest of Mutate and of EndHudSizeInteractionAsync.                   *)
MutationAnswered ==
    /\ call["mutation"].stage = "answered"
    /\ Accept(call["mutation"])
    /\ Finish("mutation")
    /\ flags' = [flags EXCEPT !.mutation = FALSE, !.sizing = FALSE]
    /\ UNCHANGED <<runtimeVars, slot, load, g, size, hand, ghosts, acts, faults>>
    /\ RaiseAllChanged

\* Mutant: an activation refreshes whatever else is under way.
RefreshAlways ==
    /\ Acting
    /\ load = "done" /\ snapshot # NoSnapshot /\ ~flags.refresh
    /\ flags' = [flags EXCEPT !.refresh = TRUE]
    /\ Issue("refresh", "GetSettingsSnapshot", None)
    /\ UNCHANGED <<g, size, hand, wanted>>
    /\ RaiseAllChanged

RefreshOnActivation ==
    /\ Acting
    /\ hand = "off" /\ load = "done"
    /\ CanStartInteraction
    /\ flags' = [flags EXCEPT !.refresh = TRUE]
    /\ Issue("refresh", "GetSettingsSnapshot", None)
    /\ UNCHANGED <<g, size, hand, wanted>>
    /\ RaiseAllChanged

RefreshAnswered ==
    /\ call["refresh"].stage = "answered"
    /\ Accept(call["refresh"])
    /\ Finish("refresh")
    /\ flags' = [flags EXCEPT !.refresh = FALSE]
    /\ UNCHANGED <<runtimeVars, slot, load, g, size, hand, ghosts, acts, faults>>
    /\ RaiseAllChanged

(***************************************************************************)
(* The opacity slider and OpacityInteractionCoordinator.                   *)
(***************************************************************************)

BeginOpacityInteraction ==
    /\ Acting
    /\ hand = "off" /\ IsOpacitySliderEnabled
    /\ hand' = "opacity"
    /\ IF CanStartInteraction
       THEN g' = [NoGesture EXCEPT !.active = TRUE, !.value = snapshot.opacity]
       ELSE UNCHANGED g
    /\ UNCHANGED <<call, flags, size, wanted>>
    /\ RaiseAllChanged

(* Update: the newest value waits for the pump, which is started when it   *)
(* does not run; a value that was previewed last is not sent again.        *)
Update(v) ==
    IF g.ending # "no" \/ v = g.value
    THEN thumb' = v /\ UNCHANGED <<g, call, wanted>>
    ELSE LET start == ~g.pumping /\ v # g.last
             after == [g EXCEPT !.value = v, !.dirty = TRUE]
         IN  /\ g' = IF start THEN [after EXCEPT !.pumping = TRUE, !.pending = None]
                     ELSE IF g.pumping THEN [after EXCEPT !.pending = v] ELSE after
             /\ IF start THEN Issue("pump", "PreviewHudOpacity", v) ELSE UNCHANGED call
             /\ wanted' = v
             /\ thumb' = v

(* ChangeAndCommitAsync, for a slider that is moved without a gesture.     *)
ChangeAndCommit(v) ==
    IF ~CanStartInteraction \/ v = snapshot.opacity
    THEN thumb' = v /\ UNCHANGED <<g, call, wanted>>
    ELSE /\ g' = [g EXCEPT !.discrete = TRUE]
         /\ Issue("commit", "CommitHudOpacity", v)
         /\ wanted' = v
         /\ thumb' = snapshot.opacity

(* A drag, a key or a click on the track.                                  *)
OnOpacityValueChanged(v) ==
    /\ Acting
    /\ hand # "size" /\ IsOpacitySliderEnabled
    /\ v # thumb
    /\ IF g.active THEN Update(v) ELSE ChangeAndCommit(v)
    /\ UNCHANGED <<flags, size, hand>>

(* EndAsync once the pump is over: one commit if anything changed.         *)
CommitGesture(c) ==
    IF c.dirty
    THEN g' = [c EXCEPT !.ending = "committing"] /\ Issue("commit", "CommitHudOpacity", c.value)
    ELSE g' = NoGesture /\ UNCHANGED call

\* Mutant: the commit does not wait for the preview that is under way.
EndWithoutDraining ==
    /\ window = "open" /\ hand = "opacity"
    /\ hand' = "off"
    /\ IF ~g.active \/ g.ending # "no"
       THEN UNCHANGED <<g, call>>
       ELSE CommitGesture([g EXCEPT !.pending = None])
    /\ UNCHANGED <<runtimeVars, slot, load, window, snapshot, flags, size, ghosts, acts, faults>>
    /\ RaiseAllChanged

EndOpacityInteraction ==
    /\ window = "open" /\ hand = "opacity"
    /\ hand' = "off"
    /\ IF ~g.active \/ g.ending # "no"
       THEN UNCHANGED <<g, call>>
       ELSE IF g.pumping
       THEN g' = [g EXCEPT !.ending = "draining", !.pending = None] /\ UNCHANGED call
       ELSE CommitGesture([g EXCEPT !.pending = None])
    /\ UNCHANGED <<runtimeVars, slot, load, window, snapshot, flags, size, ghosts, acts, faults>>
    /\ RaiseAllChanged

EndAfterPump ==
    /\ g.ending = "draining" /\ ~g.pumping
    /\ CommitGesture(g)
    /\ UNCHANGED <<runtimeVars, slot, load, window, snapshot, flags, size, hand, ghosts, acts, faults>>
    /\ RaiseAllChanged

(* RunPreviewPumpAsync after an answer: the next pending value, or the end.*)
PreviewAnswered ==
    LET answer == call["pump"]
        last == IF answer.outcome = "Success" THEN answer.value ELSE g.last
        over == g.ending # "no" \/ g.pending \in {None, last}
    IN  /\ answer.stage = "answered"
        /\ Accept(answer)
        /\ failed' = (failed \/ answer.outcome # "Success")
        /\ g' = [g EXCEPT !.last = last, !.pending = None, !.pumping = ~over]
        /\ IF over THEN Finish("pump") ELSE Issue("pump", "PreviewHudOpacity", g.pending)
        /\ UNCHANGED <<runtimeVars, slot, load, flags, size, hand, wanted, stale, acts, faults>>
        /\ RaiseAllChanged

\* Mutant: only a commit that succeeded ends the interaction.
CommitFailureForgotten ==
    /\ call["commit"].stage = "answered"
    /\ Accept(call["commit"])
    /\ failed' = (call["commit"].outcome # "Success")
    /\ Finish("commit")
    /\ g' = IF failed' THEN g ELSE NoGesture
    /\ UNCHANGED <<runtimeVars, slot, load, flags, size, hand, wanted, stale, acts, faults>>
    /\ RaiseAllChanged

(* The rest of EndAsync and of ChangeAndCommitAsync.                       *)
CommitAnswered ==
    /\ call["commit"].stage = "answered"
    /\ Accept(call["commit"])
    /\ failed' = (call["commit"].outcome # "Success")
    /\ Finish("commit")
    /\ g' = NoGesture
    /\ UNCHANGED <<runtimeVars, slot, load, flags, size, hand, wanted, stale, acts, faults>>
    /\ RaiseAllChanged

-----------------------------------------------------------------------------
UserStep ==
    \/ BeginHudSizeInteraction \/ EndHudSizeInteraction \/ RefreshOnActivation
    \/ BeginOpacityInteraction \/ EndOpacityInteraction \/ CloseWindow
    \/ \E v \in Others : Choose(v) \/ OnHudSizeValueChanged(v)
    \/ \E v \in Opacities : OnOpacityValueChanged(v)

(* The continuations the UI thread runs.                                   *)
WindowStep ==
    \/ OnLoaded \/ IncompatibleRuntime \/ MutationAnswered \/ RefreshAnswered
    \/ PreviewAnswered \/ CommitAnswered \/ EndAfterPump \/ CloseFromRuntimeLoss

PipeStep == ServeOrphan \/ \E f \in Flows : Connect(f) \/ Serve(f)

Next ==
    \/ UserStep \/ WindowStep \/ PipeStep
    \/ OtherClientChange \/ RuntimeStops
    \/ \E f \in Flows : TimeOut(f)

(* A request to a runtime that is gone runs into its time limit.           *)
GoneTimeOut == rt = "down" /\ \E f \in Flows : TimeOut(f)

(* The UI thread runs what is posted to it; a runtime that is up serves    *)
(* its pipe.                                                               *)
Fairness ==
    /\ WF_vars(WindowStep)
    /\ WF_vars(PipeStep)
    /\ WF_vars(GoneTimeOut)

Spec == Init /\ [][Next]_vars /\ Fairness

(***************************************************************************)
(* Properties.                                                             *)
(***************************************************************************)

(* Nothing is on its way, on either side.                                  *)
AtRest == slot = Free /\ load = "done" /\ ~Occupied /\ window # "closed"

(* The last value the window took from the slider is the one the HUD shows *)
(* and the one in settings.ini, unless an opacity request failed: a late   *)
(* preview cannot overtake the commit, a commit is made although a preview *)
(* already reports its value, and no value of the drag is skipped.         *)
LastOpacityWins == (AtRest /\ ~failed) => live = wanted /\ saved = wanted

(* What the window shows at rest, the slider included, is what the runtime *)
(* has, unless the runtime changed behind its back: an earlier answer that *)
(* is delivered late never replaces a newer one, a failed or refused       *)
(* change snaps back.                                                      *)
WindowShowsRuntime ==
    AtRest =>
        /\ ~stale => snapshot = [opacity |-> live, other |-> other]
        /\ thumb = snapshot.opacity

(* The window is never left disabled: an interaction that waits for the    *)
(* runtime ends, answered or not, and a proof that the runtime is lost     *)
(* closes the window.                                                      *)
InteractionEnds ==
    []<>(/\ g.ending = "no" /\ ~g.discrete
         /\ ~flags.mutation /\ ~flags.refresh
         /\ window # "lost")
=============================================================================
