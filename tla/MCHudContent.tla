---------------------------- MODULE MCHudContent ----------------------------
(***************************************************************************)
(* Model checking of what the HUD shows: the frame rate (FpsTelemetry), the *)
(* system metrics (SystemTelemetry) and, from HudLifecycle, the settings   *)
(* they are shown with.  The three share nothing: a behaviour moves one.   *)
(***************************************************************************)
EXTENDS FpsTelemetry, SystemTelemetry, HudLifecycle, TLC

CONSTANTS a, b, c

VARIABLE part

MCPidOf == a :> 1 @@ b :> 1 @@ c :> 2

MCInit ==
    /\ FpsInit /\ SystemInit /\ Init
    /\ \/ part = "fps" /\ ~plugged
       \/ part = "system" /\ session = Closed /\ fps.mode = "Always"
       \/ part = "settings" /\ ~plugged /\ session = Closed /\ fps.mode = "Always"
    \* the parts that ignore the settings start with one choice of them
    /\ part # "settings" => /\ ~app.saved.enabled /\ app.mode = "Always"
                            /\ app.option = (CHOOSE o \in Options : TRUE)
                            /\ app.opacity = (CHOOSE p \in Opacities : TRUE)

MCNext ==
    /\ UNCHANGED part
    /\ \/ part = "fps" /\ FpsNext /\ UNCHANGED <<systemVars, app>>
       \/ part = "system" /\ SystemNext /\ UNCHANGED <<fpsVars, app>>
       \/ part = "settings" /\ Next /\ UNCHANGED <<fpsVars, systemVars>>

MCSpec == MCInit /\ [][MCNext]_<<fpsVars, systemVars, app, part>>
=============================================================================
