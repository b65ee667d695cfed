------------------------------ MODULE MCTweaks ------------------------------
(***************************************************************************)
(* Model checking of TweakStartup and IntelVrr in one run: the coordinator *)
(* sees of an Intel VRR attempt only its result, so a behaviour moves one  *)
(* of the two, chosen in Init.                                             *)
(***************************************************************************)
EXTENDS TweakStartup, IntelVrr, TLC

VARIABLE part

\* Two outputs and two devices: nothing, one display, two displays, a cloned
\* source, and two displays one of which is not touched.
CONSTANTS t1, t2

MCTargets == {t1, t2}

Output(source, boost, fit) ==
    [source |-> source, boost |-> boost, fit |-> fit, color |-> TRUE]

MCStartDesks ==
    {<<>>,
     t1 :> Output(1, TRUE, TRUE),
     (t1 :> Output(1, FALSE, TRUE)) @@ (t2 :> Output(2, FALSE, TRUE)),
     (t1 :> Output(1, TRUE, TRUE)) @@ (t2 :> Output(2, FALSE, TRUE)),
     (t1 :> Output(1, FALSE, TRUE)) @@ (t2 :> Output(1, FALSE, TRUE)),
     (t1 :> Output(1, FALSE, FALSE)) @@ (t2 :> Output(2, FALSE, TRUE))}

\* Two panels.
CONSTANTS inner, lg

MCKinds == {inner :> "Claw" @@ lg :> "Lg", inner :> "Claw7" @@ lg :> "Lg"}

\* As shipped, narrowed by a standard profile, made right before, almost right,
\* and the user's own.
MCFound == {[profile |-> "Recommended", range |-> "narrow"],
            [profile |-> "Excellent", range |-> "full"],
            [profile |-> "Recommended", range |-> "near"],
            [profile |-> "Custom", range |-> "odd"]}

allVars == <<part, vars, vrrVars>>

\* The two outputs are alike: a panel starts at its own or unplugged.
MCInit ==
    /\ part \in {"modes", "vrr"}
    /\ Init
    /\ VrrInit
    /\ IF part = "modes"
         THEN /\ kind[inner] = "Claw" /\ driver = [m \in Monitors |-> CHOOSE f \in Found : TRUE]
              /\ port = [t \in TargetIds |-> NoMonitor]
         ELSE desk = <<>> /\ ~startup.enabled /\ port[t1] # lg /\ port[t2] # inner

MCNext ==
    /\ UNCHANGED part
    /\ \/ part = "modes" /\ Next /\ UNCHANGED vrrVars
       \/ part = "vrr" /\ VrrNext /\ UNCHANGED vars

MCSpec ==
    /\ MCInit
    /\ [][MCNext]_allVars
    /\ WF_allVars(part = "modes" /\ Worker /\ UNCHANGED <<part, vrrVars>>)
    /\ WF_allVars(part = "modes" /\ Joined /\ UNCHANGED <<part, vrrVars>>)

(* The worker of the coordinator ends by itself, and a stop joins it,      *)
(* having waited for one attempt at most.                                  *)
TweakWorkerEnds ==
    /\ []OneAttemptAfterStop
    /\ part = "modes" => StartupEnds
=============================================================================
