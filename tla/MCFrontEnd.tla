----------------------------- MODULE MCFrontEnd -----------------------------
(***************************************************************************)
(* Model checking of FrontEnd, FrontEndProcess and WireProtocol in one     *)
(* run: the three share nothing, so a behaviour moves one of them, chosen  *)
(* in Init, and the others stay at one initial state.                      *)
(***************************************************************************)
EXTENDS FrontEnd, FrontEndProcess, WireProtocol

VARIABLE part

MCTexts == {<<195>>, <<65, 0>>, <<237, 160, 128>>}

allVars == <<part, vars, procVars, wireVars>>

(* The window starts with one opacity and one setting: it tells values     *)
(* apart only by comparing them.                                           *)
MCInit ==
    /\ part \in {"window", "process", "wire"}
    /\ Init /\ live = 2 /\ other = 0
    /\ ProcInit
    /\ WireInit
    /\ part # "wire" => /\ asked.name = "GetRuntimeInfo"
                        /\ settings.backgroundOpacityPercent = 70
                        /\ settings.result = NoResult

MCNext ==
    /\ UNCHANGED part
    /\ \/ part = "window" /\ Next /\ UNCHANGED <<procVars, wireVars>>
       \/ part = "process" /\ ProcNext /\ UNCHANGED <<vars, wireVars>>
       \/ part = "wire" /\ WireNext /\ UNCHANGED <<vars, procVars>>

(* Fairness of the part that moves; the conditions of the window are       *)
(* paired with the processes only to keep their number small.              *)
MCRuns(p) ==
    /\ UNCHANGED <<part, wireVars>>
    /\ \/ /\ part = "window" /\ UNCHANGED procVars
          /\ CASE p = 1 -> WindowStep
               [] p = 2 -> PipeStep
               [] OTHER -> GoneTimeOut
       \/ part = "process" /\ ProcStep(p) /\ UNCHANGED vars

MCSpec == MCInit /\ [][MCNext]_allVars /\ \A p \in Launches : WF_allVars(MCRuns(p))

(* Interactions with the window end, and its process follows the           *)
(* runtime's; types of both parts.                                         *)
FrontEndSettles == [](TypeOK /\ ProcTypeOK) /\ InteractionEnds /\ ProcessKeepsUp
=============================================================================
