----------------------------- MODULE MCStartup -----------------------------
(***************************************************************************)
(* Model checking of Startup and of TrayIcon in one run: the two share     *)
(* nothing, so a behaviour moves one of them, chosen in Init.  Startup is  *)
(* taken twice: with changes of the task from outside for what must never  *)
(* be, and without them, but fair, for what must come.                     *)
(***************************************************************************)
EXTENDS Startup, TrayIcon

VARIABLE part

MCInit ==
    /\ part \in {"startup", "ends", "tray"}
    /\ Init
    /\ TrayInit
    /\ IF part = "tray" THEN board = "Supported" ELSE shell.up

MCNext ==
    /\ UNCHANGED part
    /\ \/ part = "startup" /\ Next /\ UNCHANGED trayVars
       \/ part = "ends" /\ Next /\ UNCHANGED <<outside, trayVars>>
       \/ part = "tray" /\ TrayNext /\ UNCHANGED vars

(* Fairness of the part that moves; the two actions of the tray are paired *)
(* with the two slots only to keep the number of conditions small.         *)
MCRuns(p) ==
    \/ part = "ends" /\ Runs(p) /\ UNCHANGED <<part, trayVars>>
    \/ /\ part = "tray"
       /\ IF p = 1 THEN RetryAddIcon ELSE TaskbarCreated
       /\ UNCHANGED <<part, vars>>

MCSpec ==
    /\ MCInit
    /\ [][MCNext]_<<vars, trayVars, part>>
    /\ \A p \in Proc : WF_<<vars, trayVars, part>>(MCRuns(p))

(* Every start ends, and the icon comes back to a shell that restarted; the *)
(* types of the tray.                                                       *)
StartupSettles == (part = "ends" => StartEnds) /\ IconReturns /\ []TrayTypeOK
=============================================================================
