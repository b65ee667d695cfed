------------------------------ MODULE TrayIcon ------------------------------
(***************************************************************************)
(* The notification icon of a Standalone process (TrayIcon.cpp) and the    *)
(* shell that shows it.  At logon the taskbar may not exist yet, a busy    *)
(* shell may refuse the icon, and a restarted Explorer forgets it and      *)
(* announces itself with TaskbarCreated, which competes with the retry     *)
(* timer of an earlier failure.  SetTimer is assumed to succeed.           *)
(***************************************************************************)
EXTENDS Naturals

CONSTANTS
    MaxRetryAttempts,  \* kTrayMaxRetryAttempts
    MaxRefusals,       \* bound: NIM_ADD refused by a running shell
    MaxShells          \* bound: times the shell starts

ASSUME BoundsAssumption == MaxRefusals \in 0..(MaxRetryAttempts - 1)

VARIABLES
    tray,      \* the members of TrayIcon and its retry timer
    shell,     \* Explorer: up or not, and whether it shows the icon
    created,   \* TaskbarCreated messages not yet handled
    refusals, shells

trayVars == <<tray, shell, created, refusals, shells>>

-----------------------------------------------------------------------------
Trays == [window : BOOLEAN, icon : BOOLEAN, timer : BOOLEAN, attempts : 0..MaxRetryAttempts]
NoTray == [window |-> FALSE, icon |-> FALSE, timer |-> FALSE, attempts |-> 0]

TrayInit ==
    /\ tray = NoTray
    /\ shell \in [up : BOOLEAN, icon : {FALSE}]
    /\ created = 0
    /\ refusals = 0
    /\ shells = 0

TrayTypeOK ==
    /\ tray \in Trays
    /\ shell \in [up : BOOLEAN, icon : BOOLEAN]
    /\ created \in 0..MaxShells
    /\ refusals \in 0..MaxRefusals
    /\ shells \in 0..MaxShells
    /\ ~tray.window => tray = NoTray

(* AddIcon: Shell_NotifyIcon(NIM_ADD), which only a running shell grants   *)
(* and a busy one refuses.                                                 *)
AddIcon(granted) ==
    IF granted
    THEN shell.up /\ shell' = [shell EXCEPT !.icon = TRUE] /\ UNCHANGED refusals
    ELSE /\ UNCHANGED shell
         /\ shell.up => refusals < MaxRefusals
         /\ refusals' = IF shell.up THEN refusals + 1 ELSE refusals

StartAddRetry(t) == [t EXCEPT !.timer = TRUE, !.attempts = 0]
StopAddRetry(t) == [t EXCEPT !.timer = FALSE, !.attempts = 0]

CreateTrayIcon ==
    /\ ~tray.window
    /\ \E granted \in BOOLEAN :
        /\ AddIcon(granted)
        /\ tray' = LET window == [tray EXCEPT !.window = TRUE, !.icon = granted]
                   IN  IF granted THEN window ELSE StartAddRetry(window)
    /\ UNCHANGED <<created, shells>>

(* The retry timer, once a second.                                         *)
RetryAddIcon ==
    /\ tray.timer
    /\ ~tray.icon
    /\ tray.attempts < MaxRetryAttempts
    /\ \E granted \in BOOLEAN :
        /\ AddIcon(granted)
        /\ tray' = LET tried == [tray EXCEPT !.icon = granted, !.attempts = @ + 1]
                   IN  IF granted \/ tried.attempts = MaxRetryAttempts
                       THEN StopAddRetry(tried) ELSE tried
    /\ UNCHANGED <<created, shells>>

TaskbarCreatedOnce == \* mutant: no new round of retries for a new shell
    /\ created > 0
    /\ created' = created - 1
    /\ IF tray.window
       THEN \E granted \in BOOLEAN :
            /\ AddIcon(granted)
            /\ tray' = [StopAddRetry(tray) EXCEPT !.icon = granted]
       ELSE UNCHANGED <<tray, shell, refusals>>
    /\ UNCHANGED shells

(* A new shell knows no icon, whatever created_ says.                      *)
TaskbarCreated ==
    /\ created > 0
    /\ created' = created - 1
    /\ IF tray.window
       THEN \E granted \in BOOLEAN :
            /\ AddIcon(granted)
            /\ tray' = LET stopped == [StopAddRetry(tray) EXCEPT !.icon = granted]
                       IN  IF granted THEN stopped ELSE StartAddRetry(stopped)
       ELSE UNCHANGED <<tray, shell, refusals>>
    /\ UNCHANGED shells

DestroyTray ==
    /\ tray.window
    /\ tray' = NoTray
    /\ shell' = IF tray.icon THEN [shell EXCEPT !.icon = FALSE] ELSE shell
    /\ UNCHANGED <<created, refusals, shells>>

-----------------------------------------------------------------------------
(* Explorer ends and takes its icons with it, or starts and announces      *)
(* itself to the windows there are.                                        *)
ShellEnds ==
    /\ shell.up
    /\ shell' = [up |-> FALSE, icon |-> FALSE]
    /\ UNCHANGED <<tray, created, refusals, shells>>

ShellStarts ==
    /\ ~shell.up
    /\ shells < MaxShells
    /\ shells' = shells + 1
    /\ shell' = [up |-> TRUE, icon |-> FALSE]
    /\ created' = IF tray.window THEN created + 1 ELSE created
    /\ UNCHANGED <<tray, refusals>>

TrayNext ==
    \/ CreateTrayIcon \/ RetryAddIcon \/ TaskbarCreated \/ DestroyTray
    \/ ShellEnds \/ ShellStarts

(* The message loop delivers messages and timer ticks.                     *)
TrayFairness == WF_trayVars(RetryAddIcon) /\ WF_trayVars(TaskbarCreated)

-----------------------------------------------------------------------------
(* A shell that stays up ends up showing the icon, in whatever order its   *)
(* announcement, the retry timer and refusals arrive, as long as it does   *)
(* not refuse a whole round of retries.                                    *)
IconReturns ==
    (tray.window /\ shell.up) ~> (shell.icon \/ ~shell.up \/ ~tray.window)
=============================================================================
