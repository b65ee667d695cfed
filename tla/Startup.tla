------------------------------ MODULE Startup ------------------------------
(***************************************************************************)
(* Starting and ending ClawHUD: wWinMain, the single-instance gate, the    *)
(* ordered start-up gates of App::Run (self-update, hardware, PresentMon   *)
(* runtime, start-up task, windows, sources, Control pipe), the tear-down  *)
(* in App::Exit and ~App, and the settings that outlive a process.         *)
(*                                                                         *)
(* Several processes of one user session run at once: the first, a second  *)
(* launch, a --managed launch by an owner, the uninstall hook.  Any of     *)
(* them may be killed between two steps.                                   *)
(***************************************************************************)
EXTENDS StartupTask

CONSTANT MaxLaunches  \* bound: processes launched

ASSUME LaunchesAssumption == MaxLaunches \in Nat

VARIABLES
    proc,      \* [Proc -> the process in that slot]
    owner,     \* the process that created the instance mutex, or Nobody
    handles,   \* processes with an open handle on it: while any is, it exists
    ini,       \* the stored StartWithWindows
    board,     \* the machine: a supported base board or not
    runtime,   \* the shared PresentMon runtime
    msi,       \* the Windows Installer transaction
    package,   \* the update package of Velopack
    launches   \* processes launched, counted

appVars == <<proc, owner, handles, ini, board, runtime, msi, package, launches>>
vars == <<taskVars, appVars>>

-----------------------------------------------------------------------------
Modes == {"Standalone", "Managed", "Uninstall"}

(* Where wWinMain, App::App, App::Run, App::Exit and ~App stand.           *)
Places == {"none", "main", "mutex", "refused", "update", "download", "hardware",
           "runtime", "installing", "register", "registering", "window", "tray",
           "sources", "tweaks", "control", "loop", "setting",
           "message", "destroy", "release", "join", "uninstalling"}

(* The members of App a start or an end changes: start is startWithWindows_, *)
(* live stands for what ~App stops before it frees the mutex: the message    *)
(* window, the tray, the HUD and everything StopRuntimeSources stops.        *)
(* tweaking is the worker of tweakStartupCoordinator_, from its start until  *)
(* it is joined; it may be done earlier.  stale marks a process whose        *)
(* settings were loaded before a later save of another one.                  *)
Processes == [at : Places, mode : Modes, start : BOOLEAN,
              live : BOOLEAN, tweaking : BOOLEAN, stale : BOOLEAN]
NoProcess == [at |-> "none", mode |-> "Standalone", start |-> TRUE,
              live |-> FALSE, tweaking |-> FALSE, stale |-> FALSE]

Nobody == 0

Standalone(p) == proc[p].mode = "Standalone"
Managed(p) == proc[p].mode = "Managed"
At(p, place) == proc[p].at = place
Goto(p, place) == proc' = [proc EXCEPT ![p].at = place]

(* The process ends: its slot is free and its handles are closed.          *)
Gone(p) ==
    /\ proc' = [proc EXCEPT ![p] = NoProcess]
    /\ handles' = handles \ {p}
    /\ owner' = IF owner = p THEN Nobody ELSE owner

(* Run returns (Managed with an exit code its owner reads, Standalone with *)
(* 0 or 1) and the destructors of App follow.                              *)
Return(p) == Goto(p, "destroy")

(* A gate is not passed: Standalone tells the user in a message box and    *)
(* returns once it is dismissed, Managed returns its code at once.         *)
Abort(p) == Goto(p, IF Managed(p) THEN "destroy" ELSE "message")

(* A fresh machine: nothing is stored, registered or installed.            *)
Init ==
    /\ TaskInit
    /\ proc = [p \in Proc |-> NoProcess]
    /\ owner = Nobody
    /\ handles = {}
    /\ ini = TRUE
    /\ board \in {"Supported", "Unsupported"}
    /\ runtime = "missing"
    /\ msi = "idle"
    /\ package = "none"
    /\ launches = 0

TypeOK ==
    /\ TaskTypeOK
    /\ proc \in [Proc -> Processes]
    /\ owner \in Proc \cup {Nobody}
    /\ handles \subseteq Proc
    /\ owner # Nobody => owner \in handles
    /\ ini \in BOOLEAN
    /\ board \in {"Supported", "Unsupported"}
    /\ runtime \in {"missing", "ready"}
    /\ msi \in {"idle", "running"}
    /\ package \in {"none", "staged"}
    /\ launches \in 0..MaxLaunches

-----------------------------------------------------------------------------
(* wWinMain.  The Velopack hook of an uninstall ends in the hook; every    *)
(* other launch resolves its mode from the arguments.  Velopack ends the   *)
(* running processes before it uninstalls.  The lowest free slot is taken. *)
Launch(p, mode) ==
    /\ At(p, "none")
    /\ \A q \in Proc : q < p => ~At(q, "none")
    /\ launches < MaxLaunches
    /\ mode = "Uninstall" => \A q \in Proc : At(q, "none")
    /\ launches' = launches + 1
    /\ proc' = [proc EXCEPT ![p] = [NoProcess EXCEPT !.at = "main", !.mode = mode]]
    /\ UNCHANGED <<taskVars, owner, handles, ini, board, runtime, msi, package>>

(* CleanupForUninstall: one synchronisation towards "no task".             *)
BeforeUninstall(p) ==
    /\ At(p, "main")
    /\ proc[p].mode = "Uninstall"
    /\ SyncStarts(p, FALSE)
    /\ Goto(p, "uninstalling")
    /\ UNCHANGED <<owner, handles, ini, board, runtime, msi, package, launches>>

Uninstalled(p) ==
    /\ At(p, "uninstalling")
    /\ sync[p].stage = "done"
    /\ sync' = [sync EXCEPT ![p] = NoCall]
    /\ Gone(p)
    /\ UNCHANGED <<task, seen, helper, orphans, known, outside,
                   ini, board, runtime, msi, package, launches>>

(* App::App loads the settings, before the single-instance gate.           *)
LoadSettings(p) ==
    /\ At(p, "main")
    /\ proc[p].mode # "Uninstall"
    /\ proc' = [proc EXCEPT ![p].at = "mutex", ![p].start = ini]
    /\ UNCHANGED <<taskVars, owner, handles, ini, board, runtime, msi, package, launches>>

(* AcquireSingleInstance: the mutex is new only when nobody has it open.   *)
AcquireSingleInstance(p) ==
    /\ At(p, "mutex")
    /\ handles' = handles \cup {p}
    /\ IF handles = {}
       THEN /\ owner' = p
            /\ Goto(p, IF Managed(p) THEN "hardware" ELSE "update")
       ELSE /\ Goto(p, "refused")
            /\ UNCHANGED owner
    /\ UNCHANGED <<taskVars, ini, board, runtime, msi, package, launches>>

(* The loser closes its handle and returns: it has nothing else to stop.   *)
Refused(p) ==
    /\ At(p, "refused")
    /\ Gone(p)
    /\ UNCHANGED <<taskVars, ini, board, runtime, msi, package, launches>>

CreateMutexFails(p) ==
    /\ At(p, "mutex")
    /\ Gone(p)
    /\ UNCHANGED <<taskVars, ini, board, runtime, msi, package, launches>>

-----------------------------------------------------------------------------
(* CheckForUpdates, Standalone only: a package staged earlier is applied,  *)
(* otherwise the bounded feed names an update or nothing; every failure    *)
(* continues with the installed version.                                   *)
NoUpdate(p) ==
    /\ At(p, "update")
    /\ package # "staged"
    /\ Goto(p, "hardware")
    /\ UNCHANGED <<taskVars, owner, handles, ini, board, runtime, msi, package, launches>>

DownloadStarts(p) ==
    /\ At(p, "update")
    /\ package # "staged"
    /\ Goto(p, "download")
    /\ UNCHANGED <<taskVars, owner, handles, ini, board, runtime, msi, package, launches>>

(* A failed download reports failure and removes what it wrote.            *)
DownloadFails(p) ==
    /\ At(p, "download")
    /\ Goto(p, "hardware")
    /\ UNCHANGED <<taskVars, owner, handles, ini, board, runtime, msi, package, launches>>

(* std::exit without the destructors of App: Velopack waits for the end of *)
(* the process and then replaces the program; a complete package counts as *)
(* staged from the download on.                                            *)
DownloadCompletes(p) ==
    /\ At(p, "download")
    /\ package' = "staged"
    /\ Goto(p, "update")
    /\ UNCHANGED <<taskVars, owner, handles, ini, board, runtime, msi, launches>>

ApplyUpdate(p) ==
    /\ At(p, "update")
    /\ package = "staged"
    /\ package' = "none"
    /\ Gone(p)
    /\ UNCHANGED <<taskVars, ini, board, runtime, msi, launches>>

(* UpdatePendingRestart or WaitExitThenApplyUpdates throws: the exception  *)
(* is caught, the package stays staged and the installed version goes on.  *)
ApplyFails(p) ==
    /\ At(p, "update")
    /\ package = "staged"
    /\ Goto(p, "hardware")
    /\ UNCHANGED <<taskVars, owner, handles, ini, board, runtime, msi, package, launches>>

(* CheckSupportedHardware: the board, or no answer from WMI.               *)
Hardware(p) ==
    /\ At(p, "hardware")
    /\ \/ /\ board = "Supported"
          /\ Goto(p, "runtime")
       \/ /\ board = "Unsupported"
          /\ Abort(p)
       \/ Abort(p)
    /\ UNCHANGED <<taskVars, owner, handles, ini, board, runtime, msi, package, launches>>

-----------------------------------------------------------------------------
(* EnsurePresentMonRuntime.  readiness is read again after the installer.  *)
RuntimeReady(p) ==
    /\ At(p, "runtime")
    /\ runtime = "ready"
    /\ Goto(p, "register")
    /\ UNCHANGED <<taskVars, owner, handles, ini, board, runtime, msi, package, launches>>

InstallerUnavailable(p) ==
    /\ At(p, "runtime")
    /\ runtime = "missing"
    /\ Abort(p)
    /\ UNCHANGED <<taskVars, owner, handles, ini, board, runtime, msi, package, launches>>

(* RunInstaller: msiexec is launched elevated.  Windows runs one           *)
(* transaction at a time and refuses a second one.                         *)
RunInstaller(p) ==
    /\ At(p, "runtime")
    /\ runtime = "missing"
    /\ IF msi = "idle"
       THEN msi' = "running" /\ Goto(p, "installing")
       ELSE UNCHANGED msi /\ Abort(p)
    /\ UNCHANGED <<taskVars, owner, handles, ini, board, runtime, package, launches>>

(* Five minutes passed: the transaction is left alone.                     *)
InstallerTimesOut(p) ==
    /\ At(p, "installing")
    /\ Abort(p)
    /\ UNCHANGED <<taskVars, owner, handles, ini, board, runtime, msi, package, launches>>

(* msiexec ends while the process waits: success, a restart needed, an     *)
(* error, or success that the second readiness check does not confirm.     *)
InstallerEnds(p) ==
    /\ At(p, "installing")
    /\ msi' = "idle"
    /\ \/ runtime' = "ready" /\ Goto(p, "register")
       \/ runtime' = "missing" /\ Abort(p)
    /\ UNCHANGED <<taskVars, owner, handles, ini, board, package, launches>>

(* An abandoned transaction ends by itself.                                *)
InstallerEndsAlone ==
    /\ msi = "running"
    /\ \A p \in Proc : ~At(p, "installing")
    /\ msi' = "idle"
    /\ runtime' \in {"missing", "ready"}
    /\ UNCHANGED <<taskVars, proc, owner, handles, ini, board, package, launches>>

(* The user dismisses the message box.                                     *)
Dismiss(p) ==
    /\ At(p, "message")
    /\ Goto(p, "destroy")
    /\ UNCHANGED <<taskVars, owner, handles, ini, board, runtime, msi, package, launches>>

-----------------------------------------------------------------------------
(* ApplyStartupRegistration during the start: Standalone only, and its     *)
(* failure does not stop the start.                                        *)
Register(p) ==
    /\ At(p, "register")
    /\ IF Standalone(p)
       THEN SyncStarts(p, proc[p].start) /\ Goto(p, "registering")
       ELSE Goto(p, "window") /\ UNCHANGED taskVars
    /\ UNCHANGED <<owner, handles, ini, board, runtime, msi, package, launches>>

Registered(p) ==
    /\ At(p, "registering")
    /\ sync[p].stage = "done"
    /\ sync' = [sync EXCEPT ![p] = NoCall]
    /\ Goto(p, "window")
    /\ UNCHANGED <<task, seen, helper, orphans, known, outside,
                   owner, handles, ini, board, runtime, msi, package, launches>>

(* The hidden message window, then the tray in Standalone.                 *)
CreateWindows(p) ==
    /\ At(p, "window")
    /\ \/ proc' = [proc EXCEPT ![p].at = IF Standalone(p) THEN "tray" ELSE "sources",
                               ![p].live = TRUE]
       \/ Return(p)
    /\ UNCHANGED <<taskVars, owner, handles, ini, board, runtime, msi, package, launches>>

CreateTray(p) ==
    /\ At(p, "tray")
    /\ \/ Goto(p, "sources")
       \/ Return(p)
    /\ UNCHANGED <<taskVars, owner, handles, ini, board, runtime, msi, package, launches>>

(* The window source, the Steam watcher, the observation sources, the hot  *)
(* key and the PresentMon provider may fail to start; foreground tracking  *)
(* must not.                                                               *)
StartSources(p) ==
    /\ At(p, "sources")
    /\ \/ Goto(p, "tweaks")
       \/ Return(p)
    /\ UNCHANGED <<taskVars, owner, handles, ini, board, runtime, msi, package, launches>>

(* After the HUD restore the tweak worker starts, then bridge and pipe.    *)
StartTweaks(p) ==
    /\ At(p, "tweaks")
    /\ proc' = [proc EXCEPT ![p].at = "control", ![p].tweaking = TRUE]
    /\ UNCHANGED <<taskVars, owner, handles, ini, board, runtime, msi, package, launches>>

StartControl(p) ==
    /\ At(p, "control")
    /\ \/ Goto(p, "loop")
       \/ IF Managed(p) THEN Return(p) ELSE Goto(p, "loop")
    /\ UNCHANGED <<taskVars, owner, handles, ini, board, runtime, msi, package, launches>>

-----------------------------------------------------------------------------
(* Writing StartWithWindows back: a write may fail, which is only logged.  *)
(* Settings another process loaded before and has not used yet are stale.  *)
SaveStart(p, value, places) ==
    \/ /\ ini' = value
       /\ proc' = [q \in Proc |->
            IF q = p THEN [places EXCEPT !.stale = FALSE]
            ELSE [proc[q] EXCEPT !.stale = IF At(q, "mutex") THEN proc[q].start # value ELSE @]]
    \/ /\ UNCHANGED ini
       /\ proc' = [proc EXCEPT ![p] = [places EXCEPT !.stale = @ \/ ini # value]]

(* SetStartWithWindows: the member changes first, the task next; a refused *)
(* or unverified change of the task takes the member back to what it was,  *)
(* the opposite of what was asked for.                                     *)
SetStartWithWindows(p) ==
    /\ At(p, "loop")
    /\ Standalone(p)
    /\ proc' = [proc EXCEPT ![p].at = "setting", ![p].start = ~@]
    /\ SyncStarts(p, ~proc[p].start)
    /\ UNCHANGED <<owner, handles, ini, board, runtime, msi, package, launches>>

StartWithWindowsKept(p) == \* mutant: the member keeps the wanted value after a refusal
    /\ At(p, "setting")
    /\ sync[p].stage = "done"
    /\ sync' = [sync EXCEPT ![p] = NoCall]
    /\ IF sync[p].ok
       THEN SaveStart(p, proc[p].start, [proc[p] EXCEPT !.at = "loop"])
       ELSE Goto(p, "loop") /\ UNCHANGED ini
    /\ UNCHANGED <<task, seen, helper, orphans, known, outside,
                   owner, handles, board, runtime, msi, package, launches>>

StartWithWindowsSet(p) ==
    /\ At(p, "setting")
    /\ sync[p].stage = "done"
    /\ sync' = [sync EXCEPT ![p] = NoCall]
    /\ IF sync[p].ok
       THEN SaveStart(p, proc[p].start, [proc[p] EXCEPT !.at = "loop"])
       ELSE /\ proc' = [proc EXCEPT ![p].at = "loop", ![p].start = ~@]
            /\ UNCHANGED ini
    /\ UNCHANGED <<task, seen, helper, orphans, known, outside,
                   owner, handles, board, runtime, msi, package, launches>>

(* Every HUD setter saves the whole [HUD] section and StartWithWindows.    *)
SaveHudSettings(p) ==
    /\ At(p, "loop")
    /\ SaveStart(p, proc[p].start, proc[p])
    /\ UNCHANGED <<taskVars, owner, handles, board, runtime, msi, package, launches>>

-----------------------------------------------------------------------------
(* App::Exit, from the tray or from Control: sources, tray and window are  *)
(* gone before the message loop ends; the tweak worker goes on.            *)
Exit(p) ==
    /\ At(p, "loop")
    /\ proc' = [proc EXCEPT ![p].at = "destroy", ![p].live = FALSE]
    /\ UNCHANGED <<taskVars, owner, handles, ini, board, runtime, msi, package, launches>>

DestroyReleasesFirst(p) == \* mutant: the mutex goes first
    /\ At(p, "destroy")
    /\ Goto(p, "release")
    /\ handles' = handles \ {p}
    /\ owner' = IF owner = p THEN Nobody ELSE owner
    /\ UNCHANGED <<taskVars, ini, board, runtime, msi, package, launches>>

(* The body of ~App: sources, HUD, tray and window are stopped first, then *)
(* the mutex goes.  The tweak worker is not among them.                    *)
Destroy(p) ==
    /\ At(p, "destroy")
    /\ proc' = [proc EXCEPT ![p].at = "release", ![p].live = FALSE]
    /\ UNCHANGED <<taskVars, owner, handles, ini, board, runtime, msi, package, launches>>

ReleaseInstance(p) ==
    /\ At(p, "release")
    /\ Goto(p, "join")
    /\ handles' = handles \ {p}
    /\ owner' = IF owner = p THEN Nobody ELSE owner
    /\ UNCHANGED <<taskVars, ini, board, runtime, msi, package, launches>>

(* The members are destroyed after the body of ~App: the destructor of the *)
(* tweak coordinator tells its worker to stop and joins it, with the mutex *)
(* already free.  Until then the worker may be changing display modes.     *)
JoinTweaks(p) ==
    /\ At(p, "join")
    /\ Gone(p)
    /\ UNCHANGED <<taskVars, ini, board, runtime, msi, package, launches>>

(* Ended from outside: no destructor runs.                                 *)
Killed(p) ==
    /\ ~At(p, "none")
    /\ Gone(p)
    /\ ParentDies(p)
    /\ UNCHANGED <<ini, board, runtime, msi, package, launches>>
-----------------------------------------------------------------------------
(* What a process does by itself once it is launched.                      *)
Proceeds(p) ==
    \/ BeforeUninstall(p) \/ Uninstalled(p)
    \/ LoadSettings(p) \/ AcquireSingleInstance(p) \/ Refused(p) \/ CreateMutexFails(p)
    \/ NoUpdate(p) \/ DownloadStarts(p) \/ DownloadFails(p) \/ DownloadCompletes(p)
    \/ ApplyUpdate(p) \/ ApplyFails(p) \/ Hardware(p)
    \/ RuntimeReady(p) \/ InstallerUnavailable(p) \/ RunInstaller(p) \/ InstallerTimesOut(p)
    \/ Dismiss(p) \/ Register(p) \/ Registered(p)
    \/ CreateWindows(p) \/ CreateTray(p) \/ StartSources(p) \/ StartTweaks(p) \/ StartControl(p)
    \/ StartWithWindowsSet(p)
    \/ Destroy(p) \/ ReleaseInstance(p) \/ JoinTweaks(p)

(* What the user asks for, and what happens to a process.                  *)
Asked(p) ==
    \/ \E mode \in Modes : Launch(p, mode)
    \/ SetStartWithWindows(p) \/ SaveHudSettings(p) \/ Exit(p)
    \/ InstallerEnds(p) \/ Killed(p)

Next ==
    \/ \E p \in Proc :
        \/ Proceeds(p)
        \/ Asked(p)
        \/ SyncStep(p) /\ UNCHANGED appVars
    \/ InstallerEndsAlone
    \/ TaskEnvironment /\ UNCHANGED appVars

Spec == Init /\ [][Next]_vars

(* A process runs, its waits are bounded (the helper, the settle window,   *)
(* the installer, the tweak worker), and the user answers a prompt and     *)
(* dismisses a message.  Nothing is assumed of the elevated child or of    *)
(* msiexec.                                                                *)
Runs(p) == Proceeds(p) \/ (SyncStep(p) /\ UNCHANGED appVars)
Fairness == \A p \in Proc : WF_vars(Runs(p))

FairSpec == Spec /\ Fairness

-----------------------------------------------------------------------------
(* A process that downloads, installs, registers, changes the setting or   *)
(* has a window, a tray, a HUD, a source or the Control pipe alive is the  *)
(* one that holds the instance mutex: these of two processes never         *)
(* overlap, on no path of failing or ending.  One thing of the runtime may *)
(* outlive the mutex: the tweak worker, and only between the release at    *)
(* the end of ~App and the destructor that joins it (App.cpp:87-91,        *)
(* TweakStartupCoordinator.cpp:53-66); until the release the mutex covers  *)
(* it too, whether the loop ended, a later gate failed or Exit was called. *)
Working == {"update", "download", "hardware", "runtime", "installing", "register",
            "registering", "window", "tray", "sources", "tweaks",
            "control", "loop", "setting"}
OneRuntime ==
    \A p \in Proc :
        /\ proc[p].live \/ proc[p].at \in Working => owner = p
        /\ proc[p].tweaking => owner = p \/ At(p, "join")

(* In the message loop the setting shown to the user is the stored one:    *)
(* no refused, unverified or half-done change of the task leaves the two   *)
(* apart.  Excused: a failed write, and settings loaded before the gate    *)
(* while the running instance was saving others.                           *)
SettingIsWhatWasAnswered ==
    \A p \in Proc : At(p, "loop") /\ ~proc[p].stale => proc[p].start = ini

(* The user is not asked for consent again for a setting that was already  *)
(* confirmed, by this process or an earlier one, when nothing but the      *)
(* readback delay came in between.                                         *)
NoSecondPrompt ==
    [][\A p \in Proc :
        (sync[p].stage = "read" /\ sync'[p].stage = "elevate")
            => known # Command(sync[p].want)]_vars

(* "Start with Windows" is what the user and Task Scheduler were told, and *)
(* costs no second prompt.                                                 *)
TaskIsAsAnswered == []TypeOK /\ []SettingIsWhatWasAnswered /\ NoSecondPrompt

(* Every launched process reaches its message loop or is gone, whatever    *)
(* the elevated child and the installer do.                                *)
StartEnds ==
    \A p \in Proc : At(p, "main") ~> proc[p].at \in {"loop", "none"}
=============================================================================
