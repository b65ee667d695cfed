--------------------------- MODULE StartupProofs ---------------------------
(***************************************************************************)
(* The single running instance, and what "Start with Windows" is worth,    *)
(* for any number of processes and launches, whatever fails and wherever a *)
(* process is killed.                                                      *)
(***************************************************************************)
EXTENDS Startup, TLAPS

\* Who has anything of the runtime alive, or is on a path that starts it.
Owning(q) == proc[q].live \/ proc[q].at \in Working

\* The mutex exists while its creator has a handle to it, and it is given up
\* with nothing alive any more but the tweak worker.
InstanceInv ==
    /\ proc \in [Proc -> Processes]
    /\ owner # Nobody => owner \in handles
    /\ \A p \in Proc : Owning(p) => owner = p
    /\ \A p \in Proc : At(p, "release") => ~proc[p].live
    /\ \A p \in Proc : proc[p].tweaking => owner = p \/ At(p, "join")

LEMMA InitInstanceInv == Init => InstanceInv
BY DEF Init, InstanceInv, Owning, Working, NoProcess, Processes, Places, Modes, At, Nobody

\* The other processes stay where they are, with what they have alive.
OthersStay(p) ==
    \A q \in Proc \ {p} : /\ proc'[q].at = proc[q].at /\ proc'[q].live = proc[q].live
                         /\ proc'[q].tweaking = proc[q].tweaking

\* One process moves and starts nothing it had not begun to start.
Moves(p) ==
    /\ proc' \in [Proc -> Processes]
    /\ OthersStay(p)
    /\ Owning(p)' => Owning(p)
    /\ At(p, "release")' => ~proc'[p].live
    /\ proc[p].at # "join"
    /\ proc'[p].tweaking => proc[p].tweaking \/ Owning(p)

LEMMA MovesKeepsInv ==
    ASSUME InstanceInv, NEW p \in Proc, Moves(p), UNCHANGED <<owner, handles>>
    PROVE  InstanceInv'
BY DEF InstanceInv, Moves, OthersStay, Owning, At

LEMMA GotoKeepsInv ==
    ASSUME InstanceInv, NEW p \in Proc, NEW place \in Places \ {"release"}, Goto(p, place),
           place \in Working => proc[p].at \in Working, proc[p].at # "join",
           UNCHANGED <<owner, handles>>
    PROVE  InstanceInv'
<1>1. /\ proc' \in [Proc -> Processes]
      /\ OthersStay(p)
      /\ proc'[p].at = place /\ proc'[p].live = proc[p].live
      /\ proc'[p].tweaking = proc[p].tweaking
  BY DEF InstanceInv, Goto, Processes, OthersStay
<1>2. QED
  BY <1>1, MovesKeepsInv DEF Moves, Owning, At

LEMMA GoneKeepsInv ==
    ASSUME InstanceInv, NEW p \in Proc, Gone(p)
    PROVE  InstanceInv'
<1>1. /\ NoProcess \in Processes /\ NoProcess.at = "none" /\ NoProcess.live = FALSE
      /\ NoProcess.tweaking = FALSE
  BY DEF NoProcess, Processes, Places, Modes
<1>2. /\ proc' \in [Proc -> Processes] /\ proc'[p].at = "none" /\ proc'[p].live = FALSE
      /\ proc'[p].tweaking = FALSE
      /\ OthersStay(p)
  BY <1>1 DEF InstanceInv, Gone, OthersStay
<1>3. /\ handles' = handles \ {p}
      /\ owner' = IF owner = p THEN Nobody ELSE owner
  BY DEF Gone
<1>4. QED
  BY <1>2, <1>3 DEF InstanceInv, OthersStay, Owning, Working, At

\* The gate: the mutex is created only when nobody has a handle to it, and
\* then nothing of another process is alive, unless it has come to its join.
LEMMA AcquireKeepsInv ==
    ASSUME InstanceInv, NEW p \in Proc, AcquireSingleInstance(p)
    PROVE  InstanceInv'
<1>1. CASE handles = {}
  <2>1. PICK place \in {"hardware", "update"} : Goto(p, place)
    BY <1>1 DEF AcquireSingleInstance
  <2>2. owner' = p /\ handles' = {p}
    BY <1>1 DEF AcquireSingleInstance
  <2>3. \A q \in Proc : ~Owning(q) /\ (proc[q].tweaking => At(q, "join"))
    BY <1>1, ProcAssumption DEF InstanceInv, Nobody
  <2>4. /\ proc' \in [Proc -> Processes]
        /\ OthersStay(p)
        /\ proc'[p].at = place
    BY <2>1 DEF InstanceInv, Goto, Processes, Places, OthersStay
  <2>5. QED
    BY <2>2, <2>3, <2>4 DEF InstanceInv, OthersStay, Owning, At
<1>2. CASE handles # {}
  <2>1. Goto(p, "refused") /\ owner' = owner /\ handles' = handles \cup {p}
    BY <1>2 DEF AcquireSingleInstance
  <2>2. /\ proc' \in [Proc -> Processes]
        /\ OthersStay(p)
        /\ proc'[p].at = "refused" /\ proc'[p].live = proc[p].live
        /\ proc'[p].tweaking = proc[p].tweaking
    BY <2>1 DEF InstanceInv, Goto, Processes, Places, OthersStay
  <2>3. proc[p].at # "join"
    BY DEF AcquireSingleInstance, At
  <2>4. QED
    BY <2>1, <2>2, <2>3 DEF InstanceInv, OthersStay, Owning, Working, At
<1>3. QED
  BY <1>1, <1>2

\* The steps between the gate and the message loop.
LEMMA GatesKeepInv ==
    ASSUME InstanceInv, NEW p \in Proc,
           \/ NoUpdate(p) \/ DownloadStarts(p) \/ DownloadFails(p) \/ DownloadCompletes(p)
           \/ ApplyFails(p) \/ Hardware(p) \/ RuntimeReady(p) \/ InstallerUnavailable(p)
           \/ RunInstaller(p)
           \/ InstallerTimesOut(p) \/ InstallerEnds(p)
    PROVE  InstanceInv'
<1> USE DEF At, Abort, Working, Places
<1>1. CASE \/ NoUpdate(p) \/ DownloadStarts(p) \/ DownloadFails(p) \/ DownloadCompletes(p)
           \/ ApplyFails(p)
  BY <1>1, GotoKeepsInv DEF NoUpdate, DownloadStarts, DownloadFails, DownloadCompletes, ApplyFails
<1>2. CASE Hardware(p) \/ RuntimeReady(p) \/ InstallerUnavailable(p)
  BY <1>2, GotoKeepsInv DEF Hardware, RuntimeReady, InstallerUnavailable
<1>3. CASE RunInstaller(p) \/ InstallerTimesOut(p) \/ InstallerEnds(p)
  BY <1>3, GotoKeepsInv DEF RunInstaller, InstallerTimesOut, InstallerEnds
<1>4. QED
  BY <1>1, <1>2, <1>3

LEMMA StartKeepsInv ==
    ASSUME InstanceInv, NEW p \in Proc,
           \/ Dismiss(p) \/ Register(p) \/ Registered(p) \/ CreateWindows(p) \/ CreateTray(p)
           \/ StartSources(p) \/ StartTweaks(p) \/ StartControl(p)
    PROVE  InstanceInv'
<1> USE DEF At, Return, Working, Places
<1>1. CASE Dismiss(p) \/ Register(p) \/ Registered(p)
  BY <1>1, GotoKeepsInv DEF Dismiss, Register, Registered
<1>2. CASE CreateWindows(p)
  <2>1. CASE Goto(p, "destroy")
    BY <1>2, <2>1, GotoKeepsInv DEF CreateWindows
  <2>2. CASE proc' = [proc EXCEPT ![p].at = IF Standalone(p) THEN "tray" ELSE "sources",
                                  ![p].live = TRUE]
    <3>1. /\ proc[p].at = "window" /\ proc[p] \in Processes
          /\ UNCHANGED <<owner, handles>>
      BY <1>2 DEF CreateWindows, InstanceInv
    <3>2. Moves(p)
      BY <2>2, <3>1 DEF Moves, InstanceInv, OthersStay, Owning, Processes
    <3>3. QED
      BY <3>1, <3>2, MovesKeepsInv
  <2>3. QED
    BY <1>2, <2>1, <2>2 DEF CreateWindows
<1>3. CASE CreateTray(p) \/ StartSources(p) \/ StartControl(p)
  BY <1>3, GotoKeepsInv DEF CreateTray, StartSources, StartControl
<1>4. CASE StartTweaks(p)
  <2>1. /\ proc' = [proc EXCEPT ![p] = [[@ EXCEPT !.at = "control"] EXCEPT !.tweaking = TRUE]]
        /\ proc[p].at = "tweaks" /\ proc[p] \in Processes /\ UNCHANGED <<owner, handles>>
    BY <1>4 DEF StartTweaks, InstanceInv
  <2>2. /\ proc' \in [Proc -> Processes] /\ OthersStay(p)
        /\ proc'[p].at = "control"
    BY <2>1 DEF InstanceInv, OthersStay, Processes
  <2>3. Moves(p)
    BY <2>1, <2>2 DEF Moves, Owning
  <2>4. QED
    BY <2>1, <2>3, MovesKeepsInv
<1>5. QED
  BY <1>1, <1>2, <1>3, <1>4

\* Saving a setting marks what other processes had loaded, and moves no other
\* process.
LEMMA SaveStartKeepsInv ==
    ASSUME InstanceInv, NEW p \in Proc, NEW value \in BOOLEAN,
           proc[p].at \in Working, UNCHANGED <<owner, handles>>,
           SaveStart(p, value, [proc[p] EXCEPT !.at = "loop"])
    PROVE  InstanceInv'
<1> DEFINE next == [proc[p] EXCEPT !.at = "loop"]
           old(q) == proc[q].start # value
<1>1. next \in Processes /\ next.at = "loop"
  BY DEF InstanceInv, Processes, Places
<1>2. CASE proc' = [q \in Proc |->
              IF q = p THEN [next EXCEPT !.stale = FALSE]
              ELSE [proc[q] EXCEPT !.stale = IF At(q, "mutex") THEN proc[q].start # value ELSE @]]
  <2>1. [next EXCEPT !.stale = FALSE] \in Processes
    BY <1>1 DEF Processes
  <2>2. \A q \in Proc : [proc[q] EXCEPT !.stale = IF At(q, "mutex") THEN proc[q].start # value ELSE @]
                        \in Processes
    BY DEF InstanceInv, Processes
  <2>3. proc' \in [Proc -> Processes]
    BY <1>2, <2>1, <2>2
  <2>4. proc'[p].at = "loop"
    BY <1>1, <1>2, <2>1 DEF Processes
  <2>5. OthersStay(p)
    BY <1>2 DEF InstanceInv, Processes, OthersStay
  <2>6. QED
    BY <2>3, <2>4, <2>5, MovesKeepsInv DEF Moves, Owning, Working, At
<1>3. CASE proc' = [proc EXCEPT ![p] = [next EXCEPT !.stale = @ \/ ini # value]]
  <2>1. [next EXCEPT !.stale = @ \/ ini # value] \in Processes
    BY <1>1 DEF Processes
  <2>2. proc' \in [Proc -> Processes] /\ proc'[p].at = "loop"
    BY <1>1, <1>3, <2>1 DEF InstanceInv, Processes
  <2>3. OthersStay(p)
    BY <1>3 DEF InstanceInv, OthersStay
  <2>4. QED
    BY <2>2, <2>3, MovesKeepsInv DEF Moves, Owning, Working, At
<1>4. QED
  BY <1>2, <1>3 DEF SaveStart

LEMMA LoopKeepsInv ==
    ASSUME InstanceInv, NEW p \in Proc,
           SetStartWithWindows(p) \/ StartWithWindowsSet(p) \/ SaveHudSettings(p) \/ Exit(p)
    PROVE  InstanceInv'
<1>1. proc[p] \in Processes /\ UNCHANGED <<owner, handles>> /\ proc[p].at \in {"loop", "setting"}
  BY DEF InstanceInv, SetStartWithWindows, StartWithWindowsSet, SaveHudSettings, Exit, At
<1>2. proc[p].at \in Working /\ proc[p].start \in BOOLEAN
  BY <1>1 DEF Working, Processes
<1>3. CASE SetStartWithWindows(p)
  <2>1. Moves(p)
    BY <1>1, <1>2, <1>3
       DEF SetStartWithWindows, Moves, InstanceInv, OthersStay, Owning, At, Processes, Places
  <2>2. QED
    BY <1>1, <2>1, MovesKeepsInv
<1>4. CASE StartWithWindowsSet(p)
  <2>1. CASE SaveStart(p, proc[p].start, [proc[p] EXCEPT !.at = "loop"])
    BY <1>1, <1>2, <2>1, SaveStartKeepsInv
  <2>2. CASE proc' = [proc EXCEPT ![p].at = "loop", ![p].start = ~@]
    <3>1. Moves(p)
      BY <1>1, <1>2, <2>2 DEF Moves, InstanceInv, OthersStay, Owning, At, Processes, Places
    <3>2. QED
      BY <1>1, <3>1, MovesKeepsInv
  <2>3. QED
    BY <1>4, <2>1, <2>2 DEF StartWithWindowsSet
<1>5. CASE SaveHudSettings(p)
  <2>1. proc[p].at = "loop" /\ SaveStart(p, proc[p].start, proc[p])
    BY <1>5 DEF SaveHudSettings, At
  <2>2. [proc[p] EXCEPT !.at = "loop"] = proc[p]
    BY <1>1, <2>1 DEF Processes
  <2>3. QED
    BY <1>1, <1>2, <2>1, <2>2, SaveStartKeepsInv
<1>6. CASE Exit(p)
  <2>1. Moves(p)
    BY <1>1, <1>2, <1>6
       DEF Exit, Moves, InstanceInv, OthersStay, Owning, Working, At, Processes, Places
  <2>2. QED
    BY <1>1, <2>1, MovesKeepsInv
<1>7. QED
  BY <1>3, <1>4, <1>5, <1>6

\* ~App: nothing but the tweak worker is alive when the mutex is given up, and
\* that worker is then joined.
LEMMA EndKeepsInv ==
    ASSUME InstanceInv, NEW p \in Proc, Destroy(p) \/ ReleaseInstance(p)
    PROVE  InstanceInv'
<1>1. CASE Destroy(p)
  <2>1. /\ proc' = [proc EXCEPT ![p] = [[@ EXCEPT !.at = "release"] EXCEPT !.live = FALSE]]
        /\ proc[p].at = "destroy" /\ UNCHANGED <<owner, handles>>
    BY <1>1 DEF Destroy, At
  <2>2. /\ proc' \in [Proc -> Processes] /\ proc'[p].at = "release" /\ ~proc'[p].live
        /\ proc'[p].tweaking = proc[p].tweaking
        /\ OthersStay(p)
    BY <2>1 DEF InstanceInv, Processes, Places, OthersStay
  <2>3. Moves(p)
    BY <2>1, <2>2 DEF Moves, Owning, Working, At
  <2>4. QED
    BY <2>1, <2>3, MovesKeepsInv
<1>2. CASE ReleaseInstance(p)
  <2>1. /\ proc' = [proc EXCEPT ![p].at = "join"]
        /\ handles' = handles \ {p} /\ owner' = IF owner = p THEN Nobody ELSE owner
        /\ ~proc[p].live
    BY <1>2 DEF ReleaseInstance, Goto, InstanceInv
  <2>2. /\ proc' \in [Proc -> Processes] /\ proc'[p].at = "join" /\ ~proc'[p].live
        /\ OthersStay(p)
    BY <2>1 DEF InstanceInv, Processes, Places, OthersStay
  <2>3. QED
    BY <2>1, <2>2 DEF InstanceInv, OthersStay, Owning, Working, At
<1>3. QED
  BY <1>1, <1>2

LEMMA LaunchKeepsInv ==
    ASSUME InstanceInv, ini \in BOOLEAN, NEW p \in Proc,
           (\E mode \in Modes : Launch(p, mode)) \/ BeforeUninstall(p) \/ LoadSettings(p)
    PROVE  InstanceInv'
<1>1. CASE \E mode \in Modes : Launch(p, mode)
  <2>1. PICK mode \in Modes :
          proc' = [proc EXCEPT ![p] = [NoProcess EXCEPT !.at = "main", !.mode = mode]]
    BY <1>1 DEF Launch
  <2>2. UNCHANGED <<owner, handles>> /\ proc[p].at = "none"
    BY <1>1 DEF Launch, At
  <2> DEFINE new == [NoProcess EXCEPT !.at = "main", !.mode = mode]
  <2>3. new \in Processes /\ new.at = "main" /\ new.live = FALSE /\ new.tweaking = FALSE
    BY DEF NoProcess, Processes, Places
  <2>4. Moves(p)
    BY <2>1, <2>2, <2>3 DEF Moves, InstanceInv, OthersStay, Owning, Working, At
  <2>5. QED
    BY <2>2, <2>4, MovesKeepsInv
<1>2. CASE BeforeUninstall(p)
  BY <1>2, GotoKeepsInv DEF BeforeUninstall, Places, Working, At
<1>3. CASE LoadSettings(p)
  <2>1. /\ proc' = [proc EXCEPT ![p] = [[@ EXCEPT !.at = "mutex"] EXCEPT !.start = ini]]
        /\ proc[p].at = "main" /\ UNCHANGED <<owner, handles>>
    BY <1>3 DEF LoadSettings, At
  <2>2. /\ proc' \in [Proc -> Processes] /\ proc'[p].at = "mutex" /\ proc'[p].live = proc[p].live
        /\ proc'[p].tweaking = proc[p].tweaking
        /\ OthersStay(p)
    BY <2>1 DEF InstanceInv, Processes, Places, OthersStay
  <2>3. Moves(p)
    BY <2>1, <2>2 DEF Moves, Owning, Working, At
  <2>4. QED
    BY <2>1, <2>3, MovesKeepsInv
<1>4. QED
  BY <1>1, <1>2, <1>3

LEMMA StepKeepsInv ==
    ASSUME InstanceInv, ini \in BOOLEAN, NEW p \in Proc, Proceeds(p) \/ Asked(p)
    PROVE  InstanceInv'
<1>1. CASE \/ Uninstalled(p) \/ Refused(p) \/ CreateMutexFails(p) \/ ApplyUpdate(p)
           \/ JoinTweaks(p) \/ Killed(p)
  BY <1>1, GoneKeepsInv DEF Uninstalled, Refused, CreateMutexFails, ApplyUpdate, JoinTweaks, Killed
<1>2. CASE AcquireSingleInstance(p)
  BY <1>2, AcquireKeepsInv
<1>3. CASE (\E mode \in Modes : Launch(p, mode)) \/ BeforeUninstall(p) \/ LoadSettings(p)
  BY <1>3, LaunchKeepsInv
<1>4. QED
  BY <1>1, <1>2, <1>3, GatesKeepInv, StartKeepsInv, LoopKeepsInv, EndKeepsInv DEF Proceeds, Asked

\* The stored setting is one: only SaveStart writes it.
LEMMA StepKeepsIni ==
    ASSUME InstanceInv, ini \in BOOLEAN, NEW p \in Proc, Proceeds(p) \/ Asked(p)
    PROVE  ini' \in BOOLEAN
<1>1. CASE StartWithWindowsSet(p) \/ SaveHudSettings(p)
  <2>1. proc[p].start \in BOOLEAN
    BY DEF InstanceInv, Processes
  <2>2. ini' = ini \/ ini' = proc[p].start
    BY <1>1 DEF StartWithWindowsSet, SaveHudSettings, SaveStart
  <2>3. QED
    BY <2>1, <2>2
<1>2. CASE ~(StartWithWindowsSet(p) \/ SaveHudSettings(p))
  <2>1. ini' = ini
    BY <1>2 DEF Proceeds, Asked, BeforeUninstall, Uninstalled, LoadSettings, AcquireSingleInstance,
       Refused, CreateMutexFails, NoUpdate, DownloadStarts, DownloadFails, DownloadCompletes,
       ApplyUpdate, ApplyFails, Hardware, RuntimeReady, InstallerUnavailable, RunInstaller,
       InstallerTimesOut, Dismiss, Register, Registered, CreateWindows, CreateTray, StartSources,
       StartTweaks, StartControl, Destroy, ReleaseInstance, JoinTweaks, Launch,
       SetStartWithWindows, Exit, InstallerEnds, Killed
  <2>2. QED
    BY <2>1
<1>3. QED
  BY <1>1, <1>2

IInv == InstanceInv /\ ini \in BOOLEAN

LEMMA NextInstanceInv == IInv /\ [Next]_vars => IInv'
<1> SUFFICES ASSUME IInv, [Next]_vars PROVE IInv'
  OBVIOUS
<1>1. CASE \E p \in Proc : Proceeds(p) \/ Asked(p)
  BY <1>1, StepKeepsInv, StepKeepsIni DEF IInv
<1>2. CASE UNCHANGED <<proc, owner, handles, ini>>
  BY <1>2 DEF IInv, InstanceInv, Owning, At
<1>3. QED
  BY <1>1, <1>2 DEF Next, vars, appVars, InstallerEndsAlone

\* Of any number of processes at most one has a window, a tray, a HUD, a source or
\* a pipe, or is on its way to them, and it holds the instance mutex; a tweak worker
\* belongs to that process too, or to one that released the mutex and joins it.
THEOREM OneRuntimeHolds == Spec => []OneRuntime
<1>1. IInv => OneRuntime
  BY DEF IInv, InstanceInv, Owning, OneRuntime
<1>2. Init => IInv
  BY InitInstanceInv DEF IInv, Init
<1>3. QED
  BY <1>1, <1>2, NextInstanceInv, PTL DEF Spec

-----------------------------------------------------------------------------
(* The task: what a step of a process does to it, its types, and what the  *)
(* last successful answer is worth.                                        *)

\* The answer was read and the slot is free again.
Clears(p) ==
    /\ sync[p].stage = "done" /\ sync' = [sync EXCEPT ![p] = NoCall]
    /\ UNCHANGED <<task, seen, helper, orphans, known, outside>>

\* An answer of success stays what a reader sees.
KnownIsSeen == known # "nothing" => seen = Mutated(known)

TaskInv == TaskTypeOK /\ KnownIsSeen

LEMMA TaskPart ==
    ASSUME InstanceInv, NEW p \in Proc, Proceeds(p) \/ Asked(p)
    PROVE  \/ UNCHANGED taskVars
           \/ \E want \in BOOLEAN : SyncStarts(p, want)
           \/ Clears(p) \/ ParentDies(p)
<1>1. proc[p].start \in BOOLEAN
  BY DEF InstanceInv, Processes
<1>2. CASE BeforeUninstall(p) \/ Register(p) \/ SetStartWithWindows(p)
  BY <1>1, <1>2 DEF BeforeUninstall, Register, SetStartWithWindows
<1>3. CASE Uninstalled(p) \/ Registered(p) \/ StartWithWindowsSet(p) \/ Killed(p)
  BY <1>3 DEF Uninstalled, Registered, StartWithWindowsSet, Killed, Clears
<1>4. CASE ~(\/ BeforeUninstall(p) \/ Register(p) \/ SetStartWithWindows(p)
             \/ Uninstalled(p) \/ Registered(p) \/ StartWithWindowsSet(p) \/ Killed(p))
  BY <1>4 DEF Proceeds, Asked, LoadSettings, AcquireSingleInstance, Refused, CreateMutexFails,
     NoUpdate, DownloadStarts, DownloadFails, DownloadCompletes, ApplyUpdate, ApplyFails,
     Hardware, RuntimeReady, InstallerUnavailable, RunInstaller, InstallerTimesOut, Dismiss,
     CreateWindows, CreateTray, StartSources, StartTweaks, StartControl, Destroy,
     ReleaseInstance, JoinTweaks, Launch, SaveHudSettings, Exit, InstallerEnds
<1>5. QED
  BY <1>2, <1>3, <1>4

LEMMA TaskPartKeepsInv ==
    ASSUME TaskInv, NEW p \in Proc,
           \/ UNCHANGED taskVars
           \/ \E want \in BOOLEAN : SyncStarts(p, want)
           \/ Clears(p) \/ ParentDies(p)
    PROVE  TaskInv'
<1> USE DEF TaskInv, TaskTypeOK, KnownIsSeen
<1>1. CASE UNCHANGED taskVars
  BY <1>1 DEF taskVars
<1>2. CASE \E want \in BOOLEAN : SyncStarts(p, want)
  <2>1. PICK want \in BOOLEAN : SyncStarts(p, want)
    BY <1>2
  <2>2. [stage |-> "read", want |-> want, ok |-> FALSE] \in Calls
    BY DEF Calls, Stages
  <2>3. QED
    BY <2>1, <2>2 DEF SyncStarts
<1>3. NoCall \in Calls
  BY DEF NoCall, Calls, Stages
<1>4. CASE Clears(p)
  BY <1>3, <1>4 DEF Clears
<1>5. CASE ParentDies(p)
  BY <1>3, <1>5 DEF ParentDies, HelperStates
<1>6. QED
  BY <1>1, <1>2, <1>4, <1>5

LEMMA AnsweredKeeps ==
    ASSUME TaskInv, NEW p \in Proc, NEW ok \in BOOLEAN, Answered(p, ok),
           ok => IsCompliant(seen, sync[p].want),
           UNCHANGED <<task, seen, outside>>,
           helper' \in [Proc -> HelperStates], helper'[p] = "none",
           \A q \in Proc \ {p} : helper'[q] = helper[q],
           orphans' \subseteq {"ensure", "remove"}
    PROVE  TaskInv'
<1> USE DEF TaskInv, TaskTypeOK
<1>1. sync' \in [Proc -> Calls]
  <2>1. sync' = [sync EXCEPT ![p] = [[@ EXCEPT !.stage = "done"] EXCEPT !.ok = ok]]
    BY DEF Answered
  <2>2. [[sync[p] EXCEPT !.stage = "done"] EXCEPT !.ok = ok] \in Calls
    BY DEF Calls, Stages
  <2>3. QED
    BY <2>1, <2>2
<1>2. sync[p].want \in BOOLEAN /\ \A q \in Proc \ {p} : sync'[q] = sync[q]
  BY DEF Calls, Answered
<1>3. known' \in {"nothing", "ensure", "remove"} /\ KnownIsSeen'
  BY <1>2 DEF Answered, KnownIsSeen, Command, Mutated, IsCompliant
<1>4. QED
  BY <1>1, <1>2, <1>3

\* A step of the call keeps its types, and answers success only on a readback.
LEMMA SyncStepKeepsInv ==
    ASSUME TaskInv, NEW p \in Proc, SyncStep(p)
    PROVE  TaskInv'
<1> USE DEF TaskInv, TaskTypeOK
<1>1. CASE ReadFails(p) \/ ElevationRefused(p) \/ SettleEnds(p)
  <2>1. helper[p] = "none" /\ Answered(p, FALSE)
    BY <1>1 DEF ReadFails, ElevationRefused, SettleEnds, HelperStates
  <2>2. UNCHANGED <<task, seen, helper, orphans, outside>>
    BY <1>1 DEF ReadFails, ElevationRefused, SettleEnds
  <2>3. QED
    BY <2>1, <2>2, AnsweredKeeps
<1>2. CASE Settle(p) \/ (ReadTask(p) /\ IsCompliant(seen, sync[p].want))
  <2>1. helper[p] = "none" /\ Answered(p, TRUE) /\ IsCompliant(seen, sync[p].want)
    BY <1>2 DEF Settle, ReadTask, HelperStates
  <2>2. UNCHANGED <<task, seen, helper, orphans, outside>>
    BY <1>2 DEF Settle, ReadTask
  <2>3. QED
    BY <2>1, <2>2, AnsweredKeeps
<1>3. CASE ReadTask(p) /\ ~IsCompliant(seen, sync[p].want)
  <2>1. sync' = [sync EXCEPT ![p].stage = "elevate"] /\ sync[p].stage = "read"
    BY <1>3 DEF ReadTask
  <2>2. UNCHANGED <<task, seen, helper, orphans, known, outside>>
    BY <1>3 DEF ReadTask
  <2>3. sync' \in [Proc -> Calls] /\ \A q \in Proc \ {p} : sync'[q] = sync[q]
    BY <2>1 DEF Calls, Stages
  <2>4. QED
    BY <2>1, <2>2, <2>3 DEF KnownIsSeen
<1>4. CASE Elevate(p)
  <2>1. sync' \in [Proc -> Calls] /\ sync'[p].stage = "wait" /\ \A q \in Proc \ {p} : sync'[q] = sync[q]
    BY <1>4 DEF Elevate, Calls, Stages
  <2>2. helper' \in [Proc -> HelperStates] /\ \A q \in Proc \ {p} : helper'[q] = helper[q]
    BY <1>4 DEF Elevate, HelperStates, Command
  <2>3. known' = "nothing" /\ UNCHANGED <<task, seen, orphans, outside>>
    BY <1>4 DEF Elevate
  <2>4. QED
    BY <2>1, <2>2, <2>3 DEF KnownIsSeen
<1>5. CASE HelperEnds(p) /\ helper[p] = "succeeded"
  <2>1. sync' \in [Proc -> Calls] /\ \A q \in Proc \ {p} : sync'[q] = sync[q]
    BY <1>5 DEF HelperEnds, Calls, Stages
  <2>2. /\ helper' \in [Proc -> HelperStates] /\ helper'[p] = "none"
        /\ \A q \in Proc \ {p} : helper'[q] = helper[q]
    BY <1>5 DEF HelperEnds, HelperStates
  <2>3. UNCHANGED <<task, seen, orphans, known, outside>>
    BY <1>5 DEF HelperEnds
  <2>4. QED
    BY <2>1, <2>2, <2>3 DEF KnownIsSeen
<1>6. CASE (HelperEnds(p) /\ helper[p] # "succeeded") \/ HelperTimesOut(p)
  <2>1. /\ helper' \in [Proc -> HelperStates] /\ helper'[p] = "none"
        /\ \A q \in Proc \ {p} : helper'[q] = helper[q]
    BY <1>6 DEF HelperEnds, HelperTimesOut, HelperStates
  <2>2. Answered(p, FALSE) /\ UNCHANGED <<task, seen, outside>>
    BY <1>6 DEF HelperEnds, HelperTimesOut
  <2>3. orphans' \subseteq {"ensure", "remove"}
    BY <1>6 DEF HelperEnds, HelperTimesOut
  <2>4. QED
    BY <2>1, <2>2, <2>3, AnsweredKeeps
<1>7. QED
  BY <1>1, <1>2, <1>3, <1>4, <1>5, <1>6 DEF SyncStep

LEMMA EnvironmentKeepsInv ==
    ASSUME TaskInv, TaskEnvironment
    PROVE  TaskInv'
<1> USE DEF TaskInv, TaskTypeOK, KnownIsSeen, TaskStates
<1>1. CASE \E p \in Proc : HelperMutates(p) \/ HelperFails(p)
  BY <1>1 DEF HelperMutates, HelperFails, HelperStates, Mutated
<1>2. CASE OrphanMutates
  BY <1>2 DEF OrphanMutates, Mutated
<1>3. CASE BecomesVisible
  BY <1>3 DEF BecomesVisible
<1>4. CASE ChangedOutside
  BY <1>4, ProcAssumption DEF ChangedOutside
<1>5. QED
  BY <1>1, <1>2, <1>3, <1>4 DEF TaskEnvironment

LEMMA NextTaskInv == InstanceInv /\ TaskInv /\ [Next]_vars => TaskInv'
<1> SUFFICES ASSUME InstanceInv, TaskInv, [Next]_vars PROVE TaskInv'
  OBVIOUS
<1>1. CASE UNCHANGED taskVars
  BY <1>1 DEF taskVars, TaskInv, TaskTypeOK, KnownIsSeen
<1>2. ASSUME NEW p \in Proc, Proceeds(p) \/ Asked(p) PROVE TaskInv'
  BY <1>2, TaskPart, TaskPartKeepsInv
<1>3. QED
  BY <1>1, <1>2, SyncStepKeepsInv, EnvironmentKeepsInv DEF Next, vars, InstallerEndsAlone

-----------------------------------------------------------------------------
(* The setting: between the gate and the message loop a process has what   *)
(* is stored, and while it changes the task it has the opposite.           *)

Settled == (Working \ {"setting"}) \cup {"mutex"}

SettingInv ==
    \A p \in Proc : ~proc[p].stale =>
        /\ proc[p].at \in Settled => proc[p].start = ini
        /\ At(p, "setting") => proc[p].start # ini

\* One process moves, and has what it had.
LEMMA SettingMoves ==
    ASSUME InstanceInv, SettingInv, NEW p \in Proc, UNCHANGED ini,
           \A q \in Proc \ {p} : proc'[q] = proc[q],
           proc'[p].at # "setting",
           proc'[p].at \in Settled =>
               /\ proc[p].at \in Settled
               /\ proc'[p].start = proc[p].start /\ proc'[p].stale = proc[p].stale
    PROVE  SettingInv'
BY DEF SettingInv, At

LEMMA GotoKeepsSetting ==
    ASSUME InstanceInv, SettingInv, NEW p \in Proc, UNCHANGED ini,
           NEW place \in Places \ {"setting"}, Goto(p, place),
           place \in Settled => proc[p].at \in Settled
    PROVE  SettingInv'
<1>1. /\ \A q \in Proc \ {p} : proc'[q] = proc[q]
      /\ proc'[p].at = place
      /\ proc'[p].start = proc[p].start /\ proc'[p].stale = proc[p].stale
  BY DEF InstanceInv, Goto, Processes
<1>2. QED
  BY <1>1, SettingMoves

LEMMA GoneKeepsSetting ==
    ASSUME InstanceInv, SettingInv, NEW p \in Proc, UNCHANGED ini, Gone(p)
    PROVE  SettingInv'
<1>1. \A q \in Proc \ {p} : proc'[q] = proc[q]
  BY DEF InstanceInv, Gone
<1>2. proc'[p].at = "none"
  BY DEF InstanceInv, Gone, NoProcess
<1>3. QED
  BY <1>1, <1>2, SettingMoves DEF Settled, Working

\* A save: nobody else is past the gate, and who stands before it is marked if
\* it loaded something else.
LEMMA SaveKeepsSetting ==
    ASSUME InstanceInv, SettingInv, NEW p \in Proc, proc[p].at \in Working,
           NEW next \in Processes, next.at = "loop", next.start = proc[p].start,
           SaveStart(p, proc[p].start, next)
    PROVE  SettingInv'
<1> DEFINE value == proc[p].start
<1>1. \A q \in Proc \ {p} : proc[q].at \notin Working
  BY DEF InstanceInv, Owning
<1>2. value \in BOOLEAN
  BY DEF InstanceInv, Processes
<1>3. CASE /\ ini' = value
           /\ proc' = [q \in Proc |->
                IF q = p THEN [next EXCEPT !.stale = FALSE]
                ELSE [proc[q] EXCEPT !.stale = IF At(q, "mutex") THEN proc[q].start # value ELSE @]]
  <2>1. proc'[p].at = "loop" /\ proc'[p].start = value
    BY <1>3 DEF Processes
  <2>2. ASSUME NEW q \in Proc \ {p}
        PROVE  /\ proc'[q].at = proc[q].at /\ proc'[q].start = proc[q].start
               /\ At(q, "mutex") => proc'[q].stale = (proc[q].start # value)
    BY <1>3 DEF InstanceInv, Processes
  <2>3. ASSUME NEW q \in Proc \ {p}, ~proc'[q].stale
        PROVE  /\ proc'[q].at \in Settled => proc'[q].start = ini'
               /\ proc'[q].at # "setting"
    <3>1. proc'[q].at \notin Working
      BY <1>1, <2>2
    <3>2. proc'[q].at = "mutex" => proc'[q].start = value
      BY <2>2, <2>3 DEF At
    <3>3. QED
      BY <1>3, <3>1, <3>2 DEF Settled, Working
  <2>4. QED
    BY <1>3, <2>1, <2>3 DEF SettingInv, At
<1>4. CASE UNCHANGED ini /\ proc' = [proc EXCEPT ![p] = [next EXCEPT !.stale = @ \/ ini # value]]
  <2>1. [next EXCEPT !.stale = @ \/ ini # value].stale = (next.stale \/ ini # value)
    BY DEF Processes
  <2>2. proc'[p].at = "loop" /\ proc'[p].start = value /\ proc'[p].stale = (next.stale \/ ini # value)
    BY <1>4, <2>1 DEF InstanceInv, Processes
  <2>3. \A q \in Proc \ {p} : proc'[q] = proc[q]
    BY <1>4 DEF InstanceInv
  <2>4. QED
    BY <1>4, <2>2, <2>3 DEF SettingInv, At
<1>5. QED
  BY <1>3, <1>4 DEF SaveStart

LEMMA GatesKeepSetting ==
    ASSUME InstanceInv, SettingInv, NEW p \in Proc,
           \/ NoUpdate(p) \/ DownloadStarts(p) \/ DownloadFails(p) \/ DownloadCompletes(p)
           \/ ApplyFails(p) \/ Hardware(p) \/ RuntimeReady(p) \/ InstallerUnavailable(p)
           \/ RunInstaller(p)
           \/ InstallerTimesOut(p) \/ InstallerEnds(p) \/ AcquireSingleInstance(p)
    PROVE  SettingInv'
<1> USE DEF At, Abort, Settled, Working, Places
<1>1. CASE \/ NoUpdate(p) \/ DownloadStarts(p) \/ DownloadFails(p) \/ DownloadCompletes(p)
           \/ ApplyFails(p)
  BY <1>1, GotoKeepsSetting DEF NoUpdate, DownloadStarts, DownloadFails, DownloadCompletes, ApplyFails
<1>2. CASE Hardware(p) \/ RuntimeReady(p) \/ InstallerUnavailable(p)
  BY <1>2, GotoKeepsSetting DEF Hardware, RuntimeReady, InstallerUnavailable
<1>3. CASE RunInstaller(p) \/ InstallerTimesOut(p) \/ InstallerEnds(p)
  BY <1>3, GotoKeepsSetting DEF RunInstaller, InstallerTimesOut, InstallerEnds
<1>4. CASE AcquireSingleInstance(p)
  BY <1>4, GotoKeepsSetting DEF AcquireSingleInstance
<1>5. QED
  BY <1>1, <1>2, <1>3, <1>4

LEMMA StartKeepsSetting ==
    ASSUME InstanceInv, SettingInv, NEW p \in Proc,
           \/ Dismiss(p) \/ Register(p) \/ Registered(p) \/ CreateWindows(p) \/ CreateTray(p)
           \/ StartSources(p) \/ StartTweaks(p) \/ StartControl(p)
    PROVE  SettingInv'
<1> USE DEF At, Return, Settled, Working, Places
<1>1. CASE Dismiss(p) \/ Register(p) \/ Registered(p)
  BY <1>1, GotoKeepsSetting DEF Dismiss, Register, Registered
<1>2. CASE CreateWindows(p)
  <2>1. CASE Goto(p, "destroy")
    BY <1>2, <2>1, GotoKeepsSetting DEF CreateWindows
  <2>2. CASE proc' = [proc EXCEPT ![p].at = IF Standalone(p) THEN "tray" ELSE "sources",
                                  ![p].live = TRUE]
    <3>1. proc[p].at = "window" /\ UNCHANGED ini
      BY <1>2 DEF CreateWindows
    <3>2. /\ proc'[p].at \in {"tray", "sources"}
          /\ proc'[p].start = proc[p].start /\ proc'[p].stale = proc[p].stale
          /\ \A q \in Proc \ {p} : proc'[q] = proc[q]
      BY <2>2 DEF InstanceInv, Processes
    <3>3. QED
      BY <3>1, <3>2, SettingMoves
  <2>3. QED
    BY <1>2, <2>1, <2>2 DEF CreateWindows
<1>3. CASE CreateTray(p) \/ StartSources(p) \/ StartControl(p)
  BY <1>3, GotoKeepsSetting DEF CreateTray, StartSources, StartControl
<1>4. CASE StartTweaks(p)
  <2>1. /\ proc' = [proc EXCEPT ![p] = [[@ EXCEPT !.at = "control"] EXCEPT !.tweaking = TRUE]]
        /\ proc[p].at = "tweaks" /\ UNCHANGED ini
    BY <1>4 DEF StartTweaks
  <2>2. /\ proc'[p].at = "control"
        /\ proc'[p].start = proc[p].start /\ proc'[p].stale = proc[p].stale
        /\ \A q \in Proc \ {p} : proc'[q] = proc[q]
    BY <2>1 DEF InstanceInv, Processes
  <2>3. QED
    BY <2>1, <2>2, SettingMoves
<1>5. QED
  BY <1>1, <1>2, <1>3, <1>4

\* Asking turns the member over, a refusal turns it back, success stores it.
LEMMA LoopKeepsSetting ==
    ASSUME InstanceInv, SettingInv, ini \in BOOLEAN, NEW p \in Proc,
           SetStartWithWindows(p) \/ StartWithWindowsSet(p) \/ SaveHudSettings(p)
    PROVE  SettingInv'
<1>1. proc[p] \in Processes /\ proc[p].start \in BOOLEAN
  BY DEF InstanceInv, Processes
<1>2. CASE SetStartWithWindows(p)
  <2>1. proc' = [proc EXCEPT ![p] = [[@ EXCEPT !.at = "setting"] EXCEPT !.start = ~proc[p].start]]
    BY <1>2 DEF SetStartWithWindows
  <2>2. proc'[p].at = "setting" /\ proc'[p].start = ~proc[p].start /\ proc'[p].stale = proc[p].stale
    BY <1>1, <2>1 DEF InstanceInv, Processes
  <2>3. \A q \in Proc \ {p} : proc'[q] = proc[q]
    BY <2>1 DEF InstanceInv
  <2>4. UNCHANGED ini /\ proc[p].at = "loop"
    BY <1>2 DEF SetStartWithWindows, At
  <2>5. QED
    BY <1>1, <2>2, <2>3, <2>4 DEF SettingInv, Settled, Working, At
<1>3. CASE StartWithWindowsSet(p) /\ sync[p].ok
  <2>1. proc[p].at = "setting" /\ SaveStart(p, proc[p].start, [proc[p] EXCEPT !.at = "loop"])
    BY <1>3 DEF StartWithWindowsSet, At
  <2>2. PICK next : next = [proc[p] EXCEPT !.at = "loop"]
    OBVIOUS
  <2>3. next \in Processes /\ next.at = "loop" /\ next.start = proc[p].start
    BY <1>1, <2>2 DEF Processes, Places
  <2>4. SaveStart(p, proc[p].start, next)
    BY <2>1, <2>2
  <2>5. QED
    BY <2>1, <2>3, <2>4, SaveKeepsSetting DEF Working
<1>4. CASE StartWithWindowsSet(p) /\ ~sync[p].ok
  <2>1. proc' = [proc EXCEPT ![p] = [[@ EXCEPT !.at = "loop"] EXCEPT !.start = ~proc[p].start]]
    BY <1>4 DEF StartWithWindowsSet
  <2>2. proc'[p].at = "loop" /\ proc'[p].start = ~proc[p].start /\ proc'[p].stale = proc[p].stale
    BY <1>1, <2>1 DEF InstanceInv, Processes
  <2>3. \A q \in Proc \ {p} : proc'[q] = proc[q]
    BY <2>1 DEF InstanceInv
  <2>4. UNCHANGED ini /\ proc[p].at = "setting"
    BY <1>4 DEF StartWithWindowsSet, At
  <2>5. QED
    BY <1>1, <2>2, <2>3, <2>4 DEF SettingInv, At
<1>5. CASE SaveHudSettings(p)
  <2>1. proc[p].at = "loop" /\ SaveStart(p, proc[p].start, proc[p])
    BY <1>5 DEF SaveHudSettings, At
  <2>2. QED
    BY <1>1, <2>1, SaveKeepsSetting DEF Working
<1>6. QED
  BY <1>2, <1>3, <1>4, <1>5

LEMMA EndsKeepSetting ==
    ASSUME InstanceInv, SettingInv, NEW p \in Proc,
           \/ Exit(p) \/ Destroy(p) \/ ReleaseInstance(p)
           \/ (\E mode \in Modes : Launch(p, mode)) \/ BeforeUninstall(p) \/ LoadSettings(p)
    PROVE  SettingInv'
<1> USE DEF At, Settled, Working, Places
<1>1. CASE Exit(p) \/ Destroy(p)
  <2>1. PICK place \in {"destroy", "release"} :
          proc' = [proc EXCEPT ![p] = [[@ EXCEPT !.at = place] EXCEPT !.live = FALSE]]
    BY <1>1 DEF Exit, Destroy
  <2>2. proc'[p].at = place /\ \A q \in Proc \ {p} : proc'[q] = proc[q]
    BY <2>1 DEF InstanceInv, Processes
  <2>3. UNCHANGED ini
    BY <1>1 DEF Exit, Destroy
  <2>4. QED
    BY <2>2, <2>3, SettingMoves
<1>2. CASE ReleaseInstance(p) \/ BeforeUninstall(p)
  BY <1>2, GotoKeepsSetting DEF ReleaseInstance, BeforeUninstall
<1>3. CASE \E mode \in Modes : Launch(p, mode)
  <2>1. PICK mode \in Modes :
          proc' = [proc EXCEPT ![p] = [NoProcess EXCEPT !.at = "main", !.mode = mode]]
    BY <1>3 DEF Launch
  <2>2. proc'[p].at = "main" /\ \A q \in Proc \ {p} : proc'[q] = proc[q]
    BY <2>1 DEF InstanceInv, NoProcess
  <2>3. UNCHANGED ini
    BY <1>3 DEF Launch
  <2>4. QED
    BY <2>2, <2>3, SettingMoves
<1>4. CASE LoadSettings(p)
  <2>1. proc' = [proc EXCEPT ![p] = [[@ EXCEPT !.at = "mutex"] EXCEPT !.start = ini]] /\ UNCHANGED ini
    BY <1>4 DEF LoadSettings
  <2>2. /\ proc'[p].at = "mutex" /\ proc'[p].start = ini
        /\ \A q \in Proc \ {p} : proc'[q] = proc[q]
    BY <2>1 DEF InstanceInv, Processes
  <2>3. QED
    BY <2>1, <2>2 DEF SettingInv
<1>5. QED
  BY <1>1, <1>2, <1>3, <1>4

LEMMA StepKeepsSetting ==
    ASSUME InstanceInv, ini \in BOOLEAN, SettingInv, NEW p \in Proc, Proceeds(p) \/ Asked(p)
    PROVE  SettingInv'
<1>1. CASE \/ Uninstalled(p) \/ Refused(p) \/ CreateMutexFails(p) \/ ApplyUpdate(p)
           \/ JoinTweaks(p) \/ Killed(p)
  BY <1>1, GoneKeepsSetting
     DEF Uninstalled, Refused, CreateMutexFails, ApplyUpdate, JoinTweaks, Killed
<1>2. QED
  BY <1>1, GatesKeepSetting, StartKeepsSetting, LoopKeepsSetting, EndsKeepSetting DEF Proceeds, Asked

-----------------------------------------------------------------------------
(* The rest of the types.                                                  *)

AppTypes ==
    /\ owner \in Proc \cup {Nobody} /\ handles \subseteq Proc
    /\ board \in {"Supported", "Unsupported"} /\ runtime \in {"missing", "ready"}
    /\ msi \in {"idle", "running"} /\ package \in {"none", "staged"}
    /\ launches \in 0..MaxLaunches

LEMMA StepKeepsTypes ==
    ASSUME AppTypes, NEW p \in Proc, Proceeds(p) \/ Asked(p)
    PROVE  AppTypes'
<1> USE DEF AppTypes
<1>1. CASE \/ Uninstalled(p) \/ Refused(p) \/ CreateMutexFails(p) \/ ApplyUpdate(p)
           \/ JoinTweaks(p) \/ Killed(p) \/ AcquireSingleInstance(p) \/ ReleaseInstance(p)
  BY <1>1 DEF Uninstalled, Refused, CreateMutexFails, ApplyUpdate, JoinTweaks, Killed, Gone,
     AcquireSingleInstance, ReleaseInstance
<1>2. CASE \E mode \in Modes : Launch(p, mode)
  BY <1>2, LaunchesAssumption DEF Launch
<1>3. CASE ~(\/ Uninstalled(p) \/ Refused(p) \/ CreateMutexFails(p) \/ ApplyUpdate(p)
             \/ JoinTweaks(p) \/ Killed(p) \/ AcquireSingleInstance(p) \/ ReleaseInstance(p)
             \/ \E mode \in Modes : Launch(p, mode))
  <2>1. UNCHANGED <<owner, handles, board, launches>>
    BY <1>3 DEF Proceeds, Asked, BeforeUninstall, LoadSettings, NoUpdate, DownloadStarts,
       DownloadFails, DownloadCompletes, ApplyFails, Hardware, RuntimeReady, InstallerUnavailable,
       RunInstaller, InstallerTimesOut, Dismiss, Register, Registered, CreateWindows, CreateTray,
       StartSources, StartTweaks, StartControl, StartWithWindowsSet, Destroy,
       SetStartWithWindows, SaveHudSettings, Exit, InstallerEnds
  <2>2. /\ runtime' \in {runtime, "missing", "ready"} /\ msi' \in {msi, "idle", "running"}
        /\ package' \in {package, "staged"}
    BY <1>3 DEF Proceeds, Asked, BeforeUninstall, LoadSettings, NoUpdate, DownloadStarts,
       DownloadFails, DownloadCompletes, ApplyFails, Hardware, RuntimeReady, InstallerUnavailable,
       RunInstaller, InstallerTimesOut, Dismiss, Register, Registered, CreateWindows, CreateTray,
       StartSources, StartTweaks, StartControl, StartWithWindowsSet, Destroy,
       SetStartWithWindows, SaveHudSettings, Exit, InstallerEnds
  <2>3. QED
    BY <2>1, <2>2
<1>4. QED
  BY <1>1, <1>2, <1>3

-----------------------------------------------------------------------------
(* Together.                                                               *)

AnsweredInv == IInv /\ TaskInv /\ SettingInv /\ AppTypes

LEMMA InitAnswered == Init => AnsweredInv
<1> SUFFICES ASSUME Init PROVE AnsweredInv
  OBVIOUS
<1>1. IInv
  BY InitInstanceInv DEF IInv, Init
<1>2. TaskInv
  BY ProcAssumption
     DEF Init, TaskInit, TaskInv, TaskTypeOK, KnownIsSeen, TaskStates, NoCall, Calls, Stages,
         HelperStates
<1>3. SettingInv
  <2>1. \A p \in Proc : proc[p].at = "none"
    BY DEF Init, NoProcess
  <2>2. QED
    BY <2>1 DEF SettingInv, Settled, Working, At
<1>4. AppTypes
  BY LaunchesAssumption DEF Init, AppTypes
<1>5. QED
  BY <1>1, <1>2, <1>3, <1>4 DEF AnsweredInv

LEMMA NextAnswered == AnsweredInv /\ [Next]_vars => AnsweredInv'
<1> SUFFICES ASSUME AnsweredInv, [Next]_vars PROVE AnsweredInv'
  OBVIOUS
<1>1. IInv' /\ TaskInv'
  BY NextInstanceInv, NextTaskInv DEF AnsweredInv, IInv
<1>2. ASSUME NEW p \in Proc, Proceeds(p) \/ Asked(p) PROVE SettingInv' /\ AppTypes'
  BY <1>2, StepKeepsSetting, StepKeepsTypes DEF AnsweredInv, IInv
<1>3. CASE UNCHANGED appVars
  <2>1. SettingInv'
    BY <1>3 DEF appVars, AnsweredInv, SettingInv, At
  <2>2. AppTypes'
    BY <1>3 DEF appVars, AnsweredInv, AppTypes
  <2>3. QED
    BY <1>1, <2>1, <2>2 DEF AnsweredInv
<1>4. CASE InstallerEndsAlone
  <2>1. SettingInv'
    BY <1>4 DEF InstallerEndsAlone, AnsweredInv, SettingInv, At
  <2>2. AppTypes'
    BY <1>4 DEF InstallerEndsAlone, AnsweredInv, AppTypes
  <2>3. QED
    BY <1>1, <2>1, <2>2 DEF AnsweredInv
<1>5. QED
  BY <1>1, <1>2, <1>3, <1>4 DEF Next, vars, AnsweredInv

\* Consent is asked for after a first readback that does not match, and an
\* earlier success would match.
LEMMA PromptIsNeeded ==
    ASSUME AnsweredInv, [Next]_vars, NEW p \in Proc,
           sync[p].stage = "read", sync'[p].stage = "elevate"
    PROVE  known # Command(sync[p].want)
<1> USE DEF AnsweredInv, TaskInv, TaskTypeOK
<1>1. ~(\E q \in Proc : Proceeds(q) \/ Asked(q))
  <2> SUFFICES ASSUME NEW q \in Proc, Proceeds(q) \/ Asked(q) PROVE FALSE
    OBVIOUS
  <2>1. \/ UNCHANGED taskVars \/ \E want \in BOOLEAN : SyncStarts(q, want)
        \/ Clears(q) \/ ParentDies(q)
    BY TaskPart DEF IInv
  <2>2. CASE \E want \in BOOLEAN : SyncStarts(q, want)
    BY <2>2 DEF SyncStarts
  <2>3. CASE UNCHANGED taskVars
    BY <2>3 DEF taskVars
  <2>4. CASE Clears(q) \/ ParentDies(q)
    BY <2>4 DEF Clears, ParentDies, NoCall
  <2>5. QED
    BY <2>1, <2>2, <2>3, <2>4
<1>2. PICK q \in Proc : SyncStep(q)
  BY <1>1 DEF Next, vars, taskVars, InstallerEndsAlone, TaskEnvironment, HelperMutates, HelperFails,
     OrphanMutates, BecomesVisible, ChangedOutside
<1>3. ASSUME NEW ok \in BOOLEAN, Answered(q, ok) PROVE FALSE
  <2>1. sync' = [sync EXCEPT ![q] = [[@ EXCEPT !.stage = "done"] EXCEPT !.ok = ok]]
    BY <1>3 DEF Answered
  <2>2. sync'[q].stage = "done" /\ (q # p => sync'[p] = sync[p])
    BY <2>1 DEF Calls
  <2>3. QED
    BY <2>2
<1>4. ReadTask(q) /\ ~IsCompliant(seen, sync[q].want)
  <2>1. CASE Elevate(q) \/ HelperEnds(q)
    BY <1>3, <2>1 DEF Elevate, HelperEnds, Calls
  <2>2. QED
    BY <1>2, <1>3, <2>1 DEF SyncStep, ReadFails, ReadTask, ElevationRefused, HelperTimesOut,
       Settle, SettleEnds
<1>5. q = p
  BY <1>4 DEF ReadTask, Calls
<1>6. sync[p].want \in BOOLEAN
  BY DEF Calls
<1>7. QED
  BY <1>4, <1>5, <1>6 DEF KnownIsSeen, IsCompliant, Command, Mutated

\* For any number of processes, whatever is refused, hangs, lags or is killed:
\* in the message loop the setting is the stored one, and the user is not asked
\* again for what was confirmed.
THEOREM TaskIsAlwaysAsAnswered == Spec => TaskIsAsAnswered
<1>1. AnsweredInv => TypeOK
  BY DEF AnsweredInv, IInv, InstanceInv, TaskInv, AppTypes, TypeOK
<1>2. AnsweredInv => SettingIsWhatWasAnswered
  BY DEF AnsweredInv, SettingInv, SettingIsWhatWasAnswered, Settled, Working, At
<1>3. AnsweredInv /\ [Next]_vars =>
         [\A p \in Proc :
             (sync[p].stage = "read" /\ sync'[p].stage = "elevate")
                 => known # Command(sync[p].want)]_vars
  BY PromptIsNeeded
<1>4. QED
  BY <1>1, <1>2, <1>3, InitAnswered, NextAnswered, PTL DEF Spec, TaskIsAsAnswered, NoSecondPrompt

=============================================================================
