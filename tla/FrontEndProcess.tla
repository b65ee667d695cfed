-------------------------- MODULE FrontEndProcess --------------------------
(***************************************************************************)
(* The processes of the Settings front end: App.OnStartup to OnExit, the   *)
(* single-instance coordinator with its mutex and activation event, and    *)
(* the watcher that closes the window when the runtime exits.              *)
(*                                                                         *)
(* Every click on the tray launches a process: the first is the primary    *)
(* and has the window, a later one wakes it and goes.  A named object of   *)
(* Windows lives as long as a process has a handle to it.                  *)
(***************************************************************************)
EXTENDS Naturals

CONSTANTS
    Launches,    \* the processes, in the order they are launched: 1..n
    MaxKills     \* bound: processes that are terminated

VARIABLES
    runtimeUp,     \* the runtime the processes were launched for
    launched,      \* how many processes were launched
    proc,          \* each process
    mutexHandles,  \* who has a handle to the ownership mutex
    eventHandles,  \* who has a handle to the activation event
    signalled,     \* the activation event is set
    owed,          \* primaries that were woken and have shown nothing since
    kills

procVars == <<runtimeUp, launched, proc, mutexHandles, eventHandles, signalled, owed, kills>>

-----------------------------------------------------------------------------
(* "opened" has opened the mutex of another and not yet closed it.  The    *)
(* primary goes from "registered" to "shown" in OnStartup; the dispatcher  *)
(* handles what was posted to it only afterwards.                          *)
Stages == {"none", "created", "event", "opened", "relay", "registered", "subscribed",
           "observing", "hooked", "watched", "constructed", "shown",
           "exiting", "unregistered", "released", "gone"}
Waiting == {"registered", "subscribed", "observing", "hooked", "watched", "constructed",
            "shown", "exiting"}
Primary == Waiting \cup {"unregistered"}
Observing == {"observing", "hooked", "watched", "constructed", "shown"}

Processes == [stage : Stages, pid : BOOLEAN, raised : BOOLEAN, notified : BOOLEAN,
              activation : BOOLEAN]
NotLaunched == [stage |-> "none", pid |-> FALSE, raised |-> FALSE, notified |-> FALSE,
                activation |-> FALSE]

ProcTypeOK ==
    /\ runtimeUp \in BOOLEAN
    /\ launched \in {0} \cup Launches
    /\ proc \in [Launches -> Processes]
    /\ mutexHandles \subseteq Launches /\ eventHandles \subseteq Launches
    /\ signalled \in BOOLEAN
    /\ owed \subseteq Launches
    /\ kills \in 0..MaxKills

ProcInit ==
    /\ runtimeUp = TRUE
    /\ launched = 0
    /\ proc = [p \in Launches |-> NotLaunched]
    /\ mutexHandles = {} /\ eventHandles = {} /\ signalled = FALSE
    /\ owed = {}
    /\ kills = 0

At(p, stage) == proc[p].stage = stage
Goto(p, stage) == proc' = [proc EXCEPT ![p].stage = stage]
Ended(p) == [NotLaunched EXCEPT !.stage = "gone", !.pid = proc[p].pid]

CloseMutex(p) == mutexHandles' = mutexHandles \ {p}
(* The event loses its state with its last handle.                         *)
CloseEvent(p) ==
    /\ eventHandles' = eventHandles \ {p}
    /\ signalled' = (signalled /\ eventHandles' # {})

(* The tray passes the runtime's process id; a start by hand does not.     *)
Launch ==
    /\ launched + 1 \in Launches
    /\ launched' = launched + 1
    /\ \E pid \in BOOLEAN :
        /\ pid => runtimeUp
        /\ proc' = [proc EXCEPT ![launched + 1] =
                        [NotLaunched EXCEPT !.stage = "created", !.pid = pid]]
    /\ UNCHANGED <<runtimeUp, mutexHandles, eventHandles, signalled, owed, kills>>

CreateEvent(p) ==
    /\ At(p, "created")
    /\ Goto(p, "event")
    /\ eventHandles' = eventHandles \cup {p}
    /\ UNCHANGED <<runtimeUp, launched, mutexHandles, signalled, owed, kills>>

(* Mutant: who can open the mutex takes itself for the primary.            *)
TryAcquireAlways(p) ==
    /\ At(p, "event")
    /\ mutexHandles' = mutexHandles \cup {p}
    /\ Goto(p, "registered")
    /\ UNCHANGED <<runtimeUp, launched, eventHandles, signalled, owed, kills>>

(* TryAcquirePrimary: who creates the mutex is the primary and waits for   *)
(* the event from here on.                                                 *)
TryAcquirePrimary(p) ==
    /\ At(p, "event")
    /\ mutexHandles' = mutexHandles \cup {p}
    /\ Goto(p, IF mutexHandles = {} THEN "registered" ELSE "opened")
    /\ UNCHANGED <<runtimeUp, launched, eventHandles, signalled, owed, kills>>

LosePrimary(p) ==
    /\ At(p, "opened")
    /\ CloseMutex(p)
    /\ Goto(p, "relay")
    /\ UNCHANGED <<runtimeUp, launched, eventHandles, signalled, owed, kills>>

(* The relay wakes the primary, then is gone with its handle.              *)
SignalPrimary(p) ==
    /\ At(p, "relay")
    /\ eventHandles' = eventHandles \ {p}
    /\ signalled' = (eventHandles' # {})
    /\ owed' = owed \cup {q \in Launches : proc[q].stage \in Waiting \ {"exiting"}}
    /\ proc' = [proc EXCEPT ![p] = Ended(p)]
    /\ UNCHANGED <<runtimeUp, launched, mutexHandles, kills>>

(* The registered wait, on a thread of the pool: before OnStartup has      *)
(* subscribed, the wake-up is consumed and nobody hears of it.             *)
WaitFires(p) ==
    /\ proc[p].stage \in Waiting
    /\ signalled
    /\ signalled' = FALSE
    /\ proc' = [proc EXCEPT ![p].activation = proc[p].stage # "registered"]
    /\ UNCHANGED <<runtimeUp, launched, mutexHandles, eventHandles, owed, kills>>

Subscribe(p) ==
    /\ At(p, "registered")
    /\ Goto(p, "subscribed")
    /\ UNCHANGED <<runtimeUp, launched, mutexHandles, eventHandles, signalled, owed, kills>>

(* TryStart opens the process of the runtime; it fails when that is gone.  *)
OpenRuntime(p) ==
    /\ At(p, "subscribed")
    /\ Goto(p, IF ~proc[p].pid THEN "watched" ELSE IF runtimeUp THEN "observing" ELSE "exiting")
    /\ UNCHANGED <<runtimeUp, launched, mutexHandles, eventHandles, signalled, owed, kills>>

HookExited(p) ==
    /\ At(p, "observing")
    /\ Goto(p, "hooked")
    /\ UNCHANGED <<runtimeUp, launched, mutexHandles, eventHandles, signalled, owed, kills>>

(* Mutant: the exit before the handler was added is not looked for.        *)
CheckNothing(p) ==
    /\ At(p, "hooked")
    /\ Goto(p, "watched")
    /\ UNCHANGED <<runtimeUp, launched, mutexHandles, eventHandles, signalled, owed, kills>>

CheckHasExited(p) ==
    /\ At(p, "hooked")
    /\ proc' = [proc EXCEPT ![p].stage = "watched",
                            ![p].notified = proc[p].notified \/ ~runtimeUp]
    /\ UNCHANGED <<runtimeUp, launched, mutexHandles, eventHandles, signalled, owed, kills>>

(* Process.Exited is raised once, with or without a handler.               *)
ExitedRaised(p) ==
    /\ proc[p].stage \in Observing /\ proc[p].pid
    /\ ~runtimeUp /\ ~proc[p].raised
    /\ proc' = [proc EXCEPT ![p].raised = TRUE,
                            ![p].notified = proc[p].notified \/ proc[p].stage # "observing"]
    /\ UNCHANGED <<runtimeUp, launched, mutexHandles, eventHandles, signalled, owed, kills>>

ConstructWindow(p) ==
    /\ At(p, "watched")
    /\ Goto(p, "constructed")
    /\ UNCHANGED <<runtimeUp, launched, mutexHandles, eventHandles, signalled, owed, kills>>

(* The window is shown unless the runtime has exited meanwhile.            *)
ShowWindow(p) ==
    /\ At(p, "constructed")
    /\ Goto(p, IF proc[p].notified THEN "exiting" ELSE "shown")
    /\ owed' = owed \ {p}
    /\ UNCHANGED <<runtimeUp, launched, mutexHandles, eventHandles, signalled, kills>>

BringToFront(p) ==
    /\ At(p, "shown") /\ proc[p].activation
    /\ proc' = [proc EXCEPT ![p].activation = FALSE]
    /\ owed' = owed \ {p}
    /\ UNCHANGED <<runtimeUp, launched, mutexHandles, eventHandles, signalled, kills>>

(* The window closes: by the user, by a lost runtime, by its exit.         *)
CloseShown(p) ==
    /\ At(p, "shown")
    /\ Goto(p, "exiting")
    /\ owed' = owed \ {p}
    /\ UNCHANGED <<runtimeUp, launched, mutexHandles, eventHandles, signalled, kills>>

OnRuntimeExit(p) == proc[p].notified /\ CloseShown(p)

(* OnExit: the watcher and the wait end, the mutex is released and closed, *)
(* then the event.                                                         *)
Unregister(p) ==
    /\ At(p, "exiting")
    /\ Goto(p, "unregistered")
    /\ owed' = owed \ {p}
    /\ UNCHANGED <<runtimeUp, launched, mutexHandles, eventHandles, signalled, kills>>

ReleaseMutex(p) ==
    /\ At(p, "unregistered")
    /\ CloseMutex(p)
    /\ Goto(p, "released")
    /\ UNCHANGED <<runtimeUp, launched, eventHandles, signalled, owed, kills>>

DisposeEvent(p) ==
    /\ At(p, "released")
    /\ CloseEvent(p)
    /\ proc' = [proc EXCEPT ![p] = Ended(p)]
    /\ UNCHANGED <<runtimeUp, launched, mutexHandles, owed, kills>>

(* A process is terminated: Windows closes its handles.                    *)
Kill(p) ==
    /\ proc[p].stage \notin {"none", "gone"}
    /\ kills < MaxKills
    /\ kills' = kills + 1
    /\ CloseMutex(p) /\ CloseEvent(p)
    /\ owed' = owed \ {p}
    /\ proc' = [proc EXCEPT ![p] = Ended(p)]
    /\ UNCHANGED <<runtimeUp, launched>>

RuntimeExits ==
    /\ runtimeUp
    /\ runtimeUp' = FALSE
    /\ UNCHANGED <<launched, proc, mutexHandles, eventHandles, signalled, owed, kills>>

ProcStep(p) ==
    \/ CreateEvent(p) \/ TryAcquirePrimary(p) \/ LosePrimary(p) \/ SignalPrimary(p)
    \/ WaitFires(p) \/ Subscribe(p) \/ OpenRuntime(p) \/ HookExited(p)
    \/ CheckHasExited(p) \/ ExitedRaised(p) \/ ConstructWindow(p) \/ ShowWindow(p)
    \/ BringToFront(p) \/ OnRuntimeExit(p) \/ Unregister(p) \/ ReleaseMutex(p)
    \/ DisposeEvent(p)

ProcNext ==
    \/ Launch \/ RuntimeExits
    \/ \E p \in Launches : ProcStep(p) \/ CloseShown(p) \/ Kill(p)

ProcSpec == ProcInit /\ [][ProcNext]_procVars /\ \A p \in Launches : WF_procVars(ProcStep(p))

(***************************************************************************)
(* Properties.                                                             *)
(***************************************************************************)

(* There is one primary, from the mutex to its release, so one window      *)
(* controls the runtime of the session; a relay never has one.             *)
OnePrimary ==
    /\ \A p, q \in Launches :
        proc[p].stage \in Primary /\ proc[q].stage \in Primary => p = q
    /\ \A p \in Launches : proc[p].stage \in Primary => p \in mutexHandles

(* A window that was bound to a runtime does not outlive it, wherever in   *)
(* the startup of the front end the runtime exits; and a primary that was  *)
(* woken shows its window, unless it is on its way out.                    *)
ProcessKeepsUp ==
    []<>(/\ runtimeUp \/ \A p \in Launches : proc[p].pid => proc[p].stage = "gone"
         /\ owed = {})
=============================================================================
