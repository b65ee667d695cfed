---------------------------- MODULE EventSources ----------------------------
(***************************************************************************)
(* The two sources that wake the game session from threads of their own:   *)
(* ProductionGameWindowSource, whose hook fills a bounded queue on the UI  *)
(* thread and whose worker posts each event to the message window, and     *)
(* SteamRunningAppIdSource, whose worker watches the registry.  With them  *)
(* the part of GameSessionController that starts, hears and stops them.    *)
(*                                                                         *)
(* Out-of-context hooks run on the UI thread while it pumps messages, so   *)
(* an event is accepted between handlers, never inside Start or Stop.      *)
(* The registry is how much of the path Software, Valve, Steam exists      *)
(* (keys are created, never deleted) and the RunningAppID value in it.     *)
(* The machine sleeps and wakes: App drains the posted window events then, *)
(* while the hooks stay set and the worker goes on.                        *)
(***************************************************************************)
EXTENDS Naturals, Sequences

CONSTANTS
    Capacity,  \* ProductionWindowEventQueue::kCapacity
    AppIds,    \* values of RunningAppID; 0 is "no game"
    Budgets    \* how many window events, registry writes, faults and changes of power
               \* there are

ASSUME CapacityAssumption == Capacity \in Nat \ {0}
ASSUME AppIdAssumption == AppIds \subseteq Nat /\ 0 \in AppIds
ASSUME BudgetAssumption == Budgets \subseteq [events: Nat, writes: Nat, faults: Nat, powers: Nat]

\* SteamRunningAppIdWatchTarget
Software == 1
Valve == 2
Steam == 3
Targets == 0 .. Steam

VARIABLES
    budget,
    ui,         \* what the UI thread is doing
    \* ProductionGameWindowSource
    hooked,     \* the hooks are set and accepting_ is
    pending, nextSequence, lost,
    winPc, inHand, winStop,
    inbox,      \* kProductionWindowEvent messages, by sequence number
    handled,    \* the number of events handled, and the last of them
    power,      \* App: suspended_ and resumeRecoveryActive_
    discarded,  \* history: how many posted events were drained unhandled
    \* SteamRunningAppIdSource
    depth, appId,           \* the registry
    steamPc, watched, armed, changed,
    watchArmed, ready, steamStop,
    wakes,      \* kSteamRunningAppIdChanged messages
    posts,      \* history: how many of them were posted
    steamAppId, \* steamRunningAppId_ of the controller
    written,    \* history: how often the registry was written
    missed      \* history: a write between two watches, or whose message was lost

powerVars == <<power, discarded>>
windowVars == <<hooked, pending, nextSequence, lost, winPc, inHand, winStop, inbox, handled,
                powerVars>>
registry == <<depth, appId, written>>
watchVars == <<steamPc, watched, armed, changed, watchArmed, ready, posts>>
steamVars == <<registry, watchVars, steamStop, wakes, steamAppId, missed>>
sourceVars == <<budget, ui, windowVars, steamVars>>

Spend(what) == budget[what] > 0 /\ budget' = [budget EXCEPT ![what] = @ - 1]

WinThread == winPc \in {"run", "asleep", "call"}
SteamThread == steamPc \notin {"none", "ended"}

\* GetRunningAppId
RunningAppId == IF depth = Steam THEN appId ELSE 0

SourcesInit ==
    /\ budget \in Budgets
    /\ ui = "startWindows"
    /\ hooked = FALSE /\ pending = <<>> /\ nextSequence = 1 /\ lost = 0
    /\ winPc = "none" /\ inHand = 0 /\ winStop = FALSE
    /\ inbox = <<>> /\ handled = [count |-> 0, last |-> 0]
    /\ power = "awake" /\ discarded = 0
    /\ depth \in Software .. Steam /\ appId \in AppIds /\ (depth # Steam => appId = 0)
    /\ steamPc = "none" /\ watched = 0 /\ armed = FALSE /\ changed = FALSE
    /\ watchArmed = FALSE /\ ready = FALSE /\ steamStop = FALSE
    /\ wakes = 0 /\ posts = 0 /\ steamAppId = 0
    /\ written = 0 /\ missed = FALSE

-----------------------------------------------------------------------------
(* ProductionGameWindowSource.                                             *)

\* A hook that cannot be set undoes the others and stops the worker.
StartWindowSource ==
    /\ ui = "startWindows"
    /\ \/ /\ winPc' = "run" /\ hooked' = TRUE /\ ui' = "startSteam"
          /\ UNCHANGED <<budget, winStop>>
       \/ /\ Spend("faults")
          /\ winPc' = "run" /\ winStop' = TRUE /\ ui' = "undoWindows"
          /\ UNCHANGED hooked
       \/ /\ Spend("faults")
          /\ ui' = "startSteam"
          /\ UNCHANGED <<winPc, winStop, hooked>>
    /\ UNCHANGED <<pending, nextSequence, lost, inHand, inbox, handled, powerVars, steamVars>>

\* TryPush
QueueIsFull == Len(pending) >= Capacity

(* Mutant: the worker is not notified.                                     *)
AcceptSilently ==
    /\ ui = "on" /\ hooked
    /\ Spend("events")
    /\ nextSequence' = nextSequence + 1
    /\ IF QueueIsFull THEN lost' = lost + 1 /\ UNCHANGED pending
                      ELSE pending' = Append(pending, nextSequence) /\ UNCHANGED lost
    /\ UNCHANGED <<ui, hooked, winPc, inHand, winStop, inbox, handled, powerVars, steamVars>>

\* AcceptCallback for an event it does not filter out, with TryPush.
AcceptCallback ==
    /\ ui = "on" /\ hooked
    /\ Spend("events")
    /\ nextSequence' = nextSequence + 1
    /\ IF QueueIsFull
         THEN lost' = lost + 1 /\ UNCHANGED <<pending, winPc>>
         ELSE /\ pending' = Append(pending, nextSequence)
              /\ winPc' = IF winPc = "asleep" THEN "run" ELSE winPc
              /\ UNCHANGED lost
    /\ UNCHANGED <<ui, hooked, inHand, winStop, inbox, handled, powerVars, steamVars>>

(* Mutant: the worker heeds its stop token before what is pending.         *)
TakesUnlessStopped ==
    /\ winPc = "run" \/ (winPc = "asleep" /\ winStop)
    /\ IF pending # <<>> /\ ~winStop
         THEN winPc' = "call" /\ inHand' = Head(pending) /\ pending' = Tail(pending)
         ELSE /\ winPc' = IF winStop THEN "ended" ELSE "asleep"
              /\ UNCHANGED <<inHand, pending>>
    /\ UNCHANGED <<budget, ui, hooked, nextSequence, lost, winStop, inbox, handled,
                   powerVars, steamVars>>

\* WorkerMain up to the callback: the wait with its predicate and TryPop are
\* under queueMutex_.
WorkerTakes ==
    /\ winPc = "run" \/ (winPc = "asleep" /\ winStop)
    /\ IF pending # <<>>
         THEN winPc' = "call" /\ inHand' = Head(pending) /\ pending' = Tail(pending)
         ELSE /\ winPc' = IF winStop THEN "ended" ELSE "asleep"
              /\ UNCHANGED <<inHand, pending>>
    /\ UNCHANGED <<budget, ui, hooked, nextSequence, lost, winStop, inbox, handled,
                   powerVars, steamVars>>

\* The callback: PostMessageW, or the update is deleted.
WorkerPosts ==
    /\ winPc = "call"
    /\ winPc' = "run" /\ inHand' = 0
    /\ \/ inbox' = Append(inbox, inHand) /\ UNCHANGED <<lost, budget>>
       \/ Spend("faults") /\ lost' = lost + 1 /\ UNCHANGED inbox
    /\ UNCHANGED <<ui, hooked, pending, nextSequence, winStop, handled, powerVars, steamVars>>

(* Mutant: the worker is asked to stop, and not waited for.                *)
DetachWindowWorker(next) ==
    /\ pending' = <<>>
    /\ ui' = next
    /\ UNCHANGED <<budget, hooked, nextSequence, lost, winPc, inHand, winStop, inbox, handled,
                   powerVars, steamVars>>

\* The join of StopWorker, then Clear; where it goes on.
JoinWindowWorker(next) ==
    /\ ~WinThread
    /\ pending' = <<>>
    /\ ui' = next
    /\ UNCHANGED <<budget, hooked, nextSequence, lost, winPc, inHand, winStop, inbox, handled,
                   powerVars, steamVars>>

UndoWindowSource == ui = "undoWindows" /\ JoinWindowWorker("startSteam")

-----------------------------------------------------------------------------
(* SteamRunningAppIdSource: Start and WatchLoop.                           *)

StartSteamWatcher ==
    /\ ui = "startSteam"
    /\ \/ steamPc' = "open" /\ ui' = "awaitReady" /\ UNCHANGED budget
       \/ \* an event or the thread cannot be created
          Spend("faults") /\ ui' = "readSteam" /\ UNCHANGED steamPc
    /\ UNCHANGED <<windowVars, registry, watched, armed, changed, watchArmed, ready, posts,
                   steamStop, wakes, steamAppId, missed>>

\* The wait of Start for the worker, which may have failed to watch.
AwaitReady ==
    /\ ui = "awaitReady" /\ ready
    /\ IF watchArmed
         THEN ui' = "readSteam" /\ UNCHANGED steamStop
         ELSE ui' = "undoSteam" /\ steamStop' = TRUE
    /\ UNCHANGED <<budget, windowVars, registry, watchVars, wakes, steamAppId, missed>>

JoinSteamWorker(next) ==
    /\ ~SteamThread
    /\ watchArmed' = FALSE /\ ready' = FALSE
    /\ ui' = next
    /\ UNCHANGED <<budget, windowVars, registry, steamPc, watched, armed, changed, posts,
                   steamStop, wakes, steamAppId, missed>>

UndoSteamWatcher == ui = "undoSteam" /\ JoinSteamWorker("readSteam")

InitializeSteamSession ==
    /\ ui = "readSteam"
    /\ steamAppId' = RunningAppId /\ missed' = FALSE
    /\ ui' = "on"
    /\ UNCHANGED <<budget, windowVars, registry, watchVars, steamStop, wakes>>

\* The worker ends: before its first watch, Start hears of it.
WatchEnds ==
    /\ steamPc' = "ended"
    /\ ready' = TRUE

\* OpenWatchKey, or no change event for it.
OpenKey ==
    /\ steamPc = "open"
    /\ \/ /\ watched' = depth /\ steamPc' = "arm" /\ UNCHANGED <<ready, budget>>
       \/ watched = 0 /\ Spend("faults") /\ WatchEnds /\ UNCHANGED watched
       \/ Spend("faults") /\ steamPc' = "idle" /\ ready' = TRUE /\ UNCHANGED watched
    /\ UNCHANGED <<ui, windowVars, registry, armed, changed, watchArmed, posts, steamStop,
                   wakes, steamAppId, missed>>

\* No key at all: wait for Stop.
IdleEnds ==
    /\ steamPc = "idle" /\ steamStop
    /\ steamPc' = "ended"
    /\ UNCHANGED <<budget, ui, windowVars, registry, watched, armed, changed, watchArmed,
                   ready, posts, steamStop, wakes, steamAppId, missed>>

\* ResetEvent and RegNotifyChangeKeyValue.
ArmWatch ==
    /\ steamPc = "arm"
    /\ changed' = FALSE
    /\ \/ /\ armed' = TRUE
          /\ steamPc' = IF watched = Steam THEN "armed" ELSE "recheck"
          /\ UNCHANGED <<ready, budget>>
       \/ Spend("faults") /\ WatchEnds /\ UNCHANGED armed
    /\ UNCHANGED <<ui, windowVars, registry, watched, watchArmed, posts, steamStop, wakes,
                   steamAppId, missed>>

(* Mutant: the parent stays watched.                                       *)
KeepParent ==
    /\ steamPc = "recheck" /\ steamPc' = "armed"
    /\ UNCHANGED <<budget, ui, windowVars, registry, watched, armed, changed, watchArmed, ready,
                   posts, steamStop, wakes, steamAppId, missed>>

\* A key that appeared below the watched one meanwhile; closing a watched key
\* signals its event.
RecheckKey ==
    /\ steamPc = "recheck"
    /\ IF depth > watched
         THEN steamPc' = "open" /\ armed' = FALSE /\ changed' = TRUE
         ELSE steamPc' = "armed" /\ UNCHANGED <<armed, changed>>
    /\ UNCHANGED <<budget, ui, windowVars, registry, watched, watchArmed, ready, posts,
                   steamStop, wakes, steamAppId, missed>>

WatchIsArmed ==
    /\ steamPc = "armed"
    /\ watchArmed' = TRUE
    /\ ready' = TRUE
    /\ steamPc' = "wait"
    /\ UNCHANGED <<budget, ui, windowVars, registry, watched, armed, changed, posts,
                   steamStop, wakes, steamAppId, missed>>

(* Mutant: a change of a parent key is not posted.                         *)
WakesForSteamOnly ==
    /\ steamPc = "wait" /\ (steamStop \/ changed)
    /\ armed' = FALSE /\ changed' = TRUE
    /\ steamPc' = IF steamStop THEN "ended" ELSE IF watched = Steam THEN "post" ELSE "open"
    /\ UNCHANGED <<budget, ui, windowVars, registry, watched, watchArmed, ready, posts,
                   steamStop, wakes, steamAppId, missed>>

\* The wait for Stop or a change; Stop wins when both are signalled.
WatchWakes ==
    /\ steamPc = "wait" /\ (steamStop \/ changed)
    /\ armed' = FALSE /\ changed' = TRUE
    /\ steamPc' = IF steamStop THEN "ended" ELSE "post"
    /\ UNCHANGED <<budget, ui, windowVars, registry, watched, watchArmed, ready, posts,
                   steamStop, wakes, steamAppId, missed>>

\* Whether PostMessageW succeeded is not looked at.
PostChange ==
    /\ steamPc = "post"
    /\ steamPc' = "open"
    /\ posts' = posts + 1
    /\ \/ wakes' = wakes + 1 /\ UNCHANGED <<budget, missed>>
       \/ Spend("faults") /\ missed' = TRUE /\ UNCHANGED wakes
    /\ UNCHANGED <<ui, windowVars, registry, watched, armed, changed, watchArmed,
                   ready, steamStop, steamAppId>>

WatchLoop ==
    OpenKey \/ IdleEnds \/ ArmWatch \/ RecheckKey \/ WatchIsArmed \/ WatchWakes \/ PostChange

-----------------------------------------------------------------------------
(* The registry: one notification for one watch, for a value of the Steam  *)
(* key or for a subkey directly below a parent.                            *)

Notify(key) ==
    IF armed /\ watched = key THEN changed' = TRUE /\ armed' = FALSE
    ELSE UNCHANGED <<changed, armed>>

\* A notification will still lead to a read of the value.
ReadUnderWay == wakes > 0 \/ steamPc = "post" \/ (steamPc \in {"armed", "wait"} /\ changed)

WriteRegistry ==
    /\ Spend("writes")
    /\ written' = written + 1
    /\ \/ /\ depth = Steam
          /\ appId' \in AppIds /\ UNCHANGED depth
          /\ Notify(Steam)
          /\ missed' = (missed \/ (watchArmed /\ ~(armed /\ watched = Steam) /\ ~ReadUnderWay))
       \/ /\ depth < Steam
          /\ depth' = depth + 1 /\ UNCHANGED <<appId, missed>>
          /\ Notify(depth)
       \/ \* another subkey of a parent
          /\ UNCHANGED <<depth, appId, missed>>
          /\ \E key \in Software .. Valve : key <= depth /\ Notify(key)
    /\ UNCHANGED <<ui, windowVars, steamPc, watched, watchArmed, ready, posts, steamStop, wakes,
                   steamAppId>>

-----------------------------------------------------------------------------
(* GameSessionController: the two messages and StopSources.                *)

HandleProductionWindowEvent ==
    /\ ui = "on" /\ inbox # <<>>
    /\ inbox' = Tail(inbox)
    /\ handled' = [count |-> handled.count + 1, last |-> Head(inbox)]
    /\ UNCHANGED <<budget, ui, hooked, pending, nextSequence, lost, winPc, inHand, winStop,
                   powerVars, steamVars>>

HandleSteamRunningAppIdChanged ==
    /\ ui = "on" /\ wakes > 0
    /\ wakes' = wakes - 1
    /\ steamAppId' = RunningAppId /\ missed' = FALSE
    /\ UNCHANGED <<budget, ui, windowVars, registry, watchVars, steamStop>>

\* DrainQueue of the posted window events, for a suspend, the fallback of a
\* resume and the end of StopSources; the messages of the Steam source stay.
DrainWindowEvents ==
    /\ inbox' = <<>>
    /\ discarded' = discarded + Len(inbox)
    /\ UNCHANGED <<hooked, pending, nextSequence, lost, winPc, inHand, winStop, handled, steamVars>>

HandleSystemSuspend ==
    /\ ui = "on" /\ power # "suspended"
    /\ Spend("powers")
    /\ power' = "suspended"
    /\ DrainWindowEvents
    /\ UNCHANGED ui

\* Without a suspend before it, the resume drains in its place.
HandleSystemResume ==
    /\ ui = "on" /\ power # "recovering"
    /\ Spend("powers")
    /\ power' = "recovering"
    /\ IF power = "awake" THEN DrainWindowEvents
       ELSE UNCHANGED <<hooked, pending, nextSequence, lost, winPc, inHand, winStop,
                        inbox, handled, discarded, steamVars>>
    /\ UNCHANGED ui

\* The recovery ends, with the HUD back or its attempts spent.
FinishRecovery ==
    /\ ui = "on" /\ power = "recovering"
    /\ power' = "awake"
    /\ UNCHANGED <<budget, ui, hooked, pending, nextSequence, lost, winPc, inHand, winStop, inbox,
                   handled, discarded, steamVars>>

PowerChange == HandleSystemSuspend \/ HandleSystemResume \/ FinishRecovery

\* Stop of the window source, up to the join.
StopSources ==
    /\ ui = "on"
    /\ hooked' = FALSE
    /\ winStop' = TRUE
    /\ ui' = "joinWindows"
    /\ UNCHANGED <<budget, pending, nextSequence, lost, winPc, inHand, inbox, handled,
                   powerVars, steamVars>>

FinishWindowSource == ui = "joinWindows" /\ JoinWindowWorker("stopSteam")

StopSteamWatcher ==
    /\ ui = "stopSteam"
    /\ steamStop' = TRUE
    /\ ui' = "joinSteam"
    /\ UNCHANGED <<budget, windowVars, registry, watchVars, wakes, steamAppId, missed>>

FinishSteamWatcher == ui = "joinSteam" /\ JoinSteamWorker("discard")

DiscardPendingEvents ==
    /\ ui = "discard"
    /\ DrainWindowEvents
    /\ ui' = "stopped"
    /\ UNCHANGED <<budget, power>>

Starting == StartWindowSource \/ UndoWindowSource \/ StartSteamWatcher \/ AwaitReady
            \/ UndoSteamWatcher \/ InitializeSteamSession
Stopping == FinishWindowSource \/ StopSteamWatcher \/ FinishSteamWatcher \/ DiscardPendingEvents
Handling == HandleProductionWindowEvent \/ HandleSteamRunningAppIdChanged
UiThread == Starting \/ Stopping \/ Handling
WindowWorker == WorkerTakes \/ WorkerPosts

\* The process goes on to exit.
Stopped == ui = "stopped" /\ UNCHANGED sourceVars

SourcesNext == AcceptCallback \/ WriteRegistry \/ PowerChange \/ StopSources
        \/ UiThread \/ WindowWorker \/ WatchLoop \/ Stopped

(* The threads are scheduled and the UI thread pumps its messages; nothing *)
(* makes windows, Steam, the machine's power or the user act.              *)
SourcesFairness == WF_sourceVars(UiThread) /\ WF_sourceVars(WindowWorker) /\ WF_sourceVars(WatchLoop)
SourcesSpec == SourcesInit /\ [][SourcesNext]_sourceVars /\ SourcesFairness

-----------------------------------------------------------------------------
(* Properties.                                                             *)

UiStates == {"startWindows", "undoWindows", "startSteam", "awaitReady", "undoSteam",
             "readSteam", "on", "joinWindows", "stopSteam", "joinSteam", "discard", "stopped"}

(* Type correctness, with the one bound the code promises: at most         *)
(* Capacity events wait (ProductionWindowEventQueue::TryPush).             *)
SourcesTypeOK ==
    /\ budget \in [events: Nat, writes: Nat, faults: Nat, powers: Nat]
    /\ ui \in UiStates
    /\ {hooked, winStop, armed, changed, watchArmed, ready, steamStop, missed} \subseteq BOOLEAN
    /\ pending \in Seq(Nat) /\ Len(pending) <= Capacity
    /\ inbox \in Seq(Nat)
    /\ {nextSequence, lost, inHand, discarded, wakes, posts, written} \subseteq Nat
    /\ power \in {"awake", "suspended", "recovering"}
    /\ handled \in [count: Nat, last: Nat]
    /\ winPc \in {"none", "run", "asleep", "call", "ended"}
    /\ steamPc \in {"none", "open", "arm", "recheck", "armed", "wait", "post", "idle", "ended"}
    /\ depth \in Targets /\ watched \in Targets /\ appId \in AppIds /\ steamAppId \in AppIds

\* The window events between the hook and the handler, the oldest first.
InFlight == inbox \o (IF inHand = 0 THEN <<>> ELSE <<inHand>>) \o pending

(* Across the hook, the queue, the worker, the message queue, sleep and    *)
(* Stop, every accepted event is handled, in flight, was lost because the  *)
(* queue was full or its post failed, or was drained from the message      *)
(* queue by a suspend, the fallback of a resume or the end of StopSources; *)
(* none that the hook or the worker holds at such a moment is lost; and    *)
(* events are handled in the order of their sequence numbers (WorkerMain   *)
(* of ProductionGameWindowSource, which empties its queue before it heeds  *)
(* its stop token, and GameSessionController::DiscardPendingSuspendEvents).*)
EventsAreKept ==
    /\ SourcesTypeOK
    /\ nextSequence - 1 = handled.count + Len(InFlight) + lost + discarded
    /\ \A i, j \in 1 .. Len(InFlight) : i < j => InFlight[i] < InFlight[j]
    /\ InFlight # <<>> => handled.last < Head(InFlight)

(* A watch that waits, with nothing signalled, is armed on the deepest key *)
(* that exists: a Steam key created between opening its parent and arming  *)
(* is not overlooked (SteamRunningAppIdSource::WatchLoop).                 *)
WatchIsDeepest ==
    steamPc \in {"armed", "wait"} /\ ~changed => armed /\ watched = depth

(* While a watch is kept, the controller's AppID differs from the          *)
(* registry's only while a read is under way, after a write in the gap     *)
(* between a notification's post and the next arming, or after a post that *)
(* failed: the read after Start leaves no gap, because Start returns only  *)
(* once the watch is armed.                                                *)
StaleOnlyAfterGap ==
    ui = "on" /\ steamPc \notin {"none", "idle", "ended"} /\ steamAppId # RunningAppId
        => ReadUnderWay \/ missed

(* The watcher posts no more often than the registry was written: the      *)
(* event that closing a watched key signals is not taken for a change.     *)
NoSpuriousWake == posts <= written

(* Once StopSources returned, no worker runs, so none can post to the      *)
(* window that is destroyed next or call a callback that is gone, and no   *)
(* allocated update is left in the message queue.                          *)
QuietAfterStop ==
    ui = "stopped" => ~WinThread /\ ~SteamThread /\ pending = <<>> /\ inbox = <<>> /\ inHand = 0

(* Starting and stopping end whatever fails, and in between no accepted    *)
(* event stays in flight, it is handled unless a suspend or a resume drains*)
(* it, and every notification is handled (Start waits for the worker's     *)
(* ready event without a time limit, both Stops join their threads).       *)
SourcesSettle ==
    []<>(\/ ui = "stopped"
         \/ ui = "on" /\ InFlight = <<>> /\ wakes = 0 /\ steamPc \in {"none", "wait", "idle", "ended"})

(* Violated: a change of RunningAppID updates the Steam session (the       *)
(* design: "RunningAppID change -> update SteamSessionContext", "N -> 0:   *)
(* clear Steam session context").                                          *)
SteamSessionFollows ==
    []<>(ui # "on" \/ steamPc \in {"none", "idle", "ended"} \/ steamAppId = RunningAppId)
=============================================================================
