--------------------------- MODULE DispatchBridge ---------------------------
(***************************************************************************)
(* RuntimeControlDispatchBridge: a Control request submitted by a          *)
(* background thread is queued, the main thread is woken by a posted       *)
(* message, drains the queue, runs the handler and completes the request;  *)
(* the submitting thread waits for the completion.  Every section the code *)
(* holds a mutex for is one step; what it does between two sections is     *)
(* interleaved with the steps of the other threads.                        *)
(*                                                                         *)
(* A call c \in Calls is one activation of Dispatch together with the      *)
(* Pending it creates: the Pending is shared, so the main thread can still *)
(* hold it after Dispatch has returned.                                    *)
(***************************************************************************)
EXTENDS Naturals

CONSTANTS Threads,      \* the threads that call Dispatch
          MainThread,   \* the thread given to Start()
          Calls,        \* the calls that are made
          Caller,       \* the thread that makes each call
          NoCall

ASSUME CallsAssumption == /\ NoCall \notin Calls
                          /\ Caller \in [Calls -> Threads]

VARIABLES
    accepting,    \* accepting_
    queue,        \* queue_: the calls waiting for a drain, oldest ticket first
    ticket,       \* the position of a call in the order of push_back
    nextTicket,
    wakes,        \* wake messages posted and not yet handled
    pc,           \* where each activation of Dispatch is
    answer,       \* Pending::result ("none" until Pending::completed)
    executed,     \* how many times the handler ran for a call
    main,         \* what the main thread does with the bridge
    batch,        \* the local deque of DrainOnMainThread or of Stop
    current       \* the request the handler runs, or NoCall

vars == <<accepting, queue, ticket, nextTicket, wakes, pc, answer, executed,
          main, batch, current>>

Statuses == {"none", "Executed", "ShuttingDown", "RuntimeUnavailable"}
CallStates == {"idle", "self", "enqueued", "unwoken", "erased", "waiting",
               "returned"}
MainStates == {"created", "loop", "draining", "handling", "handled",
               "stopping", "stopped"}

TypeOK == /\ accepting \in BOOLEAN
          /\ queue \subseteq Calls
          /\ ticket \in [Calls -> Nat]
          /\ nextTicket \in Nat
          /\ wakes \in Nat
          /\ pc \in [Calls -> CallStates]
          /\ answer \in [Calls -> Statuses]
          /\ executed \in [Calls -> Nat]
          /\ main \in MainStates
          /\ batch \subseteq Calls
          /\ current \in Calls \cup {NoCall}

Init == /\ accepting = FALSE
        /\ queue = {}
        /\ ticket = [c \in Calls |-> 0]
        /\ nextTicket = 0
        /\ wakes = 0
        /\ pc = [c \in Calls |-> "idle"]
        /\ answer = [c \in Calls |-> "none"]
        /\ executed = [c \in Calls |-> 0]
        /\ main = "created"
        /\ batch = {}
        /\ current = NoCall

(***************************************************************************)
(* Helpers.                                                                *)
(***************************************************************************)

Inside(c) == pc[c] \notin {"idle", "returned"}

\* A thread is in one activation of Dispatch at a time.
Free(t) == \A c \in Calls : Caller[c] = t => ~Inside(c)

Completed(c) == answer[c] # "none"

\* Complete(): the first completion of a Pending wins, a later one is dropped.
Complete(c, status) ==
    answer' = [answer EXCEPT ![c] = IF Completed(c) THEN answer[c] ELSE status]

\* Mutant of IsFront: the newest call is taken first.
IsBack(c, S) == c \in S /\ \A d \in S : ticket[c] >= ticket[d]

\* The front of a deque: the call of S that was pushed first.
IsFront(c, S) == c \in S /\ \A d \in S : ticket[c] <= ticket[d]

(***************************************************************************)
(* Dispatch(), step by step.                                               *)
(***************************************************************************)

\* Not accepting: a terminal result is returned, without a Pending.
RefuseAtEntry(c) ==
    /\ pc[c] = "idle" /\ Free(Caller[c])
    /\ Caller[c] = MainThread => main \in {"created", "loop", "stopped"}
    /\ ~accepting
    /\ pc' = [pc EXCEPT ![c] = "returned"]
    /\ answer' = [answer EXCEPT ![c] = "ShuttingDown"]
    /\ UNCHANGED <<accepting, queue, ticket, nextTicket, wakes, executed,
                   main, batch, current>>

\* A call from the main thread itself: no Pending, the handler runs at once,
\* outside the lock.
EnterSelfDispatch(c) ==
    /\ pc[c] = "idle" /\ Free(Caller[c])
    /\ accepting
    /\ Caller[c] = MainThread /\ main = "loop"
    /\ pc' = [pc EXCEPT ![c] = "self"]
    /\ UNCHANGED <<accepting, queue, ticket, nextTicket, wakes, answer,
                   executed, main, batch, current>>

RunSelfDispatch(c) ==
    /\ pc[c] = "self"
    /\ executed' = [executed EXCEPT ![c] = @ + 1]
    /\ pc' = [pc EXCEPT ![c] = "waiting"]
    /\ answer' = [answer EXCEPT ![c] = "Executed"]
    /\ UNCHANGED <<accepting, queue, ticket, nextTicket, wakes, main, batch,
                   current>>

\* Mutant of Enqueue: accepting_ is not looked at.
EnqueueUnchecked(c) ==
    /\ pc[c] = "idle" /\ Free(Caller[c])
    /\ Caller[c] # MainThread
    /\ queue' = queue \cup {c}
    /\ ticket' = [ticket EXCEPT ![c] = nextTicket]
    /\ nextTicket' = nextTicket + 1
    /\ pc' = [pc EXCEPT ![c] = "enqueued"]
    /\ UNCHANGED <<accepting, wakes, answer, executed, main, batch, current>>

Enqueue(c) ==
    /\ pc[c] = "idle" /\ Free(Caller[c])
    /\ accepting
    /\ Caller[c] # MainThread
    /\ queue' = queue \cup {c}
    /\ ticket' = [ticket EXCEPT ![c] = nextTicket]
    /\ nextTicket' = nextTicket + 1
    /\ pc' = [pc EXCEPT ![c] = "enqueued"]
    /\ UNCHANGED <<accepting, wakes, answer, executed, main, batch, current>>

\* wake(): PostMessage to the runtime window, outside the lock.
WakeSucceeds(c) ==
    /\ pc[c] = "enqueued"
    /\ wakes' = wakes + 1
    /\ pc' = [pc EXCEPT ![c] = "waiting"]
    /\ UNCHANGED <<accepting, queue, ticket, nextTicket, answer, executed,
                   main, batch, current>>

\* Mutant of WakeFails: the callback reports the negation of PostMessage.
WakeFailsButPosts(c) ==
    /\ pc[c] = "enqueued"
    /\ wakes' = wakes + 1
    /\ pc' = [pc EXCEPT ![c] = "unwoken"]
    /\ UNCHANGED <<accepting, queue, ticket, nextTicket, answer, executed,
                   main, batch, current>>

WakeFails(c) ==
    /\ pc[c] = "enqueued"
    /\ pc' = [pc EXCEPT ![c] = "unwoken"]
    /\ UNCHANGED <<accepting, queue, ticket, nextTicket, wakes, answer,
                   executed, main, batch, current>>

\* std::erase under the lock: finds nothing if a drain has taken the call.
EraseUnwoken(c) ==
    /\ pc[c] = "unwoken"
    /\ queue' = queue \ {c}
    /\ pc' = [pc EXCEPT ![c] = "erased"]
    /\ UNCHANGED <<accepting, ticket, nextTicket, wakes, answer, executed,
                   main, batch, current>>

\* Mutant of CompleteUnwoken: the call goes on to wait, not completed.
UnwokenNotCompleted(c) ==
    /\ pc[c] = "erased"
    /\ pc' = [pc EXCEPT ![c] = "waiting"]
    /\ UNCHANGED <<accepting, queue, ticket, nextTicket, wakes, answer,
                   executed, main, batch, current>>

CompleteUnwoken(c) ==
    /\ pc[c] = "erased"
    /\ Complete(c, "RuntimeUnavailable")
    /\ pc' = [pc EXCEPT ![c] = "waiting"]
    /\ UNCHANGED <<accepting, queue, ticket, nextTicket, wakes, executed,
                   main, batch, current>>

\* done.wait() returns once the Pending is completed.
Return(c) ==
    /\ pc[c] = "waiting"
    /\ Completed(c)
    /\ pc' = [pc EXCEPT ![c] = "returned"]
    /\ UNCHANGED <<accepting, queue, ticket, nextTicket, wakes, answer,
                   executed, main, batch, current>>

(***************************************************************************)
(* The main thread: Start(), DrainOnMainThread(), Stop().                  *)
(***************************************************************************)

Start ==
    /\ main = "created"
    /\ accepting' = TRUE
    /\ main' = "loop"
    /\ UNCHANGED <<queue, ticket, nextTicket, wakes, pc, answer, executed,
                   batch, current>>

\* No call of the main thread is in progress: it is back in its message loop.
Looping == main = "loop" /\ Free(MainThread)

\* Mutant of DrainSwap: the queue is drained without a message.
DrainUnasked ==
    /\ Looping
    /\ wakes' = wakes - 1
    /\ batch' = queue
    /\ queue' = {}
    /\ main' = "draining"
    /\ UNCHANGED <<accepting, ticket, nextTicket, pc, answer, executed,
                   current>>

DrainSwap ==
    /\ Looping
    /\ wakes > 0
    /\ wakes' = wakes - 1
    /\ batch' = queue
    /\ queue' = {}
    /\ main' = "draining"
    /\ UNCHANGED <<accepting, ticket, nextTicket, pc, answer, executed,
                   current>>

\* A request completed meanwhile (its wake failed) is not run.
SkipCompleted(c) ==
    /\ main = "draining"
    /\ IsFront(c, batch)
    /\ Completed(c)
    /\ batch' = batch \ {c}
    /\ UNCHANGED <<accepting, queue, ticket, nextTicket, wakes, pc, answer,
                   executed, main, current>>

TakeForHandler(c) ==
    /\ main = "draining"
    /\ IsFront(c, batch)
    /\ ~Completed(c)
    /\ batch' = batch \ {c}
    /\ current' = c
    /\ main' = "handling"
    /\ UNCHANGED <<accepting, queue, ticket, nextTicket, wakes, pc, answer,
                   executed>>

\* The handler runs without any lock of the bridge.
Handle ==
    /\ main = "handling"
    /\ executed' = [executed EXCEPT ![current] = @ + 1]
    /\ main' = "handled"
    /\ UNCHANGED <<accepting, queue, ticket, nextTicket, wakes, pc, answer,
                   batch, current>>

CompleteHandled ==
    /\ main = "handled"
    /\ Complete(current, "Executed")
    /\ current' = NoCall
    /\ main' = "draining"
    /\ UNCHANGED <<accepting, queue, ticket, nextTicket, wakes, pc, executed,
                   batch>>

DrainEnd ==
    /\ main = "draining"
    /\ batch = {}
    /\ main' = "loop"
    /\ UNCHANGED <<accepting, queue, ticket, nextTicket, wakes, pc, answer,
                   executed, batch, current>>

\* Mutant of StopSwap: the queue is cleared, its waiters are forgotten.
StopClear ==
    /\ main \in {"created", "loop"} /\ Free(MainThread)
    /\ accepting' = FALSE
    /\ queue' = {}
    /\ main' = "stopping"
    /\ UNCHANGED <<ticket, nextTicket, wakes, pc, answer, executed, batch,
                   current>>

\* Stop() closes the queue and takes what is in it in one locked section. It
\* is also reached before Start(), from the destructor after a failed startup.
StopSwap ==
    /\ main \in {"created", "loop"} /\ Free(MainThread)
    /\ accepting' = FALSE
    /\ batch' = queue
    /\ queue' = {}
    /\ main' = "stopping"
    /\ UNCHANGED <<ticket, nextTicket, wakes, pc, answer, executed, current>>

\* Mutant of StopComplete: the terminal result keeps its default status, Ok.
StopCompleteOk(c) ==
    /\ main = "stopping"
    /\ IsFront(c, batch)
    /\ Complete(c, "Executed")
    /\ batch' = batch \ {c}
    /\ UNCHANGED <<accepting, queue, ticket, nextTicket, wakes, pc, executed,
                   main, current>>

\* Mutant of StopComplete: Stop() runs what is queued instead of refusing it.
StopCompleteRuns(c) ==
    /\ main = "stopping"
    /\ IsFront(c, batch)
    /\ executed' = [executed EXCEPT ![c] = @ + 1]
    /\ Complete(c, "Executed")
    /\ batch' = batch \ {c}
    /\ UNCHANGED <<accepting, queue, ticket, nextTicket, wakes, pc, main,
                   current>>

StopComplete(c) ==
    /\ main = "stopping"
    /\ IsFront(c, batch)
    /\ Complete(c, "ShuttingDown")
    /\ batch' = batch \ {c}
    /\ UNCHANGED <<accepting, queue, ticket, nextTicket, wakes, pc, executed,
                   main, current>>

StopEnd ==
    /\ main = "stopping"
    /\ batch = {}
    /\ main' = "stopped"
    /\ UNCHANGED <<accepting, queue, ticket, nextTicket, wakes, pc, answer,
                   executed, batch, current>>

(***************************************************************************)
(* The specification.                                                      *)
(***************************************************************************)

CallStep(c) == \/ RefuseAtEntry(c) \/ EnterSelfDispatch(c) \/ RunSelfDispatch(c)
               \/ Enqueue(c)
               \/ WakeSucceeds(c) \/ WakeFails(c)
               \/ EraseUnwoken(c) \/ CompleteUnwoken(c) \/ Return(c)

Drain == \/ DrainSwap \/ Handle \/ CompleteHandled \/ DrainEnd
         \/ \E c \in Calls : SkipCompleted(c) \/ TakeForHandler(c)

Stop == StopSwap \/ StopEnd \/ \E c \in Calls : StopComplete(c)

Next == Start \/ Drain \/ Stop \/ \E c \in Calls : CallStep(c)

\* A thread inside Dispatch keeps running, and the message loop keeps handling
\* posted messages; nothing forces a call to be made or the bridge to stop.
Fairness ==
    /\ \A c \in Calls : WF_vars(RunSelfDispatch(c) \/ WakeSucceeds(c) \/ WakeFails(c)
                                \/ EraseUnwoken(c) \/ CompleteUnwoken(c)
                                \/ Return(c))
    /\ WF_vars(Drain)
    /\ WF_vars(StopEnd \/ \E c \in Calls : StopComplete(c))

Spec == Init /\ [][Next]_vars /\ Fairness

(***************************************************************************)
(* Properties.                                                             *)
(***************************************************************************)

Returned(c, status) == pc[c] = "returned" /\ answer[c] = status

\* A caller told that its request was executed can rely on it having run once
\* and not again, and one told ShuttingDown on it never running: neither a
\* drain, nor Stop(), nor a completion that comes second in Complete() makes
\* the answer untrue.
AnswerIsTrue ==
    \A c \in Calls : /\ Returned(c, "Executed") => executed[c] = 1
                     /\ Returned(c, "ShuttingDown") => executed[c] = 0

\* A caller told RuntimeUnavailable can resend: its request did not run and
\* will not. It needs the single producer the runtime has (the pipe worker).
UnavailableMeansNotExecuted ==
    \A c \in Calls : Returned(c, "RuntimeUnavailable") => executed[c] = 0

\* The handler runs the requests in the order they were pushed: at the step
\* that runs c, every older call is completed or its wake has failed.
FifoExecution ==
    [][\A c, d \in Calls :
          /\ executed'[c] # executed[c]
          /\ Caller[c] # MainThread
          /\ Inside(d) /\ Caller[d] # MainThread
          /\ ticket[d] < ticket[c] /\ ticket[c] < nextTicket
          => Completed(d) \/ pc[d] \in {"unwoken", "erased"}]_vars

\* Once Stop() has begun the main thread runs no handler any more.
NothingRunsAfterStop ==
    [][(main \in {"stopping", "stopped"}) => executed' = executed]_vars

\* No caller waits for ever: every Dispatch returns, whatever the order of
\* submission, failed wake-up, drain and stop.
EveryCallReturns ==
    \A c \in Calls : pc[c] = "enqueued" ~> pc[c] = "returned"

\* Nobody starves behind another thread's requests: they run in order, and each
\* caller gets its answer.
ServedInTurn == FifoExecution /\ EveryCallReturns

(***************************************************************************)
(* The bridge implements ControlService.                                   *)
(***************************************************************************)

StateOf(c) ==
    CASE pc[c] = "idle" -> "idle"
      [] pc[c] = "returned" -> "done"
      [] Inside(c) /\ executed[c] = 0 -> "invoked"
      [] OTHER -> "applied"

OutcomeOf(c) == IF pc[c] = "returned" THEN answer[c] ELSE "none"

Service == INSTANCE ControlService WITH
               open <- accepting,
               state <- [c \in Calls |-> StateOf(c)],
               outcome <- [c \in Calls |-> OutcomeOf(c)]

\* With one producer, callers cannot tell the bridge from the service.
ImplementsService == Service!Spec
=============================================================================
