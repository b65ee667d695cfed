------------------------ MODULE DispatchBridgeProofs ------------------------
(***************************************************************************)
(* Theorems about DispatchBridge, for every set of threads and calls.      *)
(*                                                                         *)
(* The answers are true because of where a call can be: a call that is     *)
(* still in a deque has not run and has no final answer but                *)
(* RuntimeUnavailable, and a call in the hands of the handler is in no     *)
(* deque. QueuedNotRun and InHandler say so; the rest of IInv ties the     *)
(* answers to the executions.                                              *)
(***************************************************************************)
EXTENDS DispatchBridge, TLAPS

InDrain == main \in {"draining", "handling", "handled"}

CurrentIsHandled ==
    /\ current = NoCall <=> main \notin {"handling", "handled"}
    /\ current \notin queue \cup batch

QueuedNotRun ==
    \A c \in queue \cup batch : /\ pc[c] \notin {"idle", "self"}
                                /\ executed[c] = 0
                                /\ answer[c] \in {"none", "RuntimeUnavailable"}

InHandler ==
    current # NoCall =>
        /\ pc[current] \notin {"idle", "self"}
        /\ executed[current] = IF main = "handled" THEN 1 ELSE 0
        /\ answer[current] \in {"none", "RuntimeUnavailable"}

NotYetCalled ==
    \A c \in Calls : pc[c] \in {"idle", "self"} =>
                        executed[c] = 0 /\ answer[c] = "none"

SelfOnMain ==
    \A c \in Calls : pc[c] = "self" => main = "loop" /\ Caller[c] = MainThread

AnswersMatch ==
    \A c \in Calls : /\ answer[c] = "Executed" => executed[c] = 1
                     /\ answer[c] = "ShuttingDown" => executed[c] = 0

AtMostOnce == \A c \in Calls : executed[c] <= 1

IInv == /\ TypeOK
        /\ queue \cap batch = {}
        /\ CurrentIsHandled
        /\ QueuedNotRun
        /\ InHandler
        /\ NotYetCalled
        /\ SelfOnMain
        /\ AnswersMatch
        /\ AtMostOnce

\* The invariant holds when the bridge is constructed.
LEMMA InitIInv == Init => IInv
<1> SUFFICES ASSUME Init PROVE IInv
  OBVIOUS
<1>1. TypeOK
  BY DEF Init, TypeOK, Statuses, CallStates, MainStates
<1>2. queue \cap batch = {} /\ QueuedNotRun
  BY DEF Init, QueuedNotRun
<1>3. CurrentIsHandled /\ InHandler
  BY DEF Init, CurrentIsHandled, InHandler
<1>4. NotYetCalled /\ SelfOnMain /\ AnswersMatch /\ AtMostOnce
  BY DEF Init, NotYetCalled, SelfOnMain, AnswersMatch, AtMostOnce
<1>5. QED
  BY <1>1, <1>2, <1>3, <1>4 DEF IInv

\* Every step of the bridge preserves the invariant.
LEMMA NextIInv == IInv /\ [Next]_vars => IInv'
<1> SUFFICES ASSUME IInv, [Next]_vars PROVE IInv'
  OBVIOUS
<1> USE CallsAssumption DEF IInv, TypeOK, Statuses, CallStates, MainStates,
        QueuedNotRun, CurrentIsHandled, InHandler, NotYetCalled, SelfOnMain,
        AnswersMatch, AtMostOnce
<1>1. ASSUME NEW c \in Calls, CallStep(c) PROVE IInv'
  <2>1. CASE RefuseAtEntry(c)
    BY <2>1 DEF RefuseAtEntry
  <2>2. CASE EnterSelfDispatch(c)
    BY <2>2 DEF EnterSelfDispatch
  <2>3. CASE RunSelfDispatch(c)
    BY <2>3 DEF RunSelfDispatch
  <2>4. CASE Enqueue(c)
    BY <2>4 DEF Enqueue
  <2>5. CASE WakeSucceeds(c)
    BY <2>5 DEF WakeSucceeds
  <2>6. CASE WakeFails(c)
    BY <2>6 DEF WakeFails
  <2>7. CASE EraseUnwoken(c)
    BY <2>7 DEF EraseUnwoken
  <2>8. CASE CompleteUnwoken(c)
    BY <2>8 DEF CompleteUnwoken, Complete, Completed
  <2>9. CASE Return(c)
    BY <2>9 DEF Return, Completed
  <2>10. QED
    BY <1>1, <2>1, <2>2, <2>3, <2>4, <2>5, <2>6, <2>7, <2>8, <2>9 DEF CallStep
<1>2. CASE Drain
  <2>1. CASE DrainSwap
    BY <2>1 DEF DrainSwap, Looping, Free, Inside
  <2>2. CASE Handle
    BY <2>2 DEF Handle
  <2>3. CASE CompleteHandled
    BY <2>3 DEF CompleteHandled, Complete, Completed
  <2>4. CASE DrainEnd
    BY <2>4 DEF DrainEnd
  <2>5. ASSUME NEW c \in Calls, SkipCompleted(c) PROVE IInv'
    BY <2>5 DEF SkipCompleted, IsFront
  <2>6. ASSUME NEW c \in Calls, TakeForHandler(c) PROVE IInv'
    BY <2>6 DEF TakeForHandler, IsFront, Completed
  <2>7. QED
    BY <1>2, <2>1, <2>2, <2>3, <2>4, <2>5, <2>6 DEF Drain
<1>3. CASE Stop
  <2>1. CASE StopSwap
    BY <2>1 DEF StopSwap, Free, Inside
  <2>2. CASE StopEnd
    BY <2>2 DEF StopEnd
  <2>3. ASSUME NEW c \in Calls, StopComplete(c) PROVE IInv'
    BY <2>3 DEF StopComplete, IsFront, Complete, Completed
  <2>4. QED
    BY <1>3, <2>1, <2>2, <2>3 DEF Stop
<1>4. CASE Start
  BY <1>4 DEF Start
<1>5. CASE UNCHANGED vars
  BY <1>5 DEF vars
<1>6. QED
  BY <1>1, <1>2, <1>3, <1>4, <1>5 DEF Next

\* Every behaviour of the bridge stays in the invariant.
LEMMA BridgeIInv == Spec => []IInv
  BY InitIInv, NextIInv, PTL DEF Spec

\* Type correctness, for every set of threads and of calls.
THEOREM TypeCorrect == Spec => []TypeOK
<1>1. IInv => TypeOK
  BY DEF IInv
<1>2. QED
  BY <1>1, BridgeIInv, PTL

\* No interleaving of a drain, a failed wake-up and a stop makes the handler
\* run twice for a request: a mutation is never applied twice.
THEOREM HandledAtMostOnce == Spec => []AtMostOnce
<1>1. IInv => AtMostOnce
  BY DEF IInv
<1>2. QED
  BY <1>1, BridgeIInv, PTL

\* What Dispatch returns is true of the handler: Executed means that it ran
\* exactly once, ShuttingDown that it does not run.
THEOREM AnswersAreTrue == Spec => []AnswerIsTrue
<1>1. IInv => AnswerIsTrue
  BY DEF IInv, AnswersMatch, AnswerIsTrue, Returned
<1>2. QED
  BY <1>1, BridgeIInv, PTL

\* The main thread runs no handler once Stop() has begun.
THEOREM StopIsFinal == Spec => NothingRunsAfterStop
<1>1. IInv /\ [Next]_vars =>
         [(main \in {"stopping", "stopped"}) => executed' = executed]_vars
  <2> SUFFICES ASSUME IInv, Next, main \in {"stopping", "stopped"}
               PROVE  executed' = executed
    BY DEF vars
  <2>1. ASSUME NEW c \in Calls, CallStep(c) PROVE executed' = executed
    BY <2>1 DEF CallStep, IInv, SelfOnMain, RefuseAtEntry, EnterSelfDispatch,
       RunSelfDispatch, Enqueue, WakeSucceeds, WakeFails, EraseUnwoken,
       CompleteUnwoken, Return
  <2>2. CASE Drain
    BY <2>2 DEF Drain, DrainSwap, Looping, Handle, CompleteHandled, DrainEnd,
       SkipCompleted, TakeForHandler
  <2>3. CASE Stop
    BY <2>3 DEF Stop, StopSwap, StopEnd, StopComplete
  <2>4. CASE Start
    BY <2>4 DEF Start
  <2>5. QED
    BY <2>1, <2>2, <2>3, <2>4 DEF Next
<1>2. QED
  BY <1>1, BridgeIInv, PTL DEF Spec, NothingRunsAfterStop

(***************************************************************************)
(* The requests run in the order they were pushed, whatever the number of  *)
(* producers: the tickets grow from the handler to the batch to the queue, *)
(* and a call that still waits for its turn is in one of the three.        *)
(***************************************************************************)
InTurn == queue \cup batch \cup ({current} \ {NoCall})

OlderFirst ==
    /\ \A c \in InTurn : ticket[c] < nextTicket
    /\ \A c \in batch, d \in queue : ticket[c] <= ticket[d]
    /\ current # NoCall => \A d \in queue \cup batch : ticket[current] <= ticket[d]

NothingLost ==
    \A c \in Calls : pc[c] \in {"enqueued", "waiting"} /\ ~Completed(c) => c \in InTurn

BatchIsDone == main \in {"created", "loop", "stopped"} => batch = {}

FifoInv == IInv /\ OlderFirst /\ NothingLost /\ BatchIsDone

\* The order of the tickets is inductive.
LEMMA NextFifoInv == FifoInv /\ [Next]_vars => FifoInv'
<1> SUFFICES ASSUME FifoInv, [Next]_vars PROVE FifoInv'
  OBVIOUS
<1>1. IInv'
  BY NextIInv DEF FifoInv
<1>2. /\ TypeOK /\ queue \cap batch = {} /\ CurrentIsHandled /\ QueuedNotRun /\ InHandler
      /\ OlderFirst /\ NothingLost /\ BatchIsDone
  BY DEF FifoInv, IInv
<1> USE <1>1, <1>2, CallsAssumption
        DEF FifoInv, TypeOK, CurrentIsHandled, QueuedNotRun, InHandler, InTurn, OlderFirst,
            NothingLost, BatchIsDone, Completed
<1>3. ASSUME NEW c \in Calls, CallStep(c) PROVE FifoInv'
  <2>1. CASE RefuseAtEntry(c)
    BY <2>1 DEF RefuseAtEntry
  <2>2. CASE EnterSelfDispatch(c)
    BY <2>2 DEF EnterSelfDispatch
  <2>3. CASE RunSelfDispatch(c)
    BY <2>3 DEF RunSelfDispatch
  <2>4. CASE Enqueue(c)
    <3>1. c \notin InTurn
      BY <2>4 DEF Enqueue
    <3>2. \A d \in InTurn : ticket'[d] = ticket[d]
      BY <2>4, <3>1 DEF Enqueue
    <3>3. ticket'[c] = nextTicket /\ nextTicket' = nextTicket + 1
      BY <2>4 DEF Enqueue
    <3>4. queue' = queue \cup {c} /\ UNCHANGED <<batch, current, main>>
      BY <2>4 DEF Enqueue
    <3>5. OlderFirst'
      BY <3>1, <3>2, <3>3, <3>4
    <3>6. NothingLost'
      BY <2>4 DEF Enqueue
    <3>7. QED
      BY <3>4, <3>5, <3>6
  <2>5. CASE WakeSucceeds(c)
    BY <2>5 DEF WakeSucceeds
  <2>6. CASE WakeFails(c)
    BY <2>6 DEF WakeFails
  <2>7. CASE EraseUnwoken(c)
    BY <2>7 DEF EraseUnwoken
  <2>8. CASE CompleteUnwoken(c)
    BY <2>8 DEF CompleteUnwoken, Complete
  <2>9. CASE Return(c)
    BY <2>9 DEF Return
  <2>10. QED
    BY <1>3, <2>1, <2>2, <2>3, <2>4, <2>5, <2>6, <2>7, <2>8, <2>9 DEF CallStep
<1>4. CASE Drain
  <2>1. CASE DrainSwap
    BY <2>1 DEF DrainSwap, Looping
  <2>2. CASE Handle
    BY <2>2 DEF Handle
  <2>3. CASE CompleteHandled
    BY <2>3 DEF CompleteHandled, Complete
  <2>4. CASE DrainEnd
    BY <2>4 DEF DrainEnd
  <2>5. ASSUME NEW c \in Calls, SkipCompleted(c) PROVE FifoInv'
    BY <2>5 DEF SkipCompleted, IsFront
  <2>6. ASSUME NEW c \in Calls, TakeForHandler(c) PROVE FifoInv'
    BY <2>6 DEF TakeForHandler, IsFront
  <2>7. QED
    BY <1>4, <2>1, <2>2, <2>3, <2>4, <2>5, <2>6 DEF Drain
<1>5. CASE Stop
  <2>1. CASE StopSwap
    BY <2>1 DEF StopSwap
  <2>2. CASE StopEnd
    BY <2>2 DEF StopEnd
  <2>3. ASSUME NEW c \in Calls, StopComplete(c) PROVE FifoInv'
    BY <2>3 DEF StopComplete, IsFront, Complete
  <2>4. QED
    BY <1>5, <2>1, <2>2, <2>3 DEF Stop
<1>6. CASE Start
  BY <1>6 DEF Start
<1>7. CASE UNCHANGED vars
  BY <1>7 DEF vars
<1>8. QED
  BY <1>3, <1>4, <1>5, <1>6, <1>7 DEF Next

\* A run of a queued request is the handler's, and the handler has the oldest
\* of those that still wait.
LEMMA OldestRuns ==
    ASSUME FifoInv, [Next]_vars,
           NEW c \in Calls, executed'[c] # executed[c], Caller[c] # MainThread,
           NEW d \in Calls, Inside(d), Caller[d] # MainThread, ticket[d] < ticket[c]
    PROVE  Completed(d) \/ pc[d] \in {"unwoken", "erased"}
<1> USE DEF FifoInv, IInv
<1>1. Handle /\ c = current
  BY DEF Next, Drain, Stop, CallStep, Start, vars, TypeOK, SelfOnMain, RefuseAtEntry,
     EnterSelfDispatch, RunSelfDispatch, Enqueue, WakeSucceeds, WakeFails, EraseUnwoken,
     CompleteUnwoken, Return, DrainSwap, Handle, CompleteHandled, DrainEnd, SkipCompleted,
     TakeForHandler, StopSwap, StopEnd, StopComplete
<1>2. current # NoCall /\ d # current
  BY <1>1, CallsAssumption DEF TypeOK
<1>3. d \notin queue \cup batch
  BY <1>1, <1>2 DEF OlderFirst, TypeOK
<1>4. pc[d] \notin {"enqueued", "waiting"} \/ Completed(d)
  BY <1>2, <1>3 DEF NothingLost, InTurn
<1>5. QED
  BY <1>4 DEF Inside, SelfOnMain, TypeOK, CallStates

\* The requests of all the producers run in the order they were pushed: nobody
\* is served before an older request that still waits for its turn. That they
\* are all served is left to TLC.
THEOREM RequestsRunInOrder == Spec => FifoExecution
<1>1. Init => FifoInv
  <2> SUFFICES ASSUME Init PROVE FifoInv
    OBVIOUS
  <2>1. IInv
    BY InitIInv
  <2>2. QED
    BY <2>1 DEF Init, FifoInv, OlderFirst, NothingLost, BatchIsDone, InTurn
<1>2. FifoInv /\ [Next]_vars =>
         [\A c, d \in Calls :
             /\ executed'[c] # executed[c]
             /\ Caller[c] # MainThread
             /\ Inside(d) /\ Caller[d] # MainThread
             /\ ticket[d] < ticket[c] /\ ticket[c] < nextTicket
             => Completed(d) \/ pc[d] \in {"unwoken", "erased"}]_vars
  BY OldestRuns
<1>3. QED
  BY <1>1, <1>2, NextFifoInv, PTL DEF Spec, FifoExecution

(***************************************************************************)
(* With a single background producer (the runtime has one: the pipe        *)
(* worker), a call whose wake-up failed is never run. The argument: its    *)
(* producer makes no other call meanwhile, so no other message can be      *)
(* pending that would make the main thread drain it (LoneWake), and the    *)
(* main thread only holds calls whose wake-up succeeded (HeldWasWoken).    *)
(***************************************************************************)
OneBackgroundThread ==
    \A c, d \in Calls : Caller[c] # MainThread /\ Caller[d] # MainThread
                           => Caller[c] = Caller[d]

OneInside ==
    \A c, d \in Calls : /\ Inside(c) /\ Caller[c] # MainThread
                        /\ Inside(d) /\ Caller[d] # MainThread
                        => c = d

WaitingInQueue ==
    /\ \A c \in queue : /\ Caller[c] # MainThread
                        /\ pc[c] \in {"enqueued", "unwoken", "waiting"}
                        /\ answer[c] = "none"
    /\ \A c \in Calls : /\ accepting /\ pc[c] = "enqueued" => c \in queue
                        /\ pc[c] \in {"enqueued", "unwoken", "erased"} =>
                              Caller[c] # MainThread

LoneWake ==
    accepting => /\ wakes \in {0, 1}
                 /\ wakes = 1 => \E c \in queue : pc[c] = "waiting"

HeldWasWoken ==
    InDrain => \A c \in batch \cup {current} :
                  c # NoCall => pc[c] = "waiting" /\ answer[c] = "none"

UnusedBeforeStart == main = "created" => wakes = 0 /\ \A c \in Calls : ~Inside(c)

UnwokenNotRun ==
    \A c \in Calls :
        /\ pc[c] \in {"enqueued", "unwoken", "erased"} => executed[c] = 0
        /\ answer[c] = "RuntimeUnavailable" => executed[c] = 0

RefusedWhenClosed ==
    \A c \in Calls : Inside(c) /\ answer[c] = "ShuttingDown" => ~accepting

ReturnedCompleted == \A c \in Calls : pc[c] = "returned" => Completed(c)

SInv == /\ IInv
        /\ accepting <=> main \in {"loop", "draining", "handling", "handled"}
        /\ OneInside
        /\ WaitingInQueue
        /\ LoneWake
        /\ HeldWasWoken
        /\ UnusedBeforeStart
        /\ UnwokenNotRun
        /\ RefusedWhenClosed
        /\ ReturnedCompleted

\* The strengthened invariant is inductive when there is one producer.
LEMMA NextSInv == ASSUME OneBackgroundThread, SInv, [Next]_vars PROVE SInv'
<1>1. IInv'
  BY NextIInv DEF SInv
<1> USE <1>1, CallsAssumption
        DEF SInv, TypeOK, CallStates, CurrentIsHandled,
            OneInside, WaitingInQueue, LoneWake, HeldWasWoken, InDrain,
            UnusedBeforeStart, UnwokenNotRun,
            RefusedWhenClosed, ReturnedCompleted, Completed, Inside
<1> TypeOK /\ queue \cap batch = {} /\ CurrentIsHandled /\ NotYetCalled
  BY DEF IInv
<1>2. ASSUME NEW c \in Calls, CallStep(c) PROVE SInv'
  <2>1. CASE RefuseAtEntry(c)
    BY <2>1 DEF RefuseAtEntry, Free
  <2>2. CASE EnterSelfDispatch(c)
    BY <2>2 DEF EnterSelfDispatch, NotYetCalled
  <2>3. CASE RunSelfDispatch(c)
    BY <2>3 DEF RunSelfDispatch
  <2>4. CASE Enqueue(c)
    <3>1. \A d \in Calls : Inside(d) => Caller[d] = MainThread
      BY <2>4 DEF Enqueue, Free, OneBackgroundThread
    <3>2. OneInside'
      BY <2>4, <3>1 DEF Enqueue
    <3>3. WaitingInQueue'
      BY <2>4 DEF Enqueue, NotYetCalled
    <3>4. LoneWake' /\ HeldWasWoken' /\ UnusedBeforeStart'
      BY <2>4, <3>1 DEF Enqueue
    <3>5. UnwokenNotRun' /\ RefusedWhenClosed' /\ ReturnedCompleted'
      BY <2>4 DEF Enqueue, NotYetCalled
    <3>6. QED
      BY <2>4, <3>2, <3>3, <3>4, <3>5 DEF Enqueue
  <2>5. CASE WakeSucceeds(c)
    BY <2>5 DEF WakeSucceeds
  <2>6. CASE WakeFails(c)
    BY <2>6 DEF WakeFails
  <2>7. CASE EraseUnwoken(c)
    BY <2>7 DEF EraseUnwoken
  <2>8. CASE CompleteUnwoken(c)
    BY <2>8 DEF CompleteUnwoken, Complete, Completed
  <2>9. CASE Return(c)
    BY <2>9 DEF Return, Completed
  <2>10. QED
    BY <1>2, <2>1, <2>2, <2>3, <2>4, <2>5, <2>6, <2>7, <2>8, <2>9 DEF CallStep
<1>3. CASE Drain
  <2>1. CASE DrainSwap
    BY <2>1 DEF DrainSwap, Looping, Free
  <2>2. CASE Handle
    BY <2>2 DEF Handle
  <2>3. CASE CompleteHandled
    BY <2>3 DEF CompleteHandled, Complete, Completed
  <2>4. CASE DrainEnd
    BY <2>4 DEF DrainEnd
  <2>5. ASSUME NEW c \in Calls, SkipCompleted(c) PROVE SInv'
    BY <2>5 DEF SkipCompleted, IsFront
  <2>6. ASSUME NEW c \in Calls, TakeForHandler(c) PROVE SInv'
    BY <2>6 DEF TakeForHandler, IsFront, Completed
  <2>7. QED
    BY <1>3, <2>1, <2>2, <2>3, <2>4, <2>5, <2>6 DEF Drain
<1>4. CASE Stop
  <2>1. CASE StopSwap
    BY <2>1 DEF StopSwap
  <2>2. CASE StopEnd
    BY <2>2 DEF StopEnd
  <2>3. ASSUME NEW c \in Calls, StopComplete(c) PROVE SInv'
    BY <2>3 DEF StopComplete, IsFront, Complete, Completed
  <2>4. QED
    BY <1>4, <2>1, <2>2, <2>3 DEF Stop
<1>5. CASE Start
  BY <1>5 DEF Start
<1>6. CASE UNCHANGED vars
  BY <1>6 DEF vars
<1>7. QED
  BY <1>2, <1>3, <1>4, <1>5, <1>6 DEF Next

\* The strengthened invariant holds when the bridge is constructed.
LEMMA InitSInv == Init => SInv
<1> SUFFICES ASSUME Init PROVE SInv
  OBVIOUS
<1>1. IInv
  BY InitIInv
<1>2. QED
  BY <1>1 DEF Init, SInv, OneInside, WaitingInQueue, LoneWake, HeldWasWoken,
     InDrain, UnusedBeforeStart, UnwokenNotRun, RefusedWhenClosed,
     ReturnedCompleted, Inside

\* The strengthened invariant holds in every state.
LEMMA BridgeSInv == ASSUME OneBackgroundThread PROVE Spec => []SInv
<1>1. SInv /\ [Next]_vars => SInv'
  BY NextSInv
<1>2. QED
  BY <1>1, InitSInv, PTL DEF Spec

\* A caller told RuntimeUnavailable can send its request again: it has not run
\* and will not, provided one background thread calls Dispatch.
THEOREM UnavailableIsTrue ==
    ASSUME OneBackgroundThread PROVE Spec => []UnavailableMeansNotExecuted
<1>1. SInv => UnavailableMeansNotExecuted
  BY DEF SInv, UnwokenNotRun, UnavailableMeansNotExecuted, Returned
<1>2. QED
  BY <1>1, BridgeSInv, PTL

(***************************************************************************)
(* Refinement: the safety part of ControlService.                          *)
(***************************************************************************)

\* A step that changes no call as the service sees it is a stutter.
LEMMA Invisible ==
    ASSUME accepting' = accepting,
           \A c \in Calls : StateOf(c)' = StateOf(c) /\ OutcomeOf(c)' = OutcomeOf(c)
    PROVE  UNCHANGED Service!svars
  BY DEF Service!svars

\* Every step of the bridge is a step of the service or invisible to it.
LEMMA StepRefines ==
    ASSUME SInv, [Next]_vars PROVE [Service!Next]_Service!svars
<1> TypeOK /\ NotYetCalled /\ AnswersMatch /\ SelfOnMain /\ InHandler
       /\ CurrentIsHandled /\ QueuedNotRun
  BY DEF SInv, IInv
<1>1. ASSUME NEW c \in Calls, CallStep(c) PROVE [Service!Next]_Service!svars
  <2>1. CASE RefuseAtEntry(c)
    <3>1. \A d \in Calls : StateOf(d)' = IF d = c THEN "done" ELSE StateOf(d)
      BY <2>1 DEF RefuseAtEntry, TypeOK, StateOf, Inside
    <3>2. \A d \in Calls : OutcomeOf(d)' = IF d = c THEN "ShuttingDown" ELSE OutcomeOf(d)
      BY <2>1 DEF RefuseAtEntry, TypeOK, OutcomeOf
    <3>3. StateOf(c) = "idle" /\ ~accepting /\ UNCHANGED accepting
      BY <2>1 DEF RefuseAtEntry, StateOf, Inside
    <3>4. Service!TurnAway(c)
      BY <3>1, <3>2, <3>3 DEF Service!TurnAway, Service!Finish
    <3>5. QED
      BY <3>4 DEF Service!Next
  <2>2. CASE EnterSelfDispatch(c) \/ Enqueue(c)
    <3>1. \A d \in Calls : StateOf(d)' = IF d = c THEN "invoked" ELSE StateOf(d)
      BY <2>2 DEF EnterSelfDispatch, Enqueue, TypeOK, NotYetCalled, StateOf, Inside
    <3>2. \A d \in Calls : OutcomeOf(d)' = OutcomeOf(d)
      BY <2>2 DEF EnterSelfDispatch, Enqueue, TypeOK, NotYetCalled, OutcomeOf
    <3>3. StateOf(c) = "idle" /\ UNCHANGED accepting
      BY <2>2 DEF EnterSelfDispatch, Enqueue, StateOf, Inside
    <3>4. Service!Invoke(c)
      BY <3>1, <3>2, <3>3 DEF Service!Invoke
    <3>5. QED
      BY <3>4 DEF Service!Next
  <2>3. CASE RunSelfDispatch(c)
    <3>1. \A d \in Calls : StateOf(d)' = IF d = c THEN "applied" ELSE StateOf(d)
      BY <2>3 DEF RunSelfDispatch, TypeOK, NotYetCalled, StateOf, Inside
    <3>2. \A d \in Calls : OutcomeOf(d)' = OutcomeOf(d)
      BY <2>3 DEF RunSelfDispatch, TypeOK, NotYetCalled, OutcomeOf
    <3>3. StateOf(c) = "invoked" /\ accepting /\ UNCHANGED accepting
      BY <2>3 DEF RunSelfDispatch, StateOf, Inside, NotYetCalled, SelfOnMain, SInv
    <3>4. Service!Apply(c)
      BY <3>1, <3>2, <3>3 DEF Service!Apply
    <3>5. QED
      BY <3>4 DEF Service!Next
  <2>4. CASE WakeSucceeds(c) \/ WakeFails(c) \/ EraseUnwoken(c)
             \/ CompleteUnwoken(c)
    BY <2>4, Invisible DEF WakeSucceeds, WakeFails, EraseUnwoken,
       CompleteUnwoken, Complete, Completed, TypeOK, StateOf, OutcomeOf, Inside
  <2>5. CASE Return(c)
    <3>1. \A d \in Calls : StateOf(d)' = IF d = c THEN "done" ELSE StateOf(d)
      BY <2>5 DEF Return, TypeOK, StateOf, Inside
    <3>2. \A d \in Calls : OutcomeOf(d)' = IF d = c THEN answer[c] ELSE OutcomeOf(d)
      BY <2>5 DEF Return, TypeOK, OutcomeOf
    <3>3. /\ answer[c] = "Executed" => StateOf(c) = "applied"
          /\ answer[c] # "Executed" => StateOf(c) = "invoked"
      BY <2>5 DEF Return, Completed, StateOf, Inside, AnswersMatch, TypeOK,
         Statuses, SInv, UnwokenNotRun
    <3>4. UNCHANGED accepting /\ (answer[c] = "ShuttingDown" => ~accepting)
      BY <2>5 DEF Return, Inside, SInv, RefusedWhenClosed
    <3>5. answer[c] \in {"Executed", "ShuttingDown", "RuntimeUnavailable"}
      BY <2>5 DEF Return, Completed, TypeOK, Statuses
    <3>6. Service!Answer(c) \/ Service!Refuse(c)
      BY <3>1, <3>2, <3>3, <3>4, <3>5 DEF Service!Answer, Service!Refuse,
         Service!Finish
    <3>7. QED
      BY <3>6 DEF Service!Next
  <2>6. QED
    BY <1>1, <2>1, <2>2, <2>3, <2>4, <2>5 DEF CallStep
<1>2. CASE Drain
  <2>1. CASE Handle
    <3>1. \A d \in Calls : StateOf(d)' = IF d = current THEN "applied" ELSE StateOf(d)
      BY <2>1 DEF Handle, TypeOK, InHandler, CurrentIsHandled, SInv, HeldWasWoken, InDrain, StateOf, Inside
    <3>2. \A d \in Calls : OutcomeOf(d)' = OutcomeOf(d)
      BY <2>1 DEF Handle, TypeOK, InHandler, CurrentIsHandled, SInv, HeldWasWoken, InDrain, OutcomeOf
    <3>3. current \in Calls
      BY <2>1 DEF Handle, CurrentIsHandled, TypeOK
    <3>4. StateOf(current) = "invoked" /\ accepting /\ UNCHANGED accepting
      BY <2>1, <3>3, CallsAssumption DEF Handle, StateOf, Inside, InHandler,
         SInv, HeldWasWoken, InDrain
    <3>5. Service!Apply(current)
      BY <3>1, <3>2, <3>3, <3>4 DEF Service!Apply
    <3>6. QED
      BY <3>3, <3>5 DEF Service!Next
  <2>2. CASE DrainSwap \/ DrainEnd \/ CompleteHandled
             \/ \E c \in Calls : SkipCompleted(c) \/ TakeForHandler(c)
    BY <2>2, CallsAssumption, Invisible DEF DrainSwap, CompleteHandled,
       DrainEnd, SkipCompleted, TakeForHandler, Complete, Completed, TypeOK,
       SInv, HeldWasWoken, InDrain, CurrentIsHandled, StateOf, OutcomeOf, Inside
  <2>3. QED
    BY <1>2, <2>1, <2>2 DEF Drain
<1>3. CASE Stop
  <2>1. CASE StopSwap
    <3>1. UNCHANGED <<[c \in Calls |-> StateOf(c)], [c \in Calls |-> OutcomeOf(c)]>>
      BY <2>1 DEF StopSwap, StateOf, OutcomeOf, Inside
    <3>2. accepting' = FALSE /\ accepting \in BOOLEAN
      BY <2>1 DEF StopSwap, TypeOK
    <3>3. Service!Close \/ UNCHANGED Service!svars
      BY <3>1, <3>2 DEF Service!Close, Service!svars
    <3>4. QED
      BY <3>3 DEF Service!Next
  <2>2. CASE StopEnd
    BY <2>2, Invisible DEF StopEnd, StateOf, OutcomeOf, Inside
  <2>3. ASSUME NEW c \in Calls, StopComplete(c) PROVE UNCHANGED Service!svars
    <3>1. pc[c] # "returned" \/ Completed(c)
      BY <2>3 DEF StopComplete, IsFront, SInv, ReturnedCompleted
    <3>2. QED
      BY <2>3, <3>1, Invisible DEF StopComplete, Complete, Completed, TypeOK,
         StateOf, OutcomeOf, Inside
  <2>4. QED
    BY <1>3, <2>1, <2>2, <2>3 DEF Stop
<1>4. CASE Start
  <2>1. UNCHANGED <<[c \in Calls |-> StateOf(c)], [c \in Calls |-> OutcomeOf(c)]>>
    BY <1>4 DEF Start, StateOf, OutcomeOf, Inside
  <2>2. ~accepting /\ accepting'
    BY <1>4 DEF Start, SInv, TypeOK
  <2>3. Service!Open
    BY <2>1, <2>2, <1>4 DEF Start, Service!Open
  <2>4. QED
    BY <2>3 DEF Service!Next
<1>5. CASE UNCHANGED vars
  BY <1>5, Invisible DEF vars, StateOf, OutcomeOf, Inside
<1>6. QED
  BY <1>1, <1>2, <1>3, <1>4, <1>5 DEF Next

\* With one background thread, the bridge is an implementation of the service
\* as far as safety goes; that every call is answered is left to TLC.
THEOREM BridgeRefinesService ==
    ASSUME OneBackgroundThread
    PROVE  Spec => Service!Init /\ [][Service!Next]_Service!svars
<1>1. Init => Service!Init
  BY DEF Init, Service!Init, StateOf, OutcomeOf, Inside
<1>2. SInv /\ [Next]_vars => [Service!Next]_Service!svars
  BY StepRefines
<1>3. QED
  BY <1>1, <1>2, BridgeSInv, PTL DEF Spec
=============================================================================
