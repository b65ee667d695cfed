--------------------------- MODULE ControlService ---------------------------
(***************************************************************************)
(* What the runtime promises to a caller of a Control operation, with the  *)
(* queue, the threads and the wake-up message left out: a call takes       *)
(* effect at most once, between its invocation and its return; a call that *)
(* is told it succeeded took effect; a call that is refused never takes    *)
(* effect, not even later; and nothing takes effect once the service is    *)
(* closed.                                                                 *)
(***************************************************************************)
CONSTANT Calls

VARIABLES open,      \* the service accepts calls
          state,     \* [Calls -> "idle" | "invoked" | "applied" | "done"]
          outcome    \* [Calls -> what the caller was told]

svars == <<open, state, outcome>>

Outcomes == {"none", "Executed", "ShuttingDown", "RuntimeUnavailable"}

Init == /\ open = FALSE
        /\ state = [c \in Calls |-> "idle"]
        /\ outcome = [c \in Calls |-> "none"]

Open == /\ ~open
        /\ open' = TRUE
        /\ UNCHANGED <<state, outcome>>

Close == /\ open
         /\ open' = FALSE
         /\ UNCHANGED <<state, outcome>>

Invoke(c) == /\ state[c] = "idle"
             /\ state' = [state EXCEPT ![c] = "invoked"]
             /\ UNCHANGED <<open, outcome>>

Apply(c) == /\ open
            /\ state[c] = "invoked"
            /\ state' = [state EXCEPT ![c] = "applied"]
            /\ UNCHANGED <<open, outcome>>

Finish(c, o) == /\ state' = [state EXCEPT ![c] = "done"]
                /\ outcome' = [outcome EXCEPT ![c] = o]
                /\ UNCHANGED open

Answer(c) == state[c] = "applied" /\ Finish(c, "Executed")

\* A call made while the service is closed is turned away.
TurnAway(c) == ~open /\ state[c] = "idle" /\ Finish(c, "ShuttingDown")

Refuse(c) == /\ state[c] = "invoked"
             /\ \/ ~open /\ Finish(c, "ShuttingDown")
                \/ Finish(c, "RuntimeUnavailable")

Next == \/ Open \/ Close
        \/ \E c \in Calls : \/ TurnAway(c) \/ Invoke(c) \/ Apply(c)
                         \/ Answer(c) \/ Refuse(c)

\* A call that was made is answered: it never waits for ever.
Fairness == \A c \in Calls : WF_svars(Apply(c) \/ Answer(c) \/ Refuse(c))

Spec == Init /\ [][Next]_svars /\ Fairness
=============================================================================
