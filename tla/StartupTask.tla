---------------------------- MODULE StartupTask ----------------------------
(***************************************************************************)
(* The Task Scheduler logon task "ClawHUD" and the procedure that keeps it *)
(* in line with Start-with-Windows (StartupTaskRegistration.cpp): read the *)
(* task first, elevate one bounded helper child only when it does not      *)
(* already match, and believe the change only after an independent         *)
(* readback, which may lag the write.                                      *)
(*                                                                         *)
(* The thirteen mismatch bits of the compliance check are one value,       *)
(* "drifted".  The elevated child is a process of its own: it can be       *)
(* refused by the user, hang, outlive its parent, and change the task      *)
(* after the parent has given up on it.                                    *)
(***************************************************************************)
EXTENDS Naturals, FiniteSets

CONSTANTS
    Proc,        \* process slots, numbered
    MaxOutside   \* bound: changes of the task by something that is not ClawHUD

ASSUME ProcAssumption == Proc \subseteq Nat \ {0} /\ MaxOutside \in Nat

VARIABLES
    task,     \* the registered task
    seen,     \* what a readback of it returns at present
    sync,     \* [Proc -> the SynchronizeStartupTask call in progress]
    helper,   \* [Proc -> the elevated child whose handle the process holds]
    orphans,  \* commands of elevated children whose parent is gone or gave up
    known,    \* the setting the last successful call left in force, if any
    outside   \* changes of the task from outside, counted

taskVars == <<task, seen, sync, helper, orphans, known, outside>>

-----------------------------------------------------------------------------
(* "drifted" is a present task that differs from MakeDesiredStartupTask in  *)
(* at least one of the twelve managed properties.                          *)
TaskStates == {"absent", "ours", "drifted"}
Stages == {"idle", "read", "elevate", "wait", "settle", "done"}
Calls == [stage : Stages, want : BOOLEAN, ok : BOOLEAN]
NoCall == [stage |-> "idle", want |-> FALSE, ok |-> FALSE]
HelperStates == {"none", "ensure", "remove", "succeeded", "failed"}

(* Read-first rule: what counts as already matching the wanted setting.    *)
IsCompliant(state, want) == state = IF want THEN "ours" ELSE "absent"

Command(want) == IF want THEN "ensure" ELSE "remove"

(* The whole privileged mutation of a child started with that command.     *)
Mutated(command) == IF command = "ensure" THEN "ours" ELSE "absent"

TaskInit ==
    /\ task = "absent"
    /\ seen = "absent"
    /\ sync = [p \in Proc |-> NoCall]
    /\ helper = [p \in Proc |-> "none"]
    /\ orphans = {}
    /\ known = "nothing"
    /\ outside = 0

TaskTypeOK ==
    /\ task \in TaskStates
    /\ seen \in TaskStates
    /\ sync \in [Proc -> Calls]
    /\ helper \in [Proc -> HelperStates]
    /\ orphans \subseteq {"ensure", "remove"}
    /\ known \in {"nothing", "ensure", "remove"}
    /\ outside \in 0..MaxOutside
    /\ \A p \in Proc : helper[p] # "none" => sync[p].stage = "wait"

-----------------------------------------------------------------------------
(* A call returns: the caller reads the answer and clears the slot.        *)
Answered(p, ok) ==
    /\ sync' = [sync EXCEPT ![p].stage = "done", ![p].ok = ok]
    /\ known' = IF ok THEN Command(sync[p].want) ELSE known

(* SynchronizeStartupTask is entered with the wanted setting.              *)
SyncStarts(p, want) ==
    /\ sync[p].stage = "idle"
    /\ sync' = [sync EXCEPT ![p] = [stage |-> "read", want |-> want, ok |-> FALSE]]
    /\ UNCHANGED <<task, seen, helper, orphans, known, outside>>

(* ReadStartupTaskSnapshot: an absent task is an answer, any COM failure   *)
(* is not.                                                                 *)
ReadFails(p) ==
    /\ sync[p].stage = "read"
    /\ Answered(p, FALSE)
    /\ UNCHANGED <<task, seen, helper, orphans, outside>>

ReadTask(p) ==
    /\ sync[p].stage = "read"
    /\ IF IsCompliant(seen, sync[p].want)
       THEN Answered(p, TRUE)
       ELSE /\ sync' = [sync EXCEPT ![p].stage = "elevate"]
            /\ UNCHANGED known
    /\ UNCHANGED <<task, seen, helper, orphans, outside>>

(* RunElevatedHelper: the consent prompt is answered, then the wait starts.*)
ElevationRefused(p) ==
    /\ sync[p].stage = "elevate"
    /\ Answered(p, FALSE)
    /\ UNCHANGED <<task, seen, helper, orphans, outside>>

Elevate(p) ==
    /\ sync[p].stage = "elevate"
    /\ sync' = [sync EXCEPT ![p].stage = "wait"]
    /\ helper' = [helper EXCEPT ![p] = Command(sync[p].want)]
    /\ known' = "nothing"
    /\ UNCHANGED <<task, seen, orphans, outside>>

(* The child: TryRunStartupTaskHelperCommand performs its one mutation and *)
(* exits with 0, or exits with 1 having changed nothing (arguments that do *)
(* not parse, a COM failure).  What readers see follows later.             *)
HelperMutates(p) ==
    /\ helper[p] \in {"ensure", "remove"}
    /\ task' = Mutated(helper[p])
    /\ helper' = [helper EXCEPT ![p] = "succeeded"]
    /\ UNCHANGED <<seen, sync, orphans, known, outside>>

HelperFails(p) ==
    /\ helper[p] \in {"ensure", "remove"}
    /\ helper' = [helper EXCEPT ![p] = "failed"]
    /\ UNCHANGED <<task, seen, sync, orphans, known, outside>>

HelperBelieved(p) == \* mutant: the exit code of the child is taken for the change
    /\ sync[p].stage = "wait"
    /\ helper[p] \in {"succeeded", "failed"}
    /\ helper' = [helper EXCEPT ![p] = "none"]
    /\ Answered(p, helper[p] = "succeeded")
    /\ UNCHANGED <<task, seen, orphans, outside>>

(* The wait is satisfied: exit code 0 leads to the settle window.          *)
HelperEnds(p) ==
    /\ sync[p].stage = "wait"
    /\ helper[p] \in {"succeeded", "failed"}
    /\ helper' = [helper EXCEPT ![p] = "none"]
    /\ IF helper[p] = "succeeded"
       THEN /\ sync' = [sync EXCEPT ![p].stage = "settle"]
            /\ UNCHANGED known
       ELSE Answered(p, FALSE)
    /\ UNCHANGED <<task, seen, orphans, outside>>

HelperWaitUnbounded(p) == \* mutant: the child is waited for without a bound
    /\ sync[p].stage = "wait"
    /\ helper[p] = "succeeded"
    /\ helper' = [helper EXCEPT ![p] = "none"]
    /\ Answered(p, FALSE)
    /\ UNCHANGED <<task, seen, orphans, outside>>

HelperForgotten(p) == \* mutant: the timeout is reported and the child neither ended nor let go
    /\ sync[p].stage = "wait"
    /\ helper[p] # "failed"
    /\ Answered(p, FALSE)
    /\ UNCHANGED <<task, seen, helper, orphans, outside>>

(* Sixty seconds passed: the child is terminated, possibly just after its  *)
(* mutation, and when that fails (or the wait itself failed) only its      *)
(* handle is closed.                                                       *)
HelperTimesOut(p) ==
    /\ sync[p].stage = "wait"
    /\ helper[p] # "failed"
    /\ helper' = [helper EXCEPT ![p] = "none"]
    /\ \/ UNCHANGED orphans
       \/ orphans' = orphans \cup ({helper[p]} \cap {"ensure", "remove"})
    /\ Answered(p, FALSE)
    /\ UNCHANGED <<task, seen, outside>>

(* SettleUntilCompliant, SettleUntilAbsent: success only on a readback     *)
(* that matches; otherwise the window of two seconds runs out.             *)
Settle(p) ==
    /\ sync[p].stage = "settle"
    /\ IsCompliant(seen, sync[p].want)
    /\ Answered(p, TRUE)
    /\ UNCHANGED <<task, seen, helper, orphans, outside>>

SettleEnds(p) ==
    /\ sync[p].stage = "settle"
    /\ Answered(p, FALSE)
    /\ UNCHANGED <<task, seen, helper, orphans, outside>>

-----------------------------------------------------------------------------
(* The world.  A child that was left behind still acts, readers catch up   *)
(* with the task, and something else may remove or edit it.                *)
OrphanMutates ==
    \E command \in orphans :
        /\ task' = Mutated(command)
        /\ seen' = task'
        /\ orphans' = orphans \ {command}
        /\ known' = "nothing"
        /\ UNCHANGED <<sync, helper, outside>>

BecomesVisible ==
    /\ seen # task
    /\ seen' = task
    /\ known' = IF known # "nothing" /\ task = Mutated(known) THEN known ELSE "nothing"
    /\ UNCHANGED <<task, sync, helper, orphans, outside>>

ChangedOutside ==
    /\ outside < MaxOutside
    /\ outside' = outside + 1
    /\ task' \in {"absent", "drifted"} \ {task}
    /\ seen' = task'
    /\ known' = "nothing"
    /\ UNCHANGED <<sync, helper, orphans>>

(* The process p is gone: a child it waited for is left to itself.         *)
ParentDies(p) ==
    /\ sync' = [sync EXCEPT ![p] = NoCall]
    /\ helper' = [helper EXCEPT ![p] = "none"]
    /\ orphans' = orphans \cup ({helper[p]} \cap {"ensure", "remove"})
    /\ UNCHANGED <<task, seen, known, outside>>

SyncStep(p) ==
    \/ ReadFails(p) \/ ReadTask(p)
    \/ ElevationRefused(p) \/ Elevate(p)
    \/ HelperEnds(p) \/ HelperTimesOut(p)
    \/ Settle(p) \/ SettleEnds(p)

TaskEnvironment ==
    \/ \E p \in Proc : HelperMutates(p) \/ HelperFails(p)
    \/ OrphanMutates \/ BecomesVisible \/ ChangedOutside
=============================================================================
