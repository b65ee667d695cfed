---------------------------- MODULE TweakStartup ----------------------------
(***************************************************************************)
(* The display tweaks of one start of the runtime: the worker thread of      *)
(* TweakStartupCoordinator turns dynamic refresh (DRR, the BOOST flag of a   *)
(* path) off, raises the refresh rates (MaxRefreshRate), then applies the    *)
(* Intel VRR range, again and again while that is unavailable, until the     *)
(* application stops it and joins it.  The Intel stage is its outcome here.  *)
(***************************************************************************)
EXTENDS MaxRefreshRate

VARIABLE startup    \* the worker's progress, and the application's

vars == <<desk, mode, registry, run, drift, faults, startup>>

MaxAttempts == 4

DrrStatuses == {"none", "AlreadyOff", "Applied", "Unavailable",
                "ValidateFailed", "ApplyFailed", "VerifyFailed"}

\* `late` counts the attempts that begin after Stop was called.
Startups ==
    [at : {"drrRead", "drrValidate", "drrApply", "drrVerify", "refresh",
           "attempt", "wait", "done"},
     enabled : BOOLEAN,
     app : {"up", "stopping", "down"},
     drr : DrrStatuses,
     before : Desks, beforeModes : [Sources -> Mode],
     attempts : 0 .. MaxAttempts,
     late : 0 .. MaxAttempts]

StartupTypeOK == TypeOK /\ startup \in Startups

\* Start: a disabled fix goes straight to the Intel stage, which refuses.  The
\* devices show their lowest rate; that they show their highest is an outcome
\* of Prepare.
Init ==
    /\ desk \in StartDesks
    /\ mode = [s \in Sources |-> [hz |-> Min(Rates), layout |-> "kept"]]
    /\ registry = mode
    /\ run = NoRun
    /\ drift = MaxDrift /\ faults = MaxFaults
    /\ \E enabled \in BOOLEAN :
          startup = [at |-> IF enabled THEN "drrRead" ELSE "attempt",
                     enabled |-> enabled, app |-> "up", drr |-> "none",
                     before |-> desk, beforeModes |-> mode,
                     attempts |-> 0, late |-> 0]

(***************************************************************************)
(* DisableWindowsDrrForActivePaths.                                          *)
(***************************************************************************)
\* The stage ends, and the next one learns whether it succeeded.
DrrEnds(status) ==
    /\ startup' = [startup EXCEPT !.at = "refresh", !.drr = status]
    /\ Begin(status \in {"Applied", "AlreadyOff"})

DrrRead ==
    /\ startup.at = "drrRead"
    /\ \/ /\ desk # <<>> /\ Boosted(desk)
          /\ startup' = [startup EXCEPT !.at = "drrValidate", !.before = desk,
                                        !.beforeModes = mode]
          /\ UNCHANGED <<windows, run, drift, faults>>
       \/ desk # <<>> /\ ~Boosted(desk) /\ DrrEnds("AlreadyOff")
       \/ desk = <<>> /\ DrrEnds("Unavailable")

\* GetBufferSizes or Query fails, or the paths grow between them three times.
DrrReadFails ==
    /\ startup.at = "drrRead"
    /\ faults > 0
    /\ startup' = [startup EXCEPT !.at = "refresh", !.drr = "Unavailable"]
    /\ run' = [NoRun EXCEPT !.at = "read"]
    /\ faults' = faults - 1
    /\ UNCHANGED <<windows, drift>>

\* SetDisplayConfig can only accept a configuration whose targets are there.
Possible == DOMAIN startup.before \subseteq DOMAIN desk

DrrValidate ==
    /\ startup.at = "drrValidate"
    /\ \/ /\ Possible
          /\ startup' = [startup EXCEPT !.at = "drrApply"]
          /\ UNCHANGED <<windows, run, drift, faults>>
       \/ ~Possible /\ DrrEnds("ValidateFailed")

\* The supplied configuration is the one read before, the modes included, with
\* every BOOST flag cleared: what changed in between is changed back.
DrrApply ==
    /\ startup.at = "drrApply"
    /\ \/ /\ Possible
          /\ desk' = [t \in DOMAIN startup.before |->
                         [desk[t] EXCEPT !.source = startup.before[t].source,
                                         !.boost = FALSE]]
          /\ mode' = [s \in Sources |-> IF s \in Groups(startup.before)
                                        THEN startup.beforeModes[s] ELSE mode[s]]
          /\ registry' = [s \in Sources |-> IF s \in Groups(startup.before)
                                            THEN startup.beforeModes[s] ELSE registry[s]]
          /\ startup' = [startup EXCEPT !.at = "drrVerify"]
          /\ UNCHANGED <<run, drift, faults>>
       \/ ~Possible /\ DrrEnds("ApplyFailed")

\* VerifyBoostDisabledForOriginallyBoostedPaths.
SameConfiguration ==
    /\ DOMAIN desk = DOMAIN startup.before
    /\ \A t \in DOMAIN desk :
          /\ desk[t].source = startup.before[t].source
          /\ mode[desk[t].source] = startup.beforeModes[desk[t].source]

DrrVerify ==
    /\ startup.at = "drrVerify"
    /\ DrrEnds(IF SameConfiguration /\ ~Boosted(desk) THEN "Applied" ELSE "VerifyFailed")

\* A call of the stage fails: validate and apply change nothing then.
DrrFails ==
    /\ faults > 0
    /\ \E status \in {"ValidateFailed", "ApplyFailed", "VerifyFailed"} :
          /\ startup.at = CASE status = "ValidateFailed" -> "drrValidate"
                            [] status = "ApplyFailed" -> "drrApply"
                            [] status = "VerifyFailed" -> "drrVerify"
          /\ startup' = [startup EXCEPT !.at = "refresh", !.drr = status]
    /\ run' = [NoRun EXCEPT !.at = "read"]
    /\ faults' = faults - 1
    /\ UNCHANGED <<windows, drift>>

(***************************************************************************)
(* TweakStartupCoordinator.                                                  *)
(***************************************************************************)
\* The second stage runs whatever the first one came to, and the third one
\* whatever the second one did.
Refresh ==
    /\ startup.at = "refresh"
    /\ \/ RefreshStep /\ UNCHANGED startup
       \/ /\ Finished
          /\ startup' = [startup EXCEPT !.at = "attempt"]
          /\ UNCHANGED <<windows, run, drift, faults>>

\* Mutant of Attempt: index <= 4.
AttemptOnceMore ==
    /\ startup.at = "attempt"
    /\ \E again \in {a \in BOOLEAN : a => startup.enabled} :
          startup' = [startup EXCEPT
                         !.attempts = @ + 1,
                         !.late = IF startup.app = "up" THEN @ ELSE @ + 1,
                         !.at = IF again /\ startup.attempts < MaxAttempts
                                THEN "wait" ELSE "done"]
    /\ UNCHANGED <<windows, run, drift, faults>>

\* An attempt of RunRetrySequence: only Unavailable is tried again, and a
\* disabled fix is not Unavailable.
Attempt ==
    /\ startup.at = "attempt"
    /\ \E again \in {a \in BOOLEAN : a => startup.enabled} :
          startup' = [startup EXCEPT
                         !.attempts = @ + 1,
                         !.late = IF startup.app = "up" THEN @ ELSE @ + 1,
                         !.at = IF again /\ startup.attempts + 1 < MaxAttempts
                                THEN "wait" ELSE "done"]
    /\ UNCHANGED <<windows, run, drift, faults>>

\* Mutants of Wait: it does not look at stopping_; it does not count down.
WaitDeaf ==
    /\ startup.at = "wait"
    /\ startup' = [startup EXCEPT !.at = "attempt"]
    /\ UNCHANGED <<windows, run, drift, faults>>
WaitForever ==
    /\ startup.at = "wait"
    /\ startup' = [startup EXCEPT !.at = IF startup.app = "up" THEN "wait" ELSE "done"]
    /\ UNCHANGED <<windows, run, drift, faults>>

\* The wait looks at stopping_ every 100 ms, and when it is over.
Wait ==
    /\ startup.at = "wait"
    /\ startup' = [startup EXCEPT !.at = IF startup.app = "up" THEN "attempt" ELSE "done"]
    /\ UNCHANGED <<windows, run, drift, faults>>

\* Stop, from the destructor of the application, joins the worker.
Stop ==
    /\ startup.app = "up"
    /\ startup' = [startup EXCEPT !.app = "stopping"]
    /\ UNCHANGED <<windows, run, drift, faults>>

Joined ==
    /\ startup.app = "stopping" /\ startup.at = "done"
    /\ startup' = [startup EXCEPT !.app = "down"]
    /\ UNCHANGED <<windows, run, drift, faults>>

Worker ==
    \/ DrrRead \/ DrrReadFails \/ DrrValidate \/ DrrApply \/ DrrVerify \/ DrrFails
    \/ Refresh \/ Attempt \/ Wait

\* A bound: after the two stages the desktop concerns nobody.
Others ==
    /\ startup.at \notin {"attempt", "wait", "done"}
    /\ Drift
    /\ UNCHANGED startup

Next == Worker \/ Stop \/ Joined \/ Others

Spec == Init /\ [][Next]_vars /\ WF_vars(Worker) /\ WF_vars(Joined)

(***************************************************************************)
(* Properties.                                                               *)
(***************************************************************************)
\* What EndRun writes as DRRInvariant.
DrrInvariant ==
    IF run.boosted THEN "Failed"
    ELSE IF run.checked THEN "Verified"
    ELSE IF run.drrOk THEN "NotVerified" ELSE "NotApplicable"

\* What the stage reports is what Windows has, as long as nobody changes it after
\* the stage has last looked.  Unless a rollback is known to have failed, every
\* device it has read shows the rate chosen for it if it is reported as applied
\* and its original mode if not, nothing stays staged for the next mode change or
\* start of Windows, and a verified DRR invariant means that no path is boosted.
RollbackFailed ==
    \/ run.status = "ApplyFailed" /\ ~run.matches
    \/ run.status = "Partial" /\ run.applied = 0 /\ run.request # <<>>

ResultIsTrue ==
    (Finished /\ drift = run.mark /\ ~RollbackFailed) =>
        /\ \A s \in DOMAIN run.modes :
              mode[s] = IF run.target[s] = "Applied"
                        THEN [run.modes[s] EXCEPT !.hz = run.request[s]]
                        ELSE run.modes[s]
        /\ registry = mode
        /\ DrrInvariant = "Verified" => ~Boosted(desk)

\* The result of the refresh stage: well formed, every group counted once, and true.
ResultIsSound == StartupTypeOK /\ CountersAgree /\ ResultIsTrue

\* Stop waits for one attempt at most: of the attempts that remain, only the one
\* whose wait ended just before Stop, or the first, begins after it.
OneAttemptAfterStop == startup.late <= 1

\* The worker ends by itself, and a stop joins it.
StartupEnds == <>(startup.at = "done") /\ (startup.app = "stopping" ~> startup.app = "down")
=============================================================================
