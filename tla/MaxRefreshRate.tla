--------------------------- MODULE MaxRefreshRate ---------------------------
(***************************************************************************)
(* The start-up stage that raises every display to its highest fixed        *)
(* refresh rate (Tweaks/WindowsDrr/WindowsMaxRefreshRate.cpp): read the      *)
(* active paths, choose and test a rate per display, look again, test again, *)
(* write (several displays are staged and committed together), verify, and   *)
(* put back the original modes when anything failed.  One action per call    *)
(* into Windows, or per loop of reads; between any two of them the user, the *)
(* driver or a cable changes the desktop (Drift).                            *)
(***************************************************************************)
EXTENDS Integers, FiniteSets, FiniteSetsExt, Functions

CONSTANTS
    Targets,    \* outputs a monitor can be on
    Sources,    \* GDI devices, in the order of std::map
    Rates,      \* refresh rates in Hz
    StartDesks, \* desktops the runtime may find
    MaxDrift,   \* changes of the desktop by others
    MaxFaults   \* calls into Windows that fail


VARIABLES
    desk,       \* the active paths: the targets in use, each with its source
    mode,       \* what each device shows
    registry,   \* its saved mode, which differs while a change is staged
    run,        \* the locals of Run and RestoreChanges
    drift,      \* changes by others that remain
    faults      \* failures that remain

windows == <<desk, mode, registry>>

\* `fit`: nothing that SkipReason refuses, and a device name of its own.
\* `color`: advanced colour, which stands for what else SameTopology compares.
Path == [source : Sources, boost : BOOLEAN, fit : BOOLEAN, color : BOOLEAN]
Desks == UNION {[active -> Path] : active \in SUBSET Targets}
ASSUME ConstantsAssumption ==
    /\ Sources \subseteq Nat /\ IsFiniteSet(Sources)
    /\ Rates \subseteq Nat /\ Rates # {}
    /\ StartDesks \subseteq Desks
    /\ MaxDrift \in Nat /\ MaxFaults \in Nat

Mode == [hz : Rates, layout : {"kept", "moved"}]

Statuses == {"Unavailable", "Applied", "AlreadyMax", "Partial",
             "NoCompatibleMode", "SkippedUnsafeTopology", "ValidateFailed",
             "ApplyFailed", "VerifyFailed"}
Steps == {"idle", "read", "prepare", "fresh", "freshModes", "retest", "write",
          "commit", "after", "afterModes", "rollback", "rollbackModes",
          "restore", "rollbackCommit", "restored", "restoredModes", "done"}

NoRun ==
    [at |-> "idle", drrOk |-> FALSE, status |-> "Unavailable",
     original |-> <<>>, modes |-> <<>>, target |-> <<>>, request |-> <<>>,
     todo |-> {}, complete |-> TRUE, matches |-> TRUE,
     recent |-> <<>>, batch |-> FALSE, staged |-> FALSE,
     applied |-> 0, alreadyMax |-> 0, skipped |-> 0, failed |-> 0,
     checked |-> FALSE, boosted |-> FALSE, mark |-> 0]

\* f, with v at the members of S, and at x.
PutAll(f, S, v) == [y \in S \cup DOMAIN f |-> IF y \in S THEN v ELSE f[y]]
Put(f, x, v) == PutAll(f, {x}, v)

Counters == 0 .. Cardinality(Sources)

TypeOK ==
    /\ desk \in Desks
    /\ mode \in [Sources -> Mode] /\ registry \in [Sources -> Mode]
    /\ drift \in 0 .. MaxDrift /\ faults \in 0 .. MaxFaults
    /\ DOMAIN run = DOMAIN NoRun
    /\ run.at \in Steps /\ run.status \in Statuses
    /\ run.original \in Desks /\ run.recent \in Desks
    /\ DOMAIN run.modes \subseteq Sources
    /\ \A s \in DOMAIN run.modes : run.modes[s] \in Mode
    /\ DOMAIN run.target \subseteq Sources
    /\ \A s \in DOMAIN run.target : run.target[s] \in Statuses
    /\ DOMAIN run.request \subseteq DOMAIN run.modes
    /\ \A s \in DOMAIN run.request : run.request[s] \in Rates
    /\ run.todo \subseteq Sources
    /\ {run.applied, run.alreadyMax, run.skipped, run.failed} \subseteq Counters
    /\ {run.drrOk, run.complete, run.matches, run.batch, run.staged,
        run.checked, run.boosted} \subseteq BOOLEAN
    /\ run.mark \in 0 .. MaxDrift

(***************************************************************************)
(* Windows.  A call may fail as long as failures remain.                     *)
(***************************************************************************)
Succeeds == faults' = faults
Fails == faults > 0 /\ faults' = faults - 1

\* ReadActiveDisplayPaths: the paths now, or an error.
ReadPaths(Use(_), Otherwise) ==
    \/ Succeeds /\ run' = Use(desk)
    \/ Fails /\ run' = Otherwise

\* ReadCurrentMode for each of the devices: the devices that could be read.
Readable(devices, readable) ==
    \/ Succeeds /\ readable = devices
    \/ Fails /\ \E s \in devices : readable = devices \ {s}

\* ChangeDisplaySettingsEx of one device: saved, and shown unless it is staged.
Change(s, to, batch) ==
    /\ registry' = [registry EXCEPT ![s] = to]
    /\ mode' = IF batch THEN mode ELSE [mode EXCEPT ![s] = to]

\* A change that fails may be saved all the same (DISP_CHANGE_RESTART).
ChangeFails(s, to) ==
    /\ \/ registry' = registry
       \/ registry' = [registry EXCEPT ![s] = to]
    /\ UNCHANGED mode

\* ChangeDisplaySettingsEx(nullptr, nullptr, 0): shows what is saved.  When it
\* fails, some of the devices may have changed.
CommitAll == mode' = registry
CommitFails ==
    \E shown \in SUBSET {s \in Sources : mode[s] # registry[s]} :
        mode' = [s \in Sources |-> IF s \in shown THEN registry[s] ELSE mode[s]]

\* The user, the driver, a cable: a target goes or comes, a path changes, a
\* device gets another mode.
Drift ==
    /\ drift > 0
    /\ drift' = drift - 1
    /\ \/ \E t \in DOMAIN desk :
             /\ \/ desk' = Restrict(desk, DOMAIN desk \ {t})
                \/ \E field \in {"boost", "fit", "color"} :
                      desk' = [desk EXCEPT ![t][field] = ~@]
             /\ UNCHANGED <<mode, registry>>
       \/ \E t \in Targets \ DOMAIN desk, path \in Path :
             /\ path.fit /\ path.color
             /\ desk' = Put(desk, t, path)
             /\ UNCHANGED <<mode, registry>>
       \/ \E s \in Sources, m \in Mode :
             /\ m # mode[s]
             /\ mode' = [mode EXCEPT ![s] = m]
             /\ registry' = [registry EXCEPT ![s] = m]
             /\ UNCHANGED desk
    /\ UNCHANGED <<run, faults>>

(***************************************************************************)
(* Choosing the rates.                                                       *)
(***************************************************************************)
TargetsOf(paths, s) == {t \in DOMAIN paths : paths[t].source = s}
Groups(paths) == {paths[t].source : t \in DOMAIN paths}

\* A source that is cloned, or whose path SkipReason refuses, is left alone.
Unsafe(paths, s) ==
    \/ Cardinality(TargetsOf(paths, s)) > 1
    \/ \E t \in TargetsOf(paths, s) : ~paths[t].fit

SameTopology(before, after) == before = after

Boosted(paths) == \E t \in DOMAIN paths : paths[t].boost

Prepared(r) == DOMAIN r.request

\* The targets of the devices in S get a status.
Mark(r, S, status) == [r EXCEPT !.target = PutAll(@, S, status)]

Finish(r, status) == [r EXCEPT !.at = "done", !.status = status, !.todo = {}]

\* Mutant of SkipPrepared: what has a status already gets another one.
SkipAllPrepared(r, status) ==
    Finish([Mark(r, Prepared(r), "SkippedUnsafeTopology")
               EXCEPT !.skipped = @ + Cardinality(Prepared(r))], status)

\* Nothing is written: what was prepared is skipped.
SkipPrepared(r, status) ==
    LET pending == {s \in Prepared(r) : r.target[s] = "Unavailable"}
    IN  Finish([Mark(r, pending, "SkippedUnsafeTopology")
                   EXCEPT !.skipped = @ + Cardinality(pending)], status)

\* MaximizeFixedRefreshRateForActiveDisplays starts.
Begin(drrOk) ==
    /\ run.at = "idle"
    /\ run' = [NoRun EXCEPT !.at = "read", !.drrOk = drrOk]
    /\ UNCHANGED <<windows, drift, faults>>

\* The first reading groups the paths by source.
Grouped(paths) ==
    LET unsafe == {s \in Groups(paths) : Unsafe(paths, s)}
        read == [Mark(run, unsafe, "SkippedUnsafeTopology") EXCEPT
                    !.at = "prepare", !.original = paths, !.mark = drift,
                    !.skipped = Cardinality(unsafe),
                    !.todo = Groups(paths) \ unsafe,
                    !.checked = run.drrOk,
                    !.boosted = run.drrOk /\ Boosted(paths)]
    IN  IF paths = <<>> THEN Finish([run EXCEPT !.mark = drift], "Unavailable")
        ELSE IF read.todo = {} THEN Finish(read, "SkippedUnsafeTopology")
        ELSE read

ReadOriginal ==
    /\ run.at = "read"
    /\ ReadPaths(Grouped, Finish([run EXCEPT !.mark = drift], "Unavailable"))
    /\ UNCHANGED <<windows, drift>>

\* The result when no device is to change.
NothingPrepared(r) ==
    LET has(status) == \E s \in DOMAIN r.target : r.target[s] = status
    IN  IF has("ValidateFailed") THEN "ValidateFailed"
        ELSE IF has("NoCompatibleMode") THEN "NoCompatibleMode"
        ELSE IF r.skipped > 0 THEN "Partial"
        ELSE "AlreadyMax"

\* After the last device.
AfterPreparing(r) ==
    IF r.todo # {} THEN r
    ELSE IF Prepared(r) = {} THEN Finish(r, NothingPrepared(r))
    ELSE IF ~r.complete THEN SkipPrepared(r, "SkippedUnsafeTopology")
    ELSE [r EXCEPT !.at = "fresh"]

\* Of the modes that the driver lists, those with the layout of the current one
\* are candidates; the slower ones are not tested.
Candidates(s) == {hz \in Rates : hz > mode[s].hz}

\* One device: its current mode, the modes of its driver and their tests.  The
\* driver may list nothing compatible, nothing faster than the current rate, or
\* faster rates of which the highest that passes its test is chosen.
Prepare ==
    /\ run.at = "prepare"
    /\ LET s == Min(run.todo)
           rest == [run EXCEPT !.todo = @ \ {s}]
           read == [rest EXCEPT !.modes = Put(@, s, mode[s])]
       IN  \/ /\ Fails
              /\ run' = AfterPreparing(
                    [Mark(rest, {s}, "NoCompatibleMode")
                        EXCEPT !.complete = FALSE, !.failed = @ + 1])
           \/ /\ Succeeds
              /\ \/ run' = AfterPreparing(
                       [Mark(read, {s}, "NoCompatibleMode") EXCEPT !.failed = @ + 1])
                 \/ run' = AfterPreparing(
                       [Mark(read, {s}, "AlreadyMax") EXCEPT !.alreadyMax = @ + 1])
                 \/ /\ Candidates(s) # {}
                    /\ run' = AfterPreparing(
                          [Mark(read, {s}, "ValidateFailed") EXCEPT !.failed = @ + 1])
                 \/ \E hz \in Candidates(s) :
                       run' = AfterPreparing(
                          [Mark(read, {s}, "Unavailable")
                              EXCEPT !.request = Put(@, s, hz)])
    /\ UNCHANGED <<windows, drift>>

(***************************************************************************)
(* Looking again, and testing again, right before the first write.           *)
(***************************************************************************)
FreshPaths ==
    /\ run.at = "fresh"
    /\ ReadPaths(LAMBDA paths :
                    [run EXCEPT !.at = "freshModes",
                                !.matches = SameTopology(run.original, paths)],
                 [run EXCEPT !.at = "freshModes", !.matches = FALSE])
    /\ UNCHANGED <<windows, drift>>

FreshModes ==
    /\ run.at = "freshModes"
    /\ \E readable \in SUBSET Sources :
          /\ Readable(DOMAIN run.modes, readable)
          /\ run' = IF /\ run.matches
                       /\ \A s \in DOMAIN run.modes :
                             s \in readable /\ mode[s] = run.modes[s]
                    THEN [run EXCEPT !.at = "retest", !.todo = Prepared(run)]
                    ELSE SkipPrepared(run, "SkippedUnsafeTopology")
    /\ UNCHANGED <<windows, drift>>

Retest ==
    /\ run.at = "retest"
    /\ LET s == Min(run.todo)
       IN  \/ /\ Succeeds
              /\ run' = IF run.todo # {s} THEN [run EXCEPT !.todo = @ \ {s}]
                        ELSE [run EXCEPT !.at = "write", !.todo = Prepared(run),
                                         !.batch = Cardinality(Prepared(run)) > 1]
           \/ /\ Fails
              /\ run' = SkipPrepared(
                    [Mark(run, {s}, "ValidateFailed") EXCEPT !.failed = @ + 1],
                    "ValidateFailed")
    /\ UNCHANGED <<windows, drift>>

(***************************************************************************)
(* Writing and verifying.                                                    *)
(***************************************************************************)
\* Rolls back before it returns the status.
RollBack(r, status) ==
    [SkipPrepared(r, status) EXCEPT !.at = "rollback", !.matches = TRUE]

\* Only the frequency is in dmFields: the layout stays what it is.
Requested(s) == [mode[s] EXCEPT !.hz = run.request[s]]

Write ==
    /\ run.at = "write"
    /\ LET s == Min(run.todo)
       IN  \/ /\ Succeeds
              /\ Change(s, Requested(s), run.batch)
              /\ run' = IF run.todo # {s} THEN [run EXCEPT !.todo = @ \ {s}]
                        ELSE [run EXCEPT !.todo = {},
                                         !.at = IF run.batch THEN "commit" ELSE "after"]
           \/ /\ Fails
              /\ ChangeFails(s, Requested(s))
              /\ run' = RollBack(
                    [Mark(run, {s}, "ApplyFailed") EXCEPT !.failed = @ + 1],
                    "ApplyFailed")
    /\ UNCHANGED <<desk, drift>>

Commit ==
    /\ run.at = "commit"
    /\ \/ /\ Succeeds
          /\ CommitAll
          /\ run' = [run EXCEPT !.at = "after"]
       \/ /\ Fails
          /\ CommitFails
          /\ run' = RollBack(
                [Mark(run, Prepared(run), "ApplyFailed")
                    EXCEPT !.failed = @ + Cardinality(Prepared(run))],
                "ApplyFailed")
    /\ UNCHANGED <<desk, registry, drift>>

\* After the change every original path must be there, as it was.
AfterPaths ==
    /\ run.at = "after"
    /\ LET seen(paths, ok) ==
               [run EXCEPT
                   !.at = "afterModes", !.mark = drift,
                   !.matches = ok /\ SameTopology(run.original, paths),
                   !.checked = run.drrOk /\ ok,
                   !.boosted = \/ @
                               \/ /\ run.drrOk
                                  /\ \E t \in DOMAIN run.original :
                                        \/ t \notin DOMAIN paths
                                        \/ paths[t].source # run.original[t].source
                                        \/ paths[t].boost /\ ~run.original[t].boost]
       IN  ReadPaths(LAMBDA paths : seen(paths, TRUE), seen(<<>>, FALSE))
    /\ UNCHANGED <<windows, drift>>

\* A device that cannot be read, or whose physical rate is not the requested
\* one, is not in `readable`.
AfterModes ==
    /\ run.at = "afterModes"
    /\ \E readable \in SUBSET Sources :
          /\ Readable(DOMAIN run.modes, readable)
          /\ LET wanted(s) == IF s \in Prepared(run)
                              THEN [run.modes[s] EXCEPT !.hz = run.request[s]]
                              ELSE run.modes[s]
                 changed == Cardinality(Prepared(run))
             IN  run' = IF /\ run.matches
                           /\ \A s \in DOMAIN run.modes :
                                 s \in readable /\ mode[s] = wanted(s)
                        THEN Finish([Mark(run, Prepared(run), "Applied")
                                        EXCEPT !.applied = changed],
                                    IF run.failed + run.skipped > 0
                                    THEN "Partial" ELSE "Applied")
                        ELSE RollBack([Mark(run, Prepared(run), "VerifyFailed")
                                          EXCEPT !.failed = @ + changed],
                                      "VerifyFailed")
    /\ UNCHANGED <<windows, drift>>

(***************************************************************************)
(* RestoreChanges.                                                           *)
(***************************************************************************)
\* Run returns: a failed verification that is not restored is Partial.
RolledBack(r) ==
    Finish(r, IF r.status = "VerifyFailed" /\ ~r.matches THEN "Partial" ELSE r.status)

RollbackPaths ==
    /\ run.at = "rollback"
    /\ ReadPaths(LAMBDA paths :
                    [run EXCEPT !.at = "rollbackModes", !.recent = paths],
                 RolledBack([run EXCEPT !.matches = FALSE]))
    /\ UNCHANGED <<windows, drift>>

\* The device still belongs to the display it belonged to.
SameDisplay(s) ==
    \A t \in TargetsOf(run.original, s) :
        /\ t \in DOMAIN run.recent
        /\ run.recent[t].source = s /\ run.recent[t].fit

\* Mutant of ToRestore: what is only staged looks unchanged.
ToRestoreChanged(readable) == {s \in readable : mode[s] # run.modes[s]}

\* What was written is written back whatever it shows now, since it may be
\* staged; another device only if its mode has changed.
ToRestore(readable) ==
    {s \in readable : s \in Prepared(run) \/ mode[s] # run.modes[s]}

RollbackModes ==
    /\ run.at = "rollbackModes"
    /\ \E readable \in SUBSET Sources :
          /\ Readable(DOMAIN run.modes, readable)
          /\ LET restore == {s \in ToRestore(readable) : SameDisplay(s)}
             IN  run' = [run EXCEPT
                            !.at = IF restore = {} THEN "restored" ELSE "restore",
                            !.todo = restore,
                            !.batch = Cardinality(restore) > 1, !.staged = FALSE,
                            !.matches = /\ readable = DOMAIN run.modes
                                        /\ restore = ToRestore(readable)]
    /\ UNCHANGED <<windows, drift>>

Restore ==
    /\ run.at = "restore"
    /\ LET s == Min(run.todo)
           next(staged, ok) ==
               [run EXCEPT !.todo = @ \ {s}, !.staged = staged,
                           !.matches = @ /\ ok,
                           !.at = IF run.todo # {s} THEN @
                                  ELSE IF staged THEN "rollbackCommit" ELSE "restored"]
       IN  \/ /\ Succeeds
              /\ Change(s, run.modes[s], run.batch)
              /\ run' = next(run.staged \/ run.batch, TRUE)
           \/ /\ Fails
              /\ ChangeFails(s, run.modes[s])
              /\ run' = next(run.staged, FALSE)
    /\ UNCHANGED <<desk, drift>>

RollbackCommit ==
    /\ run.at = "rollbackCommit"
    /\ \/ /\ Succeeds
          /\ CommitAll
          /\ run' = [run EXCEPT !.at = "restored"]
       \/ /\ Fails
          /\ CommitFails
          /\ run' = [run EXCEPT !.at = "restored", !.matches = FALSE]
    /\ UNCHANGED <<desk, registry, drift>>

RestoredPaths ==
    /\ run.at = "restored"
    /\ ReadPaths(LAMBDA paths :
                    [run EXCEPT !.at = "restoredModes", !.mark = drift,
                                !.matches = @ /\ SameTopology(run.original, paths)],
                 [run EXCEPT !.at = "restoredModes", !.mark = drift,
                             !.matches = FALSE])
    /\ UNCHANGED <<windows, drift>>

RestoredModes ==
    /\ run.at = "restoredModes"
    /\ \E readable \in SUBSET Sources :
          /\ Readable(DOMAIN run.modes, readable)
          /\ run' = RolledBack(
                [run EXCEPT !.matches =
                    @ /\ \A s \in DOMAIN run.modes :
                            s \in readable /\ mode[s] = run.modes[s]])
    /\ UNCHANGED <<windows, drift>>

RefreshStep ==
    \/ ReadOriginal \/ Prepare
    \/ FreshPaths \/ FreshModes \/ Retest
    \/ Write \/ Commit \/ AfterPaths \/ AfterModes
    \/ RollbackPaths \/ RollbackModes \/ Restore \/ RollbackCommit
    \/ RestoredPaths \/ RestoredModes

(***************************************************************************)
(* Properties.                                                               *)
(***************************************************************************)
Finished == run.at = "done"

\* Every group has one result and is counted once, on whichever of its returns
\* Run leaves, and after a verification that takes back what it had counted: no
\* device is left pending.
CountersAgree ==
    Finished =>
        LET count(S) == Cardinality({s \in DOMAIN run.target : run.target[s] \in S})
        IN  /\ run.original # <<>> => DOMAIN run.target = Groups(run.original)
            /\ run.applied = count({"Applied"})
            /\ run.alreadyMax = count({"AlreadyMax"})
            /\ run.skipped = count({"SkippedUnsafeTopology"})
            /\ run.failed = count({"NoCompatibleMode", "ValidateFailed",
                                   "ApplyFailed", "VerifyFailed"})
=============================================================================
