------------------------------ MODULE IntelVrr ------------------------------
(***************************************************************************)
(* IntelVrrRangeTweak::Run: the panels that WMI lists are matched to       *)
(* Windows display targets, each target is looked up in the Intel driver,  *)
(* and a panel whose variable refresh range is narrowed by a standard      *)
(* profile is switched to EXCELLENT and read back.  Every call into        *)
(* Windows, the registry and the driver is a step of its own: between two  *)
(* of them a monitor can be plugged elsewhere, the user can choose another *)
(* profile and an EDID override can be staged.                             *)
(*                                                                         *)
(* A refresh range is classed by its distance from the panel's native one: *)
(* "full" is within 0.1 Hz, "near" within 0.25 Hz, "narrow" a range that a *)
(* standard profile leaves, "odd" any other.  Off is treated as Custom,    *)
(* and VESA as Good.                                                       *)
(***************************************************************************)
EXTENDS Naturals, FiniteSets

CONSTANTS
    Monitors,    \* the supported panels that were ever connected
    Kinds,       \* what the panels may be: functions from Monitors
    TargetIds,   \* Windows display targets
    NoMonitor, NoTarget,
    Found,       \* bound: what may be in force when the first run starts
    MaxRuns,     \* bound: startup and its retries
    MaxChanges   \* bound: changes of the world during the runs

PanelKinds == {"Claw", "Claw7", "Lg"}
ASSUME PanelAssumption ==
    /\ Kinds \subseteq [Monitors -> PanelKinds]
    /\ NoMonitor \notin Monitors /\ NoTarget \notin TargetIds
    /\ Found \subseteq [profile: {"Recommended", "Excellent", "Good", "Compatible", "Custom"},
                       range: {"full", "near", "narrow", "odd"}]

VARIABLES
    kind, cap,   \* what each panel is, and the capability that IGCL reports
    port,        \* which monitor is connected to a target
    driver,      \* the profile and range in force for a monitor
    staged,      \* monitors with an EDID_OVERRIDE key
    vrr,         \* the run in progress, or the last one
    runs, changes,
    original,    \* history: what was in force before the run, but for the user
    excused,     \* history: what changed after the code's last look at it
    touched,     \* history: monitors that the world changed during this run
    settled      \* history: monitors found or made correct, and unchanged since

world == <<kind, cap, port, driver, staged>>
history == <<original, excused, touched, settled>>
vrrVars == <<world, vrr, runs, changes, history>>

Standard == {"Recommended", "Excellent", "Good", "Compatible"}
Profiles == Standard \cup {"Custom"}
Ranges == {"full", "near", "narrow", "odd"}
InForce == [profile: Profiles, range: Ranges]
VrrStatuses == {"Disabled", "Unavailable", "UnsupportedPanel", "AmbiguousDisplay",
             "AlreadyCorrect", "SkippedUserProfile", "Applied", "ApplyFailed",
             "VerificationFailed"}
NoStatus == "none"

NoState == [exact |-> FALSE, ambiguous |-> FALSE, cap |-> "none",
            profile |-> "Recommended", range |-> "odd"]
NoEvidence == [physical |-> FALSE, direct |-> FALSE]

Native(range) == range \in {"full", "near"}

-----------------------------------------------------------------------------
(* What the calls return.                                                  *)

\* EnumeratePanelIdentities and ClassifySupportedPanel: a monitor that was
\* just disconnected may still be listed.
ListedPanels ==
    {panels \in SUBSET Monitors : {port[t] : t \in TargetIds} \cap Monitors \subseteq panels}

\* EnumerateIntelVrrWindowsTargets, and ResolvePanelWindowsTarget on it.
WindowsTargets == {[complete |-> TRUE, on |-> port],
                   [complete |-> FALSE, on |-> [t \in TargetIds |-> NoMonitor]]}

ResolvePanelWindowsTarget(m, targets) ==
    LET matches == {t \in TargetIds : targets.on[t] = m}
    IN  CASE ~targets.complete -> [status |-> "Unavailable", target |-> NoTarget]
          [] targets.complete /\ matches = {} ->
                [status |-> "NotActive", target |-> NoTarget]
          [] targets.complete /\ Cardinality(matches) > 1 ->
                [status |-> "Ambiguous", target |-> NoTarget]
          [] OTHER -> [status |-> "Exact", target |-> CHOOSE t \in matches : TRUE]

\* IntelVrrTargetStateProbe::Query.  IGCL knows adapters and target ids, not
\* monitors; a failed call leaves the state inexact.
IntelState(t) ==
    LET m == port[t]
    IN  [exact |-> TRUE, ambiguous |-> FALSE, cap |-> cap[m],
         profile |-> driver[m].profile, range |-> driver[m].range]

QueryResults(t) ==
    {NoState, [NoState EXCEPT !.ambiguous = TRUE]}
    \cup IF port[t] = NoMonitor THEN {} ELSE {IntelState(t)}

\* The EDID is read from the registry key of the monitor, connected or not:
\* it is the panel's own only while no override is staged.
PhysicalEdid(m) == {FALSE, m \notin staged}

\* The driver is asked for the range by adapter and target.
DirectRange(t) ==
    IF port[t] # NoMonitor /\ kind[port[t]] = "Claw7" THEN BOOLEAN ELSE {FALSE}

Evidence(m, t, queryDirectRange) ==
    {[physical |-> p, direct |-> d] :
        p \in PhysicalEdid(m), d \in IF queryDirectRange THEN DirectRange(t) ELSE {FALSE}}

Verifies(state, evidence) ==
    evidence.physical /\ (state.cap = "half" => evidence.direct)

-----------------------------------------------------------------------------
(* The policies.                                                           *)

EvaluateClawInternalProfile(s) ==
    CASE s.cap # "native" -> "UnsupportedPanel"
      [] s.cap = "native" /\ s.profile \notin Standard -> "SkippedUserProfile"
      [] OTHER -> IF s.range = "full" THEN "AlreadyCorrect" ELSE "Applied"

EvaluateTma2027Profile(s, evidence) ==
    CASE s.cap = "none" -> "Unavailable"
      [] s.cap # "none" /\ s.profile \notin Standard -> "SkippedUserProfile"
      [] s.cap # "none" /\ s.profile \in Standard /\ s.range = "odd" -> "UnsupportedPanel"
      [] OTHER -> IF ~Verifies(s, evidence) THEN "Unavailable"
                    ELSE IF Native(s.range) THEN "AlreadyCorrect" ELSE "Applied"

EvaluateLg27gs65fProductionProfile(s) ==
    CASE s.cap # "native" -> "UnsupportedPanel"
      [] s.cap = "native" /\ Native(s.range) /\ s.profile \in {"Recommended", "Excellent"} ->
            "AlreadyCorrect"
      [] s.cap = "native" /\ s.range = "narrow" /\ s.profile \in {"Recommended", "Compatible"} ->
            "Applied"
      [] OTHER -> "SkippedUserProfile"

Decision(m, s, evidence) ==
    CASE ~s.exact -> IF s.ambiguous THEN "AmbiguousDisplay" ELSE "Unavailable"
      [] s.exact /\ kind[m] = "Claw" -> EvaluateClawInternalProfile(s)
      [] s.exact /\ kind[m] = "Claw7" -> EvaluateTma2027Profile(s, evidence)
      [] OTHER -> EvaluateLg27gs65fProductionProfile(s)

ChangeAllowedAnyRange(m, s, requested, evidence) == \* mutant: the range is not looked at
    /\ s.exact
    /\ CASE kind[m] = "Claw" -> s.cap = "native" /\ requested = "Excellent"
                                  /\ s.profile \in Standard
         [] kind[m] = "Claw7" -> s.cap # "none" /\ requested = "Excellent"
                                  /\ s.profile \in Standard /\ Verifies(s, evidence)
         [] OTHER -> s.cap = "native"

IsIntelVrrProfileChangeAllowed(m, s, requested, evidence) ==
    /\ s.exact
    /\ CASE kind[m] = "Claw" ->
              /\ s.cap = "native" /\ requested = "Excellent"
              /\ s.profile \in Standard /\ ~Native(s.range)
         [] kind[m] = "Claw7" ->
              /\ s.cap # "none" /\ requested = "Excellent"
              /\ s.profile \in Standard /\ s.range = "narrow" /\ Verifies(s, evidence)
         [] OTHER ->
              /\ s.cap = "native"
              /\ IF requested = "Excellent"
                   THEN s.profile \in {"Recommended", "Compatible"} /\ s.range = "narrow"
                   ELSE s.profile = "Excellent" /\ requested \in {"Recommended", "Compatible"}

VerifiedAnyRange(m, s, evidence) == \* mutant: the range read back is not looked at
    s.exact /\ s.profile = "Excellent" /\ s.cap \in {"native", "half"}

Verified(m, s, evidence) ==
    /\ s.exact /\ s.profile = "Excellent" /\ Native(s.range)
    /\ IF kind[m] = "Claw7" THEN s.cap # "none" /\ Verifies(s, evidence)
                            ELSE s.cap = "native"

SummaryPriority(status) ==
    CASE status \in {"VerificationFailed", "ApplyFailed"} -> 6
      [] status = "Unavailable" -> 5
      [] status = "AmbiguousDisplay" -> 4
      [] status = "UnsupportedPanel" -> 3
      [] status = "Applied" -> 2
      [] status = "AlreadyCorrect" -> 1
      [] status = "SkippedUserProfile" -> 0
      [] OTHER -> 0

Summarize(results) ==
    LET found == {results[m] : m \in Monitors} \ {NoStatus}
    IN  CHOOSE s \in found : \A r \in found : SummaryPriority(r) <= SummaryPriority(s)

-----------------------------------------------------------------------------
(* The run.                                                                *)

NoResults == [m \in Monitors |-> NoStatus]
NotRun == [pc |-> "idle", supported |-> {}, at |-> [m \in Monitors |-> NoTarget],
           todo |-> {}, item |-> NoMonitor, before |-> NoState, after |-> NoState,
           evidence |-> NoEvidence, handle |-> NoTarget, requested |-> "Excellent",
           results |-> NoResults, status |-> NoStatus]

Target == vrr.at[vrr.item]
Unrelated == <<world, runs, changes, original, excused, touched, settled>>

\* The run is over: what it found correct, or made so.
Ends(results, status) ==
    /\ vrr' = [NotRun EXCEPT !.pc = "done", !.results = results, !.status = status]
    /\ settled' = settled \cup
                  {m \in Monitors \ touched : results[m] \in {"Applied", "AlreadyCorrect"}}
    /\ UNCHANGED <<world, runs, changes, original, excused, touched>>

SettlesWithHandle(status) == \* mutant: the next panel starts with the last one's query
    LET results == [vrr.results EXCEPT ![vrr.item] = status]
    IN  IF vrr.todo = {}
          THEN Ends(results, Summarize(results))
          ELSE /\ vrr' = [vrr EXCEPT !.pc = "next", !.item = NoMonitor, !.results = results]
               /\ UNCHANGED Unrelated

\* One panel is done; the probe is shut down after the last.
Settles(status) ==
    LET results == [vrr.results EXCEPT ![vrr.item] = status]
    IN  IF vrr.todo = {}
          THEN Ends(results, Summarize(results))
          ELSE /\ vrr' = [NotRun EXCEPT !.pc = "next", !.todo = vrr.todo, !.at = vrr.at,
                                        !.supported = vrr.supported, !.results = results]
               /\ UNCHANGED Unrelated

\* Run(enabled), up to the WMI enumeration, which may fail.
BeginVrr ==
    /\ vrr.pc \in {"idle", "done"} /\ runs < MaxRuns
    /\ runs' = runs + 1
    /\ \/ vrr' = [NotRun EXCEPT !.pc = "done", !.status = "Disabled"]
       \/ vrr' = [NotRun EXCEPT !.pc = "done", !.status = "Unavailable"]
       \/ \E panels \in ListedPanels :
             vrr' = IF panels = {}
                      THEN [NotRun EXCEPT !.pc = "done", !.status = "UnsupportedPanel"]
                      ELSE [NotRun EXCEPT !.pc = "targets", !.supported = panels]
    /\ original' = driver
    /\ excused' = {} /\ touched' = {}
    /\ UNCHANGED <<world, changes, settled>>

MapTargets ==
    /\ vrr.pc = "targets"
    /\ \E targets \in WindowsTargets :
          LET match == [m \in Monitors |-> ResolvePanelWindowsTarget(m, targets)]
              work == {m \in vrr.supported : match[m].status = "Exact"}
              results == [m \in Monitors |->
                            CASE m \in vrr.supported /\ match[m].status = "Unavailable" ->
                                    "Unavailable"
                              [] m \in vrr.supported /\ match[m].status = "Ambiguous" ->
                                    "AmbiguousDisplay"
                              [] OTHER -> NoStatus]
          IN  IF work # {}
                THEN /\ vrr' = [vrr EXCEPT !.pc = "probe", !.todo = work, !.results = results,
                                           !.at = [m \in Monitors |-> match[m].target]]
                     /\ UNCHANGED Unrelated
                ELSE Ends(results, IF results = NoResults THEN "UnsupportedPanel"
                                                          ELSE Summarize(results))

\* IntelVrrTargetStateProbe::Initialize: the library, its functions, the API.
InitializeProbe ==
    /\ vrr.pc = "probe"
    /\ \/ vrr' = [vrr EXCEPT !.pc = "next"] /\ UNCHANGED Unrelated
       \/ LET results == [m \in Monitors |-> IF m \in vrr.todo THEN "Unavailable"
                                                               ELSE vrr.results[m]]
          IN  Ends(results, Summarize(results))

\* The next panel, in WMI's order: what is in force for its target.
QueryTarget ==
    /\ vrr.pc = "next"
    /\ \E m \in vrr.todo : \E s \in QueryResults(vrr.at[m]) :
          vrr' = [vrr EXCEPT !.pc = IF kind[m] = "Claw7" THEN "evidence" ELSE "decide",
                             !.todo = @ \ {m}, !.item = m, !.before = s,
                             !.handle = IF s.exact THEN vrr.at[m] ELSE NoTarget]
    /\ UNCHANGED Unrelated

CollectEvidence ==
    /\ vrr.pc = "evidence"
    /\ \E e \in Evidence(vrr.item, Target, vrr.before.cap = "half") :
          vrr' = [vrr EXCEPT !.pc = "decide", !.evidence = e]
    /\ UNCHANGED Unrelated

Decide ==
    /\ vrr.pc = "decide"
    /\ LET status == Decision(vrr.item, vrr.before, vrr.evidence)
       IN  IF status = "Applied"
             THEN vrr' = [vrr EXCEPT !.pc = "revalidate"] /\ UNCHANGED Unrelated
             ELSE Settles(status)

RevalidateTargetAny == \* mutant: any monitor on the target will do
    /\ vrr.pc = "revalidate"
    /\ vrr' = [vrr EXCEPT !.pc = IF kind[vrr.item] = "Claw7" THEN "confirm" ELSE "compare"]
    /\ UNCHANGED Unrelated

\* Windows must still have the monitor where it was.
RevalidateTarget ==
    /\ vrr.pc = "revalidate"
    /\ \E targets \in WindowsTargets :
          LET match == ResolvePanelWindowsTarget(vrr.item, targets)
          IN  IF match.status = "Exact" /\ match.target = Target
                THEN /\ vrr' = [vrr EXCEPT !.pc = IF kind[vrr.item] = "Claw7"
                                                    THEN "confirm" ELSE "compare"]
                     /\ UNCHANGED Unrelated
                ELSE Settles("AmbiguousDisplay")

ConfirmEvidence ==
    /\ vrr.pc = "confirm"
    /\ \E e \in Evidence(vrr.item, Target, vrr.before.cap = "half") :
          IF Verifies(vrr.before, e)
            THEN vrr' = [vrr EXCEPT !.pc = "compare", !.evidence = e] /\ UNCHANGED Unrelated
            ELSE Settles("Unavailable")

\* SetProfileForExactTarget up to the call that sets: the handle of the last
\* query is used once, the policy must allow the change, and what is in force
\* must still be what was queried.  Any call may fail.
MayWrite(expected) ==
    /\ vrr.handle = Target /\ port[Target] # NoMonitor
    /\ IsIntelVrrProfileChangeAllowed(vrr.item, expected, vrr.requested, vrr.evidence)
    /\ IntelState(Target) = expected

CompareBeforeApply ==
    /\ vrr.pc = "compare"
    /\ \/ /\ MayWrite(vrr.before)
          /\ vrr' = [vrr EXCEPT !.pc = "write", !.handle = NoTarget]
          /\ UNCHANGED Unrelated
       \/ Settles("Unavailable")

\* ctlSetIntelArcSyncProfile works by target; the driver decides the range.
DriverSets(profile) ==
    LET m == port[Target]
    IN  /\ m # NoMonitor
        /\ \E range \in {"full", "near", "narrow"} :
              driver' = [driver EXCEPT ![m] = [profile |-> profile, range |-> range]]
        /\ UNCHANGED <<kind, cap, port, staged>>

WriteProfile ==
    /\ vrr.pc = "write"
    /\ \/ /\ DriverSets("Excellent")
          /\ vrr' = [vrr EXCEPT !.pc = "recheck"]
          /\ UNCHANGED <<runs, changes, history>>
       \/ Settles("ApplyFailed")

RevalidateAfterApply ==
    /\ vrr.pc = "recheck"
    /\ \E targets \in WindowsTargets :
          LET match == ResolvePanelWindowsTarget(vrr.item, targets)
          IN  IF match.status = "Exact" /\ match.target = Target
                THEN vrr' = [vrr EXCEPT !.pc = "readback"] /\ UNCHANGED Unrelated
                ELSE Settles("VerificationFailed")

ReadBack ==
    /\ vrr.pc = "readback"
    /\ \E s \in QueryResults(Target) :
          vrr' = [vrr EXCEPT !.pc = IF kind[vrr.item] = "Claw7" THEN "reconfirm" ELSE "verify",
                             !.after = s,
                             !.handle = IF s.exact THEN Target ELSE NoTarget]
    /\ UNCHANGED Unrelated

CollectEvidenceAfter ==
    /\ vrr.pc = "reconfirm"
    /\ \E e \in Evidence(vrr.item, Target, vrr.after.cap = "half") :
          vrr' = [vrr EXCEPT !.pc = "verify", !.evidence = e]
    /\ UNCHANGED Unrelated

\* Only the LG is rolled back, and only from a complete readback.
Verify ==
    /\ vrr.pc = "verify"
    /\ IF Verified(vrr.item, vrr.after, vrr.evidence)
         THEN Settles("Applied")
         ELSE IF kind[vrr.item] = "Lg" /\ vrr.after.exact /\ vrr.after.cap = "native"
                   /\ vrr.after.profile = "Excellent"
                THEN vrr' = [vrr EXCEPT !.pc = "unapply"] /\ UNCHANGED Unrelated
                ELSE Settles("VerificationFailed")

RevalidateBeforeRollback ==
    /\ vrr.pc = "unapply"
    /\ \E targets \in WindowsTargets :
          LET match == ResolvePanelWindowsTarget(vrr.item, targets)
          IN  IF match.status = "Exact" /\ match.target = Target
                THEN /\ vrr' = [vrr EXCEPT !.pc = "uncompare",
                                           !.requested = vrr.before.profile]
                     /\ UNCHANGED Unrelated
                ELSE Settles("VerificationFailed")

CompareBeforeRollback ==
    /\ vrr.pc = "uncompare"
    /\ \/ /\ MayWrite(vrr.after)
          /\ vrr' = [vrr EXCEPT !.pc = "unwrite", !.handle = NoTarget]
          /\ UNCHANGED Unrelated
       \/ Settles("VerificationFailed")

\* What is read back after the rollback is only logged.
Rollback ==
    /\ vrr.pc = "unwrite"
    /\ DriverSets(vrr.requested)
    /\ vrr' = [vrr EXCEPT !.pc = "unwritten"]
    /\ UNCHANGED <<runs, changes, history>>

RollbackEnds ==
    /\ vrr.pc \in {"unwrite", "unwritten"}
    /\ Settles("VerificationFailed")

-----------------------------------------------------------------------------
(* The world.  A change during the few calls between the code's last look  *)
(* at something and its write is excused.                                  *)

Excuse(what, pcs) == excused' = IF vrr.pc \in pcs THEN excused \cup {what} ELSE excused

Plug(t, m) ==
    /\ changes < MaxChanges /\ port[t] # m
    /\ port' = [port EXCEPT ![t] = m]
    /\ changes' = changes + 1
    /\ Excuse("target", {"confirm", "compare", "write", "uncompare", "unwrite"})
    /\ touched' = touched \cup ({m, port[t]} \cap Monitors)
    /\ settled' = settled \ {m, port[t]}
    /\ UNCHANGED <<kind, cap, driver, staged, vrr, runs, original>>

UserChooses(m, choice) ==
    /\ changes < MaxChanges /\ driver[m] # choice
    /\ driver' = [driver EXCEPT ![m] = choice]
    /\ changes' = changes + 1
    /\ Excuse("profile", {"write", "unwrite"})
    /\ touched' = touched \cup {m}
    /\ settled' = settled \ {m}
    /\ UNCHANGED <<kind, cap, port, staged, vrr, runs, original>>

StageOverride(m) ==
    /\ changes < MaxChanges
    /\ staged' = staged \cup {m}
    /\ changes' = changes + 1
    /\ Excuse("edid", {"compare", "write"})
    /\ touched' = touched \cup {m}
    /\ settled' = settled \ {m}
    /\ UNCHANGED <<kind, cap, port, driver, vrr, runs, original>>

UserChoices == {[profile |-> "Custom", range |-> "odd"],
                [profile |-> "Compatible", range |-> "narrow"]}

-----------------------------------------------------------------------------
VrrInit ==
    /\ kind \in Kinds
    /\ cap \in [Monitors -> {"native", "half"}]
    /\ \A m \in Monitors : cap[m] = "half" => kind[m] = "Claw7"
    /\ port \in [TargetIds -> Monitors \cup {NoMonitor}]
    /\ \A t, u \in TargetIds : port[t] = port[u] => t = u \/ port[t] = NoMonitor
    /\ driver \in [Monitors -> Found]
    /\ staged = {}
    /\ vrr = NotRun /\ runs = 0 /\ changes = 0
    /\ original = driver
    /\ excused = {} /\ touched = {} /\ settled = {}

Step ==
    \/ BeginVrr \/ MapTargets \/ InitializeProbe \/ QueryTarget \/ CollectEvidence
    \/ Decide \/ RevalidateTarget \/ ConfirmEvidence \/ CompareBeforeApply
    \/ WriteProfile \/ RevalidateAfterApply \/ ReadBack \/ CollectEvidenceAfter
    \/ Verify \/ RevalidateBeforeRollback \/ CompareBeforeRollback \/ Rollback
    \/ RollbackEnds

World ==
    \/ \E t \in TargetIds, m \in Monitors \cup {NoMonitor} : Plug(t, m)
    \/ \E m \in Monitors : StageOverride(m) \/ \E c \in UserChoices : UserChooses(m, c)

VrrNext == Step \/ World
VrrSpec == VrrInit /\ [][VrrNext]_vrrVars

-----------------------------------------------------------------------------
\* The variables hold values the code can hold; a query that may still be
\* used for a write is the current panel's, at its target.
VrrTypeOK ==
    /\ driver \in [Monitors -> InForce]
    /\ vrr.results \in [Monitors -> VrrStatuses \cup {NoStatus}]
    /\ vrr.status \in VrrStatuses \cup {NoStatus}
    /\ vrr.pc = "done" => vrr.status # NoStatus
    /\ vrr.handle # NoTarget => vrr.item # NoMonitor /\ vrr.handle = Target

Writes == vrr.pc \in {"write", "unwrite"} /\ driver' # driver /\ changes' = changes

\* Whatever is plugged, chosen or staged meanwhile, a write changes only the
\* panel that the run means, only a profile that is not the user's own, and a
\* Claw 7 panel only without an EDID override: up to changes that come after
\* the code's last look, a few calls before the write.
WritesAreInformed ==
    [][Writes =>
         /\ "target" \in excused \/ \A m \in Monitors : driver'[m] # driver[m] => m = vrr.item
         /\ excused \cap {"target", "profile"} # {} \/ driver[vrr.item].profile \in Standard
         /\ "edid" \in excused \/ kind[vrr.item] # "Claw7" \/ vrr.item \notin staged]_vrrVars

\* What the run reports of a panel that nobody else changed is so: applied
\* and correct panels have their native range, panels it left alone are as
\* they were, and a failed verification leaves the old profile or EXCELLENT.
ReportIsTrue ==
    vrr.pc = "done" =>
      \A m \in Monitors \ touched :
        CASE vrr.results[m] = "Applied" ->
                driver[m].profile = "Excellent" /\ Native(driver[m].range)
          [] vrr.results[m] = "AlreadyCorrect" ->
                driver[m] = original[m] /\ Native(driver[m].range)
          [] vrr.results[m] = "VerificationFailed" ->
                driver[m].profile \in {"Excellent", original[m].profile}
          [] OTHER -> driver[m] = original[m]

\* A retry, or the next start, does not write to a panel that a run found or
\* made correct.
NoSecondWrite == [][Writes => \A m \in settled : driver'[m] = driver[m]]_vrrVars

\* A write has its reasons when it is made and is made once; the query that it
\* goes through is the current panel's.
WritesAreJustified == []VrrTypeOK /\ WritesAreInformed /\ NoSecondWrite

=============================================================================
