--------------------------- MODULE SystemTelemetry ---------------------------
(***************************************************************************)
(* The 1 s and 5 s samples of ProductionTelemetryController: what the      *)
(* aggregator retains of a metric that is missing for a while, and the     *)
(* remaining time that BatteryPowerEstimator derives from the discharge    *)
(* readings of the EC, while the charger is plugged in and out at any time *)
(* and reads of the EC and of Windows fail.                                *)
(***************************************************************************)
EXTENDS Naturals, FiniteSets

CONSTANTS
    MissingThreshold,  \* kEcTelemetryMissingThreshold, kSystemTelemetryMissingThreshold
    MinSamples,        \* kMinimumSamples
    MinHistory,        \* kMinimumHistory, in samples' intervals
    Window             \* kRollingWindow, likewise

ASSUME SystemAssumption ==
    /\ MissingThreshold \in Nat \ {0}
    /\ MinSamples \in Nat \ {0} /\ MinHistory \in Nat /\ Window \in Nat

VARIABLES
    sampling,  \* samplingActive_
    plugged,   \* the world: the charger
    power,     \* latestPower_: whether Windows reported it, on battery, an estimate
    history,   \* BatteryPowerEstimator::samples_: ages, all different, and whether
               \* the charger was seen plugged in since the sample
    retained   \* one field of HudTelemetryAggregator with its missing count,
               \* and what really happened to it

systemVars == <<sampling, plugged, power, history, retained>>

NoPower == [known |-> FALSE, onBattery |-> FALSE, minutes |-> FALSE]
Powers == [known: BOOLEAN, onBattery: BOOLEAN, minutes: BOOLEAN]
Samples == [age: Nat, recharged: BOOLEAN]

\* misses counts the empty polls since the last value; had: there was one
\* since the reset.
NothingRetained == [cached |-> FALSE, missing |-> 0, had |-> FALSE, misses |-> 0]

-----------------------------------------------------------------------------
Missed(r) == IF r.misses < MissingThreshold THEN r.misses + 1 ELSE r.misses

UpdateRetainedKeepsCount(r, current) == \* mutant: the count survives a value
    IF current
      THEN [r EXCEPT !.cached = TRUE, !.had = TRUE, !.misses = 0]
      ELSE IF r.cached /\ r.missing + 1 >= MissingThreshold
             THEN [r EXCEPT !.cached = FALSE, !.missing = 0, !.misses = Missed(r)]
             ELSE [r EXCEPT !.missing = IF r.cached THEN @ + 1 ELSE @, !.misses = Missed(r)]

UpdateRetainedTelemetryField(r, current) ==
    IF current
      THEN [cached |-> TRUE, missing |-> 0, had |-> TRUE, misses |-> 0]
      ELSE IF r.cached /\ r.missing + 1 >= MissingThreshold
             THEN [r EXCEPT !.cached = FALSE, !.missing = 0, !.misses = Missed(r)]
             ELSE [r EXCEPT !.missing = IF r.cached THEN @ + 1 ELSE @, !.misses = Missed(r)]

\* From the oldest sample to the newest.
Ready(h) ==
    /\ Cardinality(h) >= MinSamples
    /\ \E old, new \in h : old.age >= new.age + MinHistory

Push(h) == {s \in h : s.age <= Window} \cup {[age |-> 0, recharged |-> FALSE]}

ObserveBattery(h, onBattery, reading) ==
    CASE ~onBattery -> {}
      [] onBattery /\ ~reading -> h
      [] OTHER -> Push(h)

\* The EC's discharge current is negative on battery only; with the charger
\* in there is no reading.
DischargeReadings == IF power.onBattery /\ ~plugged THEN BOOLEAN ELSE {FALSE}

HistoryAfterKeeps(h, reading) == \* mutant: an invalid sample resets nothing
    ObserveBattery(h, power.onBattery, reading)

HistoryAfter(h, reading) ==
    IF power.onBattery /\ h # {} /\ ~reading
      THEN {}
      ELSE ObserveBattery(h, power.onBattery, reading)

Witnessed == \* what the charger means for the samples taken so far
    {[age |-> s.age, recharged |-> s.recharged \/ plugged] : s \in history}

SampleSystemEc ==
    /\ \E reading \in DischargeReadings : history' = HistoryAfter(Witnessed, reading)
    /\ \E value \in BOOLEAN : retained' = UpdateRetainedTelemetryField(retained, value)

\* Windows may not answer, or not know the AC state: not on battery then.
SampleBattery(h) ==
    \/ power' = NoPower /\ history' = {}
    \/ /\ \E onBattery \in {~plugged, FALSE} :
             power' = [known |-> TRUE, onBattery |-> onBattery, minutes |-> Ready(h)]
       /\ history' = h

-----------------------------------------------------------------------------
\* StartBaseSampling takes the first samples at once: with no power status
\* yet, the EC sample leaves the history empty.
StartBaseSampling ==
    /\ ~sampling
    /\ sampling' = TRUE
    /\ SampleBattery({})
    /\ \E value \in BOOLEAN : retained' = UpdateRetainedTelemetryField(retained, value)
    /\ UNCHANGED plugged

\* At most one sample per interval.
EcTimer ==
    /\ sampling
    /\ \A s \in history : s.age > 0
    /\ SampleSystemEc
    /\ UNCHANGED <<sampling, plugged, power>>

BatteryTimer ==
    /\ sampling
    /\ SampleBattery(history)
    /\ UNCHANGED <<sampling, plugged, retained>>

ResetSamplingState ==
    /\ sampling
    /\ sampling' = FALSE
    /\ power' = NoPower
    /\ history' = {}
    /\ retained' = NothingRetained
    /\ UNCHANGED plugged

\* An interval passes; the timers' messages may come late.
Elapse ==
    /\ \E s \in history : s.age < Window
    /\ history' = {[s EXCEPT !.age = @ + 1] : s \in history}
    /\ UNCHANGED <<sampling, plugged, power, retained>>

Charger ==
    /\ plugged' = ~plugged
    /\ UNCHANGED <<sampling, power, history, retained>>

SystemInit ==
    /\ sampling = FALSE
    /\ plugged \in BOOLEAN
    /\ power = NoPower
    /\ history = {}
    /\ retained = NothingRetained

SystemNext ==
    \/ StartBaseSampling \/ EcTimer \/ BatteryTimer \/ ResetSamplingState
    \/ Elapse \/ Charger

SystemSpec == SystemInit /\ [][SystemNext]_systemVars

-----------------------------------------------------------------------------
SystemTypeOK ==
    /\ sampling \in BOOLEAN /\ plugged \in BOOLEAN
    /\ power \in Powers
    /\ history \subseteq Samples
    /\ retained \in [cached: BOOLEAN, missing: 0 .. MissingThreshold - 1,
                     had: BOOLEAN, misses: 0 .. MissingThreshold]

\* The remaining time is averaged over one discharge: no sample survives a
\* reading taken with the charger in, whatever Windows said of it meanwhile.
OneDischargeOnly == \A s \in history : ~s.recharged

\* A metric stays on the HUD for exactly the promised number of empty polls.
RetentionIsExact ==
    retained.cached <=> retained.had /\ retained.misses < MissingThreshold

\* A battery estimate mixes no two discharges, and a value that stays away is
\* retained exactly as long as promised; the variables keep their types.
BatteryIsHonest == SystemTypeOK /\ OneDischargeOnly /\ RetentionIsExact
=============================================================================
