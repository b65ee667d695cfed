CONSTANTS
  a = a
  b = b
  c = c
  NoInstance = NoInstance
  Instances = {a, b, c}
  Pids = {1, 2}
  PidOf <- MCPidOf
  Lasting = {c}
  HoldTicks = 3
  VerifiedPids = {1}
  WatchedPids = {1}
  MissingThreshold = 3
  MinSamples = 3
  MinHistory = 2
  Window = 4
  Options = {o1, o2}
  Opacities = {p1, p2}
  MaxAttempts = 2
  Platforms = {{"init", "show", "opacity"}}
SPECIFICATION MCSpec
CHECK_DEADLOCK FALSE
INVARIANTS
    MeasurementsAreOwn
    TrackingMatchesHolders
    BatteryIsHonest
    ChangeIsWhole
