\* A pod that stops is gone, and one that starts runs, in the end, with both
\* mounters; what rclone, whose child outlives its command, leaves behind.
SPECIFICATION FairSpec
CONSTANTS
  k1 = k1
  k2 = k2
  NoHandler = NoHandler
  NoKey = NoKey
  Handlers = {h1, h2}
  Daemons = {d1, d2, d3}
  Keys = {k1, k2}
  GoodKeys = {k1, k2}
  KeyLen <- LongFirst
  Mounters = {"s3fs", "rclone"}
  Faults = {"mountFail", "slowMount", "unmount", "timeout", "pluginCrash", "serve", "serviceCrash", "signal", "daemonCrash", "rotate"}
  MaxFaults = 2
CHECK_DEADLOCK FALSE
INVARIANTS
  RunningPodIsServed
  GonePodIsClean
PROPERTIES
  StoppingPodGoes
  StartingPodSettles
