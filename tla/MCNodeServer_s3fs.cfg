\* Retries and restarts that overlap, s3fs.
SPECIFICATION Spec
CONSTANTS
  k1 = k1
  k2 = k2
  NoHandler = NoHandler
  NoKey = NoKey
  Handlers = {h1, h2}
  Daemons = {d1, d2, d3, d4}
  Keys = {k1}
  GoodKeys = {k1}
  KeyLen <- OneLength
  Mounters = {"s3fs"}
  Faults = {"lookup", "mkdir", "config", "start", "mountFail", "slowMount", "unmount", "processes", "slowExit", "remove", "timeout", "pluginCrash", "setup", "serve", "serviceCrash", "socket", "signal", "daemonCrash"}
  MaxFaults = 3
SYMMETRY HandlerSymmetry
CHECK_DEADLOCK FALSE
INVARIANTS
  TypeOK
  RunningPodIsServed
  NoStackedMount
  GonePodIsClean
  FailedPodIsUnmounted
