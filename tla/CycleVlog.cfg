SPECIFICATION FairSpec
CONSTANTS
  main = main
  post = post
  always = always
  watch1 = watch1
  sigA = sigA
  sigB = sigB
  Nobody = Nobody
  NULL = NULL
  Designs <- MCDesigns
  MaxHeap = 7
  MaxKey = 3
  Width = 10
  NEXUS_INDEX_MIN = 3
  Triggers <- MCTriggers
  EventControls <- MCEventControls
  MaxSteps = 4
  Never = Never
  Timer = Timer
  Procs = {main, always, post}
  Watches = {}
  Sigs = {sigA, sigB}
  Postponed = {post}
  Vlog = {main, always}
  Timing = {main}
  StaticOn <- StaticAlways
  WatchOn <- WatchS
  Resolved = {}
  NbaDelays = {0}
  ZeroWaits = {main}
  Callbacks = {}
  StopDelta = 2
  StopTime = 1
  MaxTime = 1
INVARIANTS
    QueuedOnce SensitivityKept StepComplete EdgesRight
PROPERTIES
    RegionOrder PendingRuns
