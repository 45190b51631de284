SPECIFICATION Spec
CONSTANTS
  main = main
  post = post
  always = always
  watch1 = watch1
  sigA = sigA
  sigB = sigB
  Nobody = Nobody
  NULL = NULL
  Designs <- MCDesigns
  MaxHeap = 7
  MaxKey = 3
  Width = 10
  NEXUS_INDEX_MIN = 3
  Triggers <- MCTriggers
  EventControls <- MCEventControls
  MaxSteps = 4
  Never = Never
  Timer = Timer
  Procs = {main, post}
  Watches = {watch1}
  Sigs = {sigA}
  Postponed = {post}
  Vlog = {}
  Timing = {}
  StaticOn <- NoStatic
  WatchOn <- WatchS
  Resolved = {sigA}
  NbaDelays = {}
  ZeroWaits = {main}
  Callbacks = {"start", "last", "end_step"}
  StopDelta = 2
  StopTime = 1
  MaxTime = 2
INVARIANTS
    WatchSafe QueuedOnce WaitsKept StepComplete HeapRight NetworkRight SplitsRight
PROPERTY
    RegionOrder
