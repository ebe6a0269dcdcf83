\* Two concurrent one-container pods, one fault or container exit: leftovers are reclaimed.
CONSTANTS
  p1 = p1
  PodIDs = {p1, p2}
  ForeignPods <- MCForeignPods
  f1 = f1
  f2 = f2
  Ours = Ours
  Other = Other
  None = None
  NoIdx = NoIdx
  Rec = Rec
  Configs <- MCLiveConfigs
  InitialContainers <- MCForeignOnly
  MaxCtrs = 5
  MaxVols = 4
  MaxFaults = 1
  ArchChoices = {TRUE}
  ContainersMayExit = TRUE
  TaintedMayAppear = FALSE
  ReconcileAll = TRUE
  ExecutorMayRestart = TRUE
SPECIFICATION Spec
PROPERTIES
  OwnContainersEventuallyRemoved
  PodLifecycleRefined
