\* One one-container pod; a container without containerIndex may appear.
CONSTANTS
  p1 = p1
  ForeignPods <- MCForeignPods
  f1 = f1
  f2 = f2
  Ours = Ours
  Other = Other
  None = None
  NoIdx = NoIdx
  Rec = Rec
  InitialContainers <- MCForeignOnly
  MaxVols = 4
  MaxFaults = 1
  ArchChoices = {TRUE}
  ReconcileAll = TRUE
  ExecutorMayRestart = FALSE
  PodIDs = {p1}
  Configs <- MCLiveConfigs
  MaxCtrs = 4
  ContainersMayExit = FALSE
  TaintedMayAppear = TRUE
SPECIFICATION Spec
INVARIANT GetPodsNeverPanics
