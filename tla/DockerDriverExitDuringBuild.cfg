\* One three-container pod whose containers may exit while it is built.
CONSTANTS
  p1 = p1
  ForeignPods <- MCForeignPods
  f1 = f1
  f2 = f2
  Ours = Ours
  Other = Other
  None = None
  NoIdx = NoIdx
  Rec = Rec
  InitialContainers <- MCForeignOnly
  MaxVols = 4
  MaxFaults = 1
  ArchChoices = {TRUE}
  ReconcileAll = TRUE
  ExecutorMayRestart = FALSE
  PodIDs = {p1}
  Configs <- MCConfigs
  MaxCtrs = 6
  ContainersMayExit = TRUE
  TaintedMayAppear = FALSE
SPECIFICATION Spec
INVARIANT NewPodReturnsAllContainers
