\* Two concurrent pods (three containers and at most one), one fault, a
\* foreign executor's container, exiting containers, a tainted container
\* appearing, and both a known and an unknown architecture.
CONSTANTS
  p1 = p1
  PodIDs = {p1, p2}
  ForeignPods <- MCForeignPods
  f1 = f1
  f2 = f2
  Ours = Ours
  Other = Other
  None = None
  NoIdx = NoIdx
  Rec = Rec
  Configs <- MCConfigs
  InitialContainers <- MCForeignOnly
  MaxCtrs = 10
  MaxVols = 4
  MaxFaults = 1
  ArchChoices = {TRUE, FALSE}
  ContainersMayExit = TRUE
  TaintedMayAppear = TRUE
  ReconcileAll = TRUE
  ExecutorMayRestart = TRUE
SPECIFICATION Spec
INVARIANTS
  TypeOK
  SidecarsWiredToOwnPod
  ToolboxSeededBeforeUse
PROPERTIES
  ReconcilerNeverTouchesPodsInUse
