CONSTANTS
  s1 = s1
  s2 = s2
  Sessions <- MCSessions
  Targets <- MCTargets
  Codes <- MCCodes
  NeedsStdinEOF = TRUE
  PodKeys <- NewPodKeys
  MayCancel = TRUE
  MaxFaults = 1
SPECIFICATION Spec
INVARIANTS
  TypeOK
  WaitCodeIsCommandExit
  ConnectionOutlivesCopy
PROPERTIES
  WaitEventuallyReturns
